--------------------------- MODULE TelemetryBuffer ---------------------------
(***************************************************************************)
(* The telemetry_buffer table between services/edge_worker, which inserts  *)
(* a PENDING row for each valid MQTT message, and services/cloud_sync,     *)
(* which POSTs PENDING rows to Hasura.                                     *)
(*                                                                         *)
(* cloud_sync is one Node.js thread: what runs between two awaits is one   *)
(* step.  setInterval starts a poll whether or not earlier polls have      *)
(* settled, so several calls of syncRecord (chains) may work on one row,   *)
(* each with its own copy of retry_count.  The last_error column is        *)
(* written and never read: it is left out.                                 *)
(***************************************************************************)
EXTENDS Naturals, FiniteSets, FiniteSetsExt

CONSTANTS
  MaxRows,      \* bound on the rows edge_worker inserts
  MaxRetries,   \* config.maxRetries
  Limit,        \* the LIMIT of the poll's SELECT (10 in the code)
  Overlap,      \* bound on the polls that are unsettled at one time
  MaxFailures,  \* bound on 5xx answers and network errors
  MaxCrashes,   \* bound on the restarts of cloud_sync
  Rejected      \* the rows that Hasura answers with a 4xx

ASSUME BoundsAssumption ==
  /\ MaxRows \in Nat /\ MaxFailures \in Nat /\ MaxCrashes \in Nat
  /\ Overlap \in Nat \ {0}
ASSUME ConfigAssumption == MaxRetries \in Nat \ {0} /\ Limit \in Nat \ {0}
ASSUME RejectedAssumption == Rejected \subseteq 1 .. MaxRows

VARIABLES
  rows,         \* the largest id in the table
  sync_status,  \* the columns sync_status and
  retry_count,  \*   retry_count of each row
  chain,        \* chain[p][i]: the call of poll p for row i
  failures,     \* 5xx answers and network errors so far
  crashes,      \* restarts so far
  acked,        \* the rows that got a 2xx answer
  n5xx          \* the 5xx answers to each row's POSTs

vars == <<rows, sync_status, retry_count, chain, failures, crashes, acked, n5xx>>

Ids   == 1 .. MaxRows
Polls == 1 .. Overlap
Idle  == [pc |-> "idle", retry_count |-> 0]

TypeOK ==
  /\ rows \in 0 .. MaxRows
  /\ sync_status \in [Ids -> {"none", "PENDING", "SYNCED", "FAILED"}]
  /\ retry_count \in [Ids -> Nat]
  /\ chain \in [Polls -> [Ids -> [pc : {"idle", "posting", "sleeping"},
                                  retry_count : 0 .. MaxRetries - 1]]]
  /\ failures \in 0 .. MaxFailures
  /\ crashes \in 0 .. MaxCrashes
  /\ acked \subseteq Ids
  /\ n5xx \in [Ids -> Nat]

Init ==
  /\ rows = 0
  /\ sync_status = [i \in Ids |-> "none"]
  /\ retry_count = [i \in Ids |-> 0]
  /\ chain = [p \in Polls |-> [i \in Ids |-> Idle]]
  /\ failures = 0
  /\ crashes = 0
  /\ acked = {}
  /\ n5xx = [i \in Ids |-> 0]

\* edge_worker's handleMessage on a message that validate() accepts.  A message
\* it rejects, or whose INSERT throws, changes nothing.  The payload it stores
\* is the output of JSON.stringify, so cloud_sync can always parse it.
HandleMessage ==
  /\ rows < MaxRows
  /\ rows' = rows + 1
  /\ sync_status' = [sync_status EXCEPT ![rows + 1] = "PENDING"]
  /\ UNCHANGED <<retry_count, chain, failures, crashes, acked, n5xx>>

Pending == {i \in Ids : sync_status[i] = "PENDING"}

\* Mutant: the SELECT without its WHERE clause.
FirstRows == {i \in 1 .. rows : i <= Limit}

\* SELECT ... WHERE sync_status = 'PENDING' ORDER BY id ASC LIMIT 10
Batch == {i \in Pending : Cardinality({j \in Pending : j < i}) < Limit}

\* pollOnce: a chain for each row of the batch, up to its await of fetch().
Poll(p) ==
  /\ \A i \in Ids : chain[p][i] = Idle
  /\ Batch # {}
  /\ chain' = [chain EXCEPT ![p] =
                 [i \in Ids |-> IF i \in Batch
                                  THEN [pc |-> "posting",
                                        retry_count |-> retry_count[i]]
                                  ELSE Idle]]
  /\ UNCHANGED <<rows, sync_status, retry_count, failures, crashes, acked,
                 n5xx>>

Posting(p, i) == chain[p][i].pc = "posting"

\* fetch() resolves with a 2xx.
AnswerOk(p, i) ==
  /\ Posting(p, i)
  /\ i \notin Rejected
  /\ acked' = acked \cup {i}
  /\ sync_status' = [sync_status EXCEPT ![i] = "SYNCED"]
  /\ chain' = [chain EXCEPT ![p][i] = Idle]
  /\ UNCHANGED <<rows, retry_count, failures, crashes, n5xx>>

\* Mutant: the UPDATE before a back-off writes the status with the counter.
Answer5xxPending(p, i) ==
  /\ Posting(p, i)
  /\ failures < MaxFailures
  /\ failures' = failures + 1
  /\ n5xx' = [n5xx EXCEPT ![i] = @ + 1]
  /\ LET attempt == chain[p][i].retry_count + 1 IN
       /\ retry_count' = [retry_count EXCEPT ![i] = attempt]
       /\ sync_status' = [sync_status EXCEPT ![i] =
                            IF attempt >= MaxRetries THEN "FAILED" ELSE "PENDING"]
       /\ chain' = IF attempt >= MaxRetries THEN [chain EXCEPT ![p][i] = Idle]
                   ELSE [chain EXCEPT ![p][i].pc = "sleeping"]
  /\ UNCHANGED <<rows, crashes, acked>>

\* fetch() resolves with a 5xx: FAILED at the last attempt, else back off.
Answer5xx(p, i) ==
  /\ Posting(p, i)
  /\ failures < MaxFailures
  /\ failures' = failures + 1
  /\ n5xx' = [n5xx EXCEPT ![i] = @ + 1]
  /\ LET attempt == chain[p][i].retry_count + 1 IN
       /\ retry_count' = [retry_count EXCEPT ![i] = attempt]
       /\ \/ /\ attempt >= MaxRetries
             /\ sync_status' = [sync_status EXCEPT ![i] = "FAILED"]
             /\ chain' = [chain EXCEPT ![p][i] = Idle]
          \/ /\ attempt < MaxRetries
             /\ chain' = [chain EXCEPT ![p][i].pc = "sleeping"]
             /\ UNCHANGED sync_status
  /\ UNCHANGED <<rows, crashes, acked>>

\* fetch() resolves with a 4xx: the row stays PENDING.
Answer4xx(p, i) ==
  /\ Posting(p, i)
  /\ i \in Rejected
  /\ chain' = [chain EXCEPT ![p][i] = Idle]
  /\ UNCHANGED <<rows, sync_status, retry_count, failures, crashes, acked,
                 n5xx>>

\* Mutant: a network error counts as an attempt.
NetworkErrorCounted(p, i) ==
  /\ Posting(p, i)
  /\ failures < MaxFailures
  /\ failures' = failures + 1
  /\ retry_count' = [retry_count EXCEPT ![i] = chain[p][i].retry_count + 1]
  /\ chain' = [chain EXCEPT ![p][i] = Idle]
  /\ UNCHANGED <<rows, sync_status, crashes, acked, n5xx>>

\* fetch() rejects: the chain ends and the row stays PENDING.
NetworkError(p, i) ==
  /\ Posting(p, i)
  /\ failures < MaxFailures
  /\ failures' = failures + 1
  /\ chain' = [chain EXCEPT ![p][i] = Idle]
  /\ UNCHANGED <<rows, sync_status, retry_count, crashes, acked, n5xx>>

\* The back-off ends: the row is read again and POSTed if still PENDING.
Wake(p, i) ==
  /\ chain[p][i].pc = "sleeping"
  /\ chain' = [chain EXCEPT ![p][i] =
                 IF sync_status[i] = "PENDING"
                   THEN [pc |-> "posting", retry_count |-> retry_count[i]]
                   ELSE Idle]
  /\ UNCHANGED <<rows, sync_status, retry_count, failures, crashes, acked,
                 n5xx>>

\* The process ends (a crash, or shutdown() with requests in flight) and is
\* started again; the table survives, the chains do not.
Restart ==
  /\ crashes < MaxCrashes
  /\ crashes' = crashes + 1
  /\ chain' = [p \in Polls |-> [i \in Ids |-> Idle]]
  /\ UNCHANGED <<rows, sync_status, retry_count, failures, acked, n5xx>>

Step(p, i) ==
  AnswerOk(p, i) \/ Answer5xx(p, i) \/ Answer4xx(p, i) \/ NetworkError(p, i)
    \/ Wake(p, i)

\* Every row is settled and no chain is left.
Drained ==
  /\ rows = MaxRows
  /\ Pending = {}
  /\ \A p \in Polls, i \in Ids : chain[p][i] = Idle
  /\ UNCHANGED vars

Next ==
  \/ HandleMessage
  \/ \E p \in Polls : Poll(p)
  \/ \E p \in Polls, i \in Ids : Step(p, i)
  \/ Restart
  \/ Drained

Spec == Init /\ [][Next]_vars

\* The interval keeps firing, every fetch() settles and every sleep ends.
FairSpec ==
  /\ Spec
  /\ \A p \in Polls : WF_vars(Poll(p))
  /\ \A p \in Polls, i \in Ids : WF_vars(Step(p, i))

-----------------------------------------------------------------------------
(* Properties                                                              *)

\* FAILED is not premature: a row is given up only after maxRetries 5xx
\* answers, however its polls overlap and however often the service restarts,
\* and its counter never runs ahead of the answers.  The types are part of it.
FailedAfterMaxRetries ==
  /\ TypeOK
  /\ \A i \in Ids :
       /\ retry_count[i] <= n5xx[i]
       /\ sync_status[i] = "FAILED" => n5xx[i] >= MaxRetries

\* As long as fewer than Limit rows are rejected for good, every other row is
\* settled: neither a lost request, a restart nor a rejected row ahead of it
\* leaves it PENDING for ever.
AcceptableRowsSettle ==
  \A i \in Ids \ Rejected :
    sync_status[i] = "PENDING" ~> sync_status[i] \in {"SYNCED", "FAILED"}

\* cloud_sync.js: "On HTTP 2xx: marks the record as SYNCED", so a record that
\* was accepted once is not FAILED.
AcceptedNotFailed == \A i \in acked : sync_status[i] # "FAILED"
-----------------------------------------------------------------------------
(* The outbox that the two services promise                                *)

Promise == INSTANCE Outbox WITH
  Items     <- Ids,
  taken     <- 1 .. rows,
  held      <- Pending,
  delivered <- acked,
  reported  <- {i \in Ids : sync_status[i] = "FAILED"}

\* SYNCED is never claimed for a row that Hasura did not accept.
SyncedWasAcknowledged == \A i \in Ids : sync_status[i] = "SYNCED" => i \in acked

\* However polls overlap and whenever cloud_sync restarts, a row leaves PENDING
\* only for SYNCED after a 2xx or for FAILED, and never comes back to it.
ImplementsOutbox == Promise!Spec
=============================================================================
