------------------------- MODULE TelemetryBufferProofs -------------------------
(***************************************************************************)
(* Proofs about TelemetryBuffer for any number of rows, retries, polls that*)
(* overlap, failures and restarts.                                         *)
(***************************************************************************)
EXTENDS TelemetryBuffer, TLAPS

USE BoundsAssumption, ConfigAssumption, RejectedAssumption

Calls  == [pc : {"idle", "posting", "sleeping"}, retry_count : 0 .. MaxRetries - 1]
Chains == [Polls -> [Ids -> Calls]]

\* Rows that edge_worker has not inserted yet have no status and no call.
Unborn ==
  \A i \in Ids : i > rows =>
    sync_status[i] = "none" /\ \A p \in Polls : chain[p][i].pc = "idle"

\* A row that a poll may select has attempts left.
PendingHasRetries ==
  \A i \in Ids : sync_status[i] \in {"none", "PENDING"} => retry_count[i] < MaxRetries

\* A call carries a count that answers have justified, however stale it is.
CallsBehindAnswers ==
  \A p \in Polls, i \in Ids : chain[p][i].retry_count <= n5xx[i]

IInv ==
  /\ TypeOK /\ Unborn /\ PendingHasRetries /\ CallsBehindAnswers
  /\ FailedAfterMaxRetries

-----------------------------------------------------------------------------
(* Calls                                                                   *)

\* The step gives poll p another call for row i.
Replace(p, i, call) == chain' = [chain EXCEPT ![p][i] = call]

\* A call that has ended is a call.
LEMMA IdleIsCall == Idle \in Calls
BY DEF Idle, Calls

\* A step of one call leaves the others alone.
LEMMA OneCall ==
  ASSUME chain \in Chains, NEW p \in Polls, NEW i \in Ids, NEW call \in Calls,
         Replace(p, i, call)
  PROVE  /\ chain' \in Chains
         /\ \A q \in Polls, j \in Ids :
              chain'[q][j] = IF q = p /\ j = i THEN call ELSE chain[q][j]
<1>1. [chain[p] EXCEPT ![i] = call] \in [Ids -> Calls]
  BY DEF Chains
<1>2. chain' = [chain EXCEPT ![p] = [chain[p] EXCEPT ![i] = call]]
  BY DEF Replace, Chains
<1> QED
  BY <1>1, <1>2 DEF Chains

-----------------------------------------------------------------------------
(* The steps                                                               *)

\* The parts of the invariant that speak of calls, for a step after which the
\* call of p for row i is another one.
LEMMA CallChanged ==
  ASSUME TypeOK, Unborn, CallsBehindAnswers, NEW p \in Polls, NEW i \in Ids,
         NEW call \in Calls, Replace(p, i, call),
         chain[p][i].pc # "idle",
         rows' = rows, \A j \in Ids : n5xx'[j] \in Nat /\ n5xx[j] <= n5xx'[j],
         \A j \in Ids : j # i => sync_status'[j] = sync_status[j],
         call.retry_count <= n5xx'[i]
  PROVE  chain' \in Chains /\ Unborn' /\ CallsBehindAnswers' /\ i <= rows
<1>1. chain \in Chains
  BY DEF TypeOK, Chains, Calls
<1>2. /\ chain' \in Chains
      /\ \A q \in Polls, j \in Ids :
           chain'[q][j] = IF q = p /\ j = i THEN call ELSE chain[q][j]
  BY <1>1, OneCall
<1>3. rows \in Nat /\ i \in Nat
  BY DEF TypeOK, Ids
<1>4. i <= rows
  BY <1>3 DEF Unborn
<1>5. Unborn'
  BY <1>2, <1>3, <1>4 DEF Unborn
<1>6. CallsBehindAnswers'
  <2> SUFFICES ASSUME NEW q \in Polls, NEW j \in Ids
               PROVE  chain'[q][j].retry_count <= n5xx'[j]
    BY DEF CallsBehindAnswers
  <2>1. chain[q][j].retry_count \in Nat /\ n5xx[j] \in Nat
    BY <1>1 DEF Chains, Calls, TypeOK
  <2>2. chain[q][j].retry_count <= n5xx[j]
    BY DEF CallsBehindAnswers
  <2> QED
    BY <1>2, <2>1, <2>2
<1> QED
  BY <1>2, <1>4, <1>5, <1>6

\* An answer, an error or the end of a sleep.
LEMMA StepKeeps ==
  ASSUME IInv, NEW p \in Polls, NEW i \in Ids, Step(p, i)
  PROVE  IInv'
<1> USE DEF IInv
<1>a. chain[p][i] \in Calls
  BY DEF TypeOK, Calls
<1>b. \A j \in Ids : n5xx[j] \in Nat /\ retry_count[j] \in Nat
  BY DEF TypeOK
<1>1. CASE AnswerOk(p, i)
  <2>a. Replace(p, i, Idle) /\ chain[p][i].pc # "idle"
        /\ UNCHANGED <<rows, n5xx>> /\ Idle.retry_count <= n5xx[i]
    BY <1>1, <1>b DEF AnswerOk, Posting, Replace, Idle
  <2>b. \A j \in Ids : j # i => sync_status'[j] = sync_status[j]
    BY <1>1 DEF AnswerOk, TypeOK
  <2>1. chain' \in Chains /\ Unborn' /\ CallsBehindAnswers'
    BY <2>a, <2>b, <1>b, IdleIsCall, CallChanged
  <2>2. TypeOK'
    BY <1>1, <2>1 DEF AnswerOk, TypeOK, Chains, Calls
  <2> QED
    BY <1>1, <2>1, <2>2 DEF AnswerOk, TypeOK, PendingHasRetries,
                             FailedAfterMaxRetries
<1>2. CASE Answer4xx(p, i) \/ NetworkError(p, i)
  <2>a. Replace(p, i, Idle) /\ chain[p][i].pc # "idle"
        /\ UNCHANGED <<rows, n5xx, sync_status>> /\ Idle.retry_count <= n5xx[i]
    BY <1>2, <1>b DEF Answer4xx, NetworkError, Posting, Replace, Idle
  <2>1. chain' \in Chains /\ Unborn' /\ CallsBehindAnswers'
    BY <2>a, <1>b, IdleIsCall, CallChanged
  <2>2. TypeOK'
    BY <1>2, <2>1 DEF Answer4xx, NetworkError, TypeOK, Chains, Calls
  <2> QED
    BY <1>2, <2>1, <2>2 DEF Answer4xx, NetworkError, PendingHasRetries,
                             FailedAfterMaxRetries
<1>3. CASE Wake(p, i)
  <2> DEFINE call == IF sync_status[i] = "PENDING"
                       THEN [pc |-> "posting", retry_count |-> retry_count[i]]
                       ELSE Idle
  <2>1. call \in Calls
    BY <1>b, IdleIsCall DEF Calls, PendingHasRetries
  <2>2. call.retry_count <= n5xx[i]
    BY <1>b DEF Idle, FailedAfterMaxRetries
  <2>3. /\ Replace(p, i, call)
        /\ chain[p][i].pc # "idle"
        /\ UNCHANGED <<rows, sync_status, retry_count, failures, crashes, acked, n5xx>>
    BY <1>3 DEF Wake, Replace
  <2> HIDE DEF call
  <2>4. chain' \in Chains /\ Unborn' /\ CallsBehindAnswers'
    BY <1>b, <2>1, <2>2, <2>3, CallChanged
  <2>5. TypeOK'
    BY <2>3, <2>4 DEF TypeOK, Chains, Calls
  <2> QED
    BY <2>3, <2>4, <2>5 DEF PendingHasRetries, FailedAfterMaxRetries
<1>4. CASE Answer5xx(p, i)
  <2> DEFINE attempt == chain[p][i].retry_count + 1
  <2>1. attempt \in Nat /\ attempt <= n5xx[i] + 1
    BY <1>a, <1>b DEF Calls, CallsBehindAnswers
  <2>2. /\ n5xx' = [n5xx EXCEPT ![i] = @ + 1]
        /\ retry_count' = [retry_count EXCEPT ![i] = attempt]
        /\ failures' = failures + 1 /\ failures < MaxFailures
        /\ chain[p][i].pc # "idle"
        /\ UNCHANGED <<rows, crashes, acked>>
    BY <1>4 DEF Answer5xx, Posting
  <2>3. /\ n5xx' \in [Ids -> Nat] /\ retry_count' \in [Ids -> Nat]
        /\ n5xx'[i] = n5xx[i] + 1 /\ retry_count'[i] = attempt
        /\ \A j \in Ids : n5xx[j] <= n5xx'[j] /\ n5xx'[j] \in Nat
        /\ \A j \in Ids : j # i => n5xx'[j] = n5xx[j] /\ retry_count'[j] = retry_count[j]
    <3>1. n5xx \in [Ids -> Nat] /\ retry_count \in [Ids -> Nat]
      BY DEF TypeOK
    <3> HIDE DEF attempt
    <3> QED
      BY <2>1, <2>2, <3>1
  <2>4. failures' \in 0 .. MaxFailures
    BY <2>2 DEF TypeOK
  <2>5. CASE attempt >= MaxRetries
    <3>1. /\ Replace(p, i, Idle)
          /\ sync_status' = [sync_status EXCEPT ![i] = "FAILED"]
      BY <1>4, <2>1, <2>5 DEF Answer5xx, Replace
    <3> HIDE DEF attempt
    <3>2. sync_status' \in [Ids -> {"none", "PENDING", "SYNCED", "FAILED"}]
          /\ sync_status'[i] = "FAILED"
          /\ \A j \in Ids : j # i => sync_status'[j] = sync_status[j]
      BY <3>1 DEF TypeOK
    <3>3. chain' \in Chains /\ Unborn' /\ CallsBehindAnswers'
      <4>1. Idle.retry_count <= n5xx'[i]
        BY <2>3 DEF Idle
      <4> QED
        BY <2>2, <2>3, <3>1, <3>2, <4>1, IdleIsCall, CallChanged
    <3>4. TypeOK'
      BY <2>2, <2>3, <2>4, <3>2, <3>3 DEF TypeOK, Chains, Calls
    <3>5. PendingHasRetries'
      BY <2>3, <3>2 DEF PendingHasRetries
    <3>6. FailedAfterMaxRetries'
      BY <1>b, <2>1, <2>3, <2>5, <3>2, <3>4 DEF FailedAfterMaxRetries
    <3> QED
      BY <3>3, <3>4, <3>5, <3>6
  <2>6. CASE attempt < MaxRetries
    <3> DEFINE call == [chain[p][i] EXCEPT !.pc = "sleeping"]
    <3>1. call \in Calls /\ call.retry_count = chain[p][i].retry_count
      BY <1>a DEF Calls
    <3>2. Replace(p, i, call) /\ sync_status' = sync_status
      <4>1. chain' = [chain EXCEPT ![p][i].pc = "sleeping"] /\ sync_status' = sync_status
        BY <1>4, <2>1, <2>6 DEF Answer5xx
      <4> QED
        BY <4>1 DEF Replace
    <3>3. call.retry_count <= n5xx'[i]
      BY <1>a, <1>b, <2>1, <2>3, <3>1 DEF Calls
    <3> HIDE DEF attempt, call
    <3>4. chain' \in Chains /\ Unborn' /\ CallsBehindAnswers'
      BY <2>2, <2>3, <3>1, <3>2, <3>3, CallChanged
    <3>5. TypeOK'
      BY <2>2, <2>3, <2>4, <3>2, <3>4 DEF TypeOK, Chains, Calls
    <3>6. PendingHasRetries'
      BY <2>3, <2>6, <3>2 DEF PendingHasRetries
    <3>7. FailedAfterMaxRetries'
      BY <1>b, <2>1, <2>3, <3>2, <3>5 DEF FailedAfterMaxRetries
    <3> QED
      BY <3>4, <3>5, <3>6, <3>7
  <2> QED
    BY <2>1, <2>5, <2>6
<1> QED
  BY <1>1, <1>2, <1>3, <1>4 DEF Step

\* edge_worker inserts a row.
LEMMA MessageKeeps == IInv /\ HandleMessage => IInv'
<1> SUFFICES ASSUME IInv, HandleMessage PROVE IInv'
  OBVIOUS
<1> USE DEF IInv
<1>1. rows \in Nat /\ rows + 1 \in Ids /\ rows' = rows + 1
  BY DEF HandleMessage, Ids, TypeOK
<1>2. /\ sync_status' \in [Ids -> {"none", "PENDING", "SYNCED", "FAILED"}]
      /\ sync_status[rows + 1] = "none" /\ sync_status'[rows + 1] = "PENDING"
      /\ \A j \in Ids : j # rows + 1 => sync_status'[j] = sync_status[j]
      /\ UNCHANGED <<retry_count, chain, failures, crashes, acked, n5xx>>
  BY <1>1 DEF HandleMessage, TypeOK, Unborn
<1>3. TypeOK'
  BY <1>1, <1>2 DEF TypeOK, Ids
<1>4. Unborn' /\ PendingHasRetries' /\ CallsBehindAnswers' /\ FailedAfterMaxRetries'
  BY <1>1, <1>2, <1>3 DEF Unborn, PendingHasRetries, CallsBehindAnswers,
                         FailedAfterMaxRetries, Ids
<1> QED
  BY <1>3, <1>4

\* The calls of a poll, or of a restart, for steps that change nothing else.
LEMMA CallsReplaced ==
  ASSUME IInv, chain' \in Chains, crashes' \in 0 .. MaxCrashes,
         UNCHANGED <<rows, sync_status, retry_count, failures, acked, n5xx>>,
         \A q \in Polls, j \in Ids :
           \/ chain'[q][j] = chain[q][j]
           \/ /\ chain'[q][j].retry_count <= n5xx[j]
              /\ chain'[q][j].pc # "idle" => j <= rows
  PROVE  IInv'
<1> USE DEF IInv
<1>1. TypeOK'
  BY DEF TypeOK, Chains, Calls
<1>2. Unborn'
  <2>1. rows \in Nat /\ \A j \in Ids : j \in Nat
    BY DEF TypeOK, Ids
  <2> QED
    BY <2>1 DEF Unborn
<1>3. CallsBehindAnswers'
  BY DEF CallsBehindAnswers
<1>4. PendingHasRetries' /\ FailedAfterMaxRetries'
  BY <1>1 DEF PendingHasRetries, FailedAfterMaxRetries
<1> QED
  BY <1>1, <1>2, <1>3, <1>4

\* A poll makes a call for each row it selects.
LEMMA PollKeeps ==
  ASSUME IInv, NEW p \in Polls, Poll(p)
  PROVE  IInv'
<1> USE DEF IInv
<1> DEFINE call(i) == IF i \in Batch
                        THEN [pc |-> "posting", retry_count |-> retry_count[i]]
                        ELSE Idle
<1>1. chain' = [chain EXCEPT ![p] = [i \in Ids |-> call(i)]]
      /\ UNCHANGED <<rows, sync_status, retry_count, failures, crashes, acked, n5xx>>
  BY DEF Poll
<1>2. ASSUME NEW i \in Ids
      PROVE  /\ call(i) \in Calls /\ call(i).retry_count <= n5xx[i]
             /\ call(i).pc # "idle" => i <= rows
  <2>1. retry_count[i] \in Nat /\ n5xx[i] \in Nat /\ rows \in Nat /\ i \in Nat
    BY DEF TypeOK, Ids
  <2>2. i \in Batch => sync_status[i] = "PENDING"
    BY DEF Batch, Pending
  <2> QED
    BY <2>1, <2>2, IdleIsCall
    DEF Calls, Idle, PendingHasRetries, FailedAfterMaxRetries, Unborn
<1> HIDE DEF call
<1>3. chain \in Chains /\ crashes \in 0 .. MaxCrashes
  BY DEF TypeOK, Chains, Calls
<1>4. [i \in Ids |-> call(i)] \in [Ids -> Calls]
  BY <1>2
<1>5. chain' \in Chains
  BY <1>1, <1>3, <1>4 DEF Chains
<1>6. \A q \in Polls, j \in Ids :
        chain'[q][j] = IF q = p THEN call(j) ELSE chain[q][j]
  BY <1>1, <1>3 DEF Chains
<1> QED
  BY <1>1, <1>2, <1>3, <1>5, <1>6, CallsReplaced

\* A restart ends every call.
LEMMA RestartKeeps == IInv /\ Restart => IInv'
<1> SUFFICES ASSUME IInv, Restart PROVE IInv'
  OBVIOUS
<1>1. /\ crashes' \in 0 .. MaxCrashes
      /\ UNCHANGED <<rows, sync_status, retry_count, failures, acked, n5xx>>
  BY DEF Restart, IInv, TypeOK
<1>2. chain' \in Chains /\ \A q \in Polls, j \in Ids : chain'[q][j] = Idle
  BY IdleIsCall DEF Restart, Chains
<1>3. \A j \in Ids : n5xx[j] \in Nat
  BY DEF IInv, TypeOK
<1>4. \A q \in Polls, j \in Ids :
        /\ chain'[q][j].retry_count <= n5xx[j]
        /\ chain'[q][j].pc # "idle" => j <= rows
  BY <1>2, <1>3 DEF Idle
<1> QED
  BY <1>1, <1>2, <1>4, CallsReplaced

\* The inductive invariant.
LEMMA Inductive == Spec => []IInv
<1>1. Init => IInv
  BY DEF Init, Idle, Ids, IInv, TypeOK, Unborn, PendingHasRetries, CallsBehindAnswers,
         FailedAfterMaxRetries
<1>2. IInv /\ [Next]_vars => IInv'
  <2> SUFFICES ASSUME IInv, [Next]_vars PROVE IInv'
    OBVIOUS
  <2>1. CASE UNCHANGED vars \/ Drained
    BY <2>1 DEF Drained, vars, IInv, TypeOK, Unborn, PendingHasRetries,
                CallsBehindAnswers, FailedAfterMaxRetries
  <2>2. CASE Next /\ ~Drained
    BY <2>2, StepKeeps, MessageKeeps, PollKeeps, RestartKeeps DEF Next
  <2> QED
    BY <2>1, <2>2
<1> QED
  BY <1>1, <1>2, PTL DEF Spec

-----------------------------------------------------------------------------

\* cloud_sync gives a row up only after maxRetries answers of 5xx.
THEOREM FailedCorrect == Spec => []FailedAfterMaxRetries
<1>1. IInv => FailedAfterMaxRetries
  BY DEF IInv
<1> QED
  BY <1>1, Inductive, PTL

-----------------------------------------------------------------------------
(* The outbox                                                              *)

Failed == {i \in Ids : sync_status[i] = "FAILED"}

\* Steps that write neither sync_status nor acked are hidden from the outbox.
LEMMA StatusHidden ==
  ASSUME UNCHANGED <<rows, sync_status, acked>>
  PROVE  UNCHANGED Promise!vars
BY DEF Promise!vars, Pending

\* The INSERT of edge_worker is a new item.
LEMMA MessageTakes ==
  ASSUME IInv, HandleMessage
  PROVE  Promise!Next
<1>1. /\ rows \in Nat /\ rows + 1 \in Ids /\ rows' = rows + 1
      /\ rows + 1 \notin 1 .. rows /\ 1 .. rows' = (1 .. rows) \cup {rows + 1}
  BY DEF IInv, HandleMessage, Ids, TypeOK
<1>2. /\ sync_status[rows + 1] = "none" /\ sync_status'[rows + 1] = "PENDING"
      /\ \A j \in Ids : j # rows + 1 => sync_status'[j] = sync_status[j]
      /\ acked' = acked
  BY <1>1 DEF IInv, HandleMessage, TypeOK, Unborn
<1>3. Pending' = (Pending \ {}) \cup {rows + 1} /\ Failed' = Failed \cup {}
  BY <1>1, <1>2 DEF Pending, Failed
<1>4. Promise!Take(rows + 1, {})
  BY <1>1, <1>2, <1>3 DEF Promise!Take, Failed
<1> QED
  BY <1>1, <1>4 DEF Promise!Next

\* A 2xx is a delivery that the sender learns of, whatever the row's status was.
LEMMA AnswerDelivers ==
  ASSUME IInv, NEW p \in Polls, NEW i \in Ids, AnswerOk(p, i)
  PROVE  Promise!Next
<1>1. /\ rows \in Nat /\ i \in 1 .. rows /\ rows' = rows
      /\ acked' = acked \cup {i}
      /\ sync_status'[i] = "SYNCED"
      /\ \A j \in Ids : j # i => sync_status'[j] = sync_status[j]
  BY DEF IInv, AnswerOk, Posting, TypeOK, Unborn, Ids
<1>2. Pending' = Pending \ {i} /\ Failed' = Failed \ {i}
  BY <1>1 DEF Pending, Failed
<1>3. Promise!Deliver({i}, {i})
  BY <1>1, <1>2 DEF Promise!Deliver, Failed
<1> QED
  BY <1>1, <1>3 DEF Promise!Next

\* The last 5xx gives the row up; the ones before it are hidden.
LEMMA Answer5xxGivesUp ==
  ASSUME IInv, NEW p \in Polls, NEW i \in Ids, Answer5xx(p, i)
  PROVE  Promise!Next \/ UNCHANGED Promise!vars
<1>1. /\ rows \in Nat /\ i \in 1 .. rows /\ rows' = rows /\ acked' = acked
      /\ \/ sync_status' = sync_status
         \/ sync_status' = [sync_status EXCEPT ![i] = "FAILED"]
  <2>1. /\ chain[p][i].pc = "posting" /\ rows' = rows /\ acked' = acked
        /\ \/ sync_status' = sync_status
           \/ sync_status' = [sync_status EXCEPT ![i] = "FAILED"]
    BY DEF Answer5xx, Posting
  <2>2. rows \in Nat /\ i \in Nat /\ i >= 1 /\ i <= rows
    BY <2>1 DEF IInv, TypeOK, Unborn, Ids
  <2> QED
    BY <2>1, <2>2
<1>2. CASE sync_status' = sync_status
  BY <1>1, <1>2, StatusHidden
<1>3. CASE sync_status' = [sync_status EXCEPT ![i] = "FAILED"]
  <2>1. /\ sync_status'[i] = "FAILED"
        /\ \A j \in Ids : j # i => sync_status'[j] = sync_status[j]
    BY <1>3 DEF IInv, TypeOK
  <2>2. Pending' = Pending \ {i} /\ Failed' = Failed \cup {i}
    BY <2>1 DEF Pending, Failed
  <2>3. Promise!GiveUp({i}, {})
    BY <1>1, <2>2 DEF Promise!GiveUp, Failed
  <2> QED
    BY <1>1, <2>3 DEF Promise!Next
<1> QED
  BY <1>1, <1>2, <1>3

\* edge_worker, the table and cloud_sync implement an outbox: a row leaves PENDING
\* only for SYNCED after a 2xx or for FAILED, and never comes back to it.
THEOREM OutboxCorrect == Spec => ImplementsOutbox
<1>1. Init => Promise!Init
  <2> SUFFICES ASSUME Init PROVE Promise!Init
    OBVIOUS
  <2>1. 1 .. rows = {}
    BY DEF Init
  <2> QED
    BY <2>1 DEF Init, Promise!Init, Pending
<1>2. IInv /\ [Next]_vars => [Promise!Next]_(Promise!vars)
  <2> SUFFICES ASSUME IInv, [Next]_vars PROVE Promise!Next \/ UNCHANGED Promise!vars
    OBVIOUS
  <2>1. CASE UNCHANGED vars \/ Drained \/ Restart \/ \E p \in Polls : Poll(p)
    BY <2>1, StatusHidden DEF vars, Drained, Restart, Poll
  <2>2. CASE HandleMessage
    BY <2>2, MessageTakes
  <2>3. ASSUME NEW p \in Polls, NEW i \in Ids, Step(p, i)
        PROVE  Promise!Next \/ UNCHANGED Promise!vars
    BY <2>3, AnswerDelivers, Answer5xxGivesUp, StatusHidden
    DEF Step, Answer4xx, NetworkError, Wake
  <2> QED
    BY <2>1, <2>2, <2>3 DEF Next
<1> QED
  BY <1>1, <1>2, Inductive, PTL DEF Spec, ImplementsOutbox, Promise!Spec

\* What the outbox promises at all times: an item that the sender has let go of is
\* delivered or reported.
LEMMA NothingForgotten ==
  Promise!Spec => [](1 .. rows \subseteq Pending \cup acked \cup Failed)
<1> DEFINE Inv == 1 .. rows \subseteq Pending \cup acked \cup Failed
<1>1. Promise!Init => Inv
  BY DEF Promise!Init
<1>2. Inv /\ [Promise!Next]_(Promise!vars) => Inv'
  <2> SUFFICES ASSUME Inv, Promise!Next \/ UNCHANGED Promise!vars PROVE Inv'
    OBVIOUS
  <2>1. CASE UNCHANGED Promise!vars
    BY <2>1 DEF Promise!vars, Failed
  <2>2. ASSUME NEW new \in Ids, NEW old \in SUBSET Pending, Promise!Take(new, old)
        PROVE  Inv'
    BY <2>2 DEF Promise!Take, Failed
  <2>3. ASSUME NEW items \in SUBSET (1 .. rows), NEW some \in SUBSET items,
               Promise!Deliver(items, some) \/ Promise!GiveUp(items, some)
        PROVE  Inv'
    BY <2>3 DEF Promise!Deliver, Promise!GiveUp, Failed
  <2> QED
    BY <2>1, <2>2, <2>3 DEF Promise!Next
<1> QED
  BY <1>1, <1>2, PTL DEF Promise!Spec

\* cloud_sync marks a row SYNCED only after a 2xx.
THEOREM SyncedCorrect == Spec => []SyncedWasAcknowledged
<1>1. IInv /\ 1 .. rows \subseteq Pending \cup acked \cup Failed => SyncedWasAcknowledged
  BY DEF IInv, TypeOK, Unborn, Pending, Failed, Ids, SyncedWasAcknowledged
<1> QED
  BY <1>1, Inductive, OutboxCorrect, NothingForgotten, PTL DEF ImplementsOutbox
=============================================================================
