-------------------------- MODULE GatewayTranslator --------------------------
(***************************************************************************)
(* gateway_translator (edge_ops/gateway_translator): the paho thread puts  *)
(* decoded Modbus entries in GatewayWorker's bounded buffer; main() drains *)
(* it every second, inserts the batch into Hasura and puts the entries of  *)
(* a failed batch back.                                                    *)
(*                                                                         *)
(* An entry is the number of its arrival.  A step is one critical section  *)
(* of GatewayWorker's lock, one POST or one test of the shutdown flag.     *)
(***************************************************************************)
EXTENDS Naturals, Sequences, FiniteSets

CONSTANTS
  MaxBuffer,   \* GatewayWorker's max_buffer (1000), 0 for unlimited
  Attempts,    \* Len(_RETRY_BACKOFFS) (3)
  MaxEntries,  \* bound on the entries that arrive
  Bad          \* the entries Hasura answers with a 4xx, whatever the batch

ASSUME MaxBufferAssumption  == MaxBuffer \in Nat
ASSUME AttemptsAssumption   == Attempts \in Nat \ {0}
ASSUME MaxEntriesAssumption == MaxEntries \in Nat
ASSUME BadAssumption        == Bad \subseteq 1 .. MaxEntries

VARIABLES
  arrived,              \* the number of entries decoded so far
  drained,              \* the number of those that the final flush drained from
  buffer,               \* GatewayWorker._buffer
  dropped_count,        \* GatewayWorker._dropped_count
  evicted,              \* the entries enqueue_telemetry has dropped
  main_pc,              \* where main() is
  batch,                \* main()'s batch, then the rest of it to re-queue
  attempt,              \* the attempt of insert_telemetry_batch, from 1
  stored,               \* the rows of norvi_telemetry
  lost,                 \* the entries of a final flush that failed
  refused,              \* the entries of batches that were answered with 4xx
  shutdown_requested    \* _shutdown_requested

arrivals   == <<arrived, drained>>
workerVars == <<buffer, dropped_count, evicted>>
mainVars   == <<main_pc, batch, attempt, lost, refused>>
vars == <<arrivals, workerVars, mainVars, stored, shutdown_requested>>

Entries == 1 .. MaxEntries
MainPCs == {"check", "poll", "post", "requeue", "final", "final_post", "stop",
            "stopped"}
Elems(q) == {q[k] : k \in DOMAIN q}

TypeOK ==
  /\ arrived \in 0 .. MaxEntries /\ drained \in 0 .. MaxEntries
  /\ buffer \in Seq(Entries)
  /\ dropped_count \in Nat
  /\ evicted \subseteq Entries
  /\ main_pc \in MainPCs
  /\ batch \in Seq(Entries)
  /\ attempt \in 1 .. Attempts
  /\ stored \subseteq Entries
  /\ lost \subseteq Entries
  /\ refused \subseteq Entries
  /\ shutdown_requested \in BOOLEAN

Init ==
  /\ arrived = 0 /\ drained = 0
  /\ buffer = <<>>
  /\ dropped_count = 0
  /\ evicted = {}
  /\ main_pc = "check"
  /\ batch = <<>>
  /\ attempt = 1
  /\ stored = {}
  /\ lost = {}
  /\ refused = {}
  /\ shutdown_requested = FALSE

-----------------------------------------------------------------------------

\* Mutant: the buffer is bounded after the append, one entry too low.
EnqueueEager(e) ==
  IF MaxBuffer > 0 /\ Len(buffer) + 1 >= MaxBuffer /\ buffer # <<>>
    THEN /\ buffer' = Append(Tail(buffer), e)
         /\ dropped_count' = dropped_count + 1
         /\ evicted' = evicted \cup {Head(buffer)}
    ELSE /\ buffer' = Append(buffer, e)
         /\ UNCHANGED <<dropped_count, evicted>>

\* enqueue_telemetry, under the lock: at the bound buffer.pop(0), then append.
Enqueue(e) ==
  IF MaxBuffer > 0 /\ Len(buffer) >= MaxBuffer
    THEN /\ buffer' = Append(Tail(buffer), e)
         /\ dropped_count' = dropped_count + 1
         /\ evicted' = evicted \cup {Head(buffer)}
    ELSE /\ buffer' = Append(buffer, e)
         /\ UNCHANGED <<dropped_count, evicted>>

\* _on_message, one node of the payload; its thread runs until worker.stop().
OnMessage ==
  /\ main_pc # "stopped"
  /\ arrived < MaxEntries
  /\ arrived' = arrived + 1
  /\ Enqueue(arrived + 1)
  /\ UNCHANGED <<drained, mainVars, stored, shutdown_requested>>

\* Mutant: the buffer is copied, not swapped.
DrainCopies ==
  /\ batch' = buffer
  /\ UNCHANGED workerVars

\* drain_buffer, under the lock.
Drain ==
  /\ batch' = buffer
  /\ buffer' = <<>>
  /\ UNCHANGED <<dropped_count, evicted>>

\* while not _shutdown_requested
Check ==
  /\ main_pc = "check"
  /\ main_pc' = IF shutdown_requested THEN "final" ELSE "poll"
  /\ UNCHANGED <<arrivals, workerVars, batch, attempt, lost, refused,
                 stored, shutdown_requested>>

\* The sleep of one second ends and main() drains the buffer.
Poll ==
  /\ main_pc = "poll"
  /\ Drain
  /\ main_pc' = IF buffer = <<>> THEN "check" ELSE "post"
  /\ UNCHANGED <<arrivals, attempt, lost, refused, stored, shutdown_requested>>

\* Mutant: the final flush is left out.
FinalDrainSkipped ==
  /\ main_pc = "final"
  /\ drained' = arrived
  /\ main_pc' = "stop"
  /\ UNCHANGED <<arrived, workerVars, batch, attempt, lost, refused, stored,
                 shutdown_requested>>

\* The drain of the final flush, after the loop.
FinalDrain ==
  /\ main_pc = "final"
  /\ Drain
  /\ drained' = arrived
  /\ main_pc' = IF buffer = <<>> THEN "stop" ELSE "final_post"
  /\ UNCHANGED <<arrived, attempt, lost, refused, stored, shutdown_requested>>

Posting == main_pc \in {"post", "final_post"}

\* insert_telemetry_batch returned True.
Inserted ==
  /\ main_pc' = IF main_pc = "post" THEN "check" ELSE "stop"
  /\ batch' = <<>>
  /\ attempt' = 1
  /\ UNCHANGED lost

\* Mutant: the entries of a failed batch are not put back.
NotInsertedForgotten ==
  /\ main_pc' = IF main_pc = "post" THEN "check" ELSE "stop"
  /\ batch' = <<>>
  /\ attempt' = 1
  /\ UNCHANGED lost

\* It returned False: re-queue the batch, or lose it in the final flush.
NotInserted ==
  /\ attempt' = 1
  /\ \/ /\ main_pc = "post"
        /\ main_pc' = "requeue"
        /\ UNCHANGED <<batch, lost>>
     \/ /\ main_pc = "final_post"
        /\ main_pc' = "stop"
        /\ batch' = <<>>
        /\ lost' = lost \cup Elems(batch)

\* A 2xx without errors: the upsert was applied.
PostOk ==
  /\ Posting
  /\ Elems(batch) \cap Bad = {}
  /\ stored' = stored \cup Elems(batch)
  /\ Inserted
  /\ UNCHANGED <<arrivals, workerVars, refused, shutdown_requested>>

\* A 4xx ends insert_telemetry_batch at once.
PostRefused ==
  /\ Posting
  /\ Elems(batch) \cap Bad # {}
  /\ refused' = refused \cup Elems(batch)
  /\ NotInserted
  /\ UNCHANGED <<arrivals, workerVars, stored, shutdown_requested>>

\* Mutant: retries without an end.
PostFailedForever ==
  /\ Posting
  /\ attempt' = IF attempt < Attempts THEN attempt + 1 ELSE 1
  /\ UNCHANGED <<arrivals, workerVars, main_pc, batch, lost, refused,
                 stored, shutdown_requested>>

\* A 5xx, an unreadable or an "errors" answer, or no answer within 15 s: try
\* again, up to Attempts times.  An answer may be lost after the upsert.
PostFailed ==
  /\ Posting
  /\ \/ UNCHANGED stored
     \/ Elems(batch) \cap Bad = {} /\ stored' = stored \cup Elems(batch)
  /\ \/ /\ attempt < Attempts
        /\ attempt' = attempt + 1
        /\ UNCHANGED <<main_pc, batch, lost>>
     \/ attempt = Attempts /\ NotInserted
  /\ UNCHANGED <<arrivals, workerVars, refused, shutdown_requested>>

\* for entry in batch: worker.enqueue_telemetry(entry)
Requeue ==
  /\ main_pc = "requeue"
  /\ Enqueue(Head(batch))
  /\ batch' = Tail(batch)
  /\ main_pc' = IF Len(batch) = 1 THEN "check" ELSE "requeue"
  /\ UNCHANGED <<arrivals, attempt, lost, refused, stored,
                 shutdown_requested>>

\* worker.stop() joins the network thread; main() returns.
Stop ==
  /\ main_pc = "stop"
  /\ main_pc' = "stopped"
  /\ UNCHANGED <<arrivals, workerVars, batch, attempt, lost, refused,
                 stored, shutdown_requested>>

\* SIGTERM or SIGINT; the running sleep is resumed afterwards.
HandleSignal ==
  /\ ~shutdown_requested
  /\ shutdown_requested' = TRUE
  /\ UNCHANGED <<arrivals, workerVars, mainVars, stored>>

Main == Check \/ Poll \/ FinalDrain \/ PostOk \/ PostRefused \/ PostFailed
          \/ Requeue \/ Stop

Stopped == main_pc = "stopped" /\ UNCHANGED vars

Next == OnMessage \/ Main \/ HandleSignal \/ Stopped

Spec == Init /\ [][Next]_vars

\* main() is scheduled; a POST ends within its timeout, with any answer.
FairSpec == Spec /\ WF_vars(Main)

-----------------------------------------------------------------------------
(* Properties                                                              *)

Injective(q) == \A j, k \in DOMAIN q : q[j] = q[k] => j = k

\* An entry is in one place at a time: re-queueing while the network thread
\* enqueues neither duplicates an entry nor lets an evicted one come back.  The
\* types are part of it.
EntriesOnce ==
  /\ TypeOK
  /\ Injective(buffer) /\ Injective(batch)
  /\ Elems(buffer) \cap Elems(batch) = {}
  /\ evicted \cap (Elems(buffer) \cup Elems(batch)) = {}
  /\ dropped_count = Cardinality(evicted)

\* When main() has returned, each entry that arrived before the drain of the final
\* flush is stored, counted as dropped or reported lost, whatever the answers, the
\* re-queueing and the moment of the signal.  What dies in the buffer, unreported,
\* arrived after that drain and before worker.stop().
ShutdownAccounts ==
  main_pc = "stopped" =>
    /\ 1 .. drained \subseteq stored \cup evicted \cup lost
    /\ Elems(buffer) \subseteq drained + 1 .. arrived

\* Eviction needs pressure: while no more entries have arrived than the buffer
\* holds, none is dropped, re-queued ones included.
NoEvictionWithoutPressure == arrived <= MaxBuffer => evicted = {}

\* After SIGTERM or SIGINT the process ends, however long Hasura is down.
GracefulExit == shutdown_requested ~> main_pc = "stopped"

\* If Hasura is not down for ever, each entry is answered: it is stored or its
\* batch is refused, unless it is evicted or the process ends first.
EntriesSettle ==
  SF_vars(PostOk) /\ SF_vars(PostRefused) =>
    \A e \in Entries :
      arrived >= e ~>
        e \in stored \cup refused \cup evicted \/ main_pc = "stopped"
-----------------------------------------------------------------------------
(* The outbox that the gateway promises                                    *)

Promise == INSTANCE Outbox WITH
  Items     <- Entries,
  taken     <- 1 .. arrived,
  held      <- Elems(buffer) \cup Elems(batch),
  delivered <- stored,
  reported  <- evicted \cup lost

\* However enqueueing, draining and re-queueing interleave, an entry leaves the
\* process's hands only when it is stored, counted as dropped or reported lost,
\* and one that has left does not come back.
ImplementsOutbox == Promise!Spec
=============================================================================
