------------------------------- MODULE Outbox -------------------------------
(***************************************************************************)
(* What a sender promises for the items it takes over: each one is         *)
(* delivered at least once or reported as given up, and an item that the   *)
(* sender has let go of does not come back to it.  gateway_translator and  *)
(* the table between edge_worker and cloud_sync both implement it.         *)
(***************************************************************************)
CONSTANT Items

VARIABLES
  taken,      \* the items taken over so far
  held,       \* those the sender still has to deliver
  delivered,  \* those that the receiver has, whether the sender knows or not
  reported    \* those that count as given up

vars == <<taken, held, delivered, reported>>

Init == taken = {} /\ held = {} /\ delivered = {} /\ reported = {}

\* The sender takes over a new item, and may give up old ones to make room.
Take(new, old) ==
  /\ new \notin taken
  /\ taken' = taken \cup {new}
  /\ held' = (held \ old) \cup {new}
  /\ reported' = reported \cup old
  /\ UNCHANGED delivered

\* Items are delivered, perhaps again; the sender lets go of those it learns of.
Deliver(items, known) ==
  /\ items \subseteq taken
  /\ delivered' = delivered \cup items
  /\ held' = held \ known
  /\ reported' = reported \ known
  /\ UNCHANGED taken

\* The sender gives items up, some of which may have been delivered by the last
\* attempt.
GiveUp(items, unknown) ==
  /\ items \subseteq taken
  /\ delivered' = delivered \cup unknown
  /\ held' = held \ items
  /\ reported' = reported \cup items
  /\ UNCHANGED taken

Next ==
  \/ \E new \in Items, old \in SUBSET held : Take(new, old)
  \/ \E items \in SUBSET taken : \E some \in SUBSET items :
       Deliver(items, some) \/ GiveUp(items, some)

Spec == Init /\ [][Next]_vars
=============================================================================
