----------------------------- MODULE Installer -----------------------------
(***************************************************************************)
(* What the update agents promise to whoever sends them commands: the      *)
(* binary changes in one step, from one whole artifact to the one that an  *)
(* agent was asked to install, and only while a copy of the old one is     *)
(* kept.  An agent may forget what it was asked at any time.               *)
(***************************************************************************)
CONSTANTS
  Agents,
  Artifacts,  \* what an agent can be asked to install
  Initial,    \* the artifact that is installed at first
  None        \* no artifact

VARIABLES
  current,   \* the artifact that is installed
  previous,  \* the one that is kept to go back to, or None
  asked      \* what each agent has been asked to install, or None

vars == <<current, previous, asked>>

Init ==
  /\ current = Initial
  /\ previous = None
  /\ asked = [a \in Agents |-> None]

\* An agent takes a command; until it forgets it, it takes no other.
Ask(a, artifact) ==
  /\ asked[a] = None
  /\ asked' = [asked EXCEPT ![a] = artifact]
  /\ UNCHANGED <<current, previous>>

\* It is restarted, or dies.
Forget(a) ==
  /\ asked' = [asked EXCEPT ![a] = None]
  /\ UNCHANGED <<current, previous>>

\* A copy of the binary is made; while it is written, there is none.
Keep ==
  /\ previous' \in {None, current}
  /\ UNCHANGED <<current, asked>>

Install(a) ==
  /\ asked[a] # None
  /\ previous = current
  /\ current' = asked[a]
  /\ UNCHANGED <<previous, asked>>

Next ==
  \/ Keep
  \/ \E a \in Agents :
       \/ \E artifact \in Artifacts : Ask(a, artifact)
       \/ Forget(a)
       \/ Install(a)

Spec == Init /\ [][Next]_vars
=============================================================================
