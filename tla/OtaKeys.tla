------------------------------- MODULE OtaKeys -------------------------------
(***************************************************************************)
(* The keys that manifests are verified with (edge_ops/gema_vision,        *)
(* OtaManager::validate and its key management): an active key, built in   *)
(* until a file overrides it, and a next key that a verified manifest      *)
(* announced and that becomes the active one when a manifest is signed     *)
(* with it.  One agent runs; validate() does not take its lock.            *)
(*                                                                         *)
(* Keys are numbered in the order in which the publisher uses them; 0 is   *)
(* the one that is built in.                                               *)
(***************************************************************************)
EXTENDS Integers

CONSTANTS
  MaxKey,  \* the last key the publisher uses
  Faults   \* the faults that can happen; one at most does

VARIABLES
  active,     \* key-active.pub, or the built-in key
  next,       \* key-next.pub
  tmp,        \* key-next.pub.tmp
  survives,   \* what key-next.pub may be after a loss of power
  agent,      \* where validate() is
  manifest,   \* the manifest being validated: its signer, the key it announces
  publisher,  \* the key the publisher signs with
  promised,   \* history: the last key that was announced by a manifest
              \* verified with the active key
  fault       \* the fault that has happened, if any

files == <<active, next, tmp, survives>>
vars  == <<files, agent, manifest, publisher, promised, fault>>

None == -1          \* there is no such file, or the manifest announces nothing
Torn == MaxKey + 1  \* a file with part of a key: it verifies nothing
Keys == 0 .. MaxKey

TypeOK ==
  /\ active \in Keys \cup {Torn}
  /\ {next, tmp} \cup survives \subseteq Keys \cup {None, Torn}
  /\ agent \in {"idle", "active", "save", "rename", "sync", "next", "promote", "remove"}
  /\ manifest \in [signer : Keys, announces : Keys \cup {None}]
  /\ {publisher, promised} \subseteq Keys
  /\ fault \in Faults \cup {"none"}

Init ==
  /\ active = 0 /\ next = None /\ tmp = None /\ survives = {None}
  /\ agent = "idle" /\ manifest = [signer |-> 0, announces |-> None]
  /\ publisher = 0 /\ promised = 0 /\ fault = "none"

-----------------------------------------------------------------------------
(* The publisher                                                           *)

\* A manifest arrives, with the key that will be used next or without.
Receive(announces) ==
  /\ agent = "idle" /\ agent' = "active"
  /\ manifest' = [signer |-> publisher, announces |-> announces]
  /\ UNCHANGED <<files, publisher, promised, fault>>

\* It goes over to the key the agent has been promised.
Rotate ==
  /\ publisher < promised /\ publisher' = publisher + 1
  /\ UNCHANGED <<files, agent, manifest, promised, fault>>

-----------------------------------------------------------------------------
(* verify_signature()                                                      *)

Goes(from, to) ==
  agent = from /\ agent' = to /\ UNCHANGED <<manifest, publisher>>

Announces == manifest.announces # None

\* With the active key: accepted, and what it announces is to be saved.
VerifyActive ==
  /\ IF manifest.signer = active
       THEN Goes("active", IF Announces THEN "save" ELSE "idle")
       ELSE Goes("active", "next")
  /\ UNCHANGED <<files, promised, fault>>

\* What save_next_key returns is not looked at: when it fails, the manifest is
\* accepted all the same.
SaveSuffers == fault = "none" /\ "save" \in Faults /\ fault' = "save"

SaveFails(from) ==
  /\ Goes(from, "idle") /\ SaveSuffers
  /\ promised' = manifest.announces /\ UNCHANGED files

\* save_next_key: a temporary file, of which a full disk leaves a part...
SaveTmp ==
  \/ /\ Goes("save", "rename")
     /\ \/ tmp' = manifest.announces /\ UNCHANGED fault
        \/ tmp' = Torn /\ SaveSuffers
     /\ UNCHANGED <<active, next, survives, promised>>
  \/ SaveFails("save")

\* ... that takes the name of the next key, perhaps before its contents are
\* on the disk...
SaveRename ==
  \/ /\ Goes("rename", "sync") /\ next' = tmp /\ tmp' = None
     /\ survives' = survives \cup {tmp, Torn}
     /\ UNCHANGED <<active, promised, fault>>
  \/ SaveFails("rename")

\* Mutant: the next key is promoted as soon as it is saved.
SaveAndPromote ==
  /\ Goes("sync", "idle") /\ active' = next /\ next' = None /\ survives' = {None}
  /\ promised' = manifest.announces
  /\ UNCHANGED <<tmp, fault>>

\* ... and sync().
SaveSync ==
  /\ Goes("sync", "idle") /\ survives' = {next}
  /\ promised' = manifest.announces
  /\ UNCHANGED <<active, next, tmp, fault>>

\* With the next key: it is to be promoted.  What the manifest announces is
\* not saved.
VerifyNext ==
  /\ Goes("next", IF next = manifest.signer THEN "promote" ELSE "idle")
  /\ UNCHANGED <<files, promised, fault>>

\* promote_next_key: a rename, which is atomic, and which may fail: then the
\* next manifest tries again...
Promote ==
  /\ \/ Goes("promote", "remove") /\ active' = next /\ next' = None
        /\ survives' = {None}
     \/ Goes("promote", "idle") /\ UNCHANGED <<active, next, survives>>
  /\ UNCHANGED <<tmp, promised, fault>>

\* ... then the removal of what is no longer there.
PromoteRemove ==
  /\ Goes("remove", "idle") /\ next' = None /\ survives' = {None}
  /\ UNCHANGED <<active, tmp, promised, fault>>

-----------------------------------------------------------------------------

\* The agent dies, and validates the next manifest from the beginning.
Dies(f) ==
  /\ agent # "idle" /\ agent' = "idle"
  /\ fault = "none" /\ f \in Faults /\ fault' = f
  /\ UNCHANGED <<active, tmp, manifest, publisher, promised>>

Kill == Dies("kill") /\ UNCHANGED <<next, survives>>

PowerLoss == Dies("power") /\ next' \in survives /\ survives' = {next'}

Next ==
  \/ (\E k \in {None, publisher + 1} \cap (Keys \cup {None}) : Receive(k)) \/ Rotate
  \/ VerifyActive \/ SaveTmp \/ SaveRename \/ SaveSync
  \/ VerifyNext \/ Promote \/ PromoteRemove
  \/ Kill \/ PowerLoss

Spec == Init /\ [][Next]_vars

-----------------------------------------------------------------------------
(* Properties                                                              *)

\* A key that was announced by a manifest verified with the active key stays
\* one that manifests are verified with, whenever the agent is killed.
KeyKept ==
  fault \notin {"save", "power"} => promised \in {active, next}

\* The agent does not give up a key that the publisher still signs with, so it
\* is never locked out, if a saved key does not get lost and the publisher goes
\* over to a key only when it is promised.
KeyCurrent ==
  fault \notin {"save", "power"} => publisher \in {active, next}

\* A next key of which only a part was saved is never promoted, whatever fault
\* made it so.
KeyWhole == active # Torn

\* The agent and the publisher do not lose each other.
KeysInv == TypeOK /\ KeyKept /\ KeyCurrent /\ KeyWhole
=============================================================================
