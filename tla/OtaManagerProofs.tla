--------------------------- MODULE OtaManagerProofs ---------------------------
(***************************************************************************)
(* Proofs about OtaManager for any processes, any number of versions and   *)
(* any number of crashes.                                                  *)
(***************************************************************************)
EXTENDS OtaManager, TLAPS

USE BoundsAssumption, ProcsAssumption

\* What a process has established when it reaches each step of an update: the
\* checksum has been compared, then the backup has been made.
Established ==
  \A p \in Procs :
    /\ state_[p] \in {"BACKING_UP", "COPYING", "APPLYING"} => artifact = Whole(pending[p])
    /\ state_[p] = "RENAMING" => final = Whole(pending[p])
    /\ state_[p] \in {"APPLYING", "RENAMING"} => backup = installed

\* An idle process has no command.
Unasked == \A p \in Procs : state_[p] = "IDLE" => pending[p] = 0

IInv == TypeOK /\ LockReleased /\ InstalledWhole /\ Established /\ Unasked

-----------------------------------------------------------------------------
(* Types and the lock                                                      *)

\* The steps of an update keep the types and the lock with its holder.
LEMMA StepTypes ==
  ASSUME TypeOK, LockReleased, NEW p \in Procs, Step(p)
  PROVE  TypeOK' /\ LockReleased'
<1> USE DEF TypeOK, LockReleased, Locked, Working, Terminal, Versions, Others
<1>1. CASE Validate(p)
  BY <1>1 DEF Validate, Goes, Fail, files
<1>2. CASE AcquireLock(p)
  BY <1>2 DEF AcquireLock, Goes, Fail, files
<1>3. CASE DownloadSome(p)
  <2>1. artifact' \in Files
    BY <1>3 DEF DownloadSome, Fetch, Files, Part, Mixed, Absent
  <2> QED
    BY <1>3, <2>1 DEF DownloadSome
<1>4. CASE DownloadEnd(p)
  <2>1. artifact' \in Files
    BY <1>4 DEF DownloadEnd, Files, Whole
  <2> QED
    BY <1>4, <2>1 DEF DownloadEnd, Goes, Fail
<1>5. CASE VerifyChecksum(p)
  BY <1>5 DEF VerifyChecksum, Goes, Fail, files
<1>6. CASE Backup(p)
  <2>1. backup' \in Files
    BY <1>6 DEF Backup, Files
  <2> QED
    BY <1>6, <2>1 DEF Backup, Goes, Fail
<1>7. CASE BackupEnd(p)
  BY <1>7 DEF BackupEnd, Goes, Fail
<1>8. CASE Apply(p)
  <2>1. artifact' \in Files /\ final' \in Files
    BY <1>8 DEF Apply, Files, Absent
  <2> QED
    BY <1>8, <2>1 DEF Apply, Goes, Fail
<1>9. CASE ApplyRename(p)
  <2>1. installed' \in Files /\ final' \in Files
    BY <1>9 DEF ApplyRename, Files, Absent
  <2> QED
    BY <1>9, <2>1 DEF ApplyRename, Goes, Fail
<1>10. CASE RestartVision(p)
  BY <1>10 DEF RestartVision, Goes, Fail, files
<1>11. CASE ConfirmHealth(p)
  BY <1>11 DEF ConfirmHealth, Goes, Fail, files
<1> QED
  BY <1>1, <1>2, <1>3, <1>4, <1>5, <1>6, <1>7, <1>8, <1>9, <1>10, <1>11 DEF Step

\* So do a command, a crash and a restart.
LEMMA NextTypes ==
  ASSUME TypeOK, LockReleased, [Next]_vars
  PROVE  TypeOK' /\ LockReleased'
<1> USE DEF TypeOK, LockReleased, Locked, Working, Terminal, Versions, files
<1>1. CASE UNCHANGED vars
  BY <1>1 DEF vars
<1>2. CASE Next
  <2> PICK p \in Procs :
        \/ \E v \in Versions : OnOtaCommand(p, v)
        \/ Busy(p) \/ Step(p) \/ Crash(p) \/ RestartAgent(p)
    BY <1>2 DEF Next
  <2>1. CASE \E v \in Versions : OnOtaCommand(p, v)
    BY <2>1 DEF OnOtaCommand, Goes
  <2>2. CASE Busy(p)
    BY <2>2 DEF Busy, vars
  <2>3. CASE Step(p)
    BY <2>3, StepTypes
  <2>4. CASE Crash(p)
    BY <2>4 DEF Crash, Die
  <2>5. CASE RestartAgent(p)
    BY <2>5 DEF RestartAgent, Die
  <2> QED
    BY <2>1, <2>2, <2>3, <2>4, <2>5
<1> QED
  BY <1>1, <1>2

-----------------------------------------------------------------------------
(* What the steps establish                                                *)

\* flock() excludes: two processes in the locked part are one.
LEMMA Exclusion ==
  ASSUME LockReleased, NEW p \in Procs, NEW q \in Procs,
         state_[p] \in Locked, state_[q] \in Locked
  PROVE  p = q
BY DEF LockReleased

\* A step of p leaves alone what the others have established, because only the
\* holder of the lock touches the files.
LEMMA StepEstablished ==
  ASSUME IInv, NEW p \in Procs, Step(p)
  PROVE  InstalledWhole' /\ Established'
<1> USE DEF IInv, TypeOK, InstalledWhole, Others, Locked
<1> DEFINE At(q) ==
      /\ state_[q] \in {"BACKING_UP", "COPYING", "APPLYING"} => artifact = Whole(pending[q])
      /\ state_[q] = "RENAMING" => final = Whole(pending[q])
      /\ state_[q] \in {"APPLYING", "RENAMING"} => backup = installed
<1>a. \A q \in Procs : At(q)
  BY DEF Established
<1>b. ASSUME state_[p] \in Locked, NEW q \in Procs, q # p
      PROVE  state_[q] \notin Locked
  BY <1>b, Exclusion
<1>c. \A q \in Procs : q # p => state_'[q] = state_[q]
  BY DEF Step, Validate, AcquireLock, DownloadSome, DownloadEnd, VerifyChecksum,
         Backup, BackupEnd, Apply, ApplyRename, RestartVision, ConfirmHealth, Goes, Fail
<1>d. pending' = pending
  BY DEF Step, Validate, AcquireLock, DownloadSome, DownloadEnd, VerifyChecksum,
         Backup, BackupEnd, Apply, ApplyRename, RestartVision, ConfirmHealth
<1>e. ASSUME state_[p] \in Locked, InstalledWhole', At(p)'
      PROVE  InstalledWhole' /\ Established'
  <2>1. \A q \in Procs : q # p => At(q)'
    BY <1>b, <1>c, <1>e
  <2> QED
    BY <1>e, <2>1 DEF Established
<1>f. ASSUME UNCHANGED files, state_'[p] \notin {"BACKING_UP", "COPYING", "APPLYING", "RENAMING"}
      PROVE  InstalledWhole' /\ Established'
  BY <1>a, <1>c, <1>d, <1>f DEF Established, files
<1>1. CASE Validate(p) \/ AcquireLock(p) \/ RestartVision(p) \/ ConfirmHealth(p)
  BY <1>1, <1>f DEF Validate, AcquireLock, RestartVision, ConfirmHealth, Goes, Fail
<1>2. CASE DownloadSome(p)
  BY <1>2, <1>e DEF DownloadSome
<1>3. CASE DownloadEnd(p)
  BY <1>3, <1>e DEF DownloadEnd, Goes, Fail
<1>4. CASE VerifyChecksum(p)
  BY <1>4, <1>e DEF VerifyChecksum, Goes, Fail, files
<1>5. CASE Backup(p)
  BY <1>5, <1>a, <1>d, <1>e DEF Backup, Goes, Fail
<1>6. CASE BackupEnd(p)
  BY <1>6, <1>a, <1>d, <1>e DEF BackupEnd, Goes, Fail
<1>7. CASE Apply(p)
  BY <1>7, <1>a, <1>d, <1>e DEF Apply, Goes, Fail
<1>8. CASE ApplyRename(p)
  BY <1>8, <1>a, <1>d, <1>e DEF ApplyRename, Goes, Fail, Whole
<1> QED
  BY <1>1, <1>2, <1>3, <1>4, <1>5, <1>6, <1>7, <1>8 DEF Step

\* A process is idle at its start, and takes its command as it leaves that state.
LEMMA NextUnasked ==
  ASSUME TypeOK, Unasked, [Next]_vars
  PROVE  Unasked'
<1> USE DEF TypeOK, Unasked, Working
<1>1. CASE UNCHANGED vars
  BY <1>1 DEF vars
<1>2. ASSUME NEW p \in Procs, NEW v \in Versions, OnOtaCommand(p, v)
      PROVE  Unasked'
  BY <1>2 DEF OnOtaCommand, Goes
<1>3. ASSUME NEW p \in Procs, Crash(p) \/ RestartAgent(p)
      PROVE  Unasked'
  BY <1>3 DEF Crash, RestartAgent, Die
<1>4. ASSUME NEW p \in Procs, Step(p)
      PROVE  Unasked'
  <2>1. /\ pending' = pending
        /\ state_' = state_ \/ \E s : s # "IDLE" /\ state_' = [state_ EXCEPT ![p] = s]
    BY <1>4 DEF Step, Validate, AcquireLock, DownloadSome, DownloadEnd, VerifyChecksum,
                Backup, BackupEnd, Apply, ApplyRename, RestartVision, ConfirmHealth, Goes,
                Fail, Others
  <2> QED
    BY <2>1
<1>5. ASSUME NEW p \in Procs, Busy(p)
      PROVE  Unasked'
  BY <1>5 DEF Busy, vars
<1> QED
  BY <1>1, <1>2, <1>3, <1>4, <1>5 DEF Next

-----------------------------------------------------------------------------

\* The inductive invariant.
LEMMA Inductive == Spec => []IInv
<1>1. Init => IInv
  BY DEF Init, IInv, TypeOK, LockReleased, InstalledWhole, Established, Unasked,
         Files, Absent, Whole, Working, Locked
<1>2. IInv /\ [Next]_vars => IInv'
  <2> SUFFICES ASSUME IInv, [Next]_vars PROVE IInv'
    OBVIOUS
  <2>1. TypeOK' /\ LockReleased'
    BY NextTypes DEF IInv
  <2>2. Unasked'
    BY NextUnasked DEF IInv
  <2>3. InstalledWhole' /\ Established'
    <3>1. CASE UNCHANGED vars
      BY <3>1 DEF IInv, InstalledWhole, Established, vars, files
    <3>2. CASE Next
      <4> PICK p \in Procs :
            \/ \E v \in Versions : OnOtaCommand(p, v)
            \/ Busy(p) \/ Step(p) \/ Crash(p) \/ RestartAgent(p)
        BY <3>2 DEF Next
      <4>1. CASE \E v \in Versions : OnOtaCommand(p, v)
        BY <4>1 DEF OnOtaCommand, Goes, IInv, TypeOK, InstalledWhole, Established, files
      <4>2. CASE Busy(p)
        BY <4>2 DEF Busy, IInv, InstalledWhole, Established, vars, files
      <4>3. CASE Step(p)
        BY <4>3, StepEstablished
      <4>4. CASE Crash(p) \/ RestartAgent(p)
        BY <4>4 DEF Crash, RestartAgent, Die, IInv, TypeOK, InstalledWhole,
                    Established, files
      <4> QED
        BY <4>1, <4>2, <4>3, <4>4
    <3> QED
      BY <3>1, <3>2
  <2> QED
    BY <2>1, <2>2, <2>3 DEF IInv
<1> QED
  BY <1>1, <1>2, PTL DEF Spec

\* Every variable of the update agents keeps its type.
THEOREM TypeCorrect == Spec => []TypeOK
<1>1. IInv => TypeOK
  BY DEF IInv
<1> QED
  BY <1>1, Inductive, PTL

\* flock() is held exactly in the part of an update that needs it (on_ota_command
\* releases it on every early return), whoever dies.
THEOREM LockCorrect == Spec => []LockReleased
<1>1. IInv => LockReleased
  BY DEF IInv
<1> QED
  BY <1>1, Inductive, PTL

\* The binary is always one whole version, whatever dies or fails.
THEOREM InstalledCorrect == Spec => []InstalledWhole
<1>1. IInv => InstalledWhole
  BY DEF IInv
<1> QED
  BY <1>1, Inductive, PTL

\* The binary is replaced only when a whole copy of it is in the backup.
THEOREM BackupCorrect == Spec => BackedUp
<1>1. IInv /\ [Next]_vars => [installed' # installed => backup = installed]_vars
  <2> SUFFICES ASSUME IInv, Next, installed' # installed PROVE backup = installed
    BY DEF vars, files
  <2> PICK p \in Procs :
        \/ \E v \in Versions : OnOtaCommand(p, v)
        \/ Busy(p) \/ Step(p) \/ Crash(p) \/ RestartAgent(p)
    BY DEF Next
  <2>1. ApplyRename(p)
    BY DEF OnOtaCommand, Busy, Crash, RestartAgent, Die, vars, files, Step, Validate,
           AcquireLock, DownloadSome, DownloadEnd, VerifyChecksum, Backup, BackupEnd,
           Apply, RestartVision, ConfirmHealth
  <2> QED
    BY <2>1 DEF ApplyRename, IInv, Established
<1> QED
  BY <1>1, Inductive, PTL DEF Spec, BackedUp

-----------------------------------------------------------------------------
(* The installer                                                           *)

Kept  == IF backup.kind = "whole" THEN backup ELSE Absent
Asked == [p \in Procs |-> IF pending[p] = 0 THEN Absent ELSE Whole(pending[p])]

\* A command is a request, and the only one of its process.
LEMMA CommandAsks ==
  ASSUME IInv, NEW p \in Procs, NEW v \in Versions, OnOtaCommand(p, v)
  PROVE  Promise!Next
<1>1. pending[p] = 0 /\ pending' = [pending EXCEPT ![p] = v] /\ UNCHANGED files
  BY DEF IInv, Unasked, OnOtaCommand, Goes
<1>2. v # 0 /\ pending \in [Procs -> 0 .. MaxVersion]
  BY DEF IInv, TypeOK, Versions
<1>3. Asked' = [Asked EXCEPT ![p] = Whole(v)] /\ Asked[p] = Absent
  BY <1>1, <1>2 DEF Asked
<1>4. Promise!Ask(p, Whole(v))
  BY <1>1, <1>3 DEF Promise!Ask, Asked, files
<1> QED
  BY <1>4 DEF Promise!Next

\* A process that is replaced has forgotten its command.
LEMMA DeathForgets ==
  ASSUME IInv, NEW p \in Procs, Crash(p) \/ RestartAgent(p)
  PROVE  Promise!Next
<1>1. pending' = [pending EXCEPT ![p] = 0] /\ UNCHANGED files
  BY DEF Crash, RestartAgent, Die
<1>2. Asked' = [Asked EXCEPT ![p] = Absent]
  BY <1>1 DEF IInv, TypeOK, Asked
<1>3. Promise!Forget(p)
  BY <1>1, <1>2 DEF Promise!Forget, Asked, files
<1> QED
  BY <1>3 DEF Promise!Next

\* Of the steps of an update only the second rename installs, and only those of the
\* backup make a copy; the others are hidden.
LEMMA StepInstalls ==
  ASSUME IInv, NEW p \in Procs, Step(p)
  PROVE  Promise!Next \/ UNCHANGED Promise!vars
<1>1. CASE UNCHANGED <<installed, backup, pending>>
  BY <1>1 DEF Promise!vars
<1>2. CASE Backup(p) \/ BackupEnd(p)
  <2>1. /\ UNCHANGED <<installed, pending>>
        /\ backup' \in {backup, installed, [installed EXCEPT !.kind = "part"]}
    BY <1>2 DEF Backup, BackupEnd, Others
  <2>2. installed.kind = "whole" /\ [installed EXCEPT !.kind = "part"].kind = "part"
    BY DEF IInv, InstalledWhole, TypeOK, Files
  <2>3. CASE backup' = backup
    BY <2>1, <2>3 DEF Promise!vars
  <2>4. CASE backup' # backup
    <3>1. Kept' \in {Absent, installed}
      BY <2>1, <2>2, <2>4 DEF Kept
    <3>2. Promise!Keep
      BY <2>1, <3>1 DEF Promise!Keep, Kept
    <3> QED
      BY <3>2 DEF Promise!Next
  <2> QED
    BY <2>3, <2>4
<1>3. CASE ApplyRename(p) /\ installed' # installed
  <2>1. state_[p] = "RENAMING" /\ installed' = final /\ UNCHANGED <<backup, pending>>
    BY <1>3 DEF ApplyRename, Others
  <2>2. /\ final = Whole(pending[p]) /\ backup = installed /\ installed.kind = "whole"
        /\ pending[p] # 0
    BY <2>1 DEF IInv, Established, InstalledWhole, TypeOK, Working, Locked, Versions
  <2>3. Asked[p] = installed' /\ Asked[p] # Absent /\ Kept = installed
    BY <2>1, <2>2 DEF Asked, Kept, Whole, Absent
  <2>4. Promise!Install(p)
    BY <2>1, <2>3 DEF Promise!Install, Asked, Kept
  <2> QED
    BY <2>4 DEF Promise!Next
<1>4. \/ UNCHANGED <<installed, backup, pending>>
      \/ Backup(p) \/ BackupEnd(p)
      \/ ApplyRename(p) /\ installed' # installed
  BY DEF Step, Validate, AcquireLock, DownloadSome, DownloadEnd, VerifyChecksum, Apply,
         ApplyRename, RestartVision, ConfirmHealth, Others, files
<1> QED
  BY <1>1, <1>2, <1>3, <1>4

\* The processes, the lock and the files implement an installer whose updates are
\* one step: a whole artifact that an agent was asked for, with the old one kept.
THEOREM InstallerCorrect == Spec => ImplementsInstaller
<1>1. Init => Promise!Init
  BY DEF Init, Promise!Init, Absent
<1>2. IInv /\ [Next]_vars => [Promise!Next]_(Promise!vars)
  <2> SUFFICES ASSUME IInv, [Next]_vars PROVE Promise!Next \/ UNCHANGED Promise!vars
    OBVIOUS
  <2>1. CASE UNCHANGED vars \/ \E p \in Procs : Busy(p)
    BY <2>1 DEF vars, files, Busy, Promise!vars
  <2> QED
    BY <2>1, CommandAsks, DeathForgets, StepInstalls DEF Next
<1> QED
  BY <1>1, <1>2, Inductive, PTL DEF Spec, ImplementsInstaller, Promise!Spec
=============================================================================
