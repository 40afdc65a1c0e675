----------------------------- MODULE OtaManager -----------------------------
(***************************************************************************)
(* The update agent of the vision board (edge_ops/gema_vision, main_ota    *)
(* and OtaManager): from a command to an installed binary, in processes    *)
(* that share files and a flock(), any of which may die at any point.      *)
(*                                                                         *)
(* A file is a version and how much of it there is; "mixed" is a file with *)
(* parts of two versions.  sync() follows every write, so the files are    *)
(* taken to be durable.  Status reports carry no state and are left out,   *)
(* as are the keys of signed manifests, which only decide Validate.        *)
(***************************************************************************)
EXTENDS Naturals

CONSTANTS
  Procs,       \* gema-ota processes
  MaxVersion,  \* the versions that commands name are 1 .. MaxVersion
  MaxCrashes   \* bound on the processes that die in the middle of an update

ASSUME BoundsAssumption == MaxVersion \in Nat \ {0} /\ MaxCrashes \in Nat

VARIABLES
  artifact,   \* /userdata/ota_tmp/artifact.tmp
  final,      \* /userdata/ota_tmp/artifact.bin
  installed,  \* /userdata/bin/gema-ota (kBinaryPath)
  backup,     \* /backup/gema-vision.0.0.0
  lock,       \* the process that holds the flock() on ota.lock
  state_,     \* state_ of each process; some states have two steps
  pending,    \* the version in pending_cmd_ of each process
  crashes

files == <<artifact, final, installed, backup>>
vars  == <<files, lock, state_, pending, crashes>>

Versions == 1 .. MaxVersion
Nobody   == "nobody"
Absent   == [kind |-> "absent", version |-> 0]
Whole(v) == [kind |-> "whole", version |-> v]
Part(v)  == [kind |-> "part", version |-> v]
Mixed    == [kind |-> "mixed", version |-> 0]
Files    == [kind : {"absent", "whole", "part", "mixed"}, version : 0 .. MaxVersion]

ASSUME ProcsAssumption == Nobody \notin Procs

\* The state in which the lock has been taken, and the steps it protects.
Locked   == {"DOWNLOADING", "VERIFYING", "BACKING_UP", "COPYING", "APPLYING",
             "RENAMING", "RESTARTING", "CONFIRMING"}
Working  == {"VALIDATING", "LOCKING"} \cup Locked
Terminal == {"SUCCESS", "FAILED"}

TypeOK ==
  /\ {artifact, final, installed, backup} \subseteq Files
  /\ lock \in Procs \cup {Nobody}
  /\ state_ \in [Procs -> {"IDLE"} \cup Working \cup Terminal]
  /\ pending \in [Procs -> 0 .. MaxVersion]
  /\ \A p \in Procs : state_[p] \in Working => pending[p] \in Versions
  /\ crashes \in 0 .. MaxCrashes

\* Version 0 is the one that was installed on the board.
Init ==
  /\ artifact = Absent /\ final = Absent /\ backup = Absent
  /\ installed = Whole(0)
  /\ lock = Nobody
  /\ state_ = [p \in Procs |-> "IDLE"]
  /\ pending = [p \in Procs |-> 0]
  /\ crashes = 0

-----------------------------------------------------------------------------

Goes(p, from, to) == state_[p] = from /\ state_' = [state_ EXCEPT ![p] = to]
Others == UNCHANGED <<pending, crashes>>

\* on_ota_command: IDLE to VALIDATING, and the command is parsed.
OnOtaCommand(p, v) ==
  /\ Goes(p, "IDLE", "VALIDATING")
  /\ pending' = [pending EXCEPT ![p] = v]
  /\ UNCHANGED <<files, lock, crashes>>

\* The same in any other state: reported busy and ignored.  Commands are
\* handled one at a time, so the state is SUCCESS or FAILED.
Busy(p) == state_[p] \in Terminal /\ UNCHANGED vars

\* set_state(State::FAILED), with the lock released if it was taken.
Fail(p) ==
  /\ state_' = [state_ EXCEPT ![p] = "FAILED"]
  /\ lock' = IF lock = p THEN Nobody ELSE lock

\* current_version_: the constructor sets 0.0.0 and gema-ota leaves it so.
current_version == 0

\* validate: the version gate, then the signature, the disk space and the URL,
\* each of which may fail.
Validate(p) ==
  /\ state_[p] = "VALIDATING"
  /\ \/ pending[p] > current_version /\ Goes(p, "VALIDATING", "LOCKING")
        /\ UNCHANGED lock
     \/ Fail(p)
  /\ Others /\ UNCHANGED files

\* Mutant: a lock that is held is taken all the same.
AcquireLockAlways(p) ==
  /\ Goes(p, "LOCKING", "DOWNLOADING") /\ lock' = p
  /\ Others /\ UNCHANGED files

\* acquire_lock: flock(LOCK_EX | LOCK_NB).
AcquireLock(p) ==
  /\ state_[p] = "LOCKING"
  /\ IF lock = Nobody
       THEN Goes(p, "LOCKING", "DOWNLOADING") /\ lock' = p
       ELSE Fail(p)
  /\ Others /\ UNCHANGED files

\* Mutant: wget writes after what is there, whatever it is.
FetchAppends(file, v) ==
  {IF file.kind = "absent" THEN Part(v) ELSE Mixed}

\* What wget -c makes of a file while it fetches version v: it goes on after
\* the bytes that are there, and leaves a file that is long enough alone.
Fetch(file, v) ==
  CASE file = Absent                         -> {Part(v)}
    [] file.version = v                      -> {file}
    [] file.kind = "whole" /\ file.version # v -> {file, Mixed}
    [] OTHER                                 -> {Mixed}

\* download: bytes arrive...
DownloadSome(p) ==
  /\ state_[p] = "DOWNLOADING"
  /\ artifact' \in Fetch(artifact, pending[p])
  /\ UNCHANGED <<final, installed, backup, lock, state_>> /\ Others

\* ... and wget exits.  A failed download leaves what it fetched.
DownloadEnd(p) ==
  /\ state_[p] = "DOWNLOADING"
  /\ \/ /\ artifact # Absent
        /\ artifact.kind = "part" => artifact.version = pending[p]
        /\ artifact' = IF artifact.kind = "part" THEN Whole(pending[p])
                                                 ELSE artifact
        /\ Goes(p, "DOWNLOADING", "VERIFYING") /\ UNCHANGED lock
     \/ Fail(p) /\ UNCHANGED artifact
  /\ UNCHANGED <<final, installed, backup>> /\ Others

\* verify_checksum: sha256sum -c.  A mismatch leaves the file.
VerifyChecksum(p) ==
  /\ state_[p] = "VERIFYING"
  /\ IF artifact = Whole(pending[p])
       THEN Goes(p, "VERIFYING", "BACKING_UP") /\ UNCHANGED lock
       ELSE Fail(p)
  /\ Others /\ UNCHANGED files

\* Mutant: a backup that cannot be written is not fatal.
BackupOptional(p) ==
  /\ \/ Goes(p, "BACKING_UP", "COPYING") /\ backup' = [installed EXCEPT !.kind = "part"]
     \/ Goes(p, "BACKING_UP", "APPLYING") /\ UNCHANGED backup
  /\ UNCHANGED <<artifact, final, installed, lock>> /\ Others

\* backup: cp truncates the backup and copies the binary, or fails.
Backup(p) ==
  /\ state_[p] = "BACKING_UP"
  /\ \/ /\ Goes(p, "BACKING_UP", "COPYING")
        /\ backup' = [installed EXCEPT !.kind = "part"]
        /\ UNCHANGED lock
     \/ Fail(p) /\ UNCHANGED backup
  /\ UNCHANGED <<artifact, final, installed>> /\ Others

BackupEnd(p) ==
  /\ state_[p] = "COPYING"
  /\ \/ backup' = installed /\ Goes(p, "COPYING", "APPLYING") /\ UNCHANGED lock
     \/ Fail(p) /\ UNCHANGED backup
  /\ UNCHANGED <<artifact, final, installed>> /\ Others

\* Mutant: the new binary is copied over the old one, not renamed.
ApplyCopies(p) ==
  /\ Goes(p, "APPLYING", "RENAMING")
  /\ final' = artifact
  /\ installed' = Part(artifact.version)
  /\ UNCHANGED <<artifact, backup, lock>> /\ Others

\* apply: mv artifact.tmp artifact.bin...
Apply(p) ==
  /\ state_[p] = "APPLYING"
  /\ \/ /\ artifact # Absent
        /\ Goes(p, "APPLYING", "RENAMING")
        /\ final' = artifact /\ artifact' = Absent
        /\ UNCHANGED lock
     \/ Fail(p) /\ UNCHANGED <<artifact, final>>
  /\ UNCHANGED <<installed, backup>> /\ Others

\* ... then mv artifact.bin /userdata/bin/gema-ota, both atomic.
ApplyRename(p) ==
  /\ state_[p] = "RENAMING"
  /\ \/ /\ final # Absent
        /\ Goes(p, "RENAMING", "RESTARTING")
        /\ installed' = final /\ final' = Absent
        /\ UNCHANGED lock
     \/ Fail(p) /\ UNCHANGED <<final, installed>>
  /\ UNCHANGED <<artifact, backup>> /\ Others

\* restart_vision: systemctl restart gema-vision.
RestartVision(p) ==
  /\ state_[p] = "RESTARTING"
  /\ \/ Goes(p, "RESTARTING", "CONFIRMING") /\ UNCHANGED lock
     \/ Fail(p)
  /\ Others /\ UNCHANGED files

\* confirm_health, SUCCESS and release_lock.
ConfirmHealth(p) ==
  /\ state_[p] = "CONFIRMING"
  /\ \/ Goes(p, "CONFIRMING", "SUCCESS") /\ lock' = Nobody
     \/ Fail(p)
  /\ Others /\ UNCHANGED files

\* The process ends and a new one takes its place; flock() does not outlive it.
Die(p) ==
  /\ state_' = [state_ EXCEPT ![p] = "IDLE"]
  /\ pending' = [pending EXCEPT ![p] = 0]
  /\ lock' = IF lock = p THEN Nobody ELSE lock
  /\ UNCHANGED files

\* A crash, a power loss or a signal (the handler calls _Exit) in an update.
Crash(p) ==
  state_[p] \in Working /\ crashes < MaxCrashes /\ crashes' = crashes + 1 /\ Die(p)

\* SUCCESS and FAILED are left only when somebody restarts the service.
RestartAgent(p) == state_[p] \in Terminal /\ UNCHANGED crashes /\ Die(p)

Step(p) ==
  \/ Validate(p) \/ AcquireLock(p) \/ DownloadSome(p) \/ DownloadEnd(p)
  \/ VerifyChecksum(p) \/ Backup(p) \/ BackupEnd(p) \/ Apply(p)
  \/ ApplyRename(p) \/ RestartVision(p) \/ ConfirmHealth(p)

Next ==
  \E p \in Procs :
    \/ \E v \in Versions : OnOtaCommand(p, v)
    \/ Busy(p) \/ Step(p) \/ Crash(p) \/ RestartAgent(p)

Spec == Init /\ [][Next]_vars

\* The cloud repeats the command, the agent is restarted after a failure, and
\* no step of an update fails every time.
Retried(p) ==
  /\ \A v \in Versions : WF_vars(OnOtaCommand(p, v))
  /\ WF_vars(Step(p)) /\ WF_vars(RestartAgent(p))
  /\ SF_vars(Validate(p) /\ state_'[p] # "FAILED")
  /\ SF_vars(DownloadSome(p))
  /\ SF_vars(DownloadEnd(p) /\ state_'[p] # "FAILED")
  /\ SF_vars(Backup(p) /\ state_'[p] # "FAILED")
  /\ SF_vars(BackupEnd(p) /\ state_'[p] # "FAILED")
  /\ SF_vars(Apply(p) /\ state_'[p] # "FAILED")
  /\ SF_vars(ApplyRename(p) /\ state_'[p] # "FAILED")

RetriedSpec == Spec /\ \A p \in Procs : Retried(p)

-----------------------------------------------------------------------------
(* Properties                                                              *)

\* Whatever dies or fails and when, and whichever processes update at the same
\* time, the binary is one whole, verified version.
InstalledWhole == installed.kind = "whole"

\* A binary is replaced only when a whole copy of it is in the backup.
BackedUp == [][installed' # installed => backup = installed]_vars

\* The lock is held exactly while its process is between download and confirm,
\* so a failed or dead update never blocks the next one.
LockReleased ==
  \A p \in Procs : lock = p <=> state_[p] \in Locked

\* If only one version is ever offered, an update that dies or fails part-way
\* can be repeated until that version is installed.
ResumeCompletes ==
  [](\A p \in Procs : pending[p] \in {0, 1}) => <>(installed = Whole(1))

-----------------------------------------------------------------------------
(* The installer that the agents promise                                   *)

Promise == INSTANCE Installer WITH
  Agents    <- Procs,
  Artifacts <- {Whole(v) : v \in Versions},
  Initial   <- Whole(0),
  None      <- Absent,
  current   <- installed,
  previous  <- IF backup.kind = "whole" THEN backup ELSE Absent,
  asked     <- [p \in Procs |-> IF pending[p] = 0 THEN Absent ELSE Whole(pending[p])]

\* Download, check, backup and two renames, by processes that race and die, are one
\* step to the outside: what is installed is what the agent that installs it was
\* asked for, as a whole, and a whole copy of what it replaces is in the backup.
ImplementsInstaller == Promise!Spec
=============================================================================
