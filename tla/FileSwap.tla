------------------------------ MODULE FileSwap ------------------------------
(***************************************************************************)
(* The managed-file swap of packages/world-line/src/lab/swap.ts: a staging *)
(* directory with backups and a record that is replaced atomically, the    *)
(* file-by-file replacement, and the recovery of a swap that was cut off.  *)
(*                                                                         *)
(* Callers hold the profile's writer lock, so one process runs at a time;  *)
(* it may be killed between any two file operations and any operation may  *)
(* fail.  Users edit managed files without taking the lock.  A file is     *)
(* compared by its digest; contents stand for their digests.               *)
(* transactionalReplaceFiles refuses while a staging directory exists,     *)
(* which is why one staging directory is enough.                           *)
(***************************************************************************)
EXTENDS Naturals, FiniteSets

CONSTANTS
  File,      (* the managed files of the profile                           *)
  Content,   (* what a file may hold                                       *)
  Absent,    (* the member of Content that stands for a missing file       *)
  Targets,   (* the contents callers ask for                               *)
  Editing,   (* whether users edit managed files while a swap is pending   *)
  Faulty,    (* whether file operations may fail                           *)
  NoRecord,  (* no record.json                                             *)
  NoDir,     (* no backup directory                                        *)
  NoGoal     (* for the abstract specification: nothing in doubt           *)

Files == [File -> Content]

SwapRecord == [state : {"prepared", "committed", "rolled-back"},
               before : Files, after : Files]

ASSUME FileAssumption == File # {} /\ IsFiniteSet(File)
ASSUME ContentAssumption == Absent \in Content
ASSUME TargetsAssumption == Targets \subseteq Files
ASSUME SwitchAssumption == Editing \in BOOLEAN /\ Faulty \in BOOLEAN
ASSUME NullsAssumption == NoRecord \notin SwapRecord /\ NoDir \notin Files /\ NoGoal \notin Files

VARIABLES
  prof,     (* the managed files in the profile directory                  *)
  dir,      (* whether the staging directory exists                        *)
  rec,      (* its record.json, or NoRecord                                *)
  backup,   (* its backup directory, or NoDir                              *)
  swapAt,   (* where the process that holds the lock is                *)
  before,   (* in its memory: the contents it read and backed up           *)
  after,    (* in its memory: the contents it was asked for                *)
  todo,     (* the files the current loop still has to visit               *)
  fresh     (* history: files edited since this operation last read them   *)

swapVars == <<prof, dir, rec, backup, swapAt, before, after, todo, fresh>>

Preparing == {"mkBackup", "prepare", "saveRecord"}
Recovering == {"readRecord", "validate", "restore", "saveRolledBack"}
SwapLabels == {"idle", "dead", "syncRecord", "recheck", "replace", "commit", "clean", "abandon"}
                \cup Preparing \cup Recovering

Nothing == [f \in File |-> Absent]

SwapTypeOK ==
  /\ prof \in Files
  /\ dir \in BOOLEAN
  /\ rec \in SwapRecord \cup {NoRecord}
  /\ backup \in Files \cup {NoDir}
  /\ swapAt \in SwapLabels
  /\ before \in Files
  /\ after \in Files
  /\ todo \in SUBSET File
  /\ fresh \in SUBSET File

Prepared == rec # NoRecord /\ rec.state = "prepared"

-----------------------------------------------------------------------------
(* Control *)

Forget == before' = Nothing /\ after' = Nothing /\ fresh' = {}

Enter(label) == swapAt' = label /\ todo' = File

(* The call returns or throws. *)
SwapLeave == Enter("idle") /\ Forget

(* One iteration of a loop over the files, and on to label after the last. *)
Visit(f, label) ==
  /\ f \in todo
  /\ IF todo = {f} THEN Enter(label) ELSE swapAt' = swapAt /\ todo' = todo \ {f}

SwapInit ==
  /\ prof \in Files
  /\ dir = FALSE
  /\ rec = NoRecord
  /\ backup = NoDir
  /\ swapAt = "idle"
  /\ before = Nothing
  /\ after = Nothing
  /\ todo = File
  /\ fresh = {}

-----------------------------------------------------------------------------
(* transactionalReplaceFiles *)

(* Refused while pendingSwaps reports a staging directory; else mkdir.     *)
Replace(target) ==
  /\ swapAt = "idle"
  /\ ~dir
  /\ dir' = TRUE
  /\ after' = target
  /\ Enter("mkBackup")
  /\ UNCHANGED <<prof, rec, backup, before, fresh>>

MakeBackupDir ==
  /\ swapAt = "mkBackup"
  /\ backup' = Nothing
  /\ Enter("prepare")
  /\ UNCHANGED <<prof, dir, rec, before, after, fresh>>

(* Read one file and copy it to the backup directory. *)
PrepareSwap(f) ==
  /\ swapAt = "prepare"
  /\ Visit(f, "saveRecord")
  /\ before' = [before EXCEPT ![f] = prof[f]]
  /\ backup' = [backup EXCEPT ![f] = prof[f]]
  /\ fresh' = fresh \ {f}
  /\ UNCHANGED <<prof, dir, rec, after>>

(* saveRecord: written aside, then renamed into place. *)
SavePrepared ==
  /\ swapAt = "saveRecord"
  /\ rec' = [state |-> "prepared", before |-> before, after |-> after]
  /\ Enter("syncRecord")
  /\ UNCHANGED <<prof, dir, backup, before, after, fresh>>

(* The directories are synced; only then is `prepared` set. *)
SyncPrepared ==
  /\ swapAt = "syncRecord"
  /\ Enter("recheck")
  /\ UNCHANGED <<prof, dir, rec, backup, before, after, fresh>>

(* A file that changed since its backup sends the call into recovery.      *)
Recheck(f) ==
  /\ swapAt = "recheck"
  /\ IF prof[f] = before[f]
     THEN Visit(f, "replace") /\ fresh' = fresh \ {f}
     ELSE f \in todo /\ Enter("readRecord") /\ UNCHANGED fresh
  /\ UNCHANGED <<prof, dir, rec, backup, before, after>>

ReplaceFile(f) ==
  /\ swapAt = "replace"
  /\ Visit(f, "commit")
  /\ prof' = [prof EXCEPT ![f] = after[f]]
  /\ fresh' = fresh \ {f}
  /\ UNCHANGED <<dir, rec, backup, before, after>>

SaveCommitted ==
  /\ swapAt = "commit"
  /\ rec' = [state |-> "committed", before |-> before, after |-> after]
  /\ Enter("clean")
  /\ UNCHANGED <<prof, dir, backup, before, after, fresh>>

-----------------------------------------------------------------------------
(* rm(staging, { recursive: true }): entries go one by one, in no promised *)
(* order, the directory last.                                              *)

RemoveRecord ==
  /\ swapAt \in {"clean", "abandon"}
  /\ rec # NoRecord
  /\ rec' = NoRecord
  /\ UNCHANGED <<prof, dir, backup, swapAt, before, after, todo, fresh>>

RemoveBackup(f) ==
  /\ swapAt \in {"clean", "abandon"}
  /\ backup # NoDir
  /\ backup[f] # Absent
  /\ backup' = [backup EXCEPT ![f] = Absent]
  /\ UNCHANGED <<prof, dir, rec, swapAt, before, after, todo, fresh>>

RemoveBackupDir ==
  /\ swapAt \in {"clean", "abandon"}
  /\ backup = Nothing
  /\ backup' = NoDir
  /\ UNCHANGED <<prof, dir, rec, swapAt, before, after, todo, fresh>>

RemoveStaging ==
  /\ swapAt \in {"clean", "abandon"}
  /\ rec = NoRecord
  /\ backup = NoDir
  /\ dir' = FALSE
  /\ SwapLeave
  /\ UNCHANGED <<prof, rec, backup>>

-----------------------------------------------------------------------------
(* recoverFileSwap *)

(* The recovery command; a failed swap enters at "readRecord" itself.      *)
Recover ==
  /\ swapAt = "idle"
  /\ dir
  /\ Enter("readRecord")
  /\ UNCHANGED <<prof, dir, rec, backup, before, after, fresh>>

(* Without a record the directory is retained for inspection. *)
ReadRecord ==
  /\ swapAt = "readRecord"
  /\ \/ /\ rec = NoRecord
        /\ SwapLeave
     \/ /\ Prepared
        /\ Enter("validate")
        /\ before' = rec.before /\ after' = rec.after
        /\ UNCHANGED fresh
     \/ /\ rec # NoRecord /\ ~Prepared
        /\ Enter("clean")
        /\ UNCHANGED <<before, after, fresh>>
  /\ UNCHANGED <<prof, dir, rec, backup>>

(* Mutant: the file set is restored without being validated. *)
ValidateNothing(f) ==
  /\ swapAt = "validate"
  /\ Visit(f, "restore")
  /\ fresh' = fresh \ {f}
  /\ UNCHANGED <<before, after, prof, dir, rec, backup>>

(* Mutant: a file that was already replaced counts as a conflict.          *)
ValidateOldOnly(f) ==
  /\ swapAt = "validate"
  /\ f \in todo
  /\ IF prof[f] = before[f] /\ backup = before
     THEN Visit(f, "restore") /\ fresh' = fresh \ {f} /\ UNCHANGED <<before, after>>
     ELSE SwapLeave
  /\ UNCHANGED <<prof, dir, rec, backup>>

(* Nothing is written unless every file holds old or new contents and      *)
(* every backup is what the record says.                                   *)
Validate(f) ==
  /\ swapAt = "validate"
  /\ f \in todo
  /\ IF /\ prof[f] \in {before[f], after[f]}
        /\ backup # NoDir
        /\ backup[f] = before[f]
     THEN Visit(f, "restore") /\ fresh' = fresh \ {f} /\ UNCHANGED <<before, after>>
     ELSE SwapLeave
  /\ UNCHANGED <<prof, dir, rec, backup>>

(* Mutant: a file the swap created is not removed again.                   *)
RestoreExisting(f) ==
  /\ swapAt = "restore"
  /\ Visit(f, "saveRolledBack")
  /\ prof' = [prof EXCEPT ![f] = IF before[f] = Absent THEN @ ELSE before[f]]
  /\ fresh' = fresh \ {f}
  /\ UNCHANGED <<dir, rec, backup, before, after>>

Restore(f) ==
  /\ swapAt = "restore"
  /\ Visit(f, "saveRolledBack")
  /\ prof' = [prof EXCEPT ![f] = before[f]]
  /\ fresh' = fresh \ {f}
  /\ UNCHANGED <<dir, rec, backup, before, after>>

(* Mutant: the backups are removed while the record still says prepared.   *)
CleanPrepared ==
  /\ swapAt = "saveRolledBack"
  /\ Enter("clean")
  /\ UNCHANGED <<prof, dir, rec, backup, before, after, fresh>>

SaveRolledBack ==
  /\ swapAt = "saveRolledBack"
  /\ rec' = [state |-> "rolled-back", before |-> before, after |-> after]
  /\ Enter("clean")
  /\ UNCHANGED <<prof, dir, backup, before, after, fresh>>

-----------------------------------------------------------------------------
(* Failures *)

(* A file operation throws.  While nothing was replaced the staging        *)
(* directory is removed; once `prepared` is set the record is recovered;   *)
(* otherwise everything is retained.  Both mkdir calls precede the try.    *)
SwapFault ==
  /\ Faulty
  /\ \/ /\ swapAt \in {"prepare", "saveRecord", "syncRecord"}
        /\ Enter("abandon") /\ UNCHANGED <<before, after, fresh>>
     \/ /\ swapAt \in {"recheck", "replace"}
        /\ Enter("readRecord") /\ UNCHANGED <<before, after, fresh>>
     \/ /\ swapAt \in {"mkBackup", "commit", "clean", "abandon"} \cup Recovering
        /\ SwapLeave
  /\ UNCHANGED <<prof, dir, rec, backup>>

(* The process is killed; what it had in memory is gone. *)
SwapCrash ==
  /\ swapAt \notin {"idle", "dead"}
  /\ Enter("dead")
  /\ Forget
  /\ UNCHANGED <<prof, dir, rec, backup>>

(* Another process takes the writer lock over (FileLock). *)
Takeover ==
  /\ swapAt = "dead"
  /\ Enter("idle")
  /\ UNCHANGED <<prof, dir, rec, backup, before, after, fresh>>

(* A user or another program writes a managed file. *)
EditFile(f, c) ==
  /\ Editing
  /\ prof[f] # c
  /\ prof' = [prof EXCEPT ![f] = c]
  /\ fresh' = IF swapAt \in {"idle", "dead"} THEN {} ELSE fresh \cup {f}
  /\ UNCHANGED <<dir, rec, backup, swapAt, before, after, todo>>

-----------------------------------------------------------------------------
SwapStep ==
  \/ MakeBackupDir \/ SavePrepared \/ SyncPrepared \/ SaveCommitted
  \/ RemoveRecord \/ RemoveBackupDir \/ RemoveStaging
  \/ ReadRecord \/ SaveRolledBack
  \/ \E f \in File :
       \/ PrepareSwap(f) \/ Recheck(f) \/ ReplaceFile(f)
       \/ RemoveBackup(f) \/ Validate(f) \/ Restore(f)

SwapNext ==
  \/ \E target \in Targets : Replace(target)
  \/ Recover
  \/ SwapStep
  \/ SwapFault
  \/ SwapCrash
  \/ Takeover
  \/ \E f \in File, c \in Content : EditFile(f, c)

SwapSpec == SwapInit /\ [][SwapNext]_swapVars

(* A started call keeps running, and an operator keeps asking for recovery *)
(* of a pending swap.                                                      *)
SwapFairSpec == SwapSpec /\ WF_swapVars(SwapStep) /\ WF_swapVars(Takeover) /\ WF_swapVars(Recover)

-----------------------------------------------------------------------------
(* Properties *)

(* What recovery needs survives every step: while files may already be     *)
(* replaced the record says prepared and the backups hold the old bytes;   *)
(* nothing is written to the profile before the whole set was validated.   *)
MemIsRecord ==
  swapAt \in {"syncRecord", "recheck", "replace", "commit"} \cup (Recovering \ {"readRecord"})
    => Prepared /\ before = rec.before /\ after = rec.after

BackedUp ==
  /\ swapAt \in {"recheck", "replace", "commit", "syncRecord", "restore", "saveRolledBack"}
       => backup = before
  /\ swapAt \in {"prepare", "saveRecord"} =>
       /\ backup # NoDir
       /\ \A f \in File : f \notin todo \/ swapAt = "saveRecord" => backup[f] = before[f]
  /\ swapAt = "validate" =>
       \A f \in File \ todo : backup # NoDir /\ backup[f] = before[f]

(* Files nobody edited since they were read are where the loops left them. *)
Placed ==
  \A f \in File \ fresh :
    /\ swapAt = "prepare" /\ f \notin todo => prof[f] = before[f]
    /\ swapAt \in {"saveRecord", "syncRecord"} => prof[f] = before[f]
    /\ swapAt = "recheck" => prof[f] = before[f]
    /\ swapAt = "replace" =>
         prof[f] = IF f \in todo THEN before[f] ELSE after[f]
    /\ swapAt = "commit" => prof[f] = after[f]
    /\ swapAt = "validate" /\ f \notin todo => prof[f] \in {before[f], after[f]}
    /\ swapAt = "restore" =>
         IF f \in todo THEN prof[f] \in {before[f], after[f]}
                       ELSE prof[f] = before[f]
    /\ swapAt = "saveRolledBack" => prof[f] = before[f]
    /\ swapAt = "abandon" /\ Prepared => prof[f] = rec.before[f]

Bookkeeping ==
  /\ ~dir => rec = NoRecord /\ backup = NoDir
  /\ swapAt \in Preparing => rec = NoRecord
  /\ swapAt \notin {"idle", "dead"} => dir
  /\ swapAt = "clean" => ~Prepared
  /\ swapAt \notin {"prepare", "recheck", "replace", "validate", "restore"} => todo = File
  /\ todo # {}
  /\ Editing \/ fresh = {}

SwapInv == SwapTypeOK /\ MemIsRecord /\ BackedUp /\ Placed /\ Bookkeeping

(* swap.ts:119, roadmap:23: a write of the program replaces only contents  *)
(* it has judged, an edit made before the file was last looked at is kept. *)
ProgramStep == swapAt' # swapAt \/ todo' # todo

EditsPreserved ==
  [][\A f \in File :
       ProgramStep /\ prof'[f] # prof[f]
         => f \in fresh \/ prof[f] \in {before[f], after[f]}]_swapVars

(* roadmap:24: once the record is decided, only its cleanup is left, and   *)
(* that does not touch the managed files.                                  *)
DecidedIsFinal ==
  [][rec # NoRecord /\ ~Prepared /\ ProgramStep => prof' = prof]_swapVars

(* swap.ts:143: "A crash during cleanup must not leave a prepared record   *)
(* with missing backups."                                                  *)
PreparedHasBackups == Prepared /\ swapAt = "idle" => backup = rec.before

(* The processes stop dying, so a recovery can run to its end.             *)
CrashesStop == <>[](swapAt # "dead")

(* Without edits the whole set changes at once, or not at all.             *)
Whole == INSTANCE AtomicFiles WITH
           content <- IF Prepared THEN rec.before ELSE prof,
           goal    <- IF Prepared THEN rec.after
                      ELSE IF swapAt \in Preparing THEN after ELSE NoGoal

ImplementsAtomicFiles == Whole!Spec

=============================================================================
