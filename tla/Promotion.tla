------------------------------ MODULE Promotion ------------------------------
(***************************************************************************)
(* Promotion of a verified lab into the official profile and its recovery: *)
(* packages/world-line/src/lab/promote.ts, lab/transaction.ts,             *)
(* commands/recovery.ts, and what commands/snapshot.ts, lab/journal.ts and *)
(* vault/state.ts do in them.                                              *)
(*                                                                         *)
(* One process at a time works on the profile under the profile's          *)
(* operation lock (withOperations): a promotion, a reconciliation or the   *)
(* recovery of one swap.  Next to it run a user's `snapshot create`, which *)
(* takes the vault operation lock and the profile's writer lock, people    *)
(* and programs that edit managed files, and the installer or verification *)
(* process a promotion starts, which outlives it when it is killed.        *)
(*                                                                         *)
(* The managed files are one value; FileSwap shows that a swap nobody      *)
(* edits behind is atomic, and which residue a killed swap leaves.  Locks  *)
(* are those of WriterLock: "stale" is the lock of a dead owner, which the *)
(* next caller breaks.                                                     *)
(***************************************************************************)
EXTENDS Naturals, FiniteSets, Sequences

CONSTANTS
  Txn,           (* promotion attempts: one transaction id each             *)
  Version,       (* contents of the managed files; a receipt is its version *)
  First,         (* the version the profile starts with                     *)
  Source,        (* manifest.source.receipt of the lab of each attempt      *)
  Candidate,     (* the lab's verified managed files, for each attempt      *)
  Installed,     (* the versions an installer may leave                     *)
  Edits,         (* the versions people write                               *)
  UserSnapshots, (* users take snapshots while there are fewer (bound)      *)
  MaxSnapshots,  (* promotions start while there are fewer (bound)          *)
  MaxFailures,   (* processes killed and operations failing, at most        *)
  Mixed,         (* some files swapped, some not                            *)
  Bare,          (* a directory whose record.json is missing                *)
  None           (* no record, no staging directory                         *)

Phases == {"prepared", "swapping", "swapped", "installing", "verifying",
           "verified", "snapshotted", "committing", "committed",
           "rolling-back", "rolled-back"}

Outcomes == {"committed", "rolled-back"}

Record == [phase : Phases, before : Version, pre : Nat, post : Nat,
           outcome : Outcomes, good : BOOLEAN, receiptAfter : Version]

Staged == [decided : BOOLEAN, before : Version, after : Version]

Entry == [id : Txn, outcome : Outcomes, good : BOOLEAN, post : Nat, receiptAfter : Version]

(* What the constants are: assumed by the modules that instantiate this.   *)
VersionAssumption ==
  /\ First \in Version
  /\ Source \in [Txn -> Version] /\ Candidate \in [Txn -> Version]
  /\ Installed \subseteq Version /\ Edits \subseteq Version
  /\ Mixed \notin Version
BoundAssumption == UserSnapshots \in Nat /\ MaxSnapshots \in Nat /\ MaxFailures \in Nat

NullAssumption == None # Bare /\ {None, Bare} \cap (Record \cup Staged) = {}
Assumptions == VersionAssumption /\ BoundAssumption /\ NullAssumption

VARIABLES
  files,    (* the managed files                                            *)
  stage,    (* .wl-staging-*: None, Bare or its record                      *)
  txn,      (* transactions/<id>: None, Bare or its record.json             *)
  kept,     (* the transactions whose backup directory exists               *)
  snap,     (* the receipts of the snapshot manifests, in creation order    *)
  head,     (* state.json: lastSnapshots of the profile, 0 if there is none *)
  good,     (* state.json: lastKnownGood of the profile, 0 if there is none *)
  journal,  (* journal.jsonl                                                *)
  child,    (* the process the promotion started: "none", "installer" or "runtime" *)
  writer,   (* the profile's writer lock                                    *)
  vault,    (* the vault operation lock                                     *)
  pc,       (* where the process with the operation lock is                 *)
  kind,     (* what it runs                                                 *)
  cur,      (* the transaction it works on                                  *)
  mem,      (* its copy of the record                                       *)
  taking,   (* where runSnapshotCreate is, for the operation and for a user *)
  proved,   (* history: the versions a restart verification has passed      *)
  failures  (* history: how many kills and failures there were              *)

disk == <<files, stage, txn, kept, snap, head, good, journal>>
locks == <<writer, vault>>
opVars == <<pc, kind, cur, mem>>
hist == <<proved, failures>>
vars == <<disk, child, locks, opVars, taking, hist>>

Settled == {"committed", "rolled-back"}

IsRecord(t) == txn[t] \notin {None, Bare}
Unsettled(t) == IsRecord(t) /\ txn[t].phase \notin Settled

Swapping == {"mkStaging", "recordSwap", "replace", "replaceRest", "commitSwap", "cleanSwap"}
RollingBack == {"rbLock", "rbSwaps", "rbClean", "rbCheck", "undone", "report"}
Settling == {"settle", "state", "entry", "phase", "purge"}
Labels == {"idle", "preSnapshot", "swapLock", "prepareDir", "prepare", "swapping", "swapped",
           "restart", "installing", "install", "verifying", "launch", "probe", "verified",
           "postSnapshot", "analyze", "snapshotted", "committing"}
            \cup Swapping \cup RollingBack \cup Settling

TypeOK ==
  /\ files \in Version \cup {Mixed}
  /\ stage \in Staged \cup {None, Bare}
  /\ txn \in [Txn -> Record \cup {None, Bare}]
  /\ kept \in SUBSET Txn
  /\ snap \in Seq(Version \cup {Mixed})
  /\ head \in 0 .. Len(snap)
  /\ good \in 0 .. Len(snap)
  /\ journal \in SUBSET Entry
  /\ child \in {"none", "installer", "runtime"}
  /\ writer \in {"free", "op", "user", "stale"}
  /\ vault \in {"free", "op", "user", "stale"}
  /\ pc \in Labels
  /\ kind \in {"none", "promote", "reconcile", "recover"}
  /\ cur \in Txn \cup {None}
  /\ mem \in Record \cup {None}
  /\ taking \in [{"op", "user"} -> {"off", "locked", "written"}]
  /\ proved \in SUBSET Version
  /\ failures \in 0 .. MaxFailures

-----------------------------------------------------------------------------
(* Locks and control *)

CanTake(lock) == lock \in {"free", "stale"}

Freed(lock, p) == IF lock = p THEN "free" ELSE lock
Left(lock, p) == IF lock = p THEN "stale" ELSE lock

Goto(label) == pc' = label /\ UNCHANGED <<kind, cur, mem>>

(* The call returns or throws: every finally block releases its lock. *)
Leave ==
  /\ pc' = "idle" /\ kind' = "none" /\ cur' = None /\ mem' = None
  /\ writer' = Freed(writer, "op")
  /\ vault' = Freed(vault, "op")
  /\ taking' = [taking EXCEPT !["op"] = "off"]

(* The catch block of runLabPromoteUnlocked: nothing to undo before the    *)
(* transaction is prepared, a durable decision is only ever reconciled,    *)
(* anything in between is rolled back.  Other operations just throw.       *)
Throw ==
  IF /\ kind = "promote"
     /\ pc \notin {"preSnapshot", "swapLock", "prepareDir", "prepare", "committing"}
                     \cup RollingBack \cup Settling
     /\ mem.phase # "rolling-back"
  THEN /\ pc' = "rbLock"
       /\ writer' = Freed(writer, "op")
       /\ vault' = Freed(vault, "op")
       /\ taking' = [taking EXCEPT !["op"] = "off"]
       /\ UNCHANGED <<kind, cur, mem>>
  ELSE Leave

(* checkpoint: the phase reaches the disk before the work goes on. *)
Save(record) == mem' = record /\ txn' = [txn EXCEPT ![cur] = record]

Checkpoint(at, phase, next) ==
  /\ pc = at
  /\ Save([mem EXCEPT !.phase = phase])
  /\ pc' = next
  /\ UNCHANGED <<kind, cur>>
  /\ UNCHANGED <<files, stage, kept, snap, head, good, journal, child, locks, taking, hist>>

Init ==
  /\ files = First
  /\ stage = None
  /\ txn = [t \in Txn |-> None]
  /\ kept = {}
  /\ snap = <<>>
  /\ head = 0 /\ good = 0
  /\ journal = {}
  /\ child = "none"
  /\ writer = "free" /\ vault = "free"
  /\ pc = "idle" /\ kind = "none" /\ cur = None /\ mem = None
  /\ taking = [p \in {"op", "user"} |-> "off"]
  /\ proved = {}
  /\ failures = 0

-----------------------------------------------------------------------------
(* runSnapshotCreate, by a user or within a promotion *)

Wants(p) == p = "user" \/ pc \in {"preSnapshot", "postSnapshot"}

(* Mutant: pending work is not looked at. *)
MayCaptureAlways(p) == p \in {"op", "user"}

(* Only the promotion's own transaction may be unsettled, and only after   *)
(* its verification; a pending swap is never captured.                     *)
MayCapture(p) ==
  /\ stage = None
  /\ \A t \in Txn :
       /\ txn[t] # Bare
       /\ Unsettled(t) => p = "op" /\ pc = "postSnapshot" /\ t = cur /\ txn[t].phase = "verified"

SnapshotLock(p) ==
  /\ Wants(p)
  /\ taking[p] = "off"
  /\ p = "user" => Len(snap) < UserSnapshots
  /\ \/ /\ CanTake(vault) /\ CanTake(writer)
        /\ vault' = p /\ writer' = p
        /\ taking' = [taking EXCEPT ![p] = "locked"]
        /\ UNCHANGED opVars
     \/ /\ p = "op" /\ ~(CanTake(vault) /\ CanTake(writer))
        /\ Throw
  /\ UNCHANGED <<disk, child, hist>>

SnapshotCapture(p) ==
  /\ taking[p] = "locked"
  /\ IF MayCapture(p)
     THEN /\ snap' = Append(snap, files)
          /\ taking' = [taking EXCEPT ![p] = "written"]
          /\ UNCHANGED <<locks, opVars>>
     ELSE /\ UNCHANGED snap
          /\ IF p = "op" THEN Throw
             ELSE /\ taking' = [taking EXCEPT ![p] = "off"]
                  /\ writer' = Freed(writer, p) /\ vault' = Freed(vault, p)
                  /\ UNCHANGED opVars
  /\ UNCHANGED <<files, stage, txn, kept, head, good, journal, child, hist>>

(* noteSnapshot, then both locks are released. *)
SnapshotNote(p) ==
  /\ taking[p] = "written"
  /\ head' = Len(snap)
  /\ taking' = [taking EXCEPT ![p] = "off"]
  /\ writer' = "free" /\ vault' = "free"
  /\ IF p = "user" THEN UNCHANGED opVars
     ELSE /\ UNCHANGED <<kind, cur>>
          /\ IF pc = "preSnapshot"
             THEN /\ pc' = "swapLock"
                  /\ mem' = [phase |-> "prepared", before |-> Source[cur], pre |-> Len(snap),
                             post |-> 0, outcome |-> "rolled-back", good |-> FALSE,
                             receiptAfter |-> Source[cur]]
             ELSE /\ pc' = "analyze"
                  /\ mem' = [mem EXCEPT !.post = Len(snap)]
  /\ UNCHANGED <<files, stage, txn, kept, snap, good, journal, child, hist>>

-----------------------------------------------------------------------------
(* runLabPromote *)

(* withOperations: no unsettled transaction, no pending swap; then receipt *)
(* check #1 under the writer lock.                                         *)
NothingPending == stage = None /\ \A t \in Txn : txn[t] # Bare /\ ~Unsettled(t)

Promote(t) ==
  /\ pc = "idle"
  /\ NothingPending
  /\ txn[t] = None
  /\ Len(snap) < MaxSnapshots
  /\ CanTake(writer)
  /\ files = Source[t]
  /\ pc' = "preSnapshot" /\ kind' = "promote" /\ cur' = t
  /\ UNCHANGED <<disk, child, locks, mem, taking, hist>>

(* The receipts are compared again under the lock of the swap. *)
SwapLock ==
  /\ pc = "swapLock"
  /\ IF CanTake(writer) /\ files = Source[cur]
     THEN writer' = "op" /\ Goto("prepareDir") /\ UNCHANGED <<vault, taking>>
     ELSE Leave
  /\ UNCHANGED <<disk, child, hist>>

PrepareDir ==
  /\ pc = "prepareDir"
  /\ txn' = [txn EXCEPT ![cur] = Bare]
  /\ Goto("prepare")
  /\ UNCHANGED <<files, stage, kept, snap, head, good, journal, child, locks, taking, hist>>

(* prepareTransaction reads the files again and keeps a private backup. *)
Prepare ==
  /\ pc = "prepare"
  /\ Save([mem EXCEPT !.before = files])
  /\ kept' = kept \cup {cur}
  /\ pc' = "swapping"
  /\ UNCHANGED <<kind, cur>>
  /\ UNCHANGED <<files, stage, snap, head, good, journal, child, locks, taking, hist>>

StartSwap == Checkpoint("swapping", "swapping", "mkStaging")

Swapped ==
  /\ pc = "swapped"
  /\ Save([mem EXCEPT !.phase = "swapped"])
  /\ writer' = Freed(writer, "op")
  /\ pc' = "restart"
  /\ UNCHANGED <<kind, cur>>
  /\ UNCHANGED <<files, stage, kept, snap, head, good, journal, child, vault, taking, hist>>

(* options.restart *)
ChooseRestart ==
  /\ pc = "restart"
  /\ Goto("installing") \/ Goto("verified")
  /\ UNCHANGED <<disk, child, locks, taking, hist>>

StartInstall ==
  /\ Checkpoint("installing", "installing", "install")

RunInstaller ==
  /\ pc = "install"
  /\ child = "none"
  /\ child' = "installer"
  /\ UNCHANGED <<disk, locks, opVars, taking, hist>>

(* The installer reports success or failure; when waiting for it throws,   *)
(* it may still run: runtimeMayBeActive keeps the files as they are.       *)
InstallerEnds ==
  /\ pc = "install"
  /\ child = "installer"
  /\ \/ child' = "none" /\ Goto("verifying") /\ UNCHANGED <<locks, taking>>
     \/ child' = "none" /\ Throw
     \/ child' = child /\ Leave
  /\ UNCHANGED <<disk, hist>>

StartVerify == Checkpoint("verifying", "verifying", "launch")

Launch ==
  /\ pc = "launch"
  /\ \/ child' = "runtime" /\ Goto("probe") /\ UNCHANGED <<locks, taking>>
     \/ child' = child /\ Throw            (* did not become ready *)
     \/ child' = "runtime" /\ Leave        (* threw: it may run    *)
  /\ UNCHANGED <<disk, hist>>

(* Mutant: an inconclusive probe counts as a proof. *)
ProbeLenient ==
  /\ pc = "probe"
  /\ child' = "none"
  /\ \/ mem' = [mem EXCEPT !.good = TRUE] /\ proved' \in {proved, proved \cup {files}}
          /\ pc' = "verified" /\ UNCHANGED <<kind, cur, locks, taking>>
     \/ Throw /\ UNCHANGED proved
  /\ UNCHANGED <<disk, failures>>

(* The handle is stopped in a finally block, then the signal is judged.    *)
Probe ==
  /\ pc = "probe"
  /\ child' = "none"
  /\ \/ /\ mem' = [mem EXCEPT !.good = TRUE]      (* ready *)
        /\ proved' = proved \cup {files}
        /\ pc' = "verified" /\ UNCHANGED <<kind, cur, locks, taking>>
     \/ /\ Goto("verified")                       (* inconclusive *)
        /\ UNCHANGED <<locks, taking, hist>>
     \/ Throw /\ UNCHANGED proved                 (* fail *)
  /\ UNCHANGED <<disk, failures>>

(* entry.lastKnownGood is assigned after the snapshot; until then          *)
(* restartVerified waits in memory and is not part of the saved record.    *)
Verified ==
  /\ pc = "verified"
  /\ mem' = [mem EXCEPT !.phase = "verified"]
  /\ txn' = [txn EXCEPT ![cur] = [mem' EXCEPT !.good = FALSE]]
  /\ pc' = "postSnapshot"
  /\ UNCHANGED <<kind, cur>>
  /\ UNCHANGED <<files, stage, kept, snap, head, good, journal, child, locks, taking, hist>>

(* The receipt of the journal entry is computed anew, without any lock.    *)
Analyze ==
  /\ pc = "analyze"
  /\ mem' = [mem EXCEPT !.receiptAfter = files, !.outcome = "committed"]
  /\ pc' = "snapshotted"
  /\ UNCHANGED <<kind, cur>>
  /\ UNCHANGED <<disk, child, locks, taking, hist>>

Snapshotted == Checkpoint("snapshotted", "snapshotted", "committing")

(* From here on failures are never rolled back. *)
Decide == Checkpoint("committing", "committing", "settle")

-----------------------------------------------------------------------------
(* transactionalReplaceFiles, towards the candidate or back (FileSwap)     *)

Target == IF mem.phase = "rolling-back" THEN mem.before ELSE Candidate[cur]

(* Refused while any staging directory exists. *)
MakeStaging ==
  /\ pc = "mkStaging"
  /\ IF stage = None
     THEN stage' = Bare /\ Goto("recordSwap") /\ UNCHANGED <<locks, taking>>
     ELSE stage' = stage /\ Throw
  /\ UNCHANGED <<files, txn, kept, snap, head, good, journal, child, hist>>

RecordSwap ==
  /\ pc = "recordSwap"
  /\ stage' = [decided |-> FALSE, before |-> files, after |-> Target]
  /\ Goto("replace")
  /\ UNCHANGED <<files, txn, kept, snap, head, good, journal, child, locks, taking, hist>>

(* A file that changed since its backup is a conflict for the recovery     *)
(* inside the call as well: the staging directory is retained.             *)
ReplaceSome ==
  /\ pc = "replace"
  /\ IF files = stage.before
     THEN /\ files' = IF stage.after = files THEN files ELSE Mixed
          /\ Goto("replaceRest") /\ UNCHANGED <<locks, taking>>
     ELSE UNCHANGED files /\ Throw
  /\ UNCHANGED <<stage, txn, kept, snap, head, good, journal, child, hist>>

ReplaceRest ==
  /\ pc = "replaceRest"
  /\ files' = stage.after
  /\ Goto("commitSwap")
  /\ UNCHANGED <<stage, txn, kept, snap, head, good, journal, child, locks, taking, hist>>

CommitSwap ==
  /\ pc = "commitSwap"
  /\ stage' = [stage EXCEPT !.decided = TRUE]
  /\ Goto("cleanSwap")
  /\ UNCHANGED <<files, txn, kept, snap, head, good, journal, child, locks, taking, hist>>

(* The record may be the first entry of the directory to go. *)
CleanPartly ==
  /\ pc \in {"cleanSwap", "rbClean"}
  /\ stage # Bare
  /\ stage' = Bare
  /\ UNCHANGED <<files, txn, kept, snap, head, good, journal, child, locks, opVars, taking, hist>>

CleanSwap ==
  /\ pc = "cleanSwap"
  /\ stage' = None
  /\ Goto(IF mem.phase = "rolling-back" THEN "undone" ELSE "swapped")
  /\ UNCHANGED <<files, txn, kept, snap, head, good, journal, child, locks, taking, hist>>

-----------------------------------------------------------------------------
(* rollbackTransactionFiles, under the writer lock *)

RollbackLock ==
  /\ pc = "rbLock"
  /\ IF CanTake(writer)
     THEN writer' = "op" /\ Goto("rbSwaps") /\ UNCHANGED <<vault, taking>>
     ELSE Leave
  /\ UNCHANGED <<disk, child, hist>>

(* Mutant: only a swap that replaced all files or none can be recovered. *)
RecoverableWhole == stage \notin {None, Bare} /\ files \in {stage.before, stage.after}

(* A record, and contents it knows unless only its cleanup is left. *)
Recoverable ==
  /\ stage \notin {None, Bare}
  /\ stage.decided \/ files \in {stage.before, stage.after, Mixed}

(* recoverFileSwap for the pending swap, if there is one. *)
RollbackSwap ==
  /\ pc = "rbSwaps"
  /\ \/ /\ stage = None
        /\ Goto("rbCheck")
        /\ UNCHANGED <<files, stage, locks, taking>>
     \/ /\ Recoverable
        /\ files' = IF stage.decided THEN files ELSE stage.before
        /\ stage' = [stage EXCEPT !.decided = TRUE]
        /\ Goto("rbClean")
        /\ UNCHANGED <<locks, taking>>
     \/ /\ stage # None /\ ~Recoverable
        /\ Leave
        /\ UNCHANGED <<files, stage>>
  /\ UNCHANGED <<txn, kept, snap, head, good, journal, child, hist>>

RollbackClean ==
  /\ pc = "rbClean"
  /\ stage' = None
  /\ IF kind = "recover" THEN Leave ELSE Goto("rbCheck") /\ UNCHANGED <<locks, taking>>
  /\ UNCHANGED <<files, txn, kept, snap, head, good, journal, child, hist>>

(* Mutant: what the recovery of a swap left is taken for the original. *)
RollbackDecides ==
  /\ pc = "rbCheck"
  /\ IF cur \in kept /\ files \in {mem.before, Candidate[cur]}
     THEN /\ Save([mem EXCEPT !.phase = "rolling-back", !.outcome = "rolled-back",
                             !.good = FALSE, !.receiptAfter = Source[cur]])
          /\ pc' = "undone"
          /\ UNCHANGED <<kind, cur, locks, taking>>
     ELSE UNCHANGED txn /\ Leave
  /\ UNCHANGED <<files, stage, kept, snap, head, good, journal, child, hist>>

(* Unknown contents are never overwritten; else the decision to roll back  *)
(* is saved before the files are swapped back.                             *)
RollbackCheck ==
  /\ pc = "rbCheck"
  /\ IF cur \in kept /\ files \in {mem.before, Candidate[cur]}
     THEN /\ Save([mem EXCEPT !.phase = "rolling-back", !.outcome = "rolled-back",
                             !.good = FALSE, !.receiptAfter = Source[cur]])
          /\ pc' = "mkStaging"
          /\ UNCHANGED <<kind, cur, locks, taking>>
     ELSE UNCHANGED txn /\ Leave
  /\ UNCHANGED <<files, stage, kept, snap, head, good, journal, child, hist>>

Undone ==
  /\ pc = "undone"
  /\ writer' = Freed(writer, "op")
  /\ Goto(IF kind = "promote" THEN "report" ELSE "settle")
  /\ UNCHANGED <<disk, child, vault, taking, hist>>

(* The failing promotion notes what it sees now, and why, in its entry. *)
Report ==
  /\ pc = "report"
  /\ Save([mem EXCEPT !.receiptAfter = files])
  /\ pc' = "settle"
  /\ UNCHANGED <<kind, cur>>
  /\ UNCHANGED <<files, stage, kept, snap, head, good, journal, child, locks, taking, hist>>

-----------------------------------------------------------------------------
(* settleTransaction, under the vault operation lock *)

Committing == mem.phase = "committing"

(* A settled transaction only loses what is left of its backup. *)
Settle ==
  /\ pc = "settle"
  /\ IF CanTake(vault)
     THEN /\ vault' = "op"
          /\ Goto(IF mem.phase \in Settled THEN "purge" ELSE "state")
          /\ UNCHANGED <<writer, taking>>
     ELSE Leave
  /\ UNCHANGED <<disk, child, hist>>

SettledSnapshot == IF mem.outcome = "committed" THEN mem.post ELSE mem.pre

(* The snapshot must be the one the decision was about. *)
WriteState ==
  /\ pc = "state"
  /\ IF snap[SettledSnapshot] = IF Committing THEN mem.receiptAfter ELSE Source[cur]
     THEN /\ head' = SettledSnapshot
          /\ good' = IF Committing /\ mem.good THEN SettledSnapshot ELSE good
          /\ Goto("entry")
          /\ UNCHANGED <<locks, taking>>
     ELSE UNCHANGED <<head, good>> /\ Leave
  /\ UNCHANGED <<files, stage, txn, kept, snap, journal, child, hist>>

EntryOf(t, record) ==
  [id |-> t, outcome |-> record.outcome, good |-> record.good, post |-> record.post,
   receiptAfter |-> record.receiptAfter]

(* Mutant: the entry is appended whatever the journal holds for the id. *)
AppendJournalAlways ==
  /\ pc = "entry"
  /\ journal' = journal \cup {EntryOf(cur, mem)}
  /\ Goto("phase")
  /\ UNCHANGED <<files, stage, txn, kept, snap, head, good, child, locks, taking, hist>>

(* Mutant: the backups go before the phase is saved. *)
AppendJournalPurging ==
  /\ pc = "entry"
  /\ journal' = journal \cup {EntryOf(cur, mem)}
  /\ kept' = kept \ {cur}
  /\ Goto("phase")
  /\ UNCHANGED <<files, stage, txn, snap, head, good, child, locks, taking, hist>>

(* appendJournal: an entry that is there already is not written again, a   *)
(* different one with the same id is an error.                             *)
AppendJournal ==
  /\ pc = "entry"
  /\ IF \A i \in journal : i.id = cur => i = EntryOf(cur, mem)
     THEN /\ journal' = journal \cup {EntryOf(cur, mem)}
          /\ Goto("phase")
          /\ UNCHANGED <<locks, taking>>
     ELSE UNCHANGED journal /\ Leave
  /\ UNCHANGED <<files, stage, txn, kept, snap, head, good, child, hist>>

SettlePhase ==
  /\ pc = "phase"
  /\ Save([mem EXCEPT !.phase = mem.outcome])
  /\ pc' = "purge"
  /\ UNCHANGED <<kind, cur>>
  /\ UNCHANGED <<files, stage, kept, snap, head, good, journal, child, locks, taking, hist>>

Purge ==
  /\ pc = "purge"
  /\ kept' = kept \ {cur}
  /\ Leave
  /\ UNCHANGED <<files, stage, txn, snap, head, good, journal, child, hist>>

-----------------------------------------------------------------------------
(* commands/recovery.ts *)

(* Mutant: whatever is not settled is rolled back. *)
ReconcileBackward(t) ==
  /\ pc = "idle"
  /\ IsRecord(t)
  /\ txn[t].phase \in {"installing", "verifying"} => child = "none"
  /\ kind' = "reconcile" /\ cur' = t /\ mem' = txn[t]
  /\ pc' = IF txn[t].phase \in Settled THEN "settle" ELSE "rbLock"
  /\ UNCHANGED <<disk, child, locks, taking, hist>>

(* reconcilePromotion: the user confirms --runtime-stopped truthfully.     *)
Reconcile(t) ==
  /\ pc = "idle"
  /\ IsRecord(t)
  /\ txn[t].phase \in {"installing", "verifying"} => child = "none"
  /\ kind' = "reconcile" /\ cur' = t /\ mem' = txn[t]
  /\ pc' = IF txn[t].phase \in Settled \cup {"committing"} THEN "settle" ELSE "rbLock"
  /\ UNCHANGED <<disk, child, locks, taking, hist>>

(* runRecovery with the id of one swap. *)
RecoverSwap ==
  /\ pc = "idle"
  /\ stage # None
  /\ CanTake(writer)
  /\ writer' = "op"
  /\ pc' = "rbSwaps" /\ kind' = "recover"
  /\ UNCHANGED <<disk, child, vault, cur, mem, taking, hist>>

-----------------------------------------------------------------------------
(* Failures and the rest of the world *)

MayFail == failures < MaxFailures /\ failures' = failures + 1

(* A file operation throws.  A swap that fails cleans up or restores; once *)
(* all files are replaced its record is retained.  A transaction directory *)
(* that could not be prepared is removed.                                  *)
Fault ==
  /\ MayFail
  /\ pc \notin {"idle", "install", "launch", "probe"}
  /\ Throw
  /\ stage' = IF pc \in {"recordSwap", "replaceRest"} \/ (pc = "replace" /\ files = stage.before)
               THEN None ELSE stage
  /\ files' = IF pc = "replaceRest" THEN stage.before ELSE files
  /\ txn' = IF pc = "prepare" THEN [txn EXCEPT ![cur] = None] ELSE txn
  /\ UNCHANGED <<kept, snap, head, good, journal, child, proved>>

(* The operation's process is killed; its child is not. *)
Crash ==
  /\ MayFail
  /\ pc # "idle"
  /\ pc' = "idle" /\ kind' = "none" /\ cur' = None /\ mem' = None
  /\ writer' = Left(writer, "op") /\ vault' = Left(vault, "op")
  /\ taking' = [taking EXCEPT !["op"] = "off"]
  /\ UNCHANGED <<disk, child, proved>>

CrashUser ==
  /\ MayFail
  /\ taking["user"] # "off"
  /\ taking' = [taking EXCEPT !["user"] = "off"]
  /\ writer' = Left(writer, "user") /\ vault' = Left(vault, "user")
  /\ UNCHANGED <<disk, child, opVars, proved>>

(* People and other programs write managed files; FileSwap covers edits    *)
(* between two renames of one swap.                                        *)
Edit(v) ==
  /\ files \notin {v, Mixed}
  /\ files' = v
  /\ UNCHANGED <<stage, txn, kept, snap, head, good, journal, child, locks, opVars, taking, hist>>

(* The installer rewrites package.json and the lockfile. *)
InstallerWrites(v) ==
  /\ child = "installer"
  /\ files \notin {v, Mixed}
  /\ files' = v
  /\ UNCHANGED <<stage, txn, kept, snap, head, good, journal, child, locks, opVars, taking, hist>>

(* A process left behind ends, or the user stops it. *)
ChildStops ==
  /\ child # "none"
  /\ pc \notin {"install", "probe"}
  /\ child' = "none"
  /\ UNCHANGED <<disk, locks, opVars, taking, hist>>

-----------------------------------------------------------------------------
SnapshotStep(p) == SnapshotLock(p) \/ SnapshotCapture(p) \/ SnapshotNote(p)

Step ==
  \/ SnapshotStep("op")
  \/ SwapLock \/ PrepareDir \/ Prepare \/ StartSwap \/ Swapped \/ ChooseRestart
  \/ StartInstall \/ RunInstaller \/ InstallerEnds \/ StartVerify \/ Launch \/ Probe
  \/ Verified \/ Analyze \/ Snapshotted \/ Decide
  \/ MakeStaging \/ RecordSwap \/ ReplaceSome \/ ReplaceRest \/ CommitSwap
  \/ CleanPartly \/ CleanSwap
  \/ RollbackLock \/ RollbackSwap \/ RollbackClean \/ RollbackCheck \/ Undone \/ Report
  \/ Settle \/ WriteState \/ AppendJournal \/ SettlePhase \/ Purge

Next ==
  \/ \E t \in Txn : Promote(t) \/ Reconcile(t)
  \/ RecoverSwap
  \/ Step
  \/ SnapshotStep("user")
  \/ Fault \/ Crash \/ CrashUser
  \/ ChildStops
  \/ \E v \in Edits : Edit(v)
  \/ \E v \in Installed : InstallerWrites(v)

Spec == Init /\ [][Next]_vars

(* Started operations go on, children end, and an operator keeps asking    *)
(* for the recovery of what is unsettled, not always just when a user's    *)
(* snapshot holds the locks.                                               *)
LocksFree == CanTake(writer) /\ CanTake(vault)

FairSpec ==
  /\ Spec
  /\ WF_vars(Step)
  /\ WF_vars(SnapshotStep("user"))
  /\ WF_vars(ChildStops)
  /\ SF_vars(LocksFree /\ RollbackLock)
  /\ SF_vars(LocksFree /\ Settle)
  /\ \A t \in Txn : SF_vars(LocksFree /\ Unsettled(t) /\ Reconcile(t))

-----------------------------------------------------------------------------
(* Properties *)

(* roadmap:25: a half-swapped profile is never captured as a snapshot.     *)
NoMixedSnapshot == \A i \in DOMAIN snap : snap[i] # Mixed

(* A half-swapped profile is always announced by a swap record on disk.    *)
MixtureIsPending == files = Mixed => stage \notin {None, Bare} /\ ~stage.decided

(* The types, and what the managed files may be.                           *)
ProfileInv == TypeOK /\ NoMixedSnapshot /\ MixtureIsPending

(* promote.ts:458, roadmap:43: a durable decision to commit is completed,  *)
(* never rolled back, and what is settled stays settled.                   *)
PhaseOf(t) == IF IsRecord(t) THEN txn[t].phase ELSE "none"

DecisionKept ==
  \A t \in Txn :
    /\ PhaseOf(t) = "committing" => PhaseOf(t)' \in {"committing", "committed"}
    /\ PhaseOf(t) \in Settled => txn'[t] = txn[t]

(* The journal has an entry for a transaction once it is settled, at most  *)
(* one, and none before it is decided; the entry agrees with the record.   *)
JournalAgrees ==
  /\ \A i, j \in journal : i.id = j.id => i = j
  /\ \A t \in Txn : PhaseOf(t) \in Settled =>
        \E i \in journal : i.id = t /\ i.outcome = txn[t].phase
  /\ \A i \in journal :
        PhaseOf(i.id) \in {"committing", "committed", "rolling-back", "rolled-back"}
          /\ i.outcome = txn[i.id].outcome

(* A transaction that is not settled keeps the original bytes, and there   *)
(* is one such transaction at most: everything else is refused meanwhile.  *)
OriginalsKept ==
  /\ \A t \in Txn : Unsettled(t) => t \in kept
  /\ \A t, u \in Txn : Unsettled(t) /\ Unsettled(u) => t = u

(* WORLD-LINE-SPEC:14: the last known good snapshot is one whose contents  *)
(* passed a restart verification.                                          *)
KnownGoodWasProved == good # 0 => snap[good] \in proved

(* What is on disk fits together after every step, kills included: the     *)
(* files, the swap record, the transactions, the journal and, when nobody  *)
(* edits, the last known good mark.                                        *)
RecordsAgree ==
  /\ ProfileInv /\ JournalAgrees /\ OriginalsKept
  /\ Edits = {} => KnownGoodWasProved

(* No step undoes a decision on disk.                                      *)
DecisionIsFinal == [][DecisionKept]_vars

(* transaction.ts:218: without edits, nothing is ever written over files   *)
(* that are neither the original nor the candidate, such as what an        *)
(* installer left.                                                         *)
Known == {mem.before, Candidate[cur], Mixed}

ReplacesKnown ==
  files' # files /\ pc' # pc /\ kind \in {"promote", "reconcile"} => files \in Known

(* Without edits, a promotion reported as rolled back left the original    *)
(* files, and one that committed left the snapshot it points at.           *)
SettlesRight ==
  \A t \in Txn :
    /\ PhaseOf(t) # "rolled-back" /\ PhaseOf(t)' = "rolled-back" => files = txn[t].before
    /\ PhaseOf(t) # "committed" /\ PhaseOf(t)' = "committed" =>
          files = snap[txn[t].post] /\ head = txn[t].post

SettledFiles == [][Edits = {} => SettlesRight /\ ReplacesKnown]_vars

(* roadmap:45: an undecided transaction can be rolled back, and a recovery *)
(* that is interrupted can be retried.  What an installer left is not      *)
(* written over.                                                           *)
UnsettledIsSettled ==
  \A t \in Txn : Unsettled(t) ~> ~Unsettled(t) \/ files \in Installed

(* What holds of it: only a staging directory whose record is gone, or     *)
(* managed files that are neither the original nor the candidate, stop the *)
(* retries.                                                                *)
Blocked(t) ==
  \/ stage = Bare
  \/ IsRecord(t) /\ files \notin {Mixed, Candidate[t], txn[t].before}

=============================================================================
