--------------------------------- MODULE Merge --------------------------------
(***************************************************************************)
(* Merging plugins of one world line into another (web/merge.ts): a        *)
(* candidate is built and verified in a lab of its own, and committed when *)
(* neither the two lines nor the candidate have changed since.             *)
(*                                                                         *)
(* prepareMerge and commitMerge hold the service lock, so one of them runs *)
(* at a time.  A commit moves the module trees first, with the previous    *)
(* one kept aside, then swaps the managed files (FileSwap) and then writes *)
(* that the candidate is committed; an error undoes the steps taken, a     *)
(* kill leaves them.                                                       *)
(***************************************************************************)
EXTENDS Integers

CONSTANTS
  MaxMerges,    (* bound: candidates                                       *)
  MaxEdits,     (* bound: edits of the target, and of the source           *)
  Nothing

ASSUME MergeAssumption ==
  /\ MaxMerges \in Nat /\ MaxEdits \in Nat
  /\ Nothing \notin Nat /\ Nothing \notin [base : Nat, edits : Nat]

VARIABLES
  files,        (* the target's managed files: the candidate they came     *)
                (* from (0: none) and the edits since                      *)
  modules,      (* the target's node_modules: whose tree it is, or Nothing *)
  staging,      (* a swap left its staging directory                       *)
  source,       (* the source world line                                   *)
  cand,         (* merges/<id>/candidate.json and the candidate's lab      *)
  backup,       (* .wl-before-<id>                                         *)
  at, cur,      (* where the operation is, and which candidate it is about *)
  moved,        (* which steps the commit has taken: hadModules,           *)
                (* movedModules, movedFiles; the original files, and what  *)
                (* the snapshot `pre` holds                                *)
  fault         (* what went wrong that no later step makes good           *)

mergeVars == <<files, modules, staging, source, cand, backup, at, cur, moved, fault>>

Candidates == 1..MaxMerges
NoCandidate == [saved |-> FALSE]
NothingMoved == [had |-> FALSE, modules |-> FALSE, files |-> FALSE,
                 originals |-> Nothing, pre |-> Nothing]

MergeInit ==
  /\ files = [base |-> 0, edits |-> 0] /\ modules \in {0, Nothing}
  /\ staging = FALSE /\ source = 0
  /\ cand = [k \in Candidates |-> NoCandidate]
  /\ backup = [k \in Candidates |-> Nothing]
  /\ at = "idle" /\ cur = Nothing
  /\ moved = NothingMoved
  /\ fault = "none"

Idle == at = "idle"
At(step) == at = step
Go(step) == at' = step
Leave == at' = "idle" /\ cur' = Nothing /\ moved' = NothingMoved

----------------------------------------------------------------------------
(* prepareMerge *)

(* The lines are as the page has shown them: its preview can have been     *)
(* made just now.  The candidate's lab starts from what is read of them.   *)
Prepare(k) ==
  /\ Idle /\ cand[k] = NoCandidate /\ \A j \in 1..(k - 1) : cand[j] # NoCandidate
  /\ cand' = [cand EXCEPT ![k] =
       [saved |-> FALSE, verdict |-> Nothing, committed |-> FALSE,
        target |-> files, source |-> source, frozen |-> Nothing, pre |-> Nothing,
        dir |-> TRUE, changed |-> FALSE]]
  /\ cur' = k /\ Go("freezing")
  /\ UNCHANGED <<files, modules, staging, source, backup, moved, fault>>

(* The source's packages as they are now are copied beside the candidate   *)
Freeze ==
  /\ At("freezing")
  /\ cand' = [cand EXCEPT ![cur].frozen = source]
  /\ Go("verifying")
  /\ UNCHANGED <<files, modules, staging, source, backup, cur, moved, fault>>

(* The lab's verdict, and candidate.json with the hashes of what it was    *)
(* about.  Where only external services failed the user may review it.     *)
Verified(verdict) ==
  /\ At("verifying")
  /\ cand' = [cand EXCEPT ![cur].saved = TRUE, ![cur].verdict = verdict]
  /\ Leave
  /\ UNCHANGED <<files, modules, staging, source, backup, fault>>

(* A package that changes while it is copied, an installation that fails,  *)
(* a kill: nothing reads what was prepared                                 *)
NotPrepared ==
  /\ at \in {"freezing", "verifying"}
  /\ cand' = [cand EXCEPT ![cur] = NoCandidate]
  /\ Leave
  /\ UNCHANGED <<files, modules, staging, source, backup, fault>>

----------------------------------------------------------------------------
(* commitMerge *)

(* Neither line nor the candidate has changed since the verification *)
Unchanged(k) ==
  /\ files = cand[k].target /\ source = cand[k].source
  /\ cand[k].dir /\ ~cand[k].changed

(* A candidate that failed is committed only where its failures can be     *)
(* reviewed, and the user accepts them.                                    *)
Commit(k) ==
  /\ Idle /\ cand[k].saved /\ ~cand[k].committed
  /\ cand[k].verdict # "fail"
  /\ Unchanged(k)
  /\ cur' = k /\ Go("saving")
  /\ UNCHANGED <<files, modules, staging, source, cand, backup, moved, fault>>

(* The snapshot of the target; without its secrets it does not count *)
SaveTarget ==
  /\ At("saving")
  /\ \/ moved' = [moved EXCEPT !.pre = files] /\ Go("checking") /\ UNCHANGED cur
     \/ Leave
  /\ UNCHANGED <<files, modules, staging, source, cand, backup, fault>>

(* Mutant: what was checked before the snapshot is not checked again *)
CheckAgainNot ==
  /\ At("checking")
  /\ Go("setting aside") /\ moved' = [moved EXCEPT !.originals = files] /\ UNCHANGED cur
  /\ UNCHANGED <<files, modules, staging, source, cand, backup, fault>>

(* Under the profile's lock, everything is checked again *)
CheckAgain ==
  /\ At("checking")
  /\ IF Unchanged(cur)
     THEN Go("setting aside") /\ moved' = [moved EXCEPT !.originals = files] /\ UNCHANGED cur
     ELSE Leave
  /\ UNCHANGED <<files, modules, staging, source, cand, backup, fault>>

(* rename(node_modules, backup): there may be none *)
SetAside ==
  /\ At("setting aside")
  /\ modules # Nothing => backup[cur] = Nothing
  /\ backup' = IF modules = Nothing THEN backup ELSE [backup EXCEPT ![cur] = modules]
  /\ modules' = Nothing
  /\ moved' = [moved EXCEPT !.had = modules # Nothing]
  /\ Go("moving in")
  /\ UNCHANGED <<files, staging, source, cand, cur, fault>>

(* rename(the candidate's node_modules, node_modules) *)
MoveIn ==
  /\ At("moving in") /\ cand[cur].dir
  /\ cand' = [cand EXCEPT ![cur].dir = FALSE]
  /\ modules' = cur
  /\ moved' = [moved EXCEPT !.modules = TRUE]
  /\ Go("swapping")
  /\ UNCHANGED <<files, staging, source, backup, cur, fault>>

(* transactionalReplaceFiles: all or nothing *)
Swap ==
  /\ At("swapping") /\ ~staging
  /\ files' = [base |-> cur, edits |-> 0]
  /\ moved' = [moved EXCEPT !.files = TRUE]
  /\ Go("recording")
  /\ UNCHANGED <<modules, staging, source, cand, backup, cur, fault>>

Record ==
  /\ At("recording")
  /\ cand' = [cand EXCEPT ![cur].committed = TRUE, ![cur].pre = moved.pre]
  /\ Leave
  /\ UNCHANGED <<files, modules, staging, source, backup, fault>>

(* A step throws; the swap has rolled its files back, or refuses because   *)
(* of one that was left                                                    *)
Throws ==
  /\ at \in {"setting aside", "moving in", "swapping", "recording"}
  /\ Go("undo files")
  /\ UNCHANGED <<files, modules, staging, source, cand, backup, cur, moved, fault>>

(* The swap throws after it has replaced all files: it could not say so on *)
(* the disk, or not remove its staging directory                           *)
SwapUncertain ==
  /\ At("swapping") /\ ~staging
  /\ files' = [base |-> cur, edits |-> 0] /\ staging' = TRUE
  /\ fault' = "swap" /\ Go("undo files")
  /\ UNCHANGED <<modules, source, cand, backup, cur, moved>>

----------------------------------------------------------------------------
(* The catch of commitMerge *)

UndoFiles ==
  /\ At("undo files")
  /\ moved.files => ~staging
  /\ files' = IF moved.files THEN moved.originals ELSE files
  /\ Go("undo move")
  /\ UNCHANGED <<modules, staging, source, cand, backup, cur, moved, fault>>

UndoMove ==
  /\ At("undo move")
  /\ IF moved.modules
     THEN modules' = Nothing /\ cand' = [cand EXCEPT ![cur].dir = TRUE]
     ELSE UNCHANGED <<modules, cand>>
  /\ Go("undo aside")
  /\ UNCHANGED <<files, staging, source, backup, cur, moved, fault>>

UndoAside ==
  /\ At("undo aside") /\ (moved.had => modules = Nothing)
  /\ IF moved.had
     THEN modules' = backup[cur] /\ backup' = [backup EXCEPT ![cur] = Nothing]
     ELSE UNCHANGED <<modules, backup>>
  /\ Leave
  /\ UNCHANGED <<files, staging, source, cand, fault>>

(* One of them throws: the later ones are not tried *)
UndoThrows ==
  /\ \/ At("undo files") /\ moved.files
     \/ At("undo move") /\ moved.modules
     \/ At("undo aside") /\ moved.had
  /\ Leave /\ fault' = "undo"
  /\ UNCHANGED <<files, modules, staging, source, cand, backup>>

----------------------------------------------------------------------------
(* Others *)

KillMerge ==
  /\ at \notin {"idle", "freezing", "verifying"}
  /\ Leave
  /\ fault' = IF modules # cur /\ ~moved.had /\ ~moved.files THEN fault ELSE "killed"
  /\ UNCHANGED <<files, modules, staging, source, cand, backup>>

(* Users write the two lines at any time, and always something new *)
EditTarget ==
  /\ files.edits < MaxEdits
  /\ files' = [files EXCEPT !.edits = @ + 1]
  /\ UNCHANGED <<modules, staging, source, cand, backup, at, cur, moved, fault>>

EditSource ==
  /\ source < MaxEdits
  /\ source' = source + 1
  /\ UNCHANGED <<files, modules, staging, cand, backup, at, cur, moved, fault>>

(* The candidate's lab is used after it was verified: its tree, or the     *)
(* record of the probes a reviewer accepts, is another one.                *)
UseCandidate(k) ==
  /\ cand[k].saved /\ ~cand[k].committed /\ ~cand[k].changed
  /\ cand' = [cand EXCEPT ![k].changed = TRUE]
  /\ UNCHANGED <<files, modules, staging, source, backup, at, cur, moved, fault>>

(* recoverFileSwap for a swap that is committed *)
Recover ==
  /\ Idle /\ staging /\ staging' = FALSE
  /\ UNCHANGED <<files, modules, source, cand, backup, at, cur, moved, fault>>

MergeNext ==
  \/ Freeze \/ NotPrepared
  \/ \E k \in Candidates : Prepare(k) \/ Commit(k) \/ UseCandidate(k)
  \/ \E verdict \in {"ok", "review", "fail"} : Verified(verdict)
  \/ SaveTarget \/ CheckAgain \/ SetAside \/ MoveIn \/ Swap \/ Record
  \/ Throws \/ SwapUncertain \/ UndoFiles \/ UndoMove \/ UndoAside \/ UndoThrows
  \/ KillMerge \/ EditTarget \/ EditSource \/ Recover

MergeSpec == MergeInit /\ [][MergeNext]_mergeVars

----------------------------------------------------------------------------
(* Properties *)

(* Files and modules are of the same candidate; no modules, no candidate   *)
Whole == IF modules = Nothing THEN files.base = 0 ELSE files.base = modules

(* README.md "merge": what is committed is what was verified, made of the  *)
(* source as it was shown, and what it replaced is in its snapshot.        *)
CommittedAsVerified(k) ==
  cand[k].saved /\ cand[k].committed =>
    /\ cand[k].frozen = cand[k].source
    /\ cand[k].pre = cand[k].target

(* No tree is lost, whatever was killed or could not be undone             *)
TreesKept ==
  \A k \in Candidates :
    /\ cand[k] # NoCandidate =>
         (IF modules = k THEN 1 ELSE 0) + (IF cand[k].dir THEN 1 ELSE 0) +
         (IF \E j \in Candidates : backup[j] = k THEN 1 ELSE 0) = 1
    /\ backup[k] # Nothing => \A j \in Candidates : j # k => backup[j] # backup[k]

(* merge.ts commitMerge: whatever is edited meanwhile and whichever step   *)
(* throws, a merge that is over has been done or undone, files and modules *)
(* together, unless it was killed, its undo failed or its swap could not   *)
(* say how it ended.                                                       *)
MergeWhole ==
  /\ Idle /\ fault = "none" => Whole
  /\ \A k \in Candidates : CommittedAsVerified(k)
  /\ TreesKept

(* README.md:311, merge.ts:622: a write error is undone, files and modules *)
(* together, unless the undo itself fails or the commit is killed.         *)
UndoneWhole == Idle /\ fault \notin {"killed", "undo"} => Whole

=============================================================================
