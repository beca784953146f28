------------------------------- MODULE WorldView -------------------------------
(***************************************************************************)
(* The list of world lines and the timeline: worldLines of                 *)
(* web/operations.ts and what it projects (web/insights.ts,                *)
(* web/operation-events.ts, web/merge-events.ts), read without a lock      *)
(* while experiments are made, run, promoted and removed, snapshots are    *)
(* pruned, a merge commits and a line is destroyed.                        *)
(*                                                                         *)
(* The parts a promotion leaves in the stores (first its two snapshots,    *)
(* then its journal entry) come from Promotion, the locks that keep a line *)
(* there while one is on it from Lab.  The answer is a function of what    *)
(* was read, so the reader keeps what it read and Line, Restores,          *)
(* Operations and Merged say what it makes of it.                          *)
(***************************************************************************)
EXTENDS Naturals

CONSTANTS
  Labs,         (* experiments of the manager's home, or of the line's own *)
  Child,        (* a world line beside the origin                          *)
  MaxTxns,      (* promotions of one experiment                            *)
  MaxPruned,    (* snapshots pruned                                        *)
  None

VARIABLES
  lab,          (* each experiment's manifest, and its promotion under way *)
  child,        (* whether the line Child is there                         *)
  snaps,        (* the snapshots in each line's vault                      *)
  journal,      (* the promotion journal in each line's home               *)
  merge,        (* one merge: its target and how far it is                 *)
  pruned,       (* how many snapshots were pruned                          *)
  view          (* the reader                                              *)

viewVars == <<lab, child, snaps, journal, merge, pruned, view>>

Origin == "origin"
Lines == {Origin, Child}
Snap(x, n, is) == [of |-> x, n |-> n, is |-> is]
MergeBackup == Snap(None, 0, "merge")

(* An experiment works on its source: its parent line, or the line in      *)
(* whose home it was made.                                                 *)
Target(x) == IF lab[x].home = Origin THEN lab[x].parent ELSE lab[x].home

EmptyView ==
  [at |-> "idle", journal |-> {}, own |-> {}, snaps |-> [t \in Lines |-> {}],
   step |-> [l \in Labs \union {Child} |-> "none"], made |-> [x \in Labs |-> None],
   warned |-> FALSE, merged |-> FALSE, wasMerged |-> FALSE, there |-> {}]

Init ==
  /\ lab \in [Labs -> {[at |-> "none", does |-> d, home |-> h, parent |-> p, keep |-> k,
                        ran |-> 0, txns |-> 0, step |-> "idle"] :
                         d \in {"add", "restore"}, h \in Lines, p \in Lines, k \in BOOLEAN}]
  /\ \A x \in Labs : lab[x].home = Child => lab[x].parent = Origin
  /\ child = TRUE
  /\ snaps = [t \in Lines |-> {}]
  /\ journal = [t \in Lines |-> {}]
  /\ merge \in [into : Lines, at : {"none"}]
  /\ pruned = 0
  /\ view = EmptyView

----------------------------------------------------------------------------
(* What happens meanwhile *)

Saves(t, s) == snaps' = [snaps EXCEPT ![t] = @ \union {s}]
There(t) == t = Origin \/ child

(* an experiment: the baseline of its source, the directory, the manifest; *)
(* a restore has a snapshot already                                        *)
Make(x) ==
  /\ lab[x].at = "none" /\ There(Target(x))
  /\ lab' = [lab EXCEPT ![x].at = "dir"]
  /\ IF lab[x].does = "add" THEN Saves(Target(x), Snap(x, 0, "base")) ELSE UNCHANGED snaps
  /\ UNCHANGED <<child, journal, merge, pruned, view>>
Register(x) ==
  /\ lab[x].at = "dir"
  /\ lab' = [lab EXCEPT ![x].at = "made"]
  /\ UNCHANGED <<child, snaps, journal, merge, pruned, view>>

(* its first run, or another one after a promotion *)
Idle(x) == lab[x].at = "made" /\ lab[x].step = "idle"
Run(x) ==
  /\ Idle(x) /\ lab[x].txns > lab[x].ran
  /\ lab' = [lab EXCEPT ![x].ran = lab[x].txns]
  /\ UNCHANGED <<child, snaps, journal, merge, pruned, view>>

(* a promotion: backup, snapshot of the result, entry in the journal *)
Back(x) ==
  /\ Idle(x) /\ lab[x].txns < MaxTxns /\ There(Target(x))
  /\ lab' = [lab EXCEPT ![x].step = "backed", ![x].txns = @ + 1]
  /\ Saves(Target(x), Snap(x, lab[x].txns + 1, "pre"))
  /\ UNCHANGED <<child, journal, merge, pruned, view>>
Capture(x) ==
  /\ lab[x].step = "backed"
  /\ lab' = [lab EXCEPT ![x].step = "captured"]
  /\ Saves(Target(x), Snap(x, lab[x].txns, "after"))
  /\ UNCHANGED <<child, journal, merge, pruned, view>>
Log(x) ==
  /\ lab[x].step \in {"backed", "captured"}
  /\ journal' = [journal EXCEPT ![lab[x].home] = @ \union
       {[lab |-> x, n |-> lab[x].txns, does |-> lab[x].does,
         committed |-> lab[x].step = "captured"]}]
  /\ lab' = [lab EXCEPT ![x].step = IF lab[x].step = "captured" THEN "logged" ELSE "idle"]
  /\ UNCHANGED <<child, snaps, merge, pruned, view>>

(* The experiment of a finished one is removed unless it is to be kept; a  *)
(* restore looks for it in the home of the line, not in the manager's.     *)
Clear(x) ==
  /\ lab[x].step = "logged"
  /\ lab' = [lab EXCEPT ![x].step = "idle",
               ![x].at = IF lab[x].keep \/ (lab[x].does = "restore" /\ Target(x) # lab[x].home)
                         THEN @ ELSE "gone"]
  /\ UNCHANGED <<child, snaps, journal, merge, pruned, view>>
Destroy(x) ==
  /\ Idle(x) /\ lab' = [lab EXCEPT ![x].at = "gone"]
  /\ UNCHANGED <<child, snaps, journal, merge, pruned, view>>

(* A snapshot is pruned, Child is destroyed: nobody works on it then *)
Unused(t) == \A x \in Labs : Target(x) = t => lab[x].at = "none" \/ lab[x].step = "idle"
Prune ==
  /\ pruned < MaxPruned
  /\ \E t \in Lines : Unused(t) /\ \E s \in snaps[t] :
    /\ s # MergeBackup \/ merge.at = "committed"
    /\ snaps' = [snaps EXCEPT ![t] = @ \ {s}]
    /\ pruned' = pruned + 1
    /\ UNCHANGED <<lab, child, journal, merge, view>>
DestroyChild ==
  /\ child /\ Unused(Child) /\ (merge.into = Child => merge.at # "backed")
  /\ child' = FALSE
  /\ snaps' = [snaps EXCEPT ![Child] = {}]
  /\ journal' = [journal EXCEPT ![Child] = {}]
  /\ lab' = [x \in Labs |-> IF lab[x].home = Child THEN [lab[x] EXCEPT !.at = "gone"] ELSE lab[x]]
  /\ UNCHANGED <<merge, pruned, view>>

(* a merge: its backup, then its candidate says committed *)
MergeBack ==
  /\ merge.at = "none" /\ There(merge.into)
  /\ merge' = [merge EXCEPT !.at = "backed"] /\ Saves(merge.into, MergeBackup)
  /\ UNCHANGED <<lab, child, journal, pruned, view>>
MergeCommit ==
  /\ merge.at = "backed" /\ merge' = [merge EXCEPT !.at = "committed"]
  /\ UNCHANGED <<lab, child, snaps, journal, pruned, view>>

World ==
  \/ \E x \in Labs : Make(x) \/ Register(x) \/ Run(x) \/ Back(x) \/ Capture(x)
                     \/ Log(x) \/ Clear(x) \/ Destroy(x)
  \/ Prune \/ DestroyChild \/ MergeBack \/ MergeCommit

----------------------------------------------------------------------------
(* The reader: the manager's journal, the origin's snapshots, the labs in  *)
(* parallel, the merges.  wasMerged and there are not in the code: they    *)
(* remember what was so when it began.                                     *)

View(new) == view' = new /\ UNCHANGED <<lab, child, snaps, journal, merge, pruned>>
ListedHere == {x \in Labs : lab[x].home = Origin /\ lab[x].at \in {"dir", "made"}}
                \union {t \in {Child} : child}
Whole(l) == IF l = Child THEN child ELSE lab[l].at = "made"

ReadJournal ==
  /\ view.at = "idle"
  /\ View([view EXCEPT !.at = "snapshots", !.journal = journal[Origin],
                       !.wasMerged = merge.at = "committed"])
ReadOrigin ==
  /\ view.at = "snapshots"
  /\ View([view EXCEPT !.at = "list", !.snaps[Origin] = snaps[Origin]])
ListLabs ==
  /\ view.at = "list"
  /\ View([view EXCEPT !.at = "labs", !.there = {l \in ListedHere : Whole(l)},
             !.step = [l \in Labs \union {Child} |-> IF l \in ListedHere THEN "listed" ELSE "none"]])

At(l, step) == view.at = "labs" /\ view.step[l] = step
(* A lab whose manifest cannot be read is a warning *)
ReadManifest(l) ==
  /\ At(l, "listed")
  /\ View([view EXCEPT !.step[l] = IF Whole(l) THEN "known" ELSE "lost",
             !.made = IF l # Child /\ Whole(l) THEN [@ EXCEPT ![l] = lab[l]] ELSE @])
(* labStatus reads the manifest and the probes once more *)
ReadStatus(x) ==
  /\ x # Child /\ At(x, "known")
  /\ View([view EXCEPT !.step[x] = IF Whole(x) THEN "shown" ELSE "lost"])
(* The snapshots of a line, and its own journal; what cannot be read is a  *)
(* warning, and the line is shown without it.                              *)
ReadSnapshots ==
  /\ At(Child, "known")
  /\ \/ View([view EXCEPT !.step[Child] = "counted", !.snaps[Child] = snaps[Child]])
     \/ View([view EXCEPT !.step[Child] = "shown", !.warned = TRUE])
ReadOwnJournal ==
  /\ At(Child, "counted")
  /\ \/ View([view EXCEPT !.step[Child] = "shown", !.own = journal[Child]])
     \/ View([view EXCEPT !.step[Child] = "shown", !.warned = TRUE])
ReadMerges ==
  /\ view.at = "labs"
  /\ \A l \in Labs \union {Child} : view.step[l] \in {"none", "shown", "lost"}
  /\ View([view EXCEPT !.at = "done", !.merged = merge.at = "committed"])

Read ==
  \/ ReadJournal \/ ReadOrigin \/ ListLabs
  \/ \E l \in Labs \union {Child} : ReadManifest(l) \/ ReadStatus(l)
  \/ ReadSnapshots \/ ReadOwnJournal \/ ReadMerges

Next == World \/ Read

----------------------------------------------------------------------------
(* The answer *)

Known == {x \in Labs : view.made[x] # None}
Entries == view.journal \union view.own
After(e) == Snap(e.lab, e.n, "after")

(* Mutant: a restore without its result is the origin's.                   *)
RestoreLineOrigin(e) ==
  IF \E t \in Lines : After(e) \in view.snaps[t]
    THEN CHOOSE t \in Lines : After(e) \in view.snaps[t]
    ELSE Origin

(* restoreTimelineEvent, and whose restore it is: of the line that holds   *)
(* its result, else of the one in whose journal it is                      *)
RestoreLine(e) ==
  IF \E t \in Lines : After(e) \in view.snaps[t]
    THEN CHOOSE t \in Lines : After(e) \in view.snaps[t]
    ELSE IF e \in view.own THEN Child ELSE Origin

Restores == {[id |-> <<e.lab, e.n>>, line |-> RestoreLine(e), entry |-> e] :
               e \in {e \in Entries : e.does = "restore" /\ e.committed}}

(* projectOperations: an experiment's latest transaction says what became  *)
(* of it, and its backups are found on its source                          *)
TxnsOf(x) == {e \in Entries : e.lab = x}
IsLatest(e) == \A f \in TxnsOf(e.lab) : f.n <= e.n
ParentOf(x) == view.made[x].parent
Kids(x) ==
  {s \in view.snaps[ParentOf(x)] :
     \/ s = Snap(x, 0, "base")
     \/ \E e \in TxnsOf(x) : s \in {Snap(x, e.n, "pre")} \union
                                   (IF e.committed THEN {After(e)} ELSE {})}
Outcome(x) ==
  IF TxnsOf(x) = {} THEN "to apply"
  ELSE IF \E e \in TxnsOf(x) : IsLatest(e) /\ e.committed THEN "applied" ELSE "rolled back"
IsRestored(x) == \E r \in Restores : r.entry.lab = x /\ IsLatest(r.entry)
Operations ==
  {[id |-> x, outcome |-> Outcome(x), kids |-> Kids(x),
    line |-> IF IsRestored(x)
               THEN (CHOOSE r \in Restores : r.entry.lab = x /\ IsLatest(r.entry)).line
               ELSE ParentOf(x)] :
     x \in {x \in Known : IsRestored(x) \/ view.made[x].does = "add"}}

(* projectMerges *)
MergeKids == {s \in view.snaps[merge.into] : s = MergeBackup}

(* completedAt of an experiment's line: committed after its last run *)
Completed(x) == \E e \in TxnsOf(x) : e.committed /\ e.n > view.made[x].ran

----------------------------------------------------------------------------
Done == view.at = "done"
Shown(l) == l = Origin \/ view.step[l] = "shown"

(* operations.ts, "attribute them by the resulting snapshot's owner": a    *)
(* restore whose result is still there is on the line that holds it.       *)
RestoresAttributed ==
  Done => \A r \in Restores, t \in Lines :
            /\ After(r.entry) \in snaps[t] /\ Shown(t)
            /\ (t = Child => ~view.warned)
            => r.line = t

(* What was promoted before the answer began, and not run again since, is  *)
(* shown as applied: as its operation, and as its line's completion.       *)
AppliedShown ==
  Done => \A x \in Labs, e \in view.journal :
            e.lab = x /\ e.committed /\ lab[x].ran < e.n /\ x \in Known
              => /\ Completed(x)
                 /\ \A o \in Operations : o.id = x /\ lab[x].txns = e.n => o.outcome = "applied"

(* A lab that is there all the time is in the answer.                      *)
ThereShown ==
  Done => \A l \in view.there : Whole(l) => Shown(l)

(* A backup is folded into one event, of its own line; a merge that was    *)
(* committed when the answer began has its backup.                         *)
BackupsLinked ==
  Done =>
    /\ \A o, p \in Operations : o.kids \cap p.kids # {} => o = p
    /\ \A o \in Operations : MergeBackup \notin o.kids
    /\ \A o \in Operations :
         o.line # ParentOf(o.id) => \A s \in o.kids : s.is # "after" \/ s.n < view.made[o.id].txns
    /\ view.wasMerged /\ MergeBackup \in snaps[merge.into] /\ Shown(merge.into)
         /\ (merge.into = Child => ~view.warned)
         => view.merged /\ MergeKids # {}

WorldSound == RestoresAttributed /\ AppliedShown /\ ThereShown /\ BackupsLinked

=============================================================================
