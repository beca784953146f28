------------------------------- MODULE Worktrees ------------------------------
(***************************************************************************)
(* A generated worktree of a repository (git-worktree/src/git.ts): pages   *)
(* that classify its path again and again (sidebar-worktree-grouper.ts),   *)
(* requests that create, overwrite and remove it, and a user who deletes   *)
(* and restores it by hand.  Nothing locks the path: every step between    *)
(* two awaits is an action.                                                *)
(*                                                                         *)
(* The path is a workspace that DSH knows; so is the repository.           *)
(***************************************************************************)
EXTENDS Naturals

CONSTANTS
  Pages, Requests,
  MaxByHand,    (* bound: deletions and restorations by hand               *)
  MaxFailures   (* bound: git commands of the pages that time out          *)

VARIABLES
  there, git, marker,   (* the directory, its .git, the tombstone's marker *)
  listed, branch,       (* what git knows: the worktree, its branch        *)
  poll, row,            (* each page's classification, and the row it shows *)
  req,                  (* each request: its next step and what it saw     *)
  byHand, failures

treeVars == <<there, git, marker, listed, branch>>
worktreeVars == <<treeVars, poll, row, req, byHand, failures>>

Live == there /\ git
NoRequest == [step |-> "idle", listed |-> FALSE, branch |-> FALSE]

Init ==
  /\ there \in BOOLEAN /\ git = there /\ marker = FALSE
  /\ listed = there /\ branch = there
  /\ poll = [g \in Pages |-> "look"]
  /\ row = [g \in Pages |-> "active"]      (* inferWorkspaceGroupsLocal *)
  /\ req = [r \in Requests |-> NoRequest]
  /\ byHand = 0 /\ failures = 0

(* rm -rf, and what git does to a worktree it removes *)
DirectoryGone == there' = FALSE /\ git' = FALSE /\ marker' = FALSE

----------------------------------------------------------------------------
(* classifyWorkspacePaths *)

Then(g, step) == poll' = [poll EXCEPT ![g] = step] /\ UNCHANGED row
Shows(g, status) == poll' = [poll EXCEPT ![g] = "look"] /\ row' = [row EXCEPT ![g] = status]

Look(g) ==
  /\ poll[g] = "look"
  /\ Then(g, IF marker THEN "marked" ELSE "unmarked")
  /\ UNCHANGED treeVars

(* Mutant: the marker of a restored worktree is believed *)
AskMarkedNot(g) ==
  /\ poll[g] = "marked" /\ Shows(g, "removed")
  /\ UNCHANGED treeVars

(* A restored worktree may still have its marker *)
AskMarked(g) ==
  /\ poll[g] = "marked"
  /\ IF Live /\ listed THEN Then(g, "clear") ELSE Shows(g, "removed")
  /\ UNCHANGED treeVars

Clear(g) ==
  /\ poll[g] = "clear"
  /\ marker' = FALSE /\ Shows(g, "active")
  /\ UNCHANGED <<there, git, listed, branch>>

AskUnmarked(g) ==
  /\ poll[g] = "unmarked"
  /\ IF Live THEN Shows(g, "active") ELSE Then(g, "missing")
  /\ UNCHANGED treeVars

(* ensureWorktreeTombstone: where the path has a .git after all the row    *)
(* is "removed", without a marker.                                         *)
Placehold(g) ==
  /\ poll[g] = "missing"
  /\ IF Live THEN Shows(g, "removed") /\ UNCHANGED there
     ELSE /\ there' = TRUE
          /\ IF marker THEN Shows(g, "removed") ELSE Then(g, "stamp")
  /\ UNCHANGED <<git, marker, listed, branch>>

(* The marker is created exclusively: where it exists by now, or the       *)
(* directory does not, the whole classification fails.                     *)
Stamp(g) ==
  /\ poll[g] = "stamp"
  /\ IF there /\ ~marker
     THEN marker' = TRUE /\ Shows(g, "removed")
     ELSE UNCHANGED marker /\ Then(g, "look")
  /\ UNCHANGED <<there, git, listed, branch>>

Classify(g) ==
  /\ \/ Look(g) \/ AskMarked(g) \/ Clear(g) \/ AskUnmarked(g) \/ Placehold(g) \/ Stamp(g)
  /\ UNCHANGED <<req, byHand, failures>>

(* A git command of the classification times out *)
GitFails(g) ==
  /\ failures < MaxFailures /\ failures' = failures + 1
  /\ \/ poll[g] = "marked" /\ Shows(g, "removed")
     \/ poll[g] = "unmarked" /\ Then(g, "missing")
  /\ UNCHANGED <<treeVars, req, byHand>>

----------------------------------------------------------------------------
(* createWorktree and removeWorktree *)

Goes(r, step) == req' = [req EXCEPT ![r].step = step]
Ends(r) == req' = [req EXCEPT ![r] = NoRequest]

(* inspectWorktreeConflict; an overwrite has been confirmed, and is        *)
(* refused for a directory that is neither a worktree nor a tombstone.     *)
Create(r, overwrite) ==
  /\ req[r].step = "idle"
  /\ there \/ branch => overwrite
  /\ there => listed \/ marker
  /\ req' = [req EXCEPT ![r] =
       [step |-> IF ~there /\ ~branch THEN "add" ELSE IF listed THEN "remove old"
                 ELSE IF there THEN "delete old" ELSE "delete branch",
        listed |-> listed, branch |-> branch]]
  /\ UNCHANGED treeVars

(* git worktree remove --force: there is a .git, or nothing at all *)
GitRemoves == listed /\ (there => git)

Overwrite(r) ==
  /\ \/ req[r].step = "remove old" /\ GitRemoves /\ listed' = FALSE
     \/ req[r].step = "delete old" /\ UNCHANGED listed
  /\ DirectoryGone
  /\ Goes(r, IF req[r].branch THEN "delete branch" ELSE "add")
  /\ UNCHANGED branch

(* git branch --delete --force: not of a branch that is checked out *)
DeleteBranch(r) ==
  /\ req[r].step \in {"delete branch", "delete its branch"} /\ branch /\ ~listed
  /\ branch' = FALSE
  /\ IF req[r].step = "delete branch" THEN Goes(r, "add") ELSE Ends(r)
  /\ UNCHANGED <<there, git, marker, listed>>

(* git worktree add -b: neither the branch nor the worktree is there, and  *)
(* the directory is not or is empty.                                       *)
Add(r) ==
  /\ req[r].step = "add" /\ ~branch /\ ~listed /\ ~git /\ ~marker
  /\ there' = TRUE /\ git' = TRUE /\ listed' = TRUE /\ branch' = TRUE
  /\ Ends(r)
  /\ UNCHANGED marker

Remove(r) ==
  /\ req[r].step = "idle"
  /\ \/ ~there /\ listed /\ listed' = FALSE /\ UNCHANGED <<there, git, marker, req>>
     \/ there /\ marker /\ Goes(r, "remove tombstone") /\ UNCHANGED <<there, git, marker, listed>>
     \/ there /\ ~marker /\ git /\ listed /\ Goes(r, "remove") /\ UNCHANGED <<there, git, marker, listed>>
  /\ UNCHANGED branch

RemoveDirectory(r) ==
  /\ \/ req[r].step = "remove tombstone" /\ Ends(r)
     \/ req[r].step = "remove" /\ GitRemoves /\ Goes(r, "delete its branch")
  /\ DirectoryGone /\ listed' = FALSE
  /\ UNCHANGED branch

(* git refuses, or the request is aborted *)
RequestFails(r) ==
  /\ req[r].step # "idle" /\ Ends(r)
  /\ UNCHANGED treeVars

Request(r) ==
  /\ \/ \E overwrite \in BOOLEAN : Create(r, overwrite)
     \/ Overwrite(r) \/ DeleteBranch(r) \/ Add(r)
     \/ Remove(r) \/ RemoveDirectory(r) \/ RequestFails(r)
  /\ UNCHANGED <<poll, row, byHand, failures>>

----------------------------------------------------------------------------
(* The user, by hand: deletes the directory, adds the worktree again, or   *)
(* moves it back into its directory.                                       *)
ByHand ==
  /\ byHand < MaxByHand /\ byHand' = byHand + 1
  /\ \/ there /\ DirectoryGone /\ UNCHANGED <<listed, branch>>
     \/ ~Live /\ (there => marker) /\ there' = TRUE /\ git' = TRUE /\ listed' = TRUE /\ branch' = TRUE
        /\ UNCHANGED marker
  /\ UNCHANGED <<poll, row, req, failures>>

Next ==
  \/ \E g \in Pages : Classify(g) \/ GitFails(g)
  \/ \E r \in Requests : Request(r)
  \/ ByHand

Spec == Init /\ [][Next]_worktreeVars

(* A page that is open classifies again every few seconds.                 *)
FairSpec == Spec /\ \A g \in Pages : WF_worktreeVars(Classify(g))

----------------------------------------------------------------------------
(* Properties *)

(* git.ts classifyWorkspacePaths, "clear it and treat the path as active   *)
(* again": however classifications of several pages, requests and the user *)
(* come between each other's steps, a worktree that stays is shown as      *)
(* active everywhere and loses its marker, and one that stays away while   *)
(* no request is on its way is shown as removed.                           *)
RowsSettle ==
  \A g \in Pages :
    /\ <>[](Live /\ listed) => <>[](row[g] = "active" /\ ~marker)
    /\ <>[](~git /\ \A r \in Requests : req[r].step = "idle") => <>[](row[g] = "removed")

=============================================================================
