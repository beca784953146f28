----------------------------- MODULE WorktreePage ----------------------------
(***************************************************************************)
(* The page that creates and removes worktrees (worktree-control.ts, the   *)
(* deletion intercepted by sidebar-worktree-grouper.ts), the server's      *)
(* requests behind it (git.ts, api.ts) and an agent's tools (tools.ts),    *)
(* which create and remove worktrees at the same time. Nothing locks the   *)
(* repository: the client gives up after four seconds while the server     *)
(* goes on, and every git command of a request is a step of its own.       *)
(*                                                                         *)
(* A branch's name tells the directory of its worktree; "a/b" and "a--b"   *)
(* have the same one.                                                      *)
(***************************************************************************)
EXTENDS Naturals

CONSTANTS
  Branches, Dirs,
  MaxClicks,    (* bound: creations, removals and calls of tools           *)
  MaxEdits,     (* bound: the field's edits                                *)
  MaxByHand,    (* bound: directories deleted by hand                      *)
  None

VARIABLES
  dirOf,        (* destinationFor                                          *)
  tree,         (* a directory: "none", "live", "tomb"                     *)
  listed, head, (* git worktree list: directories, their branches          *)
  branches,
  known,        (* registered workspaces                                   *)
  form,         (* [open, base, field, card, creating, error]              *)
  menu, pendingDelete,
  dialog,       (* [target, removing, error]                               *)
  calls,        (* requests under way                                      *)
  fell,         (* history: the last worktree a request destroyed          *)
  clicks, edits, byHand

repoVars == <<tree, listed, head, branches>>
menuVars == <<menu, pendingDelete>>
pageVars == <<dirOf, repoVars, known, form, menuVars, dialog, calls, fell, clicks, edits, byHand>>

Primary == "primary"
Unseen == [dir |-> "none", listed |-> FALSE, head |-> None, branch |-> FALSE, left |-> {}]

Call(who, kind, name, dir, overwrite, step) ==
  [id |-> clicks, who |-> who, kind |-> kind, name |-> name, dir |-> dir, base |-> form.base,
   overwrite |-> overwrite, card |-> form.card, step |-> step, saw |-> Unseen,
   waits |-> who # "tool"]

Clicks == clicks < MaxClicks /\ clicks' = clicks + 1
Sends(c) == calls' = calls \union {c}
Goes(c, step) == calls' = (calls \ {c}) \union {[c EXCEPT !.step = step]}
Ends(c) == calls' = calls \ {c}

CheckedOut(b) == {d \in listed : head[d] = b}

----------------------------------------------------------------------------
Init ==
  /\ dirOf \in [Branches -> Dirs]
  /\ tree = [d \in Dirs |-> "none"] /\ listed = {} /\ head = [d \in Dirs |-> None]
  /\ branches \in SUBSET Branches
  /\ known = {}
  /\ form = [open |-> FALSE, base |-> None, field |-> None, card |-> None,
             creating |-> FALSE, error |-> FALSE]
  /\ menu = None /\ pendingDelete = None
  /\ dialog = [target |-> None, removing |-> FALSE, error |-> FALSE]
  /\ calls = {} /\ fell = None
  /\ clicks = 0 /\ edits = 0 /\ byHand = 0

FormOnly == UNCHANGED <<dirOf, repoVars, known, menuVars, dialog, calls, fell, clicks, byHand>>

----------------------------------------------------------------------------
(* The form *)

Toggle ==
  /\ ~form.creating
  /\ form' = IF form.open THEN [form EXCEPT !.open = FALSE]
             ELSE [form EXCEPT !.open = TRUE, !.card = None]
  /\ FormOnly /\ UNCHANGED edits

Dismiss ==
  /\ form.open /\ form' = [form EXCEPT !.open = FALSE]
  /\ FormOnly /\ UNCHANGED edits

PickBase(b) ==
  /\ form.open /\ form.base = None /\ ~form.creating
  /\ form' = [form EXCEPT !.base = b, !.field = None, !.card = None, !.error = FALSE]
  /\ FormOnly /\ UNCHANGED edits

Back ==
  /\ form.open /\ form.base # None
  /\ form' = [form EXCEPT !.base = None, !.card = None]
  /\ FormOnly /\ UNCHANGED edits

(* Also while something is being created *)
Edit(b) ==
  /\ form.open /\ form.base # None /\ b # form.field
  /\ edits < MaxEdits /\ edits' = edits + 1
  /\ form' = [form EXCEPT !.field = b, !.card = None]
  /\ FormOnly

CancelCard ==
  /\ form.open /\ form.card # None /\ ~form.creating
  /\ form' = [form EXCEPT !.card = None]
  /\ FormOnly /\ UNCHANGED edits

(* create(). The field's Enter calls it at any time, with a card on        *)
(* display and while another creation is under way.                        *)
Starts(overwrite) ==
  /\ form.open /\ form.base # None /\ Clicks
  /\ form' = [form EXCEPT !.creating = TRUE, !.error = FALSE]
  /\ Sends(Call("form", "create", form.field,
                IF form.field = None THEN None ELSE dirOf[form.field], overwrite,
                IF overwrite \/ form.field = None THEN "check" ELSE "preflight"))
  /\ UNCHANGED <<dirOf, repoVars, known, menuVars, dialog, fell, edits, byHand>>

Enter == Starts(FALSE)

OverwriteClick == form.card # None /\ ~form.creating /\ Starts(TRUE)

(* The card names the directory; it may be of a name edited meanwhile      *)
Preflight(c) ==
  /\ c.step = "preflight" /\ c.waits
  /\ IF tree[c.dir] # "none" \/ c.name \in branches
     THEN /\ form' = [form EXCEPT !.card = c.dir, !.creating = FALSE]
          /\ Ends(c)
     ELSE Goes(c, "check") /\ UNCHANGED form
  /\ UNCHANGED <<repoVars, known, dialog, fell>>

----------------------------------------------------------------------------
(* The server: createWorktree, overwriteWorktree, removeWorktree           *)

Removable(c) ==
  {b \in Branches : (c.saw.branch /\ b = c.name) \/ (c.saw.listed /\ b = c.saw.head)}

(* git worktree prune: of what is listed, the directories without a .git *)
Prunes == listed' = {d \in listed : tree'[d] = "live"}

Conflict(c) ==
  [dir |-> tree[c.dir], listed |-> c.dir \in listed,
   head |-> IF c.dir \in listed THEN head[c.dir] ELSE None, branch |-> c.name \in branches,
   left |-> {}]

Free(b, dir) == CheckedOut(b) \subseteq {dir}

(* A branch in any other worktree must never be deleted as a side effect   *)
(* of creating a new one                                                   *)
MayOverwrite(c) ==
  /\ c.overwrite
  /\ c.saw.dir = "live" => c.saw.listed
  /\ Free(c.name, c.dir) /\ \A b \in Removable(c) : Free(b, c.dir)

Check(c) ==
  /\ c.kind = "create" /\ c.step = "check" /\ c.name # None
  /\ LET seen == [c EXCEPT !.saw = Conflict(c)]
         occupied == seen.saw.dir # "none" \/ seen.saw.branch
     IN /\ occupied => MayOverwrite(seen)
        /\ calls' = (calls \ {c}) \union
             {[seen EXCEPT !.saw.left = Removable(seen), !.step =
                 IF ~occupied THEN "add"
                 ELSE IF seen.saw.listed \/ seen.saw.dir = "tomb" THEN "clear" ELSE "branches"]}
  /\ UNCHANGED <<repoVars, known, form, dialog, fell>>

(* git worktree remove --force wants a .git, or no directory at all: it    *)
(* refuses a tombstone that git still lists                                *)
GitRemoves(d) ==
  /\ d \in listed /\ tree[d] # "tomb"
  /\ tree' = [tree EXCEPT ![d] = "none"] /\ listed' = listed \ {d}

Deletes(d) == tree' = [tree EXCEPT ![d] = "none"]

Falls(c) ==
  fell' = IF tree[c.dir] = "live" THEN [dir |-> c.dir, by |-> c] ELSE fell

Clear(c) ==
  /\ c.step = "clear"
  /\ IF c.saw.listed THEN GitRemoves(c.dir) ELSE Deletes(c.dir) /\ UNCHANGED listed
  /\ Falls(c) /\ Goes(c, "branches")
  /\ UNCHANGED <<head, branches, known, form, dialog>>

(* One after the other; git refuses a branch that is checked out, or gone *)
DeletesBranch(c) ==
  /\ c.kind = "create" /\ c.step = "branches"
  /\ IF c.saw.left = {} THEN UNCHANGED branches /\ Goes(c, "add")
     ELSE \E b \in c.saw.left \intersect branches :
            /\ CheckedOut(b) = {} /\ branches' = branches \ {b}
            /\ calls' = (calls \ {c}) \union {[c EXCEPT !.saw.left = @ \ {b}]}
  /\ UNCHANGED <<tree, listed, head, known, form, dialog, fell>>

Occupies(c, d) ==
  /\ tree[d] = "none" /\ d \notin listed
  /\ tree' = [tree EXCEPT ![d] = "live"] /\ listed' = listed \union {d}
  /\ head' = [head EXCEPT ![d] = c.name]
  /\ calls' = (calls \ {c}) \union
       (IF c.waits THEN {[c EXCEPT !.step = "made", !.dir = d]} ELSE {})

(* git worktree add -b; the base may have been deleted *)
Adds(c) ==
  /\ c.step = "add" /\ c.name \notin branches
  /\ c.base \in branches \union {Primary}
  /\ Occupies(c, c.dir) /\ branches' = branches \union {c.name}
  /\ UNCHANGED <<known, form, dialog, fell>>

(* Without a name: a directory of its own, and no branch *)
AddsDetached(c) ==
  /\ c.step = "check" /\ c.name = None
  /\ c.base \in branches \union {Primary}
  /\ \E d \in Dirs : Occupies(c, d)
  /\ UNCHANGED <<branches, known, form, dialog, fell>>

(* removeWorktree *)
Looks(c) ==
  /\ c.step = "look"
  /\ \/ /\ tree[c.dir] = "none" /\ UNCHANGED <<tree, fell>> /\ Prunes
        /\ Goes(c, "made")
     \/ /\ tree[c.dir] = "tomb" /\ Deletes(c.dir) /\ Prunes
        /\ UNCHANGED fell /\ Goes(c, "made")
     \/ /\ tree[c.dir] = "live" /\ c.dir \in listed /\ UNCHANGED <<tree, listed, fell>>
        /\ calls' = (calls \ {c}) \union
             {[c EXCEPT !.step = "remove", !.saw.head = head[c.dir]]}
  /\ UNCHANGED <<head, branches, known, form, dialog>>

Removes(c) ==
  /\ c.step = "remove" /\ GitRemoves(c.dir) /\ Falls(c)
  /\ Goes(c, IF c.saw.head = None THEN "made" ELSE "its branch")
  /\ UNCHANGED <<head, branches, known, form, dialog>>

RemovesBranch(c) ==
  /\ c.step = "its branch" /\ c.saw.head \in branches /\ CheckedOut(c.saw.head) = {}
  /\ branches' = branches \ {c.saw.head} /\ Goes(c, "made")
  /\ UNCHANGED <<tree, listed, head, known, form, dialog, fell>>

----------------------------------------------------------------------------
(* What the page makes of it *)

(* The worktree becomes a workspace with a session *)
Registers(c) ==
  /\ c.step = "made" /\ c.kind = "create" /\ c.waits
  /\ known' = known \union {c.dir}
  /\ form' = [form EXCEPT !.open = FALSE, !.card = None, !.creating = FALSE]
  /\ Ends(c)
  /\ UNCHANGED <<repoVars, dialog, fell>>

Unregisters(c) ==
  /\ c.step = "made" /\ c.kind = "remove"
  /\ Ends(c)
  /\ IF c.who = "dialog" /\ c.waits
     THEN /\ known' = known \ {c.dir}
          /\ dialog' = [dialog EXCEPT !.target = None, !.removing = FALSE]
     ELSE UNCHANGED <<known, dialog>>
  /\ UNCHANGED <<repoVars, form, fell>>

Told(c) ==
  /\ form' = IF c.who = "form" /\ c.waits
             THEN [form EXCEPT !.error = TRUE, !.open = TRUE, !.creating = FALSE] ELSE form
  /\ dialog' = IF c.who = "dialog" /\ c.waits
               THEN [dialog EXCEPT !.error = TRUE, !.removing = FALSE] ELSE dialog

(* git refuses, a command takes too long, DSH refuses the workspace *)
Fails(c) ==
  /\ Ends(c) /\ Told(c)
  /\ UNCHANGED <<repoVars, known, fell>>

(* Four seconds: the server goes on *)
GivesUp(c) ==
  /\ c.waits /\ c.step \notin {"preflight", "made"}
  /\ calls' = (calls \ {c}) \union {[c EXCEPT !.waits = FALSE]}
  /\ Told(c)
  /\ UNCHANGED <<repoVars, known, fell>>

Proceeds(c) ==
  /\ \/ Preflight(c) \/ Check(c) \/ Clear(c) \/ DeletesBranch(c) \/ Adds(c) \/ AddsDetached(c)
     \/ Looks(c) \/ Removes(c) \/ RemovesBranch(c)
     \/ Registers(c) \/ Unregisters(c) \/ Fails(c) \/ GivesUp(c)
  /\ UNCHANGED <<dirOf, menuVars, clicks, edits, byHand>>

----------------------------------------------------------------------------
(* Removing *)

(* A click in a worktree's row remembers it; one in another row does not   *)
(* forget it                                                               *)
OpenMenu(w) ==
  /\ dialog.target = None /\ menu # w
  /\ menu' = w
  /\ pendingDelete' = IF w = Primary THEN pendingDelete ELSE w
  /\ UNCHANGED <<dirOf, repoVars, known, form, dialog, calls, fell, clicks, edits, byHand>>

(* "Delete workspace": DSH's own deletion, unless a worktree is remembered *)
ChooseDelete ==
  /\ menu # None /\ menu' = None /\ pendingDelete' = None
  /\ IF pendingDelete # None
     THEN /\ dialog' = [target |-> pendingDelete, removing |-> FALSE, error |-> FALSE]
          /\ UNCHANGED known
     ELSE known' = known \ {menu} /\ UNCHANGED dialog
  /\ UNCHANGED <<dirOf, repoVars, form, calls, fell, clicks, edits, byHand>>

Confirm ==
  /\ dialog.target # None /\ ~dialog.removing /\ Clicks
  /\ dialog' = [dialog EXCEPT !.removing = TRUE, !.error = FALSE]
  /\ Sends(Call("dialog", "remove", None, dialog.target, FALSE, "look"))
  /\ UNCHANGED <<dirOf, repoVars, known, form, menuVars, fell, edits, byHand>>

Cancel ==
  /\ dialog.target # None /\ ~dialog.removing
  /\ dialog' = [dialog EXCEPT !.target = None]
  /\ UNCHANGED <<dirOf, repoVars, known, form, menuVars, calls, fell, clicks, edits, byHand>>

(* An agent's tools *)
Tool ==
  /\ Clicks
  /\ \/ \E b \in Branches :
          Sends([Call("tool", "create", b, dirOf[b], FALSE, "check") EXCEPT !.base = Primary])
     \/ \E d \in known : tree[d] = "live" /\ Sends(Call("tool", "remove", None, d, FALSE, "look"))
  /\ UNCHANGED <<dirOf, repoVars, known, form, menuVars, dialog, fell, edits, byHand>>

(* The directory is deleted by hand, and a classification (Worktrees) puts *)
(* its placeholder there                                                   *)
ByHand(d) ==
  /\ byHand < MaxByHand /\ byHand' = byHand + 1
  /\ d \in known /\ tree[d] = "live" /\ tree' = [tree EXCEPT ![d] = "tomb"]
  /\ UNCHANGED <<dirOf, listed, head, branches, known, form, menuVars, dialog, calls, fell, clicks, edits>>

Next ==
  \/ Toggle \/ Dismiss \/ Back \/ CancelCard \/ Enter \/ OverwriteClick
  \/ \E b \in Branches \union {Primary} : PickBase(b)
  \/ \E b \in Branches \union {None} : Edit(b)
  \/ \E c \in calls : Proceeds(c)
  \/ \E w \in known \union {Primary} : OpenMenu(w)
  \/ ChooseDelete \/ Confirm \/ Cancel \/ Tool
  \/ \E d \in Dirs : ByHand(d)

Spec == Init /\ [][Next]_pageVars

----------------------------------------------------------------------------
(* What git lists hangs together however requests and tools come between   *)
(* each other's commands: one worktree a branch, and its branch is there;  *)
(* a live worktree is listed, so that removing it is never refused.        *)
WorktreesWhole ==
  /\ \A d \in Dirs : tree[d] = "live" => d \in listed
  /\ \A d \in listed : head[d] # None => head[d] \in branches /\ CheckedOut(head[d]) = {d}

(* The buttons come back: they are disabled only while a request of the    *)
(* form, or of the dialog, is waited for.                                  *)
FlagsAsked ==
  /\ form.creating => \E c \in calls : c.who = "form" /\ c.waits
  /\ dialog.removing <=> \E c \in calls : c.who = "dialog" /\ c.waits
  /\ dialog.removing => dialog.target # None

(* A worktree falls only to a request that was asked for it: the dialog    *)
(* that named its directory, an agent in it, or "overwrite" on a card.     *)
FellAsked ==
  fell # None =>
    /\ fell.by.dir = fell.dir
    /\ fell.by.kind = "create" => fell.by.overwrite /\ fell.by.card # None

PageSound == WorktreesWhole /\ FlagsAsked /\ FellAsked

==============================================================================
