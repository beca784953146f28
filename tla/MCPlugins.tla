------------------------------ MODULE MCPlugins -------------------------------
(***************************************************************************)
(* Small instances of PasswordGate, DesktopPet, Worktrees, Sidebar and     *)
(* Canvas for TLC, one of which acts: `part` is chosen in the initial      *)
(* state, the others keep their initial state.  The state graph is the     *)
(* disjoint union of the parts' graphs.                                    *)
(*                                                                         *)
(*   "passwords"                 PasswordGate                              *)
(*   "worktrees"                 Worktrees                                 *)
(*   "sidebar"                   Sidebar                                   *)
(*   "desktop"                   DesktopPet, two lines and a restart       *)
(*   "mouse"                     DesktopPet, the mouse and one line        *)
(*   "canvas"                    Canvas                                    *)
(***************************************************************************)
EXTENDS PasswordGate, DesktopPet, Canvas, Sidebar

CONSTANTS
  a1, a2, a3, a4, c1, c2, g1, g2, r1

VARIABLES
  part, there, git, marker, listed, branch, poll, row, req, byHand, failures

worktreeVars == <<there, git, marker, listed, branch, poll, row, req, byHand, failures>>
runVars == <<part, gateVars, worktreeVars, desktopVars, canvasVars, sidebarVars>>

----------------------------------------------------------------------------
FourAttempts == {a1, a2, a3, a4}
TwoClients == {c1, c2}
TwoPages == {g1, g2}

W == INSTANCE Worktrees WITH
       Pages <- TwoPages, Requests <- {r1}, MaxByHand <- 2, MaxFailures <- 1

Guessing == part = "passwords"
Grouping == part = "worktrees"
OnDesk == part \in {"desktop", "mouse"}
Drawing == part = "canvas"
Nesting == part = "sidebar"

(* The parts that do not act keep one initial state.                       *)
PluginsInit ==
  /\ part \in {"passwords", "worktrees", "desktop", "mouse", "canvas", "sidebar"}
  /\ Init
  /\ W!Init /\ (~Grouping => ~there)
  /\ PetInit /\ (~OnDesk => manifest /\ channel = <<>>)
  /\ CanvasInit
  /\ SidebarInit /\ (~Nesting => paths = {} /\ gone = {})

PluginsNext ==
  \/ /\ Guessing /\ Next
     /\ UNCHANGED <<part, worktreeVars, desktopVars, canvasVars, sidebarVars>>
  \/ /\ Grouping /\ W!Next
     /\ UNCHANGED <<part, gateVars, desktopVars, canvasVars, sidebarVars>>
  \/ /\ OnDesk /\ PetNext
     /\ IF part = "desktop" THEN UNCHANGED <<hovering, button>>
        ELSE posts' < 2 /\ UNCHANGED restarts
     /\ UNCHANGED <<part, gateVars, worktreeVars, canvasVars, sidebarVars>>
  \/ /\ Drawing /\ CanvasNext
     /\ UNCHANGED <<part, gateVars, worktreeVars, desktopVars, sidebarVars>>
  \/ /\ Nesting /\ SidebarNext
     /\ UNCHANGED <<part, gateVars, worktreeVars, desktopVars, canvasVars>>

(* The fairness of PasswordGate.FairSpec, DesktopPet.PetFairSpec,          *)
(* Worktrees.FairSpec, Canvas.CanvasFairness and Sidebar.SidebarFairness.  *)
PluginsSpec ==
  /\ PluginsInit /\ [][PluginsNext]_runVars
  /\ \A a \in Attempts : WF_gateVars(Guessing /\ Derived(a))
  /\ \A g \in TwoPages : WF_worktreeVars(Grouping /\ W!Classify(g))
  /\ WF_desktopVars(OnDesk /\ DragPoll)
  /\ WF_canvasVars(Drawing /\ Expire)
  /\ WF_canvasVars(Drawing /\ (AnswerRead("page") \/ Refuse("page")))
  /\ WF_canvasVars(Drawing /\ request["page"].at = "idle" /\ Send("page"))
  /\ SF_canvasVars(Drawing /\ Applies("page") /\ AnswerRead("page"))
  /\ SF_canvasVars(Drawing /\ Accept("page"))
  /\ WF_sidebarVars(Nesting /\ Poll) /\ WF_sidebarVars(Nesting /\ Fire)
  /\ WF_sidebarVars(Nesting /\ Serve) /\ WF_sidebarVars(Nesting /\ Receive)

----------------------------------------------------------------------------
(* The properties of the parts.  Those of PasswordGate (GateBounded,       *)
(* WaitersServed), DesktopPet (DesktopInv, DragEnds), Canvas's CanvasWhole *)
(* and Sidebar's QueueSound are checked as they stand.                     *)

(* Worktrees.RowsSettle: the pages agree with the worktree in the end.     *)
(* Sidebar.GroupsSettle: the rows of the sidebar are in the end those of   *)
(* the present workspaces, and what is gone is read-only.                  *)
SidebarSettles == (Grouping => W!RowsSettle) /\ (Nesting => GroupsSettle)

(* Canvas.PageCatchesUp: once the store rests, the page shows it.          *)
CanvasCatchesUp == Drawing => PageCatchesUp

=============================================================================
