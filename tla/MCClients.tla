------------------------------ MODULE MCClients -------------------------------
(***************************************************************************)
(* Small instances of Authorization and of the modules of the browser, for *)
(* TLC. One of them acts: `part` is chosen in the initial state.           *)
(*                                                                         *)
(*   "three visits"              Authorization without a restart           *)
(*   "two visits and a restart"  Authorization                             *)
(*   "pet"                       Companion                                 *)
(*   "page"                      Page                                      *)
(*   "panels"                    Panels                                    *)
(*   "worktree page"             WorktreePage                              *)
(*   "canvas"                    Timeline without its menu: every history  *)
(*                               of three events, then the user            *)
(*   "canvas menu"               Timeline with at most one event           *)
(*                                                                         *)
(* The variables of the browser's modules are shared: c1, c2, ... stand    *)
(* for those of the part that acts, in the order in which its module       *)
(* declares them, and the ones it does not need are None.                  *)
(***************************************************************************)
EXTENDS Authorization

CONSTANTS v1, v2, v3, owner, other, s1, s2, j1, k1

VARIABLES
  part,
  c1, c2, c3, c4, c5, c6, c7, c8, c9, c10, c11, c12, c13, c14, c15, c16, c17, c18, c19,
  c20, c21, c22

rest18 == <<c18, c19, c20, c21, c22>>
rest17 == <<c17, rest18>>
rest16 == <<c16, rest17>>
rest13 == <<c13, c14, c15, rest16>>
browserVars == <<c1, c2, c3, c4, c5, c6, c7, c8, c9, c10, c11, c12, rest13>>
runVars == <<part, authVars, browserVars>>

----------------------------------------------------------------------------
ThreeVisits == {v1, v2, v3}
TwoUsers == {owner, other}

C == INSTANCE Companion WITH
       Sessions <- {s1, s2}, MaxTurns <- 1, MaxPosts <- 2,
       shape <- c1, host <- c2, bound <- c3, current <- c4, adapter <- c5,
       machine <- c6, enabled <- c7, lastSent <- c8, flight <- c9, newest <- c10,
       seen <- c11, unearned <- c12

P == INSTANCE Page WITH
       Jobs <- {j1}, Calls <- {k1}, MaxIds <- 2, MaxTrail <- 2,
       job <- c1, carried <- c2, given <- c3, key <- c4, calls <- c5,
       operation <- c6, busy <- c7, panel <- c8, trail <- c9, panelJob <- c10,
       shown <- c11, asked <- c12, feed <- c13, connected <- c14, list <- c15,
       heard <- c16, reports <- c17

B == INSTANCE Panels WITH
       Points <- {"p"}, Plugins <- {"a"}, Targets <- {"origin", "m"},
       Records <- {"r1"}, Files <- {"f1", "f2"}, MaxActions <- 4, MaxChanges <- 1,
       world <- c1, changes <- c2, panel <- c3, opens <- c4, choice <- c5,
       version <- c6, load <- c7, data <- c8, shown <- c9, agreed <- c10,
       error <- c11, busy <- c12, asks <- c13, actions <- c14, done <- c15, led <- c16

W == INSTANCE WorktreePage WITH
       Branches <- {"p", "q"}, Dirs <- {"d", "e"}, MaxClicks <- 2, MaxEdits <- 1,
       MaxByHand <- 1,
       dirOf <- c1, tree <- c2, listed <- c3, head <- c4, branches <- c5,
       known <- c6, form <- c7, menu <- c8, pendingDelete <- c9, dialog <- c10,
       calls <- c11, fell <- c12, clicks <- c13, edits <- c14, byHand <- c15

T == INSTANCE Timeline WITH
       Lines <- {"m"}, Kinds <- {"mirror", "verification", "rescue"},
       Home <- "origin", Whole <- {1, 2}, Gaps <- {0, 1}, Lead <- 30,
       Zooms <- {50, 145}, MaxEvents <- 3, MaxChanges <- 1, MaxActions <- 3,
       lines <- c1, events <- c2, made <- c3, clock <- c4, changes <- c5, busy <- c6,
       selected <- c7, cursor <- c8, focus <- c9, expanded <- c10, zoom <- c11,
       markerZoom <- c12, flight <- c13, frame <- c14, before <- c15,
       collapse <- c16, home <- c17, menu <- c18, closing <- c19, exit <- c20,
       asked <- c21, actions <- c22

----------------------------------------------------------------------------
(* The variables from the given one on are not needed.                     *)
No18 == c18 = None /\ c19 = None /\ c20 = None /\ c21 = None /\ c22 = None
No17 == c17 = None /\ No18
No16 == c16 = None /\ No17
No13 == c13 = None /\ c14 = None /\ c15 = None /\ No16
NoBrowser ==
  /\ c1 = None /\ c2 = None /\ c3 = None /\ c4 = None /\ c5 = None /\ c6 = None
  /\ c7 = None /\ c8 = None /\ c9 = None /\ c10 = None /\ c11 = None /\ c12 = None
  /\ No13

(* The accounts are interchangeable, and one bound owner is enough.        *)
OneOwner == [authz |-> 1, users |-> {owner}]

BrowserInit ==
  \/ part = "pet" /\ C!Init /\ No13
  \/ part = "page" /\ P!Init /\ No18
  \/ part = "panels" /\ B!Init /\ No17
  \/ part = "worktree page" /\ W!Init /\ No16
  \/ part = "canvas" /\ T!Init /\ c1["m"].kind = "mirror"
  \/ part = "canvas menu" /\ T!Init

ClientsInit ==
  /\ AuthInit
  /\ \/ /\ part \in {"three visits", "two visits and a restart"}
        /\ disk.doc \in {None, Unreadable, OneOwner} /\ NoBrowser
     \/ BrowserInit /\ disk.doc = None

(* Timeline: a history is recorded before the user acts; a poll brings     *)
(* what changed or went.  On the canvas there is no menu, the pointer      *)
(* moves by opening something, and no line changes its state.              *)
Deeds == c22 + c5
RecordedFirst == c3' # c3 => Deeds = 0

OnCanvas ==
  /\ RecordedFirst /\ Deeds' <= 2 /\ (Deeds' > 0 => c3 = 3)
  /\ c3 = 0 => c4' = 0
  /\ c8' # c8 => (c10' # c10 \/ c9' # c9)
  /\ DOMAIN c1' = DOMAIN c1 => c1' = c1
  /\ \A e \in c2' : e.line = "origin" => e.kind = "snapshot"
  /\ UNCHANGED <<c18, c19, c20>>

OnMenu ==
  /\ RecordedFirst /\ Deeds' <= 3 /\ c3' <= 1
  /\ UNCHANGED c11

(* Panels: four clicks and changes by others, one panel left for another.  *)
OnPanels == c14' + c2' <= 4 /\ c4' <= 2

(* WorktreePage: three clicks, edits and changes by hand.                  *)
OnWorktrees == c13' + c14' + c15' <= 3

BrowserNext ==
  \/ part = "pet" /\ C!Next /\ UNCHANGED <<part, rest13>>
  \/ part = "page" /\ P!Next /\ UNCHANGED <<part, rest18>>
  \/ part = "panels" /\ B!Next /\ OnPanels /\ UNCHANGED <<part, rest17>>
  \/ part = "worktree page" /\ W!Next /\ OnWorktrees /\ UNCHANGED <<part, rest16>>
  \/ part = "canvas" /\ T!Next /\ OnCanvas /\ UNCHANGED part
  \/ part = "canvas menu" /\ T!Next /\ OnMenu /\ UNCHANGED part

ClientsNext ==
  \/ /\ part = "three visits" /\ AuthNext /\ UNCHANGED restarts
     /\ UNCHANGED <<part, browserVars>>
  \/ /\ part = "two visits and a restart" /\ AuthNext /\ UNCHANGED visit[v3]
     /\ UNCHANGED <<part, browserVars>>
  \/ BrowserNext /\ UNCHANGED authVars

ClientsSpec == ClientsInit /\ [][ClientsNext]_runVars

----------------------------------------------------------------------------
(* GateHonest of Authorization is checked as it stands: a part that does   *)
(* not act changes nothing.                                                *)

(* What the browser shows and sends on: the bridge knows what the          *)
(* application shows (Companion.CompanionHonest); a request whose answer   *)
(* was lost is not carried out again and a job is reported as settled once *)
(* (Page.RetriesActOnce, ReportsOnce); no panel acts on an answer to       *)
(* another question (Panels.PanelsSound); no worktree is given up unasked  *)
(* (WorktreePage.PageSound); and the canvas tells its events apart, links  *)
(* them forwards and offers what it shows (Timeline.TimelineSound).        *)
ClientsHonest ==
  /\ part = "pet" => C!CompanionHonest
  /\ part = "page" => P!RetriesActOnce /\ P!ReportsOnce
  /\ part = "panels" => B!PanelsSound
  /\ part = "worktree page" => W!PageSound
  /\ part \in {"canvas", "canvas menu"} => T!TimelineSound

=============================================================================
