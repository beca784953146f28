-------------------------------- MODULE Sidebar -------------------------------
(***************************************************************************)
(* The sidebar's grouping of workspaces under their repositories           *)
(* (sidebar-worktree-grouper.ts): nested at once from the registered       *)
(* paths, then corrected by the server's classification, which says which  *)
(* worktrees are gone. One classification is on its way at a time; what    *)
(* happens meanwhile is queued, and a poll asks again and again.           *)
(*                                                                         *)
(* How the server classifies a path is the module Worktrees.               *)
(***************************************************************************)
EXTENDS Naturals

CONSTANTS
  Paths,        (* worktrees of one repository                             *)
  MaxChanges,   (* bound: workspaces added and removed, worktrees deleted  *)
                (*   and restored                                          *)
  MaxFailures,  (* bound: requests that fail or take too long              *)
  MaxHides,     (* bound: times the page is hidden                         *)
  NoAsk

VARIABLES
  paths,        (* the registered workspaces                               *)
  gone,         (* worktrees that are not there                            *)
  timer,        (* dataTimer is set                                        *)
  queuedForce, queuedData, inFlight,
  ask,          (* the request: its paths, and the answer                  *)
  lastKey,      (* the paths that were last nested                         *)
  groups,       (* what is on display                                      *)
  visible, disposed,
  moved, misses, hides

worldVars == <<paths, gone, moved>>
queueVars == <<timer, queuedForce, queuedData, inFlight>>
sidebarVars == <<worldVars, queueVars, ask, lastKey, groups, visible, disposed, misses, hides>>

Rows(P) == [P -> {"active", "removed"}]
Asked == [of : SUBSET Paths, answer : (UNION {Rows(P) : P \in SUBSET Paths}) \union {NoAsk}]

ASSUME AskAssumption == NoAsk \notin Asked

NoGroups == [p \in {} |-> "active"]

(* inferWorkspaceGroupsLocal: a path tells its repository, not more        *)
Local(P) == [p \in P |-> "active"]

Classified(P) == [p \in P |-> IF p \in gone THEN "removed" ELSE "active"]

(* mergeWorkspaceGroups: rows of the request's paths, with what the server *)
(* knows of them                                                           *)
Merged(local, remote) ==
  [p \in DOMAIN local |-> IF p \in DOMAIN remote THEN remote[p] ELSE local[p]]

(* removedPaths: nothing is written in a session of these                  *)
ReadOnly == {p \in DOMAIN groups : groups[p] = "removed"}

----------------------------------------------------------------------------
(* start *)
SidebarInit ==
  /\ paths \in SUBSET Paths /\ gone \in SUBSET Paths
  /\ timer = TRUE /\ queuedForce = TRUE
  /\ queuedData = FALSE /\ inFlight = FALSE
  /\ ask = NoAsk /\ lastKey = {} /\ groups = NoGroups
  /\ visible = TRUE /\ disposed = FALSE
  /\ moved = 0 /\ misses = 0 /\ hides = 0

(* scheduleData. `forced` is what is queued once the present event is over *)
ScheduleData(force, forced) ==
  /\ timer' = (timer \/ ~disposed)
  /\ queuedForce' = (forced \/ (force /\ ~disposed))

(* DSH adds or removes a workspace, and tells its subscribers              *)
PathsChange(p) ==
  /\ moved < MaxChanges /\ moved' = moved + 1
  /\ paths' = IF p \in paths THEN paths \ {p} ELSE paths \union {p}
  /\ ScheduleData(FALSE, queuedForce)
  /\ UNCHANGED <<gone, queuedData, inFlight, ask, lastKey, groups, visible, disposed, misses, hides>>

WorktreeChanges(p) ==
  /\ moved < MaxChanges /\ moved' = moved + 1
  /\ gone' = IF p \in gone THEN gone \ {p} ELSE gone \union {p}
  /\ UNCHANGED <<paths, queueVars, ask, lastKey, groups, visible, disposed, misses, hides>>

Poll ==
  /\ ~disposed
  /\ ScheduleData(TRUE, queuedForce)
  /\ UNCHANGED <<worldVars, queuedData, inFlight, ask, lastKey, groups, visible, disposed, misses, hides>>

----------------------------------------------------------------------------
(* syncData *)

Cleared ==
  /\ paths = {}
  /\ lastKey' = {} /\ groups' = NoGroups
  /\ UNCHANGED <<queuedData, inFlight, ask>> /\ queuedForce' = FALSE

IsNew == paths # {} /\ (paths # lastKey \/ groups = NoGroups)

(* The same paths, and nobody asked: only the document is put in order     *)
Unchanged(force) ==
  /\ paths # {} /\ ~IsNew /\ ~force
  /\ queuedForce' = FALSE
  /\ UNCHANGED <<queuedData, inFlight, ask, lastKey, groups>>

Nested ==
  IF IsNew THEN lastKey' = paths /\ groups' = Local(paths)
  ELSE UNCHANGED <<lastKey, groups>>

(* The login page and a hidden page ask nothing *)
Hidden(force) ==
  /\ paths # {} /\ (IsNew \/ force) /\ ~visible
  /\ Nested /\ queuedForce' = FALSE
  /\ UNCHANGED <<queuedData, inFlight, ask>>

Queued(force) ==
  /\ paths # {} /\ (IsNew \/ force) /\ visible /\ inFlight
  /\ Nested /\ queuedData' = TRUE /\ queuedForce' = force
  /\ UNCHANGED <<inFlight, ask>>

Asks(force) ==
  /\ paths # {} /\ (IsNew \/ force) /\ visible /\ ~inFlight
  /\ Nested /\ inFlight' = TRUE /\ queuedForce' = FALSE
  /\ ask' = [of |-> paths, answer |-> NoAsk]
  /\ UNCHANGED queuedData

(* dataTimer *)
Fire ==
  /\ timer /\ ~disposed /\ timer' = FALSE
  /\ \/ Cleared \/ Unchanged(queuedForce) \/ Hidden(queuedForce)
     \/ Queued(queuedForce) \/ Asks(queuedForce)
  /\ UNCHANGED <<worldVars, visible, disposed, misses, hides>>

----------------------------------------------------------------------------
(* The answer *)

Serve ==
  /\ ask # NoAsk /\ ask.answer = NoAsk
  /\ ask' = [ask EXCEPT !.answer = Classified(ask.of)]
  /\ UNCHANGED <<worldVars, queueVars, lastKey, groups, visible, disposed, misses, hides>>

(* Mutant: what was queued is left to the next poll.                       *)
OverForgets ==
  /\ ask' = NoAsk /\ inFlight' = FALSE
  /\ UNCHANGED <<queuedData, timer, queuedForce>>

(* finally: what was queued is scheduled *)
Over ==
  /\ ask' = NoAsk /\ inFlight' = FALSE
  /\ IF queuedData /\ ~disposed
     THEN queuedData' = FALSE /\ ScheduleData(queuedForce, queuedForce)
     ELSE UNCHANGED <<queuedData, timer, queuedForce>>

Receive ==
  /\ ask # NoAsk /\ ask.answer # NoAsk
  /\ groups' = IF disposed THEN groups ELSE Merged(Local(ask.of), ask.answer)
  /\ Over
  /\ UNCHANGED <<worldVars, lastKey, visible, disposed, misses, hides>>

(* An error, or no answer for four seconds *)
Fail ==
  /\ ask # NoAsk /\ misses < MaxFailures /\ misses' = misses + 1
  /\ Over
  /\ UNCHANGED <<worldVars, lastKey, groups, visible, disposed, hides>>

Hide ==
  /\ hides < MaxHides /\ visible /\ visible' = FALSE /\ hides' = hides + 1
  /\ UNCHANGED <<worldVars, queueVars, ask, lastKey, groups, disposed, misses>>

Show ==
  /\ ~visible /\ visible' = TRUE
  /\ UNCHANGED <<worldVars, queueVars, ask, lastKey, groups, disposed, misses, hides>>

(* The plugin is taken down: the request is aborted, the timers cleared    *)
Dispose ==
  /\ ~disposed /\ disposed' = TRUE
  /\ timer' = FALSE
  /\ UNCHANGED <<worldVars, queuedForce, queuedData, inFlight, ask, lastKey, groups, visible, misses, hides>>

SidebarNext ==
  \/ \E p \in Paths : PathsChange(p) \/ WorktreeChanges(p)
  \/ Poll \/ Fire \/ Serve \/ Receive \/ Fail \/ Hide \/ Show \/ Dispose

(* setInterval, setTimeout and a server that answers. A page that is       *)
(* hidden need not come back.                                              *)
SidebarFairness ==
  /\ WF_sidebarVars(Poll) /\ WF_sidebarVars(Fire)
  /\ WF_sidebarVars(Serve) /\ WF_sidebarVars(Receive)

SidebarSpec == SidebarInit /\ [][SidebarNext]_sidebarVars
SidebarFairSpec == SidebarSpec /\ SidebarFairness

----------------------------------------------------------------------------
(* Nobody's request to look again is lost between the timer, the request   *)
(* under way and the queue: it is on the timer or waits for the answer.    *)
(* Once taken down, the grouper schedules nothing.                         *)
QueueSound ==
  IF disposed THEN ~timer
  ELSE /\ queuedData => inFlight
       /\ queuedForce => timer \/ (inFlight /\ queuedData)
       /\ inFlight <=> ask # NoAsk

(* "the next poll retries enrichment": an answer for a list of workspaces  *)
(* that is no longer the present one replaces the rows of the present one, *)
(* a failed request leaves rows without their marks. In the end the rows   *)
(* are the present list, and the sessions of what is gone are read-only.   *)
GroupsSettle ==
  <>[](disposed \/ ~visible \/ (DOMAIN groups = paths /\ ReadOnly = paths \intersect gone))

==============================================================================
