----------------------------- MODULE AtomicFiles -----------------------------
(***************************************************************************)
(* What packages/world-line promises of a managed-file swap when nobody    *)
(* edits the files behind its back: the set changes from the old contents  *)
(* to the requested ones in one step, or it does not change.  FileSwap is  *)
(* shown to implement it.                                                  *)
(***************************************************************************)
CONSTANTS
  File,     (* names of managed files                  *)
  Content,  (* what a file may hold, absence included  *)
  NoGoal    (* no swap is in doubt                     *)

VARIABLES
  content,  (* the contents every reader may rely on   *)
  goal      (* the requested contents, while in doubt  *)

vars == <<content, goal>>

Init == content \in [File -> Content] /\ goal = NoGoal

Request(target) ==
  /\ goal = NoGoal
  /\ goal' = target
  /\ UNCHANGED content

Commit ==
  /\ goal # NoGoal
  /\ content' = goal
  /\ goal' = NoGoal

GiveUp ==
  /\ goal # NoGoal
  /\ goal' = NoGoal
  /\ UNCHANGED content

Next == Commit \/ GiveUp \/ \E target \in [File -> Content] : Request(target)

Spec == Init /\ [][Next]_vars

=============================================================================
