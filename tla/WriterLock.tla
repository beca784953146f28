----------------------------- MODULE WriterLock -----------------------------
(***************************************************************************)
(* What packages/world-line promises of a writer lock: at most one owner,  *)
(* an owner that is alive is displaced by nobody, an owner that died can   *)
(* be displaced, and a lock that is not owned can be taken.  FileLock is   *)
(* shown to implement it; the modules that use locks rely on nothing else. *)
(***************************************************************************)
CONSTANTS
  Proc,    (* the processes that use the lock *)
  NoProc   (* no process                      *)

VARIABLES
  owner,   (* who owns the lock, or NoProc *)
  up       (* the processes that still run *)

vars == <<owner, up>>

TypeOK == owner \in Proc \cup {NoProc} /\ up \subseteq Proc

Init == owner = NoProc /\ up = Proc

Acquire(p) ==
  /\ p \in up
  /\ owner = NoProc
  /\ owner' = p
  /\ UNCHANGED up

Release(p) ==
  /\ p \in up
  /\ owner = p
  /\ owner' = NoProc
  /\ UNCHANGED up

(* Somebody clears the lock of a dead owner. *)
Break ==
  /\ owner \in Proc \ up
  /\ owner' = NoProc
  /\ UNCHANGED up

Die(p) ==
  /\ p \in up
  /\ up' = up \ {p}
  /\ UNCHANGED owner

Next == Break \/ \E p \in Proc : Acquire(p) \/ Release(p) \/ Die(p)

Spec == Init /\ [][Next]_vars

=============================================================================
