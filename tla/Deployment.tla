----------------------------- MODULE Deployment ------------------------------
(***************************************************************************)
(* A/B deployments of a profile and the external watchdog:                 *)
(* packages/world-line/src/workflows/deployment.ts.                        *)
(*                                                                         *)
(* People activate, roll back and configure deployments through the CLI    *)
(* or the Web, every call in a process or request of its own; one watchdog *)
(* (watchdog.lock) boots the deployment `current` points at and records    *)
(* what became of it.  All of them read and write state.json and move the  *)
(* pointer under the operation lock deployment:<profile>; what             *)
(* rollbackDeployment reads before it is not protected.  The lock is the   *)
(* one of FileLock with recoverDeadLocal: a dead owner does not keep it.   *)
(***************************************************************************)
EXTENDS Naturals, FiniteSets

CONSTANTS
  Slot,        (* the deployments                                          *)
  User,        (* calls by people that are in progress at the same time    *)
  Dog,         (* the watchdog                                             *)
  Thresholds,  (* the failure thresholds people configure                  *)
  Default,     (* the threshold until somebody configures one              *)
  Broken,      (* deployments that never become healthy                    *)
  Cap,         (* failures are counted up to Cap, above every threshold    *)
  Nil          (* null; and nobody holds the lock                          *)

(* What the constants are: assumed by the modules that instantiate this.   *)
SlotAssumption == Nil \notin Slot /\ Broken \subseteq Slot

ProcAssumption == Dog \notin User /\ Nil \notin User \cup {Dog}

ThresholdAssumption ==
  Cap \in Nat /\ Thresholds \subseteq 1..Cap /\ Default \in Thresholds

Assumptions == SlotAssumption /\ ProcAssumption /\ ThresholdAssumption

Proc == User \cup {Dog}
Maybe == Slot \cup {Nil}

(* state.json.  lastRollback only documents what happened.                 *)
State == [stable : Maybe, previous : Maybe, failures : 0..Cap,
          threshold : Thresholds, enabled : BOOLEAN]

Labels == {"idle", "target", "lock", "activate", "save", "point", "configure",
           "loop", "boot", "monitor", "stopped", "record", "recorded"}

(* The call in progress: what it does, for which slot, with what result,   *)
(* and its copy of the state.                                              *)
DeployCall ==
  [does : {"none", "activate", "configure", "record"}, slot : Maybe, healthy : BOOLEAN,
   st : State, rollback : BOOLEAN]

VARIABLES
  ready,      (* slots with a slot.json, that is verified ones             *)
  current,    (* the symbolic link, Nil before the first activation        *)
  st,         (* state.json                                                *)
  deployLock, (* the operation lock's owner                                *)
  pc,
  call,       (* per process: its call in progress                         *)
  streak,     (* history: failures recorded in a row since `current` moved *)
  healthy,    (* history: the slot last recorded healthy                   *)
  rolled,     (* history: an automatic rollback since the last activation  *)
  moves       (* history: automatic rollbacks since somebody enabled them  *)

disk == <<ready, current, st>>
hist == <<streak, healthy, rolled, moves>>
deployVars == <<disk, deployLock, pc, call, hist>>

Initial == [stable |-> Nil, previous |-> Nil, failures |-> 0,
            threshold |-> Default, enabled |-> FALSE]

NoCall == [does |-> "none", slot |-> Nil, healthy |-> FALSE, st |-> Initial, rollback |-> FALSE]

OneMore(n) == IF n < Cap THEN n + 1 ELSE Cap

DeployTypeOK ==
  /\ ready \subseteq Slot
  /\ current \in Maybe
  /\ st \in State
  /\ deployLock \in Proc \cup {Nil}
  /\ pc \in [Proc -> Labels]
  /\ call \in [Proc -> DeployCall]
  /\ streak \in 0..Cap /\ healthy \in Maybe /\ rolled \in BOOLEAN /\ moves \in 0..2

DeployInit ==
  /\ ready = {}
  /\ current = Nil
  /\ st = Initial
  /\ deployLock = Nil
  /\ pc = [p \in Proc |-> "idle"]
  /\ call = [p \in Proc |-> NoCall]
  /\ streak = 0 /\ healthy = Nil /\ rolled = FALSE /\ moves = 0

GoOn(p, label) == pc' = [pc EXCEPT ![p] = label]

(* Where a call returns to, and where an exception leaves its process: the *)
(* watchdog ends with it.                                                  *)
Done(p, label) ==
  /\ GoOn(p, label)
  /\ call' = [call EXCEPT ![p] = NoCall]
  /\ deployLock' = IF deployLock = p THEN Nil ELSE deployLock

Throw(p) == Done(p, "idle")

-----------------------------------------------------------------------------
(* stageDeployment writes slot.json last, after it booted the slot: until  *)
(* then the directory is no slot.                                          *)
Stage(s) ==
  /\ s \notin ready
  /\ ready' = ready \cup {s}
  /\ UNCHANGED <<current, st, deployLock, pc, call, hist>>

-----------------------------------------------------------------------------
(* People's calls *)

CallActivate(u, s) ==
  /\ pc[u] = "idle"
  /\ GoOn(u, "lock")
  /\ call' = [call EXCEPT ![u] = [NoCall EXCEPT !.does = "activate", !.slot = s]]
  /\ UNCHANGED <<disk, deployLock, hist>>

CallConfigure(u, enabled, threshold) ==
  /\ pc[u] = "idle"
  /\ GoOn(u, "lock")
  /\ call' = [call EXCEPT ![u] = [NoCall EXCEPT !.does = "configure",
                !.st.enabled = enabled, !.st.threshold = threshold]]
  /\ UNCHANGED <<disk, deployLock, hist>>

(* rollbackDeployment reads the state, then the pointer, outside the lock. *)
CallRollback(u) ==
  /\ pc[u] = "idle"
  /\ GoOn(u, "target")
  /\ call' = [call EXCEPT ![u] = [NoCall EXCEPT !.does = "activate", !.st = st]]
  /\ UNCHANGED <<disk, deployLock, hist>>

(* The stable slot unless it is the one to leave, else the previous one.   *)
OtherThan(s, id) == IF s.stable # id THEN s.stable ELSE s.previous

RollbackTarget(u) ==
  /\ pc[u] = "target"
  /\ LET target == OtherThan(call[u].st, current)
     IN IF target = Nil
        THEN Throw(u)
        ELSE /\ GoOn(u, "lock")
             /\ call' = [call EXCEPT ![u] = [NoCall EXCEPT !.does = "activate", !.slot = target]]
             /\ UNCHANGED deployLock
  /\ UNCHANGED <<disk, hist>>

(* Mutant: the lock is not waited for. *)
DeploymentLockNever(p) ==
  /\ pc[p] = "lock"
  /\ deployLock' = p
  /\ GoOn(p, call[p].does)
  /\ UNCHANGED <<disk, call, hist>>

(* deploymentLock: whoever finds it held refuses.  A dead owner's lock has *)
(* been freed by Stop.                                                     *)
DeploymentLock(p) ==
  /\ pc[p] = "lock"
  /\ IF deployLock = Nil
     THEN deployLock' = p /\ GoOn(p, call[p].does) /\ UNCHANGED call
     ELSE Throw(p)
  /\ UNCHANGED <<disk, hist>>

(* Mutant: the failures of the slot before go on counting. *)
ActivateCounting(u) ==
  /\ pc[u] = "activate"
  /\ IF call[u].slot \notin ready \/ current = call[u].slot
     THEN Throw(u)
     ELSE /\ GoOn(u, "save")
          /\ call' = [call EXCEPT ![u].st =
               [st EXCEPT !.previous = current, !.enabled = TRUE,
                          !.stable = IF @ = Nil THEN call[u].slot ELSE @]]
          /\ UNCHANGED deployLock
  /\ UNCHANGED <<disk, hist>>

(* activateDeployment, up to the state it is going to save. *)
Activate(u) ==
  /\ pc[u] = "activate"
  /\ IF call[u].slot \notin ready \/ current = call[u].slot
     THEN Throw(u)
     ELSE /\ GoOn(u, "save")
          /\ call' = [call EXCEPT ![u].st =
               [st EXCEPT !.previous = current, !.failures = 0, !.enabled = TRUE,
                          !.stable = IF @ = Nil THEN call[u].slot ELSE @]]
          /\ UNCHANGED deployLock
  /\ UNCHANGED <<disk, hist>>

Configure(u) ==
  /\ pc[u] = "configure"
  /\ GoOn(u, "save")
  /\ call' = [call EXCEPT ![u].st =
       [st EXCEPT !.enabled = call[u].st.enabled, !.threshold = call[u].st.threshold]]
  /\ UNCHANGED <<disk, deployLock, hist>>

-----------------------------------------------------------------------------
(* recordBootResult by the watchdog *)

(* Mutant: a rollback leaves the guard on. *)
AfterFailureEnabled(s, id) ==
  LET n == OneMore(s.failures)
  IN IF s.enabled /\ n >= s.threshold /\ OtherThan(s, id) # Nil
     THEN [s EXCEPT !.failures = n]
     ELSE [s EXCEPT !.failures = n, !.enabled = @ /\ n < s.threshold]

(* At the threshold the guard is switched off, whether there is a slot to  *)
(* fall back to or not.                                                    *)
AfterFailure(s, id) ==
  LET n == OneMore(s.failures)
  IN [s EXCEPT !.failures = n, !.enabled = @ /\ n < s.threshold]

AfterHealthy(s, id) == [s EXCEPT !.failures = 0, !.stable = id]

(* A fallback is taken when the guard was on and the threshold is reached. *)
FallsBack(s, id) ==
  /\ s.enabled
  /\ OneMore(s.failures) >= s.threshold
  /\ OtherThan(s, id) # Nil

(* Mutant: the result counts for whatever is active by now. *)
RecordBlindly(p) ==
  /\ pc[p] = "record"
  /\ GoOn(p, "save")
  /\ call' = [call EXCEPT ![p].st = IF call[p].healthy THEN AfterHealthy(st, call[p].slot)
                                     ELSE AfterFailure(st, call[p].slot),
                          ![p].rollback = ~call[p].healthy /\ FallsBack(st, call[p].slot)]
  /\ UNCHANGED <<disk, deployLock, hist>>

(* The result of a slot that is not active any more changes nothing. *)
RecordBoot(p) ==
  /\ pc[p] = "record"
  /\ LET id == call[p].slot IN
     IF current # id
     THEN /\ GoOn(p, IF call[p].healthy THEN "monitor" ELSE "recorded")
          /\ deployLock' = Nil
          /\ UNCHANGED call
     ELSE /\ GoOn(p, "save")
          /\ call' = [call EXCEPT
               ![p].st = IF call[p].healthy THEN AfterHealthy(st, id) ELSE AfterFailure(st, id),
               ![p].rollback = ~call[p].healthy /\ FallsBack(st, id)]
          /\ UNCHANGED deployLock
  /\ UNCHANGED <<disk, hist>>

-----------------------------------------------------------------------------
(* What all of them end with: state.json, then the pointer *)

(* The state is on disk before the pointer moves. *)
Save(p) ==
  /\ pc[p] = "save"
  /\ st' = call[p].st
  /\ \/ /\ call[p].does = "activate"
        /\ GoOn(p, "point")
        /\ rolled' = FALSE /\ moves' = 0
        /\ UNCHANGED <<deployLock, call, streak, healthy>>
     \/ /\ call[p].does = "configure"
        /\ Done(p, "idle")
        /\ moves' = IF call[p].st.enabled THEN 0 ELSE moves
        /\ UNCHANGED <<streak, healthy, rolled>>
     \/ /\ call[p].does = "record"
        /\ streak' = IF call[p].healthy THEN 0 ELSE OneMore(streak)
        /\ healthy' = IF call[p].healthy THEN call[p].slot ELSE healthy
        /\ IF call[p].rollback
           THEN GoOn(p, "point") /\ UNCHANGED deployLock
           ELSE GoOn(p, IF call[p].healthy THEN "monitor" ELSE "recorded") /\ deployLock' = Nil
        /\ UNCHANGED <<call, rolled, moves>>
  /\ UNCHANGED <<ready, current>>

(* rename of the new link over `current`. *)
Point(p) ==
  /\ pc[p] = "point"
  /\ streak' = 0
  /\ IF call[p].does = "activate"
     THEN current' = call[p].slot /\ Done(p, "idle") /\ UNCHANGED <<rolled, moves>>
     ELSE /\ current' = OtherThan(call[p].st, call[p].slot)
          /\ Done(p, "loop")
          /\ rolled' = TRUE /\ moves' = IF moves < 2 THEN moves + 1 ELSE 2
  /\ UNCHANGED <<ready, st, healthy>>

-----------------------------------------------------------------------------
(* runDeploymentWatchdog *)

Start ==
  /\ pc[Dog] = "idle"
  /\ GoOn(Dog, "loop")
  /\ UNCHANGED <<disk, deployLock, call, hist>>

(* The pointer is read once; the slot it names is booted. *)
Loop ==
  /\ pc[Dog] = "loop"
  /\ IF current = Nil
     THEN Throw(Dog)
     ELSE /\ GoOn(Dog, "boot")
          /\ call' = [call EXCEPT ![Dog] = [NoCall EXCEPT !.does = "record", !.slot = current]]
          /\ UNCHANGED deployLock
  /\ UNCHANGED <<disk, hist>>

(* launchDsh and runClientProbe. *)
Boot(ok) ==
  /\ pc[Dog] = "boot"
  /\ ok => call[Dog].slot \notin Broken
  /\ GoOn(Dog, IF ok THEN "lock" ELSE "stopped")
  /\ call' = [call EXCEPT ![Dog].healthy = ok]
  /\ UNCHANGED <<disk, deployLock, hist>>

(* Until the pointer moves or the host stops answering. *)
Monitor(ok) ==
  /\ pc[Dog] = "monitor"
  /\ ok => current # call[Dog].slot
  /\ GoOn(Dog, "stopped")
  /\ call' = [call EXCEPT ![Dog].healthy = ok]
  /\ UNCHANGED <<disk, deployLock, hist>>

(* Mutant: the watchdog tries again without recording the failure. *)
StoppedForgets ==
  /\ pc[Dog] = "stopped"
  /\ GoOn(Dog, "loop")
  /\ call' = [call EXCEPT ![Dog] = NoCall]
  /\ UNCHANGED <<disk, deployLock, hist>>

(* The host has been stopped; a failure of the active slot is recorded.    *)
Stopped ==
  /\ pc[Dog] = "stopped"
  /\ IF current # call[Dog].slot \/ call[Dog].healthy
     THEN GoOn(Dog, "loop") /\ call' = [call EXCEPT ![Dog] = NoCall]
     ELSE GoOn(Dog, "lock") /\ UNCHANGED call
  /\ UNCHANGED <<disk, deployLock, hist>>

(* Without a rollback it goes on only while the guard is on. *)
Recorded ==
  /\ pc[Dog] = "recorded"
  /\ Done(Dog, IF st.enabled THEN "loop" ELSE "idle")
  /\ UNCHANGED <<disk, hist>>

(* SIGTERM or /stop: seen wherever the loop looks at the signal. *)
Abort ==
  /\ pc[Dog] \in {"loop", "boot", "monitor", "stopped"}
  /\ Throw(Dog)
  /\ UNCHANGED <<disk, hist>>

-----------------------------------------------------------------------------
(* A process is killed, or a file operation throws: the call ends here.    *)
Stop(p) ==
  /\ pc[p] # "idle"
  /\ Throw(p)
  /\ UNCHANGED <<disk, hist>>

UserStep(u) ==
  \/ RollbackTarget(u) \/ DeploymentLock(u) \/ Activate(u) \/ Configure(u)
  \/ Save(u) \/ Point(u)

DogStep ==
  \/ Loop \/ Boot(TRUE) \/ Boot(FALSE) \/ Monitor(TRUE) \/ Monitor(FALSE)
  \/ Stopped \/ Recorded
  \/ DeploymentLock(Dog) \/ RecordBoot(Dog) \/ Save(Dog) \/ Point(Dog)

DeployNext ==
  \/ \E s \in Slot : Stage(s)
  \/ \E u \in User :
       \/ \E s \in Slot : CallActivate(u, s)
       \/ \E enabled \in BOOLEAN, n \in Thresholds : CallConfigure(u, enabled, n)
       \/ CallRollback(u)
       \/ UserStep(u)
  \/ Start \/ DogStep \/ Abort
  \/ \E p \in Proc : Stop(p)

DeploySpec == DeployInit /\ [][DeployNext]_deployVars

(* Node keeps running what has been called, and the watchdog's awaits end: *)
(* a launch and a probe have time limits.  Nobody has to call anything.    *)
DeployFairSpec ==
  /\ DeploySpec
  /\ \A u \in User : WF_deployVars(UserStep(u))
  /\ WF_deployVars(DogStep)

-----------------------------------------------------------------------------
(* Properties *)

(* Only slots that were verified are pointed at or kept to fall back to,   *)
(* and what a call read under the lock is still so when it saves and when  *)
(* it moves the pointer.                                                   *)
UnderLock == {"activate", "configure", "record", "save", "point"}

ReadIsCurrent(p) ==
  /\ pc[p] = "save" /\ call[p].does = "activate" => call[p].st.previous = current
  /\ pc[p] = "save" /\ call[p].does = "record" => call[p].slot = current
  /\ pc[p] = "point" => st = call[p].st

DeployInv ==
  /\ DeployTypeOK
  /\ {current, st.stable, st.previous} \subseteq ready \cup {Nil}
  /\ \A p \in Proc : (pc[p] \in UnderLock <=> deployLock = p) /\ ReadIsCurrent(p)

(* README:418 "a healthy start confirms the stable point again": no        *)
(* activation or configuration that read an older state undoes it.         *)
StableIsLastHealthy == healthy # Nil => st.stable = healthy

(* README:418: a rollback switches the guard off, so that deployments do   *)
(* not flap: nobody enabled it in between, so there was one at most.       *)
NoFlapping == moves <= 1

(* deployment.ts:122: when the pointer moves to an activated deployment,   *)
(* the one it leaves is on disk as what to fall back to.                   *)
PersonMoves == \E u \in User : pc[u] = "point" /\ pc'[u] # "point"

FallbackIsKept == current' # current /\ PersonMoves => st.previous = current

(* The three together: what state.json and the pointer say at every moment. *)
DeploymentsSound == DeployInv /\ StableIsLastHealthy /\ NoFlapping

(* README:418: after `threshold` failed starts in a row, back to another   *)
(* deployment.                                                             *)
DogMoves == pc[Dog] = "point" /\ pc'[Dog] # "point" /\ current' # current

RollbackAfterThreshold == [][DogMoves => streak >= st.threshold]_deployVars

(* What holds of it: unless it rolled back once since the last activation, *)
(* and the guard was switched on again since then.                         *)
RollsBackEarned == DogMoves => streak >= st.threshold \/ rolled

(* Both about every step: no move of the pointer without its record.       *)
MovesRecorded == [][FallbackIsKept /\ RollsBackEarned]_deployVars

(* README:418: while the watchdog runs with the guard on, a deployment     *)
(* that never starts is left, or the guard gives up; only an activation    *)
(* starts the count again.                                                 *)
Activating == \E u \in User : call[u].does = "activate"

FailingIsLeft ==
  \A b \in Broken :
     (current = b /\ st.enabled /\ pc[Dog] # "idle")
       ~> (current # b \/ ~st.enabled \/ pc[Dog] = "idle" \/ Activating)

=============================================================================
