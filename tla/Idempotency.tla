---------------------------- MODULE Idempotency ------------------------------
(***************************************************************************)
(* idempotent() of packages/world-line/src/web/idempotency.ts: operate()   *)
(* runs a write operation at most once per requestId, whatever server the  *)
(* client asks and however often it asks again.  Servers die between any   *)
(* two awaits, and writes of the record fail.                              *)
(*                                                                         *)
(* A call for a request that is active in the same server joins its        *)
(* promise, or is refused when the bodies differ, and changes nothing: it  *)
(* is a stuttering step.  What the operation does is a parameter of        *)
(* idempotent(): it is counted, and it returns or throws.                  *)
(***************************************************************************)
EXTENDS Naturals

CONSTANTS
  Server,        (* web server processes; a dead one stays dead             *)
  Request,       (* requestId values                                        *)
  Body,          (* what a request asks for: the digest tells them apart    *)
  BreakStale,    (* values of ctx.breakStaleLock                            *)
  MaxFaults,     (* failing writes of a record (bound)                      *)
  None

Record == [state : {"pending", "done", "error"}, body : Body]
CallSteps == {"lock", "read", "run", "saveDone", "saveError", "result", "refused"}
Call == [at : CallSteps, body : Body]

ASSUME IdempotencyAssumption ==
  /\ BreakStale \subseteq BOOLEAN
  /\ MaxFaults \in Nat
  /\ None \notin Server \cup Record \cup Call

VARIABLES
  up,        (* the servers that are alive                                  *)
  record,    (* requests/<key>.json, else None                              *)
  lock,      (* holder of <key>.json.lock, else None                        *)
  active,    (* each server's entry of `active` and where it stands         *)
  ran,       (* how often a request's operation was run (history)           *)
  faults     (* record writes that failed so far                            *)

vars == <<up, record, lock, active, ran, faults>>

TypeOK ==
  /\ up \in SUBSET Server
  /\ record \in [Request -> Record \cup {None}]
  /\ lock \in [Request -> Server \cup {None}]
  /\ active \in [Server -> [Request -> Call \cup {None}]]
  /\ ran \in [Request -> Nat]
  /\ faults \in 0 .. MaxFaults

Init ==
  /\ up = Server
  /\ record = [r \in Request |-> None]
  /\ lock = [r \in Request |-> None]
  /\ active = [s \in Server |-> [r \in Request |-> None]]
  /\ ran = [r \in Request |-> 0]
  /\ faults = 0

-----------------------------------------------------------------------------
(* Helpers *)

At(s, r, label) == s \in up /\ active[s][r] # None /\ active[s][r].at = label

Goto(s, r, label) ==
  active' = [active EXCEPT ![s][r] = [at |-> label, body |-> active[s][r].body]]

(* writeFileAtomic: the whole record is replaced, or nothing is.           *)
Write(s, r, state) ==
  /\ record' = [record EXCEPT ![r] = [state |-> state, body |-> active[s][r].body]]
  /\ UNCHANGED faults
WriteFails == faults < MaxFaults /\ faults' = faults + 1 /\ UNCHANGED record

(* Mutant: nobody's lock is in the way.                                    *)
TakeableAlways(r, breakStale) == TRUE

(* acquireLock without recoverDeadLocal: also a dead holder's lock stays,  *)
(* unless breaking it was asked for.                                       *)
Takeable(r, breakStale) == lock[r] = None \/ (lock[r] \notin up /\ breakStale)

(* Mutant: a request that is still pending is taken for a new one.         *)
UnseenPending(r) == record[r] \notin [state : {"done", "error"}, body : Body]

Unseen(r) == record[r] = None

(* Mutant: any finished request answers.                                   *)
AnswersAny(s, r) == record[r].state = "done"

Answers(s, r) == record[r].state = "done" /\ record[r].body = active[s][r].body

-----------------------------------------------------------------------------
(* idempotent() *)

Submit(s, r, b) ==
  /\ s \in up
  /\ active[s][r] = None
  /\ active' = [active EXCEPT ![s][r] = [at |-> "lock", body |-> b]]
  /\ UNCHANGED <<up, record, lock, ran, faults>>

(* A refused lock ends the call; nothing was acquired.                     *)
TakeLock(s, r, breakStale) ==
  /\ At(s, r, "lock")
  /\ IF Takeable(r, breakStale)
     THEN lock' = [lock EXCEPT ![r] = s] /\ Goto(s, r, "read")
     ELSE active' = [active EXCEPT ![s][r] = None] /\ UNCHANGED lock
  /\ UNCHANGED <<up, record, ran, faults>>

(* No record: the request is noted before anything runs.                   *)
Note(s, r) ==
  /\ At(s, r, "read")
  /\ Unseen(r)
  /\ \/ Write(s, r, "pending") /\ Goto(s, r, "run")
     \/ WriteFails /\ Goto(s, r, "refused")
  /\ UNCHANGED <<up, lock, ran>>

(* A record: a recorded result is the answer when the body is the same;    *)
(* another body, a recorded error and a pending request are refused.       *)
Replay(s, r) ==
  /\ At(s, r, "read")
  /\ ~Unseen(r)
  /\ Goto(s, r, IF Answers(s, r) THEN "result" ELSE "refused")
  /\ UNCHANGED <<up, record, lock, ran, faults>>

Run(s, r) ==
  /\ At(s, r, "run")
  /\ ran' = [ran EXCEPT ![r] = @ + 1]
  /\ \/ Goto(s, r, "saveDone")
     \/ Goto(s, r, "saveError")
  /\ UNCHANGED <<up, record, lock, faults>>

(* When the result cannot be written, the catch block records that error,  *)
(* although the operation ran.                                             *)
SaveDone(s, r) ==
  /\ At(s, r, "saveDone")
  /\ \/ Write(s, r, "done") /\ Goto(s, r, "result")
     \/ WriteFails /\ Goto(s, r, "saveError")
  /\ UNCHANGED <<up, lock, ran>>

(* When the error cannot be written either, the record stays pending.      *)
SaveError(s, r) ==
  /\ At(s, r, "saveError")
  /\ Write(s, r, "error") \/ WriteFails
  /\ Goto(s, r, "refused")
  /\ UNCHANGED <<up, lock, ran>>

(* lock.release() removes the caller's own lock only; `active.delete`.     *)
End(s, r) ==
  /\ At(s, r, "result") \/ At(s, r, "refused")
  /\ lock' = [lock EXCEPT ![r] = IF @ = s THEN None ELSE @]
  /\ active' = [active EXCEPT ![s][r] = None]
  /\ UNCHANGED <<up, record, ran, faults>>

(* A server dies with its calls; its locks stay.  One survives (bound).    *)
Crash(s) ==
  /\ s \in up /\ up # {s}
  /\ up' = up \ {s}
  /\ active' = [active EXCEPT ![s] = [r \in Request |-> None]]
  /\ UNCHANGED <<record, lock, ran, faults>>

-----------------------------------------------------------------------------
Next ==
  \E s \in Server :
    \/ Crash(s)
    \/ \E r \in Request :
         \/ \E b \in Body : Submit(s, r, b)
         \/ \E breakStale \in BreakStale : TakeLock(s, r, breakStale)
         \/ Note(s, r) \/ Replay(s, r) \/ Run(s, r)
         \/ SaveDone(s, r) \/ SaveError(s, r) \/ End(s, r)

Spec == Init /\ [][Next]_vars

-----------------------------------------------------------------------------
(* Properties *)

(* A live server's call is past acquireLock.                               *)
Locked(s, r) == active[s][r] # None /\ active[s][r].at # "lock"

(* It has noted its request and not yet recorded an outcome.               *)
Working(s, r) == At(s, r, "run") \/ At(s, r, "saveDone") \/ At(s, r, "saveError")

(* The calls past acquireLock are those that hold the request's lock, and  *)
(* the operation runs under a pending record of the same body.             *)
RequestInv ==
  /\ TypeOK
  /\ \A s \in up, r \in Request :
       /\ lock[r] = s <=> Locked(s, r)
       /\ Working(s, r) =>
            record[r] = [state |-> "pending", body |-> active[s][r].body]

(* A requestId runs its operation at most once, across servers, deaths at  *)
(* any await, broken locks and lost writes of its record.                  *)
RanOnce == \A r \in Request : ran[r] <= 1

(* A repeated request reuses the result: who is answered with one asked    *)
(* with the recorded body, after exactly one run of the operation.         *)
ResultIsReused ==
  \A s \in up, r \in Request :
    At(s, r, "result") =>
      /\ record[r] = [state |-> "done", body |-> active[s][r].body]
      /\ ran[r] = 1

(* A final record is never replaced, nor a pending one that a dead server  *)
(* or two failing writes left behind: nothing replays it.                  *)
LeftoverKept ==
  \A r \in Request :
    /\ record[r] # None
    /\ record[r].state # "pending" \/ \A s \in up : ~Working(s, r)
    => record'[r] = record[r]

LeftoverIsFinal == [][LeftoverKept]_vars

=============================================================================
