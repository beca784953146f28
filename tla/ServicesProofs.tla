---------------------------- MODULE ServicesProofs ----------------------------
(***************************************************************************)
(* Proofs about what the server and the watchdog keep: the requests that   *)
(* run once (Idempotency), the slots that are deployed (Deployment) and    *)
(* the jobs of the board (Jobs).                                           *)
(***************************************************************************)
EXTENDS Idempotency, Deployment, Jobs, FiniteSetTheorems,
        WellFoundedInduction, TLAPS

----------------------------------------------------------------------------
(***************************************************************************)
(* Proofs about Idempotency: for every set of servers, requests and bodies *)
(* and every number of failing writes, a request runs its operation at     *)
(* most once and its recorded outcome is the one every repetition gets.    *)
(***************************************************************************)

(* What the record of a request and the calls at work on it say about how  *)
(* often its operation was run.  RanOnce and ResultIsReused alone are not  *)
(* inductive: only the calls' own positions tell a run that is still to    *)
(* come from one whose outcome is being recorded.                          *)
RunsCounted(r) ==
  /\ ran[r] <= 1
  /\ record[r] = None => ran[r] = 0
  /\ record[r] # None /\ record[r].state = "done" => ran[r] = 1
  /\ \A s \in up :
       /\ At(s, r, "run") => ran[r] = 0
       /\ At(s, r, "saveDone") => ran[r] = 1
       /\ At(s, r, "result") =>
            /\ record[r] = [state |-> "done", body |-> active[s][r].body]
            /\ ran[r] = 1

Separated(r) == \A s \in up : lock[r] = s <=> Locked(s, r)

Noted(r) ==
  \A s \in up :
    Working(s, r) => record[r] = [state |-> "pending", body |-> active[s][r].body]

RequestSound(r) == Separated(r) /\ Noted(r) /\ RunsCounted(r)

RequestIInv == TypeOK /\ \A r \in Request : RequestSound(r)

(* The initial state: nothing is recorded, locked, active or run.          *)
LEMMA InitRequestIInv == Init => RequestIInv
  BY IdempotencyAssumption
     DEF Init, RequestIInv, TypeOK, RequestSound, Separated, Noted, RunsCounted, At, Locked, Working

(* A call that moves on keeps its body, and the other calls stay where     *)
(* they are.                                                               *)
LEMMA CallMoves ==
  ASSUME TypeOK, NEW s \in Server, NEW r \in Request, NEW old, At(s, r, old),
         NEW label \in CallSteps, Goto(s, r, label)
  PROVE  /\ active' \in [Server -> [Request -> Call \cup {None}]]
         /\ active'[s][r] # None
         /\ active'[s][r].at = label
         /\ active'[s][r].body = active[s][r].body
         /\ \A t \in Server, q \in Request :
              t # s \/ q # r => active'[t][q] = active[t][q]
<1> DEFINE new == [at |-> label, body |-> active[s][r].body]
<1>1. active[s][r] \in Call
  BY DEF TypeOK, At
<1>2. new \in Call
  BY <1>1 DEF Call
<1>3. active' = [active EXCEPT ![s] = [active[s] EXCEPT ![r] = new]]
  BY DEF Goto, TypeOK
<1>4. new # None
  BY <1>2, IdempotencyAssumption
<1>5. new.at = label /\ new.body = active[s][r].body
  OBVIOUS
<1> HIDE DEF new
<1>6. active' \in [Server -> [Request -> Call \cup {None}]] /\ active'[s][r] = new
  BY <1>2, <1>3 DEF TypeOK
<1>7. \A t \in Server, q \in Request : t # s \/ q # r => active'[t][q] = active[t][q]
  BY <1>3 DEF TypeOK
<1> QED
  BY <1>4, <1>5, <1>6, <1>7

(* Every step keeps the types.                                             *)
LEMMA RequestTypeStep == TypeOK /\ [Next]_vars => TypeOK'
<1> SUFFICES ASSUME TypeOK, [Next]_vars PROVE TypeOK'
  OBVIOUS
<1> USE IdempotencyAssumption DEF TypeOK
<1>1. ASSUME NEW s \in Server, Crash(s) PROVE TypeOK'
  BY <1>1 DEF Crash
<1>2. ASSUME NEW s \in Server, NEW r \in Request, NEW b \in Body, Submit(s, r, b)
      PROVE TypeOK'
  BY <1>2 DEF Submit, Call, CallSteps
<1>3. ASSUME NEW s \in Server, NEW r \in Request, NEW k \in BreakStale, TakeLock(s, r, k)
      PROVE TypeOK'
  <2>1. CASE Takeable(r, k)
    BY <1>3, <2>1, CallMoves DEF TakeLock, CallSteps
  <2>2. CASE ~Takeable(r, k)
    BY <1>3, <2>2 DEF TakeLock
  <2> QED
    BY <2>1, <2>2
<1>4. ASSUME NEW s \in Server, NEW r \in Request, Note(s, r) PROVE TypeOK'
  <2>1. active' \in [Server -> [Request -> Call \cup {None}]]
    BY <1>4, CallMoves DEF Note, CallSteps
  <2>2. active[s][r].body \in Body
    BY <1>4 DEF Note, At, Call
  <2> QED
    BY <1>4, <2>1, <2>2 DEF Note, Write, WriteFails, Record
<1>5. ASSUME NEW s \in Server, NEW r \in Request, Replay(s, r) PROVE TypeOK'
  BY <1>5, CallMoves DEF Replay, CallSteps
<1>6. ASSUME NEW s \in Server, NEW r \in Request, Run(s, r) PROVE TypeOK'
  BY <1>6, CallMoves DEF Run, CallSteps
<1>7. ASSUME NEW s \in Server, NEW r \in Request, SaveDone(s, r) PROVE TypeOK'
  <2>1. active' \in [Server -> [Request -> Call \cup {None}]]
    BY <1>7, CallMoves DEF SaveDone, CallSteps
  <2>2. active[s][r].body \in Body
    BY <1>7 DEF SaveDone, At, Call
  <2> QED
    BY <1>7, <2>1, <2>2 DEF SaveDone, Write, WriteFails, Record
<1>8. ASSUME NEW s \in Server, NEW r \in Request, SaveError(s, r) PROVE TypeOK'
  <2>1. active' \in [Server -> [Request -> Call \cup {None}]]
    BY <1>8, CallMoves DEF SaveError, CallSteps
  <2>2. active[s][r].body \in Body
    BY <1>8 DEF SaveError, At, Call
  <2> QED
    BY <1>8, <2>1, <2>2 DEF SaveError, Write, WriteFails, Record
<1>9. ASSUME NEW s \in Server, NEW r \in Request, End(s, r) PROVE TypeOK'
  BY <1>9 DEF End
<1>10. CASE UNCHANGED vars
  BY <1>10 DEF vars
<1> QED
  BY <1>1, <1>2, <1>3, <1>4, <1>5, <1>6, <1>7, <1>8, <1>9, <1>10 DEF Next

(* The calls of a live server that holds the lock are alone past it.       *)
LEMMA Alone ==
  ASSUME RequestIInv, NEW s \in up, NEW r \in Request, Locked(s, r)
  PROVE  \A t \in up : t # s => ~Locked(t, r)
  BY DEF RequestIInv, RequestSound, Separated

(* A request nothing touches stays sound.                                  *)
LEMMA Untouched ==
  ASSUME NEW r \in Request, RequestSound(r), up' \in SUBSET up,
         record'[r] = record[r], lock'[r] = lock[r], ran'[r] = ran[r],
         \A s \in up' : active'[s][r] = active[s][r]
  PROVE  RequestSound(r)'
  BY DEF RequestSound, Separated, Noted, RunsCounted, At, Locked, Working

(* When only call s of a request is past its lock, what has to be shown of *)
(* the request is what concerns s.                                         *)
LEMMA OnlyMover ==
  ASSUME NEW s \in up', NEW r \in Request,
         lock'[r] = s, Locked(s, r)', \A t \in up' : t # s => ~Locked(t, r)',
         ran'[r] <= 1, record'[r] = None => ran'[r] = 0,
         record'[r] # None /\ record'[r].state = "done" => ran'[r] = 1,
         Working(s, r)' =>
           record'[r] = [state |-> "pending", body |-> active'[s][r].body],
         At(s, r, "run")' => ran'[r] = 0,
         At(s, r, "saveDone")' => ran'[r] = 1,
         At(s, r, "result")' =>
           /\ record'[r] = [state |-> "done", body |-> active'[s][r].body]
           /\ ran'[r] = 1
  PROVE  RequestSound(r)'
<1>1. Separated(r)'
  BY DEF Separated
<1>2. \A t \in up' : t # s => ~(Working(t, r)' \/ At(t, r, "run")' \/ At(t, r, "saveDone")'
                                \/ At(t, r, "result")')
  BY DEF Working, At, Locked
<1>3. Noted(r)' /\ RunsCounted(r)'
  BY <1>2 DEF Noted, RunsCounted
<1> QED
  BY <1>1, <1>3 DEF RequestSound

(* Every step keeps the invariant.  A step of a call touches one request,  *)
(* and the lock tells the calls at work on that request from the others.   *)
LEMMA NextRequestIInv == RequestIInv /\ [Next]_vars => RequestIInv'
<1> SUFFICES ASSUME RequestIInv, [Next]_vars PROVE RequestIInv'
  OBVIOUS
<1>t. TypeOK /\ TypeOK'
  BY RequestTypeStep DEF RequestIInv
<1>s. \A r \in Request : RequestSound(r)
  BY DEF RequestIInv
<1> SUFFICES ASSUME NEW q \in Request PROVE RequestSound(q)'
  BY <1>t DEF RequestIInv
<1>1. ASSUME NEW s \in Server, Crash(s) PROVE RequestSound(q)'
  BY <1>1, <1>t, <1>s, Untouched DEF Crash, TypeOK
<1>2. ASSUME NEW s \in Server, NEW r \in Request, NEW b \in Body, Submit(s, r, b)
      PROVE RequestSound(q)'
  <2>1. CASE q # r
    BY <1>2, <1>t, <1>s, <2>1, Untouched DEF Submit, TypeOK
  <2>2. CASE q = r
    BY <1>2, <1>t, <1>s, <2>2
       DEF Submit, TypeOK, RequestSound, Separated, Noted, RunsCounted,
           At, Locked, Working
  <2> QED
    BY <2>1, <2>2
<1>3. ASSUME NEW s \in Server, NEW r \in Request, NEW k \in BreakStale, TakeLock(s, r, k)
      PROVE RequestSound(q)'
  <2>1. CASE q # r
    BY <1>3, <1>t, <1>s, <2>1, Untouched DEF TakeLock, Goto, TypeOK
  <2>2. CASE q = r /\ Takeable(r, k)
    <3>1. s \in up' /\ lock'[r] = s /\ active'[s][r] # None /\ active'[s][r].at = "read"
      BY <1>3, <1>t, <2>2, CallMoves DEF TakeLock, At, CallSteps, TypeOK
    <3>2. \A t \in up' : t # s => ~Locked(t, r)'
      <4>1. \A t \in up : ~Locked(t, r)
        BY <1>t, <1>s, <2>2, IdempotencyAssumption
           DEF Takeable, RequestSound, Separated, TypeOK
      <4>2. \A t \in up : t # s => active'[t][r] = active[t][r]
        BY <1>3, <1>t, <2>2, CallMoves DEF TakeLock, CallSteps, TypeOK
      <4> QED
        BY <1>3, <4>1, <4>2 DEF TakeLock, Locked
    <3>3. record' = record /\ ran' = ran /\ RunsCounted(r)
      BY <1>3, <1>s DEF TakeLock, RequestSound
    <3> QED
      BY <2>2, <3>1, <3>2, <3>3, OnlyMover DEF RunsCounted, Locked, Working, At
  <2>3. CASE q = r /\ ~Takeable(r, k)
    <3>1. /\ ~Locked(s, r) /\ active'[s][r] = None
          /\ \A t \in up : t # s => active'[t][r] = active[t][r]
      BY <1>3, <1>t, <2>3 DEF TakeLock, At, Locked, TypeOK
    <3>2. up' = up /\ lock' = lock /\ record' = record /\ ran' = ran /\ RequestSound(r)
      BY <1>3, <1>s, <2>3 DEF TakeLock
    <3> QED
      BY <2>3, <3>1, <3>2 DEF RequestSound, Separated, Noted, RunsCounted, At, Locked, Working
  <2> QED
    BY <2>1, <2>2, <2>3
<1>4. ASSUME NEW s \in Server, NEW r \in Request, Note(s, r) PROVE RequestSound(q)'
  <2>1. CASE q # r
    BY <1>4, <1>t, <1>s, <2>1, Untouched DEF Note, Goto, TypeOK, Write, WriteFails
  <2>2. CASE q = r
    <3>1. s \in up /\ Locked(s, r) /\ (\A t \in up : t # s => ~Locked(t, r))
      BY <1>4, Alone DEF Note, At, Locked
    <3>2. /\ active'[s][r] # None /\ active'[s][r].at \in {"run", "refused"}
          /\ active'[s][r].body = active[s][r].body
          /\ \A t \in up : t # s => active'[t][r] = active[t][r]
      BY <1>4, <1>t, CallMoves DEF Note, CallSteps, TypeOK
    <3>3. s \in up' /\ lock'[r] = s /\ Locked(s, r)'
          /\ (\A t \in up' : t # s => ~Locked(t, r)')
      BY <1>4, <1>s, <3>1, <3>2 DEF Note, Locked, RequestSound, Separated
    <3>4. Noted(r) /\ RunsCounted(r)
      BY <1>s DEF RequestSound
    <3> QED
      BY <1>4, <1>t, <2>2, <3>1, <3>2, <3>3, <3>4, OnlyMover, CallMoves, IdempotencyAssumption
         DEF Note, Write, WriteFails, Unseen, Record, CallSteps, TypeOK, Noted, RunsCounted, At, Working
  <2> QED
    BY <2>1, <2>2
<1>5. ASSUME NEW s \in Server, NEW r \in Request, Replay(s, r) PROVE RequestSound(q)'
  <2>1. CASE q # r
    BY <1>5, <1>t, <1>s, <2>1, Untouched DEF Replay, Goto, TypeOK
  <2>2. CASE q = r
    <3>1. s \in up /\ Locked(s, r) /\ (\A t \in up : t # s => ~Locked(t, r))
      BY <1>5, Alone DEF Replay, At, Locked
    <3>2. /\ active'[s][r] # None /\ active'[s][r].at \in {"result", "refused"}
          /\ active'[s][r].body = active[s][r].body
          /\ \A t \in up : t # s => active'[t][r] = active[t][r]
      BY <1>5, <1>t, CallMoves DEF Replay, CallSteps, TypeOK
    <3>3. s \in up' /\ lock'[r] = s /\ Locked(s, r)'
          /\ (\A t \in up' : t # s => ~Locked(t, r)')
      BY <1>5, <1>s, <3>1, <3>2 DEF Replay, Locked, RequestSound, Separated
    <3>4. Noted(r) /\ RunsCounted(r)
      BY <1>s DEF RequestSound
    <3> QED
      BY <1>5, <1>t, <2>2, <3>1, <3>2, <3>3, <3>4, OnlyMover, CallMoves, IdempotencyAssumption
         DEF Replay, Unseen, Answers, Record, CallSteps, TypeOK, Noted, RunsCounted, At, Working
  <2> QED
    BY <2>1, <2>2
<1>6. ASSUME NEW s \in Server, NEW r \in Request, Run(s, r) PROVE RequestSound(q)'
  <2>1. CASE q # r
    BY <1>6, <1>t, <1>s, <2>1, Untouched DEF Run, Goto, TypeOK
  <2>2. CASE q = r
    <3>1. s \in up /\ Locked(s, r) /\ (\A t \in up : t # s => ~Locked(t, r))
      BY <1>6, Alone DEF Run, At, Locked
    <3>2. /\ active'[s][r] # None /\ active'[s][r].at \in {"saveDone", "saveError"}
          /\ active'[s][r].body = active[s][r].body
          /\ \A t \in up : t # s => active'[t][r] = active[t][r]
      BY <1>6, <1>t, CallMoves DEF Run, CallSteps, TypeOK
    <3>3. s \in up' /\ lock'[r] = s /\ Locked(s, r)'
          /\ (\A t \in up' : t # s => ~Locked(t, r)')
      BY <1>6, <1>s, <3>1, <3>2 DEF Run, Locked, RequestSound, Separated
    <3>4. Noted(r) /\ RunsCounted(r)
      BY <1>s DEF RequestSound
    <3>5. ran[r] = 0 /\ ran'[r] = 1 /\ record' = record
      BY <1>6, <1>t, <3>1, <3>4 DEF Run, RunsCounted, TypeOK
    <3>6. record[r] = [state |-> "pending", body |-> active[s][r].body]
      BY <1>6, <3>1, <3>4 DEF Run, Noted, Working
    <3>7. record[r] # None
      BY <1>6, <3>4, <3>5, <3>6, <3>1, IdempotencyAssumption, <1>t DEF Record, At, Call, TypeOK, Run
    <3>8. /\ ran'[r] <= 1 /\ record'[r] # None /\ record'[r].state = "pending"
          /\ record'[r] = [state |-> "pending", body |-> active'[s][r].body]
      BY <3>2, <3>5, <3>6, <3>7
    <3>9. /\ ~At(s, r, "run")' /\ ~At(s, r, "result")'
      BY <3>2 DEF At
    <3>10. RequestSound(r)'
      BY <3>3, <3>5, <3>8, <3>9, OnlyMover
    <3> QED
      BY <2>2, <3>10
  <2> QED
    BY <2>1, <2>2
<1>7. ASSUME NEW s \in Server, NEW r \in Request, SaveDone(s, r) PROVE RequestSound(q)'
  <2>1. CASE q # r
    BY <1>7, <1>t, <1>s, <2>1, Untouched DEF SaveDone, Goto, TypeOK, Write, WriteFails
  <2>2. CASE q = r
    <3>1. s \in up /\ Locked(s, r) /\ (\A t \in up : t # s => ~Locked(t, r))
      BY <1>7, Alone DEF SaveDone, At, Locked
    <3>2. /\ active'[s][r] # None /\ active'[s][r].at \in {"result", "saveError"}
          /\ active'[s][r].body = active[s][r].body
          /\ \A t \in up : t # s => active'[t][r] = active[t][r]
      BY <1>7, <1>t, CallMoves DEF SaveDone, CallSteps, TypeOK
    <3>3. s \in up' /\ lock'[r] = s /\ Locked(s, r)'
          /\ (\A t \in up' : t # s => ~Locked(t, r)')
      BY <1>7, <1>s, <3>1, <3>2 DEF SaveDone, Locked, RequestSound, Separated
    <3>4. Noted(r) /\ RunsCounted(r)
      BY <1>s DEF RequestSound
    <3> QED
      BY <1>7, <1>t, <2>2, <3>1, <3>2, <3>3, <3>4, OnlyMover, CallMoves, IdempotencyAssumption
         DEF SaveDone, Write, WriteFails, Record, CallSteps, TypeOK, Noted, RunsCounted, At, Working
  <2> QED
    BY <2>1, <2>2
<1>8. ASSUME NEW s \in Server, NEW r \in Request, SaveError(s, r) PROVE RequestSound(q)'
  <2>1. CASE q # r
    BY <1>8, <1>t, <1>s, <2>1, Untouched DEF SaveError, Goto, TypeOK, Write, WriteFails
  <2>2. CASE q = r
    <3>1. s \in up /\ Locked(s, r) /\ (\A t \in up : t # s => ~Locked(t, r))
      BY <1>8, Alone DEF SaveError, At, Locked
    <3>2. /\ active'[s][r] # None /\ active'[s][r].at \in {"refused"}
          /\ active'[s][r].body = active[s][r].body
          /\ \A t \in up : t # s => active'[t][r] = active[t][r]
      BY <1>8, <1>t, CallMoves DEF SaveError, CallSteps, TypeOK
    <3>3. s \in up' /\ lock'[r] = s /\ Locked(s, r)'
          /\ (\A t \in up' : t # s => ~Locked(t, r)')
      BY <1>8, <1>s, <3>1, <3>2 DEF SaveError, Locked, RequestSound, Separated
    <3>4. Noted(r) /\ RunsCounted(r)
      BY <1>s DEF RequestSound
    <3> QED
      BY <1>8, <1>t, <2>2, <3>1, <3>2, <3>3, <3>4, OnlyMover, CallMoves, IdempotencyAssumption
         DEF SaveError, Write, WriteFails, Record, CallSteps, TypeOK, Noted, RunsCounted, At, Working
  <2> QED
    BY <2>1, <2>2
<1>9. ASSUME NEW s \in Server, NEW r \in Request, End(s, r) PROVE RequestSound(q)'
  <2>1. CASE q # r
    BY <1>9, <1>t, <1>s, <2>1, Untouched DEF End, TypeOK
  <2>2. CASE q = r
    <3>1. s \in up /\ Locked(s, r) /\ (\A t \in up : t # s => ~Locked(t, r))
      BY <1>9, Alone DEF End, At, Locked
    <3>2. /\ active'[s][r] = None
          /\ \A t \in up : t # s => active'[t][r] = active[t][r]
      BY <1>9, <1>t DEF End, TypeOK
    <3>3. \A t \in up' : ~Locked(t, r)'
      BY <1>9, <3>1, <3>2 DEF End, Locked
    <3>4. lock'[r] = None
      BY <1>9, <1>t, <1>s, <3>1 DEF End, RequestSound, Separated, TypeOK
    <3>5. \A t \in up' : lock'[r] # t
      BY <1>t, <3>4, IdempotencyAssumption DEF TypeOK
    <3>6. record' = record /\ ran' = ran /\ RunsCounted(r)
      BY <1>9, <1>s DEF End, RequestSound
    <3> QED
      BY <2>2, <3>3, <3>5, <3>6 DEF RequestSound, Separated, Noted, RunsCounted, Locked, Working, At
  <2> QED
    BY <2>1, <2>2
<1>10. CASE UNCHANGED vars
  BY <1>10, <1>s, Untouched DEF vars
<1> QED
  BY <1>1, <1>2, <1>3, <1>4, <1>5, <1>6, <1>7, <1>8, <1>9, <1>10 DEF Next

LEMMA RequestInvariant == Spec => []RequestIInv
  BY InitRequestIInv, NextRequestIInv, PTL DEF Spec

(* The lock of a request separates its calls, whatever servers die and     *)
(* whatever locks are broken.                                              *)
THEOREM RequestsLocked == Spec => []RequestInv
<1>1. RequestIInv => RequestInv
  BY DEF RequestIInv, RequestInv, RequestSound, Separated, Noted
<1> QED
  BY RequestInvariant, <1>1, PTL

(* An operation runs at most once per requestId.                           *)
THEOREM RunsAtMostOnce == Spec => []RanOnce
<1>1. RequestIInv => RanOnce
  BY DEF RequestIInv, RequestSound, RunsCounted, RanOnce
<1> QED
  BY RequestInvariant, <1>1, PTL

(* Every answer with a result is the recorded result of the only run.      *)
THEOREM ResultReused == Spec => []ResultIsReused
<1>1. RequestIInv => ResultIsReused
  BY DEF RequestIInv, RequestSound, RunsCounted, ResultIsReused
<1> QED
  BY RequestInvariant, <1>1, PTL

(* No step replaces a final record or a leftover pending one.              *)
THEOREM LeftoversFinal == Spec => LeftoverIsFinal
<1>1. RequestIInv /\ [Next]_vars => [LeftoverKept]_vars
  <2> SUFFICES ASSUME RequestIInv, Next PROVE LeftoverKept
    OBVIOUS
  <2> USE IdempotencyAssumption DEF RequestIInv, TypeOK, RequestSound, Noted, At, Working, LeftoverKept
  <2>1. ASSUME NEW s \in Server, Crash(s) PROVE LeftoverKept
    BY <2>1 DEF Crash
  <2>2. ASSUME NEW s \in Server, NEW r \in Request, NEW b \in Body, Submit(s, r, b)
        PROVE LeftoverKept
    BY <2>2 DEF Submit
  <2>3. ASSUME NEW s \in Server, NEW r \in Request, NEW k \in BreakStale, TakeLock(s, r, k)
        PROVE LeftoverKept
    BY <2>3 DEF TakeLock
  <2>4. ASSUME NEW s \in Server, NEW r \in Request, Note(s, r) PROVE LeftoverKept
    BY <2>4 DEF Note, Unseen, Write, WriteFails
  <2>5. ASSUME NEW s \in Server, NEW r \in Request, Replay(s, r) PROVE LeftoverKept
    BY <2>5 DEF Replay
  <2>6. ASSUME NEW s \in Server, NEW r \in Request, Run(s, r) PROVE LeftoverKept
    BY <2>6 DEF Run
  <2>7. ASSUME NEW s \in Server, NEW r \in Request, SaveDone(s, r) PROVE LeftoverKept
    BY <2>7 DEF SaveDone, Write, WriteFails
  <2>8. ASSUME NEW s \in Server, NEW r \in Request, SaveError(s, r) PROVE LeftoverKept
    BY <2>8 DEF SaveError, Write, WriteFails
  <2>9. ASSUME NEW s \in Server, NEW r \in Request, End(s, r) PROVE LeftoverKept
    BY <2>9 DEF End
  <2> QED
    BY <2>1, <2>2, <2>3, <2>4, <2>5, <2>6, <2>7, <2>8, <2>9 DEF Next
<1> QED
  BY RequestInvariant, <1>1, PTL DEF Spec, LeftoverIsFinal

----------------------------------------------------------------------------
(***************************************************************************)
(* Proofs about Deployment: for any slots, people and thresholds, the      *)
(* pointer and the stable and previous slots stay verified, nobody undoes  *)
(* a healthy start from an older copy of the state, the guard takes one    *)
(* automatic rollback each time it is switched on, and no step moves the   *)
(* pointer without the record that earned it.                              *)
(***************************************************************************)

Known == ready \cup {Nil}

(* Where a call of its kind may be: only the watchdog records, only people *)
(* activate and configure, and what holds the lock is at its own label.    *)
Placed(p) ==
  /\ p \in User => /\ call[p].does # "record"
                   /\ pc[p] \in {"idle", "target", "lock", "activate", "configure",
                                 "save", "point"}
  /\ p = Dog => pc[p] \notin {"target", "activate", "configure"}
  /\ p = Dog /\ pc[p] \notin {"idle", "loop"} =>
       call[p].does = "record" /\ call[p].slot \in ready
  /\ pc[p] = "lock" => call[p].does # "none"
  /\ pc[p] = "target" => {call[p].st.stable, call[p].st.previous} \subseteq Known
  /\ pc[p] \in {"activate", "configure"} => call[p].does = pc[p]
  /\ pc[p] = "save" => call[p].does # "none"
  /\ pc[p] = "point" => call[p].does \in {"activate", "record"}

(* How the state a call is about to save relates to the one on disk, which *)
(* nobody can change in between.                                           *)
ToSave(p) ==
  LET new == call[p].st IN
  pc[p] = "save" =>
    /\ {new.stable, new.previous} \subseteq Known
    /\ (call[p].does # "record" \/ ~call[p].healthy) /\ st.stable # Nil => new.stable = st.stable
    /\ call[p].does = "activate" =>
         call[p].slot \in ready /\ new.failures = 0 /\ new.previous = current
    /\ call[p].does = "configure" => new.failures = st.failures
    /\ call[p].does = "record" =>
         /\ call[p].slot = current
         /\ new.threshold = st.threshold
         /\ new.enabled => st.enabled
         /\ IF call[p].healthy THEN new.failures = 0 /\ new.stable = call[p].slot
                               ELSE new.failures = OneMore(st.failures)
         /\ call[p].rollback =>
              ~call[p].healthy /\ st.enabled /\ ~new.enabled /\ new.failures >= new.threshold
              /\ OtherThan(new, call[p].slot) # Nil

(* What has been saved when the pointer is about to move.                  *)
ToPoint(p) ==
  pc[p] = "point" =>
    /\ st = call[p].st
    /\ call[p].does = "activate" =>
         call[p].slot \in ready /\ st.failures = 0 /\ st.previous = current
    /\ call[p].does = "record" =>
         /\ moves = 0 /\ ~st.enabled
         /\ streak >= st.threshold \/ rolled
         /\ OtherThan(st, call[p].slot) # Nil

Held(p) == pc[p] \in UnderLock <=> deployLock = p

(* The histories and the state on disk. *)
Histories ==
  /\ st.enabled => moves = 0
  /\ moves <= 1
  /\ st.failures <= streak \/ rolled
  /\ healthy # Nil => st.stable = healthy

Sound(p) == Held(p) /\ Placed(p) /\ ToSave(p) /\ ToPoint(p)

IInv ==
  /\ DeployTypeOK
  /\ {current, st.stable, st.previous} \subseteq Known
  /\ Histories
  /\ \A p \in Proc : Sound(p)

-----------------------------------------------------------------------------
LEMMA Constants ==
  ASSUME Assumptions
  PROVE  /\ Nil \notin Slot /\ Nil \notin Proc /\ Dog \notin User
         /\ Cap \in Nat /\ Thresholds \subseteq 1..Cap
         /\ Initial \in State /\ NoCall \in DeployCall
BY DEF Assumptions, SlotAssumption, ProcAssumption, ThresholdAssumption, Proc, Initial, NoCall,
       State, DeployCall, Maybe

LEMMA InitIInv ==
  ASSUME Assumptions, DeployInit
  PROVE  IInv
<1>1. DeployTypeOK
  <2>1. /\ Cap \in Nat /\ Initial \in State /\ NoCall \in DeployCall
    BY Constants
  <2>2. pc \in [Proc -> Labels] /\ call \in [Proc -> DeployCall]
    BY <2>1 DEF DeployInit, Labels
  <2>3. streak \in 0..Cap /\ moves \in 0..2
    BY <2>1 DEF DeployInit
  <2> QED
    BY <2>1, <2>2, <2>3 DEF DeployInit, DeployTypeOK, Maybe
<1>2. {current, st.stable, st.previous} \subseteq Known
  BY DEF DeployInit, Initial, Known
<1>3. Histories
  BY DEF DeployInit, Initial, Histories
<1>4. ASSUME NEW p \in Proc
      PROVE  Sound(p)
  <2>1. pc[p] = "idle" /\ deployLock = Nil
    BY DEF DeployInit
  <2>2. call[p].does = "none"
    BY DEF DeployInit, NoCall
  <2> QED
    BY <2>1, <2>2, Constants DEF Sound, Held, Placed, ToSave, ToPoint, UnderLock
<1> QED
  BY <1>1, <1>2, <1>3, <1>4 DEF IInv

(* What the steps of one process leave alone in the others.                *)
Aside(p) ==
  /\ \A q \in Proc \ {p} : pc'[q] = pc[q] /\ call'[q] = call[q]
  /\ ready \subseteq ready'
  /\ deployLock' = deployLock \/ (deployLock \in {p, Nil} /\ deployLock' \in {p, Nil})
  /\ deployLock = p \/ UNCHANGED <<current, st, streak, rolled, moves>>

LEMMA OthersKept ==
  ASSUME Assumptions, IInv, NEW p \in Proc, Aside(p), NEW q \in Proc, q # p
  PROVE  Sound(q)'
<1>1. pc'[q] = pc[q] /\ call'[q] = call[q]
  BY DEF Aside
<1>2. Held(q) /\ Placed(q) /\ ToSave(q) /\ ToPoint(q)
  BY DEF IInv, Sound
<1>3. Held(q)'
  BY <1>1, <1>2, Constants DEF Held, Aside
<1>4. Placed(q)'
  BY <1>1, <1>2 DEF Placed, Aside, Known
<1>5. CASE deployLock = p
  BY <1>1, <1>2, <1>3, <1>4, <1>5 DEF Sound, Held, ToSave, ToPoint, UnderLock
<1>6. CASE deployLock # p
  BY <1>1, <1>2, <1>3, <1>4, <1>6 DEF Sound, Aside, ToSave, ToPoint, Known
<1> QED
  BY <1>5, <1>6

(* A step that leaves what is on disk and the histories alone only has to  *)
(* account for its own process.                                            *)
LEMMA QuietStep ==
  ASSUME Assumptions, IInv, DeployTypeOK', NEW p \in Proc, UNCHANGED <<disk, hist>>,
         \A q \in Proc \ {p} : pc'[q] = pc[q] /\ call'[q] = call[q],
         deployLock' = deployLock \/ (deployLock \in {p, Nil} /\ deployLock' \in {p, Nil}),
         Sound(p)'
  PROVE  IInv'
<1>1. Aside(p)
  BY DEF Aside, disk, hist
<1>2. \A q \in Proc : Sound(q)'
  BY <1>1, OthersKept
<1>3. Histories' /\ ({current, st.stable, st.previous} \subseteq Known)'
  BY DEF IInv, Histories, Known, disk, hist
<1> QED
  BY <1>2, <1>3 DEF IInv

(* A call that ends frees the lock and has nothing left to do. *)
LEMMA Ended ==
  ASSUME Assumptions, IInv, NEW p \in Proc, NEW l \in {"idle", "loop"}, Done(p, l),
         l = "idle" \/ p = Dog
  PROVE  /\ Sound(p)'
         /\ \A q \in Proc \ {p} : pc'[q] = pc[q] /\ call'[q] = call[q]
         /\ deployLock' = deployLock \/ (deployLock \in {p, Nil} /\ deployLock' \in {p, Nil})
<1>1. pc'[p] = l /\ call'[p] = NoCall /\ deployLock' # p
  BY Constants DEF Done, GoOn, IInv, DeployTypeOK
<1>2. Sound(p)'
  BY <1>1, Constants DEF Sound, Held, Placed, ToSave, ToPoint, UnderLock, NoCall, Proc
<1>3. \A q \in Proc \ {p} : pc'[q] = pc[q] /\ call'[q] = call[q]
  BY DEF Done, GoOn, IInv, DeployTypeOK
<1>4. deployLock' = deployLock \/ (deployLock \in {p, Nil} /\ deployLock' \in {p, Nil})
  BY DEF Done
<1> QED
  BY <1>2, <1>3, <1>4

-----------------------------------------------------------------------------
(* Updating a call keeps it a call. *)
LEMMA CallUpdates ==
  ASSUME Assumptions, NEW c \in DeployCall
  PROVE  /\ \A s \in State, b \in BOOLEAN :
              [c EXCEPT !.st = s] \in DeployCall /\ [c EXCEPT !.st = s, !.rollback = b] \in DeployCall
         /\ \A b \in BOOLEAN : [c EXCEPT !.healthy = b] \in DeployCall
         /\ \A d \in {"activate", "configure", "record"}, s \in Maybe :
              [NoCall EXCEPT !.does = d, !.slot = s] \in DeployCall
         /\ \A s \in State : [NoCall EXCEPT !.does = "activate", !.st = s] \in DeployCall
         /\ \A b \in BOOLEAN, n \in Thresholds :
              [NoCall EXCEPT !.does = "configure", !.st.enabled = b, !.st.threshold = n] \in DeployCall
<1>1. NoCall \in DeployCall /\ NoCall.st \in State
  BY Constants DEF DeployCall
<1>2. \A b \in BOOLEAN, n \in Thresholds :
        [NoCall EXCEPT !.does = "configure", !.st.enabled = b, !.st.threshold = n] \in DeployCall
  BY <1>1 DEF DeployCall, State
<1> QED
  BY <1>1, <1>2 DEF DeployCall

LEMMA StateUpdates ==
  ASSUME Assumptions, NEW s \in State, NEW id \in Maybe
  PROVE  /\ AfterHealthy(s, id) \in State /\ AfterFailure(s, id) \in State
         /\ OtherThan(s, id) \in Maybe
         /\ OneMore(s.failures) \in 0..Cap
<1>1. OneMore(s.failures) \in 0..Cap
  BY Constants DEF OneMore, State
<1>2. OtherThan(s, id) \in Maybe
  BY DEF OtherThan, State, Maybe
<1>3. AfterHealthy(s, id) \in State
  <2>1. 0 \in 0..Cap
    BY Constants
  <2> QED
    BY <2>1 DEF AfterHealthy, State
<1>4. AfterFailure(s, id) \in State
  <2>1. s.enabled \in BOOLEAN /\ s.threshold \in Thresholds
    BY DEF State
  <2> DEFINE n == OneMore(s.failures)
  <2> HIDE DEF n
  <2>2. [s EXCEPT !.failures = n, !.enabled = @ /\ n < s.threshold] \in State
    BY <1>1, <2>1 DEF State, n
  <2> QED
    BY <2>2 DEF AfterFailure, n
<1> QED
  BY <1>1, <1>2, <1>3, <1>4

(* Every step keeps the types.                                             *)
LEMMA DeploymentTypeStep ==
  ASSUME Assumptions, IInv, [DeployNext]_deployVars
  PROVE  DeployTypeOK'
<1> USE DEF DeployTypeOK
<1>0. DeployTypeOK /\ \A p \in Proc : Placed(p)
  BY DEF IInv, Sound
<1>1. ASSUME NEW s \in Slot, Stage(s) PROVE DeployTypeOK'
  BY <1>0, <1>1 DEF Stage, hist
<1>2. ASSUME NEW u \in User, NEW s \in Slot, CallActivate(u, s) PROVE DeployTypeOK'
  BY <1>0, <1>2, CallUpdates, Constants DEF CallActivate, GoOn, disk, hist, Labels, Proc, Maybe
<1>3. ASSUME NEW u \in User, NEW e \in BOOLEAN, NEW n \in Thresholds, CallConfigure(u, e, n)
      PROVE DeployTypeOK'
  BY <1>0, <1>3, CallUpdates, Constants DEF CallConfigure, GoOn, disk, hist, Labels, Proc
<1>4. ASSUME NEW u \in User, CallRollback(u) PROVE DeployTypeOK'
  BY <1>0, <1>4, CallUpdates, Constants DEF CallRollback, GoOn, disk, hist, Labels, Proc
<1>5. ASSUME NEW p \in Proc, NEW l \in Labels, Done(p, l)
      PROVE pc' \in [Proc -> Labels] /\ call' \in [Proc -> DeployCall] /\ deployLock' \in Proc \cup {Nil}
  BY <1>0, <1>5, Constants DEF Done, GoOn
<1>6. ASSUME NEW p \in Proc, Throw(p)
      PROVE pc' \in [Proc -> Labels] /\ call' \in [Proc -> DeployCall] /\ deployLock' \in Proc \cup {Nil}
  BY <1>5, <1>6 DEF Throw, Labels
<1>7. ASSUME NEW u \in User, RollbackTarget(u) PROVE DeployTypeOK'
  <2>1. OtherThan(call[u].st, current) \in Maybe
    BY <1>0, StateUpdates DEF DeployCall, Proc
  <2> QED
    BY <1>0, <1>6, <1>7, <2>1, CallUpdates DEF RollbackTarget, GoOn, disk, hist, Labels, Proc
<1>8. ASSUME NEW p \in Proc, DeploymentLock(p) PROVE DeployTypeOK'
  <2>1. CASE deployLock = Nil
    <3>1. call[p].does \in {"activate", "configure", "record"}
      BY <1>0, <1>8 DEF DeploymentLock, DeployCall, Placed
    <3> QED
      BY <1>0, <1>8, <2>1, <3>1 DEF DeploymentLock, GoOn, disk, hist, Labels
  <2>2. CASE deployLock # Nil
    BY <1>0, <1>6, <1>8, <2>2 DEF DeploymentLock, disk, hist
  <2> QED
    BY <2>1, <2>2
<1>9. ASSUME NEW u \in User, Activate(u) PROVE DeployTypeOK'
  <2> DEFINE new == [st EXCEPT !.previous = current, !.failures = 0, !.enabled = TRUE,
                               !.stable = IF @ = Nil THEN call[u].slot ELSE @]
  <2>1. new \in State
    <3>1. 0 \in 0..Cap
      BY Constants
    <3>2. call[u].slot \in Maybe
      BY <1>0 DEF DeployCall, Proc
    <3> QED
      BY <1>0, <3>1, <3>2 DEF State
  <2>2. call' \in [Proc -> DeployCall]
    <3>1. [call[u] EXCEPT !.st = new] \in DeployCall
      BY <1>0, <2>1, CallUpdates DEF Proc
    <3> HIDE DEF new
    <3>2. call' = [call EXCEPT ![u] = NoCall] \/ call' = [call EXCEPT ![u] = [@ EXCEPT !.st = new]]
      BY <1>9 DEF Activate, Throw, Done, new
    <3> QED
      BY <1>0, <3>1, <3>2, Constants
  <2> QED
    BY <1>0, <1>6, <1>9, <2>2 DEF Activate, GoOn, disk, hist, Labels, Proc
<1>10. ASSUME NEW u \in User, Configure(u) PROVE DeployTypeOK'
  <2> DEFINE new == [st EXCEPT !.enabled = call[u].st.enabled, !.threshold = call[u].st.threshold]
  <2>1. new \in State
    BY <1>0 DEF State, DeployCall, Proc
  <2>2. [call[u] EXCEPT !.st = new] \in DeployCall
    BY <1>0, <2>1, CallUpdates DEF Proc
  <2>3. call' = [call EXCEPT ![u] = [@ EXCEPT !.st = new]]
    BY <1>10 DEF Configure
  <2> HIDE DEF new
  <2> QED
    BY <1>0, <1>10, <2>2, <2>3 DEF Configure, GoOn, disk, hist, Labels, Proc
<1>11. ASSUME NEW p \in Proc, RecordBoot(p) PROVE DeployTypeOK'
  <2> DEFINE id == call[p].slot
             new == IF call[p].healthy THEN AfterHealthy(st, id) ELSE AfterFailure(st, id)
             back == ~call[p].healthy /\ FallsBack(st, id)
  <2>1. call[p] \in DeployCall /\ id \in Maybe
    BY <1>0 DEF DeployCall
  <2>2. new \in State
    BY <1>0, <2>1, StateUpdates
  <2>3. back \in BOOLEAN
    BY <2>1 DEF FallsBack, DeployCall
  <2> HIDE DEF new, back
  <2>4. [call[p] EXCEPT !.st = new, !.rollback = back] \in DeployCall
    BY <2>1, <2>2, <2>3, CallUpdates
  <2>5. CASE current # id
    BY <1>0, <1>11, <2>5 DEF RecordBoot, GoOn, disk, hist, Labels
  <2>6. CASE current = id
    <3>1. call' = [call EXCEPT ![p] = [@ EXCEPT !.st = new, !.rollback = back]]
      BY <1>11, <2>6 DEF RecordBoot, new, back
    <3> QED
      BY <1>0, <1>11, <2>4, <2>6, <3>1 DEF RecordBoot, GoOn, disk, hist, Labels
  <2> QED
    BY <2>5, <2>6
<1>12. ASSUME NEW p \in Proc, Save(p) PROVE DeployTypeOK'
  <2>1. st' \in State /\ call[p] \in DeployCall
    BY <1>0, <1>12 DEF Save, DeployCall
  <2>2. OneMore(streak) \in 0..Cap /\ 0 \in 0..Cap
    BY <1>0, Constants DEF OneMore
  <2>3. pc' \in [Proc -> Labels] /\ call' \in [Proc -> DeployCall] /\ deployLock' \in Proc \cup {Nil}
    <3>1. CASE call[p].does = "configure"
      BY <1>5, <1>12, <3>1 DEF Save, Labels
    <3>2. CASE call[p].does # "configure"
      BY <1>0, <1>12, <3>2 DEF Save, GoOn, Labels
    <3> QED
      BY <3>1, <3>2
  <2>4. streak' \in 0..Cap /\ healthy' \in Maybe /\ rolled' \in BOOLEAN /\ moves' \in 0..2
    <3>1. 0 \in 0..2 /\ FALSE \in BOOLEAN
      OBVIOUS
    <3>2. healthy' \in Maybe
      BY <1>0, <1>12, <2>1 DEF Save, DeployCall
    <3> QED
      BY <1>0, <1>12, <2>2, <3>1, <3>2 DEF Save
  <2> QED
    BY <1>0, <1>12, <2>1, <2>3, <2>4 DEF Save
<1>13. ASSUME NEW p \in Proc, Point(p) PROVE DeployTypeOK'
  <2>1. pc' \in [Proc -> Labels] /\ call' \in [Proc -> DeployCall] /\ deployLock' \in Proc \cup {Nil}
    BY <1>5, <1>13 DEF Point, Labels
  <2>2. current' \in Maybe
    <3>1. call[p] \in DeployCall
      BY <1>0
    <3>2. call[p].slot \in Maybe /\ call[p].st \in State
      BY <3>1 DEF DeployCall
    <3>3. OtherThan(call[p].st, call[p].slot) \in Maybe
      BY <3>2, StateUpdates
    <3> QED
      BY <1>13, <3>2, <3>3 DEF Point
  <2>3. streak' \in 0..Cap /\ rolled' \in BOOLEAN /\ moves' \in 0..2
    <3>1. 0 \in 0..Cap
      BY Constants
    <3>2. (IF moves < 2 THEN moves + 1 ELSE 2) \in 0..2
      BY <1>0
    <3>3. rolled' \in BOOLEAN
      BY <1>0, <1>13 DEF Point
    <3> QED
      BY <1>0, <1>13, <3>1, <3>2, <3>3 DEF Point
  <2> QED
    BY <1>0, <1>13, <2>1, <2>2, <2>3 DEF Point
<1>14. Dog \in Proc
  BY DEF Proc
<1>15. ASSUME Start PROVE DeployTypeOK'
  BY <1>0, <1>14, <1>15 DEF Start, GoOn, disk, hist, Labels
<1>16. ASSUME Loop PROVE DeployTypeOK'
  BY <1>0, <1>6, <1>14, <1>16, CallUpdates DEF Loop, GoOn, disk, hist, Labels
<1>17. ASSUME NEW ok \in BOOLEAN, Boot(ok) \/ Monitor(ok) PROVE DeployTypeOK'
  <2>1. [call[Dog] EXCEPT !.healthy = ok] \in DeployCall
    BY <1>0, <1>14, CallUpdates
  <2>2. call' = [call EXCEPT ![Dog] = [@ EXCEPT !.healthy = ok]]
    BY <1>17 DEF Boot, Monitor
  <2> QED
    BY <1>0, <1>14, <1>17, <2>1, <2>2 DEF Boot, Monitor, GoOn, disk, hist, Labels
<1>18. ASSUME Stopped PROVE DeployTypeOK'
  BY <1>0, <1>14, <1>18, Constants DEF Stopped, GoOn, disk, hist, Labels
<1>19. ASSUME Recorded PROVE DeployTypeOK'
  <2>1. \E l \in Labels : Done(Dog, l)
    BY <1>19 DEF Recorded, Labels
  <2> QED
    BY <1>0, <1>5, <1>14, <1>19, <2>1 DEF Recorded, disk, hist
<1>20. ASSUME NEW p \in Proc, Stop(p) \/ (Abort /\ p = Dog) PROVE DeployTypeOK'
  BY <1>0, <1>6, <1>20 DEF Stop, Abort, disk, hist
<1>21. ASSUME UNCHANGED deployVars PROVE DeployTypeOK'
  BY <1>0, <1>21 DEF deployVars, disk, hist
<1> QED
  <2>1. User \subseteq Proc
    BY DEF Proc
  <2> QED
    BY <1>1, <1>2, <1>3, <1>4, <1>7, <1>8, <1>9, <1>10, <1>11, <1>12, <1>13, <1>14, <1>15,
       <1>16, <1>17, <1>18, <1>19, <1>20, <1>21, <2>1
       DEF DeployNext, UserStep, DogStep

-----------------------------------------------------------------------------
(* The steps of a person's call up to the lock. *)
LEMMA CallStep ==
  ASSUME Assumptions, IInv, DeployTypeOK', NEW u \in User,
         \/ \E s \in Slot : CallActivate(u, s)
         \/ \E e \in BOOLEAN, n \in Thresholds : CallConfigure(u, e, n)
         \/ CallRollback(u)
         \/ RollbackTarget(u)
  PROVE  IInv'
<1>1. u \in Proc /\ u # Dog
  BY Constants DEF Proc
<1>2. Sound(u) /\ DeployTypeOK
  BY <1>1 DEF IInv
<1>3. CASE pc'[u] \in {"lock", "target"} /\ deployLock' = deployLock
  <2>1. deployLock # u
    BY <1>1, <1>2 DEF Sound, Held, UnderLock, CallActivate, CallConfigure, CallRollback, RollbackTarget
  <2>2. Held(u)' /\ ToSave(u)' /\ ToPoint(u)'
    BY <1>3, <2>1 DEF Held, ToSave, ToPoint, UnderLock
  <2>3. /\ call'[u].does \in {"activate", "configure"}
        /\ pc'[u] = "target" => call'[u].st = st
        /\ UNCHANGED <<disk, hist>>
        /\ \A q \in Proc \ {u} : pc'[q] = pc[q] /\ call'[q] = call[q]
    <3>1. ASSUME NEW s \in Slot, CallActivate(u, s) PROVE <2>3!:
      BY <1>1, <1>2, <3>1 DEF CallActivate, NoCall, DeployTypeOK, GoOn
    <3>2. ASSUME NEW e \in BOOLEAN, NEW n \in Thresholds, CallConfigure(u, e, n) PROVE <2>3!:
      BY <1>1, <1>2, <3>2 DEF CallConfigure, NoCall, DeployTypeOK, GoOn
    <3>3. CASE CallRollback(u)
      BY <1>1, <1>2, <3>3 DEF CallRollback, NoCall, DeployTypeOK, GoOn
    <3>4. CASE RollbackTarget(u)
      BY <1>1, <1>2, <1>3, <3>4 DEF RollbackTarget, NoCall, DeployTypeOK, GoOn, Throw, Done
    <3> QED
      BY <3>1, <3>2, <3>3, <3>4
  <2>4. Placed(u)'
    BY <1>1, <1>3, <2>3 DEF Placed, IInv, Known, disk
  <2> QED
    BY <1>1, <1>3, <2>2, <2>3, <2>4, QuietStep DEF Sound
<1>4. CASE Throw(u) /\ UNCHANGED <<disk, hist>>
  BY <1>1, <1>4, Ended, QuietStep DEF Throw
<1> QED
  BY <1>1, <1>2, <1>3, <1>4
     DEF CallActivate, CallConfigure, CallRollback, RollbackTarget, GoOn, DeployTypeOK

(* Whoever finds the lock free is the only one at a label under it. *)
LEMMA LockStep ==
  ASSUME Assumptions, IInv, DeployTypeOK', NEW p \in Proc, DeploymentLock(p)
  PROVE  IInv'
<1>1. Sound(p) /\ DeployTypeOK
  BY DEF IInv
<1>2. CASE deployLock = Nil
  <2>1. pc'[p] = call[p].does /\ deployLock' = p /\ call' = call /\ UNCHANGED <<disk, hist>>
    BY <1>1, <1>2 DEF DeploymentLock, GoOn, DeployTypeOK
  <2>2. pc[p] = "lock" /\ call[p].does \in {"activate", "configure", "record"}
    BY <1>1 DEF DeploymentLock, Sound, Placed, DeployTypeOK, DeployCall
  <2>3. Held(p)' /\ ToSave(p)' /\ ToPoint(p)'
    BY <2>1, <2>2 DEF Held, UnderLock, ToSave, ToPoint
  <2>4. Placed(p)'
    BY <1>1, <2>1, <2>2, Constants DEF Sound, Placed, disk
  <2>5. \A q \in Proc \ {p} : pc'[q] = pc[q] /\ call'[q] = call[q]
    BY <1>1, <1>2, <2>1 DEF DeploymentLock, GoOn, DeployTypeOK
  <2> QED
    BY <1>2, <2>1, <2>3, <2>4, <2>5, QuietStep DEF Sound
<1>3. CASE deployLock # Nil
  BY <1>3, Ended, QuietStep DEF DeploymentLock, Throw
<1> QED
  BY <1>2, <1>3

(* A person's call under the lock computes what it will save from what is  *)
(* on disk.                                                                *)
LEMMA PersonComputes ==
  ASSUME Assumptions, IInv, DeployTypeOK', NEW u \in User, Activate(u) \/ Configure(u)
  PROVE  IInv'
<1>1. u \in Proc /\ u # Dog
  BY Constants DEF Proc
<1>2. Sound(u) /\ DeployTypeOK /\ call[u] \in DeployCall
  BY <1>1 DEF IInv, DeployTypeOK
<1>3. CASE Throw(u) /\ UNCHANGED <<disk, hist>>
  BY <1>1, <1>3, Ended, QuietStep DEF Throw
<1>4. ASSUME Activate(u), call[u].slot \in ready, current # call[u].slot PROVE IInv'
  <2> DEFINE new == [st EXCEPT !.previous = current, !.failures = 0, !.enabled = TRUE,
                               !.stable = IF @ = Nil THEN call[u].slot ELSE @]
  <2>1. /\ pc[u] = "activate" /\ pc'[u] = "save" /\ deployLock' = deployLock /\ deployLock = u
        /\ call'[u] = [call[u] EXCEPT !.st = new] /\ UNCHANGED <<disk, hist>>
        /\ \A q \in Proc \ {u} : pc'[q] = pc[q] /\ call'[q] = call[q]
    BY <1>1, <1>2, <1>4 DEF Activate, GoOn, Sound, Held, UnderLock, DeployTypeOK
  <2>2. /\ new.previous = current /\ new.failures = 0
        /\ new.stable = IF st.stable = Nil THEN call[u].slot ELSE st.stable
    BY <1>2 DEF DeployTypeOK, State
  <2> HIDE DEF new
  <2>3. /\ call'[u].st = new /\ call'[u].does = "activate" /\ call'[u].slot = call[u].slot
    BY <1>2, <2>1 DEF DeployCall, Sound, Placed
  <2>4. {new.stable, new.previous} \subseteq Known
    BY <1>4, <2>2 DEF IInv, Known
  <2>5. Known' = Known /\ st' = st /\ current' = current /\ ready' = ready
    BY <2>1 DEF Known, disk
  <2>6. Held(u)' /\ ToPoint(u)'
    BY <2>1 DEF Held, UnderLock, ToPoint
  <2>7. Placed(u)'
    BY <1>1, <2>1, <2>3 DEF Placed
  <2>8. ToSave(u)'
    BY <1>4, <2>2, <2>3, <2>4, <2>5 DEF ToSave
  <2> QED
    BY <1>1, <2>1, <2>6, <2>7, <2>8, QuietStep DEF Sound
<1>5. ASSUME Configure(u) PROVE IInv'
  <2> DEFINE new == [st EXCEPT !.enabled = call[u].st.enabled, !.threshold = call[u].st.threshold]
  <2>1. /\ pc[u] = "configure" /\ pc'[u] = "save" /\ deployLock' = deployLock /\ deployLock = u
        /\ call'[u] = [call[u] EXCEPT !.st = new] /\ UNCHANGED <<disk, hist>>
        /\ \A q \in Proc \ {u} : pc'[q] = pc[q] /\ call'[q] = call[q]
    BY <1>1, <1>2, <1>5 DEF Configure, GoOn, Sound, Held, UnderLock, DeployTypeOK
  <2>2. /\ new.previous = st.previous /\ new.failures = st.failures /\ new.stable = st.stable
    BY <1>2 DEF DeployTypeOK, State
  <2> HIDE DEF new
  <2>3. /\ call'[u].st = new /\ call'[u].does = "configure"
    BY <1>2, <2>1 DEF DeployCall, Sound, Placed
  <2>4. Known' = Known /\ st' = st
    BY <2>1 DEF Known, disk
  <2>5. {new.stable, new.previous} \subseteq Known
    BY <2>2 DEF IInv
  <2>6. Held(u)' /\ ToPoint(u)'
    BY <2>1 DEF Held, UnderLock, ToPoint
  <2>7. Placed(u)'
    BY <1>1, <2>1, <2>3 DEF Placed
  <2>8. ToSave(u)'
    BY <2>2, <2>3, <2>4, <2>5 DEF ToSave
  <2> QED
    BY <1>1, <2>1, <2>6, <2>7, <2>8, QuietStep DEF Sound
<1> QED
  BY <1>3, <1>4, <1>5 DEF Activate

(* The watchdog records a result for the slot that is active, or nothing.  *)
LEMMA RecordStep ==
  ASSUME Assumptions, IInv, DeployTypeOK', RecordBoot(Dog)
  PROVE  IInv'
<1>1. Dog \in Proc /\ Dog \notin User /\ Nil \notin Proc
  BY Constants DEF Proc
<1>2. Sound(Dog) /\ DeployTypeOK /\ call[Dog] \in DeployCall /\ st \in State
  BY <1>1 DEF IInv, DeployTypeOK
<1>3. /\ pc[Dog] = "record" /\ deployLock = Dog /\ UNCHANGED <<disk, hist>>
      /\ call[Dog].does = "record" /\ call[Dog].slot \in ready
      /\ \A q \in Proc \ {Dog} : pc'[q] = pc[q] /\ call'[q] = call[q]
  BY <1>1, <1>2 DEF RecordBoot, GoOn, Sound, Held, Placed, UnderLock, DeployTypeOK
<1>4. CASE current # call[Dog].slot
  <2>1. pc'[Dog] \in {"monitor", "recorded"} /\ deployLock' = Nil /\ call' = call
    BY <1>1, <1>2, <1>4 DEF RecordBoot, GoOn, DeployTypeOK
  <2>2. Sound(Dog)'
    BY <1>1, <1>3, <2>1 DEF Sound, Held, Placed, ToSave, ToPoint, UnderLock, disk
  <2> QED
    BY <1>1, <1>3, <2>1, <2>2, QuietStep
<1>5. CASE current = call[Dog].slot
  <2> DEFINE id == call[Dog].slot
             new == IF call[Dog].healthy THEN AfterHealthy(st, id) ELSE AfterFailure(st, id)
             back == ~call[Dog].healthy /\ FallsBack(st, id)
  <2>1. /\ pc'[Dog] = "save" /\ deployLock' = deployLock
        /\ call'[Dog] = [call[Dog] EXCEPT !.st = new, !.rollback = back]
    BY <1>1, <1>2, <1>5 DEF RecordBoot, GoOn, DeployTypeOK
  <2>2. /\ call[Dog].healthy => new.failures = 0 /\ new.stable = id
        /\ ~call[Dog].healthy => new.failures = OneMore(st.failures) /\ new.stable = st.stable
        /\ new.threshold = st.threshold /\ new.previous = st.previous
        /\ new.enabled => st.enabled
    BY <1>2 DEF AfterHealthy, AfterFailure, State
  <2>3. back => /\ ~call[Dog].healthy /\ st.enabled /\ ~new.enabled
                /\ new.failures >= new.threshold /\ OtherThan(new, id) # Nil
    <3>1. SUFFICES ASSUME back
                   PROVE  /\ ~call[Dog].healthy /\ st.enabled /\ ~new.enabled
                          /\ new.failures >= new.threshold /\ OtherThan(new, id) # Nil
      OBVIOUS
    <3>2. ~call[Dog].healthy /\ st.enabled /\ OneMore(st.failures) >= st.threshold
          /\ OtherThan(st, id) # Nil
      BY <3>1 DEF FallsBack
    <3>3. OneMore(st.failures) \in Nat /\ st.threshold \in Nat
      BY <1>2, Constants DEF OneMore, State
    <3>4. new.enabled = (st.enabled /\ OneMore(st.failures) < st.threshold)
      BY <1>2, <3>2 DEF AfterFailure, State
    <3>5. ~(OneMore(st.failures) < st.threshold)
      BY <3>2, <3>3
    <3> HIDE DEF new
    <3>6. ~new.enabled
      BY <3>4, <3>5, Zenon
    <3> QED
      BY <2>2, <3>2, <3>6 DEF OtherThan
  <2> HIDE DEF new, back
  <2>4. /\ call'[Dog].st = new /\ call'[Dog].does = "record" /\ call'[Dog].slot = id
        /\ call'[Dog].healthy = call[Dog].healthy /\ call'[Dog].rollback = back
    BY <1>2, <1>3, <2>1 DEF DeployCall
  <2>5. Known' = Known /\ st' = st /\ current' = current /\ ready' = ready
    BY <1>3 DEF Known, disk
  <2>6. {new.stable, new.previous} \subseteq Known
    BY <1>3, <2>2 DEF IInv, Known
  <2>7. Held(Dog)' /\ ToPoint(Dog)' /\ Placed(Dog)'
    BY <1>1, <1>3, <2>1, <2>4, <2>5 DEF Held, UnderLock, ToPoint, Placed
  <2>8. ToSave(Dog)'
    BY <1>5, <2>2, <2>3, <2>4, <2>5, <2>6 DEF ToSave
  <2> QED
    BY <1>1, <1>3, <2>1, <2>7, <2>8, QuietStep DEF Sound
<1> QED
  BY <1>4, <1>5

(* The watchdog's loop outside the lock. *)
LEMMA DogQuiet ==
  ASSUME Assumptions, IInv, DeployTypeOK',
         \/ Start \/ Loop \/ Stopped \/ Recorded
         \/ \E ok \in BOOLEAN : Boot(ok) \/ Monitor(ok)
  PROVE  IInv'
<1>1. Dog \in Proc /\ Dog \notin User
  BY Constants DEF Proc
<1>2. Sound(Dog) /\ DeployTypeOK /\ call[Dog] \in DeployCall
  BY <1>1 DEF IInv, DeployTypeOK
<1>3. deployLock # Dog
  BY <1>2 DEF Sound, Held, UnderLock, Start, Loop, Stopped, Recorded, Boot, Monitor
<1>4. CASE Throw(Dog) /\ UNCHANGED <<disk, hist>>
  BY <1>1, <1>4, Ended, QuietStep DEF Throw
<1>5. CASE Recorded
  BY <1>1, <1>5, Ended, QuietStep DEF Recorded
<1>6. ASSUME deployLock' = deployLock, UNCHANGED <<disk, hist>>,
             \A q \in Proc \ {Dog} : pc'[q] = pc[q] /\ call'[q] = call[q],
             \/ pc'[Dog] = "loop"
             \/ /\ pc'[Dog] \in {"boot", "lock", "stopped"}
                /\ call'[Dog].does = "record" /\ call'[Dog].slot \in ready
      PROVE  IInv'
  <2>1. Sound(Dog)'
    BY <1>1, <1>3, <1>6 DEF Sound, Held, Placed, ToSave, ToPoint, UnderLock, disk
  <2> QED
    BY <1>1, <1>6, <2>1, QuietStep
<1>7. CASE Start
  BY <1>1, <1>2, <1>6, <1>7 DEF Start, GoOn, DeployTypeOK
<1>8. ASSUME Loop, current # Nil PROVE IInv'
  <2>1. current \in ready
    BY <1>8 DEF IInv, Known
  <2>2. /\ pc'[Dog] = "boot" /\ call'[Dog].does = "record" /\ call'[Dog].slot = current
        /\ deployLock' = deployLock /\ UNCHANGED <<disk, hist>>
        /\ \A q \in Proc \ {Dog} : pc'[q] = pc[q] /\ call'[q] = call[q]
    BY <1>1, <1>2, <1>8 DEF Loop, GoOn, DeployTypeOK, NoCall
  <2> QED
    BY <1>6, <2>1, <2>2
<1>9. ASSUME NEW ok \in BOOLEAN, Boot(ok) \/ Monitor(ok) PROVE IInv'
  <2>1. call[Dog].does = "record" /\ call[Dog].slot \in ready
    BY <1>2, <1>9 DEF Boot, Monitor, Sound, Placed
  <2>2. call'[Dog] = [call[Dog] EXCEPT !.healthy = ok]
    BY <1>1, <1>2, <1>9 DEF Boot, Monitor, DeployTypeOK
  <2>3. call'[Dog].does = call[Dog].does /\ call'[Dog].slot = call[Dog].slot
    BY <1>2, <2>2 DEF DeployCall
  <2>4. /\ pc'[Dog] \in {"lock", "stopped"} /\ deployLock' = deployLock /\ UNCHANGED <<disk, hist>>
        /\ \A q \in Proc \ {Dog} : pc'[q] = pc[q] /\ call'[q] = call[q]
    BY <1>1, <1>2, <1>9 DEF Boot, Monitor, GoOn, DeployTypeOK
  <2> QED
    BY <1>6, <2>1, <2>3, <2>4
<1>10. CASE Stopped
  <2>1. call[Dog].does = "record" /\ call[Dog].slot \in ready
    BY <1>2, <1>10 DEF Stopped, Sound, Placed
  <2>2. /\ pc'[Dog] = "loop" \/ (pc'[Dog] = "lock" /\ call' = call)
        /\ deployLock' = deployLock /\ UNCHANGED <<disk, hist>>
        /\ \A q \in Proc \ {Dog} : pc'[q] = pc[q] /\ call'[q] = call[q]
    BY <1>1, <1>2, <1>10 DEF Stopped, GoOn, DeployTypeOK
  <2> QED
    BY <1>6, <2>1, <2>2
<1> QED
  BY <1>4, <1>5, <1>7, <1>8, <1>9, <1>10 DEF Loop

-----------------------------------------------------------------------------
(* What changes the disk holds the lock: the others are not under it.      *)
LEMMA LockedStep ==
  ASSUME Assumptions, IInv, DeployTypeOK', NEW p \in Proc, deployLock = p, ready' = ready,
         \A q \in Proc \ {p} : pc'[q] = pc[q] /\ call'[q] = call[q],
         deployLock' \in {p, Nil}, Sound(p)', Histories',
         ({current, st.stable, st.previous} \subseteq Known)'
  PROVE  IInv'
<1>1. Aside(p)
  BY DEF Aside
<1>2. \A q \in Proc : Sound(q)'
  BY <1>1, OthersKept
<1> QED
  BY <1>2 DEF IInv

LEMMA SaveStep ==
  ASSUME Assumptions, IInv, DeployTypeOK', NEW p \in Proc, Save(p)
  PROVE  IInv'
<1> DEFINE new == call[p].st
<1>1. Sound(p) /\ DeployTypeOK /\ call[p] \in DeployCall /\ st \in State /\ new \in State
  BY DEF IInv, DeployTypeOK, DeployCall
<1>2. /\ pc[p] = "save" /\ st' = new /\ deployLock = p /\ ready' = ready /\ current' = current
      /\ ToSave(p) /\ Placed(p)
  BY <1>1 DEF Save, Sound, Held, UnderLock
<1>3. Known' = Known
  BY <1>2 DEF Known
<1>4. ({current, st.stable, st.previous} \subseteq Known)'
  BY <1>2, <1>3 DEF IInv, ToSave
<1>5. Histories
  BY DEF IInv
<1>6. new.failures \in Nat /\ streak \in Nat /\ st.failures \in Nat /\ Cap \in Nat
      /\ new.failures <= Cap /\ streak <= Cap /\ st.failures <= Cap
  BY <1>1, Constants DEF State, DeployTypeOK
<1>7. CASE call[p].does = "activate"
  <2>1. /\ pc'[p] = "point" /\ deployLock' = deployLock /\ call' = call /\ streak' = streak
        /\ healthy' = healthy /\ rolled' = FALSE /\ moves' = 0
        /\ \A q \in Proc \ {p} : pc'[q] = pc[q] /\ call'[q] = call[q]
    BY <1>1, <1>7 DEF Save, GoOn, DeployTypeOK
  <2>2. call[p].slot \in ready /\ new.failures = 0 /\ new.previous = current
        /\ (st.stable # Nil => new.stable = st.stable)
    BY <1>2, <1>7 DEF ToSave
  <2>3. Histories'
    BY <1>2, <1>5, <1>6, <2>1, <2>2 DEF Histories
  <2>4. Sound(p)'
    BY <1>2, <1>7, <2>1, <2>2, Constants
       DEF Sound, Held, Placed, ToSave, ToPoint, UnderLock, Proc
  <2> QED
    BY <1>2, <1>4, <2>1, <2>3, <2>4, LockedStep
<1>8. CASE call[p].does = "configure"
  <2>1. Done(p, "idle") /\ streak' = streak /\ healthy' = healthy /\ rolled' = rolled
        /\ moves' = IF new.enabled THEN 0 ELSE moves
    BY <1>8 DEF Save
  <2>2. new.failures = st.failures /\ (st.stable # Nil => new.stable = st.stable)
    BY <1>2, <1>8 DEF ToSave
  <2>3. Histories'
    BY <1>1, <1>2, <1>5, <2>1, <2>2 DEF Histories, DeployTypeOK
  <2>4. deployLock' \in {p, Nil}
    BY <1>2, <2>1 DEF Done
  <2> QED
    BY <1>2, <1>4, <2>1, <2>3, <2>4, Ended, LockedStep
<1>9. CASE call[p].does = "record"
  <2>1. p = Dog /\ Dog \notin User /\ call[p].slot \in ready
    BY <1>2, <1>9, Constants DEF Placed, Proc
  <2>2. /\ streak' = IF call[p].healthy THEN 0 ELSE OneMore(streak)
        /\ healthy' = IF call[p].healthy THEN call[p].slot ELSE healthy
        /\ call' = call /\ rolled' = rolled /\ moves' = moves
        /\ call[p].rollback => pc'[p] = "point" /\ deployLock' = deployLock
        /\ ~call[p].rollback => pc'[p] \in {"monitor", "recorded"} /\ deployLock' = Nil
        /\ \A q \in Proc \ {p} : pc'[q] = pc[q] /\ call'[q] = call[q]
    BY <1>1, <1>9 DEF Save, GoOn, DeployTypeOK
  <2>3. /\ (new.enabled => st.enabled)
        /\ call[p].healthy => new.failures = 0 /\ new.stable = call[p].slot
        /\ ~call[p].healthy => new.failures = OneMore(st.failures)
        /\ ~call[p].healthy /\ st.stable # Nil => new.stable = st.stable
        /\ call[p].rollback => ~call[p].healthy /\ st.enabled /\ ~new.enabled
                               /\ new.failures >= new.threshold
                               /\ OtherThan(new, call[p].slot) # Nil
    BY <1>2, <1>9 DEF ToSave
  <2>4. new.failures <= streak' \/ rolled
    BY <1>5, <1>6, <2>2, <2>3 DEF Histories, OneMore
  <2>5. Histories'
    BY <1>2, <1>5, <2>2, <2>3, <2>4 DEF Histories
  <2>6. CASE call[p].rollback
    <3>1. moves' = 0 /\ (streak' >= new.threshold \/ rolled')
      <4>1. new.threshold \in Nat /\ streak' \in Nat
        BY <1>1, Constants DEF State, DeployTypeOK
      <4> QED
        BY <1>5, <1>6, <2>2, <2>3, <2>4, <2>6, <4>1 DEF Histories
    <3> QED
      BY <1>2, <1>4, <1>9, <2>1, <2>2, <2>3, <2>5, <2>6, <3>1, LockedStep
         DEF Sound, Held, Placed, ToSave, ToPoint, UnderLock
  <2>7. CASE ~call[p].rollback
    <3>1. Sound(p)'
      BY <1>2, <1>9, <2>1, <2>2, <2>7, Constants
         DEF Sound, Held, Placed, ToSave, ToPoint, UnderLock
    <3> QED
      BY <1>2, <1>4, <2>2, <2>5, <2>7, <3>1, LockedStep
  <2> QED
    BY <2>6, <2>7
<1> QED
  BY <1>1, <1>7, <1>8, <1>9 DEF Save

LEMMA PointStep ==
  ASSUME Assumptions, IInv, DeployTypeOK', NEW p \in Proc, Point(p)
  PROVE  IInv'
<1>1. Sound(p) /\ DeployTypeOK /\ Histories
  BY DEF IInv
<1>2. /\ pc[p] = "point" /\ st = call[p].st /\ deployLock = p /\ ready' = ready /\ st' = st
      /\ healthy' = healthy /\ streak' = 0 /\ ToPoint(p) /\ Placed(p)
  BY <1>1 DEF Point, Sound, Held, UnderLock, ToPoint
<1>3. Known' = Known
  BY <1>2 DEF Known
<1>4. CASE call[p].does = "activate"
  <2>1. Done(p, "idle") /\ current' = call[p].slot /\ moves' = moves /\ rolled' = rolled
    BY <1>4 DEF Point
  <2>2. call[p].slot \in ready /\ st.failures = 0
    BY <1>2, <1>4 DEF ToPoint
  <2>3. Histories'
    BY <1>1, <1>2, <2>1, <2>2 DEF Histories
  <2>4. ({current, st.stable, st.previous} \subseteq Known)'
    BY <1>2, <1>3, <2>1, <2>2 DEF IInv, Known
  <2> QED
    BY <1>2, <2>1, <2>3, <2>4, Ended, LockedStep DEF Done
<1>5. CASE call[p].does = "record"
  <2>1. p = Dog
    BY <1>2, <1>5 DEF Placed, Proc
  <2>2. Done(p, "loop") /\ current' = OtherThan(st, call[p].slot) /\ rolled' = TRUE
        /\ moves' = IF moves < 2 THEN moves + 1 ELSE 2
    BY <1>2, <1>5 DEF Point
  <2>3. moves = 0 /\ ~st.enabled
    BY <1>2, <1>5 DEF ToPoint
  <2>4. Histories'
    BY <1>1, <1>2, <2>2, <2>3 DEF Histories
  <2>5. ({current, st.stable, st.previous} \subseteq Known)'
    BY <1>2, <1>3, <2>2 DEF IInv, OtherThan
  <2> QED
    BY <1>2, <2>1, <2>2, <2>4, <2>5, Ended, LockedStep DEF Done
<1> QED
  BY <1>2, <1>4, <1>5 DEF Placed

(* IInv is inductive. *)
LEMMA InvStep ==
  ASSUME Assumptions, IInv, [DeployNext]_deployVars
  PROVE  IInv'
<1> USE DeploymentTypeStep
<1>1. DeployTypeOK'
  OBVIOUS
<1>2. ASSUME NEW s \in Slot, Stage(s) PROVE IInv'
  <2>1. UNCHANGED <<current, st, deployLock, pc, call, hist>> /\ ready \subseteq ready'
    BY <1>2 DEF Stage
  <2>2. ASSUME NEW p \in Proc PROVE Sound(p)'
    <3>1. Sound(p)
      BY DEF IInv
    <3> QED
      BY <2>1, <3>1 DEF Sound, Held, Placed, ToSave, ToPoint, Known, hist
  <2> QED
    BY <1>1, <2>1, <2>2 DEF IInv, Histories, Known, hist
<1>3. ASSUME NEW p \in Proc, Stop(p) \/ (Abort /\ p = Dog) PROVE IInv'
  <2>1. Done(p, "idle") /\ UNCHANGED <<disk, hist>>
    BY <1>3 DEF Stop, Abort, Throw
  <2> QED
    BY <1>1, <2>1, Ended, QuietStep
<1>4. ASSUME UNCHANGED deployVars PROVE IInv'
  BY <1>1, <1>4 DEF IInv, Sound, Held, Placed, ToSave, ToPoint, Histories, Known, deployVars, disk, hist
<1>5. Dog \in Proc /\ User \subseteq Proc
  BY DEF Proc
<1>6. ASSUME DogStep PROVE IInv'
  BY <1>1, <1>5, <1>6, DogQuiet, LockStep, RecordStep, SaveStep, PointStep DEF DogStep
<1>7. ASSUME NEW u \in User, UserStep(u) PROVE IInv'
  BY <1>1, <1>5, <1>7, CallStep, LockStep, PersonComputes, SaveStep, PointStep DEF UserStep
<1>8. ASSUME Start PROVE IInv'
  BY <1>1, <1>8, DogQuiet
<1>9. ASSUME NEW u \in User,
             \/ \E s \in Slot : CallActivate(u, s)
             \/ \E e \in BOOLEAN, n \in Thresholds : CallConfigure(u, e, n)
             \/ CallRollback(u)
      PROVE  IInv'
  BY <1>1, <1>9, CallStep
<1> QED
  BY <1>2, <1>3, <1>4, <1>5, <1>6, <1>7, <1>8, <1>9 DEF DeployNext

(* What the two properties say follows from it. *)
LEMMA IInvSound ==
  ASSUME Assumptions, IInv
  PROVE  DeploymentsSound
<1>1. DeployInv
  BY DEF DeployInv, IInv, Sound, Held, ToSave, ToPoint, ReadIsCurrent, Known
<1>2. StableIsLastHealthy /\ NoFlapping
  BY DEF IInv, Histories, StableIsLastHealthy, NoFlapping
<1> QED
  BY <1>1, <1>2 DEF DeploymentsSound

(* Every step that changes the pointer is Point. *)
LEMMA PointMoves ==
  ASSUME [DeployNext]_deployVars, current' # current
  PROVE  \E p \in Proc : Point(p)
<1> USE DEF Throw, Done, disk, hist, deployVars
<1>1. ~UNCHANGED deployVars /\ ~Start /\ ~Abort
  BY DEF Start, Abort
<1>2. \A s \in Slot : ~Stage(s)
  BY DEF Stage
<1>3. \A u \in User : /\ \A s \in Slot : ~CallActivate(u, s)
                      /\ \A e \in BOOLEAN, n \in Thresholds : ~CallConfigure(u, e, n)
                      /\ ~CallRollback(u) /\ ~RollbackTarget(u) /\ ~Activate(u) /\ ~Configure(u)
  BY DEF CallActivate, CallConfigure, CallRollback, RollbackTarget, Activate, Configure
<1>4. \A p \in Proc : ~DeploymentLock(p) /\ ~RecordBoot(p) /\ ~Save(p) /\ ~Stop(p)
  BY DEF DeploymentLock, RecordBoot, Save, Stop
<1>5. ~Loop /\ ~Stopped /\ ~Recorded /\ \A ok \in BOOLEAN : ~Boot(ok) /\ ~Monitor(ok)
  BY DEF Loop, Stopped, Recorded, Boot, Monitor
<1> QED
  BY <1>1, <1>2, <1>3, <1>4, <1>5 DEF DeployNext, UserStep, DogStep, Proc

LEMMA MovesStep ==
  ASSUME Assumptions, IInv, [DeployNext]_deployVars
  PROVE  FallbackIsKept /\ RollsBackEarned
<1>1. SUFFICES ASSUME current' # current
               PROVE  FallbackIsKept /\ RollsBackEarned
  BY DEF FallbackIsKept, RollsBackEarned, DogMoves
<1>2. PICK p \in Proc : Point(p)
  BY <1>1, PointMoves
<1>3. Sound(p) /\ pc[p] = "point" /\ deployLock = p
  BY <1>2 DEF IInv, Point, Sound, Held, UnderLock
<1>4. \A q \in Proc : q # p => pc[q] # "point"
  BY <1>3 DEF IInv, Sound, Held, UnderLock
<1>5. FallbackIsKept
  <2>1. SUFFICES ASSUME NEW u \in User, pc[u] = "point" PROVE st.previous = current
    BY DEF FallbackIsKept, PersonMoves
  <2>2. u = p
    BY <1>4, <2>1 DEF Proc
  <2> QED
    BY <1>3, <2>1, <2>2 DEF Sound, Placed, ToPoint
<1>6. RollsBackEarned
  <2>1. SUFFICES ASSUME pc[Dog] = "point" PROVE streak >= st.threshold \/ rolled
    BY DEF RollsBackEarned, DogMoves
  <2>2. Dog = p
    BY <1>4, <2>1 DEF Proc
  <2> QED
    BY <1>3, <2>1, <2>2 DEF Sound, Placed, ToPoint
<1> QED
  BY <1>5, <1>6

-----------------------------------------------------------------------------
(* However people's calls, the watchdog and their deaths interleave, the   *)
(* pointer and what is kept to fall back to stay verified slots, a call    *)
(* under the lock saves and moves on what is still so, a healthy start is  *)
(* not undone by an older copy of the state, and switching the guard on    *)
(* is good for one automatic rollback.                                     *)
THEOREM Deployments ==
  ASSUME Assumptions
  PROVE  DeploySpec => []DeploymentsSound
<1>1. DeployInit => IInv
  BY InitIInv
<1>2. IInv /\ [DeployNext]_deployVars => IInv'
  BY InvStep
<1>3. IInv => DeploymentsSound
  BY IInvSound
<1> QED
  BY <1>1, <1>2, <1>3, PTL DEF DeploySpec

(* The pointer moves to an activated deployment only when the one it       *)
(* leaves is on disk as the previous one, and the watchdog moves it only   *)
(* after `threshold` failures in a row or after an earlier rollback.       *)
THEOREM MovesAreRecorded ==
  ASSUME Assumptions
  PROVE  DeploySpec => MovesRecorded
<1>1. DeployInit => IInv
  BY InitIInv
<1>2. IInv /\ [DeployNext]_deployVars => IInv'
  BY InvStep
<1>3. IInv /\ [DeployNext]_deployVars => [FallbackIsKept /\ RollsBackEarned]_deployVars
  BY MovesStep
<1> QED
  BY <1>1, <1>2, <1>3, PTL DEF DeploySpec, MovesRecorded

----------------------------------------------------------------------------
(***************************************************************************)
(* Proofs about Jobs: for any servers, sources, jobs and failing writes,   *)
(* JobsSound. None of its parts is inductive. JobFits says of one job what *)
(* its record on disk and in memory may hold where it stands, and that a   *)
(* job which may still run keeps both; Queued, that the queues hold each   *)
(* queued job once; OneActive and LockHeld, that what a server has taken   *)
(* off a queue is alone on its source and holds the lock there while it    *)
(* runs; Apart, that it found no unfinished transaction there. They are    *)
(* operators, since an action may end in a dispatch on what it has         *)
(* changed.                                                                *)
(***************************************************************************)

Live == {"queued", "entering", "running", "throwing", "finishing"}
Active == Live \ {"queued"}
InRunner == {"running", "throwing"}

RecordFits(r, res, t) ==
  r # Null =>
    /\ r.linked => t # "none"
    /\ r.status = "ok" => res = "ok" \/ t = "committed"
    /\ r.status = "fail" => res = "fail"
    /\ r.done => r.status \notin {"queued", "running"}

JobFits(o, m, d, now, res, n, t) ==
  /\ o = Null <=> now = "unborn"
  /\ o = Null => m = Null /\ d = Null
  /\ now \in Live =>
       /\ o.owner \in servers
       /\ m # Null /\ m.status = (IF now = "queued" THEN "queued" ELSE "running")
       /\ d # Null /\ d.status \in {"queued", "running"}
  /\ now \in {"unborn", "queued", "entering"} => n = 0 /\ t = "none"
  /\ n <= 1
  /\ res # "none" => now \in {"finishing", "over", "dead"}
  /\ now = "finishing" => res # "none"
  /\ res = "fail" => t = "none"
  /\ RecordFits(m, res, t) /\ RecordFits(d, res, t)

AllFit(jobs, m, d, now) ==
  \A j \in Job : JobFits(jobs[j], m[j], d[j], now[j], result[j], runs[j], tx[j])

Queued(jobs, now, s, q) ==
  /\ q \in Seq(Job)
  /\ \A a, b \in DOMAIN q : q[a] = q[b] => a = b
  /\ \A j \in Job :
       (\E i \in DOMAIN q : q[i] = j)
       <=> jobs[j] # Null /\ jobs[j].owner = s /\ now[j] = "queued"

OneActive(jobs, now) ==
  \A j, k \in Job :
    jobs[j] # Null /\ jobs[j] = jobs[k] /\ now[j] \in Active /\ now[k] \in Active => j = k

LockHeld(jobs, now) ==
  \A j \in Job : now[j] \in InRunner => sourceLock[jobs[j].source] = jobs[j].owner

Apart(jobs, now) ==
  \A j, k \in Job :
    /\ j # k /\ now[j] \in InRunner /\ jobs[k] # Null
    /\ jobs[j].source = jobs[k].source
    => ~Unsettled(k)

JobsInv ==
  /\ JobsTypeOK
  /\ AllFit(job, mem, jobFiles, step)
  /\ \A s \in JobServer : Queued(job, step, s, pending[s])
  /\ OneActive(job, step) /\ LockHeld(job, step) /\ Apart(job, step)

----------------------------------------------------------------------------
(* What is left of a queue. *)

(* A set of numbers has a least one: the induction of what follows.        *)
LEMMA LeastNumber ==
  ASSUME NEW T \in SUBSET Nat, T # {}
  PROVE  \E m \in T : \A k \in T : m <= k
<1> DEFINE R == {ss \in Nat \X Nat : ss[1] < ss[2]}
<1>1. IsWellFoundedOn(R, Nat)
  BY NatLessThanWellFounded DEF OpToRel
<1>2. \E m \in T : \A k \in T : ~(<<k, m>> \in R)
  <2> HIDE DEF R
  <2>. QED
    BY <1>1, WFMin
<1>3. ASSUME NEW m \in T, NEW k \in T, k < m PROVE <<k, m>> \in R
  BY <1>3
<1> HIDE DEF R
<1>4. PICK m \in T : \A k \in T : ~(<<k, m>> \in R)
  BY <1>2
<1>5. ASSUME NEW k \in T PROVE m <= k
  <2>1. ~(k < m)
    BY <1>3, <1>4
  <2>. QED
    BY <2>1
<1>. QED
  BY <1>5

(* F is the function that Remaining defines, up to m.                      *)
Leaves(F, q, taken, m) ==
  F = [n \in 0 .. m |->
         IF n = 0 THEN <<>>
         ELSE IF q[n] \in taken THEN F[n - 1] ELSE Append(F[n - 1], q[n])]

LEMMA LeavesExists ==
  ASSUME NEW q, NEW taken, NEW m \in Nat
  PROVE  \E F : Leaves(F, q, taken, m)
<1> DEFINE Bad == {n \in Nat : ~\E F : Leaves(F, q, taken, n)}
<1> SUFFICES ASSUME Bad # {} PROVE FALSE
  OBVIOUS
<1>1. PICK n \in Bad : \A k \in Bad : n <= k
  <2>1. Bad \in SUBSET Nat
    OBVIOUS
  <2> HIDE DEF Bad
  <2>. QED
    BY <2>1, LeastNumber
<1>2. CASE n = 0
  <2> DEFINE F == [i \in 0 .. 0 |-> <<>>]
  <2>1. Leaves(F, q, taken, 0)
    BY DEF Leaves
  <2>. QED
    BY <1>2, <2>1
<1>3. CASE n # 0
  <2>1. n - 1 \in Nat /\ n - 1 \notin Bad
    BY <1>1, <1>3
  <2>2. PICK F : Leaves(F, q, taken, n - 1)
    BY <2>1
  <2> DEFINE last == IF q[n] \in taken THEN F[n - 1] ELSE Append(F[n - 1], q[n])
             G == [i \in 0 .. n |-> IF i = n THEN last ELSE F[i]]
  <2>3. \A i \in 0 .. n - 1 : G[i] = F[i]
    BY <2>1
  <2>4. ASSUME NEW i \in 0 .. n
        PROVE  G[i] = IF i = 0 THEN <<>>
                      ELSE IF q[i] \in taken THEN G[i - 1] ELSE Append(G[i - 1], q[i])
    <3>1. CASE i = n
      <4>1. G[i] = last /\ G[i - 1] = F[n - 1]
        BY <1>3, <2>1, <2>3, <3>1
      <4> HIDE DEF G
      <4>. QED
        BY <1>3, <3>1, <4>1
    <3>2. CASE i # n
      <4>1. i \in 0 .. n - 1 /\ G[i] = F[i] /\ (i # 0 => G[i - 1] = F[i - 1])
        BY <2>1, <2>3, <3>2
      <4>2. F[i] = IF i = 0 THEN <<>>
                   ELSE IF q[i] \in taken THEN F[i - 1] ELSE Append(F[i - 1], q[i])
        <5> HIDE DEF G, last
        <5>. QED
          BY <2>2, <4>1 DEF Leaves
      <4> HIDE DEF G, last
      <4>. QED
        BY <4>1, <4>2
    <3>. QED
      BY <3>1, <3>2
  <2>5. G = [i \in 0 .. n |-> G[i]]
    OBVIOUS
  <2> HIDE DEF G
  <2>6. Leaves(G, q, taken, n)
    BY <2>4, <2>5 DEF Leaves
  <2>. QED
    BY <2>6
<1>. QED
  BY <1>2, <1>3

(* No job twice, and those that were not taken.                            *)
LEMMA RemainingLeft ==
  ASSUME NEW q \in Seq(Job), NEW taken, \A a, b \in DOMAIN q : q[a] = q[b] => a = b
  PROVE  LET r == Remaining(q, taken) IN
         /\ r \in Seq(Job)
         /\ \A a, b \in DOMAIN r : r[a] = r[b] => a = b
         /\ \A j : (\E i \in DOMAIN r : r[i] = j)
                  <=> j \notin taken /\ \E i \in DOMAIN q : q[i] = j
<1> DEFINE F == CHOOSE f : Leaves(f, q, taken, Len(q))
<1>1. Remaining(q, taken) = F[Len(q)]
  BY Zenon DEF Remaining, Leaves
<1>2. Leaves(F, q, taken, Len(q))
  <2>1. \E f : Leaves(f, q, taken, Len(q))
    <3>1. Len(q) \in Nat
      OBVIOUS
    <3>. QED
      BY <3>1, LeavesExists
  <2>. QED
    BY Zenon, <2>1
<1> HIDE DEF F
<1>3. \A n \in 0 .. Len(q) :
        F[n] = IF n = 0 THEN <<>>
               ELSE IF q[n] \in taken THEN F[n - 1] ELSE Append(F[n - 1], q[n])
  BY <1>2 DEF Leaves
<1> DEFINE Good(n) ==
      /\ F[n] \in Seq(Job)
      /\ \A a, b \in DOMAIN F[n] : F[n][a] = F[n][b] => a = b
      /\ \A j : (\E i \in DOMAIN F[n] : F[n][i] = j)
               <=> j \notin taken /\ \E i \in 1 .. n : q[i] = j
<1>4. Good(0)
  <2>1. F[0] = <<>>
    <3>1. 0 \in 0 .. Len(q)
      OBVIOUS
    <3>. QED
      BY <1>3, <3>1
  <2>2. F[0] \in Seq(Job) /\ DOMAIN F[0] = {}
    BY <2>1
  <2>3. ~\E i \in 1 .. 0 : TRUE
    OBVIOUS
  <2>. QED
    BY <2>2, <2>3
<1>5. ASSUME NEW n \in 1 .. Len(q), Good(n - 1) PROVE Good(n)
  <2> DEFINE r == F[n - 1]
  <2>1. /\ r \in Seq(Job) /\ \A a, b \in DOMAIN r : r[a] = r[b] => a = b
        /\ \A j : (\E i \in DOMAIN r : r[i] = j)
                 <=> j \notin taken /\ \E i \in 1 .. n - 1 : q[i] = j
    BY <1>5
  <2>2. n \in 0 .. Len(q) /\ n # 0 /\ n \in DOMAIN q /\ q[n] \in Job
    OBVIOUS
  <2>3. F[n] = IF q[n] \in taken THEN r ELSE Append(r, q[n])
    BY <1>3, <2>2
  <2>4. \A j : (\E i \in 1 .. n : q[i] = j) <=> j = q[n] \/ \E i \in 1 .. n - 1 : q[i] = j
    <3>1. \A i \in Nat : i \in 1 .. n <=> i = n \/ i \in 1 .. n - 1
      BY <2>2
    <3>2. 1 .. n \subseteq Nat /\ 1 .. n - 1 \subseteq Nat /\ n \in Nat
      OBVIOUS
    <3> HIDE DEF r
    <3>. QED
      BY <3>1, <3>2
  <2>5. CASE q[n] \in taken
    <3>1. F[n] = r
      BY <2>3, <2>5
    <3>2. \A j : (j \notin taken /\ \E i \in 1 .. n : q[i] = j)
               <=> (j \notin taken /\ \E i \in 1 .. n - 1 : q[i] = j)
      BY <2>4, <2>5
    <3> HIDE DEF r
    <3>. QED
      BY <2>1, <3>1, <3>2
  <2>6. CASE q[n] \notin taken
    <3>1. F[n] = Append(r, q[n])
      BY <2>3, <2>6
    <3>2. \A i \in DOMAIN r : r[i] # q[n]
      <4> SUFFICES ASSUME NEW i \in DOMAIN r, r[i] = q[n] PROVE FALSE
        OBVIOUS
      <4>1. PICK k \in 1 .. n - 1 : q[k] = q[n]
        BY <2>1
      <4>2. k \in DOMAIN q /\ k # n
        BY <2>2
      <4>. QED
        BY <2>2, <4>1, <4>2
    <3> HIDE DEF r
    <3>3. /\ F[n] \in Seq(Job) /\ DOMAIN F[n] = 1 .. Len(r) + 1
          /\ DOMAIN r = 1 .. Len(r) /\ Len(r) \in Nat
          /\ F[n][Len(r) + 1] = q[n] /\ \A i \in 1 .. Len(r) : F[n][i] = r[i]
      BY <2>1, <2>2, <3>1
    <3>4. \A i : i \in DOMAIN F[n] <=> i = Len(r) + 1 \/ i \in DOMAIN r
      BY <3>3
    <3>5. \A a, b \in DOMAIN F[n] : F[n][a] = F[n][b] => a = b
      BY <2>1, <3>2, <3>3, <3>4
    <3>6. \A j : (\E i \in DOMAIN F[n] : F[n][i] = j)
                <=> j = q[n] \/ \E i \in DOMAIN r : r[i] = j
      BY <3>3, <3>4
    <3>7. \A j : (\E i \in DOMAIN F[n] : F[n][i] = j)
                <=> j \notin taken /\ \E i \in 1 .. n : q[i] = j
      BY <2>1, <2>4, <2>6, <3>6
    <3>. QED
      BY <3>3, <3>5, <3>7
  <2>. QED
    BY <2>5, <2>6
<1> HIDE DEF Good
<1>6. Good(Len(q))
  <2> DEFINE Bad == {n \in 0 .. Len(q) : ~Good(n)}
  <2> SUFFICES ASSUME Bad # {} PROVE FALSE
    OBVIOUS
  <2>1. Bad \in SUBSET Nat
    <3>1. 0 .. Len(q) \subseteq Nat
      OBVIOUS
    <3>. QED
      BY <3>1
  <2>2. PICK n \in Bad : \A k \in Bad : n <= k
    <3> HIDE DEF Bad
    <3>. QED
      BY <2>1, LeastNumber
  <2>3. n \in 0 .. Len(q) /\ ~Good(n)
    BY <2>2
  <2>4. n # 0
    BY <1>4, <2>3
  <2>5. n - 1 \in 0 .. Len(q) /\ n - 1 \notin Bad
    BY <2>2, <2>3, <2>4
  <2>6. Good(n - 1)
    BY <2>5
  <2> HIDE DEF Bad
  <2>. QED
    BY <1>5, <2>3, <2>4, <2>6
<1>7. Len(q) \in 0 .. Len(q)
  OBVIOUS
<1>. QED
  BY <1>1, <1>6, <1>7 DEF Good

----------------------------------------------------------------------------
(* Dispatch, on a state its block has changed. *)

Records == [Job -> JobRecord \cup {Null}]

LEMMA RecordUpdates ==
  ASSUME NEW r \in JobRecord
  PROVE  /\ r # Null
         /\ \A x \in Status : LET u == [r EXCEPT !.status = x] IN
              /\ u \in JobRecord /\ u.status = x /\ u.phase = r.phase
              /\ u.linked = r.linked /\ u.done = r.done
         /\ LET u == [r EXCEPT !.linked = TRUE] IN
              /\ u \in JobRecord /\ u.status = r.status /\ u.linked = TRUE /\ u.done = r.done
         /\ LET u == [r EXCEPT !.done = TRUE] IN
              /\ u \in JobRecord /\ u.status = r.status /\ u.linked = r.linked /\ u.done = TRUE
         /\ \A x \in Phase : LET u == [r EXCEPT !.phase = x] IN
              /\ u \in JobRecord /\ u.status = r.status /\ u.linked = r.linked
              /\ u.done = r.done
BY JobsAssumption DEF JobRecord

LEMMA OwnedFields ==
  /\ \A o \in Owned : o # Null /\ o.owner \in JobServer /\ o.source \in Source
  /\ \A o, p \in Owned : o = p <=> o.owner = p.owner /\ o.source = p.source
BY JobsAssumption DEF Owned

(* The jobs that a pass takes off the queue: each is alone on its source.  *)
Takes(s, jobs, m, now, taken) ==
  /\ taken \subseteq Job
  /\ \A j \in taken :
       jobs[j] # Null /\ jobs[j].owner = s /\ now[j] = "queued" /\ ~Runs(jobs, m, s, jobs[j].source)
  /\ \A j, k \in taken : jobs[j].source = jobs[k].source => j = k

DispatchResult(s, m, d, q, now, taken) ==
  /\ mem' \in Records /\ jobFiles' \in Records /\ step' \in [Job -> Steps]
  /\ \A j \in Job \ taken : mem'[j] = m[j] /\ jobFiles'[j] = d[j] /\ step'[j] = now[j]
  /\ \A j \in taken :
       /\ mem'[j] = [m[j] EXCEPT !.status = "running"]
       /\ jobFiles'[j] \in {d[j], mem'[j]} /\ step'[j] \in {"entering", "stuck"}
  /\ pending' = [pending EXCEPT ![s] = Remaining(q, taken)]

LEMMA DispatchDoes ==
  ASSUME NEW s \in JobServer, NEW jobs \in [Job -> Owned \cup {Null}], NEW m \in Records,
         NEW d \in Records, NEW now \in [Job -> Steps], NEW q, NEW bad,
         bad \in {0} \cup Startable(jobs, m, s, q),
         Queued(jobs, now, s, q), AllFit(jobs, m, d, now), Dispatch(s, jobs, m, d, q, now, bad)
  PROVE  \E taken : Takes(s, jobs, m, now, taken) /\ DispatchResult(s, m, d, q, now, taken)
<1> DEFINE started == {q[i] : i \in {k \in Startable(jobs, m, s, q) : bad = 0 \/ k < bad}}
           taken == started \cup IF bad = 0 THEN {} ELSE {q[bad]}
           marked == [j \in Job |-> IF j \in taken
                                    THEN [m[j] EXCEPT !.status = "running"] ELSE m[j]]
           saved == [j \in Job |-> IF j \in started THEN marked[j] ELSE d[j]]
<1>1. /\ mem' = marked
      /\ jobFiles' \in IF bad = 0 THEN {saved} ELSE Torn(saved, q[bad], marked[q[bad]])
      /\ pending' = [pending EXCEPT ![s] = Remaining(q, taken)]
      /\ step' = [j \in Job |-> CASE j \in started -> "entering"
                                  [] j \in taken \ started -> "stuck"
                                  [] OTHER -> now[j]]
  BY DEF Dispatch
<1>2. \A j \in taken : \E i \in Startable(jobs, m, s, q) : q[i] = j
  OBVIOUS
<1>3. q \in Seq(Job) /\ \A i \in DOMAIN q : q[i] \in Job
  BY DEF Queued
<1>4. Takes(s, jobs, m, now, taken)
  <2>1. \A i \in Startable(jobs, m, s, q) :
          /\ i \in DOMAIN q /\ i \in Nat /\ q[i] \in Job /\ ~Runs(jobs, m, s, jobs[q[i]].source)
          /\ \A h \in 1 .. i - 1 : jobs[q[h]].source # jobs[q[i]].source
          /\ jobs[q[i]] # Null /\ jobs[q[i]].owner = s /\ now[q[i]] = "queued"
    BY <1>3 DEF Startable, Queued
  <2>2. ASSUME NEW a \in Startable(jobs, m, s, q), NEW b \in Startable(jobs, m, s, q),
               jobs[q[a]].source = jobs[q[b]].source
        PROVE  a = b
    <3>1. a \in Nat /\ b \in Nat /\ a \in 1 .. Len(q) /\ b \in 1 .. Len(q)
      BY <1>3, <2>1
    <3>2. ~(a < b)
      <4>1. a < b => a \in 1 .. b - 1
        BY <3>1
      <4>. QED
        BY <2>1, <2>2, <4>1
    <3>3. ~(b < a)
      <4>1. b < a => b \in 1 .. a - 1
        BY <3>1
      <4>. QED
        BY <2>1, <2>2, <4>1
    <3>. QED
      BY <3>1, <3>2, <3>3
  <2> HIDE DEF taken, marked, saved
  <2>. QED
    BY <1>2, <2>1, <2>2 DEF Takes
<1>5. \A j \in taken : m[j] \in JobRecord
  <2> HIDE DEF taken
  <2>. QED
    BY <1>4 DEF Takes, AllFit, JobFits, Live, Records
<1>6. started \subseteq taken /\ (bad # 0 => taken = started \cup {q[bad]})
      /\ (bad = 0 => taken = started)
  OBVIOUS
<1>7. taken \subseteq Job
  BY <1>4 DEF Takes
<1> HIDE DEF started, taken
<1>8. marked \in Records /\ saved \in Records
  <2>1. \A j \in Job : marked[j] \in JobRecord \cup {Null}
    BY <1>5, RecordUpdates DEF Records, Status
  <2>. QED
    BY <2>1 DEF Records
<1>9. DispatchResult(s, m, d, q, now, taken)
  <2>1. \A j \in Job : mem'[j] = IF j \in taken THEN [m[j] EXCEPT !.status = "running"] ELSE m[j]
    BY <1>1
  <2>2. step' \in [Job -> Steps]
        /\ \A j \in Job : step'[j] = IF j \in started THEN "entering"
                                     ELSE IF j \in taken THEN "stuck" ELSE now[j]
    BY <1>1, <1>6 DEF Steps
  <2>3. jobFiles' \in Records
        /\ \A j \in Job : /\ j \notin taken => jobFiles'[j] = d[j]
                          /\ j \in taken => jobFiles'[j] \in {d[j], marked[j]}
    <3>1. \A j \in Job : saved[j] = IF j \in started THEN marked[j] ELSE d[j]
      OBVIOUS
    <3>2. CASE bad = 0
      BY <1>1, <1>6, <1>8, <3>1, <3>2
    <3>3. CASE bad # 0
      <4>1. q[bad] \in taken /\ q[bad] \in Job
        BY <1>6, <1>7, <3>3
      <4>2. jobFiles' \in {saved, [saved EXCEPT ![q[bad]] = marked[q[bad]]]}
        BY <1>1, <3>3 DEF Torn
      <4>3. marked[q[bad]] \in JobRecord \cup {Null}
        BY <1>8, <4>1 DEF Records
      <4> HIDE DEF saved, marked
      <4>. QED
        BY <1>6, <1>8, <3>1, <4>1, <4>2, <4>3 DEF Records
    <3>. QED
      BY <3>2, <3>3
  <2>4. mem' = marked /\ mem' \in Records
    BY <1>1, <1>8
  <2> HIDE DEF saved, marked
  <2>. QED
    BY <1>1, <1>6, <1>7, <2>1, <2>2, <2>3, <2>4 DEF DispatchResult
<1>. QED
  BY <1>4, <1>9

LEMMA DispatchKeeps ==
  ASSUME JobsTypeOK,
         NEW s \in JobServer, NEW jobs \in [Job -> Owned \cup {Null}], NEW m \in Records,
         NEW d \in Records, NEW now \in [Job -> Steps], NEW q, NEW bad, NEW used,
         bad \in DispatchOutcomes(s, jobs, m, q, used), used \in 0 .. MaxBadWrites,
         AllFit(jobs, m, d, now), Queued(jobs, now, s, q),
         \A z \in JobServer \ {s} : Queued(jobs, now, z, pending[z]),
         OneActive(jobs, now), LockHeld(jobs, now), Apart(jobs, now),
         Dispatch(s, jobs, m, d, q, now, bad), job' = jobs, timers' \subseteq Job,
         badWrites' = used + Cost(bad), UNCHANGED <<servers, result, runs, sourceLock, tx>>
  PROVE  JobsInv'
<1>1. bad \in {0} \cup Startable(jobs, m, s, q)
  BY DEF DispatchOutcomes
<1>2. PICK taken : Takes(s, jobs, m, now, taken) /\ DispatchResult(s, m, d, q, now, taken)
  BY <1>1, DispatchDoes
<1>3. badWrites' \in 0 .. MaxBadWrites
  BY JobsAssumption DEF DispatchOutcomes, Cost
<1>4. \A j \in taken :
        /\ j \in Job /\ jobs[j] # Null /\ jobs[j].owner = s /\ now[j] = "queued"
        /\ ~Runs(jobs, m, s, jobs[j].source)
  BY <1>2 DEF Takes
<1>5. \A j \in Job \ taken : mem'[j] = m[j] /\ jobFiles'[j] = d[j] /\ step'[j] = now[j]
  BY <1>2 DEF DispatchResult
<1>6. \A j \in taken :
        /\ mem'[j] = [m[j] EXCEPT !.status = "running"]
        /\ jobFiles'[j] \in {d[j], mem'[j]} /\ step'[j] \in {"entering", "stuck"}
  BY <1>2 DEF DispatchResult
<1>7. pending' \in [JobServer -> Seq(Job)] /\ pending'[s] = Remaining(q, taken)
      /\ \A z \in JobServer \ {s} : pending'[z] = pending[z]
  <2>1. Remaining(q, taken) \in Seq(Job)
    BY RemainingLeft DEF Queued
  <2>. QED
    BY <1>2, <2>1 DEF DispatchResult, JobsTypeOK
<1>8. JobsTypeOK'
  BY <1>2, <1>3, <1>7 DEF JobsTypeOK, DispatchResult, Records
<1>9. AllFit(job, mem, jobFiles, step)'
  <2> SUFFICES ASSUME NEW j \in Job
               PROVE  JobFits(job[j], mem[j], jobFiles[j], step[j], result[j], runs[j], tx[j])'
    BY DEF AllFit
  <2>1. JobFits(jobs[j], m[j], d[j], now[j], result[j], runs[j], tx[j])
    BY DEF AllFit
  <2>2. CASE j \notin taken
    BY <1>5, <2>1, <2>2 DEF JobFits
  <2>3. CASE j \in taken
    <3>1. /\ m[j] \in JobRecord /\ m[j] # Null /\ m[j].status = "queued" /\ now[j] = "queued"
          /\ d[j] # Null /\ d[j].status \in {"queued", "running"}
      BY <1>4, <2>1, <2>3 DEF JobFits, Live, Records
    <3>2. /\ mem'[j] # Null /\ mem'[j].status = "running"
          /\ mem'[j].linked = m[j].linked /\ mem'[j].done = m[j].done
      <4> DEFINE u == [m[j] EXCEPT !.status = "running"]
      <4>1. u \in JobRecord /\ u.status = "running" /\ u.linked = m[j].linked
            /\ u.done = m[j].done /\ u # Null
        BY <3>1, JobsAssumption DEF JobRecord, Status
      <4>2. mem'[j] = u
        BY <1>6, <2>3
      <4> HIDE DEF u
      <4>. QED
        BY <4>1, <4>2
    <3>3. RecordFits(mem'[j], result[j], tx[j]) /\ RecordFits(jobFiles'[j], result[j], tx[j])
      BY <1>6, <2>1, <2>3, <3>1, <3>2 DEF JobFits, RecordFits
    <3>4. jobFiles'[j] # Null /\ jobFiles'[j].status \in {"queued", "running"}
      BY <1>6, <2>3, <3>1, <3>2
    <3>. QED
      BY <1>4, <1>6, <2>1, <2>3, <3>1, <3>2, <3>3, <3>4 DEF JobFits, Live
  <2>. QED
    BY <2>2, <2>3
<1>10. ASSUME NEW z \in JobServer PROVE Queued(job, step, z, pending[z])'
  <2>1. CASE z = s
    <3> DEFINE r == Remaining(q, taken)
    <3>1. /\ r \in Seq(Job) /\ \A a, b \in DOMAIN r : r[a] = r[b] => a = b
          /\ \A j : (\E i \in DOMAIN r : r[i] = j)
                  <=> j \notin taken /\ \E i \in DOMAIN q : q[i] = j
      BY RemainingLeft DEF Queued
    <3>2. \A j \in Job : (\E i \in DOMAIN q : q[i] = j)
                         <=> jobs[j] # Null /\ jobs[j].owner = s /\ now[j] = "queued"
      BY DEF Queued
    <3>3. \A j \in Job : step'[j] = "queued" <=> j \notin taken /\ now[j] = "queued"
      BY <1>5, <1>6
    <3> HIDE DEF r
    <3>4. pending'[z] = r
      BY <1>7, <2>1 DEF r
    <3>5. \A j \in Job : (\E i \in DOMAIN r : r[i] = j)
                         <=> jobs[j] # Null /\ jobs[j].owner = s /\ step'[j] = "queued"
      BY <3>1, <3>2, <3>3
    <3>. QED
      BY <2>1, <3>1, <3>4, <3>5 DEF Queued
  <2>2. CASE z # s
    <3>1. Queued(jobs, now, z, pending[z]) /\ pending'[z] = pending[z]
      BY <1>7, <2>2
    <3>2. \A j \in Job : jobs[j].owner = z => step'[j] = now[j]
      BY <1>4, <1>5, <2>2
    <3>. QED
      BY <3>1, <3>2 DEF Queued
  <2>. QED
    BY <2>1, <2>2
<1>11. \A j \in Job : step'[j] \in InRunner <=> now[j] \in InRunner
  BY <1>4, <1>5, <1>6 DEF InRunner
<1>12. OneActive(job, step)'
  <2> SUFFICES ASSUME NEW j \in Job, NEW k \in Job, jobs[j] # Null, jobs[j] = jobs[k],
                      step'[j] \in Active, step'[k] \in Active
               PROVE  j = k
    BY DEF OneActive
  <2>1. ASSUME NEW a \in taken, NEW b \in Job \ taken, jobs[a] = jobs[b], now[b] \in Active
        PROVE  FALSE
    <3>1. m[b] # Null /\ m[b].status = "running"
      BY <2>1 DEF AllFit, JobFits, Active, Live
    <3>2. Runs(jobs, m, s, jobs[a].source)
      BY <1>4, <2>1, <3>1 DEF Runs
    <3>. QED
      BY <1>4, <3>2
  <2>2. CASE j \in taken /\ k \in taken
    BY <1>2, <2>2 DEF Takes
  <2>3. CASE j \in taken /\ k \notin taken
    BY <1>5, <2>1, <2>3
  <2>4. CASE j \notin taken /\ k \in taken
    BY <1>5, <2>1, <2>4
  <2>5. CASE j \notin taken /\ k \notin taken
    BY <1>5, <2>5 DEF OneActive
  <2>. QED
    BY <2>2, <2>3, <2>4, <2>5
<1>13. LockHeld(job, step)' /\ Apart(job, step)'
  BY <1>11 DEF LockHeld, Apart, Unsettled
<1>. QED
  BY <1>8, <1>9, <1>10, <1>12, <1>13 DEF JobsInv

----------------------------------------------------------------------------
(* Who may run. *)

LEMMA JobFacts ==
  ASSUME JobsInv, NEW j \in Job
  PROVE  /\ JobFits(job[j], mem[j], jobFiles[j], step[j], result[j], runs[j], tx[j])
         /\ job[j] \in Owned \cup {Null} /\ mem[j] \in JobRecord \cup {Null}
         /\ jobFiles[j] \in JobRecord \cup {Null} /\ step[j] \in Steps
         /\ tx[j] \in Transaction /\ runs[j] \in Nat
BY DEF JobsInv, JobsTypeOK, AllFit

LEMMA LiveOwned ==
  ASSUME JobsInv, NEW j \in Job, step[j] \in Live
  PROVE  /\ job[j] \in Owned /\ job[j] # Null /\ job[j].owner \in servers
         /\ job[j].owner \in JobServer /\ job[j].source \in Source
         /\ mem[j] \in JobRecord /\ jobFiles[j] \in JobRecord
<1>1. job[j] # Null /\ mem[j] # Null /\ jobFiles[j] # Null
  BY JobFacts DEF JobFits, Live
<1>. QED
  BY <1>1, JobFacts, OwnedFields DEF JobFits

LEMMA OneRuns ==
  ASSUME JobsInv, NEW j \in Job, NEW k \in Job, step[j] \in InRunner, step[k] \in InRunner,
         job[j].source = job[k].source
  PROVE  j = k
<1>1. step[j] \in Live /\ step[k] \in Live /\ step[j] \in Active /\ step[k] \in Active
  BY DEF InRunner, Live, Active
<1>2. job[j] \in Owned /\ job[k] \in Owned /\ job[j] # Null
  BY <1>1, LiveOwned
<1>3. job[j].owner = job[k].owner
  BY DEF JobsInv, LockHeld
<1>4. job[j] = job[k]
  BY <1>2, <1>3, OwnedFields
<1>. QED
  BY <1>1, <1>2, <1>4 DEF JobsInv, OneActive

LEMMA FreeSource ==
  ASSUME JobsInv, NEW src \in Source, ~Contended(src) \/ sourceLock[src] = Cli,
         NEW k \in Job, step[k] \in InRunner
  PROVE  job[k].source # src
<1>1. step[k] \in Live
  BY DEF InRunner, Live
<1>2. job[k].owner \in servers /\ job[k].owner \in JobServer
  BY <1>1, LiveOwned
<1>3. sourceLock[job[k].source] = job[k].owner
  BY DEF JobsInv, LockHeld
<1>. QED
  BY <1>2, <1>3, JobsAssumption DEF Contended

(* A step of one job that is not about the queues.                         *)
Others(j) ==
  /\ \A k \in Job \ {j} :
       /\ mem'[k] = mem[k] /\ jobFiles'[k] = jobFiles[k] /\ step'[k] = step[k]
       /\ result'[k] = result[k] /\ runs'[k] = runs[k] /\ tx'[k] = tx[k]
  /\ UNCHANGED <<servers, job, pending, timers>>

Typed ==
  /\ mem' \in Records /\ jobFiles' \in Records /\ step' \in [Job -> Steps]
  /\ result' \in [Job -> {"none", "ok", "fail", "error"}] /\ runs' \in [Job -> Nat]
  /\ sourceLock' \in [Source -> JobServer \cup {Cli, Null}] /\ tx' \in [Job -> Transaction]
  /\ badWrites' \in 0 .. MaxBadWrites

Fits(j) == JobFits(job[j], mem[j], jobFiles[j], step[j], result[j], runs[j], tx[j])

LEMMA OneMoves ==
  ASSUME JobsInv, NEW j \in Job, Others(j), Typed, Fits(j)',
         step[j] = "queued" <=> step'[j] = "queued", step'[j] \in Active => step[j] \in Active,
         LockHeld(job, step)', Apart(job, step)'
  PROVE  JobsInv'
<1>1. JobsTypeOK'
  BY DEF JobsInv, JobsTypeOK, Typed, Others, Records
<1>2. AllFit(job, mem, jobFiles, step)'
  <2> SUFFICES ASSUME NEW k \in Job
               PROVE  JobFits(job[k], mem[k], jobFiles[k], step[k], result[k], runs[k], tx[k])'
    BY DEF AllFit
  <2>1. CASE k = j
    BY <2>1 DEF Fits
  <2>2. CASE k # j
    <3>1. JobFits(job[k], mem[k], jobFiles[k], step[k], result[k], runs[k], tx[k])
      BY JobFacts
    <3>. QED
      BY <2>2, <3>1 DEF Others, JobFits
  <2>. QED
    BY <2>1, <2>2
<1>3. \A k \in Job : /\ step'[k] = "queued" <=> step[k] = "queued"
                     /\ step'[k] \in Active => step[k] \in Active
  BY DEF Others
<1>4. \A s \in JobServer : Queued(job, step, s, pending[s])'
  BY <1>3 DEF JobsInv, Queued, Others
<1>5. OneActive(job, step)'
  BY <1>3 DEF JobsInv, OneActive, Others
<1>. QED
  BY <1>1, <1>2, <1>4, <1>5 DEF JobsInv

(* A runner goes on: it keeps the lock, and its source to itself.          *)
LEMMA RunnerKeeps ==
  ASSUME JobsInv, NEW j \in Job, Others(j), step[j] \in InRunner, sourceLock' = sourceLock
  PROVE  LockHeld(job, step)' /\ Apart(job, step)'
<1>1. \A k \in Job : step'[k] \in InRunner => step[k] \in InRunner
  BY DEF Others
<1>2. LockHeld(job, step)'
  BY <1>1 DEF JobsInv, LockHeld, Others
<1>3. ASSUME NEW a \in Job, NEW b \in Job, a # b, step'[a] \in InRunner, job[b] # Null,
             job[a].source = job[b].source
      PROVE  ~(tx'[b] \in {"open", "committing"})
  <2>1. b # j
    BY <1>1, <1>3, OneRuns
  <2>2. tx'[b] = tx[b]
    BY <2>1 DEF Others
  <2>. QED
    BY <1>1, <1>3, <2>2 DEF JobsInv, Apart, Unsettled
<1>. QED
  BY <1>2, <1>3 DEF Apart, Unsettled, Others

(* A lock is taken or given back where nothing else runs.                  *)
LEMMA LockMoves ==
  ASSUME JobsInv, NEW src \in Source, NEW o,
         sourceLock' = [sourceLock EXCEPT ![src] = o],
         NEW k \in Job, step[k] \in InRunner, job[k].source # src
  PROVE  sourceLock'[job[k].source] = job[k].owner
<1>1. sourceLock[job[k].source] = job[k].owner
  BY DEF JobsInv, LockHeld
<1>2. job[k].source \in Source
  BY LiveOwned DEF InRunner, Live
<1>. QED
  BY <1>1, <1>2 DEF JobsInv, JobsTypeOK

----------------------------------------------------------------------------
(* The actions: queueing. *)

LEMMA NewRecordFits ==
  /\ NewRecord \in JobRecord /\ NewRecord # Null /\ NewRecord.status = "queued"
  /\ ~NewRecord.linked /\ ~NewRecord.done
<1>1. NewRecord \in JobRecord
  BY DEF NewRecord, JobRecord, Status, Phase
<1>2. NewRecord # Null
  BY <1>1, JobsAssumption
<1>. QED
  BY <1>1, <1>2 DEF NewRecord

LEMMA StartJobStep ==
  ASSUME JobsInv, NEW s \in JobServer, NEW src \in Source, NEW j \in Job, NEW bad,
         StartJob(s, src, j, bad)
  PROVE  JobsInv'
<1> DEFINE o == [owner |-> s, source |-> src]
           jobs == [job EXCEPT ![j] = o]
           m == [mem EXCEPT ![j] = NewRecord]
           d == [jobFiles EXCEPT ![j] = NewRecord]
           now == [step EXCEPT ![j] = "queued"]
           q == Append(pending[s], j)
<1>1. /\ s \in servers /\ job[j] = Null /\ job' = jobs
      /\ bad \in DispatchOutcomes(s, jobs, m, q, badWrites)
      /\ Dispatch(s, jobs, m, d, q, now, bad) /\ badWrites' = badWrites + Cost(bad)
      /\ UNCHANGED <<servers, timers, result, runs, sourceLock, tx>>
  BY DEF StartJob
<1>2. o \in Owned /\ o # Null /\ o.owner = s /\ o.source = src
  BY JobsAssumption DEF Owned
<1> HIDE DEF o
<1>3. /\ jobs \in [Job -> Owned \cup {Null}] /\ m \in Records /\ d \in Records
      /\ now \in [Job -> Steps] /\ badWrites \in 0 .. MaxBadWrites /\ timers \subseteq Job
      /\ pending[s] \in Seq(Job)
  BY <1>2, NewRecordFits DEF JobsInv, JobsTypeOK, Records, Steps
<1>4. /\ jobs[j] = o /\ m[j] = NewRecord /\ d[j] = NewRecord /\ now[j] = "queued"
      /\ \A k \in Job \ {j} : jobs[k] = job[k] /\ m[k] = mem[k] /\ d[k] = jobFiles[k] /\ now[k] = step[k]
  BY DEF JobsInv, JobsTypeOK
<1> HIDE DEF jobs, m, d, now
<1>5. step[j] = "unborn" /\ tx[j] = "none" /\ runs[j] = 0 /\ result[j] = "none"
  BY <1>1, JobFacts DEF JobFits
<1>6. AllFit(jobs, m, d, now)
  <2>1. JobFits(jobs[j], m[j], d[j], now[j], result[j], runs[j], tx[j])
    BY <1>1, <1>2, <1>4, <1>5, NewRecordFits DEF JobFits, RecordFits, Live
  <2>2. \A k \in Job \ {j} : JobFits(jobs[k], m[k], d[k], now[k], result[k], runs[k], tx[k])
    BY <1>4, JobFacts
  <2>. QED
    BY <2>1, <2>2 DEF AllFit
<1>7. Queued(jobs, now, s, q)
  <2> DEFINE p == pending[s]
  <2>1. /\ p \in Seq(Job) /\ \A a, b \in DOMAIN p : p[a] = p[b] => a = b
        /\ \A k \in Job : (\E i \in DOMAIN p : p[i] = k)
                          <=> job[k] # Null /\ job[k].owner = s /\ step[k] = "queued"
    BY DEF JobsInv, Queued
  <2> HIDE DEF p
  <2>2. q = Append(p, j)
    BY DEF p
  <2>3. /\ q \in Seq(Job) /\ DOMAIN q = 1 .. Len(p) + 1 /\ DOMAIN p = 1 .. Len(p) /\ Len(p) \in Nat
        /\ q[Len(p) + 1] = j /\ \A i \in 1 .. Len(p) : q[i] = p[i]
    BY <2>1, <2>2
  <2> HIDE DEF q
  <2>4. \A i \in DOMAIN p : p[i] # j
    BY <1>1, <2>1
  <2>5. \A i : i \in DOMAIN q <=> i = Len(p) + 1 \/ i \in DOMAIN p
    BY <2>3
  <2>6. \A a, b \in DOMAIN q : q[a] = q[b] => a = b
    BY <2>1, <2>3, <2>4, <2>5
  <2>7. \A k : (\E i \in DOMAIN q : q[i] = k) <=> k = j \/ \E i \in DOMAIN p : p[i] = k
    BY <2>3, <2>5
  <2>8. \A k \in Job : (\E i \in DOMAIN q : q[i] = k)
                       <=> jobs[k] # Null /\ jobs[k].owner = s /\ now[k] = "queued"
    <3> SUFFICES ASSUME NEW k \in Job
                 PROVE  (\E i \in DOMAIN q : q[i] = k)
                        <=> jobs[k] # Null /\ jobs[k].owner = s /\ now[k] = "queued"
      OBVIOUS
    <3>1. CASE k = j
      BY <1>2, <1>4, <2>7, <3>1
    <3>2. CASE k # j
      <4>1. jobs[k] = job[k] /\ now[k] = step[k]
        BY <1>4, <3>2
      <4>. QED
        BY <2>1, <2>7, <3>2, <4>1
    <3>. QED
      BY <3>1, <3>2
  <2>. QED
    BY <2>3, <2>6, <2>8 DEF Queued
<1>8. \A z \in JobServer \ {s} : Queued(jobs, now, z, pending[z])
  BY <1>1, <1>2, <1>4 DEF JobsInv, Queued
<1>9. OneActive(jobs, now) /\ LockHeld(jobs, now) /\ Apart(jobs, now)
  BY <1>4, <1>5 DEF JobsInv, OneActive, LockHeld, Apart, Active, InRunner, Unsettled
<1> HIDE DEF q
<1>. QED
  BY <1>1, <1>3, <1>6, <1>7, <1>8, <1>9, DispatchKeeps DEF JobsInv

LEMMA StartJobFailsStep ==
  ASSUME JobsInv, NEW s \in JobServer, NEW src \in Source, NEW j \in Job, StartJobFails(s, src, j)
  PROVE  JobsInv'
<1> DEFINE o == [owner |-> s, source |-> src]
<1>1. /\ job[j] = Null /\ badWrites' \in 0 .. MaxBadWrites
      /\ UNCHANGED <<servers, mem, pending, timers, result, runs, sourceLock, tx>>
  BY JobsAssumption DEF StartJobFails, JobsInv, JobsTypeOK
<1>2. CASE UNCHANGED <<job, jobFiles, step>>
  BY <1>1, <1>2 DEF JobsInv, JobsTypeOK, AllFit, JobFits, Queued, OneActive, LockHeld, Apart, Unsettled
<1>3. CASE /\ job' = [job EXCEPT ![j] = o] /\ jobFiles' = [jobFiles EXCEPT ![j] = NewRecord]
           /\ step' = [step EXCEPT ![j] = "stuck"]
  <2>1. o \in Owned /\ o # Null /\ o.owner = s /\ o.source = src
    BY JobsAssumption DEF Owned
  <2> HIDE DEF o
  <2>2. JobsTypeOK'
    BY <1>1, <1>3, <2>1, NewRecordFits DEF JobsInv, JobsTypeOK, Steps
  <2>3. /\ job'[j] = o /\ jobFiles'[j] = NewRecord /\ step'[j] = "stuck"
        /\ \A k \in Job \ {j} : job'[k] = job[k] /\ jobFiles'[k] = jobFiles[k] /\ step'[k] = step[k]
    BY <1>3 DEF JobsInv, JobsTypeOK
  <2>4. step[j] = "unborn" /\ tx[j] = "none" /\ runs[j] = 0 /\ result[j] = "none" /\ mem[j] = Null
    BY <1>1, JobFacts DEF JobFits
  <2>5. AllFit(job, mem, jobFiles, step)'
    <3> SUFFICES ASSUME NEW k \in Job
                 PROVE  JobFits(job[k], mem[k], jobFiles[k], step[k], result[k], runs[k], tx[k])'
      BY DEF AllFit
    <3>1. CASE k = j
      BY <1>1, <2>1, <2>3, <2>4, <3>1, NewRecordFits DEF JobFits, RecordFits, Live
    <3>2. CASE k # j
      <4>1. JobFits(job[k], mem[k], jobFiles[k], step[k], result[k], runs[k], tx[k])
        BY JobFacts
      <4>. QED
        BY <1>1, <2>3, <3>2, <4>1 DEF JobFits
    <3>. QED
      BY <3>1, <3>2
  <2>6. \A z \in JobServer : Queued(job, step, z, pending[z])'
    BY <1>1, <2>3 DEF JobsInv, Queued
  <2>7. OneActive(job, step)' /\ LockHeld(job, step)' /\ Apart(job, step)'
    BY <1>1, <2>3, <2>4 DEF JobsInv, OneActive, LockHeld, Apart, Active, Live, InRunner, Unsettled
  <2>. QED
    BY <2>2, <2>5, <2>6, <2>7 DEF JobsInv
<1>. QED
  BY <1>2, <1>3 DEF StartJobFails

LEMMA TickStep ==
  ASSUME JobsInv, NEW j \in Born, Tick(j)
  PROVE  JobsInv'
<1> DEFINE s == job[j].owner
<1>1. PICK bad \in DispatchOutcomes(s, job, mem, pending[s], badWrites) :
        Dispatch(s, job, mem, jobFiles, pending[s], step, bad) /\ badWrites' = badWrites + Cost(bad)
  BY DEF Tick
<1>2. timers' = timers \ {j} /\ UNCHANGED <<servers, job, result, runs, sourceLock, tx>>
  BY DEF Tick
<1>3. s \in JobServer
  BY OwnedFields, JobFacts DEF Born
<1> HIDE DEF s
<1>4. /\ job \in [Job -> Owned \cup {Null}] /\ mem \in Records /\ jobFiles \in Records
      /\ step \in [Job -> Steps] /\ badWrites \in 0 .. MaxBadWrites /\ timers' \subseteq Job
  BY <1>2 DEF JobsInv, JobsTypeOK, Records
<1>. QED
  BY <1>1, <1>2, <1>3, <1>4, DispatchKeeps DEF JobsInv

LEMMA RequeueStep ==
  ASSUME JobsInv, NEW j \in Born, Requeue(j)
  PROVE  JobsInv'
<1> DEFINE s == job[j].owner
           r == [mem[j] EXCEPT !.status = "queued"]
           p == pending[s]
           q == Append(p, j)
<1>1. j \in Job /\ step[j] = "entering" /\ step[j] \in Live
  BY DEF Requeue, Entering, Born, Live
<1>2. job[j] # Null /\ s \in JobServer /\ s \in servers /\ mem[j] \in JobRecord
  BY <1>1, LiveOwned
<1>3. /\ mem' = [mem EXCEPT ![j] = r] /\ jobFiles' = [jobFiles EXCEPT ![j] = mem'[j]]
      /\ pending' = [pending EXCEPT ![s] = q] /\ timers' = timers \cup {j}
      /\ step' = [step EXCEPT ![j] = "queued"]
      /\ UNCHANGED <<servers, job, result, runs, sourceLock, tx, badWrites>>
  BY DEF Requeue, Armed
<1>4. r \in JobRecord /\ r # Null /\ r.status = "queued" /\ r.linked = mem[j].linked
      /\ r.done = mem[j].done
  BY <1>2, JobsAssumption DEF JobRecord, Status
<1>5. /\ p \in Seq(Job) /\ \A a, b \in DOMAIN p : p[a] = p[b] => a = b
      /\ \A k \in Job : (\E i \in DOMAIN p : p[i] = k)
                        <=> job[k] # Null /\ job[k].owner = s /\ step[k] = "queued"
  BY <1>2 DEF JobsInv, Queued
<1> HIDE DEF s, p, r
<1>6. /\ q \in Seq(Job) /\ DOMAIN q = 1 .. Len(p) + 1 /\ DOMAIN p = 1 .. Len(p) /\ Len(p) \in Nat
      /\ q[Len(p) + 1] = j /\ \A i \in 1 .. Len(p) : q[i] = p[i]
  BY <1>1, <1>5
<1> HIDE DEF q
<1>7. JobsTypeOK'
  BY <1>1, <1>2, <1>3, <1>4, <1>6 DEF JobsInv, JobsTypeOK, Steps
<1>8. /\ mem'[j] = r /\ jobFiles'[j] = r /\ step'[j] = "queued"
      /\ \A k \in Job \ {j} : mem'[k] = mem[k] /\ jobFiles'[k] = jobFiles[k] /\ step'[k] = step[k]
      /\ pending'[s] = q /\ \A z \in JobServer \ {s} : pending'[z] = pending[z]
  BY <1>1, <1>2, <1>3 DEF JobsInv, JobsTypeOK
<1>9. AllFit(job, mem, jobFiles, step)'
  <2> SUFFICES ASSUME NEW k \in Job
               PROVE  JobFits(job[k], mem[k], jobFiles[k], step[k], result[k], runs[k], tx[k])'
    BY DEF AllFit
  <2>1. JobFits(job[k], mem[k], jobFiles[k], step[k], result[k], runs[k], tx[k])
    BY JobFacts
  <2>2. CASE k = j
    <3>1. RecordFits(mem[j], result[j], tx[j]) /\ mem[j] # Null /\ mem[j].status = "running"
      BY <1>1, <2>1, <2>2 DEF JobFits
    <3>2. RecordFits(r, result[j], tx[j])
      BY <1>4, <3>1 DEF RecordFits
    <3>. QED
      BY <1>1, <1>2, <1>3, <1>4, <1>8, <2>1, <2>2, <3>2 DEF JobFits, Live
  <2>3. CASE k # j
    BY <1>3, <1>8, <2>1, <2>3 DEF JobFits
  <2>. QED
    BY <2>2, <2>3
<1>10. Queued(job, step, s, pending[s])'
  <2>1. \A i \in DOMAIN p : p[i] # j
    BY <1>1, <1>5
  <2>2. \A i : i \in DOMAIN q <=> i = Len(p) + 1 \/ i \in DOMAIN p
    BY <1>6
  <2>3. \A a, b \in DOMAIN q : q[a] = q[b] => a = b
    BY <1>5, <1>6, <2>1, <2>2
  <2>4. \A k : (\E i \in DOMAIN q : q[i] = k) <=> k = j \/ \E i \in DOMAIN p : p[i] = k
    BY <1>6, <2>2
  <2>5. \A k \in Job : (\E i \in DOMAIN q : q[i] = k)
                       <=> job[k] # Null /\ job[k].owner = s /\ step'[k] = "queued"
    BY <1>1, <1>2, <1>5, <1>8, <2>4 DEF s
  <2>6. Queued(job, step', s, q)
    BY <1>6, <2>3, <2>5 DEF Queued
  <2>. QED
    BY <1>3, <1>8, <2>6 DEF s
<1>11. \A z \in JobServer : Queued(job, step, z, pending[z])'
  <2> SUFFICES ASSUME NEW z \in JobServer PROVE Queued(job, step, z, pending[z])'
    OBVIOUS
  <2>1. CASE z = s
    <3>1. s' = s
      BY <1>3 DEF s
    <3>. QED
      BY <1>10, <2>1, <3>1
  <2>2. CASE z # s
    <3>1. Queued(job, step, z, pending[z])
      BY DEF JobsInv
    <3>2. job[j].owner # z
      BY <2>2 DEF s
    <3>. QED
      BY <1>1, <1>3, <1>8, <2>2, <3>1, <3>2 DEF Queued
  <2>. QED
    BY <2>1, <2>2
<1>12. OneActive(job, step)' /\ LockHeld(job, step)' /\ Apart(job, step)'
  BY <1>1, <1>3, <1>8 DEF JobsInv, OneActive, LockHeld, Apart, Active, Live, InRunner, Unsettled
<1>. QED
  BY <1>7, <1>9, <1>11, <1>12 DEF JobsInv

----------------------------------------------------------------------------
(* The actions: operation locks and runners. *)

(* Where a job in a runner stands, before and after. *)
LEMMA BornLive ==
  ASSUME JobsInv, NEW j \in Born, step[j] \in Live
  PROVE  /\ j \in Job /\ job[j] # Null /\ job[j].owner \in servers /\ job[j].owner \in JobServer
         /\ job[j].source \in Source /\ mem[j] \in JobRecord /\ jobFiles[j] \in JobRecord
         /\ mem[j] # Null /\ jobFiles[j] # Null /\ Fits(j)
BY LiveOwned, JobFacts, JobsAssumption DEF Born, Fits

LEMMA RequeueFailsStep ==
  ASSUME JobsInv, NEW j \in Born, RequeueFails(j)
  PROVE  JobsInv'
<1> DEFINE e == [mem[j] EXCEPT !.status = "error"]
           r == [mem[j] EXCEPT !.status = "queued"]
<1>1. step[j] = "entering" /\ step[j] \in Live
  BY DEF RequeueFails, Entering, Live
<1>2. /\ j \in Job /\ mem[j] \in JobRecord /\ job[j] # Null /\ Fits(j)
  BY <1>1, BornLive
<1>3. /\ mem' = [mem EXCEPT ![j] = e] /\ jobFiles' \in {jobFiles, [jobFiles EXCEPT ![j] = r]}
      /\ step' = [step EXCEPT ![j] = "over"]
      /\ badWrites < MaxBadWrites /\ badWrites' = badWrites + 1
      /\ UNCHANGED <<servers, job, pending, timers, result, runs, sourceLock, tx>>
  BY DEF RequeueFails, Torn
<1>4. /\ e \in JobRecord /\ e.status = "error" /\ e.linked = mem[j].linked
      /\ r \in JobRecord /\ r.status = "queued" /\ r.linked = mem[j].linked /\ r.done = mem[j].done
      /\ mem[j].status = "running" /\ mem[j] # Null
  BY <1>1, <1>2 DEF JobRecord, Status, Fits, JobFits, Live
<1> HIDE DEF e, r
<1>5. Typed
  <2>1. badWrites' \in 0 .. MaxBadWrites
    BY <1>3, JobsAssumption DEF JobsInv, JobsTypeOK
  <2>2. mem' \in Records /\ jobFiles' \in Records /\ step' \in [Job -> Steps]
    BY <1>2, <1>3, <1>4 DEF JobsInv, JobsTypeOK, Records, Steps
  <2>. QED
    BY <1>3, <2>1, <2>2 DEF JobsInv, JobsTypeOK, Typed
<1>6. /\ mem'[j] = e /\ jobFiles'[j] \in {jobFiles[j], r} /\ step'[j] = "over"
      /\ \A k \in Job \ {j} : mem'[k] = mem[k] /\ jobFiles'[k] = jobFiles[k] /\ step'[k] = step[k]
  BY <1>2, <1>3 DEF JobsInv, JobsTypeOK
<1>7. Others(j)
  BY <1>3, <1>6 DEF Others
<1>8. Fits(j)'
  <2>1. RecordFits(mem[j], result[j], tx[j]) /\ RecordFits(jobFiles[j], result[j], tx[j])
    BY <1>2 DEF Fits, JobFits
  <2>2. RecordFits(e, result[j], tx[j]) /\ RecordFits(r, result[j], tx[j])
    BY <1>4, <2>1 DEF RecordFits
  <2>3. RecordFits(jobFiles'[j], result[j], tx[j])
    BY <1>6, <2>1, <2>2
  <2>. QED
    BY <1>1, <1>2, <1>3, <1>6, <2>2, <2>3 DEF Fits, JobFits, Live
<1>9. \A k \in Job : step'[k] \in InRunner <=> step[k] \in InRunner
  BY <1>1, <1>6 DEF InRunner
<1>10. LockHeld(job, step)' /\ Apart(job, step)'
  BY <1>3, <1>9 DEF JobsInv, LockHeld, Apart, Unsettled
<1>. QED
  BY <1>1, <1>2, <1>5, <1>6, <1>7, <1>8, <1>10, OneMoves DEF Active, Live

LEMMA RefuseStep ==
  ASSUME JobsInv, NEW j \in Born, Refuse(j)
  PROVE  JobsInv'
<1>1. step[j] = "entering" /\ step[j] \in Live
  BY DEF Refuse, Entering, Live
<1>2. j \in Job /\ job[j].source \in Source /\ Fits(j)
  BY <1>1, BornLive
<1>3. /\ ~Contended(job[j].source)
      /\ sourceLock' = [sourceLock EXCEPT ![job[j].source] = Null]
      /\ step' = [step EXCEPT ![j] = "finishing"] /\ result' = [result EXCEPT ![j] = "error"]
      /\ UNCHANGED <<servers, job, mem, jobFiles, pending, timers, runs, tx, badWrites>>
  BY DEF Refuse
<1>4. Typed
  BY <1>2, <1>3 DEF JobsInv, JobsTypeOK, Typed, Records, Steps
<1>5. /\ step'[j] = "finishing" /\ result'[j] = "error"
      /\ \A k \in Job \ {j} : step'[k] = step[k] /\ result'[k] = result[k]
  BY <1>2, <1>3 DEF JobsInv, JobsTypeOK
<1>6. Others(j)
  BY <1>3, <1>5 DEF Others
<1>7. Fits(j)'
  <2>1. /\ mem[j].status = "running" /\ jobFiles[j].status \in {"queued", "running"}
        /\ mem[j] # Null /\ jobFiles[j] # Null
        /\ RecordFits(mem[j], result[j], tx[j]) /\ RecordFits(jobFiles[j], result[j], tx[j])
    BY <1>1, <1>2 DEF Fits, JobFits
  <2>2. RecordFits(mem[j], "error", tx[j]) /\ RecordFits(jobFiles[j], "error", tx[j])
    BY <2>1 DEF RecordFits
  <2>. QED
    BY <1>1, <1>2, <1>3, <1>5, <2>2 DEF Fits, JobFits, Live
<1>8. \A k \in Job : step'[k] \in InRunner <=> step[k] \in InRunner
  BY <1>1, <1>5 DEF InRunner
<1>9. Apart(job, step)'
  BY <1>3, <1>8 DEF JobsInv, Apart, Unsettled
<1>10. LockHeld(job, step)'
  <2>1. \A k \in Job : step[k] \in InRunner => job[k].source # job[j].source
    BY <1>2, <1>3, FreeSource
  <2>2. ASSUME NEW k \in Job \ {j}, step'[k] \in InRunner
        PROVE  sourceLock'[job[k].source] = job[k].owner
    <3>1. step[k] \in InRunner /\ job[k].source # job[j].source
      BY <1>5, <2>1, <2>2
    <3>. QED
      BY <1>2, <1>3, <3>1, LockMoves
  <2>3. step'[j] \notin InRunner
    BY <1>5 DEF InRunner
  <2>. QED
    BY <1>3, <2>2, <2>3 DEF LockHeld
<1>. QED
  BY <1>1, <1>2, <1>4, <1>5, <1>6, <1>7, <1>9, <1>10, OneMoves DEF Active, Live

LEMMA EnterStep ==
  ASSUME JobsInv, NEW j \in Born, Enter(j)
  PROVE  JobsInv'
<1> DEFINE src == job[j].source
<1>1. step[j] = "entering" /\ step[j] \in Live
  BY DEF Enter, Entering, Live
<1>2. j \in Job /\ src \in Source /\ job[j].owner \in JobServer /\ Fits(j)
  BY <1>1, BornLive
<1>3. /\ ~Contended(src) /\ ~Blocked(src) /\ sourceLock' = [sourceLock EXCEPT ![src] = job[j].owner]
      /\ step' = [step EXCEPT ![j] = "running"] /\ runs' = [runs EXCEPT ![j] = runs[j] + 1]
      /\ UNCHANGED <<servers, job, mem, jobFiles, pending, timers, result, tx, badWrites>>
  BY DEF Enter
<1>4. Typed
  BY <1>2, <1>3 DEF JobsInv, JobsTypeOK, Typed, Records, Steps
<1>5. /\ step'[j] = "running" /\ runs'[j] = runs[j] + 1
      /\ \A k \in Job \ {j} : step'[k] = step[k] /\ runs'[k] = runs[k]
  BY <1>2, <1>3 DEF JobsInv, JobsTypeOK
<1>6. Others(j)
  BY <1>3, <1>5 DEF Others
<1>7. Fits(j)'
  BY <1>1, <1>2, <1>3, <1>5 DEF Fits, JobFits, Live
<1>8. \A k \in Job : step[k] \in InRunner => job[k].source # src
  BY <1>2, <1>3, FreeSource
<1>9. LockHeld(job, step)'
  <2>1. ASSUME NEW k \in Job \ {j}, step'[k] \in InRunner
        PROVE  sourceLock'[job[k].source] = job[k].owner
    <3>1. step[k] \in InRunner /\ job[k].source # src
      BY <1>5, <1>8, <2>1
    <3> HIDE DEF src
    <3>. QED
      BY <1>2, <1>3, <3>1, LockMoves
  <2>2. sourceLock'[src] = job[j].owner
    BY <1>2, <1>3 DEF JobsInv, JobsTypeOK
  <2>. QED
    BY <1>3, <2>1, <2>2 DEF LockHeld
<1>10. Apart(job, step)'
  <2> SUFFICES ASSUME NEW a \in Job, NEW b \in Job, a # b, step'[a] \in InRunner, job[b] # Null,
                      job[a].source = job[b].source
               PROVE  ~Unsettled(b)
    BY <1>3 DEF Apart, Unsettled
  <2>1. CASE a = j
    BY <1>3, <2>1 DEF Blocked, Born
  <2>2. CASE a # j
    <3>1. step[a] \in InRunner
      BY <1>5, <2>2
    <3>. QED
      BY <3>1 DEF JobsInv, Apart
  <2>. QED
    BY <2>1, <2>2
<1>. QED
  BY <1>1, <1>2, <1>4, <1>5, <1>6, <1>7, <1>9, <1>10, OneMoves DEF Active, Live

LEMMA RunnerStep ==
  ASSUME JobsInv, NEW j \in Born, ProgressFails(j) \/ Prepare(j) \/ Advance(j) \/ RollBack(j)
  PROVE  JobsInv'
<1>1. step[j] \in InRunner /\ step[j] \in Live /\ step[j] # "queued" /\ step[j] \in Active
  BY DEF ProgressFails, Prepare, Advance, RollBack, InRunner, Live, Active
<1>2. j \in Job /\ Fits(j) /\ mem[j] # Null /\ jobFiles[j] # Null
  BY <1>1, BornLive
<1>3. UNCHANGED <<servers, job, mem, jobFiles, pending, timers, result, runs, sourceLock>>
  BY DEF ProgressFails, Prepare, Advance, RollBack
<1>4. PICK x \in InRunner, t \in Transaction :
        /\ step' = [step EXCEPT ![j] = x] /\ tx' = [tx EXCEPT ![j] = t]
        /\ t = tx[j] \/ (tx[j] = "none" /\ t = "open")
           \/ (tx[j] \in {"open", "committing"} /\ t \in {"committing", "committed", "rolledBack"})
  <2>1. step \in [Job -> Steps] /\ tx \in [Job -> Transaction]
    BY DEF JobsInv, JobsTypeOK
  <2>2. step = [step EXCEPT ![j] = step[j]] /\ tx = [tx EXCEPT ![j] = tx[j]]
        /\ tx[j] \in Transaction
    BY <1>2, <2>1
  <2>3. CASE ProgressFails(j)
    BY <1>1, <2>2, <2>3 DEF ProgressFails, InRunner
  <2>4. CASE Prepare(j)
    BY <1>1, <2>2, <2>4 DEF Prepare, Transaction
  <2>5. CASE Advance(j)
    BY <1>1, <2>2, <2>5 DEF Advance, Transaction
  <2>6. CASE RollBack(j)
    BY <1>1, <2>2, <2>6 DEF RollBack, Transaction, InRunner
  <2>. QED
    BY <2>3, <2>4, <2>5, <2>6
<1>5. badWrites' \in 0 .. MaxBadWrites
  BY JobsAssumption DEF ProgressFails, Prepare, Advance, RollBack, JobsInv, JobsTypeOK
<1>6. Typed
  BY <1>2, <1>3, <1>4, <1>5 DEF JobsInv, JobsTypeOK, Typed, Records, Steps, InRunner
<1>7. /\ step'[j] = x /\ tx'[j] = t
      /\ \A k \in Job \ {j} : step'[k] = step[k] /\ tx'[k] = tx[k]
  BY <1>2, <1>4 DEF JobsInv, JobsTypeOK
<1>8. Others(j)
  BY <1>3, <1>7 DEF Others
<1>9. Fits(j)'
  <2>1. /\ mem[j].status = "running" /\ jobFiles[j].status \in {"queued", "running"}
        /\ RecordFits(mem[j], result[j], tx[j]) /\ RecordFits(jobFiles[j], result[j], tx[j])
        /\ result[j] = "none"
    BY <1>1, <1>2 DEF Fits, JobFits, InRunner
  <2>2. tx[j] # "none" => t # "none"
    BY <1>4
  <2>3. RecordFits(mem[j], result[j], t) /\ RecordFits(jobFiles[j], result[j], t)
    BY <2>1, <2>2 DEF RecordFits
  <2>. QED
    BY <1>1, <1>2, <1>3, <1>4, <1>7, <2>1, <2>3 DEF Fits, JobFits, Live, InRunner
<1>10. LockHeld(job, step)' /\ Apart(job, step)'
  BY <1>1, <1>2, <1>3, <1>8, RunnerKeeps
<1>11. step'[j] # "queued"
  BY <1>7 DEF InRunner
<1>. QED
  BY <1>1, <1>2, <1>6, <1>8, <1>9, <1>10, <1>11, OneMoves

LEMMA LinkStep ==
  ASSUME JobsInv, NEW j \in Born, Link(j)
  PROVE  JobsInv'
<1> DEFINE r == [mem[j] EXCEPT !.linked = TRUE]
<1>1. step[j] = "running" /\ step[j] \in InRunner /\ step[j] \in Live /\ tx[j] = "open"
  BY DEF Link, InRunner, Live
<1>2. j \in Job /\ Fits(j) /\ mem[j] \in JobRecord /\ mem[j] # Null /\ jobFiles[j] # Null
  BY <1>1, BornLive
<1>3. mem' = [mem EXCEPT ![j] = r]
      /\ UNCHANGED <<servers, job, pending, timers, result, runs, sourceLock, tx>>
  BY DEF Link
<1>4. r \in JobRecord /\ r # Null /\ r.status = mem[j].status /\ r.done = mem[j].done
  BY <1>2, JobsAssumption DEF JobRecord
<1> HIDE DEF r
<1>5. mem'[j] = r /\ \A k \in Job \ {j} : mem'[k] = mem[k]
  BY <1>2, <1>3 DEF JobsInv, JobsTypeOK
<1>6. jobFiles' \in {jobFiles, [jobFiles EXCEPT ![j] = r]}
  BY <1>5 DEF Link, Torn
<1>7. \E x \in InRunner : step' = [step EXCEPT ![j] = x]
  <2>1. step = [step EXCEPT ![j] = step[j]]
    BY <1>2 DEF JobsInv, JobsTypeOK
  <2>. QED
    BY <1>1, <2>1 DEF Link, InRunner
<1>8. badWrites' \in 0 .. MaxBadWrites
  BY JobsAssumption DEF Link, JobsInv, JobsTypeOK
<1>9. Typed
  BY <1>2, <1>3, <1>4, <1>6, <1>7, <1>8 DEF JobsInv, JobsTypeOK, Typed, Records, Steps, InRunner
<1>10. /\ jobFiles'[j] \in {jobFiles[j], r} /\ step'[j] \in InRunner
       /\ \A k \in Job \ {j} : jobFiles'[k] = jobFiles[k] /\ step'[k] = step[k]
  BY <1>2, <1>6, <1>7 DEF JobsInv, JobsTypeOK
<1>11. Others(j)
  BY <1>3, <1>5, <1>10 DEF Others
<1>12. Fits(j)'
  <2>1. /\ mem[j].status = "running" /\ jobFiles[j].status \in {"queued", "running"}
        /\ RecordFits(mem[j], result[j], tx[j]) /\ RecordFits(jobFiles[j], result[j], tx[j])
        /\ result[j] = "none"
    BY <1>1, <1>2 DEF Fits, JobFits, Live
  <2>2. RecordFits(r, result[j], tx[j])
    BY <1>1, <1>2, <1>4, <2>1 DEF RecordFits
  <2>3. RecordFits(jobFiles'[j], result[j], tx[j]) /\ jobFiles'[j] # Null
        /\ jobFiles'[j].status \in {"queued", "running"}
    BY <1>2, <1>4, <1>10, <2>1, <2>2
  <2>. QED
    BY <1>1, <1>2, <1>3, <1>4, <1>5, <1>10, <2>1, <2>2, <2>3 DEF Fits, JobFits, Live, InRunner
<1>13. LockHeld(job, step)' /\ Apart(job, step)'
  BY <1>1, <1>2, <1>3, <1>11, RunnerKeeps
<1>14. step'[j] # "queued" /\ step[j] # "queued" /\ step[j] \in Active
  BY <1>1, <1>10 DEF InRunner, Active, Live
<1>. QED
  BY <1>2, <1>9, <1>11, <1>12, <1>13, <1>14, OneMoves

LEMMA LeaveStep ==
  ASSUME JobsInv, NEW j \in Born, Leave(j)
  PROVE  JobsInv'
<1>1. step[j] \in InRunner /\ step[j] \in Live /\ step[j] \in Active /\ step[j] # "queued"
  BY DEF Leave, InRunner, Live, Active
<1>2. j \in Job /\ job[j].source \in Source /\ Fits(j) /\ mem[j] # Null /\ jobFiles[j] # Null
  BY <1>1, BornLive
<1>3. /\ sourceLock' = [sourceLock EXCEPT ![job[j].source] = Null]
      /\ step' = [step EXCEPT ![j] = "finishing"]
      /\ UNCHANGED <<servers, job, mem, jobFiles, pending, timers, runs, tx, badWrites>>
  BY DEF Leave
<1>4. PICK r \in RunnerAnswers(j) : result' = [result EXCEPT ![j] = r]
  BY DEF Leave
<1>5. r \in {"ok", "fail", "error"} /\ (r = "fail" => tx[j] = "none")
  BY <1>4 DEF RunnerAnswers
<1>6. Typed
  BY <1>2, <1>3, <1>4, <1>5 DEF JobsInv, JobsTypeOK, Typed, Records, Steps
<1>7. /\ step'[j] = "finishing" /\ result'[j] = r
      /\ \A k \in Job \ {j} : step'[k] = step[k] /\ result'[k] = result[k]
  BY <1>2, <1>3, <1>4 DEF JobsInv, JobsTypeOK
<1>8. Others(j)
  BY <1>3, <1>7 DEF Others
<1>9. Fits(j)'
  <2>1. /\ mem[j].status = "running" /\ jobFiles[j].status \in {"queued", "running"}
        /\ RecordFits(mem[j], result[j], tx[j]) /\ RecordFits(jobFiles[j], result[j], tx[j])
    BY <1>1, <1>2 DEF Fits, JobFits
  <2>2. RecordFits(mem[j], r, tx[j]) /\ RecordFits(jobFiles[j], r, tx[j])
    BY <2>1 DEF RecordFits
  <2>. QED
    BY <1>1, <1>2, <1>3, <1>5, <1>7, <2>1, <2>2 DEF Fits, JobFits, Live
<1>10. \A k \in Job : step'[k] \in InRunner => k # j /\ step[k] \in InRunner
  BY <1>7 DEF InRunner
<1>11. Apart(job, step)'
  BY <1>3, <1>10 DEF JobsInv, Apart, Unsettled
<1>12. LockHeld(job, step)'
  <2>1. \A k \in Job \ {j} : step[k] \in InRunner => job[k].source # job[j].source
    BY <1>1, <1>2, OneRuns
  <2>2. ASSUME NEW k \in Job \ {j}, step'[k] \in InRunner
        PROVE  sourceLock'[job[k].source] = job[k].owner
    <3>1. step[k] \in InRunner /\ job[k].source # job[j].source
      BY <1>7, <2>1, <2>2
    <3>. QED
      BY <1>2, <1>3, <3>1, LockMoves
  <2>. QED
    BY <1>3, <1>10, <2>2 DEF LockHeld
<1>13. step'[j] # "queued"
  BY <1>7
<1>. QED
  BY <1>1, <1>2, <1>6, <1>8, <1>9, <1>11, <1>12, <1>13, OneMoves

(* The block that ends a job, before its dispatch. *)
LEMMA EndedFits ==
  ASSUME JobsInv, NEW j \in Born, step[j] = "finishing", NEW r \in JobRecord, NEW e \in JobRecord,
         r.linked = mem[j].linked, e.linked = mem[j].linked,
         r.status \in {result[j], "error"}, e.status = result[j],
         NEW m, m = [mem EXCEPT ![j] = r], NEW over, over = [step EXCEPT ![j] = "over"],
         NEW d, d = jobFiles \/ d = [jobFiles EXCEPT ![j] = e]
  PROVE  /\ m \in Records /\ d \in Records /\ over \in [Job -> Steps]
         /\ AllFit(job, m, d, over)
         /\ \A z \in JobServer : Queued(job, over, z, pending[z])
         /\ OneActive(job, over) /\ LockHeld(job, over) /\ Apart(job, over)
<1>1. step[j] \in Live
  BY DEF Live
<1>2. j \in Job /\ Fits(j) /\ job[j] # Null
  BY <1>1, BornLive
<1>3. m \in Records /\ d \in Records /\ over \in [Job -> Steps]
  BY <1>2 DEF JobsInv, JobsTypeOK, Records, Steps
<1>4. /\ m[j] = r /\ d[j] \in {jobFiles[j], e} /\ over[j] = "over"
      /\ \A k \in Job \ {j} : m[k] = mem[k] /\ d[k] = jobFiles[k] /\ over[k] = step[k]
  BY <1>2 DEF JobsInv, JobsTypeOK
<1>5. result[j] # "none" /\ result[j] \in {"ok", "fail", "error"}
  BY <1>2 DEF JobsInv, JobsTypeOK, Fits, JobFits
<1>6. AllFit(job, m, d, over)
  <2>1. JobFits(job[j], m[j], d[j], over[j], result[j], runs[j], tx[j])
    <3>1. RecordFits(mem[j], result[j], tx[j]) /\ RecordFits(jobFiles[j], result[j], tx[j])
          /\ mem[j] # Null
      BY <1>1, <1>2 DEF Fits, JobFits
    <3>2. RecordFits(r, result[j], tx[j]) /\ RecordFits(e, result[j], tx[j])
      BY <1>5, <3>1 DEF RecordFits
    <3>3. RecordFits(d[j], result[j], tx[j])
      BY <1>4, <3>1, <3>2
    <3>. QED
      BY <1>2, <1>4, <3>2, <3>3 DEF Fits, JobFits, Live
  <2>2. \A k \in Job \ {j} : JobFits(job[k], m[k], d[k], over[k], result[k], runs[k], tx[k])
    BY <1>4, JobFacts
  <2>. QED
    BY <2>1, <2>2 DEF AllFit
<1>7. \A k \in Job : /\ over[k] = "queued" <=> step[k] = "queued"
                     /\ over[k] \in Active => step[k] \in Active
                     /\ over[k] \in InRunner <=> step[k] \in InRunner
  BY <1>4 DEF Active, Live, InRunner
<1>8. \A z \in JobServer : Queued(job, over, z, pending[z])
  BY <1>7 DEF JobsInv, Queued
<1>9. OneActive(job, over) /\ LockHeld(job, over) /\ Apart(job, over)
  BY <1>7 DEF JobsInv, OneActive, LockHeld, Apart
<1>. QED
  BY <1>3, <1>6, <1>8, <1>9

LEMMA FinishStep ==
  ASSUME JobsInv, NEW j \in Born, Finish(j)
  PROVE  JobsInv'
<1> DEFINE s == job[j].owner
           e == [mem[j] EXCEPT !.status = result[j], !.done = TRUE]
           l == [e EXCEPT !.status = "error"]
           ended == [mem EXCEPT ![j] = e]
           lost == [mem EXCEPT ![j] = l]
           over == [step EXCEPT ![j] = "over"]
<1>1. step[j] = "finishing" /\ step[j] \in Live
  BY DEF Finish, Live
<1>2. j \in Job /\ s \in JobServer /\ mem[j] \in JobRecord /\ Fits(j)
  BY <1>1, BornLive
<1>3. result[j] \in {"ok", "fail", "error"}
  BY <1>1, <1>2 DEF JobsInv, JobsTypeOK, Fits, JobFits
<1>4. /\ e \in JobRecord /\ e.status = result[j] /\ e.linked = mem[j].linked
      /\ l \in JobRecord /\ l.status = "error" /\ l.linked = mem[j].linked
  BY <1>2, <1>3 DEF JobRecord, Status
<1>5. /\ [mem EXCEPT ![j].status = result[j], ![j].done = TRUE] = ended
      /\ [ended EXCEPT ![j].status = "error"] = lost /\ ended[j] = e
  BY <1>2 DEF JobsInv, JobsTypeOK
<1> HIDE DEF e, l
<1>6. UNCHANGED <<servers, job, timers, result, runs, sourceLock, tx>>
  BY DEF Finish
<1>7. badWrites \in 0 .. MaxBadWrites /\ timers' \subseteq Job /\ job \in [Job -> Owned \cup {Null}]
  BY <1>6 DEF JobsInv, JobsTypeOK
<1>8. \/ \E bad \in DispatchOutcomes(s, job, ended, pending[s], badWrites) :
           /\ Dispatch(s, job, ended, [jobFiles EXCEPT ![j] = e], pending[s], over, bad)
           /\ badWrites' = badWrites + Cost(bad)
      \/ /\ badWrites < MaxBadWrites
         /\ \E bad \in DispatchOutcomes(s, job, lost, pending[s], badWrites + 1),
               d \in {jobFiles, [jobFiles EXCEPT ![j] = e]} :
              /\ Dispatch(s, job, lost, d, pending[s], over, bad)
              /\ badWrites' = badWrites + 1 + Cost(bad)
  <2> HIDE DEF ended, lost, over, s
  <2>. QED
    BY <1>5 DEF Finish, Torn, ended, lost, over, s
<1>9. CASE \E bad \in DispatchOutcomes(s, job, ended, pending[s], badWrites) :
             /\ Dispatch(s, job, ended, [jobFiles EXCEPT ![j] = e], pending[s], over, bad)
             /\ badWrites' = badWrites + Cost(bad)
  <2> DEFINE d == [jobFiles EXCEPT ![j] = e]
  <2>1. PICK bad \in DispatchOutcomes(s, job, ended, pending[s], badWrites) :
          Dispatch(s, job, ended, d, pending[s], over, bad) /\ badWrites' = badWrites + Cost(bad)
    BY <1>9
  <2>2. /\ d = jobFiles \/ d = [jobFiles EXCEPT ![j] = e]
        /\ e.status \in {result[j], "error"}
        /\ ended = [mem EXCEPT ![j] = e] /\ over = [step EXCEPT ![j] = "over"]
    BY <1>4
  <2> HIDE DEF d, ended, over, s
  <2>3. /\ ended \in Records /\ d \in Records /\ over \in [Job -> Steps]
        /\ AllFit(job, ended, d, over)
        /\ \A z \in JobServer : Queued(job, over, z, pending[z])
        /\ OneActive(job, over) /\ LockHeld(job, over) /\ Apart(job, over)
    BY <1>1, <1>4, <2>2, EndedFits
  <2>. QED
    BY <1>2, <1>6, <1>7, <2>1, <2>3, DispatchKeeps DEF JobsInv
<1>10. CASE /\ badWrites < MaxBadWrites
            /\ \E bad \in DispatchOutcomes(s, job, lost, pending[s], badWrites + 1),
                  d \in {jobFiles, [jobFiles EXCEPT ![j] = e]} :
                 /\ Dispatch(s, job, lost, d, pending[s], over, bad)
                 /\ badWrites' = badWrites + 1 + Cost(bad)
  <2>1. PICK bad \in DispatchOutcomes(s, job, lost, pending[s], badWrites + 1),
             d \in {jobFiles, [jobFiles EXCEPT ![j] = e]} :
          /\ Dispatch(s, job, lost, d, pending[s], over, bad)
          /\ badWrites' = badWrites + 1 + Cost(bad)
    BY <1>10
  <2>5. /\ d = jobFiles \/ d = [jobFiles EXCEPT ![j] = e]
        /\ l.status \in {result[j], "error"}
        /\ lost = [mem EXCEPT ![j] = l] /\ over = [step EXCEPT ![j] = "over"]
    BY <1>4
  <2> HIDE DEF lost, over, s
  <2>2. /\ lost \in Records /\ d \in Records /\ over \in [Job -> Steps]
        /\ AllFit(job, lost, d, over)
        /\ \A z \in JobServer : Queued(job, over, z, pending[z])
        /\ OneActive(job, over) /\ LockHeld(job, over) /\ Apart(job, over)
    BY <1>1, <1>4, <2>5, EndedFits
  <2>3. badWrites + 1 \in 0 .. MaxBadWrites
    BY <1>7, <1>10, JobsAssumption
  <2> DEFINE used == badWrites + 1
  <2> HIDE DEF used
  <2>4. /\ bad \in DispatchOutcomes(s, job, lost, pending[s], used) /\ used \in 0 .. MaxBadWrites
        /\ badWrites' = used + Cost(bad)
    BY <2>1, <2>3 DEF used
  <2>. QED
    BY <1>2, <1>6, <1>7, <2>1, <2>2, <2>4, DispatchKeeps DEF JobsInv
<1>. QED
  BY <1>8, <1>9, <1>10

----------------------------------------------------------------------------
(* The actions: the board, and other processes. *)

(* getJob writes records that fit, and none of a job that may still run.   *)
LEMMA ShownFits ==
  ASSUME JobsInv, NEW s \in servers, NEW j \in Job, jobFiles[j] # Null
  PROVE  /\ Shown(s, j) \in JobRecord \cup {Null}
         /\ RecordFits(Shown(s, j), result[j], tx[j])
         /\ step[j] \in Live => /\ ShownDisk(s, j) = jobFiles[j] /\ ShownMem(s, j) = mem[j]
                                /\ Shown(s, j) # Null => ~Shown(s, j).done
<1> DEFINE r == jobFiles[j]
           i == Interrupted(j, r)
           c == Reconciled(j, i)
<1>1. r \in JobRecord /\ RecordFits(r, result[j], tx[j]) /\ RecordFits(mem[j], result[j], tx[j])
      /\ mem[j] \in JobRecord \cup {Null} /\ tx[j] \in Transaction
  BY JobFacts DEF JobFits
<1>2. r.status \in Status /\ r.linked \in BOOLEAN /\ r.done \in BOOLEAN
  BY <1>1 DEF JobRecord
<1>3. i \in JobRecord /\ i # Null /\ RecordFits(i, result[j], tx[j])
  <2>1. CASE i = r
    BY <1>1, <2>1, JobsAssumption
  <2>2. CASE i = [r EXCEPT !.status = "interrupted", !.phase = "restarted", !.done = TRUE]
    <3>1. i \in JobRecord /\ i.status = "interrupted" /\ i.linked = r.linked /\ i.done = TRUE
      BY <1>1, <2>2 DEF JobRecord, Status, Phase
    <3>2. i # Null
      BY <3>1, JobsAssumption
    <3>. QED
      BY <1>1, <3>1, <3>2 DEF RecordFits
  <2>. QED
    BY <2>1, <2>2 DEF Interrupted
<1> HIDE DEF i
<1>4. c \in JobRecord /\ c # Null /\ RecordFits(c, result[j], tx[j])
  <2>1. CASE ~InDoubt(i)
    BY <1>3, <2>1 DEF Reconciled
  <2>2. CASE InDoubt(i)
    <3>1. i.linked /\ tx[j] # "none" /\ i.status \in {"interrupted", "error"}
      BY <1>3, <2>2 DEF InDoubt, RecordFits
    <3> DEFINE x == IF tx[j] = "committed" THEN "ok"
                    ELSE IF tx[j] = "rolledBack" THEN "error" ELSE i.status
    <3>2. x \in Status /\ tx[j] \in Phase
      BY <1>1, <3>1 DEF Status, Phase, Transaction
    <3>3. c = [i EXCEPT !.phase = tx[j], !.status = x]
      <4>1. (CASE Committed(j) -> "ok" [] tx[j] = "rolledBack" -> "error" [] OTHER -> i.status) = x
        BY DEF Committed
      <4>. QED
        BY <2>2, <4>1 DEF Reconciled
    <3> HIDE DEF x, c
    <3>4. c \in JobRecord /\ c.status = x /\ c.linked = i.linked /\ c.done = i.done
      BY <1>3, <3>2, <3>3 DEF JobRecord
    <3>5. c # Null
      BY <3>4, JobsAssumption
    <3>. QED
      BY <1>3, <3>1, <3>4, <3>5 DEF RecordFits, x
  <2>. QED
    BY <2>1, <2>2
<1>5. Shown(s, j) = IF FromDisk(s, j) THEN c ELSE mem[j]
  BY DEF Shown, i
<1>6. ASSUME step[j] \in Live
      PROVE  /\ ShownDisk(s, j) = r /\ ShownMem(s, j) = mem[j]
             /\ Shown(s, j) # Null => ~Shown(s, j).done
  <2>1. /\ job[j].owner \in servers /\ r.status \in {"queued", "running"}
        /\ mem[j] # Null /\ mem[j].status \in {"queued", "running"}
    BY <1>6, JobFacts DEF JobFits
  <2>2. i = r
    BY <2>1 DEF i, Interrupted, OwnerGone
  <2>3. ~InDoubt(r) /\ c = r
    BY <2>1, <2>2 DEF InDoubt, Reconciled
  <2>4. ~r.done /\ ~mem[j].done
    BY <1>1, <2>1 DEF RecordFits
  <2> HIDE DEF c
  <2>5. CASE FromDisk(s, j)
    <3>1. Shown(s, j) = r
      BY <1>5, <2>3, <2>5
    <3>. QED
      BY <2>4, <3>1 DEF ShownDisk, ShownMem
  <2>6. CASE ~FromDisk(s, j)
    <3>1. Shown(s, j) = mem[j] /\ ~Saves(s, j)
      BY <1>5, <2>6 DEF Saves
    <3>. QED
      BY <2>4, <3>1 DEF ShownDisk, ShownMem
  <2>. QED
    BY <2>5, <2>6
<1> HIDE DEF c
<1>. QED
  BY <1>1, <1>4, <1>5, <1>6

(* Records change, or go, where nothing may run any more.                  *)
LEMMA BoardMoves ==
  ASSUME JobsInv, mem' \in Records, jobFiles' \in Records,
         \A j \in Job :
           /\ RecordFits(mem'[j], result[j], tx[j]) /\ RecordFits(jobFiles'[j], result[j], tx[j])
           /\ step[j] \in Live \/ job[j] = Null => mem'[j] = mem[j] /\ jobFiles'[j] = jobFiles[j],
         UNCHANGED <<servers, job, pending, timers, step, result, runs, sourceLock, tx, badWrites>>
  PROVE  JobsInv'
<1>1. JobsTypeOK'
  BY DEF JobsInv, JobsTypeOK, Records
<1>2. AllFit(job, mem, jobFiles, step)'
  <2> SUFFICES ASSUME NEW j \in Job
               PROVE  JobFits(job[j], mem[j], jobFiles[j], step[j], result[j], runs[j], tx[j])'
    BY DEF AllFit
  <2>1. JobFits(job[j], mem[j], jobFiles[j], step[j], result[j], runs[j], tx[j])
    BY JobFacts
  <2>. QED
    BY <2>1 DEF JobFits
<1>3. \A s \in JobServer : Queued(job, step, s, pending[s])'
  BY DEF JobsInv, Queued
<1>4. OneActive(job, step)' /\ LockHeld(job, step)' /\ Apart(job, step)'
  BY DEF JobsInv, OneActive, LockHeld, Apart, Unsettled
<1>. QED
  BY <1>1, <1>2, <1>3, <1>4 DEF JobsInv

(* What getJob leaves of the two records, or the removal of them.          *)
LEMMA ShownRecords ==
  ASSUME JobsInv, NEW s \in servers, NEW j \in Job
  PROVE  /\ ShownDisk(s, j) \in JobRecord \cup {Null} /\ ShownMem(s, j) \in JobRecord \cup {Null}
         /\ RecordFits(ShownDisk(s, j), result[j], tx[j])
         /\ RecordFits(ShownMem(s, j), result[j], tx[j])
         /\ step[j] \in Live \/ job[j] = Null
              => ShownDisk(s, j) = jobFiles[j] /\ ShownMem(s, j) = mem[j]
<1>1. /\ RecordFits(jobFiles[j], result[j], tx[j]) /\ RecordFits(mem[j], result[j], tx[j])
      /\ mem[j] \in JobRecord \cup {Null} /\ jobFiles[j] \in JobRecord \cup {Null}
      /\ job[j] = Null => jobFiles[j] = Null
  BY JobFacts DEF JobFits
<1>2. CASE jobFiles[j] = Null
  BY <1>1, <1>2 DEF ShownDisk, ShownMem, Saves, RecordFits
<1>3. CASE jobFiles[j] # Null
  BY <1>1, <1>3, ShownFits DEF ShownDisk, ShownMem
<1>. QED
  BY <1>2, <1>3

LEMMA GetJobStep ==
  ASSUME JobsInv, NEW s \in JobServer, NEW j \in Born, GetJob(s, j)
  PROVE  JobsInv'
<1>1. /\ s \in servers /\ j \in Job
      /\ jobFiles' = [jobFiles EXCEPT ![j] = ShownDisk(s, j)]
      /\ mem' = [mem EXCEPT ![j] = ShownMem(s, j)]
      /\ UNCHANGED <<servers, job, pending, timers, step, result, runs, sourceLock, tx, badWrites>>
  BY DEF GetJob, Born
<1>2. mem' \in Records /\ jobFiles' \in Records
  BY <1>1, ShownRecords DEF JobsInv, JobsTypeOK, Records
<1>3. /\ mem'[j] = ShownMem(s, j) /\ jobFiles'[j] = ShownDisk(s, j)
      /\ \A k \in Job \ {j} : mem'[k] = mem[k] /\ jobFiles'[k] = jobFiles[k]
  BY <1>1 DEF JobsInv, JobsTypeOK
<1>4. \A k \in Job :
        RecordFits(mem[k], result[k], tx[k]) /\ RecordFits(jobFiles[k], result[k], tx[k])
  BY JobFacts DEF JobFits
<1>5. \A k \in Job :
        /\ RecordFits(mem'[k], result[k], tx[k]) /\ RecordFits(jobFiles'[k], result[k], tx[k])
        /\ step[k] \in Live \/ job[k] = Null => mem'[k] = mem[k] /\ jobFiles'[k] = jobFiles[k]
  BY <1>1, <1>3, <1>4, ShownRecords
<1>. QED
  BY <1>1, <1>2, <1>5, BoardMoves

LEMMA ListJobsStep ==
  ASSUME JobsInv, NEW s \in JobServer, ListJobs(s)
  PROVE  JobsInv'
<1>1. /\ s \in servers
      /\ jobFiles' = [j \in Job |-> IF j \in Excess(s) THEN Null ELSE ShownDisk(s, j)]
      /\ mem' = [j \in Job |-> IF j \in Excess(s) /\ Holds(s, j) THEN Null ELSE ShownMem(s, j)]
      /\ UNCHANGED <<servers, job, pending, timers, step, result, runs, sourceLock, tx, badWrites>>
  BY DEF ListJobs
<1>2. mem' \in Records /\ jobFiles' \in Records
  BY <1>1, ShownRecords DEF Records
<1>3. ASSUME NEW j \in Job, step[j] \in Live \/ job[j] = Null PROVE j \notin Excess(s)
  <2>1. Shown(s, j) # Null => jobFiles[j] # Null /\ job[j] # Null
    BY JobFacts DEF Shown, JobFits
  <2>2. step[j] \in Live /\ Shown(s, j) # Null => ~Shown(s, j).done
    BY <1>1, <2>1, ShownFits
  <2>. QED
    BY <1>3, <2>1, <2>2 DEF Excess, Finished
<1>4. \A j \in Job : RecordFits(Null, result[j], tx[j])
  BY DEF RecordFits
<1>5. \A j \in Job :
        /\ RecordFits(mem'[j], result[j], tx[j]) /\ RecordFits(jobFiles'[j], result[j], tx[j])
        /\ step[j] \in Live \/ job[j] = Null => mem'[j] = mem[j] /\ jobFiles'[j] = jobFiles[j]
  BY <1>1, <1>3, <1>4, ShownRecords
<1>. QED
  BY <1>1, <1>2, <1>5, BoardMoves

LEMMA ServerDiesStep ==
  ASSUME JobsInv, NEW s \in JobServer, ServerDies(s)
  PROVE  JobsInv'
<1> DEFINE Lost(j) == job[j] # Null /\ job[j].owner = s
<1>1. /\ servers' = servers \ {s}
      /\ mem' = [j \in Job |-> IF Lost(j) THEN Null ELSE mem[j]]
      /\ pending' = [pending EXCEPT ![s] = <<>>] /\ timers' \subseteq timers
      /\ step' = [j \in Job |-> IF Lost(j) THEN "dead" ELSE step[j]]
      /\ UNCHANGED <<job, jobFiles, result, runs, sourceLock, tx, badWrites>>
  BY DEF ServerDies
<1>2. JobsTypeOK'
  BY <1>1 DEF JobsInv, JobsTypeOK, Steps
<1>3. \A j \in Job : /\ Lost(j) => mem'[j] = Null /\ step'[j] = "dead"
                     /\ ~Lost(j) => mem'[j] = mem[j] /\ step'[j] = step[j]
  BY <1>1
<1>4. AllFit(job, mem, jobFiles, step)'
  <2> SUFFICES ASSUME NEW j \in Job
               PROVE  JobFits(job[j], mem[j], jobFiles[j], step[j], result[j], runs[j], tx[j])'
    BY DEF AllFit
  <2>1. JobFits(job[j], mem[j], jobFiles[j], step[j], result[j], runs[j], tx[j])
    BY JobFacts
  <2>2. CASE Lost(j)
    BY <1>1, <1>3, <2>1, <2>2 DEF JobFits, RecordFits, Live
  <2>3. CASE ~Lost(j)
    <3>1. mem'[j] = mem[j] /\ step'[j] = step[j]
      BY <1>3, <2>3
    <3>2. step[j] \in Live => job[j] # Null /\ job[j].owner # s
      BY <2>1, <2>3 DEF JobFits, Live
    <3>. QED
      BY <1>1, <2>1, <3>1, <3>2 DEF JobFits
  <2>. QED
    BY <2>2, <2>3
<1>5. ASSUME NEW z \in JobServer PROVE Queued(job, step, z, pending[z])'
  <2>1. Queued(job, step, z, pending[z]) /\ pending \in [JobServer -> Seq(Job)]
    BY DEF JobsInv, JobsTypeOK
  <2>2. CASE z = s
    <3>1. pending'[z] = <<>> /\ <<>> \in Seq(Job) /\ DOMAIN <<>> = {}
      BY <1>1, <2>1, <2>2
    <3>2. \A j \in Job : ~(job[j] # Null /\ job[j].owner = z /\ step'[j] = "queued")
      BY <1>3, <2>2
    <3>. QED
      BY <1>1, <3>1, <3>2 DEF Queued
  <2>3. CASE z # s
    <3>1. pending'[z] = pending[z]
      BY <1>1, <2>1, <2>3
    <3>2. \A j \in Job : job[j].owner = z => step'[j] = step[j]
      BY <1>3, <2>3
    <3>. QED
      BY <1>1, <2>1, <3>1, <3>2 DEF Queued
  <2>. QED
    BY <2>2, <2>3
<1>6. \A j \in Job : step'[j] \in Active => step'[j] = step[j]
  BY <1>3 DEF Active, Live
<1>7. InRunner \subseteq Active
  BY DEF InRunner, Active, Live
<1>8. OneActive(job, step)' /\ LockHeld(job, step)' /\ Apart(job, step)'
  BY <1>1, <1>6, <1>7 DEF JobsInv, OneActive, LockHeld, Apart, Unsettled
<1>. QED
  BY <1>2, <1>4, <1>5, <1>8 DEF JobsInv

(* A lock moves where nothing runs.                                        *)
LEMMA CliStep ==
  ASSUME JobsInv, NEW src \in Source, CliTake(src) \/ CliDrop(src)
  PROVE  JobsInv'
<1>1. UNCHANGED <<servers, job, mem, jobFiles, pending, timers, step, result, runs, tx, badWrites>>
  BY DEF CliTake, CliDrop
<1>2. PICK o \in {Cli, Null} : sourceLock' = [sourceLock EXCEPT ![src] = o]
  BY DEF CliTake, CliDrop
<1>3. ~Contended(src) \/ sourceLock[src] = Cli
  BY DEF CliTake, CliDrop
<1>4. JobsTypeOK'
  BY <1>1, <1>2 DEF JobsInv, JobsTypeOK
<1>5. LockHeld(job, step)'
  <2>1. ASSUME NEW k \in Job, step[k] \in InRunner
        PROVE  sourceLock'[job[k].source] = job[k].owner
    <3>1. job[k].source # src
      BY <1>3, <2>1, FreeSource
    <3>. QED
      BY <1>2, <2>1, <3>1, LockMoves
  <2>. QED
    BY <1>1, <2>1 DEF LockHeld
<1>6. AllFit(job, mem, jobFiles, step)' /\ OneActive(job, step)' /\ Apart(job, step)'
      /\ \A s \in JobServer : Queued(job, step, s, pending[s])'
  BY <1>1 DEF JobsInv, AllFit, JobFits, OneActive, Apart, Unsettled, Queued
<1>. QED
  BY <1>4, <1>5, <1>6 DEF JobsInv

LEMMA ReconcileStep ==
  ASSUME JobsInv, NEW j \in Born, ReconcilePromotion(j)
  PROVE  JobsInv'
<1> DEFINE t == IF tx[j] = "open" THEN "rolledBack" ELSE "committed"
<1>1. /\ tx[j] \in {"open", "committing"} /\ ~Contended(job[j].source)
      /\ sourceLock' = [sourceLock EXCEPT ![job[j].source] = Null]
      /\ tx' = [tx EXCEPT ![j] = t]
      /\ UNCHANGED <<servers, job, mem, jobFiles, pending, timers, step, result, runs, badWrites>>
  BY DEF ReconcilePromotion, Unsettled
<1>2. j \in Job /\ job[j] \in Owned /\ job[j].source \in Source /\ Fits(j) /\ job[j] # Null
  BY JobFacts, OwnedFields DEF Born, Fits
<1>3. Typed
  BY <1>1, <1>2 DEF JobsInv, JobsTypeOK, Typed, Records, Transaction
<1>4. tx'[j] = t /\ \A k \in Job \ {j} : tx'[k] = tx[k]
  BY <1>1, <1>2 DEF JobsInv, JobsTypeOK
<1>5. Others(j)
  BY <1>1, <1>4 DEF Others
<1>6. Fits(j)'
  <2>1. /\ RecordFits(mem[j], result[j], tx[j]) /\ RecordFits(jobFiles[j], result[j], tx[j])
        /\ result[j] # "fail" /\ step[j] \notin {"unborn", "queued", "entering"}
    BY <1>1, <1>2 DEF Fits, JobFits
  <2>2. RecordFits(mem[j], result[j], t) /\ RecordFits(jobFiles[j], result[j], t)
    BY <1>1, <2>1 DEF RecordFits
  <2> HIDE DEF t
  <2>. QED
    BY <1>1, <1>2, <1>4, <2>1, <2>2 DEF Fits, JobFits
<1>7. \A k \in Job : step[k] \in InRunner => job[k].source # job[j].source
  BY <1>1, <1>2, FreeSource
<1>8. LockHeld(job, step)'
  <2>1. ASSUME NEW k \in Job, step[k] \in InRunner
        PROVE  sourceLock'[job[k].source] = job[k].owner
    BY <1>1, <1>2, <1>7, <2>1, LockMoves
  <2>. QED
    BY <1>1, <2>1 DEF LockHeld
<1>9. Apart(job, step)'
  BY <1>1, <1>4, <1>7 DEF JobsInv, Apart, Unsettled
<1>. QED
  BY <1>1, <1>2, <1>3, <1>5, <1>6, <1>8, <1>9, OneMoves

----------------------------------------------------------------------------
LEMMA JobsInvInit == JobsInit => JobsInv
<1> SUFFICES ASSUME JobsInit PROVE JobsInv
  OBVIOUS
<1>1. JobsTypeOK
  BY JobsAssumption DEF JobsInit, JobsTypeOK, Steps, Transaction
<1>2. AllFit(job, mem, jobFiles, step)
  BY DEF JobsInit, AllFit, JobFits, RecordFits, Live
<1>3. ASSUME NEW s \in JobServer PROVE Queued(job, step, s, pending[s])
  <2>1. pending[s] = <<>> /\ <<>> \in Seq(Job) /\ DOMAIN <<>> = {}
    BY DEF JobsInit
  <2>. QED
    BY <2>1 DEF JobsInit, Queued
<1>4. OneActive(job, step) /\ LockHeld(job, step) /\ Apart(job, step)
  BY DEF JobsInit, OneActive, LockHeld, Apart, InRunner
<1>. QED
  BY <1>1, <1>2, <1>3, <1>4 DEF JobsInv

LEMMA JobsInvNext == JobsInv /\ [JobsNext]_jobVars => JobsInv'
<1> SUFFICES ASSUME JobsInv, [JobsNext]_jobVars PROVE JobsInv'
  OBVIOUS
<1>1. ASSUME NEW j \in Born, Tick(j) PROVE JobsInv'
  BY <1>1, TickStep
<1>2. ASSUME NEW j \in Born, Requeue(j) \/ RequeueFails(j) \/ Refuse(j) \/ Enter(j) PROVE JobsInv'
  BY <1>2, RequeueStep, RequeueFailsStep, RefuseStep, EnterStep
<1>3. ASSUME NEW j \in Born, ProgressFails(j) \/ Prepare(j) \/ Advance(j) \/ RollBack(j)
      PROVE  JobsInv'
  BY <1>3, RunnerStep
<1>4. ASSUME NEW j \in Born, Link(j) \/ Leave(j) \/ Finish(j) \/ ReconcilePromotion(j)
      PROVE  JobsInv'
  BY <1>4, LinkStep, LeaveStep, FinishStep, ReconcileStep
<1>5. ASSUME NEW j \in Born, NEW s \in JobServer, GetJob(s, j) PROVE JobsInv'
  BY <1>5, GetJobStep
<1>6. ASSUME NEW s \in JobServer, ListJobs(s) \/ ServerDies(s) PROVE JobsInv'
  BY <1>6, ListJobsStep, ServerDiesStep
<1>7. ASSUME NEW s \in JobServer, NEW src \in Source, NEW j \in Job,
             StartJobFails(s, src, j) \/ \E bad \in 0 .. MaxJobs : StartJob(s, src, j, bad)
      PROVE  JobsInv'
  BY <1>7, StartJobStep, StartJobFailsStep
<1>8. ASSUME NEW src \in Source, CliTake(src) \/ CliDrop(src) PROVE JobsInv'
  BY <1>8, CliStep
<1>9. CASE UNCHANGED jobVars
  BY <1>9 DEF jobVars, JobsInv, JobsTypeOK, AllFit, JobFits, Queued, OneActive, LockHeld, Apart, Unsettled
<1>. QED
  BY <1>1, <1>2, <1>3, <1>4, <1>5, <1>6, <1>7, <1>8, <1>9 DEF JobsNext

(* The places of a job in a queue.                                         *)
LEMMA PlacesCounted ==
  ASSUME JobsInv, NEW s \in servers, NEW j \in Born, job[j].owner = s
  PROVE  Cardinality({i \in DOMAIN pending[s] : pending[s][i] = j}) =
           IF step[j] = "queued" THEN 1 ELSE 0
<1> DEFINE q == pending[s]
           P == {i \in DOMAIN q : q[i] = j}
<1>1. s \in JobServer /\ j \in Job /\ job[j] # Null
  BY DEF JobsInv, JobsTypeOK, Born
<1>2. /\ \A a, b \in DOMAIN q : q[a] = q[b] => a = b
      /\ (\E i \in DOMAIN q : q[i] = j) <=> step[j] = "queued"
  BY <1>1 DEF JobsInv, Queued
<1>3. CASE step[j] = "queued"
  <2>1. PICK i \in DOMAIN q : q[i] = j
    BY <1>2, <1>3
  <2>2. P = {i}
    BY <1>2, <2>1
  <2>. QED
    BY <1>3, <2>2, FS_Singleton
<1>4. CASE step[j] # "queued"
  <2>1. P = {}
    BY <1>2, <1>4
  <2>. QED
    BY <1>4, <2>1, FS_EmptySet
<1>. QED
  BY <1>3, <1>4

LEMMA JobsInvSound == JobsInv => JobsSound
<1> SUFFICES ASSUME JobsInv PROVE JobsSound
  OBVIOUS
<1>1. QueueInv
  <2>1. ASSUME NEW s \in servers, NEW j \in Born, job[j].owner = s, step[j] \in Active
        PROVE  /\ mem[j].status = "running"
               /\ \A k \in Born \ {j} : job[k] = job[j] => step[k] \notin Active
    <3>1. j \in Job /\ step[j] \in Live /\ step[j] # "queued" /\ job[j] # Null
      BY <2>1 DEF Active, Born, Live
    <3>2. mem[j].status = "running"
      BY <3>1, JobFacts DEF JobFits
    <3>. QED
      BY <2>1, <3>1, <3>2 DEF JobsInv, OneActive, Born
  <2>2. Active = {"entering", "running", "throwing", "finishing"}
    BY DEF Active, Live
  <2>. QED
    BY <2>1, <2>2, PlacesCounted DEF QueueInv, JobsInv
<1>2. RunsAlone
  <2>1. ASSUME NEW j \in Born, NEW k \in Born, j # k, job[j].source = job[k].source,
               step[j] \in InRunner
        PROVE  ~Unsettled(k) /\ step[k] \notin InRunner
    <3>1. j \in Job /\ k \in Job /\ job[k] # Null
      BY DEF Born
    <3>. QED
      BY <2>1, <3>1, OneRuns DEF JobsInv, Apart
  <2>. QED
    BY <2>1 DEF RunsAlone, InRunner
<1>3. NotReplayed
  BY JobFacts DEF NotReplayed, JobFits
<1>4. LiveRecordKept
  <2>1. \A j \in Born : step[j] \in Live => jobFiles[j] # Null /\ jobFiles[j].status # "interrupted"
    BY JobFacts DEF Born, JobFits
  <2>. QED
    BY <2>1 DEF LiveRecordKept, Live
<1>5. OkIsEarned
  <2> SUFFICES ASSUME NEW s \in servers, NEW j \in Born, Shown(s, j) # Null,
                      Shown(s, j).status = "ok"
               PROVE  result[j] = "ok" \/ tx[j] = "committed"
    BY DEF OkIsEarned
  <2>1. j \in Job /\ jobFiles[j] # Null
    BY DEF Shown, Born
  <2>. QED
    BY <2>1, ShownFits DEF RecordFits
<1>6. CommittedIsShown
  <2> SUFFICES ASSUME NEW s \in servers, NEW j \in Born,
                      jobFiles[j] # Null, jobFiles[j].linked, tx[j] = "committed",
                      s # job[j].owner, OwnerGone(j) \/ jobFiles[j].done
               PROVE  Shown(s, j).status = "ok"
    BY DEF CommittedIsShown
  <2> DEFINE r == jobFiles[j]
             i == Interrupted(j, r)
  <2>1. j \in Job /\ r \in JobRecord /\ RecordFits(r, result[j], tx[j]) /\ result[j] # "fail"
    BY JobFacts DEF Born, JobFits
  <2>2. r.status \in Status
    BY <2>1 DEF JobRecord
  <2>3. r.status # "fail"
    BY <2>1 DEF RecordFits
  <2>4. FromDisk(s, j)
    BY DEF FromDisk, Holds
  <2>5. i \in JobRecord /\ i.linked /\ i.status \in {"ok", "error", "interrupted"}
    <3>1. CASE r.status \in {"queued", "running"}
      <4>1. OwnerGone(j)
        BY <2>1, <3>1 DEF RecordFits
      <4>2. i = [r EXCEPT !.status = "interrupted", !.phase = "restarted", !.done = TRUE]
        BY <3>1, <4>1 DEF Interrupted
      <4>. QED
        BY <2>1, <4>2 DEF JobRecord, Status, Phase
    <3>2. CASE r.status \notin {"queued", "running"}
      <4>1. i = r
        BY <3>2 DEF Interrupted
      <4>. QED
        BY <2>1, <2>2, <2>3, <3>2, <4>1 DEF Status
    <3>. QED
      BY <3>1, <3>2
  <2>6. Shown(s, j) = Reconciled(j, i)
    BY <2>4 DEF Shown
  <2> HIDE DEF i
  <2>7. CASE i.status = "ok"
    BY <2>6, <2>7 DEF Reconciled, InDoubt
  <2>8. CASE i.status \in {"error", "interrupted"}
    <3>1. Shown(s, j) = [i EXCEPT !.phase = tx[j], !.status = "ok"]
      BY <2>5, <2>6, <2>8 DEF Reconciled, InDoubt, Committed
    <3>. QED
      BY <2>5, <3>1 DEF JobRecord
  <2>. QED
    BY <2>5, <2>7, <2>8
<1>. QED
  BY <1>1, <1>2, <1>3, <1>4, <1>5, <1>6 DEF JobsSound, BoardIsTrue

(* For any servers, sources and jobs, with deaths, failing writes and      *)
(* reconciliation in between: the queues of jobs.ts hold what is queued,   *)
(* nothing runs next to an unfinished transaction, a runner is entered     *)
(* once, no record of a job that may still run is lost, and the board      *)
(* shows what happened.                                                    *)
THEOREM JobsAreSound == JobsSpec => []JobsSound
<1> QED
  BY JobsInvInit, JobsInvNext, JobsInvSound, PTL DEF JobsSpec
===============================================================================
