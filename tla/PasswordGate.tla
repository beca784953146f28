---------------------------- MODULE PasswordGate -----------------------------
(***************************************************************************)
(* How many password checks the login surface lets run: POST /login of     *)
(* packages/web-login/src/index.ts over the attempt limiter                *)
(* (attempt-limiter.ts) and the gate of the key derivation (kdf-gate.ts).  *)
(* An attempt passes the limiter before its body is read and is counted    *)
(* only when its derivation has ended; others run at both awaits.          *)
(***************************************************************************)
EXTENDS FiniteSets, Integers, Sequences

CONSTANTS
  Attempts,     (* POST /login requests, each repeated for ever            *)
  Clients,      (* limiter keys: masked addresses                          *)
  Limit,        (* options.attemptLimit: failures that block a client      *)
  GlobalLimit,  (* options.globalAttemptLimit                              *)
  MaxClients,   (* options.maxAttemptClients                               *)
  Concurrency, QueueDepth   (* options.kdfConcurrency, kdfQueueDepth       *)

ASSUME GateAssumption ==
  /\ IsFiniteSet(Attempts)
  /\ Clients # {} /\ "all" \notin Clients
  /\ Limit \in Nat \ {0} /\ GlobalLimit \in Nat \ {0}
  /\ MaxClients \in Nat /\ Concurrency \in Nat /\ QueueDepth \in Nat

VARIABLES
  attempt,      (* where each attempt is, and its client                   *)
  clients,      (* the limiter's records                                   *)
  total,        (* the budget all clients share                            *)
  active,       (* derivations the gate counts as running                  *)
  waiting,      (* callers waiting for a slot, oldest first                *)
  spent         (* history: failures of each client, and of all of them,   *)
                (* since its window or its block last ended                *)

gateVars == <<attempt, clients, total, active, waiting, spent>>

All == "all"
Fresh == [count |-> 0, blocked |-> FALSE, stale |-> FALSE]
Records == [count : 0..(Limit - 1), blocked : BOOLEAN, stale : BOOLEAN]

Init ==
  /\ attempt = [a \in Attempts |-> [at |-> "away", client |-> CHOOSE c \in Clients : TRUE]]
  /\ clients = <<>>
  /\ total = [count |-> 0, blocked |-> FALSE]
  /\ active = 0 /\ waiting = <<>>
  /\ spent = [c \in Clients \union {All} |-> 0]

Tracked == DOMAIN clients
At(a, place) == attempt[a].at = place
Move(a, place) == attempt' = [attempt EXCEPT ![a].at = place]

(* sweep: records neither blocked nor inside their window *)
Swept == [c \in {d \in Tracked : clients[d].blocked \/ ~clients[d].stale} |-> clients[c]]
With(records, c, r) == [d \in DOMAIN records \union {c} |-> IF d = c THEN r ELSE records[d]]

(* retryAfterMs(key) > 0 *)
Blocked(c) ==
  \/ total.blocked
  \/ IF c \in Tracked THEN clients[c].blocked ELSE Cardinality(Tracked) >= MaxClients

(* POST /login up to readBody: a blocked client is answered 429 *)
Arrive(a, c) ==
  /\ At(a, "away")
  /\ ~Blocked(c)
  /\ attempt' = [attempt EXCEPT ![a] = [at |-> "reading", client |-> c]]
  /\ UNCHANGED <<clients, total, active, waiting, spent>>

(* readBody ended with a body too large, or with none *)
Leave(a) ==
  /\ At(a, "reading")
  /\ Move(a, "away")
  /\ UNCHANGED <<clients, total, active, waiting, spent>>

(* kdf.run: a slot, a place in the queue, or a refusal (503) *)
Enter(a) ==
  /\ At(a, "reading")
  /\ \/ /\ active < Concurrency
        /\ active' = active + 1
        /\ Move(a, "deriving")
        /\ UNCHANGED waiting
     \/ /\ active >= Concurrency /\ Len(waiting) < QueueDepth
        /\ waiting' = Append(waiting, a)
        /\ Move(a, "waiting")
        /\ UNCHANGED active
     \/ /\ active >= Concurrency /\ Len(waiting) >= QueueDepth
        /\ Move(a, "away")
        /\ UNCHANGED <<active, waiting>>
  /\ UNCHANGED <<clients, total, spent>>

(* Mutant: the newest waiter first; the slot both handed over and freed *)
ReleaseNewest(a) ==
  IF waiting = <<>>
  THEN /\ active' = active - 1
       /\ Move(a, "away")
       /\ UNCHANGED waiting
  ELSE /\ waiting' = SubSeq(waiting, 1, Len(waiting) - 1)
       /\ attempt' = [attempt EXCEPT ![a].at = "away", ![waiting[Len(waiting)]].at = "deriving"]
       /\ UNCHANGED active

ReleaseAndHandOver(a) ==
  IF waiting = <<>>
  THEN /\ active' = active - 1
       /\ Move(a, "away")
       /\ UNCHANGED waiting
  ELSE /\ waiting' = Tail(waiting)
       /\ attempt' = [attempt EXCEPT ![a].at = "away", ![Head(waiting)].at = "deriving"]
       /\ active' = active - 1

(* release: the slot goes to the oldest waiter, or becomes free *)
Release(a) ==
  IF waiting = <<>>
  THEN /\ active' = active - 1
       /\ Move(a, "away")
       /\ UNCHANGED waiting
  ELSE /\ waiting' = Tail(waiting)
       /\ attempt' = [attempt EXCEPT ![a].at = "away", ![Head(waiting)].at = "deriving"]
       /\ UNCHANGED active

(* The shared budget is counted whether or not the client can be tracked *)
CountTotal ==
  IF total.count + 1 >= GlobalLimit
  THEN total' = [count |-> 0, blocked |-> TRUE]
  ELSE total' = [total EXCEPT !.count = @ + 1]

(* Mutant: the window's comparison the wrong way round *)
CountClientInverted(c) ==
  LET known == c \in DOMAIN Swept
      before == IF known /\ Swept[c].stale THEN Swept[c] ELSE Fresh
  IN  IF ~known /\ Cardinality(DOMAIN Swept) >= MaxClients THEN clients' = Swept
      ELSE clients' = With(Swept, c,
             IF before.count + 1 >= Limit
             THEN [Fresh EXCEPT !.blocked = TRUE]
             ELSE [before EXCEPT !.count = @ + 1])

(* The client's record, a new one when its window has elapsed; none for a  *)
(* newcomer to a full table                                                *)
CountClient(c) ==
  LET known == c \in DOMAIN Swept
      before == IF known /\ ~Swept[c].stale THEN Swept[c] ELSE Fresh
  IN  IF ~known /\ Cardinality(DOMAIN Swept) >= MaxClients THEN clients' = Swept
      ELSE clients' = With(Swept, c,
             IF before.count + 1 >= Limit
             THEN [Fresh EXCEPT !.blocked = TRUE]
             ELSE [before EXCEPT !.count = @ + 1])

(* verifyPassword ended: a wrong password (limiter.fail) *)
Wrong(a) ==
  LET c == attempt[a].client IN
  /\ At(a, "deriving")
  /\ Release(a)
  /\ CountTotal
  /\ CountClient(c)
  /\ spent' = [spent EXCEPT ![c] = IF c \in DOMAIN clients' THEN @ + 1 ELSE 0, ![All] = @ + 1]

(* the right one: limiter.succeed, unless the session store is full (503). *)
(* A block on all clients stays.                                           *)
Right(a) ==
  LET c == attempt[a].client IN
  /\ At(a, "deriving")
  /\ Release(a)
  /\ clients' = [d \in Tracked \ {c} |-> clients[d]]
  /\ total' = [total EXCEPT !.count = 0]
  /\ spent' = [spent EXCEPT ![c] = 0, ![All] = IF total.blocked THEN @ ELSE 0]

NoSession(a) ==
  /\ At(a, "deriving")
  /\ Release(a)
  /\ UNCHANGED <<clients, total, spent>>

(* Time: windows and blocks run out, and the timer sweeps.  A block starts *)
(* a window and does not outlast it: blockMs <= attemptWindowMs, as in the *)
(* DEFAULT_OPTIONS.                                                        *)
WindowElapses(c) ==
  /\ c \in Tracked /\ ~clients[c].stale /\ ~clients[c].blocked
  /\ clients' = [clients EXCEPT ![c].stale = TRUE]
  /\ spent' = [spent EXCEPT ![c] = 0]
  /\ UNCHANGED <<attempt, total, active, waiting>>

BlockEnds(c) ==
  /\ c \in Tracked /\ clients[c].blocked
  /\ clients' = [clients EXCEPT ![c].blocked = FALSE]
  /\ spent' = [spent EXCEPT ![c] = 0]
  /\ UNCHANGED <<attempt, total, active, waiting>>

TotalElapses ==
  /\ total # [count |-> 0, blocked |-> FALSE]
  /\ total' = [count |-> 0, blocked |-> FALSE]
  /\ spent' = [spent EXCEPT ![All] = 0]
  /\ UNCHANGED <<attempt, clients, active, waiting>>

Sweep ==
  /\ Swept # clients
  /\ clients' = Swept
  /\ UNCHANGED <<attempt, total, active, waiting, spent>>

Next ==
  \/ \E a \in Attempts :
       \/ \E c \in Clients : Arrive(a, c)
       \/ Leave(a) \/ Enter(a) \/ Wrong(a) \/ Right(a) \/ NoSession(a)
  \/ \E c \in Clients : WindowElapses(c) \/ BlockEnds(c)
  \/ TotalElapses \/ Sweep

Spec == Init /\ [][Next]_gateVars

(* scrypt always comes to an end *)
Derived(a) == Wrong(a) \/ Right(a) \/ NoSession(a)
FairSpec == Spec /\ \A a \in Attempts : WF_gateVars(Derived(a))

----------------------------------------------------------------------------
(* Properties *)

(* Types: the queue holds the attempts that wait, each once. *)
GateTypeOK ==
  /\ \A c \in Tracked : clients[c] \in Records
  /\ \A a \in Attempts : At(a, "waiting") <=> \E i \in 1..Len(waiting) : waiting[i] = a
  /\ Len(waiting) <= QueueDepth

(* kdf-gate.ts: the slots counted are the derivations that run, at most    *)
(* Concurrency of them, and nobody waits while one is free: a slot is      *)
(* handed over, not given back and taken again.                            *)
SlotsAreDerivations ==
  /\ GateTypeOK
  /\ active = Cardinality({a \in Attempts : At(a, "deriving")})
  /\ active <= Concurrency
  /\ waiting # <<>> => active = Concurrency

(* attempt-limiter.ts: wrong guesses of a tracked client between two ends  *)
(* of its window or block, and of all clients together, tracked or not,    *)
(* are at most the limit plus those that were past the check by then.      *)
GuessesBounded ==
  LET others == Cardinality(Attempts) - 1 IN
  /\ \A c \in Clients : spent[c] <= Limit + others
  /\ spent[All] <= GlobalLimit + others

(* Both limits hold, whatever the others do at the awaits in between.      *)
GateBounded == SlotsAreDerivations /\ GuessesBounded

(* kdf-gate.ts: a caller that waits is served, however many arrive later   *)
WaitersServed == \A a \in Attempts : At(a, "waiting") ~> At(a, "deriving")

=============================================================================
