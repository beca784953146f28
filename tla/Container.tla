------------------------------- MODULE Container ------------------------------
(***************************************************************************)
(* The service container of packages/di: an InstantiationService and one   *)
(* child of it. Resolution is a recursion through the constructors of the  *)
(* services; `stack` holds its calls, one step each.                       *)
(*                                                                         *)
(* A recipe is eager or lazy (supportsDelayedInstantiation); a lazy one is *)
(* handed out as a proxy and built when it is touched, by a caller or by   *)
(* the constructor that received it.                                       *)
(***************************************************************************)
EXTENDS Naturals, Sequences, SequencesExt, FiniteSets

CONSTANTS
  Svcs,         (* services, each under its identifier                     *)
  Order,        (* the order of the parameters of a constructor            *)
  MaxCalls,     (* bound: calls of get and touches from outside            *)
  MaxDepth,     (* bound: calls on the stack (the engine has one too)      *)
  None

VARIABLES
  kind,         (* "eager", "lazy" or "absent" (not registered)            *)
  needs,        (* the services a constructor declares                     *)
  touches,      (* constructors use what they received                     *)
  lenient,      (* parameters are optional: undefined when not registered  *)
  inChild,      (* the services registered in the child only               *)
  cache,        (* instances: per container, None, "proxy" or "built"      *)
  behind,       (* of a proxy: the call whose trail it keeps, and whether  *)
                (* its instance is built                                   *)
  owned,        (* per container, what it built, in order                  *)
  live,         (* the containers not disposed                             *)
  trail,        (* per call from outside, the identifiers under construction *)
  stack,
  calls,        (* calls from outside so far                               *)
  outcome,      (* of the last call: "none", "ok", "missing", "cycle",     *)
                (* "overflow", "disposed"                                  *)
  blamed,       (* the identifier a cycle was reported for                 *)
  ended         (* what dispose() was called on, in order                  *)

graphVars == <<kind, needs, touches, lenient, inChild>>
heldVars == <<cache, behind, owned>>
containerVars == <<graphVars, heldVars, live, trail, stack, calls, outcome, blamed, ended>>

Containers == {"parent", "child"}
NoProxy == [call |-> 0, built |-> FALSE]

Init ==
  /\ kind \in [Svcs -> {"eager", "lazy", "absent"}]
  /\ needs \in [Svcs -> SUBSET Svcs] /\ \A s \in Svcs : s \notin needs[s]
  /\ touches \in BOOLEAN
  /\ lenient \in BOOLEAN /\ (lenient => \E s \in Svcs : kind[s] = "absent")
  /\ inChild \in {{}} \cup {{Order[1]}}
  /\ cache = [c \in Containers |-> [s \in Svcs |-> None]]
  /\ behind = [c \in Containers |-> [s \in Svcs |-> NoProxy]]
  /\ owned = [c \in Containers |-> <<>>]
  /\ live = Containers
  /\ trail = [n \in 1..MaxCalls |-> <<>>]
  /\ stack = <<>> /\ calls = 0 /\ outcome = "none" /\ blamed = None
  /\ ended = <<>>

Registered(c, s) == kind[s] # "absent" /\ (c = "child") = (s \in inChild)
Has(c, s) == Registered(c, s) \/ (c = "child" /\ Registered("parent", s))
Params(s) == SelectSeq(Order, LAMBDA t : t \in needs[s])
Frame(op, c, s, n) == [op |-> op, in |-> c, svc |-> s, call |-> n, next |-> 1]
Top == Last(stack)
Under == Front(stack)
Call(f) == IF Len(stack) < MaxDepth
           THEN stack' = Append(stack, f) /\ UNCHANGED <<outcome, blamed>>
           ELSE stack' = <<>> /\ outcome' = "overflow" /\ UNCHANGED blamed

(* Mutant: a name is taken off the trail only when its service was built.  *)
ThrowOver(what, s) ==
  /\ stack' = <<>> /\ outcome' = what /\ blamed' = s
  /\ UNCHANGED trail

(* An exception leaves every call, and each takes its name off the trail   *)
(* (finally): the trails are as they were before the call from outside.    *)
Throw(what, s) ==
  /\ stack' = <<>> /\ outcome' = what /\ blamed' = s
  /\ trail' = [n \in DOMAIN trail |-> <<>>]

(* The caller goes on with its next parameter.                             *)
Returns ==
  IF Under = <<>> THEN stack' = <<>> /\ outcome' = "ok"
  ELSE /\ stack' = [Under EXCEPT ![Len(Under)].next = @ + 1]
       /\ UNCHANGED outcome

----------------------------------------------------------------------------
Get(c, s) ==
  /\ stack = <<>> /\ calls < MaxCalls
  /\ calls' = calls + 1
  /\ IF c \in live
     THEN stack' = <<Frame("resolve", c, s, calls + 1)>> /\ UNCHANGED outcome
     ELSE outcome' = "disposed" /\ UNCHANGED stack
  /\ UNCHANGED <<graphVars, heldVars, live, trail, blamed, ended>>

(* A member of a proxy is used: realise.                                   *)
Touch(c, s) ==
  /\ stack = <<>> /\ calls < MaxCalls
  /\ behind[c][s].call # 0 /\ ~behind[c][s].built
  /\ calls' = calls + 1
  /\ IF c \in live
     THEN stack' = <<Frame("realise", c, s, behind[c][s].call)>> /\ UNCHANGED outcome
     ELSE outcome' = "disposed" /\ UNCHANGED stack
  /\ UNCHANGED <<graphVars, heldVars, live, trail, blamed, ended>>

Resolving == stack # <<>> /\ Top.op = "resolve"

ResolveCached ==
  /\ Resolving /\ cache[Top.in][Top.svc] # None
  /\ Returns
  /\ UNCHANGED <<graphVars, heldVars, live, trail, calls, blamed, ended>>

ResolveAbove ==
  /\ Resolving /\ cache[Top.in][Top.svc] = None /\ ~Registered(Top.in, Top.svc)
  /\ IF Top.in = "child"
     THEN stack' = [stack EXCEPT ![Len(stack)].in = "parent"] /\ UNCHANGED <<trail, outcome, blamed>>
     ELSE Throw("missing", Top.svc)
  /\ UNCHANGED <<graphVars, heldVars, live, calls, ended>>

OnTrail(s) == \E i \in DOMAIN trail[Top.call] : trail[Top.call][i] = s

ResolveCycle ==
  /\ Resolving /\ cache[Top.in][Top.svc] = None /\ Registered(Top.in, Top.svc)
  /\ OnTrail(Top.svc)
  /\ Throw("cycle", Top.svc)
  /\ UNCHANGED <<graphVars, heldVars, live, calls, ended>>

(* The proxy is cached before anything is built, and keeps the trail of    *)
(* the call that resolved it.                                              *)
ResolveLazy ==
  /\ Resolving /\ cache[Top.in][Top.svc] = None /\ Registered(Top.in, Top.svc)
  /\ ~OnTrail(Top.svc) /\ kind[Top.svc] = "lazy"
  /\ cache' = [cache EXCEPT ![Top.in][Top.svc] = "proxy"]
  /\ behind' = [behind EXCEPT ![Top.in][Top.svc] = [call |-> Top.call, built |-> FALSE]]
  /\ Returns
  /\ UNCHANGED <<graphVars, owned, live, trail, calls, blamed, ended>>

Building(op) == [Top EXCEPT !.op = op, !.next = 1]

ResolveEager ==
  /\ Resolving /\ cache[Top.in][Top.svc] = None /\ Registered(Top.in, Top.svc)
  /\ ~OnTrail(Top.svc) /\ kind[Top.svc] = "eager"
  /\ trail' = [trail EXCEPT ![Top.call] = Append(@, Top.svc)]
  /\ stack' = Append(Under, Building("construct"))
  /\ UNCHANGED <<graphVars, heldVars, live, calls, outcome, blamed, ended>>

Realise ==
  /\ stack # <<>> /\ Top.op = "realise"
  /\ trail' = [trail EXCEPT ![Top.call] = Append(@, Top.svc)]
  /\ stack' = Append(Under, Building("construct"))
  /\ UNCHANGED <<graphVars, heldVars, live, calls, outcome, blamed, ended>>

(* construct: the declared services in the order of the parameters (an     *)
(* optional one is skipped when nothing is registered under it), then the  *)
(* constructor, which may use each of them once.                           *)
Constructing == stack # <<>> /\ Top.op = "construct"
Arguments == SelectSeq(Params(Top.svc), LAMBDA t : lenient => Has(Top.in, t))
Home(c, t) == IF c = "child" /\ Registered("child", t) THEN "child" ELSE "parent"
Pending(t) ==
  LET h == Home(Top.in, t) IN touches /\ behind[h][t].call # 0 /\ ~behind[h][t].built
Used == SelectSeq(Arguments, Pending)

Inject ==
  /\ Constructing /\ Top.next <= Len(Arguments)
  /\ Call(Frame("resolve", Top.in, Arguments[Top.next], Top.call))
  /\ trail' = IF stack' = <<>> THEN [n \in DOMAIN trail |-> <<>>] ELSE trail
  /\ UNCHANGED <<graphVars, heldVars, live, calls, ended>>

Use ==
  /\ Constructing /\ Top.next > Len(Arguments) /\ Used # <<>>
  /\ LET t == Head(Used)
         h == Home(Top.in, t)
     IN Call(Frame("realise", h, t, behind[h][t].call))
  /\ trail' = IF stack' = <<>> THEN [n \in DOMAIN trail |-> <<>>] ELSE trail
  /\ UNCHANGED <<graphVars, heldVars, live, calls, ended>>

Constructed ==
  /\ Constructing /\ Top.next > Len(Arguments) /\ Used = <<>>
  /\ trail' = [trail EXCEPT ![Top.call] = Front(@)]
  /\ owned' = [owned EXCEPT ![Top.in] = Append(@, Top.svc)]
  /\ IF kind[Top.svc] = "lazy"
     THEN behind' = [behind EXCEPT ![Top.in][Top.svc].built = TRUE] /\ UNCHANGED cache
     ELSE cache' = [cache EXCEPT ![Top.in][Top.svc] = "built"] /\ UNCHANGED behind
  /\ Returns
  /\ UNCHANGED <<graphVars, live, calls, blamed, ended>>

(* dispose: the children first, each container's services in the reverse   *)
(* of their construction.                                                  *)
Ends(c) == [i \in DOMAIN owned[c] |-> <<c, Reverse(owned[c])[i]>>]
Gone(c) == IF c = "parent" THEN Containers ELSE {c}

Dispose(c) ==
  /\ stack = <<>> /\ c \in live
  /\ live' = live \ Gone(c)
  /\ ended' = ended \o (IF c = "parent" /\ "child" \in live THEN Ends("child") ELSE <<>>) \o Ends(c)
  /\ owned' = [d \in Containers |-> IF d \in Gone(c) THEN <<>> ELSE owned[d]]
  /\ cache' = [d \in Containers |-> IF d \in Gone(c) THEN [s \in Svcs |-> None] ELSE cache[d]]
  /\ UNCHANGED <<graphVars, behind, trail, stack, calls, outcome, blamed>>

Next ==
  \/ \E c \in Containers :
       \/ Dispose(c)
       \/ \E s \in Svcs : Get(c, s) \/ Touch(c, s)
  \/ ResolveCached \/ ResolveAbove \/ ResolveCycle \/ ResolveLazy \/ ResolveEager
  \/ Realise \/ Inject \/ Use \/ Constructed

Spec == Init /\ [][Next]_containerVars

----------------------------------------------------------------------------
(* From s a path of declared services leads back to s.                     *)
Reach[n \in 0..Cardinality(Svcs), s \in Svcs] ==
  IF n = 0 THEN needs[s]
  ELSE Reach[n - 1, s] \cup UNION {needs[t] : t \in Reach[n - 1, s]}
Cyclic(s) == s \in Reach[Cardinality(Svcs), s]
Acyclic == \A s \in Svcs : ~Cyclic(s)

Count(q, x) == Cardinality({i \in DOMAIN q : q[i] = x})
Position(q, x) == CHOOSE i \in DOMAIN q : q[i] = x

(* A service is built at most once in a container, whether it was got,     *)
(* injected or touched first, and disposed at most once.                   *)
BuiltOnce ==
  \A c \in Containers, s \in Svcs :
    Count(owned[c], s) <= 1 /\ Count(ended, <<c, s>>) <= 1

(* A cycle is reported for a service on one, and without a cycle no call   *)
(* is refused or runs out of the stack: a call that failed leaves no trace *)
(* that a later one takes for a cycle.                                     *)
CycleIsReal ==
  /\ stack = <<>> => \A n \in DOMAIN trail : trail[n] = <<>>
  /\ outcome = "cycle" /\ blamed # None => Cyclic(blamed)
  /\ Acyclic => outcome \notin {"cycle", "overflow"}

(* A service that received another, eager one of its own container is      *)
(* disposed before it.                                                     *)
DisposedInOrder ==
  \A c \in Containers, s, t \in Svcs :
    /\ t \in needs[s] /\ kind[t] = "eager" /\ Home(c, t) = c
    /\ Count(ended, <<c, s>>) = 1 /\ Count(ended, <<c, t>>) = 1
    => Position(ended, <<c, s>>) < Position(ended, <<c, t>>)

(* What is built belongs to a container that is not disposed yet.          *)
NothingLeft == \A c \in Containers \ live : owned[c] = <<>>

ContainerSound == BuiltOnce /\ CycleIsReal /\ DisposedInOrder /\ NothingLeft

=============================================================================
