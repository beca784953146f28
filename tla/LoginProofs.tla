----------------------------- MODULE LoginProofs ------------------------------
(***************************************************************************)
(* Proofs about the gate of the web login: the limiter of the password     *)
(* attempts with its queue (PasswordGate) and the sessions, callbacks and  *)
(* documents of the flows (Authorization).                                 *)
(***************************************************************************)
EXTENDS PasswordGate, Authorization, FiniteSetTheorems, SequenceTheorems, TLAPS

----------------------------------------------------------------------------
(***************************************************************************)
(* Proofs about PasswordGate: for any finite set of attempts, any clients  *)
(* and any limits, the slots counted are the derivations that run, and     *)
(* the wrong guesses of a client and of all clients exceed the limit by no *)
(* more than the attempts that were past the check.                        *)
(***************************************************************************)

Places == {"away", "reading", "waiting", "deriving"}

Types ==
  /\ attempt \in [Attempts -> [at : Places, client : Clients]]
  /\ Tracked \subseteq Clients
  /\ \A c \in Tracked : clients[c] \in Records
  /\ total \in [count : 0..(GlobalLimit - 1), blocked : BOOLEAN]
  /\ active \in Nat
  /\ waiting \in Seq(Attempts)
  /\ spent \in [Clients \union {All} -> Nat]

(* The queue holds whoever waits, once.  SlotsAreDerivations alone is not  *)
(* inductive: were somebody in it twice, his slot would be handed over     *)
(* again while he runs.                                                    *)
Queue ==
  /\ \A i, j \in 1..Len(waiting) : waiting[i] = waiting[j] => i = j
  /\ \A a \in Attempts : At(a, "waiting") <=> \E i \in 1..Len(waiting) : waiting[i] = a
  /\ Len(waiting) <= QueueDepth

Deriving == {a \in Attempts : At(a, "deriving")}

Slots ==
  /\ active = Cardinality(Deriving)
  /\ active <= Concurrency
  /\ waiting # <<>> => active = Concurrency

(* Who has passed the check and may still guess wrong.                     *)
Past(c) == {a \in Attempts : ~At(a, "away") /\ attempt[a].client = c}
PastAll == {a \in Attempts : ~At(a, "away")}

Others == Cardinality(Attempts) - 1

(* Before a block every wrong guess is in the count; from the block on     *)
(* nobody passes the check, and each guess uses up one who had.            *)
ClientBudget(c) ==
  /\ c \notin Tracked => spent[c] = 0
  /\ c \in Tracked =>
       /\ clients[c].stale => ~clients[c].blocked /\ spent[c] = 0
       /\ ~clients[c].blocked => spent[c] <= clients[c].count
       /\ clients[c].blocked => spent[c] + Cardinality(Past(c)) <= Limit + Others

TotalBudget ==
  /\ ~total.blocked => spent[All] <= total.count
  /\ total.blocked => spent[All] + Cardinality(PastAll) <= GlobalLimit + Others

IInv ==
  /\ Types
  /\ Queue
  /\ Slots
  /\ \A c \in Clients : ClientBudget(c)
  /\ TotalBudget

-----------------------------------------------------------------------------
USE GateAssumption DEF All

LEMMA PastFinite ==
  /\ IsFiniteSet(Attempts) /\ Cardinality(Attempts) \in Nat /\ Others \in Int
  /\ IsFiniteSet(Deriving) /\ IsFiniteSet(PastAll) /\ \A c \in Clients : IsFiniteSet(Past(c))
  /\ Cardinality(Deriving) \in Nat /\ Cardinality(PastAll) \in Nat
  /\ \A c \in Clients : Cardinality(Past(c)) \in Nat
<1>1. Deriving \subseteq Attempts /\ PastAll \subseteq Attempts
      /\ \A c \in Clients : Past(c) \subseteq Attempts
  BY DEF Deriving, PastAll, Past
<1>2. IsFiniteSet(Deriving) /\ IsFiniteSet(PastAll) /\ \A c \in Clients : IsFiniteSet(Past(c))
  BY <1>1, FS_Subset
<1> QED
  BY <1>2, FS_CardinalityType DEF Others

LEMMA InitIInv == Init => IInv
<1> SUFFICES ASSUME Init PROVE IInv
  OBVIOUS
<1>1. (CHOOSE c \in Clients : TRUE) \in Clients
  OBVIOUS
<1>2. Types
  <2>1. attempt \in [Attempts -> [at : Places, client : Clients]]
    BY <1>1 DEF Init, Places
  <2>2. Tracked = {} /\ waiting \in Seq(Attempts) /\ active \in Nat
    BY DEF Init, Tracked
  <2>3. total \in [count : 0..(GlobalLimit - 1), blocked : BOOLEAN]
    BY DEF Init
  <2>4. spent \in [Clients \union {All} -> Nat]
    BY DEF Init
  <2> QED
    BY <2>1, <2>2, <2>3, <2>4 DEF Types
<1>3. Len(waiting) = 0 /\ \A a \in Attempts : At(a, "away")
  BY DEF Init, At
<1>4. Queue
  BY <1>3 DEF Queue, At
<1>5. Slots
  <2>1. Deriving = {}
    BY <1>3 DEF Deriving, At
  <2> QED
    BY <2>1, FS_EmptySet DEF Slots, Init
<1>6. \A c \in Clients : ClientBudget(c)
  BY DEF Init, ClientBudget, Tracked
<1>7. TotalBudget
  BY DEF Init, TotalBudget
<1> QED
  BY <1>2, <1>4, <1>5, <1>6, <1>7 DEF IInv

-----------------------------------------------------------------------------
(* What the end of a derivation does to the queue, whatever it yielded.    *)
LEMMA ReleaseKeeps ==
  ASSUME IInv, NEW a \in Attempts, At(a, "deriving"), Release(a)
  PROVE  /\ attempt' \in [Attempts -> [at : Places, client : Clients]]
         /\ waiting' \in Seq(Attempts) /\ active' \in Nat
         /\ Queue' /\ Slots'
         /\ \A c \in Clients : Past(c)' = Past(c) \ {a}
         /\ PastAll' = PastAll \ {a}
<1>1. Types /\ Queue /\ Slots
  BY DEF IInv
<1>2. a \in Deriving
  BY DEF Deriving
<1>3. IsFiniteSet(Deriving) /\ Cardinality(Deriving) \in Nat
  BY PastFinite
<1>4. Cardinality(Deriving \ {a}) = Cardinality(Deriving) - 1
  BY <1>2, <1>3, FS_RemoveElement
<1>5. CASE waiting = <<>>
  <2>1. active' = active - 1 /\ waiting' = waiting /\ attempt' = [attempt EXCEPT ![a].at = "away"]
    BY <1>5 DEF Release, Move
  <2>2. attempt' \in [Attempts -> [at : Places, client : Clients]]
    BY <1>1, <2>1 DEF Types, Places
  <2>3. \A b \in Attempts : /\ attempt'[b].client = attempt[b].client
                            /\ attempt'[b].at = IF b = a THEN "away" ELSE attempt[b].at
    BY <1>1, <2>1 DEF Types
  <2>4. Deriving' = Deriving \ {a}
    BY <2>3 DEF Deriving, At
  <2>5. Queue'
    BY <1>1, <2>1, <2>3 DEF Queue, At
  <2>6. Slots' /\ active' \in Nat
    <3>1. Cardinality(Deriving \ {a}) \in Nat
      BY <1>3, FS_RemoveElement, FS_CardinalityType
    <3> QED
      BY <1>1, <1>3, <1>4, <1>5, <2>1, <2>4, <3>1 DEF Slots
  <2>7. (\A c \in Clients : Past(c)' = Past(c) \ {a}) /\ PastAll' = PastAll \ {a}
    BY <2>3 DEF Past, PastAll, At
  <2> QED
    BY <1>1, <2>1, <2>2, <2>5, <2>6, <2>7 DEF Types
<1>6. CASE waiting # <<>>
  <2> DEFINE h == Head(waiting)
  <2>1. /\ h \in Attempts /\ waiting' = Tail(waiting) /\ active' = active
        /\ attempt' = [attempt EXCEPT ![a].at = "away", ![h].at = "deriving"]
    BY <1>1, <1>6, HeadTailProperties DEF Release, Types
  <2>2. /\ Len(waiting) \in Nat \ {0} /\ h = waiting[1]
        /\ waiting' \in Seq(Attempts) /\ Len(waiting') = Len(waiting) - 1
        /\ \A i \in 1..Len(waiting') : waiting'[i] = waiting[i + 1]
    BY <1>1, <1>6, <2>1, HeadTailProperties, EmptySeq DEF Types
  <2>3. At(h, "waiting") /\ h # a
    <3>1. 1 \in 1..Len(waiting)
      BY <2>2
    <3> QED
      BY <1>1, <2>1, <2>2, <3>1 DEF Queue, At
  <2> HIDE DEF h
  <2>4. attempt' \in [Attempts -> [at : Places, client : Clients]]
    BY <1>1, <2>1, <2>3 DEF Types, Places
  <2>5. \A b \in Attempts : /\ attempt'[b].client = attempt[b].client
                            /\ attempt'[b].at = IF b = a THEN "away"
                                                ELSE IF b = h THEN "deriving" ELSE attempt[b].at
    BY <1>1, <2>1, <2>3 DEF Types
  <2>6. Deriving' = (Deriving \ {a}) \union {h}
    <3>1. \A b \in Attempts :
            attempt'[b].at = "deriving" <=> (b # a /\ attempt[b].at = "deriving") \/ b = h
      BY <2>3, <2>5
    <3>2. Deriving' = {b \in Attempts : attempt'[b].at = "deriving"}
      BY DEF Deriving, At
    <3> QED
      BY <2>1, <3>1, <3>2 DEF Deriving, At
  <2>7. Cardinality(Deriving') = Cardinality(Deriving)
    <3>1. h \notin Deriving \ {a} /\ IsFiniteSet(Deriving \ {a})
      BY <1>3, <2>3, FS_RemoveElement DEF Deriving, At
    <3>2. Cardinality((Deriving \ {a}) \union {h}) = Cardinality(Deriving \ {a}) + 1
      BY <3>1, FS_AddElement
    <3> QED
      BY <1>3, <1>4, <2>6, <3>2
  <2>8. Queue'
    <3>1. \A i, j \in 1..Len(waiting') : waiting'[i] = waiting'[j] => i = j
      <4>1. SUFFICES ASSUME NEW i \in 1..Len(waiting'), NEW j \in 1..Len(waiting'),
                            waiting'[i] = waiting'[j]
                     PROVE  i = j
        OBVIOUS
      <4>2. i + 1 \in 1..Len(waiting) /\ j + 1 \in 1..Len(waiting)
        BY <2>2, <4>1
      <4>3. waiting[i + 1] = waiting[j + 1]
        BY <2>2, <4>1
      <4>4. i + 1 = j + 1
        BY <1>1, <4>2, <4>3 DEF Queue
      <4> QED
        BY <4>4
    <3>2. \A i \in 1..Len(waiting') : waiting'[i] # h
      <4>1. SUFFICES ASSUME NEW i \in 1..Len(waiting'), waiting'[i] = h PROVE FALSE
        OBVIOUS
      <4>2. i + 1 \in 1..Len(waiting) /\ 1 \in 1..Len(waiting) /\ waiting[i + 1] = waiting[1]
        BY <2>2, <4>1
      <4>3. i + 1 = 1
        BY <1>1, <4>2 DEF Queue
      <4> QED
        BY <4>1, <4>3
    <3>3. ASSUME NEW b \in Attempts
          PROVE  At(b, "waiting")' <=> \E i \in 1..Len(waiting') : waiting'[i] = b
      <4>1. At(b, "waiting")' <=> At(b, "waiting") /\ b # h
        BY <2>3, <2>5 DEF At
      <4>2. ASSUME At(b, "waiting"), b # h
            PROVE  \E i \in 1..Len(waiting') : waiting'[i] = b
        <5>1. PICK k \in 1..Len(waiting) : waiting[k] = b
          BY <1>1, <4>2 DEF Queue
        <5>2. k # 1
          BY <2>2, <4>2, <5>1
        <5>3. k - 1 \in 1..Len(waiting') /\ waiting'[k - 1] = waiting[(k - 1) + 1]
          BY <2>2, <5>1, <5>2
        <5> QED
          BY <5>1, <5>3
      <4>3. ASSUME NEW i \in 1..Len(waiting'), waiting'[i] = b
            PROVE  At(b, "waiting") /\ b # h
        <5>1. i + 1 \in 1..Len(waiting) /\ waiting[i + 1] = b
          BY <2>2, <4>3
        <5> QED
          BY <1>1, <3>2, <4>3, <5>1 DEF Queue
      <4> QED
        BY <4>1, <4>2, <4>3
    <3> QED
      BY <1>1, <2>2, <3>1, <3>3 DEF Queue
  <2>9. Slots'
    BY <1>1, <1>6, <2>1, <2>7 DEF Slots
  <2>10. (\A c \in Clients : Past(c)' = Past(c) \ {a}) /\ PastAll' = PastAll \ {a}
    BY <2>3, <2>5 DEF Past, PastAll, At
  <2> QED
    BY <1>1, <2>1, <2>2, <2>4, <2>8, <2>9, <2>10 DEF Types
<1> QED
  BY <1>5, <1>6

-----------------------------------------------------------------------------
(* What a wrong guess does to the limiter's records: the client's own is   *)
(* blocked, or has counted the guess; of the others only those whose       *)
(* window has elapsed disappear.                                           *)
LEMMA SweptRecords ==
  /\ DOMAIN Swept = {d \in Tracked : clients[d].blocked \/ ~clients[d].stale}
  /\ \A d \in DOMAIN Swept : Swept[d] = clients[d]
BY DEF Swept

LEMMA CountedRecords ==
  ASSUME IInv, NEW c \in Clients, CountClient(c)
  PROVE  /\ Tracked' \subseteq Clients
         /\ \A d \in Tracked' : clients'[d] \in Records
         /\ \A d \in Clients \ {c} :
              /\ d \in Tracked' => d \in Tracked /\ clients'[d] = clients[d]
              /\ d \notin Tracked' => d \notin Tracked \/ clients[d].stale
         /\ c \in Tracked' =>
              /\ ~clients'[c].stale
              /\ clients'[c].blocked =>
                   (c \in Tracked /\ clients[c].blocked) \/ spent[c] + 1 <= Limit
              /\ ~clients'[c].blocked => spent[c] + 1 <= clients'[c].count
<1>1. Types /\ ClientBudget(c) /\ spent[c] \in Nat
  BY DEF IInv, Types
<1> DEFINE known == c \in DOMAIN Swept
           before == IF known /\ ~Swept[c].stale THEN Swept[c] ELSE Fresh
           after == IF before.count + 1 >= Limit
                    THEN [Fresh EXCEPT !.blocked = TRUE]
                    ELSE [before EXCEPT !.count = @ + 1]
<1>2. Fresh \in Records /\ Fresh.count = 0 /\ ~Fresh.blocked /\ ~Fresh.stale
  BY DEF Fresh, Records
<1>3. /\ before \in Records /\ ~before.stale
      /\ before.blocked => c \in Tracked /\ clients[c].blocked
      /\ ~before.blocked => spent[c] <= before.count
  <2>1. CASE known /\ ~Swept[c].stale
    BY <1>1, <2>1, SweptRecords DEF Types, ClientBudget
  <2>2. CASE ~(known /\ ~Swept[c].stale)
    BY <1>1, <1>2, <2>2, SweptRecords DEF ClientBudget
  <2> QED
    BY <2>1, <2>2
<1> HIDE DEF before
<1>4. before.count \in 0..(Limit - 1)
  BY <1>3 DEF Records
<1>5. /\ after \in Records /\ ~after.stale
      /\ after.blocked => (c \in Tracked /\ clients[c].blocked) \/ spent[c] + 1 <= Limit
      /\ ~after.blocked => spent[c] + 1 <= after.count
  <2>1. CASE before.count + 1 >= Limit
    <3>1. after = [count |-> 0, blocked |-> TRUE, stale |-> FALSE]
      BY <2>1 DEF Fresh
    <3>2. after \in Records
      BY <1>2, <3>1 DEF Fresh, Records
    <3>3. ~before.blocked => spent[c] + 1 <= Limit
      BY <1>1, <1>3, <1>4
    <3> HIDE DEF after
    <3> QED
      BY <1>3, <3>1, <3>2, <3>3
  <2>2. CASE ~(before.count + 1 >= Limit)
    <3>1. after = [before EXCEPT !.count = before.count + 1]
      BY <2>2
    <3>2. before.count + 1 \in 0..(Limit - 1)
      BY <1>4, <2>2
    <3> HIDE DEF after
    <3>3. after \in Records /\ after.blocked = before.blocked /\ after.stale = before.stale
          /\ after.count = before.count + 1
      BY <1>3, <3>1, <3>2 DEF Records
    <3> QED
      BY <1>1, <1>3, <1>4, <3>3
  <2> QED
    BY <2>1, <2>2
<1>6. clients' = Swept \/ clients' = With(Swept, c, after)
  BY DEF CountClient, before
<1> HIDE DEF after
<1>7. CASE clients' = Swept /\ ~known
  BY <1>1, <1>7, SweptRecords DEF Types, Tracked
<1>8. CASE clients' = With(Swept, c, after)
  <2>1. /\ Tracked' = DOMAIN Swept \union {c}
        /\ \A d \in Tracked' : clients'[d] = IF d = c THEN after ELSE Swept[d]
    BY <1>8 DEF With, Tracked
  <2> QED
    BY <1>1, <1>5, <2>1, SweptRecords DEF Types
<1> QED
  BY <1>7, <1>8 DEF CountClient, before, after

-----------------------------------------------------------------------------
(* Every step keeps IInv. *)
LEMMA WrongStep ==
  ASSUME IInv, NEW a \in Attempts, Wrong(a)
  PROVE  IInv'
<1>1. Types /\ TotalBudget /\ \A d \in Clients : ClientBudget(d)
  BY DEF IInv
<1>2. PICK c \in Clients : c = attempt[a].client
  BY <1>1 DEF Types
<1>3. /\ At(a, "deriving") /\ Release(a) /\ CountTotal /\ CountClient(c)
      /\ spent' = [spent EXCEPT ![c] = IF c \in Tracked' THEN @ + 1 ELSE 0, ![All] = @ + 1]
  BY <1>2 DEF Wrong, Tracked
<1>4. /\ attempt' \in [Attempts -> [at : Places, client : Clients]]
      /\ waiting' \in Seq(Attempts) /\ active' \in Nat
      /\ Queue' /\ Slots'
      /\ \A d \in Clients : Past(d)' = Past(d) \ {a}
      /\ PastAll' = PastAll \ {a}
  BY <1>3, ReleaseKeeps
<1>5. a \in PastAll /\ a \in Past(c) /\ \A d \in Clients \ {c} : a \notin Past(d)
  BY <1>2, <1>3 DEF PastAll, Past, At
<1>6. spent \in [Clients \union {All} -> Nat] /\ spent[c] \in Nat /\ spent[All] \in Nat /\ c # All
  BY <1>1 DEF Types
<1>7. /\ spent' \in [Clients \union {All} -> Nat]
      /\ spent'[c] = (IF c \in Tracked' THEN spent[c] + 1 ELSE 0)
      /\ spent'[All] = spent[All] + 1
      /\ \A d \in Clients \ {c} : spent'[d] = spent[d]
  BY <1>3, <1>6
<1>8. /\ Tracked' \subseteq Clients
      /\ \A d \in Tracked' : clients'[d] \in Records
      /\ \A d \in Clients \ {c} :
           /\ d \in Tracked' => d \in Tracked /\ clients'[d] = clients[d]
           /\ d \notin Tracked' => d \notin Tracked \/ clients[d].stale
      /\ c \in Tracked' =>
           /\ ~clients'[c].stale
           /\ clients'[c].blocked => (c \in Tracked /\ clients[c].blocked) \/ spent[c] + 1 <= Limit
           /\ ~clients'[c].blocked => spent[c] + 1 <= clients'[c].count
  BY <1>3, CountedRecords
<1>9. total.count \in 0..(GlobalLimit - 1) /\ total.blocked \in BOOLEAN
  BY <1>1 DEF Types
<1>10. /\ total' \in [count : 0..(GlobalLimit - 1), blocked : BOOLEAN]
       /\ ~total'.blocked => ~total.blocked /\ total'.count = total.count + 1
       /\ total'.blocked => total.blocked \/ total.count + 1 >= GlobalLimit
  <2>1. CASE total.count + 1 >= GlobalLimit
    <3>1. total' = [count |-> 0, blocked |-> TRUE]
      BY <1>3, <2>1 DEF CountTotal
    <3>2. 0 \in 0..(GlobalLimit - 1)
      OBVIOUS
    <3> QED
      BY <2>1, <3>1, <3>2
  <2>2. CASE ~(total.count + 1 >= GlobalLimit)
    <3>1. total' = [total EXCEPT !.count = total.count + 1]
      BY <1>3, <2>2 DEF CountTotal
    <3>2. total.count + 1 \in 0..(GlobalLimit - 1)
      BY <1>9, <2>2
    <3>3. total \in [count : 0..(GlobalLimit - 1), blocked : BOOLEAN]
      BY <1>1 DEF Types
    <3> QED
      BY <3>1, <3>2, <3>3
  <2> QED
    BY <2>1, <2>2
<1>11. Types'
  BY <1>4, <1>7, <1>8, <1>10 DEF Types
<1>12. TotalBudget'
  <2>1. Cardinality(PastAll') = Cardinality(PastAll) - 1
    BY <1>4, <1>5, PastFinite, FS_RemoveElement
  <2>2. Cardinality(PastAll) <= Cardinality(Attempts)
    BY PastFinite, FS_Subset DEF PastAll
  <2>3. CASE ~total'.blocked
    BY <1>1, <1>6, <1>7, <1>9, <1>10, <2>3 DEF TotalBudget
  <2>4. CASE total'.blocked
    <3>1. spent[All] + Cardinality(PastAll) <= GlobalLimit + Cardinality(Attempts)
      BY <1>1, <1>6, <1>9, <1>10, <2>2, <2>4, PastFinite DEF TotalBudget, Others
    <3>2. total.blocked \/ spent[All] + 1 <= GlobalLimit + 0
      BY <1>1, <1>6, <1>9, <1>10, <2>4 DEF TotalBudget
    <3>3. spent[All] + 1 + (Cardinality(PastAll) - 1) <= GlobalLimit + Others
      BY <1>1, <1>6, <2>2, <3>1, <3>2, PastFinite DEF TotalBudget, Others
    <3> QED
      BY <1>7, <2>1, <2>4, <3>3 DEF TotalBudget, Others
  <2> QED
    BY <2>3, <2>4
<1>13. ASSUME NEW d \in Clients, d # c PROVE ClientBudget(d)'
  <2>1. Past(d)' = Past(d)
    <3>1. a \notin Past(d) /\ Past(d)' = Past(d) \ {a}
      BY <1>4, <1>5, <1>13
    <3> QED
      BY <3>1
  <2> QED
    BY <1>1, <1>7, <1>8, <1>13, <2>1 DEF ClientBudget, Others
<1>14. ClientBudget(c)'
  <2>1. Cardinality(Past(c)') = Cardinality(Past(c)) - 1
    BY <1>4, <1>5, PastFinite, FS_RemoveElement
  <2>2. Cardinality(Past(c)) <= Cardinality(Attempts) /\ Cardinality(Past(c)) \in Nat
    BY PastFinite, FS_Subset DEF Past
  <2>3. CASE c \in Tracked'
    <3>1. CASE clients'[c].blocked
      <4>1. spent[c] + 1 + (Cardinality(Past(c)) - 1) <= Limit + Others
        BY <1>1, <1>6, <1>8, <2>2, <2>3, <3>1, PastFinite DEF ClientBudget, Others
      <4> QED
        BY <1>7, <1>8, <2>1, <2>3, <3>1, <4>1 DEF ClientBudget, Others
    <3>2. CASE ~clients'[c].blocked
      BY <1>7, <1>8, <2>3, <3>2 DEF ClientBudget
    <3> QED
      BY <3>1, <3>2
  <2>4. CASE c \notin Tracked'
    BY <1>7, <2>4 DEF ClientBudget
  <2> QED
    BY <2>3, <2>4
<1> QED
  BY <1>4, <1>11, <1>12, <1>13, <1>14 DEF IInv

LEMMA RightStep ==
  ASSUME IInv, NEW a \in Attempts, Right(a)
  PROVE  IInv'
<1>1. Types /\ TotalBudget /\ \A d \in Clients : ClientBudget(d)
  BY DEF IInv
<1>2. PICK c \in Clients : c = attempt[a].client
  BY <1>1 DEF Types
<1>3. /\ At(a, "deriving") /\ Release(a)
      /\ clients' = [d \in Tracked \ {c} |-> clients[d]]
      /\ total' = [total EXCEPT !.count = 0]
      /\ spent' = [spent EXCEPT ![c] = 0, ![All] = IF total.blocked THEN @ ELSE 0]
  BY <1>2 DEF Right
<1>4. /\ attempt' \in [Attempts -> [at : Places, client : Clients]]
      /\ waiting' \in Seq(Attempts) /\ active' \in Nat
      /\ Queue' /\ Slots'
      /\ \A d \in Clients : Past(d)' = Past(d) \ {a}
      /\ PastAll' = PastAll \ {a}
  BY <1>3, ReleaseKeeps
<1>5. a \in PastAll /\ \A d \in Clients \ {c} : a \notin Past(d)
  BY <1>2, <1>3 DEF PastAll, Past, At
<1>6. spent \in [Clients \union {All} -> Nat] /\ spent[All] \in Nat /\ c # All
  BY <1>1 DEF Types
<1>7. /\ spent' \in [Clients \union {All} -> Nat]
      /\ spent'[c] = 0
      /\ spent'[All] = (IF total.blocked THEN spent[All] ELSE 0)
      /\ \A d \in Clients \ {c} : spent'[d] = spent[d]
  BY <1>3, <1>6
<1>8. Tracked' = Tracked \ {c} /\ \A d \in Tracked' : clients'[d] = clients[d]
  BY <1>3 DEF Tracked
<1>9. /\ total' \in [count : 0..(GlobalLimit - 1), blocked : BOOLEAN]
      /\ total'.blocked = total.blocked /\ total'.count = 0
  <2>1. total \in [count : 0..(GlobalLimit - 1), blocked : BOOLEAN] /\ 0 \in 0..(GlobalLimit - 1)
    BY <1>1 DEF Types
  <2> QED
    BY <1>3, <2>1
<1>10. Types'
  BY <1>1, <1>4, <1>7, <1>8, <1>9 DEF Types
<1>11. TotalBudget'
  <2>1. Cardinality(PastAll') = Cardinality(PastAll) - 1
    BY <1>4, <1>5, PastFinite, FS_RemoveElement
  <2> QED
    BY <1>1, <1>6, <1>7, <1>9, <2>1, PastFinite DEF TotalBudget, Others
<1>12. ASSUME NEW d \in Clients, d # c PROVE ClientBudget(d)'
  <2>1. Past(d)' = Past(d)
    <3>1. a \notin Past(d) /\ Past(d)' = Past(d) \ {a}
      BY <1>4, <1>5, <1>12
    <3> QED
      BY <3>1
  <2> QED
    BY <1>1, <1>7, <1>8, <1>12, <2>1 DEF ClientBudget, Others
<1>13. ClientBudget(c)'
  BY <1>7, <1>8 DEF ClientBudget
<1> QED
  BY <1>4, <1>10, <1>11, <1>12, <1>13 DEF IInv

LEMMA NoSessionStep ==
  ASSUME IInv, NEW a \in Attempts, NoSession(a)
  PROVE  IInv'
<1>1. Types /\ TotalBudget /\ \A d \in Clients : ClientBudget(d)
  BY DEF IInv
<1>2. At(a, "deriving") /\ Release(a) /\ UNCHANGED <<clients, total, spent>>
  BY DEF NoSession
<1>3. /\ attempt' \in [Attempts -> [at : Places, client : Clients]]
      /\ waiting' \in Seq(Attempts) /\ active' \in Nat
      /\ Queue' /\ Slots'
      /\ \A d \in Clients : Past(d)' = Past(d) \ {a}
      /\ PastAll' = PastAll \ {a}
  BY <1>2, ReleaseKeeps
<1>4. Types'
  BY <1>1, <1>2, <1>3 DEF Types, Tracked
<1>5. Cardinality(PastAll') <= Cardinality(PastAll) /\ Cardinality(PastAll') \in Nat
  <2>1. PastAll' \subseteq PastAll
    BY <1>3
  <2> QED
    BY <2>1, PastFinite, FS_Subset, FS_CardinalityType
<1>6. TotalBudget'
  BY <1>1, <1>2, <1>5, PastFinite DEF TotalBudget, Others, Types
<1>7. ASSUME NEW d \in Clients PROVE ClientBudget(d)'
  <2>1. Past(d)' \subseteq Past(d)
    BY <1>3, <1>7
  <2>2. Cardinality(Past(d)') <= Cardinality(Past(d)) /\ Cardinality(Past(d)') \in Nat
    BY <2>1, PastFinite, FS_Subset, FS_CardinalityType
  <2> QED
    BY <1>1, <1>2, <2>2, PastFinite DEF ClientBudget, Others, Types, Tracked
<1> QED
  BY <1>3, <1>4, <1>6, <1>7 DEF IInv

(* Whoever arrives was not blocked, so nothing is said of who is past the  *)
(* check of his budgets.                                                   *)
LEMMA ArriveStep ==
  ASSUME IInv, NEW a \in Attempts, NEW c \in Clients, Arrive(a, c)
  PROVE  IInv'
<1>1. Types /\ Queue /\ Slots /\ TotalBudget /\ \A d \in Clients : ClientBudget(d)
  BY DEF IInv
<1>2. /\ At(a, "away") /\ ~total.blocked /\ (c \in Tracked => ~clients[c].blocked)
      /\ attempt' = [attempt EXCEPT ![a] = [at |-> "reading", client |-> c]]
      /\ UNCHANGED <<clients, total, active, waiting, spent>>
  BY DEF Arrive, Blocked
<1>3. /\ attempt' \in [Attempts -> [at : Places, client : Clients]]
      /\ attempt'[a] = [at |-> "reading", client |-> c]
      /\ \A b \in Attempts \ {a} : attempt'[b] = attempt[b]
  BY <1>1, <1>2 DEF Types, Places
<1>4. \A b \in Attempts : /\ At(b, "waiting")' <=> At(b, "waiting")
                          /\ At(b, "deriving")' <=> At(b, "deriving")
  BY <1>2, <1>3 DEF At
<1>5. Types'
  BY <1>1, <1>2, <1>3 DEF Types, Tracked
<1>6. Queue'
  BY <1>1, <1>2, <1>4 DEF Queue
<1>7. Slots'
  <2>1. Deriving' = Deriving
    BY <1>4 DEF Deriving
  <2> QED
    BY <1>1, <1>2, <2>1 DEF Slots
<1>8. TotalBudget'
  BY <1>1, <1>2 DEF TotalBudget
<1>9. ASSUME NEW d \in Clients PROVE ClientBudget(d)'
  <2>1. CASE d = c
    BY <1>1, <1>2, <2>1 DEF ClientBudget, Tracked
  <2>2. CASE d # c
    <3>1. Past(d)' = Past(d)
      BY <1>2, <1>3, <2>2 DEF Past, At
    <3> QED
      BY <1>1, <1>2, <3>1 DEF ClientBudget, Tracked, Others
  <2> QED
    BY <2>1, <2>2
<1> QED
  BY <1>5, <1>6, <1>7, <1>8, <1>9 DEF IInv

(* An attempt that moves on without an answer takes nobody past the check. *)
LEMMA PastShrinks ==
  ASSUME IInv, UNCHANGED <<clients, total, spent>>,
         \A b \in Attempts : attempt'[b].client = attempt[b].client,
         \A b \in Attempts : At(b, "away") => At(b, "away")'
  PROVE  TotalBudget' /\ \A d \in Clients : ClientBudget(d)'
<1>1. Types /\ TotalBudget /\ \A d \in Clients : ClientBudget(d)
  BY DEF IInv
<1>2. PastAll' \subseteq PastAll /\ \A d \in Clients : Past(d)' \subseteq Past(d)
  BY DEF PastAll, Past
<1>3. Cardinality(PastAll') <= Cardinality(PastAll) /\ Cardinality(PastAll') \in Nat
  BY <1>2, PastFinite, FS_Subset, FS_CardinalityType
<1>4. TotalBudget'
  BY <1>1, <1>3, PastFinite DEF TotalBudget, Others, Types
<1>5. ASSUME NEW d \in Clients PROVE ClientBudget(d)'
  <2>1. Past(d)' \subseteq Past(d)
    BY <1>2
  <2>2. Cardinality(Past(d)') <= Cardinality(Past(d)) /\ Cardinality(Past(d)') \in Nat
    BY <2>1, PastFinite, FS_Subset, FS_CardinalityType
  <2> QED
    BY <1>1, <2>2, PastFinite DEF ClientBudget, Others, Types, Tracked
<1> QED
  BY <1>4, <1>5

LEMMA LeaveStep ==
  ASSUME IInv, NEW a \in Attempts, Leave(a)
  PROVE  IInv'
<1>1. Types /\ Queue /\ Slots
  BY DEF IInv
<1>2. /\ At(a, "reading") /\ attempt' = [attempt EXCEPT ![a].at = "away"]
      /\ UNCHANGED <<clients, total, active, waiting, spent>>
  BY DEF Leave, Move
<1>3. /\ attempt' \in [Attempts -> [at : Places, client : Clients]]
      /\ \A b \in Attempts : /\ attempt'[b].client = attempt[b].client
                             /\ attempt'[b].at = IF b = a THEN "away" ELSE attempt[b].at
  BY <1>1, <1>2 DEF Types, Places
<1>4. \A b \in Attempts : /\ At(b, "waiting")' <=> At(b, "waiting")
                          /\ At(b, "deriving")' <=> At(b, "deriving")
                          /\ At(b, "away") => At(b, "away")'
  BY <1>2, <1>3 DEF At
<1>5. Types'
  BY <1>1, <1>2, <1>3 DEF Types, Tracked
<1>6. Queue'
  BY <1>1, <1>2, <1>4 DEF Queue
<1>7. Slots'
  <2>1. Deriving' = Deriving
    BY <1>4 DEF Deriving
  <2> QED
    BY <1>1, <1>2, <2>1 DEF Slots
<1>8. TotalBudget' /\ \A d \in Clients : ClientBudget(d)'
  BY <1>2, <1>3, <1>4, PastShrinks
<1> QED
  BY <1>5, <1>6, <1>7, <1>8 DEF IInv

LEMMA EnterStep ==
  ASSUME IInv, NEW a \in Attempts, Enter(a)
  PROVE  IInv'
<1>1. Types /\ Queue /\ Slots
  BY DEF IInv
<1>2. At(a, "reading") /\ UNCHANGED <<clients, total, spent>>
  BY DEF Enter
<1>3. ASSUME NEW place \in Places, Move(a, place)
      PROVE  /\ attempt' \in [Attempts -> [at : Places, client : Clients]]
             /\ \A b \in Attempts : /\ attempt'[b].client = attempt[b].client
                                    /\ attempt'[b].at = IF b = a THEN place ELSE attempt[b].at
             /\ TotalBudget' /\ \A d \in Clients : ClientBudget(d)'
  <2>1. /\ attempt' \in [Attempts -> [at : Places, client : Clients]]
        /\ \A b \in Attempts : /\ attempt'[b].client = attempt[b].client
                               /\ attempt'[b].at = IF b = a THEN place ELSE attempt[b].at
    BY <1>1, <1>3 DEF Types, Move
  <2>2. \A b \in Attempts : At(b, "away") => At(b, "away")'
    BY <1>2, <2>1 DEF At
  <2>3. TotalBudget' /\ \A d \in Clients : ClientBudget(d)'
    BY <1>2, <2>1, <2>2, PastShrinks
  <2> QED
    BY <2>1, <2>3
<1>4. \A i \in 1..Len(waiting) : waiting[i] # a
  BY <1>1, <1>2 DEF Queue, At
<1>5. IsFiniteSet(Deriving) /\ Cardinality(Deriving) \in Nat
  BY PastFinite
<1>6. CASE active < Concurrency /\ active' = active + 1 /\ Move(a, "deriving") /\ UNCHANGED waiting
  <2>1. "deriving" \in Places
    BY DEF Places
  <2>2. /\ attempt' \in [Attempts -> [at : Places, client : Clients]]
        /\ \A b \in Attempts : /\ attempt'[b].client = attempt[b].client
                               /\ attempt'[b].at = IF b = a THEN "deriving" ELSE attempt[b].at
        /\ TotalBudget' /\ \A d \in Clients : ClientBudget(d)'
    BY <1>3, <1>6, <2>1
  <2>3. Types'
    BY <1>1, <1>2, <1>6, <2>2 DEF Types, Tracked
  <2>4. \A b \in Attempts : At(b, "waiting")' <=> At(b, "waiting")
    BY <1>2, <2>2 DEF At
  <2>5. Queue'
    BY <1>1, <1>6, <2>4 DEF Queue
  <2>6. a \notin Deriving /\ Deriving' = Deriving \union {a}
    BY <1>2, <2>2 DEF Deriving, At
  <2>7. Cardinality(Deriving') = Cardinality(Deriving) + 1
    BY <1>5, <2>6, FS_AddElement
  <2>8. waiting = <<>>
    BY <1>1, <1>6 DEF Slots, Types
  <2>9. Slots'
    BY <1>1, <1>5, <1>6, <2>7, <2>8 DEF Slots, Types
  <2> QED
    BY <2>2, <2>3, <2>5, <2>9 DEF IInv
<1>7. CASE /\ active >= Concurrency /\ Len(waiting) < QueueDepth
           /\ waiting' = Append(waiting, a) /\ Move(a, "waiting") /\ UNCHANGED active
  <2>1. "waiting" \in Places
    BY DEF Places
  <2>2. /\ attempt' \in [Attempts -> [at : Places, client : Clients]]
        /\ \A b \in Attempts : /\ attempt'[b].client = attempt[b].client
                               /\ attempt'[b].at = IF b = a THEN "waiting" ELSE attempt[b].at
        /\ TotalBudget' /\ \A d \in Clients : ClientBudget(d)'
    BY <1>3, <1>7, <2>1
  <2>3. /\ Len(waiting) \in Nat /\ waiting' \in Seq(Attempts) /\ Len(waiting') = Len(waiting) + 1
        /\ \A i \in 1..Len(waiting) : waiting'[i] = waiting[i]
        /\ waiting'[Len(waiting) + 1] = a
    BY <1>1, <1>7, AppendProperties, LenProperties DEF Types
  <2>4. Types'
    BY <1>1, <1>2, <1>7, <2>2, <2>3 DEF Types, Tracked
  <2>5. \A i \in 1..Len(waiting') : i = Len(waiting) + 1 \/ i \in 1..Len(waiting)
    BY <2>3
  <2>6. \A i, j \in 1..Len(waiting') : waiting'[i] = waiting'[j] => i = j
    BY <1>1, <1>4, <2>3, <2>5 DEF Queue
  <2>7. ASSUME NEW b \in Attempts
        PROVE  At(b, "waiting")' <=> \E i \in 1..Len(waiting') : waiting'[i] = b
    <3>1. At(b, "waiting")' <=> At(b, "waiting") \/ b = a
      BY <1>2, <2>2 DEF At
    <3>2. ASSUME At(b, "waiting") PROVE \E i \in 1..Len(waiting') : waiting'[i] = b
      <4>1. PICK i \in 1..Len(waiting) : waiting[i] = b
        BY <1>1, <3>2 DEF Queue
      <4>2. i \in 1..Len(waiting')
        BY <2>3
      <4> QED
        BY <2>3, <4>1, <4>2
    <3>3. b = a => \E i \in 1..Len(waiting') : waiting'[i] = b
      <4>1. Len(waiting) + 1 \in 1..Len(waiting')
        BY <2>3
      <4> QED
        BY <2>3, <4>1
    <3>4. ASSUME NEW i \in 1..Len(waiting'), waiting'[i] = b PROVE At(b, "waiting") \/ b = a
      BY <1>1, <2>3, <2>5, <3>4 DEF Queue
    <3> QED
      BY <3>1, <3>2, <3>3, <3>4
  <2>8. Queue'
    BY <1>7, <2>3, <2>6, <2>7 DEF Queue
  <2>9. Deriving' = Deriving
    BY <1>2, <2>2 DEF Deriving, At
  <2>10. Slots'
    BY <1>1, <1>7, <2>9 DEF Slots, Types
  <2> QED
    BY <2>2, <2>4, <2>8, <2>10 DEF IInv
<1>8. CASE /\ active >= Concurrency /\ Len(waiting) >= QueueDepth
           /\ Move(a, "away") /\ UNCHANGED <<active, waiting>>
  <2>1. "away" \in Places
    BY DEF Places
  <2>2. /\ attempt' \in [Attempts -> [at : Places, client : Clients]]
        /\ \A b \in Attempts : /\ attempt'[b].client = attempt[b].client
                               /\ attempt'[b].at = IF b = a THEN "away" ELSE attempt[b].at
        /\ TotalBudget' /\ \A d \in Clients : ClientBudget(d)'
    BY <1>3, <1>8, <2>1
  <2>3. Types'
    BY <1>1, <1>2, <1>8, <2>2 DEF Types, Tracked
  <2>4. \A b \in Attempts : At(b, "waiting")' <=> At(b, "waiting")
    BY <1>2, <2>2 DEF At
  <2>5. Queue'
    BY <1>1, <1>8, <2>4 DEF Queue
  <2>6. Deriving' = Deriving
    BY <1>2, <2>2 DEF Deriving, At
  <2>7. Slots'
    BY <1>1, <1>8, <2>6 DEF Slots
  <2> QED
    BY <2>2, <2>3, <2>5, <2>7 DEF IInv
<1> QED
  BY <1>6, <1>7, <1>8 DEF Enter

(* Time alone moves no attempt: what is left is the records of one client, *)
(* of all of them, or the shared budget.                                   *)
LEMMA AttemptsStay ==
  ASSUME IInv, UNCHANGED <<attempt, active, waiting>>
  PROVE  /\ attempt' \in [Attempts -> [at : Places, client : Clients]]
         /\ waiting' \in Seq(Attempts) /\ active' \in Nat
         /\ Queue' /\ Slots'
         /\ PastAll' = PastAll /\ \A d \in Clients : Past(d)' = Past(d)
<1>1. Types /\ Queue /\ Slots
  BY DEF IInv
<1>2. \A b \in Attempts, p \in Places : At(b, p)' <=> At(b, p)
  BY DEF At
<1>3. Deriving' = Deriving /\ PastAll' = PastAll /\ \A d \in Clients : Past(d)' = Past(d)
  BY DEF Deriving, PastAll, Past, At
<1>4. Queue'
  BY <1>1 DEF Queue, At
<1>5. Slots'
  BY <1>1, <1>3 DEF Slots
<1> QED
  BY <1>1, <1>3, <1>4, <1>5 DEF Types

LEMMA ClientTime ==
  ASSUME IInv, NEW c \in Clients, WindowElapses(c) \/ BlockEnds(c)
  PROVE  IInv'
<1>1. Types /\ TotalBudget /\ \A d \in Clients : ClientBudget(d)
  BY DEF IInv
<1>2. /\ c \in Tracked /\ spent' = [spent EXCEPT ![c] = 0]
      /\ UNCHANGED <<attempt, total, active, waiting>>
  BY DEF WindowElapses, BlockEnds
<1>3. clients[c] \in Records
  BY <1>1, <1>2 DEF Types
<1>4. /\ Tracked' = Tracked
      /\ \A d \in Tracked \ {c} : clients'[d] = clients[d]
      /\ clients'[c] \in Records /\ ~clients'[c].blocked
  <2>1. CASE WindowElapses(c)
    <3>1. clients' = [clients EXCEPT ![c] = [@ EXCEPT !.stale = TRUE]] /\ ~clients[c].blocked
      BY <2>1 DEF WindowElapses
    <3>2. [clients[c] EXCEPT !.stale = TRUE] \in Records
          /\ ~([clients[c] EXCEPT !.stale = TRUE]).blocked
      BY <1>3, <3>1 DEF Records
    <3> QED
      BY <1>2, <3>1, <3>2 DEF Tracked
  <2>2. CASE BlockEnds(c)
    <3>1. clients' = [clients EXCEPT ![c] = [@ EXCEPT !.blocked = FALSE]]
      BY <2>2 DEF BlockEnds
    <3>2. [clients[c] EXCEPT !.blocked = FALSE] \in Records
          /\ ~([clients[c] EXCEPT !.blocked = FALSE]).blocked
      BY <1>3 DEF Records
    <3> QED
      BY <1>2, <3>1, <3>2 DEF Tracked
  <2> QED
    BY <2>1, <2>2
<1>5. /\ spent' \in [Clients \union {All} -> Nat] /\ spent'[c] = 0 /\ spent'[All] = spent[All]
      /\ \A d \in Clients \ {c} : spent'[d] = spent[d]
  BY <1>1, <1>2 DEF Types
<1>6. Types'
  <2>1. \A d \in Tracked' : clients'[d] \in Records
    BY <1>1, <1>4 DEF Types
  <2> QED
    BY <1>1, <1>2, <1>4, <1>5, <2>1, AttemptsStay DEF Types
<1>7. TotalBudget'
  BY <1>1, <1>2, <1>5, AttemptsStay DEF TotalBudget, Others
<1>8. ASSUME NEW d \in Clients PROVE ClientBudget(d)'
  <2>1. CASE d = c
    <3>1. clients'[c].count \in Nat
      BY <1>4 DEF Records
    <3> QED
      BY <1>4, <1>5, <2>1, <3>1 DEF ClientBudget
  <2>2. CASE d # c
    <3>1. Past(d)' = Past(d)
      BY <1>2, AttemptsStay
    <3> QED
      BY <1>1, <1>4, <1>5, <2>2, <3>1 DEF ClientBudget, Others
  <2> QED
    BY <2>1, <2>2
<1> QED
  BY <1>2, <1>6, <1>7, <1>8, AttemptsStay DEF IInv

LEMMA SharedTime ==
  ASSUME IInv, TotalElapses \/ Sweep
  PROVE  IInv'
<1>1. Types /\ TotalBudget /\ \A d \in Clients : ClientBudget(d)
  BY DEF IInv
<1>2. UNCHANGED <<attempt, active, waiting>>
  BY DEF TotalElapses, Sweep
<1>3. CASE TotalElapses
  <2>1. /\ total' = [count |-> 0, blocked |-> FALSE] /\ clients' = clients
        /\ spent' = [spent EXCEPT ![All] = 0]
    BY <1>3 DEF TotalElapses
  <2>2. /\ spent' \in [Clients \union {All} -> Nat] /\ spent'[All] = 0
        /\ \A d \in Clients : spent'[d] = spent[d]
    BY <1>1, <2>1 DEF Types
  <2>3. total' \in [count : 0..(GlobalLimit - 1), blocked : BOOLEAN]
    <3>1. 0 \in 0..(GlobalLimit - 1)
      OBVIOUS
    <3> QED
      BY <2>1, <3>1
  <2>4. Types'
    BY <1>1, <1>2, <2>1, <2>2, <2>3, AttemptsStay DEF Types, Tracked
  <2>5. TotalBudget'
    BY <2>1, <2>2 DEF TotalBudget
  <2>6. ASSUME NEW d \in Clients PROVE ClientBudget(d)'
    <3>1. Past(d)' = Past(d)
      BY <1>2, AttemptsStay
    <3> QED
      BY <1>1, <2>1, <2>2, <3>1 DEF ClientBudget, Tracked, Others
  <2> QED
    BY <1>2, <2>4, <2>5, <2>6, AttemptsStay DEF IInv
<1>4. CASE Sweep
  <2>1. clients' = Swept /\ UNCHANGED <<total, spent>>
    BY <1>4 DEF Sweep
  <2>2. /\ Tracked' \subseteq Tracked
        /\ \A d \in Tracked' : clients'[d] = clients[d]
        /\ \A d \in Tracked \ Tracked' : clients[d].stale
    BY <2>1, SweptRecords DEF Tracked
  <2>3. Types'
    <3>1. \A d \in Tracked' : clients'[d] \in Records
      BY <1>1, <2>2 DEF Types
    <3> QED
      BY <1>1, <1>2, <2>1, <2>2, <3>1, AttemptsStay DEF Types
  <2>4. TotalBudget'
    BY <1>1, <1>2, <2>1, AttemptsStay DEF TotalBudget, Others
  <2>5. ASSUME NEW d \in Clients PROVE ClientBudget(d)'
    <3>1. Past(d)' = Past(d)
      BY <1>2, AttemptsStay
    <3> QED
      BY <1>1, <2>1, <2>2, <3>1 DEF ClientBudget, Others
  <2> QED
    BY <1>2, <2>3, <2>4, <2>5, AttemptsStay DEF IInv
<1> QED
  BY <1>3, <1>4

LEMMA InvStep == IInv /\ [Next]_gateVars => IInv'
<1> SUFFICES ASSUME IInv, [Next]_gateVars PROVE IInv'
  OBVIOUS
<1>1. CASE UNCHANGED gateVars
  <2>1. /\ UNCHANGED <<attempt, active, waiting>>
        /\ UNCHANGED <<clients, total, spent>>
    BY <1>1 DEF gateVars
  <2>2. Types /\ TotalBudget /\ \A d \in Clients : ClientBudget(d)
    BY DEF IInv
  <2>3. Types'
    BY <2>1, <2>2, AttemptsStay DEF Types, Tracked
  <2>4. TotalBudget' /\ \A d \in Clients : ClientBudget(d)'
    BY <2>1, <2>2, PastShrinks DEF At
  <2> QED
    BY <2>1, <2>3, <2>4, AttemptsStay DEF IInv
<1>2. ASSUME NEW a \in Attempts,
             (\E c \in Clients : Arrive(a, c)) \/ Leave(a) \/ Enter(a)
               \/ Wrong(a) \/ Right(a) \/ NoSession(a)
      PROVE  IInv'
  BY <1>2, ArriveStep, LeaveStep, EnterStep, WrongStep, RightStep, NoSessionStep
<1>3. ASSUME NEW c \in Clients, WindowElapses(c) \/ BlockEnds(c) PROVE IInv'
  BY <1>3, ClientTime
<1>4. CASE TotalElapses \/ Sweep
  BY <1>4, SharedTime
<1> QED
  BY <1>1, <1>2, <1>3, <1>4 DEF Next

LEMMA InvImplies == IInv => SlotsAreDerivations /\ GuessesBounded
<1> SUFFICES ASSUME IInv PROVE SlotsAreDerivations /\ GuessesBounded
  OBVIOUS
<1>1. Types /\ Queue /\ Slots /\ TotalBudget /\ \A d \in Clients : ClientBudget(d)
  BY DEF IInv
<1>2. SlotsAreDerivations
  BY <1>1 DEF SlotsAreDerivations, GateTypeOK, Types, Queue, Slots, Deriving
<1>3. spent[All] \in Nat /\ total.count \in 0..(GlobalLimit - 1) /\ total.blocked \in BOOLEAN
  BY <1>1 DEF Types
<1>4. spent[All] <= GlobalLimit + Others
  <2>1. CASE total.blocked
    BY <1>1, <1>3, <2>1, PastFinite DEF TotalBudget
  <2>2. CASE ~total.blocked
    BY <1>1, <1>3, <2>2, PastFinite DEF TotalBudget, Others
  <2> QED
    BY <2>1, <2>2
<1>5. ASSUME NEW c \in Clients PROVE spent[c] <= Limit + Others
  <2>1. spent[c] \in Nat
    BY <1>1 DEF Types
  <2>2. CASE c \notin Tracked
    BY <1>1, <2>1, <2>2, PastFinite DEF ClientBudget, Others
  <2>3. CASE c \in Tracked /\ clients[c].blocked
    BY <1>1, <2>1, <2>3, PastFinite DEF ClientBudget
  <2>4. CASE c \in Tracked /\ ~clients[c].blocked
    <3>1. clients[c].count \in 0..(Limit - 1)
      BY <1>1, <2>4 DEF Types, Records
    <3> QED
      BY <1>1, <2>1, <2>4, <3>1, PastFinite DEF ClientBudget, Others
  <2> QED
    BY <2>2, <2>3, <2>4
<1> QED
  BY <1>2, <1>4, <1>5 DEF GuessesBounded, Others

LEMMA Invariance == Spec => []IInv
<1>1. Init => IInv
  BY InitIInv
<1>2. IInv /\ [Next]_gateVars => IInv'
  BY InvStep
<1> QED
  BY <1>1, <1>2, PTL DEF Spec

(* kdf-gate.ts: the slots counted are the derivations that run, at most    *)
(* kdfConcurrency of them, and nobody waits while one is free.             *)
THEOREM SlotsHandedOver == Spec => []SlotsAreDerivations
<1>1. IInv => SlotsAreDerivations
  BY InvImplies
<1> QED
  BY <1>1, Invariance, PTL

(* attempt-limiter.ts: however the attempts interleave, the wrong guesses  *)
(* of a client, and of all clients together, exceed the limit by at most   *)
(* the number of the other attempts.                                       *)
THEOREM BruteForceBounded == Spec => []GuessesBounded
<1>1. IInv => GuessesBounded
  BY InvImplies
<1> QED
  BY <1>1, Invariance, PTL

(* The two limits of the gate hold together.                               *)
THEOREM GateIsBounded == Spec => []GateBounded
<1>1. SlotsAreDerivations /\ GuessesBounded => GateBounded
  BY DEF GateBounded
<1> QED
  BY <1>1, SlotsHandedOver, BruteForceBounded, PTL

----------------------------------------------------------------------------
(***************************************************************************)
(* Proofs about Authorization: for any finite set of visits, any accounts  *)
(* and any limits, an active gate has an owner and no session from before  *)
(* the binding, and the slots taken are the callbacks at work.  What a     *)
(* visit has noted at its await, and what has been read from the disk, are *)
(* what the invariant adds: both are used after the await, as they are.    *)
(***************************************************************************)

VisitRecord ==
  [at : {"idle", "done", "verifying", "github", "exchange", "saving", "saved", "clearing",
         "recovering"},
   kind : {None, "bootstrap", "active", "recovery", "login", "enroll", "recover"},
   initiator : Visits \cup {None}, user : Users \cup {None}, save : Documents \cup {None}]

SessionRecord ==
  [id : Visits, kind : {"password", "bootstrap", "recovery", "github"},
   user : Users \cup {None}, authz : Nat]

DiskRecord ==
  [doc : Documents \cup {None, Unreadable}, recovery : {"none", "live", "expired"}]

(* What a visit has noted at the await it is at: a login saves a document  *)
(* with users, and only the callbacks and the recovery save one.           *)
NotedBy(c) ==
  /\ c.at \in {"github", "exchange"} => c.kind \in {"login", "enroll"}
  /\ c.at = "clearing" => c.kind = "enroll" /\ c.save \in Documents
  /\ c.at = "recovering" => c.kind = "recover"
  /\ c.at \in {"saving", "saved"} =>
       /\ c.kind \in {"login", "enroll", "recover"} /\ c.save \in Documents
       /\ c.kind # "recover" => c.save.users # {}

StateTypes ==
  /\ lifecycle \in {"bootstrap", "active", "recovery", "invalid"}
  /\ doc \in Documents \cup {None}
  /\ disk \in DiskRecord

StoresOK ==
  /\ sessions \subseteq SessionRecord
  /\ IsFiniteSet(sessions) /\ Cardinality(sessions) <= MaxSessions
  /\ pending \subseteq Visits /\ Cardinality(pending) <= MaxPending

Bound ==
  lifecycle = "active" =>
    /\ doc # None /\ doc.users # {}
    /\ \A s \in sessions \ restored : s.kind \notin {"bootstrap", "recovery"}

VisitsOK ==
  /\ visit \in [Visits -> VisitRecord]
  /\ \A v \in Visits : NotedBy(visit[v])

AuthInv == StateTypes /\ StoresOK /\ Bound /\ VisitsOK /\ SlotsAreCallbacks

----------------------------------------------------------------------------
HeldAs(c) == c.at \in {"exchange", "saving", "saved", "clearing"} /\ c.kind # "recover"

(* The slots agree with the callbacks when one visit moves.                *)
LEMMA SlotsMove ==
  ASSUME AuthInv, NEW v \in Visits, NEW r \in VisitRecord, visit' = [visit EXCEPT ![v] = r],
         \/ (Held(v) <=> HeldAs(r)) /\ slots' = slots
         \/ ~Held(v) /\ HeldAs(r) /\ slots < MaxCallbacks /\ slots' = slots + 1
         \/ Held(v) /\ ~HeldAs(r) /\ slots' = slots - 1
  PROVE  SlotsAreCallbacks'
<1> DEFINE S == {w \in Visits : Held(w)}
           T == {w \in Visits : Held(w)'}
<1>1. IsFiniteSet(S) /\ Cardinality(S) \in Nat /\ slots = Cardinality(S) /\ slots <= MaxCallbacks
  <2>1. IsFiniteSet(S)
    BY VisitsAssumption, FS_Subset
  <2>. QED
    BY <2>1, FS_CardinalityType DEF AuthInv, SlotsAreCallbacks
<1>2. \A w \in Visits : Held(w)' <=> IF w = v THEN HeldAs(r) ELSE Held(w)
  BY DEF AuthInv, VisitsOK, Held, HeldAs
<1>3. CASE (Held(v) <=> HeldAs(r)) /\ slots' = slots
  <2>1. T = S
    BY <1>2, <1>3
  <2>. QED
    BY <1>1, <1>3, <2>1 DEF SlotsAreCallbacks
<1>4. CASE ~Held(v) /\ HeldAs(r) /\ slots < MaxCallbacks /\ slots' = slots + 1
  <2>1. T = S \cup {v} /\ v \notin S
    BY <1>2, <1>4
  <2>2. Cardinality(T) = Cardinality(S) + 1
    BY <1>1, <2>1, FS_AddElement
  <2>. QED
    BY <1>1, <1>4, <2>2, LimitsAssumption DEF SlotsAreCallbacks
<1>5. CASE Held(v) /\ ~HeldAs(r) /\ slots' = slots - 1
  <2>1. T = S \ {v} /\ v \in S
    BY <1>2, <1>5
  <2>2. Cardinality(T) = Cardinality(S) - 1
    BY <1>1, <2>1, FS_RemoveElement
  <2>. QED
    BY <1>1, <1>5, <2>2, LimitsAssumption DEF SlotsAreCallbacks
<1>. QED
  BY <1>3, <1>4, <1>5

LEMMA VisitMoves ==
  ASSUME AuthInv, NEW v \in Visits, NEW r \in VisitRecord, visit' = [visit EXCEPT ![v] = r],
         NotedBy(r),
         \/ (Held(v) <=> HeldAs(r)) /\ slots' = slots
         \/ ~Held(v) /\ HeldAs(r) /\ slots < MaxCallbacks /\ slots' = slots + 1
         \/ Held(v) /\ ~HeldAs(r) /\ slots' = slots - 1
  PROVE  VisitsOK' /\ SlotsAreCallbacks'
BY SlotsMove DEF AuthInv, VisitsOK, NotedBy

LEMMA IdleRecords ==
  /\ Idle \in VisitRecord /\ Idle.at = "idle"
  /\ Done \in VisitRecord /\ NotedBy(Done) /\ ~HeldAs(Done)
BY DEF Idle, Done, VisitRecord, NotedBy, HeldAs

LEMMA OpenedStores ==
  ASSUME StoresOK, NEW s \in SessionRecord, sessions' = Opened(sessions, s), pending' = pending
  PROVE  StoresOK'
<1>1. CASE Cardinality(sessions) >= MaxSessions
  BY <1>1 DEF StoresOK, Opened
<1>2. CASE ~(Cardinality(sessions) >= MaxSessions)
  <2>1. sessions' = sessions \cup {s}
    BY <1>2 DEF Opened
  <2>2. Cardinality(sessions) \in Nat
    BY FS_CardinalityType DEF StoresOK
  <2>3. IsFiniteSet(sessions') /\ Cardinality(sessions') <= Cardinality(sessions) + 1
    BY <2>1, <2>2, FS_AddElement DEF StoresOK
  <2>4. Cardinality(sessions') \in Nat
    BY <2>3, FS_CardinalityType
  <2>. QED
    BY <1>2, <2>1, <2>2, <2>3, <2>4, LimitsAssumption DEF StoresOK
<1>. QED
  BY <1>1, <1>2

(* Fewer of what is kept. *)
LEMMA FewerKept ==
  ASSUME StoresOK, sessions' \subseteq sessions, pending' \subseteq pending
  PROVE  StoresOK'
<1>1. IsFiniteSet(sessions') /\ Cardinality(sessions') <= Cardinality(sessions)
  BY FS_Subset DEF StoresOK
<1>2. IsFiniteSet(pending) /\ IsFiniteSet(pending')
  BY VisitsAssumption, FS_Subset DEF StoresOK
<1>3. Cardinality(pending') <= Cardinality(pending)
  BY <1>2, FS_Subset
<1>4. /\ Cardinality(sessions) \in Nat /\ Cardinality(sessions') \in Nat
      /\ Cardinality(pending) \in Nat /\ Cardinality(pending') \in Nat
  BY <1>1, <1>2, FS_CardinalityType DEF StoresOK
<1>. QED
  BY <1>1, <1>3, <1>4, LimitsAssumption DEF StoresOK

LEMMA Limits ==
  ASSUME StoresOK
  PROVE Cardinality(sessions) \in Nat /\ Cardinality(pending) \in Nat /\ IsFiniteSet(pending)
BY VisitsAssumption, FS_Subset, FS_CardinalityType DEF StoresOK

(* Nothing changes but visit, slots and what a step is given.              *)
LEMMA OneVisitMoves ==
  ASSUME AuthInv, NEW v \in Visits, NEW r \in VisitRecord, visit' = [visit EXCEPT ![v] = r],
         NotedBy(r),
         \/ (Held(v) <=> HeldAs(r)) /\ slots' = slots
         \/ ~Held(v) /\ HeldAs(r) /\ slots < MaxCallbacks /\ slots' = slots + 1
         \/ Held(v) /\ ~HeldAs(r) /\ slots' = slots - 1,
         UNCHANGED <<lifecycle, doc, sessions, restored>>, StoresOK', disk' \in DiskRecord
  PROVE  AuthInv'
BY VisitMoves DEF AuthInv, StateTypes, Bound

LEMMA Unmoved ==
  ASSUME AuthInv, UNCHANGED <<visit, slots>>, StoresOK', StateTypes', Bound'
  PROVE  AuthInv'
BY DEF AuthInv, VisitsOK, NotedBy, SlotsAreCallbacks, Held

LEMMA VisitFields ==
  ASSUME AuthInv, NEW v \in Visits
  PROVE  /\ visit[v] \in VisitRecord /\ NotedBy(visit[v]) /\ (Held(v) <=> HeldAs(visit[v]))
         /\ visit[v].user \in Users \cup {None} /\ visit[v].save \in Documents \cup {None}
         /\ slots \in Int
BY VisitsAssumption, FS_Subset, FS_CardinalityType
DEF AuthInv, VisitsOK, VisitRecord, Held, HeldAs, SlotsAreCallbacks

(* A session that is opened while the gate is bound is no bootstrap one.   *)
LEMMA PasswordSteps ==
  ASSUME AuthInv, NEW v \in Visits, PasswordBegin(v) \/ PasswordSignIn(v) \/ PasswordRefused(v)
  PROVE  AuthInv'
<1>1. CASE PasswordBegin(v)
  <2> DEFINE r == [visit[v] EXCEPT !.at = "verifying", !.kind = lifecycle]
  <2>1. r \in VisitRecord /\ NotedBy(r) /\ ~HeldAs(r)
    BY <1>1, VisitFields DEF PasswordBegin, VisitRecord, NotedBy, HeldAs, AuthInv, StateTypes
  <2>2. visit' = [visit EXCEPT ![v] = r] /\ ~Held(v) /\ slots' = slots
    BY <1>1 DEF PasswordBegin, VisitAt, Held, AuthInv, VisitsOK
  <2> HIDE DEF r
  <2>. QED
    BY <1>1, <2>1, <2>2, OneVisitMoves DEF PasswordBegin, AuthInv, StateTypes, StoresOK
<1>2. CASE PasswordRefused(v)
  BY <1>2, IdleRecords, OneVisitMoves
  DEF PasswordRefused, VisitAt, Held, AuthInv, StateTypes, StoresOK
<1>3. CASE PasswordSignIn(v)
  <2> DEFINE s == PasswordPrincipal(v)
  <2>1. s \in SessionRecord /\ (lifecycle = "active" => s.kind = "password")
    BY DEF PasswordPrincipal, PasswordSession, Session, SessionRecord
  <2>2. sessions' = Opened(sessions, s) /\ UNCHANGED <<lifecycle, doc, pending, slots, disk, restored>>
    BY <1>3 DEF PasswordSignIn
  <2> HIDE DEF s
  <2>3. StoresOK'
    BY <2>1, <2>2, OpenedStores DEF AuthInv
  <2>4. Bound' /\ StateTypes'
    BY <2>1, <2>2 DEF Bound, Opened, AuthInv, StateTypes
  <2>5. VisitsOK' /\ SlotsAreCallbacks'
    BY <1>3, IdleRecords, VisitMoves DEF PasswordSignIn, VisitAt, Held
  <2>. QED
    BY <2>3, <2>4, <2>5 DEF AuthInv
<1>. QED
  BY <1>1, <1>2, <1>3

LEMMA OneMore ==
  ASSUME NEW S, IsFiniteSet(S), NEW e
  PROVE  IsFiniteSet(S \cup {e}) /\ Cardinality(S \cup {e}) <= Cardinality(S) + 1
<1>1. IsFiniteSet(S \cup {e})
  BY FS_AddElement
<1>2. Cardinality(S) \in Nat
  BY FS_CardinalityType
<1>3. Cardinality(S \cup {e}) \in {Cardinality(S), Cardinality(S) + 1}
  BY FS_AddElement
<1>. QED
  BY <1>1, <1>2, <1>3

LEMMA ContinueStep ==
  ASSUME AuthInv, NEW v \in Visits, NEW s \in sessions, Continue(v, s)
  PROVE  AuthInv'
<1> DEFINE t == PasswordSession(v)
<1>1. t \in SessionRecord /\ t.kind = "password"
  BY DEF PasswordSession, Session, SessionRecord
<1>2. /\ sessions' = (sessions \ {s}) \cup {t} /\ Cardinality(sessions) < MaxSessions
      /\ UNCHANGED <<lifecycle, doc, pending, slots, disk, restored>>
  BY DEF Continue
<1> HIDE DEF t
<1>3. StoresOK'
  <2>1. /\ IsFiniteSet(sessions \ {s}) /\ Cardinality(sessions \ {s}) = Cardinality(sessions) - 1
    BY FS_RemoveElement DEF AuthInv, StoresOK
  <2> DEFINE rest == sessions \ {s}
  <2>4. IsFiniteSet(rest) /\ Cardinality(rest) \in Nat /\ sessions' = rest \cup {t}
    BY <1>2, <2>1, FS_CardinalityType
  <2>2. IsFiniteSet(sessions') /\ Cardinality(sessions') <= Cardinality(rest) + 1
    BY <2>4, OneMore
  <2>3. Cardinality(sessions') \in Nat /\ Cardinality(sessions) \in Nat
    BY <2>2, FS_CardinalityType DEF AuthInv, StoresOK
  <2>. QED
    BY <1>1, <1>2, <2>1, <2>2, <2>3, LimitsAssumption DEF AuthInv, StoresOK
<1>4. Bound' /\ StateTypes'
  BY <1>1, <1>2 DEF Bound, AuthInv, StateTypes
<1>5. VisitsOK' /\ SlotsAreCallbacks'
  BY IdleRecords, VisitMoves DEF Continue, VisitAt, Held
<1>. QED
  BY <1>3, <1>4, <1>5 DEF AuthInv

LEMMA OutsideSteps ==
  ASSUME AuthInv,
         \/ \E s \in sessions : SessionEnds(s)
         \/ \E v \in Visits : StateExpires(v)
         \/ CreateRecovery \/ RecoveryExpires
  PROVE  AuthInv'
<1>1. UNCHANGED <<visit, slots, lifecycle, doc>>
  BY DEF SessionEnds, StateExpires, CreateRecovery, RecoveryExpires
<1>2. ASSUME NEW s \in sessions, SessionEnds(s) PROVE AuthInv'
  <2>1. StoresOK'
    BY <1>2, FewerKept DEF SessionEnds, AuthInv
  <2>2. Bound' /\ StateTypes'
    BY <1>2 DEF SessionEnds, Bound, AuthInv, StateTypes
  <2>. QED
    BY <1>1, <2>1, <2>2, Unmoved
<1>3. ASSUME NEW v \in Visits, StateExpires(v) PROVE AuthInv'
  <2>1. StoresOK'
    BY <1>3, FewerKept DEF StateExpires, AuthInv
  <2>2. Bound' /\ StateTypes'
    BY <1>3 DEF StateExpires, Bound, AuthInv, StateTypes
  <2>. QED
    BY <1>1, <2>1, <2>2, Unmoved
<1>4. CASE CreateRecovery \/ RecoveryExpires
  <2>1. StoresOK' /\ Bound'
    BY <1>4 DEF CreateRecovery, RecoveryExpires, StoresOK, Bound, AuthInv
  <2>2. StateTypes'
    BY <1>4 DEF CreateRecovery, RecoveryExpires, DiskRecord, AuthInv, StateTypes
  <2>. QED
    BY <1>1, <2>1, <2>2, Unmoved
<1>. QED
  BY <1>2, <1>3, <1>4

LEMMA OAuthBegins ==
  ASSUME AuthInv, NEW v \in Visits,
         GithubLogin(v) \/ \E s \in sessions : GithubEnroll(v, s)
  PROVE  AuthInv'
<1>1. PICK kind \in {"login", "enroll"}, initiator \in Visits \cup {None} :
        BeginOAuth(v, kind, initiator)
  BY DEF GithubLogin, GithubEnroll, AuthInv, StoresOK, SessionRecord
<1> DEFINE r == [Idle EXCEPT !.at = "github", !.kind = kind, !.initiator = initiator]
<1>2. r \in VisitRecord /\ NotedBy(r) /\ ~HeldAs(r)
  BY <1>1, IdleRecords DEF VisitRecord, NotedBy, HeldAs, Idle
<1>3. /\ visit' = [visit EXCEPT ![v] = r] /\ ~Held(v) /\ pending' = pending \cup {v}
      /\ Cardinality(pending) < MaxPending
      /\ UNCHANGED <<lifecycle, doc, sessions, slots, disk, restored>>
  BY <1>1 DEF BeginOAuth, VisitAt, Held
<1> HIDE DEF r
<1>4. StoresOK'
  <2>1. IsFiniteSet(pending) /\ Cardinality(pending) \in Nat
    BY Limits DEF AuthInv
  <2>2. IsFiniteSet(pending') /\ Cardinality(pending') <= Cardinality(pending) + 1
    <3> DEFINE P == pending \cup {v}
               c == Cardinality(P)
    <3>1. IsFiniteSet(P) /\ c = IF v \in pending THEN Cardinality(pending) ELSE Cardinality(pending) + 1
      BY <2>1, FS_AddElement
    <3>2. pending' = P
      BY <1>3
    <3> HIDE DEF P
    <3>3. c <= Cardinality(pending) + 1
      BY <2>1, <3>1
    <3>. QED
      BY <3>1, <3>2, <3>3
  <2>3. Cardinality(pending') \in Nat
    BY <2>2, FS_CardinalityType
  <2>. QED
    BY <1>3, <2>1, <2>2, <2>3, LimitsAssumption DEF AuthInv, StoresOK
<1>. QED
  BY <1>2, <1>3, <1>4, OneVisitMoves DEF AuthInv, StateTypes

LEMMA CallbackStep ==
  ASSUME AuthInv, NEW v \in Visits, NEW cancelled \in BOOLEAN, Callback(v, cancelled)
  PROVE  AuthInv'
<1>1. /\ StoresOK' /\ ~Held(v) /\ disk' \in DiskRecord
      /\ UNCHANGED <<lifecycle, doc, sessions, restored>>
  BY FewerKept DEF Callback, VisitAt, Held, AuthInv, StateTypes
<1>2. CASE ~cancelled /\ v \in pending /\ slots < MaxCallbacks
  <2> DEFINE r == [visit[v] EXCEPT !.at = "exchange"]
  <2>1. r \in VisitRecord /\ NotedBy(r) /\ HeldAs(r)
    BY VisitFields DEF Callback, VisitAt, VisitRecord, NotedBy, HeldAs
  <2>2. visit' = [visit EXCEPT ![v] = r] /\ slots' = slots + 1
    BY <1>2 DEF Callback, AuthInv, VisitsOK
  <2> HIDE DEF r
  <2>. QED
    BY <1>1, <1>2, <2>1, <2>2, OneVisitMoves
<1>3. CASE ~(~cancelled /\ v \in pending /\ slots < MaxCallbacks)
  <2>1. visit' = [visit EXCEPT ![v] = Done] /\ slots' = slots
    BY <1>3 DEF Callback
  <2>. QED
    BY <1>1, <2>1, IdleRecords, OneVisitMoves
<1>. QED
  BY <1>2, <1>3

LEMMA RefuseStep ==
  ASSUME AuthInv, NEW v \in Visits, Held(v), Refuse(v)
  PROVE  AuthInv'
BY IdleRecords, OneVisitMoves DEF Refuse, EndCallback, AuthInv, StateTypes, StoresOK

LEMMA SaveStep ==
  ASSUME AuthInv, NEW v \in Visits, VisitAt(v, "exchange"), NEW u \in Users,
         NEW d \in Documents, d.users # {}, Save(v, u, d)
  PROVE  AuthInv'
<1> DEFINE r == [visit[v] EXCEPT !.at = "saving", !.user = u, !.save = d]
<1>1. r \in VisitRecord /\ NotedBy(r) /\ HeldAs(r) /\ Held(v)
  BY VisitFields DEF VisitAt, VisitRecord, NotedBy, HeldAs, Held
<1>2. visit' = [visit EXCEPT ![v] = r] /\ slots' = slots
  BY DEF Save, AuthInv, VisitsOK
<1> HIDE DEF r
<1>. QED
  BY <1>1, <1>2, OneVisitMoves DEF Save, AuthInv, StateTypes, StoresOK

LEMMA ExchangeSteps ==
  ASSUME AuthInv, NEW v \in Visits,
         \/ \E u \in Users : Exchanged(v, u)
         \/ ExchangeFails(v) \/ SaveFails(v)
  PROVE  AuthInv'
<1>1. VisitAt(v, "exchange") => Held(v)
  BY VisitFields DEF VisitAt, Held, NotedBy
<1>2. CASE ExchangeFails(v) \/ SaveFails(v)
  BY <1>1, <1>2, RefuseStep DEF ExchangeFails, SaveFails, VisitAt, Held
<1>3. ASSUME NEW u \in Users, Exchanged(v, u) PROVE AuthInv'
  <2>1. CASE visit[v].kind = "enroll" /\ MayBind(v)
    <3> DEFINE d == [authz |-> 1, users |-> {u}]
    <3>1. d \in Documents /\ d.users # {}
      BY DEF Documents
    <3>2. Save(v, u, d) /\ VisitAt(v, "exchange")
      BY <1>3, <2>1 DEF Exchanged
    <3> HIDE DEF d
    <3>. QED
      BY <3>1, <3>2, SaveStep
  <2>2. CASE visit[v].kind = "login" /\ MayLogIn(u)
    <3>1. doc \in Documents /\ doc.users # {}
      BY <2>2 DEF MayLogIn, AuthInv, StateTypes
    <3>2. Save(v, u, doc) /\ VisitAt(v, "exchange")
      BY <1>3, <2>2 DEF Exchanged
    <3>. QED
      BY <3>1, <3>2, SaveStep
  <2>3. CASE ~(visit[v].kind = "enroll" /\ MayBind(v)) /\ ~(visit[v].kind = "login" /\ MayLogIn(u))
    BY <1>1, <1>3, <2>3, RefuseStep DEF Exchanged
  <2>. QED
    BY <2>1, <2>2, <2>3
<1>. QED
  BY <1>2, <1>3

LEMMA RenameStep == ASSUME AuthInv, NEW v \in Visits, Rename(v) PROVE AuthInv'
<1> DEFINE r == [visit[v] EXCEPT !.at = "saved"]
<1>1. r \in VisitRecord /\ NotedBy(r) /\ (Held(v) <=> HeldAs(r))
  BY VisitFields DEF Rename, VisitAt, VisitRecord, NotedBy, HeldAs, Held
<1>2. visit' = [visit EXCEPT ![v] = r] /\ slots' = slots
  BY DEF Rename, AuthInv, VisitsOK
<1>3. disk' \in DiskRecord
  <2>1. visit[v].save \in Documents
    BY VisitFields DEF Rename, VisitAt, NotedBy
  <2>. QED
    BY <2>1 DEF Rename, DiskRecord, AuthInv, StateTypes
<1> HIDE DEF r
<1>. QED
  BY <1>1, <1>2, <1>3, OneVisitMoves DEF Rename, AuthInv, StoresOK

(* The binding: an owner is bound, and every session from before it ends.  *)
LEMMA BindStep == ASSUME AuthInv, NEW v \in Visits, Bind(v) PROVE AuthInv'
<1> DEFINE r == [visit[v] EXCEPT !.at = "clearing"]
<1>1. r \in VisitRecord /\ NotedBy(r) /\ HeldAs(r) /\ Held(v)
  BY VisitFields DEF Bind, VisitAt, VisitRecord, NotedBy, HeldAs, Held
<1>2. visit' = [visit EXCEPT ![v] = r] /\ slots' = slots
  BY DEF Bind, AuthInv, VisitsOK
<1> HIDE DEF r
<1>3. visit[v].save \in Documents /\ visit[v].save.users # {}
  BY VisitFields DEF Bind, VisitAt, NotedBy
<1>4. StateTypes' /\ Bound'
  BY <1>3, DocumentsAssumption DEF Bind, StateTypes, Bound, AuthInv
<1>5. StoresOK'
  BY FewerKept DEF Bind, AuthInv
<1>. QED
  BY <1>1, <1>2, <1>4, <1>5, VisitMoves DEF AuthInv

LEMMA AdmitSteps ==
  ASSUME AuthInv, NEW v \in Visits, LogIn(v) \/ \E cleared \in BOOLEAN : AdmitOwner(v, cleared)
  PROVE  AuthInv'
<1> DEFINE s == Session(v, "github", visit[v].user, visit[v].save.authz)
<1>1. /\ visit[v].save \in Documents /\ visit[v].user \in Users \cup {None} /\ Held(v)
      /\ LogIn(v) => visit[v].save.users # {}
  BY VisitFields DEF LogIn, AdmitOwner, VisitAt, NotedBy, Held
<1>2. s \in SessionRecord /\ s.kind = "github"
  BY <1>1 DEF Session, SessionRecord, Documents
<1>3. /\ sessions' = Opened(sessions, s) /\ UNCHANGED <<lifecycle, pending, restored>>
      /\ EndCallback(v)
      /\ doc' = doc \/ (LogIn(v) /\ doc' = visit[v].save)
  BY DEF LogIn, AdmitOwner
<1> HIDE DEF s
<1>4. StoresOK'
  BY <1>2, <1>3, OpenedStores DEF AuthInv
<1>5. Bound'
  BY <1>1, <1>2, <1>3, DocumentsAssumption DEF Bound, Opened, AuthInv
<1>6. disk' \in DiskRecord
  BY DEF LogIn, AdmitOwner, DiskRecord, AuthInv, StateTypes
<1>7. StateTypes'
  BY <1>1, <1>3, <1>6 DEF AuthInv, StateTypes
<1>8. VisitsOK' /\ SlotsAreCallbacks'
  BY <1>1, <1>3, IdleRecords, VisitMoves DEF EndCallback
<1>. QED
  BY <1>4, <1>5, <1>7, <1>8 DEF AuthInv

LEMMA RecoverySteps ==
  ASSUME AuthInv, NEW v \in Visits,
         RecoveryLoaded(v) \/ RecoveryConsumed(v) \/ RecoveryFails(v) \/ Again(v)
  PROVE  AuthInv'
<1>1. /\ UNCHANGED <<lifecycle, doc, sessions, pending, slots, restored>> /\ StoresOK'
  BY DEF RecoveryLoaded, RecoveryConsumed, RecoveryFails, Again, AuthInv, StoresOK
<1>2. disk' \in DiskRecord
  BY DEF RecoveryLoaded, RecoveryConsumed, RecoveryFails, Again, DiskRecord, AuthInv, StateTypes
<1>3. ASSUME NEW r \in VisitRecord, NotedBy(r), ~HeldAs(r), visit' = [visit EXCEPT ![v] = r],
             ~Held(v)
      PROVE  AuthInv'
  BY <1>1, <1>2, <1>3, OneVisitMoves
<1>4. CASE RecoveryLoaded(v)
  <2> DEFINE r == [Idle EXCEPT !.at = "recovering", !.kind = "recover"]
  <2>1. r \in VisitRecord /\ NotedBy(r) /\ ~HeldAs(r)
    BY IdleRecords DEF VisitRecord, NotedBy, HeldAs, Idle
  <2>2. visit' = [visit EXCEPT ![v] = r] /\ ~Held(v)
    BY <1>4 DEF RecoveryLoaded, VisitAt, Held
  <2> HIDE DEF r
  <2>. QED
    BY <1>3, <2>1, <2>2
<1>5. CASE RecoveryConsumed(v)
  <2> DEFINE d == [authz |-> AuthzVersion + 1, users |-> {}]
             r == [visit[v] EXCEPT !.at = "saving", !.save = d]
  <2>1. d \in Documents
    BY DEF Documents, AuthzVersion, AuthInv, StateTypes
  <2>2. visit' = [visit EXCEPT ![v] = r]
    BY <1>5 DEF RecoveryConsumed, AuthInv, VisitsOK
  <2> HIDE DEF d
  <2>3. r \in VisitRecord /\ NotedBy(r) /\ ~HeldAs(r) /\ ~Held(v)
    BY <1>5, <2>1, VisitFields DEF RecoveryConsumed, VisitAt, VisitRecord, NotedBy, HeldAs, Held
  <2> HIDE DEF r
  <2>. QED
    BY <1>3, <2>2, <2>3
<1>6. CASE RecoveryFails(v)
  BY <1>3, <1>6, IdleRecords DEF RecoveryFails, Held
<1>7. CASE Again(v)
  <2>1. NotedBy(Idle) /\ ~HeldAs(Idle)
    BY DEF Idle, NotedBy, HeldAs
  <2>. QED
    BY <1>3, <1>7, <2>1, IdleRecords DEF Again, VisitAt, Held
<1>. QED
  BY <1>4, <1>5, <1>6, <1>7

LEMMA RecoverStep == ASSUME AuthInv, NEW v \in Visits, Recover(v) PROVE AuthInv'
<1>1. visit[v].save \in Documents /\ ~Held(v)
  BY VisitFields DEF Recover, VisitAt, NotedBy, Held
<1> DEFINE s == Session(v, "recovery", None, visit[v].save.authz)
<1>2. s \in SessionRecord
  BY <1>1 DEF Session, SessionRecord, Documents
<1>3. sessions' = {s} /\ UNCHANGED <<pending, slots, disk>> /\ lifecycle' = "bootstrap"
      /\ doc' = visit[v].save /\ visit' = [visit EXCEPT ![v] = Done]
  BY DEF Recover
<1> HIDE DEF s
<1>4. StoresOK'
  <2>1. IsFiniteSet({s}) /\ Cardinality({s}) = 1 /\ {s} \subseteq SessionRecord
    BY <1>2, FS_Singleton
  <2>2. IsFiniteSet(sessions') /\ Cardinality(sessions') = 1 /\ sessions' \subseteq SessionRecord
    BY <1>3, <2>1
  <2>. QED
    BY <1>3, <2>2, LimitsAssumption DEF StoresOK, AuthInv
<1>5. StateTypes' /\ Bound'
  BY <1>1, <1>3 DEF StateTypes, Bound, AuthInv
<1>6. VisitsOK' /\ SlotsAreCallbacks'
  BY <1>1, <1>3, IdleRecords, VisitMoves
<1>. QED
  BY <1>4, <1>5, <1>6 DEF AuthInv

LEMMA RestartStep == ASSUME AuthInv, Restart PROVE AuthInv'
<1>1. StartupDocument \in Documents \cup {None}
      /\ StartupLifecycle \in {"bootstrap", "active", "recovery", "invalid"}
      /\ (StartupLifecycle = "active" => StartupDocument # None /\ StartupDocument.users # {})
  BY NamesAssumption
  DEF StartupDocument, StartupLifecycle, DiskRecord, AuthInv, StateTypes
<1>2. StateTypes' /\ Bound'
  BY <1>1 DEF Restart, StateTypes, Bound, AuthInv
<1>3. StoresOK'
  BY FewerKept DEF Restart, AuthInv
<1>4. VisitsOK' /\ \A w \in Visits : ~Held(w)'
  <2>1. \A w \in Visits : visit'[w] \in {Idle, Done}
    BY DEF Restart
  <2>2. NotedBy(Idle) /\ ~HeldAs(Idle) /\ Idle \in VisitRecord
    BY IdleRecords DEF Idle, NotedBy, HeldAs
  <2>3. visit' \in [Visits -> VisitRecord]
    BY <2>2, IdleRecords DEF Restart
  <2>. QED
    BY <2>1, <2>2, <2>3, IdleRecords DEF VisitsOK, Held, HeldAs
<1>5. {w \in Visits : Held(w)'} = {}
  BY <1>4
<1>6. SlotsAreCallbacks'
  BY <1>5, FS_EmptySet, LimitsAssumption DEF Restart, SlotsAreCallbacks
<1>. QED
  BY <1>2, <1>3, <1>4, <1>6 DEF AuthInv

LEMMA AuthStep == AuthInv /\ [AuthNext]_authVars => AuthInv'
<1> SUFFICES ASSUME AuthInv, [AuthNext]_authVars PROVE AuthInv'
  OBVIOUS
<1>1. CASE UNCHANGED authVars
  BY <1>1 DEF authVars, AuthInv, StateTypes, StoresOK, Bound, VisitsOK, SlotsAreCallbacks, Held
<1>2. ASSUME NEW v \in Visits, Progress(v) PROVE AuthInv'
  BY <1>2, ExchangeSteps, RenameStep, BindStep, AdmitSteps DEF Progress
<1>. QED
  BY <1>1, <1>2, PasswordSteps, ContinueStep, OutsideSteps, OAuthBegins, CallbackStep,
     RecoverySteps, RecoverStep, RestartStep DEF AuthNext

(* web-login index.ts: an active gate has an owner and no session from     *)
(* before the binding, and the slots taken are the callbacks at work, for  *)
(* any requests, accounts and limits.                                      *)
THEOREM GateIsHonest == AuthSpec => []GateHonest
<1>1. AuthInit => AuthInv
  <2> SUFFICES ASSUME AuthInit PROVE AuthInv
    OBVIOUS
  <2>1. disk \in DiskRecord
    BY DEF AuthInit, DiskRecord, Documents
  <2>2. StateTypes /\ Bound
    BY <2>1, NamesAssumption
    DEF AuthInit, StateTypes, Bound, StartupDocument, StartupLifecycle, DiskRecord
  <2>3. StoresOK
    BY FS_EmptySet, LimitsAssumption DEF AuthInit, StoresOK
  <2>4. VisitsOK
    BY IdleRecords DEF AuthInit, VisitsOK, NotedBy
  <2>5. {v \in Visits : Held(v)} = {}
    BY IdleRecords DEF AuthInit, Held
  <2>6. SlotsAreCallbacks
    BY <2>5, FS_EmptySet, LimitsAssumption DEF AuthInit, SlotsAreCallbacks
  <2>. QED
    BY <2>2, <2>3, <2>4, <2>6 DEF AuthInv
<1>2. AuthInv => GateHonest
  BY DEF AuthInv, GateHonest, ActiveIsBound, AuthTypeOK, StateTypes, StoresOK, Bound
<1>. QED
  BY <1>1, <1>2, AuthStep, PTL DEF AuthSpec

===============================================================================
