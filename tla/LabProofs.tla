------------------------------ MODULE LabProofs ------------------------------
(***************************************************************************)
(* Proofs about the labs: the commands that work in them (Lab) and the     *)
(* search for what broke a profile, which tries things in them             *)
(* (Investigation).                                                        *)
(***************************************************************************)
EXTENDS Lab, Investigation, FiniteSetTheorems, WellFoundedInduction, TLAPS

----------------------------------------------------------------------------
(***************************************************************************)
(* Proofs about Lab: nothing runs in a lab that is being destroyed, and    *)
(* the package cache is pruned while nothing installs from it: for any     *)
(* number of processes and labs, and any number of kills.                  *)
(*                                                                         *)
(* RemovesIdle is not inductive: whether a second process may come to work *)
(* in the lab, or to install, is decided when it takes its locks.  Holds   *)
(* says which of them a process has from the step that takes them to the   *)
(* one that gives them back, and that a prune has seen the leases end.     *)
(***************************************************************************)

LabRecord ==
  [state : {"none", "created", "applying", "passed", "failed"},
   mirror : BOOLEAN, doomed : BOOLEAN, inherited : BOOLEAN,
   rec : {"none", "running", "stopped"}, sup : {"none", "booting", "checking", "serving"},
   sent : {"none", "bad", "ok"}, dsh : BOOLEAN]

Starting == {"apply", "install", "wait", "fail"}
InRun == {"begin", "step", "probe", "verdict"}
Pruning == {"leases", "labs", "prune"}
Places == {"idle", "create", "enter", "destroy", "release", "reap", "expired", "dead"}
          \cup Starting \cup InRun \cup Pruning

ProcRecord ==
  [pc : Places, on : Labs \cup {Nobody}, saw : LabRecord, todo : SUBSET Labs]

LabTypeOK ==
  /\ lab \in [Labs -> LabRecord]
  /\ proc \in [Runner -> ProcRecord]
  /\ svc \in Runner \cup {Nobody} /\ pruning \in Runner \cup {Nobody}
  /\ op \in [Labs \cup {Home} -> Runner \cup {Nobody}]
  /\ leases \subseteq Runner

(* What a process holds, by what it does.                                  *)
Holds(p) ==
  LET pc == proc[p].pc
      l == proc[p].on IN
  /\ pc \in Starting \cup InRun \cup {"enter", "destroy"} => l \in Labs
  /\ pc \in Starting \cup {"destroy"} => svc = p
  /\ svc = p => pc \in Starting \cup {"create", "destroy", "release", "dead"}
  /\ pc \in InRun \cup {"destroy"} => op[l] = p
  /\ pc \in Starting \cup InRun => p \in leases
  /\ pc = "create" /\ svc = p => p \in leases
  /\ pc = "destroy" => lab[l].rec # "running"
  /\ pc \in Pruning => pruning = p
  /\ pc \in {"labs", "prune"} => \A q \in leases : Dead(q)

LabInv == LabTypeOK /\ \A p \in Runner : Holds(p)

(* The records that the actions write.                                     *)
LEMMA RestRecord ==
  /\ NoLab \in LabRecord /\ NoLab.rec = "none"
  /\ NoCommand \in ProcRecord /\ NoCommand.pc = "idle"
BY DEF NoLab, NoCommand, LabRecord, ProcRecord, Places

LEMMA LabUpdates ==
  ASSUME NEW r \in LabRecord
  PROVE  /\ \A x \in {"none", "running", "stopped"} :
              [r EXCEPT !.rec = x] \in LabRecord /\ [r EXCEPT !.rec = x].rec = x
         /\ \A x \in {"none", "booting", "checking", "serving"} :
              [r EXCEPT !.sup = x] \in LabRecord /\ [r EXCEPT !.sup = x].rec = r.rec
         /\ \A x \in {"none", "bad", "ok"} :
              [r EXCEPT !.sent = x] \in LabRecord /\ [r EXCEPT !.sent = x].rec = r.rec
         /\ \A x \in BOOLEAN :
              /\ [r EXCEPT !.dsh = x] \in LabRecord /\ [r EXCEPT !.dsh = x].rec = r.rec
              /\ [r EXCEPT !.mirror = x] \in LabRecord /\ [r EXCEPT !.mirror = x].rec = r.rec
              /\ [r EXCEPT !.doomed = x] \in LabRecord /\ [r EXCEPT !.doomed = x].rec = r.rec
              /\ [r EXCEPT !.inherited = x] \in LabRecord
              /\ [r EXCEPT !.inherited = x].rec = r.rec
         /\ \A x \in {"none", "created", "applying", "passed", "failed"} :
              [r EXCEPT !.state = x] \in LabRecord /\ [r EXCEPT !.state = x].rec = r.rec
BY DEF LabRecord

(* What an action that moves one process, or writes one lab, leaves alone. *)
LEMMA Replaced ==
  ASSUME LabTypeOK, NEW p \in Runner, NEW r \in ProcRecord,
         proc' = [proc EXCEPT ![p] = r]
  PROVE  /\ proc' \in [Runner -> ProcRecord] /\ proc'[p] = r
         /\ \A q \in Runner \ {p} : proc'[q] = proc[q]
BY DEF LabTypeOK

LEMMA Goes ==
  ASSUME LabTypeOK, NEW p \in Runner, NEW pc \in Places, GoTo(p, pc)
  PROVE  /\ proc' \in [Runner -> ProcRecord]
         /\ proc'[p].pc = pc /\ proc'[p].on = proc[p].on
         /\ \A q \in Runner \ {p} : proc'[q] = proc[q]
<1> DEFINE r == [proc[p] EXCEPT !.pc = pc]
<1>1. r \in ProcRecord /\ r.pc = pc /\ r.on = proc[p].on
  BY DEF LabTypeOK, ProcRecord
<1>2. proc' = [proc EXCEPT ![p] = r]
  BY DEF GoTo
<1> HIDE DEF r
<1>. QED
  BY <1>1, <1>2, Replaced

LEMMA OneWritten ==
  ASSUME LabTypeOK, NEW l, NEW r, l \in Labs => r \in LabRecord, Put(l, r)
  PROVE  /\ lab' \in [Labs -> LabRecord]
         /\ \A k \in Labs : lab'[k] = IF k = l THEN r ELSE lab[k]
BY DEF LabTypeOK, Put

(* What a step of one process may do to what the others rely on: it takes  *)
(* only locks that are free or whose owner is dead, and lets no service    *)
(* start.                                                                  *)
Keeps(p) ==
  /\ \A q \in Runner \ {p} : proc'[q] = proc[q]
  /\ svc' = svc \/ (svc' \in {p, Nobody} /\ (svc = p \/ Open(svc)))
  /\ \A h \in Labs \cup {Home} :
       op'[h] = op[h] \/ (op'[h] \in {p, Nobody} /\ (op[h] = p \/ Open(op[h])))
  /\ pruning' = pruning \/ (pruning' \in {p, Nobody} /\ (pruning = p \/ Open(pruning)))
  /\ \A q \in leases : q = p \/ Dead(q) \/ q \in leases'
  /\ leases' \subseteq leases \/ (leases' = leases \cup {p} /\ Open(pruning))

Typed ==
  /\ proc' \in [Runner -> ProcRecord]
  /\ lab' \in [Labs -> LabRecord]
  /\ \A l \in Labs : lab'[l].rec = "running" => lab[l].rec = "running"

LEMMA OneActs ==
  ASSUME LabInv, NEW p \in Runner, ~Dead(p), Typed, Keeps(p),
         op' \in [Labs \cup {Home} -> Runner \cup {Nobody}], Holds(p)'
  PROVE  LabInv'
<1>1. LabTypeOK'
  BY LabAssumption DEF LabInv, LabTypeOK, Typed, Keeps
<1>2. ASSUME NEW q \in Runner \ {p} PROVE Holds(q)'
  <2>1. Holds(q) /\ proc'[q] = proc[q] /\ Dead(q)' = Dead(q)
    BY <1>2 DEF LabInv, Keeps, Dead, Doing
  <2>2. ASSUME ~Dead(q)
        PROVE  /\ svc = q <=> svc' = q
               /\ pruning = q => pruning' = q
               /\ \A l \in Labs : op[l] = q => op'[l] = q
               /\ q \in leases <=> q \in leases'
    BY <1>2, <2>2, LabAssumption DEF Keeps, Open, Dead
  <2>3. CASE Dead(q)
    BY <1>2, <2>1, <2>3 DEF Holds, Dead, Doing, Starting, InRun, Pruning
  <2>4. CASE ~Dead(q)
    <3>1. proc[q].pc \in {"labs", "prune"} => \A r \in leases' : Dead(r)'
      <4> SUFFICES ASSUME proc[q].pc \in {"labs", "prune"}, NEW r \in leases' PROVE Dead(r)'
        OBVIOUS
      <4>1. pruning = q /\ \A x \in leases : Dead(x)
        BY <2>1 DEF Holds, Pruning
      <4>2. ~Open(pruning)
        BY <1>2, <2>4, <4>1, LabAssumption DEF Open
      <4>3. r \in leases
        BY <4>2 DEF Keeps
      <4>. QED
        BY <4>1, <4>3 DEF Keeps, Dead, Doing
    <3>2. proc[q].pc = "destroy" => lab'[proc[q].on].rec # "running"
      BY <2>1 DEF Holds, Typed
    <3>. QED
      BY <2>1, <2>2, <2>4, <3>1, <3>2 DEF Holds
  <2>. QED
    BY <2>3, <2>4
<1>. QED
  BY <1>1, <1>2 DEF LabInv

(* A process goes on without taking or giving back a lock.                 *)
Fits(p) ==
  \/ proc'[p].pc \in {"release", "dead"}
  \/ proc[p].pc \in Starting /\ proc'[p].pc \in Starting /\ proc'[p].on = proc[p].on
  \/ proc[p].pc \in InRun /\ proc'[p].pc \in InRun /\ proc'[p].on = proc[p].on
  \/ proc[p].pc \in {"idle", "reap", "expired"} /\ proc'[p].pc \in {"reap", "expired"}

LEMMA OneMoves ==
  ASSUME LabInv, NEW p \in Runner, ~Dead(p), Typed, Fits(p),
         \A q \in Runner \ {p} : proc'[q] = proc[q],
         UNCHANGED <<svc, op, pruning, leases>>
  PROVE  LabInv'
<1>1. Keeps(p)
  BY DEF Keeps
<1>2. Holds(p)'
  <2>1. Holds(p)
    BY DEF LabInv
  <2>2. CASE proc'[p].pc \in {"release", "dead"}
    BY <2>1, <2>2 DEF Holds, Starting, InRun, Pruning
  <2>3. CASE proc[p].pc \in Starting /\ proc'[p].pc \in Starting /\ proc'[p].on = proc[p].on
    BY <2>1, <2>3 DEF Holds, Starting, InRun, Pruning
  <2>4. CASE proc[p].pc \in InRun /\ proc'[p].pc \in InRun /\ proc'[p].on = proc[p].on
    BY <2>1, <2>4 DEF Holds, Starting, InRun, Pruning
  <2>5. CASE proc[p].pc \in {"idle", "reap", "expired"} /\ proc'[p].pc \in {"reap", "expired"}
    BY <2>1, <2>5 DEF Holds, Starting, InRun, Pruning
  <2>. QED
    BY <2>2, <2>3, <2>4, <2>5 DEF Fits
<1>. QED
  BY <1>1, <1>2, OneActs DEF LabInv, LabTypeOK

(* A command that goes from one of its steps to the next, and may write    *)
(* the record of a lab.                                                    *)
LEMMA GoesOn ==
  ASSUME LabInv, NEW p \in Runner, NEW pc \in Places, GoTo(p, pc), ~Dead(p),
         \/ pc \in {"release", "dead"}
         \/ proc[p].pc \in Starting /\ pc \in Starting
         \/ proc[p].pc \in InRun /\ pc \in InRun
         \/ proc[p].pc \in {"reap", "expired"} /\ pc = "reap",
         UNCHANGED <<svc, op, pruning, leases>>
  PROVE  /\ UNCHANGED lab => LabInv'
         /\ \A l \in Labs \cup {Nobody} : \A r :
              /\ Put(l, r)
              /\ l \in Labs => r \in LabRecord /\ (r.rec = "running" => lab[l].rec = "running")
              => LabInv'
<1>1. /\ proc' \in [Runner -> ProcRecord] /\ proc'[p].pc = pc /\ proc'[p].on = proc[p].on
      /\ \A q \in Runner \ {p} : proc'[q] = proc[q]
  BY Goes DEF LabInv
<1>2. Fits(p)
  BY <1>1 DEF Fits
<1>3. Typed => LabInv'
  BY <1>1, <1>2, OneMoves
<1>4. UNCHANGED lab => Typed
  BY <1>1 DEF Typed, LabInv, LabTypeOK
<1>5. ASSUME NEW l \in Labs \cup {Nobody}, NEW r, Put(l, r),
             l \in Labs => r \in LabRecord /\ (r.rec = "running" => lab[l].rec = "running")
      PROVE  Typed
  BY <1>1, <1>5, OneWritten DEF Typed, LabInv
<1>. QED
  BY <1>3, <1>4, <1>5

(* What is written when a service has ended, or a directory was removed.   *)
LEMMA EndRecords ==
  ASSUME NEW r \in LabRecord
  PROVE  /\ ServiceDown(r) \in LabRecord /\ ServiceDown(r).rec = "stopped"
         /\ Removed(r) \in LabRecord /\ Removed(r).rec = "none"
BY DEF ServiceDown, Removed, NoLab, LabRecord

LEMMA MirrorGoesOn ==
  ASSUME LabInv, NEW p \in Runner, Ready(p) \/ Gone(p) \/ TimedOut(p) \/ Fail(p)
  PROVE  LabInv'
<1>1. ~Dead(p)
  BY DEF Ready, Gone, TimedOut, Fail, Dead, Doing
<1> DEFINE l == proc[p].on
           old == lab[l]
<1>2. /\ l \in Labs \cup {Nobody} /\ proc[p].saw.inherited \in BOOLEAN
      /\ l \in Labs => old \in LabRecord
  BY DEF LabInv, LabTypeOK, ProcRecord, LabRecord
<1>3. CASE Ready(p)
  <2> DEFINE r == [old EXCEPT !.state = "passed", !.mirror = TRUE, !.inherited = TRUE]
  <2>1. l \in Labs => r \in LabRecord /\ r.rec = old.rec
    BY <1>2 DEF LabRecord
  <2>2. Put(l, r) /\ GoTo(p, "release") /\ UNCHANGED <<svc, op, pruning, leases>>
    BY <1>3 DEF Ready
  <2> HIDE DEF r
  <2>. QED
    BY <1>1, <1>2, <2>1, <2>2, GoesOn DEF Places
<1>4. CASE Gone(p)
  BY <1>1, <1>4, GoesOn DEF Gone, Doing, Places, Starting
<1>5. CASE TimedOut(p)
  <2> DEFINE r == IF old.sup = "serving" THEN ServiceDown(old) ELSE [old EXCEPT !.sup = "none"]
  <2>1. l \in Labs => r \in LabRecord /\ (r.rec = "running" => old.rec = "running")
    BY <1>2, EndRecords DEF LabRecord
  <2>2. Put(l, r) /\ GoTo(p, "fail") /\ UNCHANGED <<svc, op, pruning, leases>>
    BY <1>5 DEF TimedOut
  <2>3. proc[p].pc \in Starting
    BY <1>5 DEF TimedOut, Doing, Starting
  <2> HIDE DEF r
  <2>. QED
    BY <1>1, <1>2, <2>1, <2>2, <2>3, GoesOn DEF Places, Starting
<1>6. CASE Fail(p)
  <2> DEFINE end == IF old.rec = "running" /\ old.sup = "serving" THEN ServiceDown(old) ELSE old
             r == Failed(end, proc[p].saw)
  <2>1. l \in Labs => end \in LabRecord /\ (end.rec = "running" => old.rec = "running")
    BY <1>2, EndRecords
  <2>2. Put(l, r) /\ GoTo(p, "release") /\ UNCHANGED <<svc, op, pruning, leases>>
    BY <1>6 DEF Fail
  <2> HIDE DEF end
  <2>3. l \in Labs => r \in LabRecord /\ r.rec = end.rec
    BY <1>2, <2>1 DEF Failed, LabRecord
  <2> HIDE DEF r
  <2>. QED
    BY <1>1, <1>2, <2>1, <2>2, <2>3, GoesOn DEF Places
<1>. QED
  BY <1>3, <1>4, <1>5, <1>6

LEMMA RunGoesOn ==
  ASSUME LabInv, NEW p \in Runner,
         \/ CreateFails(p) \/ BeginRun(p) \/ Throw(p) \/ Probe(p) \/ Unboot(p) \/ Verdict(p)
         \/ Remove(p) \/ ReapOne(p) \/ Reaped(p) \/ KillRunner(p)
  PROVE  LabInv'
<1>1. ~Dead(p)
  BY DEF CreateFails, BeginRun, Throw, Probe, Unboot, Verdict, Remove, ReapOne, Reaped,
         KillRunner, Dead, Doing
<1> DEFINE l == proc[p].on
           old == lab[l]
<1>2. /\ l \in Labs \cup {Nobody} /\ proc[p].saw \in LabRecord
      /\ l \in Labs => old \in LabRecord
  BY DEF LabInv, LabTypeOK, ProcRecord
<1>3. ASSUME l \in Labs, NEW x \in {"applying", "passed", "failed"}
      PROVE  /\ Written(p, x) \in LabRecord /\ Written(p, x).rec = old.rec
             /\ \A y \in BOOLEAN : LET r == [Written(p, x) EXCEPT !.doomed = y] IN
                                   r \in LabRecord /\ r.rec = old.rec
  BY <1>2, <1>3 DEF Written, LabRecord
<1>4. CASE CreateFails(p) \/ Throw(p) \/ Reaped(p) \/ KillRunner(p)
  BY <1>1, <1>4, GoesOn DEF CreateFails, Throw, Reaped, KillRunner, Doing, Places
<1>5. CASE BeginRun(p)
  BY <1>1, <1>2, <1>3, <1>5, GoesOn DEF BeginRun, Doing, Places, InRun
<1>6. ASSUME NEW x \in BOOLEAN, NEW pc \in {"probe", "verdict", "release"},
             proc[p].pc \in InRun, Put(l, [old EXCEPT !.dsh = x]), GoTo(p, pc),
             UNCHANGED <<svc, op, pruning, leases>>
      PROVE  LabInv'
  <2> DEFINE r == [old EXCEPT !.dsh = x]
  <2>1. l \in Labs => r \in LabRecord /\ r.rec = old.rec
    BY <1>2, LabUpdates
  <2>2. Put(l, r)
    BY <1>6
  <2> HIDE DEF r
  <2>. QED
    BY <1>1, <1>2, <1>6, <2>1, <2>2, GoesOn DEF Places, InRun
<1>7. CASE Probe(p) \/ Unboot(p)
  BY <1>6, <1>7 DEF Probe, Unboot, Doing, InRun
<1>8. ASSUME NEW r, l \in Labs => r \in LabRecord /\ (r.rec = "running" => old.rec = "running"),
             NEW pc \in {"release", "reap"}, pc = "reap" => proc[p].pc = "expired",
             Put(l, r), GoTo(p, pc), UNCHANGED <<svc, op, pruning, leases>>
      PROVE  LabInv'
  BY <1>1, <1>2, <1>8, GoesOn DEF Places
<1>9. l \in Labs => Removed(old) \in LabRecord /\ Removed(old).rec = "none"
  BY <1>2, EndRecords
<1>10. CASE Verdict(p)
  <2>1. CASE Put(l, [Written(p, "failed") EXCEPT !.doomed = TRUE])
    BY <1>3, <1>8, <1>10, <2>1 DEF Verdict
  <2>2. CASE Put(l, [Written(p, "passed") EXCEPT !.doomed = FALSE])
    BY <1>3, <1>8, <1>10, <2>2 DEF Verdict
  <2>3. CASE Put(l, Removed(old))
    BY <1>8, <1>9, <1>10, <2>3 DEF Verdict
  <2>. QED
    BY <1>10, <2>1, <2>2, <2>3 DEF Verdict
<1>11. CASE Remove(p) \/ ReapOne(p)
  BY <1>8, <1>9, <1>11 DEF Remove, ReapOne, Doing
<1>. QED
  BY <1>4, <1>5, <1>7, <1>10, <1>11

(* The record of a process that also notes what it has read.               *)
LEMMA InstallGoesOn ==
  ASSUME LabInv, NEW p \in Runner, Apply(p) \/ InstallFails(p) \/ Fork(p)
  PROVE  LabInv'
<1>1. ~Dead(p) /\ proc[p].pc \in Starting /\ UNCHANGED <<svc, op, pruning, leases>>
  BY DEF Apply, InstallFails, Fork, Dead, Doing, Starting
<1> DEFINE l == proc[p].on
           old == lab[l]
<1>2. /\ l \in Labs /\ old \in LabRecord /\ old.inherited \in BOOLEAN
      /\ proc[p] \in ProcRecord /\ proc[p].saw \in LabRecord
      /\ proc[p].saw.inherited \in BOOLEAN
  BY <1>1 DEF LabInv, LabTypeOK, ProcRecord, LabRecord, Holds
<1>3. ASSUME NEW pc \in Starting, NEW x \in BOOLEAN,
             proc' = [proc EXCEPT ![p].pc = pc, ![p].saw.inherited = x]
      PROVE  /\ proc' \in [Runner -> ProcRecord] /\ Fits(p)
             /\ \A q \in Runner \ {p} : proc'[q] = proc[q]
  <2> DEFINE saw == [proc[p].saw EXCEPT !.inherited = x]
             r == [proc[p] EXCEPT !.pc = pc, !.saw = saw]
  <2>1. saw \in LabRecord
    BY <1>2, LabUpdates
  <2>2. proc' = [proc EXCEPT ![p] = r]
    BY <1>2, <1>3 DEF LabInv, LabTypeOK
  <2> HIDE DEF saw
  <2>3. r \in ProcRecord /\ r.pc = pc /\ r.on = proc[p].on
    BY <1>2, <2>1 DEF ProcRecord, Places
  <2> HIDE DEF r
  <2>. QED
    BY <1>1, <2>2, <2>3, Replaced DEF Fits, LabInv
<1>4. ASSUME NEW r, Put(l, r), r \in LabRecord /\ r.rec = old.rec
      PROVE  /\ lab' \in [Labs -> LabRecord]
             /\ \A k \in Labs : lab'[k].rec = "running" => lab[k].rec = "running"
  BY <1>4, OneWritten DEF LabInv
<1>5. CASE Apply(p)
  <2> DEFINE r == [old EXCEPT !.state = "applying", !.mirror = TRUE]
  <2>1. r \in LabRecord /\ r.rec = old.rec
    BY <1>2 DEF LabRecord
  <2>2. Put(l, r) /\ proc' = [proc EXCEPT ![p].pc = "install", ![p].saw.inherited = old.inherited]
    BY <1>5 DEF Apply
  <2> HIDE DEF r
  <2>. QED
    BY <1>1, <1>2, <1>3, <1>4, <2>1, <2>2, OneMoves DEF Typed, Starting
<1>6. CASE InstallFails(p)
  <2>1. PICK x \in BOOLEAN :
          proc' = [proc EXCEPT ![p].pc = "fail", ![p].saw.inherited = x]
    BY <1>2, <1>6 DEF InstallFails
  <2>2. UNCHANGED lab
    BY <1>6 DEF InstallFails
  <2>. QED
    BY <1>1, <1>3, <2>1, <2>2, OneMoves DEF Typed, Starting, LabInv, LabTypeOK
<1>7. CASE Fork(p)
  <2> DEFINE r == [old EXCEPT !.sup = "booting", !.sent = "none"]
  <2>1. r \in LabRecord /\ r.rec = old.rec
    BY <1>2 DEF LabRecord
  <2>2. Put(l, r) /\ proc' = [proc EXCEPT ![p].pc = "wait", ![p].saw.inherited = TRUE]
    BY <1>7 DEF Fork
  <2> HIDE DEF r
  <2>. QED
    BY <1>1, <1>3, <1>4, <2>1, <2>2, OneMoves DEF Typed, Starting
<1>. QED
  BY <1>5, <1>6, <1>7

LEMMA ReapGoesOn ==
  ASSUME LabInv, NEW p \in Runner, Reap(p) \/ \E l \in Labs : Inspect(p, l)
  PROVE  LabInv'
<1>1. ~Dead(p) /\ UNCHANGED <<lab, svc, op, pruning, leases>>
  BY DEF Reap, Inspect, Dead, Doing
<1>2. ASSUME NEW r \in ProcRecord, proc' = [proc EXCEPT ![p] = r],
             proc[p].pc \in {"idle", "reap"}, r.pc \in {"reap", "expired"}
      PROVE  LabInv'
  BY <1>1, <1>2, Replaced, OneMoves DEF Fits, Typed, LabInv, LabTypeOK
<1>3. CASE Reap(p)
  <2> DEFINE found == {l \in Labs : lab[l].state # "none"}
             r == [NoCommand EXCEPT !.pc = "reap", !.todo = found]
  <2>1. r \in ProcRecord /\ r.pc = "reap"
    BY RestRecord DEF ProcRecord, Places
  <2>2. proc' = [proc EXCEPT ![p] = r] /\ proc[p].pc = "idle"
    BY <1>3 DEF Reap, Doing
  <2> HIDE DEF r
  <2>. QED
    BY <1>2, <2>1, <2>2
<1>4. ASSUME NEW l \in Labs, Inspect(p, l) PROVE LabInv'
  <2> DEFINE pc == IF lab[l].state = "failed" /\ lab[l].doomed THEN "expired" ELSE "reap"
             r == [proc[p] EXCEPT !.todo = @ \ {l}, !.on = l, !.pc = pc]
  <2>1. r \in ProcRecord /\ r.pc \in {"reap", "expired"}
    BY DEF ProcRecord, Places, LabInv, LabTypeOK
  <2>2. proc' = [proc EXCEPT ![p] = r] /\ proc[p].pc = "reap"
    BY <1>4 DEF Inspect, Doing, LabInv, LabTypeOK
  <2> HIDE DEF r
  <2>. QED
    BY <1>2, <2>1, <2>2
<1>. QED
  BY <1>3, <1>4

(* The steps that take locks. *)
LEMMA MirrorTakesLocks ==
  ASSUME LabInv, NEW p \in Runner,
         \/ \E h \in Labs \cup {Home} : StartNew(p, h)
         \/ \E l \in Labs : StartAgain(p, l)
  PROVE  LabInv'
<1>1. /\ ~Dead(p) /\ proc[p].pc = "idle" /\ Holds(p)
      /\ Open(svc) /\ svc' = p /\ Open(pruning) /\ pruning' = pruning
      /\ leases' = leases \cup {p}
  BY DEF StartNew, StartAgain, Dead, Doing, Leasable, Lease, LabInv
<1>2. ASSUME NEW r \in ProcRecord, proc' = [proc EXCEPT ![p] = r],
             NEW h \in Labs \cup {Home}, Open(op[h]), op' = [op EXCEPT ![h] = p],
             \/ r.pc = "create"
             \/ r.pc = "apply" /\ r.on \in Labs,
             lab' \in [Labs -> LabRecord],
             \A l \in Labs : lab'[l].rec = "running" => lab[l].rec = "running"
      PROVE  LabInv'
  <2>1. /\ proc' \in [Runner -> ProcRecord] /\ proc'[p] = r
        /\ \A q \in Runner \ {p} : proc'[q] = proc[q]
    BY <1>2, Replaced DEF LabInv
  <2>2. op' \in [Labs \cup {Home} -> Runner \cup {Nobody}] /\ Keeps(p)
    BY <1>1, <1>2, <2>1 DEF Keeps, LabInv, LabTypeOK
  <2>3. Holds(p)'
    BY <1>1, <1>2, <2>1 DEF Holds, Starting, InRun, Pruning
  <2>. QED
    BY <1>1, <1>2, <2>1, <2>2, <2>3, OneActs DEF Typed
<1>3. ASSUME NEW h \in Labs \cup {Home}, StartNew(p, h) PROVE LabInv'
  <2> DEFINE r == [NoCommand EXCEPT !.pc = "create"]
  <2>1. r \in ProcRecord /\ r.pc = "create"
    BY RestRecord DEF ProcRecord, Places
  <2>2. /\ proc' = [proc EXCEPT ![p] = r] /\ Open(op[h]) /\ op' = [op EXCEPT ![h] = p]
        /\ lab' = lab
    BY <1>3 DEF StartNew
  <2> HIDE DEF r
  <2>. QED
    BY <1>2, <2>1, <2>2 DEF LabInv, LabTypeOK
<1>4. ASSUME NEW l \in Labs, StartAgain(p, l) PROVE LabInv'
  <2> DEFINE r == [NoCommand EXCEPT !.pc = "apply", !.on = l]
             ended == [lab[l] EXCEPT !.rec = "stopped", !.sup = "none",
                                     !.dsh = @ /\ lab[l].sup # "serving"]
  <2>1. r \in ProcRecord /\ r.pc = "apply" /\ r.on = l
    BY RestRecord DEF ProcRecord, Places, Starting
  <2>2. ended \in LabRecord /\ ended.rec = "stopped"
    BY DEF LabRecord, LabInv, LabTypeOK
  <2>3. /\ proc' = [proc EXCEPT ![p] = r] /\ Open(op[l]) /\ op' = [op EXCEPT ![l] = p]
        /\ lab' = lab \/ Put(l, ended)
    BY <1>4 DEF StartAgain
  <2> HIDE DEF r, ended
  <2>4. /\ lab' \in [Labs -> LabRecord]
        /\ \A k \in Labs : lab'[k].rec = "running" => lab[k].rec = "running"
    BY <2>2, <2>3, OneWritten DEF LabInv, LabTypeOK
  <2>. QED
    BY <1>2, <2>1, <2>3, <2>4
<1>. QED
  BY <1>3, <1>4

LEMMA RunTakesLocks ==
  ASSUME LabInv, NEW p \in Runner,
         Run(p) \/ Enter(p) \/ \E l \in Labs : Verify(p, l)
  PROVE  LabInv'
<1>1. /\ ~Dead(p) /\ proc[p].pc \in {"idle", "enter"} /\ Holds(p) /\ proc[p] \in ProcRecord
      /\ UNCHANGED <<lab, svc, pruning>>
  BY DEF Run, Enter, Verify, Dead, Doing, LabInv, LabTypeOK
<1>2. ASSUME NEW r \in ProcRecord, proc' = [proc EXCEPT ![p] = r],
             NEW h \in Labs \cup {Home}, Open(op[h]), op' = [op EXCEPT ![h] = p],
             \/ r.pc = "create" /\ UNCHANGED leases
             \/ r.pc = "begin" /\ r.on = h /\ h \in Labs /\ Leasable /\ Lease(p)
      PROVE  LabInv'
  <2>1. /\ proc' \in [Runner -> ProcRecord] /\ proc'[p] = r
        /\ \A q \in Runner \ {p} : proc'[q] = proc[q]
    BY <1>2, Replaced DEF LabInv
  <2>2. op' \in [Labs \cup {Home} -> Runner \cup {Nobody}] /\ Keeps(p)
    BY <1>1, <1>2, <2>1 DEF Keeps, LabInv, LabTypeOK, Leasable, Lease
  <2>3. Holds(p)'
    BY <1>1, <1>2, <2>1 DEF Holds, Starting, InRun, Pruning, Lease, LabInv, LabTypeOK
  <2>. QED
    BY <1>1, <2>1, <2>2, <2>3, OneActs DEF Typed, LabInv, LabTypeOK
<1>3. CASE Run(p)
  <2> DEFINE r == [NoCommand EXCEPT !.pc = "create"]
  <2>1. r \in ProcRecord /\ r.pc = "create"
    BY RestRecord DEF ProcRecord, Places
  <2>2. /\ proc' = [proc EXCEPT ![p] = r] /\ Open(op[Home]) /\ op' = [op EXCEPT ![Home] = p]
        /\ leases' = leases
    BY <1>3 DEF Run
  <2> HIDE DEF r
  <2>. QED
    BY <1>2, <2>1, <2>2
<1>4. ASSUME NEW l \in Labs, Verify(p, l) PROVE LabInv'
  <2> DEFINE r == [NoCommand EXCEPT !.pc = "begin", !.on = l, !.saw = lab[l]]
  <2>1. r \in ProcRecord /\ r.pc = "begin" /\ r.on = l
    BY RestRecord DEF ProcRecord, Places, InRun, LabInv, LabTypeOK
  <2>2. /\ proc' = [proc EXCEPT ![p] = r] /\ Open(op[l]) /\ op' = [op EXCEPT ![l] = p]
        /\ Leasable /\ Lease(p)
    BY <1>4 DEF Verify, Enterable
  <2> HIDE DEF r
  <2>. QED
    BY <1>2, <2>1, <2>2
<1>5. CASE Enter(p)
  <2>1. CASE GoTo(p, "release") /\ UNCHANGED <<op, leases>>
    BY <1>1, <2>1, GoesOn DEF Places
  <2>2. CASE ~(GoTo(p, "release") /\ UNCHANGED <<op, leases>>)
    <3> DEFINE l == proc[p].on
               r == [proc[p] EXCEPT !.pc = "begin", !.saw = lab[l]]
    <3>1. /\ Enterable(l) /\ op' = [op EXCEPT ![l] = p] /\ Lease(p)
          /\ proc' = [proc EXCEPT ![p] = r]
      BY <1>1, <1>5, <2>2 DEF Enter, LabInv, LabTypeOK
    <3>2. l \in Labs
      BY <1>1, <1>5 DEF Enter, Doing, Holds
    <3>3. r \in ProcRecord /\ r.pc = "begin" /\ r.on = l
      BY <1>1, <3>2 DEF ProcRecord, Places, InRun, LabInv, LabTypeOK
    <3> HIDE DEF r
    <3>. QED
      BY <1>2, <3>1, <3>2, <3>3 DEF Enterable
  <2>. QED
    BY <2>1, <2>2
<1>. QED
  BY <1>3, <1>4, <1>5

LEMMA OthersTakeLocks ==
  ASSUME LabInv, NEW p \in Runner, NEW l \in Labs,
         CreateLab(p, l) \/ Stop(p, l) \/ Destroy(p, l)
  PROVE  LabInv'
<1>1. ~Dead(p) /\ Holds(p) /\ UNCHANGED <<pruning, leases>>
  BY DEF CreateLab, Stop, Destroy, Dead, Doing, LabInv
<1>2. CASE CreateLab(p, l)
  <2> DEFINE r == [proc[p] EXCEPT !.pc = IF svc = p THEN "apply" ELSE "enter", !.on = l]
  <2>1. /\ r \in ProcRecord /\ r.pc = (IF svc = p THEN "apply" ELSE "enter") /\ r.on = l
    BY DEF ProcRecord, Places, Starting, LabInv, LabTypeOK
  <2>2. proc' = [proc EXCEPT ![p] = r] /\ UNCHANGED <<svc, op>> /\ proc[p].pc = "create"
    BY <1>2 DEF CreateLab, Doing, LabInv, LabTypeOK
  <2> HIDE DEF r
  <2>3. /\ proc' \in [Runner -> ProcRecord] /\ proc'[p] = r
        /\ \A q \in Runner \ {p} : proc'[q] = proc[q]
    BY <2>1, <2>2, Replaced DEF LabInv
  <2>4. Typed
    <3>1. Created \in LabRecord /\ Created.rec = "none"
      BY DEF Created, NoLab, LabRecord
    <3>. QED
      BY <1>2, <2>3, <3>1, OneWritten DEF CreateLab, Typed, LabInv
  <2>5. Keeps(p)
    BY <1>1, <2>2, <2>3 DEF Keeps
  <2>6. Holds(p)'
    BY <1>1, <2>1, <2>2, <2>3 DEF Holds, Starting, InRun, Pruning
  <2>. QED
    BY <1>1, <2>2, <2>4, <2>5, <2>6, OneActs DEF LabInv, LabTypeOK
<1>3. CASE Stop(p, l)
  <2> DEFINE r == IF lab[l].sup = "serving" THEN ServiceDown(lab[l])
                  ELSE [lab[l] EXCEPT !.rec = "stopped"]
  <2>1. r \in LabRecord /\ r.rec = "stopped"
    BY EndRecords, LabUpdates DEF LabInv, LabTypeOK
  <2>2. /\ Put(l, r) /\ proc' = proc /\ proc[p].pc = "idle" /\ Open(svc) /\ svc' = Nobody
        /\ Open(op[l]) /\ op' = [op EXCEPT ![l] = Nobody]
    BY <1>3 DEF Stop, Doing
  <2> HIDE DEF r
  <2>3. Typed
    BY <2>1, <2>2, OneWritten DEF Typed, LabInv, LabTypeOK
  <2>4. Keeps(p) /\ op' \in [Labs \cup {Home} -> Runner \cup {Nobody}]
    BY <1>1, <2>2 DEF Keeps, LabInv, LabTypeOK
  <2>5. Holds(p)'
    BY <1>1, <2>2, LabAssumption DEF Holds, Starting, InRun, Pruning
  <2>. QED
    BY <1>1, <2>3, <2>4, <2>5, OneActs
<1>4. CASE Destroy(p, l)
  <2> DEFINE r == [NoCommand EXCEPT !.pc = "destroy", !.on = l]
  <2>1. r \in ProcRecord /\ r.pc = "destroy" /\ r.on = l
    BY RestRecord DEF ProcRecord, Places
  <2>2. /\ proc' = [proc EXCEPT ![p] = r] /\ svc = Nobody /\ svc' = p
        /\ Open(op[l]) /\ op' = [op EXCEPT ![l] = p] /\ lab' = lab /\ lab[l].rec # "running"
    BY <1>4 DEF Destroy, MayDestroy, Destroyable
  <2> HIDE DEF r
  <2>3. /\ proc' \in [Runner -> ProcRecord] /\ proc'[p] = r
        /\ \A q \in Runner \ {p} : proc'[q] = proc[q]
    BY <2>1, <2>2, Replaced DEF LabInv
  <2>4. Typed
    BY <2>2, <2>3 DEF Typed, LabInv, LabTypeOK
  <2>5. Keeps(p) /\ op' \in [Labs \cup {Home} -> Runner \cup {Nobody}]
    BY <1>1, <2>2, <2>3 DEF Keeps, Open, LabInv, LabTypeOK
  <2>6. Holds(p)'
    BY <1>1, <2>1, <2>2, <2>3 DEF Holds, Starting, InRun, Pruning, LabInv, LabTypeOK
  <2>. QED
    BY <1>1, <2>4, <2>5, <2>6, OneActs
<1>. QED
  BY <1>2, <1>3, <1>4

(* A process gives its locks back and is idle again.                       *)
LEMMA LocksGivenBack ==
  ASSUME LabInv, NEW p \in Runner, proc' = [proc EXCEPT ![p] = NoCommand], ~Dead(p),
         lab' = lab, Keeps(p), svc' # p,
         op' \in [Labs \cup {Home} -> Runner \cup {Nobody}]
  PROVE  LabInv'
<1>1. /\ proc' \in [Runner -> ProcRecord] /\ proc'[p].pc = "idle"
      /\ \A q \in Runner \ {p} : proc'[q] = proc[q]
  BY Replaced, RestRecord DEF LabInv
<1>2. Typed
  BY <1>1 DEF Typed, LabInv, LabTypeOK
<1>3. Holds(p)'
  BY <1>1 DEF Holds, Starting, InRun, Pruning
<1>. QED
  BY <1>2, <1>3, OneActs

LEMMA ReleaseEnds == ASSUME LabInv, NEW p \in Runner, Release(p) PROVE LabInv'
<1>1. ~Dead(p) /\ proc' = [proc EXCEPT ![p] = NoCommand] /\ lab' = lab /\ svc' # p
  BY LabAssumption DEF Release, Dead, Doing
<1>2. op' \in [Labs \cup {Home} -> Runner \cup {Nobody}]
  BY DEF Release, LabInv, LabTypeOK
<1>3. \A q \in Runner \ {p} : proc'[q] = proc[q]
  BY <1>1, Replaced, RestRecord DEF LabInv
<1>4. Keeps(p)
  BY <1>3 DEF Release, Keeps, LabInv, LabTypeOK
<1>. QED
  BY <1>1, <1>2, <1>4, LocksGivenBack

LEMMA PruneSteps ==
  ASSUME LabInv, NEW p \in Runner,
         PruneCache(p) \/ DropLeases(p) \/ CheckLabs(p) \/ Pruned(p)
  PROVE  LabInv'
<1>1. /\ ~Dead(p) /\ Holds(p) /\ UNCHANGED <<lab, svc, op>>
      /\ proc[p].pc \in {"idle"} \cup Pruning /\ svc # p
      /\ op' \in [Labs \cup {Home} -> Runner \cup {Nobody}]
  BY DEF PruneCache, DropLeases, CheckLabs, Pruned, Dead, Doing, Pruning, Holds, Starting,
         LabInv, LabTypeOK
<1>2. ASSUME pruning = p, pruning' = Nobody, UNCHANGED leases,
             proc' = [proc EXCEPT ![p] = NoCommand]
      PROVE  LabInv'
  <2>1. \A q \in Runner \ {p} : proc'[q] = proc[q]
    BY <1>2, Replaced, RestRecord DEF LabInv
  <2>2. Keeps(p)
    BY <1>1, <1>2, <2>1 DEF Keeps
  <2>. QED
    BY <1>1, <1>2, <2>2, LocksGivenBack
<1>3. ASSUME NEW pc \in Pruning, GoTo(p, pc), pruning' = p, pruning = p \/ Open(pruning),
             pc # "leases" => \A q \in leases' : Dead(q),
             leases' = leases \/ (leases' = {} /\ \A q \in leases : Dead(q))
      PROVE  LabInv'
  <2>1. /\ proc' \in [Runner -> ProcRecord] /\ proc'[p].pc = pc
        /\ \A q \in Runner \ {p} : proc'[q] = proc[q]
    BY <1>3, Goes DEF LabInv, Places
  <2>2. Typed
    BY <1>1, <2>1 DEF Typed, LabInv, LabTypeOK
  <2>3. Keeps(p)
    BY <1>1, <1>3, <2>1 DEF Keeps
  <2>4. Holds(p)'
    BY <1>1, <1>3, <2>1 DEF Holds, Starting, InRun, Pruning, Dead, Doing, LabInv, LabTypeOK
  <2>. QED
    BY <1>1, <2>2, <2>3, <2>4, OneActs
<1>4. CASE PruneCache(p)
  BY <1>3, <1>4 DEF PruneCache, Pruning
<1>5. CASE DropLeases(p)
  <2>1. pruning = p
    BY <1>1, <1>5 DEF DropLeases, Doing, Holds, Pruning
  <2>. QED
    BY <1>2, <1>3, <1>5, <2>1 DEF DropLeases, Pruning
<1>6. CASE CheckLabs(p)
  <2>1. pruning = p /\ \A q \in leases : Dead(q)
    BY <1>1, <1>6 DEF CheckLabs, Doing, Holds, Pruning
  <2>. QED
    BY <1>2, <1>3, <1>6, <2>1 DEF CheckLabs, Pruning
<1>7. CASE Pruned(p)
  <2>1. pruning = p
    BY <1>1, <1>7 DEF Pruned, Doing, Holds, Pruning
  <2>. QED
    BY <1>2, <1>7, <2>1 DEF Pruned
<1>. QED
  BY <1>4, <1>5, <1>6, <1>7

(* A supervisor that takes its service into the record has a starter that  *)
(* waits for it, and who holds .service.lock to destroy does not wait.     *)
LEMMA SupervisorActs ==
  ASSUME LabInv, NEW l \in Labs, Supervise(l) \/ DshExits(l) \/ KillSupervisor(l)
  PROVE  LabInv'
<1> DEFINE old == lab[l]
<1>1. old \in LabRecord /\ UNCHANGED <<proc, svc, op, pruning, leases>>
  BY DEF Supervise, DshExits, KillSupervisor, Boot, BootFails, ForkerLost, CheckFails, Serve,
         NoticeExit, Supervisor, LabInv, LabTypeOK
<1>2. ASSUME NEW r \in LabRecord, Put(l, r),
             r.rec = "running" => old.rec = "running" \/ Forker(l) # {}
      PROVE  LabInv'
  <2>1. /\ lab' \in [Labs -> LabRecord]
        /\ \A k \in Labs : lab'[k] = IF k = l THEN r ELSE lab[k]
    BY <1>2, OneWritten DEF LabInv
  <2>2. ASSUME NEW p \in Runner PROVE Holds(p)'
    <3>1. Holds(p)
      BY DEF LabInv
    <3>2. ASSUME proc[p].pc = "destroy" PROVE lab'[proc[p].on].rec # "running"
      <4>1. proc[p].on = l => Forker(l) = {}
        BY <3>1, <3>2 DEF Forker, Doing, Holds, Starting, LabInv
      <4>. QED
        BY <1>2, <2>1, <3>1, <3>2, <4>1 DEF Holds
    <3>. QED
      BY <1>1, <3>1, <3>2 DEF Holds, Dead, Doing
  <2>. QED
    BY <1>1, <2>1, <2>2 DEF LabInv, LabTypeOK
<1>3. CASE Boot(l) \/ BootFails(l) \/ ForkerLost(l) \/ CheckFails(l) \/ DshExits(l)
           \/ KillSupervisor(l)
  <2>1. /\ [old EXCEPT !.sup = "checking", !.dsh = TRUE] \in LabRecord
        /\ [old EXCEPT !.sup = "none", !.sent = "bad"] \in LabRecord
        /\ [old EXCEPT !.sup = "none", !.dsh = FALSE, !.sent = "bad"] \in LabRecord
        /\ [old EXCEPT !.sup = "none"] \in LabRecord
        /\ [old EXCEPT !.dsh = FALSE] \in LabRecord
    BY <1>1 DEF LabRecord
  <2>2. /\ [old EXCEPT !.sup = "checking", !.dsh = TRUE].rec = old.rec
        /\ [old EXCEPT !.sup = "none", !.sent = "bad"].rec = old.rec
        /\ [old EXCEPT !.sup = "none", !.dsh = FALSE, !.sent = "bad"].rec = old.rec
        /\ [old EXCEPT !.sup = "none"].rec = old.rec
        /\ [old EXCEPT !.dsh = FALSE].rec = old.rec
    BY <1>1 DEF LabRecord
  <2>3. CASE Boot(l) \/ BootFails(l)
    BY <1>2, <2>1, <2>2, <2>3 DEF Boot, BootFails
  <2>4. CASE ForkerLost(l) \/ CheckFails(l)
    BY <1>2, <2>1, <2>2, <2>4 DEF ForkerLost, CheckFails
  <2>5. CASE DshExits(l) \/ KillSupervisor(l)
    BY <1>2, <2>1, <2>2, <2>5 DEF DshExits, KillSupervisor
  <2>. QED
    BY <1>3, <2>3, <2>4, <2>5
<1>4. CASE NoticeExit(l)
  BY <1>1, <1>2, <1>4, EndRecords DEF NoticeExit
<1>5. CASE Serve(l)
  <2> DEFINE up == [old EXCEPT !.sup = "serving", !.rec = "running", !.sent = "ok"]
  <2>1. up \in LabRecord
    BY <1>1 DEF LabRecord
  <2>2. Put(l, IF Forker(l) = {} THEN ServiceDown(old) ELSE up)
    BY <1>5 DEF Serve
  <2> HIDE DEF up
  <2>. QED
    BY <1>1, <1>2, <2>1, <2>2, EndRecords
<1>. QED
  BY <1>3, <1>4, <1>5 DEF Supervise

LEMMA LabStep == LabInv /\ [LabNext]_labVars => LabInv'
<1> SUFFICES ASSUME LabInv, [LabNext]_labVars PROVE LabInv'
  OBVIOUS
<1>1. CASE UNCHANGED labVars
  BY <1>1 DEF labVars, LabInv, LabTypeOK, Holds, Dead, Doing
<1>2. ASSUME NEW p \in Runner, Proceed(p) PROVE LabInv'
  BY <1>2, MirrorGoesOn, InstallGoesOn, ReleaseEnds DEF Proceed
<1>3. ASSUME NEW p \in Runner, NEW l \in Labs,
             StartAgain(p, l) \/ CreateLab(p, l) \/ Stop(p, l) \/ Verify(p, l)
             \/ Destroy(p, l) \/ Inspect(p, l)
      PROVE  LabInv'
  BY <1>3, MirrorTakesLocks, OthersTakeLocks, RunTakesLocks, ReapGoesOn
<1>4. ASSUME NEW l \in Labs, Supervise(l) \/ DshExits(l) \/ KillSupervisor(l) PROVE LabInv'
  BY <1>4, SupervisorActs
<1>. QED
  BY <1>1, <1>2, <1>3, <1>4, RunGoesOn, MirrorTakesLocks, RunTakesLocks, ReapGoesOn, PruneSteps
  DEF LabNext

(* cleanup.ts and cache-maintenance.ts: nobody starts, runs or serves a    *)
(* lab from the check of its destruction to its removal, and `pnpm store   *)
(* prune` never runs while a lab installs, for any processes and labs.     *)
THEOREM RemovalsAreIdle == LabSpec => []RemovesIdle
<1>1. LabInit => LabInv
  BY LabAssumption, RestRecord
  DEF LabInit, LabInv, LabTypeOK, Holds, Starting, InRun, Pruning
<1>2. LabInv => RemovesIdle
  <2> SUFFICES ASSUME LabInv PROVE RemovesIdle
    OBVIOUS
  <2>1. ASSUME NEW p \in Runner, Doing(p, "destroy")
        PROVE  /\ \A q \in Runner \ {p} : ~Working(q, proc[p].on)
               /\ lab[proc[p].on].rec # "running"
    <3>1. /\ svc = p /\ op[proc[p].on] = p /\ lab[proc[p].on].rec # "running"
      BY <2>1 DEF LabInv, Holds, Doing
    <3>2. ASSUME NEW q \in Runner \ {p}, Working(q, proc[p].on) PROVE FALSE
      BY <3>1, <3>2 DEF LabInv, Holds, Working, Starting, InRun
    <3>. QED
      BY <3>1, <3>2
  <2>2. ASSUME NEW p \in Runner, NEW q \in Runner, Doing(p, "prune"),
               proc[q].pc \in {"install", "step"}
        PROVE  FALSE
    <3>1. q \in leases
      BY <2>2 DEF LabInv, Holds, Starting, InRun
    <3>2. Dead(q)
      BY <2>2, <3>1 DEF LabInv, Holds, Doing
    <3>. QED
      BY <2>2, <3>2 DEF Dead, Doing
  <2>. QED
    BY <2>1, <2>2 DEF RemovesIdle, DestroyedIsIdle, PruneAlone
<1>. QED
  BY <1>1, <1>2, LabStep, PTL DEF LabSpec

----------------------------------------------------------------------------
(***************************************************************************)
(* Proofs about Investigation: however many snapshots or plugins there are *)
(* and whatever is answered or killed, a result is what its trials prove.  *)
(* ResultIsEvidenced is not inductive: the set the search has narrowed to  *)
(* must be one that fails, or the whole, and cut no finer than it has      *)
(* members, for the last cut is the one that takes plugins away singly.    *)
(***************************************************************************)

KeysNow == IF kind = "time" THEN All ELSE SUBSET All
Judgement == [key : KeysNow, verdict : Verdicts, shown : KeysNow]
Statuses == {"ready", "running", "review", "complete", "inconclusive"}
InvestigationRecord ==
  [status : Statuses, trials : Seq(Judgement), active : TrialsOf(KeysNow) \cup {NoTrial},
   subset : SUBSET All, gran : Nat, candidates : SUBSET All]

NarrowedTo(r, set, gran) ==
  /\ gran >= 2 /\ (Cardinality(set) > 1 => gran <= Cardinality(set))
  /\ set = All \/ set \in Judged(r, "bad")

RecordSound(r) ==
  /\ r \in InvestigationRecord
  /\ Cardinality(Tried(r)) = Len(r.trials)
  /\ \A i \in DOMAIN r.trials : r.trials[i].shown = r.trials[i].key
  /\ r.active # NoTrial => r.active.key \notin Tried(r)
  /\ r.active # NoTrial <=> r.status \in {"running", "review"}
  /\ NarrowedTo(r, r.subset, r.gran)
  /\ r.status = "complete" => Evidence(r)

InvestigationInv ==
  /\ \/ kind = "time" /\ size \in 2..MaxChain
     \/ kind = "plugins" /\ size \in 1..MaxPlugins
  /\ RecordSound(rec)
  /\ step \in {"idle", "trying", "record", "again"} /\ auto \in BOOLEAN
  /\ step \in {"trying", "record"} => rec.active # NoTrial
  /\ step = "record" => rec.active.suggested \in Verdicts
  /\ step = "again" => rec.active = NoTrial
  /\ page \in [key : KeysNow \cup {NoTrial}, last : BOOLEAN]
  /\ page.last => page = Shown(rec)

----------------------------------------------------------------------------
(* What has been tried *)

LEMMA TriedAre ==
  ASSUME NEW r \in InvestigationRecord
  PROVE  /\ \A i \in DOMAIN r.trials : /\ r.trials[i] \in Judgement /\ r.trials[i].key \in Tried(r)
                                       /\ r.trials[i].key \in Judged(r, r.trials[i].verdict)
         /\ Tried(r) \subseteq KeysNow
         /\ \A v : Judged(r, v) \subseteq Tried(r)
         /\ IsFiniteSet(Tried(r)) /\ Cardinality(Tried(r)) \in Nat
<1>1. r.trials \in Seq(Judgement)
  BY DEF InvestigationRecord
<1>2. \A i \in DOMAIN r.trials : r.trials[i] \in Judgement
  BY <1>1
<1>3. Tried(r) \subseteq KeysNow /\ \A v : Judged(r, v) \subseteq Tried(r)
  BY <1>2 DEF Tried, Judged, Judgement
<1>4. IsFiniteSet(DOMAIN r.trials)
  BY <1>1, FS_Interval
<1>5. IsFiniteSet(Tried(r))
  <2> DEFINE f == [i \in DOMAIN r.trials |-> r.trials[i].key]
  <2>1. f \in Surjection(DOMAIN r.trials, Tried(r))
    BY DEF Tried, Surjection
  <2>. QED
    BY <1>4, <2>1, FS_Surjection
<1>. QED
  BY <1>2, <1>3, <1>5, FS_CardinalityType DEF Tried, Judged

(* A set of numbers has a least one.                                       *)
LEMMA LeastIndex ==
  ASSUME NEW T \in SUBSET Nat, T # {}
  PROVE  \E m \in T : \A k \in T : m <= k
<1> DEFINE R == {ss \in Nat \X Nat : ss[1] < ss[2]}
<1>1. IsWellFoundedOn(R, Nat)
  BY NatLessThanWellFounded DEF OpToRel
<1>2. \E m \in T : \A k \in T : ~(<<k, m>> \in R)
  <2> HIDE DEF R
  <2>. QED
    BY <1>1, WFMin
<1>3. ASSUME NEW m \in T, NEW k \in T, k < m PROVE <<k, m>> \in R
  BY <1>3
<1> HIDE DEF R
<1>4. PICK m \in T : \A k \in T : ~(<<k, m>> \in R)
  BY <1>2
<1>5. ASSUME NEW k \in T PROVE m <= k
  <2>1. ~(k < m)
    BY <1>3, <1>4
  <2>. QED
    BY <2>1
<1>. QED
  BY <1>5

(* find: the verdict it returns is one that was given.                     *)
LEMMA VerdictGiven ==
  ASSUME NEW r \in InvestigationRecord, NEW key \in Tried(r)
  PROVE  VerdictOf(r, key) \in Verdicts /\ key \in Judged(r, VerdictOf(r, key))
<1> DEFINE T == {i \in DOMAIN r.trials : r.trials[i].key = key}
           P(i) == r.trials[i].key = key /\ \A j \in 1..(i - 1) : r.trials[j].key # key
<1>1. DOMAIN r.trials = 1..Len(r.trials) /\ Len(r.trials) \in Nat
  BY DEF InvestigationRecord
<1>2. T \in SUBSET Nat /\ T # {}
  <2>1. DOMAIN r.trials \subseteq Nat
    BY <1>1
  <2>. QED
    BY <2>1 DEF Tried
<1>3. PICK m \in T : \A k \in T : m <= k
  <2> HIDE DEF T
  <2>. QED
    BY <1>2, LeastIndex
<1>4. m \in DOMAIN r.trials /\ P(m)
  <2>1. m \in 1..Len(r.trials) /\ r.trials[m].key = key
    BY <1>1, <1>3
  <2>2. ASSUME NEW j \in 1..(m - 1) PROVE r.trials[j].key # key
    <3>1. j \in DOMAIN r.trials /\ ~(m <= j)
      BY <1>1, <2>1
    <3>. QED
      BY <1>3, <3>1
  <2>. QED
    BY <1>1, <2>1, <2>2
<1> DEFINE c == CHOOSE i \in DOMAIN r.trials : P(i)
<1>5. c \in DOMAIN r.trials /\ r.trials[c].key = key
  <2>1. c \in DOMAIN r.trials /\ P(c)
    <3> HIDE DEF P
    <3>. QED
      BY <1>4
  <2>. QED
    BY <2>1
<1>6. VerdictOf(r, key) = r.trials[c].verdict
  BY DEF VerdictOf
<1> HIDE DEF c
<1>. QED
  BY <1>5, <1>6, TriedAre DEF Judgement

----------------------------------------------------------------------------
(* The chunks of a set *)

LEMMA Ranks ==
  ASSUME NEW S \in SUBSET All, size \in Nat
  PROVE  /\ IsFiniteSet(S) /\ Cardinality(S) \in 0..size
         /\ \A p \in S : Rank(S, p) \in 1..Cardinality(S)
         /\ \A p, q \in S : Rank(S, p) = Rank(S, q) => p = q
<1> DEFINE upTo(p) == {q \in S : q <= p}
<1>1. IsFiniteSet(All) /\ Cardinality(All) = size
  BY FS_Interval DEF All
<1>2. IsFiniteSet(S) /\ Cardinality(S) \in Nat /\ Cardinality(S) <= size
  BY <1>1, FS_Subset, FS_CardinalityType
<1>3. \A p : /\ upTo(p) \subseteq S /\ IsFiniteSet(upTo(p)) /\ Cardinality(upTo(p)) \in Nat
             /\ Cardinality(upTo(p)) <= Cardinality(S)
  BY <1>2, FS_Subset, FS_CardinalityType
<1>4. \A p \in S : p \in Nat /\ p \in upTo(p)
  BY DEF All
<1>5. \A p \in S : Cardinality(upTo(p)) # 0
  BY <1>3, <1>4, FS_EmptySet
<1>6. ASSUME NEW p \in S, NEW q \in S, p < q PROVE Cardinality(upTo(p)) # Cardinality(upTo(q))
  <2>0. \A z \in S : z <= p => z <= q
    <3>1. \A z \in S : z \in Nat
      BY <1>4
    <3>. QED
      BY <1>6, <3>1
  <2>1. upTo(p) \subseteq upTo(q) /\ q \notin upTo(p) /\ q \in upTo(q)
    <3>1. p \in Nat /\ q \in Nat /\ ~(q <= p) /\ q <= q
      BY <1>4, <1>6
    <3>. QED
      BY <2>0, <3>1
  <2> HIDE DEF upTo
  <2>. QED
    BY <1>3, <2>1, FS_Subset
<1>7. \A p, q \in S : Cardinality(upTo(p)) = Cardinality(upTo(q)) => p = q
  <2> HIDE DEF upTo
  <2> SUFFICES ASSUME NEW p \in S, NEW q \in S, Cardinality(upTo(p)) = Cardinality(upTo(q)), p # q
               PROVE  FALSE
    OBVIOUS
  <2>1. p < q \/ q < p
    BY <1>4
  <2>. QED
    BY <1>6, <2>1
<1>8. \A p : Rank(S, p) = Cardinality(upTo(p))
  BY DEF Rank
<1> HIDE DEF upTo
<1>. QED
  BY <1>2, <1>3, <1>5, <1>7, <1>8

(* Cut into as many chunks as it has members, a set is tried without each. *)
LEMMA SinglesLeft ==
  ASSUME NEW S \in SUBSET All, size \in Nat, Cardinality(S) > 1, NEW p \in S
  PROVE  LET options == Options(S, Cardinality(S)) IN
         \E i \in DOMAIN options : options[i] = S \ {p}
<1> DEFINE n == Cardinality(S)
           width == (n + n - 1) \div n
           chunk(k) == {q \in S : (k - 1) * width < Rank(S, q) /\ Rank(S, q) <= k * width}
           options == Options(S, n)
<1>1. n \in Nat /\ n > 1
  BY Ranks
<1>2. width = 1
  <2> HIDE DEF n
  <2>. QED
    BY <1>1
<1>3. options = [i \in 1..(2 * ((n + width - 1) \div width)) |->
                   IF i % 2 = 1 THEN chunk((i + 1) \div 2) ELSE S \ chunk(i \div 2)]
  BY DEF Options
<1> DEFINE k == Rank(S, p)
           i == 2 * k
<1>4. k \in 1..n
  BY Ranks
<1> HIDE DEF n, options
<1>5. (n + width - 1) \div width = n
  BY <1>1, <1>2
<1>6. i \in 1..(2 * n) /\ i % 2 = 0 /\ i \div 2 = k
  <2> HIDE DEF k
  <2>. QED
    BY <1>1, <1>4
<1>7. chunk(k) = {p}
  <2>1. ASSUME NEW q \in S PROVE q \in chunk(k) <=> q = p
    <3>1. Rank(S, q) \in Nat /\ (Rank(S, q) = k => q = p) /\ k \in Nat
      BY <1>1, <1>4, Ranks
    <3>2. (k - 1) * width = k - 1 /\ k * width = k
      BY <1>2, <3>1
    <3>3. q \in chunk(k) <=> k - 1 < Rank(S, q) /\ Rank(S, q) <= k
      BY <3>2
    <3>4. q = p => Rank(S, q) = k
      OBVIOUS
    <3> HIDE DEF k, chunk
    <3>. QED
      BY <3>1, <3>3, <3>4
  <2>. QED
    BY <2>1
<1> HIDE DEF chunk, width, k
<1>8. i \in DOMAIN options /\ options[i] = S \ chunk(i \div 2)
  BY <1>3, <1>5, <1>6
<1>. QED
  BY <1>6, <1>7, <1>8 DEF options, n

(* Every option is a part of the set.                                      *)
LEMMA OptionsAreParts ==
  ASSUME NEW S, NEW g, NEW i \in DOMAIN Options(S, g)
  PROVE  Options(S, g)[i] \subseteq S
<1> DEFINE n == Cardinality(S)
           width == (n + g - 1) \div g
           chunk(k) == {p \in S : (k - 1) * width < Rank(S, p) /\ Rank(S, p) <= k * width}
           options == Options(S, g)
<1>1. options = [j \in 1..(2 * ((n + width - 1) \div width)) |->
                   IF j % 2 = 1 THEN chunk((j + 1) \div 2) ELSE S \ chunk(j \div 2)]
  BY DEF Options
<1>2. \A k : chunk(k) \subseteq S
  OBVIOUS
<1> HIDE DEF options, chunk, width, n
<1>3. options[i] = IF i % 2 = 1 THEN chunk((i + 1) \div 2) ELSE S \ chunk(i \div 2)
  BY <1>1 DEF options
<1>4. options[i] \subseteq S
  BY <1>2, <1>3
<1>. QED
  BY <1>4 DEF options

----------------------------------------------------------------------------
(* The loop that narrows the set *)

(* A turn of the loop changes the set and the cut, to ones as sound.       *)
Turned(r, q) ==
  /\ q.subset \in SUBSET All /\ q.gran \in Nat
  /\ q = [r EXCEPT !.subset = q.subset, !.gran = q.gran]
  /\ NarrowedTo(r, q.subset, q.gran)
  /\ q.subset \in Judged(r, "bad")

Ends(q) == Several(q) => \/ Stops(q) # {} /\ First(q) \notin Tried(q)
                         \/ Stops(q) = {} /\ q.gran >= Cardinality(q.subset)

LEMMA TurnedKeeps ==
  ASSUME NEW r \in InvestigationRecord, NEW q, Turned(r, q)
  PROVE  /\ q \in InvestigationRecord /\ Tried(q) = Tried(r) /\ \A v : Judged(q, v) = Judged(r, v)
         /\ q.trials = r.trials /\ q.active = r.active /\ q.status = r.status
         /\ q.candidates = r.candidates
<1>1. q \in InvestigationRecord
  BY DEF Turned, InvestigationRecord
<1>2. /\ q.trials = r.trials /\ q.active = r.active /\ q.status = r.status
      /\ q.candidates = r.candidates
  <2>1. r \in InvestigationRecord /\ q = [r EXCEPT !.subset = q.subset, !.gran = q.gran]
    BY DEF Turned
  <2>. QED
    BY <2>1 DEF InvestigationRecord
<1>. QED
  BY <1>1, <1>2 DEF Tried, Judged

LEMMA FirstStops ==
  ASSUME NEW q, Stops(q) # {}
  PROVE  /\ First(q) \subseteq q.subset /\ First(q) \notin {{}, q.subset}
         /\ First(q) \notin Tried(q) \/ VerdictOf(q, First(q)) = "bad"
<1> DEFINE T == Stops(q)
           c == CHOOSE i \in T : \A j \in T : i <= j
<1>1. T \in SUBSET Nat
  BY DEF Stops, Options
<1>2. \E m \in T : \A k \in T : m <= k
  <2> HIDE DEF T
  <2>1. T # {}
    BY DEF T
  <2>. QED
    BY <1>1, <2>1, LeastIndex
<1>3. c \in T
  <2> HIDE DEF T
  <2>. QED
    BY <1>2
<1>4. First(q) = Options(q.subset, q.gran)[c]
  BY DEF First
<1> HIDE DEF c
<1>. QED
  BY <1>3, <1>4, OptionsAreParts DEF Stops

LEMMA Products ==
  ASSUME NEW a \in Nat, NEW b \in Nat, NEW n \in Nat
  PROVE  /\ a * n \in Nat /\ b * n \in Nat
         /\ a < b => a * n + n <= b * n
<1>1. a * n \in Nat /\ b * n \in Nat
  OBVIOUS
<1>2. ASSUME a < b PROVE a * n + n <= b * n
  <2> DEFINE d == b - a - 1
  <2>1. d \in Nat /\ b = a + 1 + d
    BY <1>2
  <2>2. b * n = (a + 1 + d) * n
    BY <2>1
  <2> HIDE DEF d
  <2>3. (a + 1 + d) * n = a * n + n + d * n
    BY <2>1
  <2>4. d * n \in Nat
    BY <2>1
  <2>. QED
    BY <1>1, <2>2, <2>3, <2>4
<1>. QED
  BY <1>1, <1>2

Measure(q) == (Cardinality(q.subset) - 1) * size - q.gran

LEMMA PassTurns ==
  ASSUME NEW r \in InvestigationRecord, NEW q, Turned(r, q), size \in Nat
  PROVE  /\ Turned(r, Pass(q))
         /\ Ends(q) => Pass(q) = q
         /\ ~Ends(q) => Measure(q) \in Nat /\ Measure(Pass(q)) < Measure(q)
         /\ Measure(q) \in Int
<1> DEFINE S == q.subset
           n == Cardinality(S)
           p == Pass(q)
<1>1. /\ q \in InvestigationRecord /\ Tried(q) = Tried(r) /\ \A v : Judged(q, v) = Judged(r, v)
      /\ S \in SUBSET All /\ q.gran \in Nat
      /\ q.gran >= 2 /\ (n > 1 => q.gran <= n)
      /\ q = [r EXCEPT !.subset = q.subset, !.gran = q.gran]
      /\ S \in Judged(r, "bad")
  BY TurnedKeeps DEF Turned, NarrowedTo
<1>2. n \in 0..size /\ (Several(q) <=> n > 1)
  BY <1>1, Ranks DEF Several
<1>3. /\ (n - 1) * size \in Int
      /\ n > 1 => (n - 1) * size - q.gran \in Nat
  <2>1. CASE n > 1
    <3>1. n - 1 \in Nat /\ n - 1 >= 1 /\ n \in Nat
      BY <1>2, <2>1
    <3> HIDE DEF n
    <3>2. (n - 1) * size \in Nat /\ size <= (n - 1) * size
      BY <3>1, Products, 0 < n - 1, 0 * size + size = size
    <3>. QED
      BY <1>1, <1>2, <2>1, <3>1, <3>2
  <2>2. CASE ~(n > 1)
    <3>1. n = 0 \/ n = 1
      BY <1>2, <2>2
    <3> HIDE DEF n
    <3>. QED
      BY <2>2, <3>1
  <2>. QED
    BY <2>1, <2>2
<1>4. CASE Several(q) /\ Stops(q) # {} /\ First(q) \in Tried(q)
  <2> DEFINE F == First(q)
             m == Cardinality(F)
  <2>1. F \subseteq S /\ F \notin {{}, S} /\ VerdictOf(q, F) = "bad"
    BY <1>4, FirstStops
  <2>2. F \in Judged(r, "bad")
    BY <1>1, <1>4, <2>1, VerdictGiven
  <2>3. p = [q EXCEPT !.subset = F, !.gran = 2]
    BY <1>4 DEF Pass
  <2>4. p.subset = F /\ p.gran = 2 /\ p = [r EXCEPT !.subset = p.subset, !.gran = p.gran]
    <3> HIDE DEF p, F
    <3>. QED
      BY <1>1, <2>3 DEF InvestigationRecord
  <2>5. F \in SUBSET All /\ m \in Nat /\ m # 0 /\ m < n
    <3>1. F \in SUBSET All
      BY <1>1, <2>1
    <3>2. m \in Nat /\ m # 0
      <4> HIDE DEF F
      <4>. QED
        BY <2>1, <3>1, Ranks, FS_EmptySet
    <3>3. m < n
      <4> HIDE DEF F
      <4>1. IsFiniteSet(S)
        BY <1>1, Ranks
      <4>2. m <= n /\ m # n
        BY <2>1, <4>1, FS_Subset
      <4>. QED
        BY <1>2, <3>2, <4>2
    <3>. QED
      BY <3>1, <3>2, <3>3
  <2> HIDE DEF p, F
  <2>6. Turned(r, p)
    BY <2>2, <2>4, <2>5 DEF Turned, NarrowedTo
  <2>7. Measure(p) < Measure(q)
    <3> HIDE DEF m, n
    <3>1. m - 1 \in Nat /\ n - 1 \in Nat /\ m - 1 < n - 1
      BY <1>2, <2>5
    <3>2. (m - 1) * size \in Nat /\ (n - 1) * size \in Nat /\ (m - 1) * size + size <= (n - 1) * size
      BY <3>1, Products
    <3>3. q.gran <= size
      BY <1>1, <1>2, <1>4
    <3>4. (m - 1) * size - 2 < (n - 1) * size - q.gran
      <4> DEFINE a == (m - 1) * size
                 b == (n - 1) * size
      <4>1. a \in Nat /\ b \in Nat /\ a + size <= b
        BY <3>2
      <4> HIDE DEF a, b
      <4>2. a - 2 < b - q.gran
        BY <1>1, <3>3, <4>1
      <4>. QED
        BY <4>2 DEF a, b
    <3>. QED
      BY <2>4, <3>4 DEF Measure, m, n
  <2>8. ~Ends(q) /\ Measure(q) \in Nat
    BY <1>2, <1>3, <1>4, <2>1, <2>2 DEF Ends, Measure
  <2>. QED
    BY <2>6, <2>7, <2>8 DEF p
<1>5. CASE Several(q) /\ Stops(q) = {} /\ q.gran < n
  <2> DEFINE g == IF 2 * q.gran < n THEN 2 * q.gran ELSE n
  <2>1. p = [q EXCEPT !.gran = g]
    BY <1>4, <1>5 DEF Pass
  <2>2. g \in Nat /\ g > q.gran /\ g <= n
    <3> HIDE DEF n
    <3>. QED
      BY <1>1, <1>2, <1>5
  <2> HIDE DEF g
  <2>3. p.subset = S /\ p.gran = g /\ p = [r EXCEPT !.subset = p.subset, !.gran = p.gran]
    <3> HIDE DEF p
    <3>. QED
      BY <1>1, <2>1 DEF InvestigationRecord
  <2> HIDE DEF p
  <2>4. Turned(r, p)
    BY <1>1, <2>2, <2>3 DEF Turned, NarrowedTo
  <2>5. Measure(p) < Measure(q)
    <3> DEFINE b == (n - 1) * size
    <3>1. b \in Int
      BY <1>3
    <3> HIDE DEF b, n
    <3>2. b - g < b - q.gran
      BY <1>1, <2>2, <3>1
    <3>. QED
      BY <2>3, <3>2 DEF Measure, b, n
  <2>6. ~Ends(q) /\ Measure(q) \in Nat
    <3>1. ~(q.gran >= n)
      BY <1>1, <1>2, <1>5
    <3>. QED
      BY <1>2, <1>3, <1>5, <3>1 DEF Ends, Measure
  <2>. QED
    BY <2>4, <2>5, <2>6 DEF p
<1>6. CASE ~(Several(q) /\ Stops(q) # {} /\ First(q) \in Tried(q)) /\ ~(Several(q) /\ Stops(q) = {} /\ q.gran < n)
  <2>1. p = q
    BY <1>6 DEF Pass
  <2>2. Ends(q)
    <3>1. ~(q.gran < n) => q.gran >= n
      BY <1>1, <1>2
    <3>. QED
      BY <1>6, <3>1 DEF Ends
  <2>. QED
    BY <2>1, <2>2, <1>3, <1>1 DEF Measure
<1>. QED
  BY <1>4, <1>5, <1>6, <1>3, <1>1 DEF Measure

(* F is the function that Narrow defines, up to m.                         *)
Loops(F, r, m) == F = [n \in 0 .. m |-> IF n = 0 THEN r ELSE Pass(F[n - 1])]

LEMMA LoopsExist ==
  ASSUME NEW r, NEW m \in Nat
  PROVE  \E F : Loops(F, r, m)
<1> DEFINE Bad == {n \in Nat : ~\E F : Loops(F, r, n)}
<1> SUFFICES ASSUME Bad # {} PROVE FALSE
  OBVIOUS
<1>1. PICK n \in Bad : \A k \in Bad : n <= k
  <2>1. Bad \in SUBSET Nat
    OBVIOUS
  <2> HIDE DEF Bad
  <2>. QED
    BY <2>1, LeastIndex
<1>2. CASE n = 0
  <2> DEFINE F == [i \in 0 .. 0 |-> r]
  <2>1. Loops(F, r, 0)
    BY DEF Loops
  <2>. QED
    BY <1>2, <2>1
<1>3. CASE n # 0
  <2>1. n - 1 \in Nat /\ n - 1 \notin Bad
    BY <1>1, <1>3
  <2>2. PICK F : Loops(F, r, n - 1)
    BY <2>1
  <2> DEFINE G == [i \in 0 .. n |-> IF i = n THEN Pass(F[n - 1]) ELSE F[i]]
  <2>3. \A i \in 0 .. n - 1 : G[i] = F[i]
    BY <2>1
  <2>4. ASSUME NEW i \in 0 .. n PROVE G[i] = IF i = 0 THEN r ELSE Pass(G[i - 1])
    <3>1. CASE i = n
      <4>1. G[i] = Pass(F[n - 1]) /\ G[i - 1] = F[n - 1]
        BY <1>3, <2>1, <2>3, <3>1
      <4> HIDE DEF G
      <4>. QED
        BY <1>3, <3>1, <4>1
    <3>2. CASE i # n
      <4>1. i \in 0 .. n - 1 /\ G[i] = F[i] /\ (i # 0 => G[i - 1] = F[i - 1])
        BY <2>1, <2>3, <3>2
      <4>2. F[i] = IF i = 0 THEN r ELSE Pass(F[i - 1])
        <5> HIDE DEF G
        <5>. QED
          BY <2>2, <4>1 DEF Loops
      <4> HIDE DEF G
      <4>. QED
        BY <4>1, <4>2
    <3>. QED
      BY <3>1, <3>2
  <2>5. G = [i \in 0 .. n |-> G[i]]
    OBVIOUS
  <2> HIDE DEF G
  <2>6. Loops(G, r, n)
    BY <2>4, <2>5 DEF Loops
  <2>. QED
    BY <2>6
<1>. QED
  BY <1>2, <1>3

(* What Narrow makes of the last turn.                                     *)
NarrowEnds(r, last) ==
  IF ~Several(last) THEN Ended(last, "complete", last.subset)
  ELSE IF Stops(last) # {} THEN Try(last, First(last))
  ELSE Ended(last, IF Judged(r, "skip") # {} THEN "inconclusive" ELSE "complete", last.subset)

(* The loop ends within its bound.                                         *)
LEMMA LoopEnds ==
  ASSUME NEW r \in InvestigationRecord, size \in Nat \ {0}, Turned(r, r)
  PROVE  \E q : Turned(r, q) /\ Ends(q) /\ Narrow(r) = NarrowEnds(r, q)
<1> DEFINE F == CHOOSE f : Loops(f, r, Passes)
<1>1. Passes \in Nat /\ Passes = size * size
  BY DEF Passes
<1>2. Loops(F, r, Passes)
  <2>1. \E f : Loops(f, r, Passes)
    BY <1>1, LoopsExist
  <2>. QED
    BY Zenon, <2>1
<1>3. Narrow(r) = NarrowEnds(r, F[Passes])
  BY Zenon DEF Narrow, Loops, NarrowEnds
<1> HIDE DEF F
<1>4. F[0] = r /\ \A n \in 1..Passes : F[n] = Pass(F[n - 1])
  BY <1>1, <1>2 DEF Loops
<1> DEFINE Good(n) ==
      Turned(r, F[n]) /\ (Ends(F[n]) \/ Measure(F[n]) + n <= Measure(r))
<1>5. Good(0)
  BY <1>4, PassTurns
<1>6. ASSUME NEW n \in 1..Passes, Good(n - 1) PROVE Good(n)
  <2> DEFINE q == F[n - 1]
  <2>1. Turned(r, q) /\ (Ends(q) \/ Measure(q) + (n - 1) <= Measure(r))
    BY <1>6
  <2>2. F[n] = Pass(q)
    BY <1>4
  <2> HIDE DEF q
  <2>3. Turned(r, Pass(q))
    BY <2>1, PassTurns
  <2>4. CASE Ends(q)
    <3>1. F[n] = q
      BY <2>1, <2>2, <2>4, PassTurns
    <3>. QED
      BY <2>1, <2>4, <3>1
  <2>5. CASE ~Ends(q)
    <3>1. Measure(q) \in Int /\ Measure(Pass(q)) \in Int /\ Measure(Pass(q)) < Measure(q) /\ Measure(r) \in Int
      BY <2>1, <2>3, <2>5, PassTurns
    <3>2. Measure(F[n]) + n <= Measure(r)
      BY <2>1, <2>2, <2>5, <3>1
    <3>. QED
      BY <2>2, <2>3, <3>2
  <2>. QED
    BY <2>4, <2>5
<1> HIDE DEF Good
<1>7. Good(Passes)
  <2> DEFINE Bad == {n \in 0 .. Passes : ~Good(n)}
  <2> SUFFICES ASSUME Bad # {} PROVE FALSE
    BY <1>1
  <2>1. Bad \in SUBSET Nat
    OBVIOUS
  <2>2. PICK n \in Bad : \A k \in Bad : n <= k
    <3> HIDE DEF Bad
    <3>. QED
      BY <2>1, LeastIndex
  <2>3. n \in 0 .. Passes /\ ~Good(n)
    BY <2>2
  <2>4. n # 0
    BY <1>5, <2>3
  <2>5. n - 1 \in 0 .. Passes /\ n - 1 \notin Bad
    BY <1>1, <2>2, <2>3, <2>4
  <2>6. Good(n - 1)
    BY <2>5
  <2>7. n \in 1..Passes
    BY <1>1, <2>3, <2>4
  <2> HIDE DEF Bad
  <2>. QED
    BY <1>6, <2>3, <2>6, <2>7
<1>8. Turned(r, F[Passes]) /\ (Ends(F[Passes]) \/ Measure(F[Passes]) + Passes <= Measure(r))
  BY <1>7 DEF Good
<1>9. Ends(F[Passes])
  <2> SUFFICES ASSUME ~Ends(F[Passes]) PROVE FALSE
    OBVIOUS
  <2>1. Measure(F[Passes]) \in Nat /\ Measure(F[Passes]) + Passes <= Measure(r)
    BY <1>8, PassTurns
  <2>2. Measure(r) < size * size
    <3> DEFINE c == Cardinality(r.subset)
    <3>1. c \in 0..size /\ r.gran \in Nat /\ r.gran >= 2
      BY Ranks DEF Turned, NarrowedTo
    <3> HIDE DEF c
    <3>2. c * size \in Nat /\ size * size \in Nat /\ c * size <= size * size
      <4>1. c < size => c * size + size <= size * size
        BY <3>1, Products
      <4>. QED
        BY <3>1, <4>1
    <3>3. (c - 1) * size = c * size - size
      BY <3>1
    <3>4. (c - 1) * size - r.gran < size * size
      <4> DEFINE a == c * size
                 b == size * size
      <4>1. a \in Nat /\ b \in Nat /\ a <= b /\ (c - 1) * size = a - size
        BY <3>2, <3>3
      <4> HIDE DEF a, b
      <4>2. a - size - r.gran < b
        BY <3>1, <4>1
      <4>. QED
        BY <4>1, <4>2 DEF b
    <3>. QED
      BY <3>4 DEF Measure, c
  <2>3. Measure(r) \in Int
    BY PassTurns
  <2>. QED
    BY <1>1, <2>1, <2>2, <2>3
<1>. QED
  BY <1>3, <1>8, <1>9

----------------------------------------------------------------------------
(* What is tried next *)

Instance ==
  \/ kind = "time" /\ size \in 2..MaxChain
  \/ kind = "plugins" /\ size \in 1..MaxPlugins

Outcome(n) ==
  /\ RecordSound(n.rec) /\ n.rec.active = NoTrial
  /\ n.trial = NoTrial \/ \E key \in KeysNow \ Tried(n.rec) : n.trial = Trial(key)

LEMMA Sizes ==
  ASSUME Instance
  PROVE  /\ size \in Nat \ {0}
         /\ kind = "time" => KeysNow = All /\ 1 \in All /\ size \in All /\ size > 1
         /\ kind = "plugins" => KeysNow = SUBSET All
         /\ kind \in {"time", "plugins"}
BY InvestigationAssumption DEF Instance, KeysNow, All

LEMMA TrialsAreRecords ==
  ASSUME Instance, NEW key \in KeysNow
  PROVE  Trial(key) \in TrialsOf(KeysNow) /\ NoTrial \notin TrialsOf(KeysNow)
<1>1. Trial(key) \in TrialsOf(KeysNow)
  BY DEF Trial, TrialsOf
<1>2. CASE kind = "time"
  <2>1. KeysNow \subseteq 1..MaxChain
    BY <1>2, InvestigationAssumption DEF KeysNow, All, Instance
  <2>2. TrialsOf(KeysNow) \subseteq TrialsOf(1..MaxChain)
    BY <2>1 DEF TrialsOf
  <2>. QED
    BY <1>1, <2>2, InvestigationAssumption
<1>3. CASE kind = "plugins"
  <2>1. KeysNow \subseteq SUBSET (1..MaxPlugins)
    <3>1. All \subseteq 1..MaxPlugins
      BY <1>3, InvestigationAssumption DEF All, Instance
    <3>. QED
      BY <1>3, <3>1 DEF KeysNow
  <2>2. TrialsOf(KeysNow) \subseteq TrialsOf(SUBSET (1..MaxPlugins))
    BY <2>1 DEF TrialsOf
  <2>. QED
    BY <1>1, <2>2, InvestigationAssumption
<1>. QED
  BY <1>2, <1>3, Sizes

LEMMA TryOutcome ==
  ASSUME NEW r, RecordSound(r), r.active = NoTrial, NEW key \in KeysNow \ Tried(r)
  PROVE  Outcome(Try(r, key))
BY DEF Outcome, Try

LEMMA EndedOutcome ==
  ASSUME NEW r, RecordSound(r), r.active = NoTrial,
         NEW status \in {"complete", "inconclusive"}, NEW found \in SUBSET All,
         status = "complete" => Evidence([r EXCEPT !.candidates = found])
  PROVE  Outcome(Ended(r, status, found))
<1> DEFINE n == [r EXCEPT !.status = status, !.candidates = found]
           m == [r EXCEPT !.candidates = found]
<1>1. r \in InvestigationRecord
  BY DEF RecordSound
<1>2. /\ n \in InvestigationRecord /\ n.status = status /\ n.candidates = found
      /\ n.trials = r.trials /\ n.active = r.active /\ n.subset = r.subset /\ n.gran = r.gran
      /\ m.trials = r.trials /\ m.candidates = found
  BY <1>1 DEF InvestigationRecord, Statuses
<1> HIDE DEF n, m
<1>3. Tried(n) = Tried(r) /\ \A v : Judged(n, v) = Judged(r, v) /\ Judged(n, v) = Judged(m, v)
  BY <1>2 DEF Tried, Judged
<1>4. status = "complete" => Evidence(n)
  <2>1. Evidence(m) => Evidence(n)
    BY <1>2, <1>3 DEF Evidence
  <2>. QED
    BY <2>1 DEF m
<1>5. RecordSound(n)
  BY <1>2, <1>3, <1>4 DEF RecordSound, NarrowedTo
<1>6. Ended(r, status, found).rec = n /\ Ended(r, status, found).trial = NoTrial
  BY DEF Ended, n
<1>. QED
  BY <1>2, <1>5, <1>6 DEF Outcome

LEMMA GivenUpOutcome ==
  ASSUME NEW r, RecordSound(r), r.active = NoTrial
  PROVE  Outcome(GivenUp(r))
<1>1. r.candidates \in SUBSET All
  BY DEF RecordSound, InvestigationRecord
<1>. QED
  BY <1>1, EndedOutcome DEF GivenUp

LEMMA GreatestIndex ==
  ASSUME NEW n \in Nat, NEW T \in SUBSET (1..n), T # {}
  PROVE  \E m \in T : \A k \in T : k <= m
<1> DEFINE U == {n - i : i \in T}
<1>1. U \in SUBSET Nat /\ U # {}
  <2>1. ASSUME NEW i \in T PROVE n - i \in Nat
    OBVIOUS
  <2>. QED
    BY Zenon, <2>1
<1>2. PICK u \in U : \A k \in U : u <= k
  <2> HIDE DEF U
  <2>. QED
    BY <1>1, LeastIndex
<1>3. PICK m \in T : u = n - m
  BY <1>2
<1>4. ASSUME NEW k \in T PROVE k <= m
  <2>1. n - k \in U
    BY Zenon
  <2>2. n - m <= n - k
    BY <1>2, <1>3, <2>1
  <2>. QED
    BY <2>2
<1>. QED
  BY <1>4

LEMMA NearestIsOpen ==
  ASSUME NEW open \in SUBSET Nat, open # {}, NEW low \in Nat, NEW high \in Nat
  PROVE  Nearest(open, low, high) \in open
<1> DEFINE off(i) == IF 2 * i >= low + high THEN 2 * i - (low + high) ELSE (low + high) - 2 * i
           U == {off(i) : i \in open}
<1>1. \A i \in open : off(i) \in Nat
  OBVIOUS
<1>2. U \in SUBSET Nat /\ U # {}
  BY <1>1
<1>3. PICK u \in U : \A k \in U : u <= k
  <2> HIDE DEF U
  <2>. QED
    BY <1>2, LeastIndex
<1> DEFINE T == {i \in open : off(i) = u}
<1>4. T \in SUBSET Nat /\ T # {}
  BY <1>3
<1>5. PICK m \in T : \A k \in T : m <= k
  <2> HIDE DEF T
  <2>. QED
    BY <1>4, LeastIndex
<1> HIDE DEF off
<1>6. ASSUME NEW j \in open PROVE off(m) < off(j) \/ (off(m) = off(j) /\ m <= j)
  <2>1. off(m) = u /\ off(j) \in U /\ off(j) \in Nat /\ u \in Nat /\ u <= off(j)
    BY <1>1, <1>2, <1>3, <1>5
  <2>2. off(j) = u => m <= j
    BY <1>5
  <2>. QED
    BY <2>1, <2>2
<1>7. m \in open /\ \A j \in open : off(m) < off(j) \/ (off(m) = off(j) /\ m <= j)
  BY <1>5, <1>6
<1> DEFINE c == CHOOSE i \in open : \A j \in open : off(i) < off(j) \/ (off(i) = off(j) /\ i <= j)
<1>8. c \in open
  BY <1>7
<1>9. Nearest(open, low, high) = c
  BY DEF Nearest, off
<1>. QED
  BY <1>8, <1>9

LEMMA NextSnapshotOutcome ==
  ASSUME Instance, kind = "time", NEW r, RecordSound(r), r.active = NoTrial
  PROVE  Outcome(NextSnapshot(r))
<1> DEFINE Good == Judged(r, "good")
           Bad == Judged(r, "bad")
           low == CHOOSE i \in Good : \A j \in Good : j <= i
           high == CHOOSE i \in Bad : \A j \in Bad : i <= j
           open == {i \in All : low < i /\ i < high} \ Tried(r)
           ends == {1, size} \ Tried(r)
<1>1. /\ r \in InvestigationRecord /\ size \in Nat /\ KeysNow = All /\ All = 1..size
      /\ 1 \in All /\ size \in All /\ All \subseteq Nat
  BY Sizes DEF RecordSound, All
<1>2. Good \subseteq All /\ Bad \subseteq All
  BY <1>1, TriedAre
<1>3. CASE ends # {}
  <2> DEFINE first == CHOOSE i \in ends : \A j \in ends : i <= j
  <2>1. ends \in SUBSET Nat
    BY <1>1
  <2>2. \E i \in ends : \A j \in ends : i <= j
    <3> HIDE DEF ends
    <3>. QED
      BY <1>3, <2>1, LeastIndex
  <2>3. first \in ends
    <3> HIDE DEF ends
    <3>. QED
      BY <2>2
  <2>4. NextSnapshot(r) = Try(r, first)
    BY <1>3 DEF NextSnapshot
  <2> HIDE DEF first
  <2>5. first \in KeysNow \ Tried(r)
    BY <1>1, <2>3
  <2>. QED
    BY <2>4, <2>5, TryOutcome
<1>4. CASE ends = {} /\ (~EndpointsHold(r) \/ low >= high)
  <2>1. NextSnapshot(r) = GivenUp(r)
    BY <1>4 DEF NextSnapshot
  <2>. QED
    BY <2>1, GivenUpOutcome
<1>5. CASE ends = {} /\ EndpointsHold(r) /\ ~(low >= high)
  <2>1. 1 \in Good /\ size \in Bad
    BY <1>5 DEF EndpointsHold
  <2>2. low \in Good /\ \A j \in Good : j <= low
    <3>1. \E i \in Good : \A j \in Good : j <= i
      <4> HIDE DEF Good
      <4>. QED
        BY <1>1, <1>2, <2>1, GreatestIndex
    <3> HIDE DEF Good
    <3>. QED
      BY <3>1
  <2>3. high \in Bad /\ \A j \in Bad : high <= j
    <3>1. \E i \in Bad : \A j \in Bad : i <= j
      <4> HIDE DEF Bad
      <4>1. Bad \in SUBSET Nat
        BY <1>1, <1>2
      <4>. QED
        BY <2>1, <4>1, LeastIndex
    <3> HIDE DEF Bad
    <3>. QED
      BY <3>1
  <2>4. low \in Nat /\ high \in Nat /\ low \in All /\ high \in All /\ low < high
    <3>1. low \in All /\ high \in All
      BY <1>2, <2>2, <2>3
    <3> HIDE DEF low, high
    <3>. QED
      BY <1>1, <1>5, <3>1
  <2>5. CASE open # {}
    <3>1. NextSnapshot(r) = Try(r, Nearest(open, low, high))
      BY <1>5, <2>5 DEF NextSnapshot
    <3>2. open \in SUBSET Nat
      BY <1>1
    <3>3. Nearest(open, low, high) \in open
      <4> HIDE DEF open, low, high
      <4>. QED
        BY <2>4, <2>5, <3>2, NearestIsOpen
    <3>4. Nearest(open, low, high) \in KeysNow \ Tried(r)
      BY <1>1, <3>3
    <3>. QED
      BY <3>1, <3>4, TryOutcome
  <2>6. CASE open = {}
    <3> DEFINE status == IF high = low + 1 THEN "complete" ELSE "inconclusive"
               found == (low + 1)..high
               m == [r EXCEPT !.candidates = found]
    <3>1. NextSnapshot(r) = Ended(r, status, found)
      BY <1>5, <2>6 DEF NextSnapshot
    <3>2. m.candidates = found /\ \A v : Judged(m, v) = Judged(r, v)
      BY <1>1 DEF InvestigationRecord, Judged
    <3> HIDE DEF m, low, high
    <3>3. found \in SUBSET All
      BY <1>1, <2>4
    <3>4. ASSUME high = low + 1 PROVE Evidence(m)
      <4>1. found = {high} /\ high - 1 = low
        BY <2>4, <3>4
      <4>2. \A j \in Good, k \in Bad : j < high /\ high <= k
        <5>1. \A j \in Good : j \in Nat /\ j <= low
          BY <1>1, <1>2, <2>2
        <5>. QED
          BY <2>3, <2>4, <5>1
      <4> HIDE DEF found
      <4>. QED
        BY <2>2, <2>3, <3>2, <4>1, <4>2 DEF Evidence
    <3> HIDE DEF found
    <3>5. status \in {"complete", "inconclusive"} /\ (status = "complete" => Evidence([r EXCEPT !.candidates = found]))
      BY <3>4 DEF m
    <3> HIDE DEF status
    <3>. QED
      BY <3>1, <3>3, <3>5, EndedOutcome
  <2>. QED
    BY <2>5, <2>6
<1>. QED
  BY <1>3, <1>4, <1>5

(* What the loop has narrowed to is sound where it ends.                   *)
LEMMA TurnedSound ==
  ASSUME NEW r, RecordSound(r), r.active = NoTrial, NEW q, Turned(r, q)
  PROVE  RecordSound(q) /\ q.active = NoTrial
<1>1. r \in InvestigationRecord
  BY DEF RecordSound
<1>2. /\ q \in InvestigationRecord /\ Tried(q) = Tried(r) /\ \A v : Judged(q, v) = Judged(r, v)
      /\ q.trials = r.trials /\ q.active = r.active /\ q.status = r.status
      /\ q.candidates = r.candidates
  BY <1>1, TurnedKeeps
<1>3. NarrowedTo(q, q.subset, q.gran)
  BY <1>2 DEF Turned, NarrowedTo
<1>4. Evidence(r) => Evidence(q)
  BY <1>2 DEF Evidence
<1>. QED
  BY <1>2, <1>3, <1>4 DEF RecordSound

LEMMA NarrowOutcome ==
  ASSUME Instance, kind = "plugins", NEW r, RecordSound(r), r.active = NoTrial,
         All \in Judged(r, "bad"), {} \in Judged(r, "good")
  PROVE  Outcome(Narrow(r))
<1>1. r \in InvestigationRecord /\ size \in Nat \ {0} /\ KeysNow = SUBSET All
  BY Sizes DEF RecordSound
<1>2. Turned(r, r)
  <2>1. r.subset \in SUBSET All /\ r.gran \in Nat /\ r = [r EXCEPT !.subset = r.subset, !.gran = r.gran]
    BY <1>1 DEF InvestigationRecord
  <2>2. NarrowedTo(r, r.subset, r.gran) /\ r.subset \in Judged(r, "bad")
    BY DEF RecordSound, NarrowedTo
  <2>. QED
    BY <2>1, <2>2 DEF Turned
<1>3. PICK q : Turned(r, q) /\ Ends(q) /\ Narrow(r) = NarrowEnds(r, q)
  BY <1>1, <1>2, LoopEnds
<1>4. /\ RecordSound(q) /\ q.active = NoTrial /\ q \in InvestigationRecord
      /\ Tried(q) = Tried(r) /\ \A v : Judged(q, v) = Judged(r, v)
  BY <1>1, <1>3, TurnedSound, TurnedKeeps
<1> DEFINE S == q.subset
           n == Cardinality(S)
<1>5. /\ S \in SUBSET All /\ S \in Judged(q, "bad") /\ {} \in Judged(q, "good")
      /\ q.gran \in Nat /\ (n > 1 => q.gran <= n) /\ n \in 0..size /\ IsFiniteSet(S)
      /\ Several(q) <=> n > 1
  BY <1>1, <1>3, <1>4, Ranks DEF Turned, NarrowedTo, Several
<1>6. ASSUME \A p \in S : S \ {p} \in Judged(q, "good")
      PROVE  Evidence([q EXCEPT !.candidates = S])
  <2> DEFINE m == [q EXCEPT !.candidates = S]
  <2>1. m.candidates = S /\ \A v : Judged(m, v) = Judged(q, v)
    BY <1>4 DEF InvestigationRecord, Judged
  <2> HIDE DEF m
  <2>2. Evidence(m)
    BY <1>5, <1>6, <2>1 DEF Evidence
  <2>. QED
    BY <2>2 DEF m
<1>7. CASE ~Several(q)
  <2>1. ASSUME NEW p \in S PROVE S \ {p} = {}
    <3>1. Cardinality(S \ {p}) = n - 1 /\ IsFiniteSet(S \ {p}) /\ Cardinality(S \ {p}) \in Nat
      BY <1>5, FS_RemoveElement, FS_CardinalityType
    <3>2. Cardinality(S \ {p}) = 0
      BY <1>5, <1>7, <3>1
    <3>. QED
      BY <3>1, <3>2, FS_EmptySet
  <2>2. Evidence([q EXCEPT !.candidates = S])
    BY <1>5, <1>6, <2>1
  <2>3. Narrow(r) = Ended(q, "complete", S)
    BY <1>3, <1>7 DEF NarrowEnds
  <2>. QED
    BY <1>4, <1>5, <2>2, <2>3, EndedOutcome
<1>8. CASE Several(q) /\ Stops(q) # {}
  <2>1. First(q) \in SUBSET All /\ First(q) \notin Tried(q)
    BY <1>3, <1>5, <1>8, FirstStops DEF Ends
  <2>2. Narrow(r) = Try(q, First(q))
    BY <1>3, <1>8 DEF NarrowEnds
  <2>. QED
    BY <1>1, <1>4, <2>1, <2>2, TryOutcome
<1>9. CASE Several(q) /\ Stops(q) = {}
  <2> DEFINE status == IF Judged(r, "skip") # {} THEN "inconclusive" ELSE "complete"
  <2>1. q.gran = n /\ n > 1
    BY <1>3, <1>5, <1>9 DEF Ends
  <2>2. ASSUME NEW p \in S, Judged(q, "skip") = {} PROVE S \ {p} \in Judged(q, "good")
    <3> DEFINE options == Options(S, n)
               o == S \ {p}
    <3>1. PICK i \in DOMAIN options : options[i] = o
      BY <1>1, <1>5, <2>1, SinglesLeft
    <3>2. o \notin {{}, S}
      <4>1. Cardinality(o) = n - 1
        BY <1>5, FS_RemoveElement
      <4>2. Cardinality(o) # 0
        BY <1>5, <2>1, <4>1
      <4>. QED
        BY <4>2, FS_EmptySet
    <3>3. i \notin Stops(q) /\ options = Options(q.subset, q.gran)
      BY <1>9, <2>1
    <3> HIDE DEF o, options
    <3>4. o \in Tried(q) /\ VerdictOf(q, o) # "bad"
      BY <3>1, <3>2, <3>3 DEF Stops
    <3>5. VerdictOf(q, o) \in Verdicts /\ o \in Judged(q, VerdictOf(q, o))
      BY <1>4, <3>4, VerdictGiven
    <3>6. VerdictOf(q, o) # "skip"
      BY <2>2, <3>5
    <3>. QED
      BY <3>4, <3>5, <3>6 DEF Verdicts, o
  <2>3. Narrow(r) = Ended(q, status, S)
    BY <1>3, <1>9 DEF NarrowEnds
  <2>4. /\ status \in {"complete", "inconclusive"}
        /\ status = "complete" => Evidence([q EXCEPT !.candidates = S])
    BY <1>4, <1>6, <2>2
  <2> HIDE DEF status
  <2>. QED
    BY <1>4, <1>5, <2>3, <2>4, EndedOutcome
<1>. QED
  BY <1>7, <1>8, <1>9

LEMMA NextTrialOutcome ==
  ASSUME Instance, NEW r, RecordSound(r), r.active = NoTrial
  PROVE  Outcome(NextTrial(r))
<1>1. CASE r.status \in {"complete", "inconclusive"}
  <2>1. NextTrial(r) = [rec |-> r, trial |-> NoTrial]
    BY <1>1 DEF NextTrial
  <2>. QED
    BY <2>1 DEF Outcome
<1>2. CASE r.status \notin {"complete", "inconclusive"} /\ kind = "time"
  BY <1>2, NextSnapshotOutcome DEF NextTrial
<1>3. CASE r.status \notin {"complete", "inconclusive"} /\ kind # "time"
  <2>1. kind = "plugins" /\ KeysNow = SUBSET All /\ NextTrial(r) = NextPlugins(r)
    BY <1>3, Sizes DEF NextTrial
  <2>2. All \in KeysNow /\ {} \in KeysNow
    BY <2>1
  <2>3. CASE All \notin Tried(r) \/ {} \notin Tried(r)
    BY <2>1, <2>2, <2>3, TryOutcome DEF NextPlugins
  <2>4. CASE All \in Tried(r) /\ {} \in Tried(r) /\ (All \notin Judged(r, "bad") \/ {} \notin Judged(r, "good"))
    BY <2>1, <2>4, GivenUpOutcome DEF NextPlugins
  <2>5. CASE All \in Tried(r) /\ {} \in Tried(r) /\ All \in Judged(r, "bad") /\ {} \in Judged(r, "good")
    BY <2>1, <2>5, NarrowOutcome DEF NextPlugins
  <2>. QED
    BY <2>3, <2>4, <2>5
<1>. QED
  BY <1>1, <1>2, <1>3

----------------------------------------------------------------------------
(* The actions *)

(* The trial under way is judged by someone who sees it.                   *)
LEMMA SettledSound ==
  ASSUME Instance, NEW r, RecordSound(r), r.active # NoTrial, NEW verdict \in Verdicts
  PROVE  LET m == Settled(r, verdict, r.active.key) IN
         RecordSound(m) /\ m.active = NoTrial /\ m.status = "ready"
<1> DEFINE key == r.active.key
           new == [key |-> key, verdict |-> verdict, shown |-> key]
           m == Settled(r, verdict, key)
<1>1. /\ r \in InvestigationRecord /\ r.trials \in Seq(Judgement) /\ key \in KeysNow /\ key \notin Tried(r)
      /\ new \in Judgement
  BY DEF RecordSound, InvestigationRecord, TrialsOf, Judgement
<1>2. /\ m \in InvestigationRecord /\ m.active = NoTrial /\ m.status = "ready"
      /\ m.trials = Append(r.trials, new) /\ m.subset = r.subset /\ m.gran = r.gran
  <2> DEFINE longer == Append(r.trials, new)
  <2>1. longer \in Seq(Judgement)
    <3> HIDE DEF new
    <3>. QED
      BY <1>1
  <2>2. m = [r EXCEPT !.trials = longer, !.active = NoTrial, !.status = "ready"]
    BY DEF Settled
  <2> HIDE DEF longer, m
  <2>3. /\ m \in InvestigationRecord /\ m.active = NoTrial /\ m.status = "ready"
        /\ m.trials = longer /\ m.subset = r.subset /\ m.gran = r.gran
    BY <1>1, <2>1, <2>2 DEF InvestigationRecord, Statuses
  <2>. QED
    BY <2>3 DEF longer
<1> HIDE DEF m, new
<1>3. /\ DOMAIN m.trials = DOMAIN r.trials \cup {Len(r.trials) + 1} /\ Len(m.trials) = Len(r.trials) + 1
      /\ Len(r.trials) \in Nat
      /\ \A i \in DOMAIN r.trials : m.trials[i] = r.trials[i]
      /\ m.trials[Len(r.trials) + 1] = new
  BY <1>1, <1>2
<1>4. new.key = key /\ new.shown = key /\ new.verdict = verdict
  BY DEF new
<1>5. Tried(m) = Tried(r) \cup {key}
  BY <1>3, <1>4 DEF Tried
<1>6. \A v : Judged(r, v) \subseteq Judged(m, v)
  BY <1>3 DEF Judged
<1>7. Cardinality(Tried(m)) = Len(m.trials)
  <2>1. Cardinality(Tried(r)) = Len(r.trials) /\ IsFiniteSet(Tried(r))
    BY <1>1, TriedAre DEF RecordSound
  <2>2. Cardinality(Tried(r) \cup {key}) = Cardinality(Tried(r)) + 1
    BY <1>1, <2>1, FS_AddElement
  <2>. QED
    BY <1>3, <1>5, <2>1, <2>2
<1>8. \A i \in DOMAIN m.trials : m.trials[i].shown = m.trials[i].key
  BY <1>3, <1>4 DEF RecordSound
<1>9. NarrowedTo(m, m.subset, m.gran)
  BY <1>2, <1>6 DEF RecordSound, NarrowedTo
<1>10. RecordSound(m)
  BY <1>2, <1>7, <1>8, <1>9 DEF RecordSound
<1>. QED
  BY <1>2, <1>10 DEF m

LEMMA SaveUpdates ==
  ASSUME NEW r, Save(r), InvestigationInv
  PROVE  /\ rec' = r /\ ~page'.last
         /\ page' \in [key : KeysNow \cup {NoTrial}, last : BOOLEAN]
BY DEF Save, InvestigationInv

(* An action that saves a sound record, and says where the operation is.   *)
LEMMA Saves ==
  ASSUME InvestigationInv, NEW r, Save(r), RecordSound(r), UNCHANGED <<kind, size>>,
         step' \in {"idle", "trying", "record", "again"}, auto' \in BOOLEAN,
         step' \in {"trying", "record"} => r.active # NoTrial,
         step' = "record" => r.active.suggested \in Verdicts,
         step' = "again" => r.active = NoTrial
  PROVE  InvestigationInv'
<1>1. rec' = r /\ ~page'.last /\ page' \in [key : KeysNow \cup {NoTrial}, last : BOOLEAN]
  BY SaveUpdates
<1>2. RecordSound(rec)' /\ KeysNow' = KeysNow
  <2>1. KeysNow' = KeysNow /\ All' = All /\ Judgement' = Judgement
    BY DEF KeysNow, All, Judgement
  <2>2. InvestigationRecord' = InvestigationRecord
    BY <2>1 DEF InvestigationRecord
  <2>3. RecordSound(rec)' <=> RecordSound(rec')
    BY <2>1, <2>2 DEF RecordSound, Evidence, NarrowedTo, Tried, Judged
  <2>. QED
    BY <1>1, <2>1, <2>3
<1>. QED
  BY <1>1, <1>2 DEF InvestigationInv

LEMMA ContinueStep ==
  ASSUME InvestigationInv, rec.active = NoTrial, Continue, UNCHANGED <<kind, size>>, auto' \in BOOLEAN
  PROVE  InvestigationInv'
<1> DEFINE n == NextTrial(rec)
           r == [n.rec EXCEPT !.active = n.trial, !.status = "running"]
<1>1. Instance /\ Outcome(n)
  BY NextTrialOutcome DEF InvestigationInv, Instance
<1>2. CASE n.trial = NoTrial
  <2>1. Save(n.rec) /\ step' = "idle"
    BY <1>2 DEF Continue
  <2> HIDE DEF n
  <2>. QED
    BY <1>1, <2>1, Saves DEF Outcome
<1>3. CASE n.trial # NoTrial
  <2>1. Save(r) /\ step' = "trying"
    BY <1>3 DEF Continue
  <2> HIDE DEF n
  <2>2. PICK key \in KeysNow \ Tried(n.rec) : n.trial = Trial(key)
    BY <1>1, <1>3 DEF Outcome
  <2>3. n.trial \in TrialsOf(KeysNow) /\ n.trial.key = key
    BY <1>1, <2>2, TrialsAreRecords DEF Trial
  <2>4. n.rec \in InvestigationRecord /\ RecordSound(n.rec)
    BY <1>1 DEF Outcome, RecordSound
  <2>5. /\ r \in InvestigationRecord /\ r.active = n.trial /\ r.status = "running"
        /\ r.trials = n.rec.trials /\ r.subset = n.rec.subset /\ r.gran = n.rec.gran
    BY <2>3, <2>4 DEF InvestigationRecord, Statuses
  <2> HIDE DEF r
  <2>6. Tried(r) = Tried(n.rec) /\ \A v : Judged(r, v) = Judged(n.rec, v)
    BY <2>5 DEF Tried, Judged
  <2>7. RecordSound(r)
    BY <1>3, <2>2, <2>3, <2>4, <2>5, <2>6 DEF RecordSound, NarrowedTo
  <2>. QED
    BY <1>3, <2>1, <2>5, <2>7, Saves
<1>. QED
  BY <1>2, <1>3

(* The trial under way changes, not what it tries.                         *)
LEMMA TrialMoves ==
  ASSUME InvestigationInv, rec.active # NoTrial, NEW r, r \in InvestigationRecord,
         r.active # NoTrial, r.active.key = rec.active.key, r.status \in {"running", "review"},
         r.trials = rec.trials, r.subset = rec.subset, r.gran = rec.gran
  PROVE  RecordSound(r)
<1>1. Tried(r) = Tried(rec) /\ \A v : Judged(r, v) = Judged(rec, v)
  BY DEF Tried, Judged
<1>. QED
  BY <1>1 DEF RecordSound, NarrowedTo, InvestigationInv

LEMMA LabCreatedStep == ASSUME InvestigationInv, LabCreated PROVE InvestigationInv'
<1> DEFINE r == [rec EXCEPT !.active.lab = TRUE]
<1>1. /\ rec \in InvestigationRecord /\ rec.active \in TrialsOf(KeysNow) /\ rec.active # NoTrial /\ Instance
      /\ rec.status \in {"running", "review"}
  BY DEF InvestigationInv, RecordSound, InvestigationRecord, LabCreated, Instance
<1>2. [rec.active EXCEPT !.lab = TRUE] \in TrialsOf(KeysNow) /\ NoTrial \notin TrialsOf(KeysNow)
  <2>1. rec.active.key \in KeysNow
    BY <1>1 DEF TrialsOf
  <2>. QED
    BY <1>1, <2>1, TrialsAreRecords DEF TrialsOf
<1>3. /\ r \in InvestigationRecord /\ r.active = [rec.active EXCEPT !.lab = TRUE]
      /\ r.status = rec.status /\ r.trials = rec.trials /\ r.subset = rec.subset /\ r.gran = rec.gran
  BY <1>1, <1>2 DEF InvestigationRecord
<1>4. r.active.key = rec.active.key
  BY <1>1, <1>3 DEF TrialsOf
<1>5. Save(r) /\ step' = "trying" /\ UNCHANGED <<kind, size, auto>>
  BY DEF LabCreated
<1> HIDE DEF r
<1>6. RecordSound(r) /\ r.active # NoTrial
  BY <1>1, <1>2, <1>3, <1>4, TrialMoves
<1>. QED
  BY <1>5, <1>6, Saves DEF InvestigationInv

LEMMA TrialEndsStep ==
  ASSUME InvestigationInv, NEW suggested \in Verdicts, NEW error \in BOOLEAN, TrialEnds(suggested, error)
  PROVE  InvestigationInv'
<1> DEFINE r == [rec EXCEPT !.active.suggested = suggested, !.status = "review"]
           trial == [rec.active EXCEPT !.suggested = suggested]
<1>1. /\ rec \in InvestigationRecord /\ rec.active \in TrialsOf(KeysNow) /\ rec.active # NoTrial /\ Instance
  BY DEF InvestigationInv, RecordSound, InvestigationRecord, TrialEnds, Instance
<1>2. trial \in TrialsOf(KeysNow) /\ NoTrial \notin TrialsOf(KeysNow)
  <2>1. rec.active.key \in KeysNow
    BY <1>1 DEF TrialsOf
  <2>. QED
    BY <1>1, <2>1, TrialsAreRecords DEF TrialsOf
<1>3. /\ r \in InvestigationRecord /\ r.active = trial
      /\ r.status = "review" /\ r.trials = rec.trials /\ r.subset = rec.subset /\ r.gran = rec.gran
  BY <1>1, <1>2 DEF InvestigationRecord, Statuses
<1>4. trial.key = rec.active.key /\ trial.suggested = suggested
  BY <1>1 DEF TrialsOf
<1>5. Save(r) /\ step' \in {"idle", "record"} /\ UNCHANGED <<kind, size, auto>>
  BY DEF TrialEnds
<1> HIDE DEF r, trial
<1>6. RecordSound(r) /\ r.active # NoTrial /\ r.active.suggested \in Verdicts
  BY <1>1, <1>2, <1>3, <1>4, TrialMoves
<1>. QED
  BY <1>5, <1>6, Saves DEF InvestigationInv

LEMMA TakeSuggestionStep == ASSUME InvestigationInv, TakeSuggestion PROVE InvestigationInv'
<1> DEFINE r == Settled(rec, rec.active.suggested, rec.active.key)
<1>1. /\ Instance /\ RecordSound(rec) /\ rec.active # NoTrial /\ rec.active.suggested \in Verdicts
      /\ Save(r) /\ step' = "again" /\ UNCHANGED <<kind, size, auto>> /\ auto \in BOOLEAN
  BY DEF InvestigationInv, Instance, TakeSuggestion
<1>2. RecordSound(r) /\ r.active = NoTrial
  BY <1>1, SettledSound
<1> HIDE DEF r
<1>. QED
  BY <1>1, <1>2, Saves

LEMMA AnswerStep ==
  ASSUME InvestigationInv, NEW verdict \in Verdicts, Answer(verdict)
  PROVE  InvestigationInv'
<1>1. PICK p \in {page, Shown(rec)} :
        Answerable(p) /\ Save(NextTrial(Settled(rec, verdict, p.key)).rec)
  BY DEF Answer
<1>2. p.key = rec.active.key /\ rec.active # NoTrial /\ Instance /\ RecordSound(rec)
  BY <1>1 DEF InvestigationInv, Answerable, Shown, Instance
<1> DEFINE r == Settled(rec, verdict, rec.active.key)
           n == NextTrial(r)
<1>3. RecordSound(r) /\ r.active = NoTrial
  BY <1>2, SettledSound
<1>4. Save(n.rec) /\ step' = "idle" /\ UNCHANGED <<kind, size, auto>>
  BY <1>1, <1>2 DEF Answer
<1> HIDE DEF r
<1>5. Outcome(n)
  BY <1>2, <1>3, NextTrialOutcome
<1> HIDE DEF n
<1>. QED
  BY <1>4, <1>5, Saves DEF Outcome, InvestigationInv

LEMMA SkipInterruptedStep == ASSUME InvestigationInv, SkipInterrupted PROVE InvestigationInv'
<1> DEFINE r == Settled(rec, "skip", rec.active.key)
<1>1. /\ Instance /\ RecordSound(rec) /\ rec.active # NoTrial /\ "skip" \in Verdicts
      /\ Save(r) /\ step' = "idle" /\ UNCHANGED <<kind, size, auto>> /\ auto \in BOOLEAN
  BY DEF InvestigationInv, Instance, SkipInterrupted, Verdicts
<1>2. RecordSound(r)
  BY <1>1, SettledSound
<1> HIDE DEF r
<1>. QED
  BY <1>1, <1>2, Saves

LEMMA PreviewStep == ASSUME InvestigationInv, Preview PROVE InvestigationInv'
BY Saves DEF Preview, InvestigationInv

(* The record stays: a kill, a page that is loaded, or nothing.            *)
LEMMA RecordStays ==
  ASSUME InvestigationInv, UNCHANGED <<kind, size, rec, auto>>, step' \in {step, "idle"},
         page' \in {page, Shown(rec)}
  PROVE  InvestigationInv'
<1>1. KeysNow' = KeysNow /\ All' = All /\ Judgement' = Judgement
  BY DEF KeysNow, All, Judgement
<1>2. InvestigationRecord' = InvestigationRecord
  BY <1>1 DEF InvestigationRecord
<1>3. RecordSound(rec)'
  <2>1. RecordSound(rec')
    BY DEF InvestigationInv
  <2>2. RecordSound(rec)' <=> RecordSound(rec')
    BY <1>1, <1>2 DEF RecordSound, Evidence, NarrowedTo, Tried, Judged
  <2>. QED
    BY <2>1, <2>2
<1>4. Shown(rec) \in [key : KeysNow \cup {NoTrial}, last : BOOLEAN]
  BY DEF Shown, InvestigationInv, RecordSound, InvestigationRecord, TrialsOf
<1>. QED
  BY <1>1, <1>3, <1>4 DEF InvestigationInv, Shown

LEMMA InvestigationStep ==
  ASSUME InvestigationInv, [InvestigationNext]_investigationVars
  PROVE  InvestigationInv'
<1>1. CASE RunTrials
  <2>1. rec.active = NoTrial
    BY <1>1 DEF RunTrials, InvestigationInv, RecordSound
  <2>. QED
    BY <1>1, <2>1, ContinueStep DEF RunTrials
<1>2. CASE Again
  BY <1>2, ContinueStep DEF Again, InvestigationInv
<1>3. CASE LabCreated \/ TakeSuggestion \/ SkipInterrupted \/ Preview
  BY <1>3, LabCreatedStep, TakeSuggestionStep, SkipInterruptedStep, PreviewStep
<1>4. CASE \E verdict \in Verdicts, error \in BOOLEAN : TrialEnds(verdict, error)
  BY <1>4, TrialEndsStep
<1>5. CASE \E verdict \in Verdicts : Answer(verdict)
  BY <1>5, AnswerStep
<1>6. CASE Interrupted \/ Show \/ UNCHANGED investigationVars
  BY <1>6, RecordStays DEF Interrupted, Show, investigationVars
<1>. QED
  BY <1>1, <1>2, <1>3, <1>4, <1>5, <1>6 DEF InvestigationNext

(* bisect.ts, investigate-run.ts: whatever the verdicts were and whoever   *)
(* gave them, whatever was killed, skipped or answered late, nothing is    *)
(* tried twice and a complete investigation names what its trials prove.   *)
THEOREM ResultsAreEvidenced == InvestigationSpec => []ResultIsEvidenced
<1>1. InvestigationInit => InvestigationInv
  <2> SUFFICES ASSUME InvestigationInit PROVE InvestigationInv
    OBVIOUS
  <2>1. Instance
    BY DEF InvestigationInit, Instance
  <2>2. /\ rec.status = "ready" /\ rec.trials = <<>> /\ rec.active = NoTrial
        /\ rec.subset = All /\ rec.gran = 2 /\ rec.candidates = {}
        /\ rec \in InvestigationRecord
    BY DEF InvestigationInit, InvestigationRecord, Statuses
  <2>3. Tried(rec) = {} /\ Cardinality(Tried(rec)) = 0
    <3>1. DOMAIN rec.trials = {}
      BY <2>2
    <3>2. Tried(rec) = {}
      BY <3>1 DEF Tried
    <3>. QED
      BY <3>2, FS_EmptySet
  <2>4. Cardinality(All) \in Nat
    BY <2>1, Sizes, Ranks
  <2>5. RecordSound(rec)
    <3>1. NarrowedTo(rec, rec.subset, rec.gran)
      BY <2>2, <2>4 DEF NarrowedTo
    <3>. QED
      BY <2>2, <2>3, <3>1 DEF RecordSound
  <2>. QED
    BY <2>1, <2>2, <2>5 DEF InvestigationInit, InvestigationInv, Instance, Shown
<1>2. InvestigationInv /\ [InvestigationNext]_investigationVars => InvestigationInv'
  BY InvestigationStep
<1>3. InvestigationInv => ResultIsEvidenced
  BY DEF InvestigationInv, RecordSound, ResultIsEvidenced, Judgements
<1>. QED
  BY <1>1, <1>2, <1>3, PTL DEF InvestigationSpec
=============================================================================
