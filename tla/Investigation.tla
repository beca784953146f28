---------------------------- MODULE Investigation -----------------------------
(***************************************************************************)
(* Finding the snapshot or the plugins that broke a profile                *)
(* (workflows/bisect.ts, workflows/investigate-run.ts): a record on disk   *)
(* of trials and their verdicts, a run that tries the next snapshot or the *)
(* next set of plugins in a lab, by itself or one trial at a time, and     *)
(* pages that judge a trial they have seen.                                *)
(*                                                                         *)
(* Every operation holds the investigation's operation lock, so at most    *)
(* one is under way, and its copy of the record is the one on disk: it is  *)
(* saved at every change.  It may be killed between any two saves.  A save *)
(* counts the revision: the page's is the record's when nothing was saved  *)
(* since the page was loaded.                                              *)
(***************************************************************************)
EXTENDS FiniteSets, Integers, Sequences

CONSTANTS
  MaxChain,     (* snapshots from the good to the bad one (bound)          *)
  MaxPlugins,   (* plugins that are not core ones, in the order of names   *)
                (* (bound)                                                 *)
  NoTrial

VARIABLES
  kind, size,   (* "time" or "plugins", and how many of them               *)
  rec,          (* investigations/<id>.json                                *)
  step, auto,   (* where the operation is, and whether it judges alone     *)
  page          (* what a page shows, and whether that is the last revision *)

investigationVars == <<kind, size, rec, step, auto, page>>

Verdicts == {"good", "bad", "skip"}
All == 1..size

(* The trials of some snapshots, or sets of plugins.                       *)
TrialsOf(keys) == [key : keys, suggested : Verdicts \cup {NoTrial}, lab : BOOLEAN]

ASSUME InvestigationAssumption ==
  /\ MaxChain \in Nat /\ MaxPlugins \in Nat
  /\ NoTrial \notin TrialsOf(1..MaxChain) \cup TrialsOf(SUBSET (1..MaxPlugins))

Trial(key) == [key |-> key, suggested |-> NoTrial, lab |-> FALSE]

InvestigationInit ==
  /\ \/ kind = "time" /\ size \in 2..MaxChain
     \/ kind = "plugins" /\ size \in 1..MaxPlugins
  /\ rec = [status |-> "ready", trials |-> <<>>, active |-> NoTrial,
            subset |-> All, gran |-> 2, candidates |-> {}]
  /\ step = "idle" /\ auto = FALSE
  /\ page = [key |-> NoTrial, last |-> TRUE]

----------------------------------------------------------------------------
(* nextTrial: what is tried next, and what it writes into the record       *)

Tried(r) == {r.trials[i].key : i \in DOMAIN r.trials}
VerdictOf(r, key) ==
  r.trials[CHOOSE i \in DOMAIN r.trials :
             r.trials[i].key = key /\ \A j \in 1..(i - 1) : r.trials[j].key # key].verdict
Judged(r, verdict) == {r.trials[i].key : i \in {j \in DOMAIN r.trials : r.trials[j].verdict = verdict}}

Try(r, key) == [rec |-> r, trial |-> Trial(key)]
Ended(r, status, candidates) ==
  [rec |-> [r EXCEPT !.status = status, !.candidates = candidates], trial |-> NoTrial]
GivenUp(r) == Ended(r, "inconclusive", r.candidates)

(* The untried snapshot nearest to the middle, the older one of two *)
Nearest(open, low, high) ==
  LET off(i) == IF 2 * i >= low + high THEN 2 * i - (low + high) ELSE (low + high) - 2 * i IN
  CHOOSE i \in open : \A j \in open : off(i) < off(j) \/ (off(i) = off(j) /\ i <= j)

(* Both ends behave as expected *)
EndpointsHold(r) == 1 \in Judged(r, "good") /\ size \in Judged(r, "bad")

NextSnapshot(r) ==
  LET low  == CHOOSE i \in Judged(r, "good") : \A j \in Judged(r, "good") : j <= i
      high == CHOOSE i \in Judged(r, "bad") : \A j \in Judged(r, "bad") : i <= j
      open == {i \in All : low < i /\ i < high} \ Tried(r)
  IN  IF {1, size} \ Tried(r) # {}
        THEN Try(r, CHOOSE i \in {1, size} \ Tried(r) : \A j \in {1, size} \ Tried(r) : i <= j)
      ELSE IF ~EndpointsHold(r) \/ low >= high THEN GivenUp(r)
      ELSE IF open # {} THEN Try(r, Nearest(open, low, high))
      ELSE Ended(r, IF high = low + 1 THEN "complete" ELSE "inconclusive", (low + 1)..high)

(* Chunks of the current set in the order of names, each one followed by   *)
(* the rest of the set.                                                    *)
Rank(set, p) == Cardinality({q \in set : q <= p})

(* Mutant: the chunks without the rests *)
OptionsChunks(set, gran) ==
  LET n == Cardinality(set)
      width == (n + gran - 1) \div gran
      chunk(k) == {p \in set : (k - 1) * width < Rank(set, p) /\ Rank(set, p) <= k * width}
  IN  [k \in 1..((n + width - 1) \div width) |-> chunk(k)]

Options(set, gran) ==
  LET n == Cardinality(set)
      width == (n + gran - 1) \div gran
      chunk(k) == {p \in set : (k - 1) * width < Rank(set, p) /\ Rank(set, p) <= k * width}
  IN  [i \in 1..(2 * ((n + width - 1) \div width)) |->
         IF i % 2 = 1 THEN chunk((i + 1) \div 2) ELSE set \ chunk(i \div 2)]

(* The options at which the loop over them stops: not tried yet, or bad    *)
Stops(r) ==
  LET options == Options(r.subset, r.gran) IN
  {i \in DOMAIN options :
     /\ options[i] \notin {{}, r.subset}
     /\ options[i] \notin Tried(r) \/ VerdictOf(r, options[i]) = "bad"}

First(r) == Options(r.subset, r.gran)[CHOOSE i \in Stops(r) : \A j \in Stops(r) : i <= j]

Several(r) == Cardinality(r.subset) > 1

(* A turn of the delta debugging loop: narrow to a set that fails, else    *)
(* cut finer, or nothing is left to do.                                    *)
Pass(r) ==
  LET n == Cardinality(r.subset) IN
  IF Several(r) /\ Stops(r) # {} /\ First(r) \in Tried(r)
    THEN [r EXCEPT !.subset = First(r), !.gran = 2]
  ELSE IF Several(r) /\ Stops(r) = {} /\ r.gran < n
    THEN [r EXCEPT !.gran = IF 2 * r.gran < n THEN 2 * r.gran ELSE n]
  ELSE r

(* Every turn takes plugins away or cuts finer: after so many the loop has *)
(* ended.                                                                  *)
Passes == size * size

Narrow(r) ==
  LET loop[n \in 0..Passes] == IF n = 0 THEN r ELSE Pass(loop[n - 1])
      last == loop[Passes]
  IN  IF ~Several(last) THEN Ended(last, "complete", last.subset)
      ELSE IF Stops(last) # {} THEN Try(last, First(last))
      ELSE Ended(last, IF Judged(r, "skip") # {} THEN "inconclusive" ELSE "complete", last.subset)

NextPlugins(r) ==
  IF All \notin Tried(r) THEN Try(r, All)
  ELSE IF {} \notin Tried(r) THEN Try(r, {})
  ELSE IF All \notin Judged(r, "bad") \/ {} \notin Judged(r, "good") THEN GivenUp(r)
  ELSE Narrow(r)

NextTrial(r) ==
  IF r.active # NoTrial THEN [rec |-> r, trial |-> r.active]
  ELSE IF r.status \in {"complete", "inconclusive"} THEN [rec |-> r, trial |-> NoTrial]
  ELSE IF kind = "time" THEN NextSnapshot(r) ELSE NextPlugins(r)

----------------------------------------------------------------------------
(* Running trials *)

(* saveInvestigation: every page is one revision behind *)
Save(r) == rec' = r /\ page' = [page EXCEPT !.last = FALSE]

(* s.trials.push(s.active) with its verdict, given by someone who sees the *)
(* trial `shown`; the record is ready again.                               *)
Settled(r, verdict, shown) ==
  [r EXCEPT !.trials = Append(@, [key |-> r.active.key, verdict |-> verdict, shown |-> shown]),
            !.active = NoTrial, !.status = "ready"]

(* runInvestigation, and each turn of its loop *)
Continue ==
  LET next == NextTrial(rec) IN
  IF next.trial = NoTrial
  THEN Save(next.rec) /\ step' = "idle"
  ELSE /\ Save([next.rec EXCEPT !.active = next.trial, !.status = "running"])
       /\ step' = "trying"

RunTrials ==
  /\ step = "idle" /\ rec.status \notin {"running", "review"}
  /\ auto' \in BOOLEAN
  /\ Continue
  /\ UNCHANGED <<kind, size>>

Again == step = "again" /\ Continue /\ UNCHANGED <<kind, size, auto>>

LabCreated ==
  /\ step = "trying" /\ ~rec.active.lab
  /\ Save([rec EXCEPT !.active.lab = TRUE])
  /\ UNCHANGED <<kind, size, step, auto>>

(* The lab's result; an error, also one in preparing it, suggests a skip   *)
(* and ends the automatic run.                                             *)
TrialEnds(suggested, error) ==
  /\ step = "trying"
  /\ IF error THEN suggested = "skip" ELSE rec.active.lab
  /\ Save([rec EXCEPT !.active.suggested = suggested, !.status = "review"])
  /\ step' = IF error \/ ~auto THEN "idle" ELSE "record"
  /\ UNCHANGED <<kind, size, auto>>

(* The automatic run takes its own suggestion *)
TakeSuggestion ==
  /\ step = "record"
  /\ Save(Settled(rec, rec.active.suggested, rec.active.key))
  /\ step' = "again"
  /\ UNCHANGED <<kind, size, auto>>

(* A kill, or a save that throws: what was saved is left *)
Interrupted ==
  /\ step # "idle" /\ step' = "idle"
  /\ UNCHANGED <<kind, size, rec, auto, page>>

----------------------------------------------------------------------------
(* The pages *)

Shown(r) == [key |-> IF r.active = NoTrial THEN NoTrial ELSE r.active.key, last |-> TRUE]

Show ==
  /\ page' = Shown(rec)
  /\ UNCHANGED <<kind, size, rec, step, auto>>

(* The revision of the page p is the record's *)
Answerable(p) == p.last /\ rec.status = "review" /\ rec.active # NoTrial

(* answerInvestigation, from the page or from one that was just loaded *)
Answer(verdict) ==
  /\ step = "idle"
  /\ \E p \in {page, Shown(rec)} :
       /\ Answerable(p)
       /\ Save(NextTrial(Settled(rec, verdict, p.key)).rec)
  /\ UNCHANGED <<kind, size, step, auto>>

(* skipInterruptedTrial: the user declares an unfinished trial skipped *)
SkipInterrupted ==
  /\ step = "idle" /\ rec.status = "running" /\ rec.active # NoTrial
  /\ Save(Settled(rec, "skip", rec.active.key))
  /\ UNCHANGED <<kind, size, step, auto>>

(* previewInvestigation: the trial's lab starts, the record notes it *)
Preview ==
  /\ step = "idle" /\ rec.status = "review" /\ rec.active # NoTrial /\ rec.active.lab
  /\ Save(rec)
  /\ UNCHANGED <<kind, size, step, auto>>

InvestigationNext ==
  \/ RunTrials \/ Again \/ LabCreated \/ TakeSuggestion \/ Interrupted
  \/ \E verdict \in Verdicts, error \in BOOLEAN : TrialEnds(verdict, error)
  \/ Show \/ \E verdict \in Verdicts : Answer(verdict)
  \/ SkipInterrupted \/ Preview

InvestigationSpec == InvestigationInit /\ [][InvestigationNext]_investigationVars

----------------------------------------------------------------------------
(* Properties *)

(* Judgements: no snapshot and no set of plugins is tried twice, and a     *)
(* trial is judged by someone who sees it.                                 *)
Judgements ==
  /\ Cardinality(Tried(rec)) = Len(rec.trials)
  /\ rec.active # NoTrial => rec.active.key \notin Tried(rec)
  /\ \A i \in DOMAIN rec.trials : rec.trials[i].shown = rec.trials[i].key

(* What the trials prove: a snapshot that fails after one that works, with *)
(* nothing to the contrary; plugins that fail although the core works, and *)
(* no smaller set by one plugin of which fails.                            *)
Evidence(r) ==
  IF kind = "time"
  THEN \E i \in Judged(r, "bad") :
         /\ r.candidates = {i} /\ i - 1 \in Judged(r, "good")
         /\ \A j \in Judged(r, "good"), k \in Judged(r, "bad") : j < i /\ i <= k
  ELSE /\ r.candidates \in Judged(r, "bad") /\ {} \in Judged(r, "good")
       /\ \A p \in r.candidates : r.candidates \ {p} \in Judged(r, "good")

(* bisect.ts: whatever the verdicts were and whoever gave them, whatever   *)
(* was killed, skipped or answered late, a complete investigation names    *)
(* what its trials prove.                                                  *)
ResultIsEvidenced ==
  /\ Judgements
  /\ rec.status = "complete" => Evidence(rec)

=============================================================================
