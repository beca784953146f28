-------------------------------- MODULE Upgrades ------------------------------
(***************************************************************************)
(* Planned upgrade checks (workflows/upgrades.ts) and the trial of other   *)
(* host versions (workflows/compatibility.ts): the policy on disk, the     *)
(* tick of every management server on one home, the check as a job, and    *)
(* the labs both leave behind.                                             *)
(*                                                                         *)
(* The profile has one plugin from the registry and one from a local       *)
(* directory. A version is its core and its pre-release identifiers, a     *)
(* number or a word each.                                                  *)
(***************************************************************************)
EXTENDS Integers, Sequences, FiniteSets

CONSTANTS
  Servers,
  Hours,        (* intervals a user may choose                             *)
  MaxTime,      (* bound: the clock, in hours                              *)
  MaxSourceEdits, (* bound: edits of the profile or the local source       *)
  MaxChecks,    (* bound: checks started                                   *)
  Unset

VARIABLES
  clock,
  policy,       (* upgrade-policies/<hash>.json                            *)
  guard,        (* the operation lock 'upgrade-policies'                   *)
  tick,         (* per server: the step of upgradeTick, the policy it read *)
  checks,       (* the checks started, each with the steps of its job      *)
  trial,        (* the lab of a host trial                                 *)
  official, local, (* the profile's and the local source's content: the    *)
                (* number of the last edit                                 *)
  sourceEdits,
  current, latest, (* the plugin's versions: installed, in the registry    *)
  results,      (* upgrade-results/<job>.json                              *)
  lastStart     (* history: the time the last check was counted from       *)

tickVars == <<policy, guard, tick, lastStart>>
sourceVars == <<official, local, sourceEdits, current, latest>>
upgradesVars == <<clock, tickVars, checks, trial, sourceVars, results>>

Numbers == {<<"number", n>> : n \in 0..1}
Words == {<<"word", n>> : n \in 0..1}
PreReleases == UNION {[1..n -> Numbers \cup Words] : n \in 0..2}
Versions == [core : 0..1, pre : PreReleases]
Off == [enabled |-> FALSE, hours |-> 0, nextAt |-> 0]
NoTrial == [at |-> "none", marked |-> FALSE, verified |-> FALSE]

ASSUME UpgradesAssumption ==
  Hours \in SUBSET Nat /\ Hours # {} /\ Unset \notin Servers /\ Unset \notin Versions

UpgradesInit ==
  /\ clock = 0
  /\ policy = Off /\ guard = Unset
  /\ tick = [s \in Servers |-> [at |-> "idle", policy |-> Off]]
  /\ checks = <<>>
  /\ trial = NoTrial
  /\ official = 0 /\ local = 0 /\ sourceEdits = 0
  /\ current \in Versions \cup {Unset} /\ latest \in Versions
  /\ results = {}
  /\ lastStart = Unset

----------------------------------------------------------------------------
(* isNewerVersion: the cores, then the identifiers of the pre-releases in  *)
(* turn; no pre-release is newer than one, a longer one than its start,    *)
(* a word than a number.                                                   *)
NewerId(x, y) ==
  CASE x[1] = y[1] -> x[2] > y[2]
    [] OTHER -> x[1] = "word"
FirstDifference(x, y) ==
  LET Differs == {i \in 1..(IF Len(x) > Len(y) THEN Len(x) ELSE Len(y)) :
                    i > Len(x) \/ i > Len(y) \/ (i <= Len(x) /\ i <= Len(y) /\ x[i] # y[i])}
  IN IF Differs = {} THEN 0 ELSE CHOOSE i \in Differs : \A j \in Differs : i <= j
NewerPre(x, y) ==
  LET i == FirstDifference(x, y)
  IN IF x = <<>> \/ y = <<>> THEN x = <<>> /\ y # <<>>
     ELSE i # 0 /\ i <= Len(x) /\ (i > Len(y) \/ NewerId(x[i], y[i]))
IsNewer(a, b) ==
  /\ a # Unset /\ b # Unset
  /\ \/ a.core > b.core
     \/ a.core = b.core /\ NewerPre(a.pre, b.pre)

----------------------------------------------------------------------------
(* upgradePolicy: a user turns the checks on or off.                       *)
SetPolicy(on, h) ==
  /\ guard = Unset
  /\ policy' = [enabled |-> on, hours |-> h, nextAt |-> clock + h]
  /\ UNCHANGED <<clock, guard, tick, lastStart, checks, trial, sourceVars, results>>

(* upgradeTick, under the lock: a policy that is due is moved on and saved *)
(* before its job is started.                                              *)
Due(p) == p.enabled /\ p.nextAt <= clock

TickReads(s) ==
  /\ tick[s].at = "idle" /\ guard = Unset /\ Due(policy)
  /\ guard' = s
  /\ tick' = [tick EXCEPT ![s] = [at |-> "save", policy |-> policy]]
  /\ UNCHANGED <<clock, policy, lastStart, checks, trial, sourceVars, results>>

(* Mutant: the time of the next check is left for the job to set.          *)
TickKeeps(s) ==
  /\ tick[s].at = "save"
  /\ tick' = [tick EXCEPT ![s].at = "start"]
  /\ UNCHANGED <<clock, policy, guard, lastStart, checks, trial, sourceVars, results>>

TickSaves(s) ==
  /\ tick[s].at = "save"
  /\ LET p == [tick[s].policy EXCEPT !.nextAt = clock + tick[s].policy.hours]
     IN policy' = p /\ tick' = [tick EXCEPT ![s] = [at |-> "start", policy |-> p]]
  /\ UNCHANGED <<clock, guard, lastStart, checks, trial, sourceVars, results>>

(* The queue may refuse the job; either way the policy is saved once more. *)
Counted(p) == p.nextAt - p.hours
Check == [at |-> "queued", profile |-> Unset, lab |-> Unset, row |-> "none"]

TickStarts(s) ==
  /\ tick[s].at = "start"
  /\ tick' = [tick EXCEPT ![s].at = "idle"]
  /\ guard' = Unset /\ policy' = tick[s].policy
  /\ \/ /\ Len(checks) < MaxChecks
        /\ checks' = Append(checks, [Check EXCEPT !.at = s])
        /\ lastStart' = Counted(tick[s].policy)
     \/ UNCHANGED <<checks, lastStart>>
  /\ UNCHANGED <<clock, trial, sourceVars, results>>

(* A server dies in its tick, and with it the checks it runs.              *)
ServerDies(s) ==
  /\ tick' = [tick EXCEPT ![s].at = "idle"]
  /\ guard' = IF guard = s THEN Unset ELSE guard
  /\ checks' = [n \in DOMAIN checks |->
                  IF checks[n].row = "saved" \/ checks[n].at # s THEN checks[n]
                  ELSE [checks[n] EXCEPT !.at = Unset]]
  /\ UNCHANGED <<clock, policy, lastStart, trial, sourceVars, results>>

----------------------------------------------------------------------------
(* checkUpgrades, as the job of a server. The profile and the local source *)
(* must be those of the stable point (content 0), at first and at the end. *)
Runs(n) == checks[n].at # Unset
Row(n, r) == checks' = [checks EXCEPT ![n].row = r]
Stops(n) == checks' = [checks EXCEPT ![n].at = Unset]
checkUnchanged == <<clock, tickVars, trial, sourceVars>>

Analyse(n) ==
  /\ Runs(n) /\ checks[n].row = "none"
  /\ IF official = 0 /\ local = 0
     THEN checks' = [checks EXCEPT ![n].row = "query", ![n].profile = official]
     ELSE Stops(n)
  /\ UNCHANGED <<checkUnchanged, results>>

Query(n) ==
  /\ Runs(n) /\ checks[n].row = "query"
  /\ \/ Row(n, "failed")
     \/ ~IsNewer(latest, current) /\ Row(n, "skipped")
     \/ IsNewer(latest, current) /\ Row(n, "try")
  /\ UNCHANGED <<checkUnchanged, results>>

(* runLabUpdate: the lab notes the profile it was cloned from.             *)
TryCreates(n) ==
  /\ Runs(n) /\ checks[n].row = "try"
  /\ checks' = [checks EXCEPT ![n].row = "trying", ![n].lab = <<official, local>>]
  /\ UNCHANGED <<checkUnchanged, results>>

TryEnds(n) ==
  /\ Runs(n) /\ checks[n].row = "trying"
  /\ Row(n, "verified") \/ Row(n, "failed")
  /\ UNCHANGED <<checkUnchanged, results>>

Settled(n) == checks[n].row \in {"failed", "skipped", "verified"}

(* Mutant: the local source is not hashed again.                           *)
SaveUnlessProfile(n) ==
  /\ Runs(n) /\ Settled(n)
  /\ IF official = checks[n].profile
     THEN /\ results' = results \cup {[row |-> checks[n].row, lab |-> checks[n].lab]}
          /\ Row(n, "saved")
     ELSE Stops(n) /\ UNCHANGED results
  /\ UNCHANGED checkUnchanged

SaveResult(n) ==
  /\ Runs(n) /\ Settled(n)
  /\ IF official = checks[n].profile /\ local = 0
     THEN /\ results' = results \cup {[row |-> checks[n].row, lab |-> checks[n].lab]}
          /\ Row(n, "saved")
     ELSE Stops(n) /\ UNCHANGED results
  /\ UNCHANGED checkUnchanged

----------------------------------------------------------------------------
(* versionMatrix, of one version: a lab run by another host is marked as   *)
(* such before it runs. The run may fail at every step.                    *)
TrialStep ==
  /\ trial' \in
       CASE trial.at = "none" -> {[trial EXCEPT !.at = "installed"], [trial EXCEPT !.at = "failed"]}
         [] trial.at = "installed" -> {[trial EXCEPT !.at = "created"], [trial EXCEPT !.at = "failed"]}
         [] trial.at = "created" -> {[trial EXCEPT !.at = "marked", !.marked = TRUE], [trial EXCEPT !.at = "failed"]}
         [] trial.at = "marked" -> {[trial EXCEPT !.at = "ended", !.verified = ok] : ok \in BOOLEAN}
         [] OTHER -> {}
  /\ UNCHANGED <<clock, tickVars, checks, sourceVars, results>>

----------------------------------------------------------------------------
Hour ==
  /\ clock < MaxTime /\ clock' = clock + 1
  /\ UNCHANGED <<tickVars, checks, trial, sourceVars, results>>

EditSource ==
  /\ sourceEdits < MaxSourceEdits /\ sourceEdits' = sourceEdits + 1
  /\ \/ official' = sourceEdits + 1 /\ UNCHANGED local
     \/ local' = sourceEdits + 1 /\ UNCHANGED official
  /\ UNCHANGED <<clock, tickVars, checks, trial, current, latest, results>>

UpgradesNext ==
  \/ \E on \in BOOLEAN, h \in Hours : SetPolicy(on, h)
  \/ \E s \in Servers : TickReads(s) \/ TickSaves(s) \/ TickStarts(s) \/ ServerDies(s)
  \/ \E n \in DOMAIN checks :
       Analyse(n) \/ Query(n) \/ TryCreates(n) \/ TryEnds(n) \/ SaveResult(n)
  \/ TrialStep \/ Hour \/ EditSource

UpgradesSpec == UpgradesInit /\ [][UpgradesNext]_upgradesVars

----------------------------------------------------------------------------
Shortest == CHOOSE h \in Hours : \A g \in Hours : h <= g

(* Whatever number of servers tick, and wherever one of them dies, two     *)
(* checks are counted from times at least the shortest interval apart, and *)
(* none starts while the policy on disk is off.                            *)
CheckMayStart ==
  Len(checks') > Len(checks) =>
    /\ lastStart # Unset => Counted(policy') - lastStart >= Shortest
    /\ policy.enabled
ChecksApart == [][CheckMayStart]_upgradesVars

(* A result that is kept speaks of labs cloned from the stable point.      *)
ResultsAreOfTheBaseline ==
  \A r \in results : r.row = "verified" => r.lab = <<0, 0>>

(* No upgrade is offered there and back, and of two versions one is newer. *)
UpgradesAreUp ==
  /\ ~(IsNewer(latest, current) /\ IsNewer(current, latest))
  /\ current \notin {Unset, latest} => IsNewer(latest, current) \/ IsNewer(current, latest)

(* A lab verified by another host carries the mark that bars its promotion. *)
TrialsAreMarked == trial.verified => trial.marked

UpgradesSound == ResultsAreOfTheBaseline /\ UpgradesAreUp /\ TrialsAreMarked

=============================================================================
