----------------------------- MODULE Verification ------------------------------
(***************************************************************************)
(* The verification of one experiment: the stages of a run (lab/run.ts),   *)
(* the browser that looks for the core shell (lab/browser.ts), the verdict *)
(* (domain/probe.ts), the manifest and probe.json it leaves, what of the   *)
(* browser's traces is kept (lab/artifacts.ts), and the gate at which a    *)
(* promotion asks for that evidence (lab/promote.ts).  What the promotion  *)
(* does behind its gate is in Promotion, who may run when in Lab.          *)
(***************************************************************************)
EXTENDS Naturals, Sequences

CONSTANTS
  MaxRuns,      (* runs of the experiment                                  *)
  MaxChanges,   (* edits of the experiment, of its source, host upgrades   *)
  MaxKills,     (* deaths of the process                                   *)
  Samples,      (* looks at the shell while it has to stay, 5 in the code  *)
  Windows,      (* result windows at a time, 3 in the code                 *)
  Kept,         (* captures kept, 30 in the code                           *)
  Missing       (* of a record that is not there                          *)

VARIABLES
  candidate,    (* what the experiment's profile holds, a number           *)
  origin,       (* how often its source was edited since                   *)
  version,      (* of the host                                             *)
  plan,         (* "plugin", "config" or "none"                            *)
  labManifest,  (* manifest.json: state and runCount, Missing when removed *)
  evidence,     (* probe.json                                              *)
  run,          (* the run under way                                       *)
  browser, host,(* what it has started                                     *)
  windows,      (* the browsers kept open to show a result, oldest first   *)
  captures,     (* browser-artifacts: newest first, which run and how old  *)
  partial,      (* directories there without an index                      *)
  promoted,     (* the content and evidence that passed the gate last      *)
  changes, kills,
  proved        (* contents that a run proved, on which host: not in code  *)

verificationVars == <<candidate, origin, version, plan, labManifest, evidence, run, browser,
                      host, windows, captures, partial, promoted, changes, kills, proved>>

ASSUME VerificationAssumption ==
  /\ MaxRuns \in Nat /\ MaxKills \in Nat /\ MaxChanges \in Nat
  /\ Samples \in Nat \ {0} /\ Windows \in Nat \ {0} /\ Kept \in Nat \ {0}

Checks == {"install", "compose", "host-boot", "http-ready", "browser-boot",
           "plugin-function", "client-observations"}
Optional == {"plugin-function", "client-observations"}
Nothing == [c \in Checks |-> "none"]
NoRun == [at |-> "none", verify |-> FALSE, client |-> FALSE, watched |-> FALSE,
          keep |-> TRUE, results |-> Nothing, stayed |-> 0, ready |-> FALSE, on |-> 0]

VerificationInit ==
  /\ candidate = 0 /\ origin = 0 /\ version = 0
  /\ plan \in {"plugin", "config", "none"}
  /\ labManifest = [state |-> "created", runs |-> 0]
  /\ evidence = Missing /\ run = NoRun
  /\ browser = "none" /\ host = "down" /\ windows = <<>>
  /\ captures = <<>> /\ partial = 0
  /\ promoted = Missing /\ changes = 0 /\ kills = 0 /\ proved = {}

RunAt(at) == run.at = at
Failed(results) == \E c \in Checks : results[c] = "fail"

(* summarizeProbes: every required check that was recorded has passed *)
Ok(results) == \A c \in Checks \ Optional : results[c] \in {"none", "pass"}

(* classifyClientGate, of evidence with a plugin-function row *)
Gate(results) ==
  IF \E c \in Checks \ Optional : results[c] = "fail" THEN "fail"
  ELSE IF results["browser-boot"] # "none" /\ Ok(results) THEN "pass" ELSE "inconclusive"

Stage(at, results) == run' = [run EXCEPT !.at = at, !.results = results]
Recorded(c, status) == [run.results EXCEPT ![c] = status]
(* A stage that follows failures is not entered *)
Follow(at, results) == Stage(IF Failed(results) THEN "stop" ELSE at, results)

content == <<candidate, origin, version, plan>>
records == <<labManifest, evidence>>
traces == <<captures, partial>>
ghosts == <<promoted, changes, kills, proved>>

----------------------------------------------------------------------------
(* The run *)

Started(verify, client, watched, keep) ==
  [NoRun EXCEPT !.at = IF verify THEN "compose" ELSE "install",
                !.verify = verify, !.client = client, !.watched = watched, !.keep = keep,
                !.results = [Nothing EXCEPT
                  !["install"] = IF verify /\ plan = "plugin" THEN "pass" ELSE "none"],
                !.on = version]

(* runLabVerify rechecks what is installed and is kept; the runs of         *)
(* add, update, remove, config-apply and restore install, and are removed  *)
(* when they pass unless they are to be kept.                              *)
Begin ==
  /\ RunAt("none") /\ labManifest # Missing /\ labManifest.runs < MaxRuns
  /\ labManifest.state # "applying"
  /\ \E verify, client, watched, keep \in BOOLEAN :
       /\ verify => keep /\ client
       /\ watched => client
       /\ verify /\ plan = "plugin" =>
            evidence # Missing /\ evidence.results["install"] = "pass"
       /\ run' = Started(verify, client, watched, keep)
  /\ labManifest' = [state |-> "applying", runs |-> labManifest.runs + 1]
  /\ UNCHANGED <<content, evidence, browser, host, windows, traces, ghosts>>

(* the plan's steps; they change the experiment whether they end well or not *)
InstallPlan ==
  /\ RunAt("install")
  /\ \E status \in {"pass", "fail"} :
       Follow("compose", IF plan = "config" THEN run.results ELSE Recorded("install", status))
  /\ candidate' = IF plan = "plugin" THEN candidate + 1 ELSE candidate
  /\ UNCHANGED <<origin, version, plan, records, browser, host, windows, traces, ghosts>>

Compose ==
  /\ RunAt("compose")
  /\ \E status \in {"pass", "fail", "inconclusive"} : Follow("boot", Recorded("compose", status))
  /\ UNCHANGED <<content, records, browser, host, windows, traces, ghosts>>

(* the patch of a config-apply is gone, or no pnpm: the error leaves the    *)
(* manifest at applying                                                    *)
Throw ==
  /\ (RunAt("compose") /\ plan = "config") \/ (RunAt("install") /\ plan = "plugin")
  /\ run' = NoRun
  /\ UNCHANGED <<content, records, browser, host, windows, traces, ghosts>>

BootHost ==
  /\ RunAt("boot")
  /\ \/ /\ Stage("stop", Recorded("host-boot", "fail")) /\ UNCHANGED host
     \/ /\ \E status \in {"pass", "fail"} :
             LET results == [Recorded("http-ready", status) EXCEPT !["host-boot"] = "pass"]
             IN Stage(IF run.client /\ ~Failed(results) THEN "launch" ELSE "stop", results)
        /\ host' = "up"
  /\ UNCHANGED <<content, records, browser, windows, traces, ghosts>>

----------------------------------------------------------------------------
(* The browser.  What the page shows is seen once per look.                *)

Shows == {"nothing", "shell", "login", "failed"}

Verdicts(status) ==
  [Recorded("browser-boot", status) EXCEPT
     !["plugin-function"] = "skip", !["client-observations"] = "warn"]

(* the classification, before the browser is closed *)
Classify(status) ==
  /\ Stage("close", Verdicts(status))
  /\ UNCHANGED <<content, records, browser, host, windows, traces, ghosts>>

(* no browser, or one with its context and a directory for what it sees *)
Launch ==
  /\ RunAt("launch")
  /\ \/ /\ Stage("stop", Verdicts("inconclusive")) /\ UNCHANGED <<browser, partial>>
     \/ /\ Stage("look", run.results) /\ browser' = "open" /\ partial' = partial + 1
  /\ UNCHANGED <<content, records, host, windows, captures, ghosts>>

(* a look until the shell is there or the time is up *)
Look ==
  /\ RunAt("look")
  /\ \E shows \in Shows :
       \/ shows = "failed" /\ Classify("fail")
       \/ shows = "login" /\ ~run.watched /\ Classify("inconclusive")
       \/ /\ shows = "shell"
          /\ run' = [run EXCEPT !.at = "settle"]
          /\ UNCHANGED <<content, records, browser, host, windows, traces, ghosts>>
(* the time is up, or a call of the browser throws *)
GiveUp == (RunAt("look") \/ RunAt("settle")) /\ Classify("inconclusive")

(* the shell has to stay for a few looks more; what is proved is noted      *)
Settle ==
  /\ RunAt("settle")
  /\ \E shows \in Shows :
       \/ shows \in {"nothing", "failed"} /\ Classify("fail")
       \/ shows = "login" /\ Classify("inconclusive")
       \/ /\ shows = "shell" /\ run.stayed + 1 < Samples
          /\ run' = [run EXCEPT !.stayed = @ + 1]
          /\ UNCHANGED <<content, records, browser, host, windows, traces, ghosts>>
       \/ /\ shows = "shell" /\ run.stayed + 1 = Samples
          /\ run' = [run EXCEPT !.at = "close", !.results = Verdicts("pass"), !.ready = TRUE]
          /\ proved' = IF Ok(Verdicts("pass"))
                         THEN proved \union {[content |-> candidate, on |-> version]} ELSE proved
          /\ UNCHANGED <<content, records, browser, host, windows, traces, promoted, changes,
                         kills>>

(* artifactCleanup: the newest stays, of the others the recent ones. The    *)
(* filter is a function, which the proofs can unfold.                      *)
Stays(rows, i) == i = 1 \/ (i <= Kept /\ ~rows[i].old)
Tidied(rows) ==
  LET kept[n \in 0..Len(rows)] ==
        IF n = 0 THEN <<>>
        ELSE IF Stays(rows, n) THEN Append(kept[n - 1], rows[n]) ELSE kept[n - 1]
  IN kept[Len(rows)]

(* what was captured of a success is removed, else it gets its index;       *)
(* then a browser that somebody watched is kept, the oldest one is not     *)
Close ==
  /\ RunAt("close")
  /\ partial' = partial - 1
  /\ captures' = Tidied(IF run.ready THEN captures
                        ELSE <<[run |-> labManifest.runs, old |-> FALSE]>> \o captures)
  /\ browser' = "none"
  /\ \/ UNCHANGED windows
     \/ /\ run.watched
        /\ windows' = IF Len(windows) < Windows THEN Append(windows, labManifest.runs)
                      ELSE Append(Tail(windows), labManifest.runs)
  /\ Stage("stop", run.results)
  /\ UNCHANGED <<content, records, host, ghosts>>

----------------------------------------------------------------------------
(* The end: the host is stopped whatever happened; an experiment that      *)
(* survives gets its manifest, and then its evidence.                      *)
StopHost ==
  /\ RunAt("stop") /\ host' = "down" /\ Stage("judged", run.results)
  /\ UNCHANGED <<content, records, browser, windows, traces, ghosts>>

SaveManifest ==
  /\ RunAt("judged")
  /\ ~Ok(run.results) \/ run.keep
  /\ labManifest' = [labManifest EXCEPT !.state = IF Ok(run.results) THEN "passed" ELSE "failed"]
  /\ Stage("saved", run.results)
  /\ UNCHANGED <<content, evidence, browser, host, windows, traces, ghosts>>
SaveEvidence ==
  /\ RunAt("saved")
  /\ evidence' = [run |-> labManifest.runs, receipt |-> candidate, on |-> run.on,
                  results |-> run.results]
  /\ run' = NoRun
  /\ UNCHANGED <<content, labManifest, browser, host, windows, traces, ghosts>>
RemovePassed ==
  /\ RunAt("judged") /\ Ok(run.results) /\ ~run.keep
  /\ labManifest' = Missing /\ evidence' = Missing /\ captures' = <<>> /\ partial' = 0
  /\ run' = NoRun
  /\ UNCHANGED <<content, browser, host, windows, ghosts>>

(* The process dies: the host it started may go on, the browsers end with  *)
(* the process.                                                            *)
KillRun ==
  /\ ~RunAt("none") /\ kills < MaxKills /\ kills' = kills + 1
  /\ run' = NoRun /\ browser' = "none" /\ windows' = <<>>
  /\ UNCHANGED <<content, records, host, traces, promoted, changes, proved>>

RunStep ==
  \/ InstallPlan \/ Compose \/ Throw \/ BootHost \/ Launch \/ Look \/ GiveUp \/ Settle \/ Close
  \/ StopHost \/ SaveManifest \/ SaveEvidence \/ RemovePassed

----------------------------------------------------------------------------
(* Meanwhile *)

(* the timer of a window, its user, or the page's plugin that is disposed *)
WindowEnds ==
  /\ windows # <<>>
  /\ \E i \in DOMAIN windows :
       windows' = [k \in 1..Len(windows) - 1 |-> IF k < i THEN windows[k] ELSE windows[k + 1]]
  /\ UNCHANGED <<content, records, run, browser, host, traces, ghosts>>
WindowsClose ==
  /\ windows # <<>> /\ windows' = <<>>
  /\ UNCHANGED <<content, records, run, browser, host, traces, ghosts>>

Changes ==
  /\ changes < MaxChanges /\ changes' = changes + 1
  /\ \/ /\ RunAt("none") /\ candidate' = candidate + 1 /\ UNCHANGED <<origin, version, captures>>
     \/ /\ origin' = origin + 1 /\ UNCHANGED <<candidate, version, captures>>
     \/ /\ version' = version + 1 /\ UNCHANGED <<candidate, origin, captures>>
     \/ /\ captures # <<>>
        /\ captures' = [i \in DOMAIN captures |-> [captures[i] EXCEPT !.old = TRUE]]
        /\ UNCHANGED <<candidate, origin, version>>
  /\ UNCHANGED <<plan, records, run, browser, host, windows, partial, promoted, kills, proved>>

(* Mutant: whatever host the evidence is of.                                *)
AgreesByReceipt(e) == e.receipt = candidate

(* The gate of a promotion: nobody runs, the evidence is whole and of what  *)
(* is there now, on this host, and the source is the one that was copied.   *)
(* Evidence that a person may accept (an observation of unknown impact)    *)
(* comes from older records alone: a run records observations as warnings. *)
Agrees(e) == e.receipt = candidate /\ e.on = version
PassGate ==
  /\ RunAt("none") /\ labManifest # Missing /\ labManifest.state = "passed"
  /\ evidence # Missing /\ evidence.results["plugin-function"] # "none"
  /\ Agrees(evidence)
  /\ Gate(evidence.results) = "pass"
  /\ origin = 0
  /\ promoted' = [content |-> candidate, on |-> version, run |-> evidence.run]
  /\ UNCHANGED <<content, records, run, browser, host, windows, traces, changes, kills, proved>>

VerificationNext ==
  Begin \/ RunStep \/ KillRun \/ WindowEnds \/ WindowsClose \/ Changes \/ PassGate

VerificationSpec == VerificationInit /\ [][VerificationNext]_verificationVars

----------------------------------------------------------------------------
(* verification-standard: what passes the gate is what a run has seen work *)
(* on this host, although runs die between manifest and evidence, and the  *)
(* experiment, its source and the host change between runs.                *)
PromotesProved ==
  promoted # Missing => [content |-> promoted.content, on |-> promoted.on] \in proved

(* A manifest and evidence of the same run agree, and a run that passed    *)
(* went through every stage it was asked for.                              *)
RecordsAgree ==
  labManifest # Missing /\ evidence # Missing /\ evidence.run = labManifest.runs /\ RunAt("none") =>
    /\ labManifest.state = (IF Ok(evidence.results) THEN "passed" ELSE "failed")
    /\ Ok(evidence.results) =>
         /\ {"compose", "host-boot", "http-ready"} \subseteq
              {c \in Checks : evidence.results[c] = "pass"}
         /\ plan = "plugin" => evidence.results["install"] = "pass"

(* Nothing that a run started is left behind, but the windows it may keep. *)
NothingLeft ==
  /\ RunAt("none") => (host = "down" \/ kills > 0) /\ browser = "none"
  /\ Len(windows) <= Windows
  /\ RunAt("stop") => browser = "none"

(* The capture of the last run that did not succeed stays, and captures    *)
(* without an index are those of runs that were killed.                    *)
CapturesKept ==
  /\ Len(captures) <= Kept
  /\ \A i, j \in DOMAIN captures : i < j => captures[i].run > captures[j].run
  /\ labManifest # Missing /\ RunAt("stop") /\ ~run.ready /\ run.results["browser-boot"] = "fail"
       => captures # <<>> /\ captures[1].run = labManifest.runs
  /\ partial <= kills + 1
  /\ RunAt("none") => partial <= kills

(* What is promoted was proved, records and captures agree with the runs,  *)
(* and no run leaves anything behind.                                      *)
VerificationSound == PromotesProved /\ RecordsAgree /\ NothingLeft /\ CapturesKept

=============================================================================
