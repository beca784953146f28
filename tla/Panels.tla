-------------------------------- MODULE Panels -------------------------------
(***************************************************************************)
(* The panels of the management page that ask, show an answer and let the  *)
(* user act on it: the comparison and the plugin list (workspace-tools),   *)
(* storage clean-up, merging, recovery, importing an environment, the      *)
(* records of an investigation and the orders of the updates and the       *)
(* deployment (research-panel), with the two hooks they share (async.ts):  *)
(* a query whose late answers are dropped, and a runner of one action.     *)
(*                                                                         *)
(* One panel is open at a time and its component is mounted anew when it   *)
(* is opened. The server answers in any order; an answer may be lost while *)
(* the action is carried out. What the server keeps is a revision that     *)
(* actions and other users move on, and one switch.                        *)
(***************************************************************************)
EXTENDS Naturals

CONSTANTS
  Points,       (* backups of a line                                       *)
  Plugins, Targets, Records, Files,
  MaxActions,   (* bound: the user's clicks that open, select or ask       *)
  MaxChanges,   (* bound: changes by other users                           *)
  None

VARIABLES
  world,        (* server: [rev, on]                                       *)
  changes,
  panel,        (* the panel on display                                    *)
  opens,        (* names the mounted component                             *)
  choice,       (* what is selected in it                                  *)
  version,      (* operationVersion with lifecycle.version; bundleVersion  *)
  load,         (* loadVersion of its query                                *)
  data,         (* the query's data                                        *)
  shown,        (* the answer on display: diff, plan, candidate, bundle    *)
  agreed,       (* the confirmation that is ticked, and (history) to what  *)
  error, busy,
  asks,         (* requests under way                                      *)
  actions,
  done,         (* history: the last request that was carried out          *)
  led           (* history: the request that last opened a job's panel     *)

formVars == <<choice, version, load, data, shown, agreed, error, busy>>
viewVars == <<panel, opens, formVars>>
panelsVars == <<world, changes, viewVars, asks, actions, done, led>>

Empty == [compare |-> <<None, "current">>,
          composition |-> None,
          storage |-> None,
          merge |-> [target |-> "origin", picked |-> {}, config |-> FALSE],
          recovery |-> None,
          transfer |-> None,
          records |-> None,
          orders |-> None]

Loading == DOMAIN Empty \ {"storage"}
Scoped == {"compare", "composition"}

----------------------------------------------------------------------------
(* Requests *)

Request(k, what, r) ==
  [kind |-> k, of |-> what, rev |-> r, panel |-> panel, opens |-> opens,
   version |-> version', load |-> load', seen |-> shown, base |-> data,
   agreed |-> agreed, answer |-> None, lost |-> FALSE]

Query(p, n) ==
  [kind |-> "load", of |-> None, rev |-> None, panel |-> p, opens |-> n,
   version |-> 0, load |-> load', seen |-> None, base |-> None,
   agreed |-> None, answer |-> None, lost |-> FALSE]

Read == {"load", "text", "compare", "preview", "prepare"}
Guarded == {"prepare", "apply", "commit", "answer"}   (* checked against a revision *)

Mounted(a) == panel = a.panel /\ opens = a.opens

(* The answer still belongs to what asked for it: a query's is aborted by  *)
(* the next one, the tools compare their versions, and the state of a      *)
(* component that is gone is not written                                   *)
CurrentUnversioned(a) ==
  Mounted(a) /\ (a.kind = "load" => a.load = load)

Current(a) ==
  /\ Mounted(a)
  /\ a.kind = "load" => a.load = load
  /\ (a.panel \in Scoped /\ a.kind # "load") \/ a.kind = "text" => a.version = version

Pending(a) == ~a.lost /\ a.kind \notin {"load", "text"}
IsLoading == \E a \in asks : a.kind = "load" /\ ~a.lost /\ Current(a)

Acting == actions < MaxActions /\ actions' = actions + 1

(* useActionRunner.run, and the tools' own busy flag *)
Send(k, what, r) ==
  /\ ~busy /\ Acting
  /\ asks' = asks \union {Request(k, what, r)}
  /\ busy' = TRUE /\ error' = FALSE
  /\ UNCHANGED <<world, changes, panel, opens, done, led>>

(* beginOperation *)
Begin == version' = version + 1

Rest == UNCHANGED <<world, changes, panel, opens, done, led>>
Quiet == Rest /\ UNCHANGED <<asks, actions>>

----------------------------------------------------------------------------
Init ==
  /\ world = [rev |-> 0, on |-> FALSE] /\ changes = 0
  /\ panel = "none" /\ opens = 0
  /\ choice = None /\ version = 0 /\ load = 0 /\ data = None
  /\ shown = None /\ agreed = None /\ error = FALSE /\ busy = FALSE
  /\ asks = {} /\ actions = 0 /\ done = None /\ led = None

Open(p) ==
  /\ Acting /\ panel # p
  /\ opens' = opens + 1 /\ panel' = p
  /\ choice' = Empty[p] /\ version' = 0 /\ load' = 1
  /\ data' = None /\ shown' = None /\ agreed' = None
  /\ error' = FALSE /\ busy' = FALSE
  /\ asks' = IF p \in Loading THEN asks \union {Query(p, opens + 1)} ELSE asks
  /\ UNCHANGED <<world, changes, done, led>>

(* closeDisabled while a merge is under way *)
Close ==
  /\ panel # "none" /\ ~(panel = "merge" /\ busy)
  /\ panel' = "none"
  /\ UNCHANGED <<world, changes, opens, formVars, asks, actions, done, led>>

(* useApiQuery: a new round of the effect *)
Reloads ==
  /\ load' = load + 1
  /\ asks' = asks \union {Query(panel, opens)}

Reload ==
  /\ panel \in {"recovery", "transfer", "records", "orders"}
  /\ ~busy /\ ~IsLoading /\ Acting
  /\ Reloads /\ error' = FALSE
  /\ UNCHANGED <<choice, version, data, shown, agreed, busy>> /\ Rest

----------------------------------------------------------------------------
(* WorkspaceTools: comparing two states of a line *)

Pick(side, v) ==
  /\ panel = "compare" /\ data # None /\ v # choice[side]
  /\ choice' = [choice EXCEPT ![side] = v]
  /\ Begin /\ Acting
  /\ shown' = None /\ error' = FALSE /\ busy' = FALSE
  /\ UNCHANGED <<load, data, agreed, asks>> /\ Rest

Compare ==
  /\ panel = "compare" /\ data # None
  /\ None \notin {choice[1], choice[2]} /\ choice[1] # choice[2]
  /\ Begin
  /\ UNCHANGED <<choice, load, data, shown, agreed>>
  /\ Send("compare", choice, None)

(* A plugin of the list is changed on a page of its own; leaving the page  *)
(* is possible at any time                                                 *)
Consider(p) ==
  /\ panel = "composition" /\ data # None /\ choice = None
  /\ choice' = p /\ Begin /\ Acting /\ busy' = FALSE
  /\ UNCHANGED <<load, data, shown, agreed, error, asks>> /\ Rest

Back ==
  /\ panel = "composition" /\ choice # None
  /\ choice' = None /\ Begin /\ busy' = FALSE /\ error' = FALSE
  /\ UNCHANGED <<load, data, shown, agreed>> /\ Quiet

Verify ==
  /\ panel = "composition" /\ choice # None
  /\ Begin
  /\ UNCHANGED <<choice, load, data, shown, agreed>>
  /\ Send("job", choice, None)

----------------------------------------------------------------------------
(* StoragePanel: a plan is shown before it is applied *)

Preview(k) ==
  /\ panel = "storage"
  /\ shown' = None /\ choice' = k
  /\ UNCHANGED <<version, load, data, agreed>>
  /\ Send("preview", k, None)

Apply ==
  /\ panel = "storage" /\ shown # None
  /\ UNCHANGED <<choice, version, load, data, shown, agreed>>
  /\ Send("apply", choice, shown.rev)

Cancel ==
  /\ panel = "storage" /\ shown # None
  /\ shown' = None
  /\ UNCHANGED <<choice, version, load, data, agreed, error, busy>> /\ Quiet

----------------------------------------------------------------------------
(* MergePanel *)

Target(t) ==
  /\ panel = "merge" /\ ~busy /\ shown = None /\ t # choice.target /\ Acting
  /\ choice' = [target |-> t, picked |-> {}, config |-> FALSE]
  /\ data' = None /\ error' = FALSE /\ Reloads
  /\ UNCHANGED <<version, shown, agreed, busy>> /\ Rest

Toggle(c) ==
  /\ panel = "merge" /\ ~busy /\ shown = None /\ data # None /\ Acting
  /\ choice' = c /\ shown' = None
  /\ UNCHANGED <<version, load, data, agreed, error, busy, asks>> /\ Rest

TogglePlugin(p) ==
  Toggle([choice EXCEPT !.picked = IF p \in @ THEN @ \ {p} ELSE @ \union {p}])

ToggleConfig == Toggle([choice EXCEPT !.config = ~@])

Prepare ==
  /\ panel = "merge" /\ data # None /\ shown = None
  /\ choice.picked # {} \/ choice.config
  /\ UNCHANGED <<choice, version, load, data, shown, agreed>>
  /\ Send("prepare", choice, data.rev)

Commit ==
  /\ panel = "merge" /\ shown # None /\ ~shown.committed
  /\ UNCHANGED <<choice, version, load, data, shown, agreed>>
  /\ Send("commit", shown.of, shown.rev)

(* Choosing again keeps the selection; after an error the preview is read  *)
(* again, which resets it                                                  *)
Reselect ==
  /\ panel = "merge" /\ ~busy /\ shown # None /\ ~shown.committed /\ ~error
  /\ shown' = None
  /\ UNCHANGED <<choice, version, load, data, agreed, error, busy>> /\ Quiet

Repreview ==
  /\ panel = "merge" /\ ~busy /\ error /\ Acting
  /\ choice' = [choice EXCEPT !.config = FALSE]
  /\ shown' = None /\ data' = None /\ error' = FALSE /\ Reloads
  /\ UNCHANGED <<version, agreed, busy>> /\ Rest

----------------------------------------------------------------------------
(* RecoveryPanel *)

SelectRecord(r) ==
  /\ panel = "recovery" /\ ~busy /\ data # None /\ Acting
  /\ choice' = r /\ agreed' = None /\ error' = FALSE
  /\ UNCHANGED <<version, load, data, shown, busy, asks>> /\ Rest

Confirm ==
  /\ panel = "recovery" /\ choice # None /\ agreed # None
  /\ UNCHANGED <<choice, version, load, data, shown, agreed>>
  /\ Send("recover", choice, None)

----------------------------------------------------------------------------
(* ResearchPanel *)

Subject == IF panel = "recovery" THEN choice ELSE shown

(* The boxes stay enabled while something is under way *)
Tick ==
  /\ panel \in {"recovery", "transfer", "orders"}
  /\ panel = "recovery" => choice # None
  /\ agreed' = IF agreed = None THEN [to |-> Subject] ELSE None
  /\ UNCHANGED <<choice, version, load, data, shown, error, busy>> /\ Quiet

(* A file is chosen (it may be too large) and its text read *)
ChooseFile(f) ==
  /\ panel = "transfer" /\ f # choice /\ Acting
  /\ choice' = f /\ Begin
  /\ agreed' = None /\ shown' = None
  /\ UNCHANGED <<load, data, busy>>
  /\ \/ error' = FALSE /\ asks' = asks \union {Request("text", f, None)}
     \/ error' = TRUE /\ UNCHANGED asks
  /\ Rest

Import ==
  /\ panel = "transfer" /\ agreed # None /\ shown # None
  /\ UNCHANGED <<choice, version, load, data, shown, agreed>>
  /\ Send("job", shown.of, None)

(* A verdict on the step that is on display, or the next step as a job *)
Answer ==
  /\ panel = "records" /\ data # None
  /\ UNCHANGED <<choice, version, load, data, shown, agreed>>
  /\ Send("answer", "verdict", data.rev)

RunStep ==
  /\ panel = "records" /\ data # None
  /\ UNCHANGED <<choice, version, load, data, shown, agreed>>
  /\ Send("job", "step", None)

(* A new investigation needs no answer of the query, and shows it again    *)
Diagnose ==
  /\ panel = "records"
  /\ UNCHANGED <<choice, version, load, data, shown, agreed>>
  /\ Send("order", None, None)

(* The orders: a confirmation serves them all. Checks and a deployment's   *)
(* preparation are jobs, the choice of a deployment is carried out at once *)
Order(k) ==
  /\ panel = "orders" /\ data # None /\ agreed # None
  /\ UNCHANGED <<choice, version, load, data, shown, agreed>>
  /\ Send(k, None, None)

Check == Order("job")

Activate == Order("order")

(* Enabling or disabling: the opposite of what is on display *)
Switch ==
  /\ panel = "orders" /\ data # None /\ agreed # None
  /\ UNCHANGED <<choice, version, load, data, shown, agreed>>
  /\ Send("switch", ~data.on, None)

----------------------------------------------------------------------------
(* The server *)

Refused(a) == a.kind \in Guarded /\ a.rev # world.rev

Moved(a) ==
  IF a.kind = "switch" THEN [world EXCEPT !.on = a.of] ELSE [world EXCEPT !.rev = @ + 1]

(* A request whose caller is gone is answered to nobody *)
Answered(a, r) ==
  asks' = (asks \ {a}) \union (IF a.lost THEN {} ELSE {[a EXCEPT !.answer = r]})

Serve(a) ==
  /\ a.answer = None
  /\ IF Refused(a)
     THEN Answered(a, [ok |-> FALSE]) /\ UNCHANGED <<world, done>>
     ELSE /\ Answered(a, [ok |-> TRUE, rev |-> world.rev, on |-> world.on])
          /\ IF a.kind \in Read
             THEN UNCHANGED <<world, done>>
             ELSE /\ world' = Moved(a)
                  /\ done' = [request |-> a, rev |-> world.rev]
  /\ UNCHANGED <<changes, viewVars, actions, led>>

Change ==
  /\ changes < MaxChanges /\ changes' = changes + 1
  /\ \/ world' = [world EXCEPT !.rev = @ + 1]
     \/ world' = [world EXCEPT !.on = ~@]
  /\ UNCHANGED <<viewVars, asks, actions, done, led>>

----------------------------------------------------------------------------
(* Answers *)

Drop(a) ==
  /\ asks' = asks \ {a}
  /\ UNCHANGED <<viewVars, led>>

Loaded(a) ==
  /\ data' = [rev |-> a.answer.rev, on |-> a.answer.on]
  /\ \E p \in Points :
       choice' = CASE panel = "compare" -> <<p, "current">>
                   [] panel = "merge" -> [choice EXCEPT !.picked = Plugins]
                   [] OTHER -> choice
  /\ asks' = asks \ {a}
  /\ UNCHANGED <<panel, opens, version, load, shown, agreed, error, busy, led>>

(* The text replaces the bundle and takes the confirmation back *)
TextShown(a) ==
  /\ shown' = [of |-> a.of, rev |-> 0, committed |-> FALSE] /\ agreed' = None
  /\ asks' = asks \ {a}
  /\ UNCHANGED <<panel, opens, choice, version, load, data, error, busy, led>>

Shows(a) ==
  /\ shown' = [of |-> a.of, rev |-> a.answer.rev, committed |-> a.kind = "commit"]
  /\ busy' = FALSE /\ asks' = asks \ {a}
  /\ UNCHANGED <<panel, opens, choice, version, load, data, agreed, error, led>>

Applied(a) ==
  /\ shown' = None /\ busy' = FALSE /\ asks' = asks \ {a}
  /\ UNCHANGED <<panel, opens, choice, version, load, data, agreed, error, led>>

(* onJob: the panel of the job takes the place of this one *)
Follow(a) ==
  /\ panel' = "job" /\ asks' = asks \ {a}
  /\ led' = [from |-> a, at |-> opens, over |-> choice]
  /\ UNCHANGED <<opens, formVars>>

(* reload; the recovery panel also forgets its record *)
Again(a) ==
  /\ load' = load + 1 /\ busy' = FALSE /\ error' = FALSE
  /\ choice' = Empty[panel]
  /\ agreed' = IF panel = "recovery" THEN None ELSE agreed
  /\ asks' = (asks \ {a}) \union {Query(panel, opens)}
  /\ UNCHANGED <<panel, opens, version, data, shown, led>>

(* catch, finally *)
Fails(a) ==
  /\ error' = TRUE /\ asks' = asks \ {a}
  /\ busy' = IF a.kind \in {"load", "text"} THEN busy ELSE FALSE
  /\ UNCHANGED <<panel, opens, choice, version, load, data, shown, agreed, led>>

Arrive(a) ==
  /\ a.answer # None
  /\ CASE ~Current(a) -> Drop(a)
       [] Current(a) /\ ~a.answer.ok -> Fails(a)
       [] Current(a) /\ a.answer.ok ->
            CASE a.kind = "load" -> Loaded(a)
              [] a.kind = "text" -> TextShown(a)
              [] a.kind \in {"compare", "preview", "prepare", "commit"} -> Shows(a)
              [] a.kind = "apply" -> Applied(a)
              [] a.kind = "job" -> Follow(a)
              [] a.kind \in {"recover", "answer", "switch", "order"} -> Again(a)
  /\ UNCHANGED <<world, changes, actions, done>>

(* The connection breaks, or the preview of a merge takes too long: the    *)
(* server may carry the request out all the same                           *)
Lose(a) ==
  /\ ~a.lost /\ a.answer = None
  /\ LET gone == [a EXCEPT !.lost = TRUE]
     IN /\ asks' = (asks \ {a}) \union (IF a.kind \in Read THEN {} ELSE {gone})
        /\ IF ~Current(a) THEN UNCHANGED <<viewVars, led>>
           ELSE /\ error' = TRUE
                /\ busy' = IF a.kind \in {"load", "text"} THEN busy ELSE FALSE
                /\ UNCHANGED <<panel, opens, choice, version, load, data, shown, agreed, led>>
  /\ UNCHANGED <<world, changes, actions, done>>

Next ==
  \/ \E p \in DOMAIN Empty : Open(p)
  \/ Close \/ Reload
  \/ \E side \in {1, 2}, v \in Points \union {"current"} : Pick(side, v)
  \/ Compare \/ Back \/ Verify
  \/ \E p \in Plugins : Consider(p) \/ TogglePlugin(p)
  \/ \E k \in {"prune", "gc"} : Preview(k)
  \/ Apply \/ Cancel
  \/ \E t \in Targets : Target(t)
  \/ ToggleConfig \/ Prepare \/ Commit \/ Reselect \/ Repreview
  \/ \E r \in Records : SelectRecord(r)
  \/ Confirm \/ Tick
  \/ \E f \in Files : ChooseFile(f)
  \/ Import \/ Answer \/ RunStep \/ Diagnose \/ Check \/ Activate \/ Switch
  \/ Change
  \/ \E a \in asks : Serve(a) \/ Arrive(a) \/ Lose(a)

Spec == Init /\ [][Next]_panelsVars

----------------------------------------------------------------------------
(* An answer on display belongs to what is selected: the comparison of two *)
(* states, the plan of a clean-up, the candidate of a merge, the text of   *)
(* the chosen file. Answers come late, over a changed selection, another   *)
(* panel, or the same panel opened again.                                  *)
ShownIsChosen ==
  panel \in DOMAIN Empty /\ shown # None => shown.of = choice

(* What was confirmed is what is on display now: the text of a file that   *)
(* arrives after the box was ticked takes the tick back.                   *)
ConsentIsInformed ==
  panel \in {"recovery", "transfer"} /\ agreed # None => agreed.to = Subject

(* The buttons are disabled exactly while an action of the present scope   *)
(* is under way: a flag left behind would disable them for good, one reset *)
(* too early would start a second action.                                  *)
BusyIsAsked ==
  panel \in DOMAIN Empty => (busy <=> \E a \in asks : Pending(a) /\ Current(a))

(* What the server carried out is what the user had on display: the plan   *)
(* or the candidate of that selection as it still was, the switch turned   *)
(* away from what was shown, never an import or a recovery unconfirmed.    *)
DoneAsShown ==
  done # None =>
    LET a == done.request
    IN /\ a.kind \in {"apply", "commit"} =>
            a.seen # None /\ a.seen.of = a.of /\ a.seen.rev = done.rev
       /\ a.kind = "answer" => a.base.rev = done.rev
       /\ a.kind = "switch" => a.of = ~a.base.on
       /\ a.kind = "recover" => a.agreed # None /\ a.agreed.to = a.of
       /\ a.kind = "job" /\ a.panel = "transfer" => a.agreed.to = a.seen /\ a.seen.of = a.of

(* Only the panel and the selection that started a job give way to the     *)
(* panel of the job: nobody is taken away from something else by a late    *)
(* answer.                                                                 *)
LedFromHere ==
  led # None => led.from.opens = led.at /\ (led.from.panel = "composition" => led.from.of = led.over)

PanelsSound ==
  ShownIsChosen /\ ConsentIsInformed /\ BusyIsAsked /\ DoneAsShown /\ LedFromHere

==============================================================================
