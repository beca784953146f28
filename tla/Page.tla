--------------------------------- MODULE Page --------------------------------
(***************************************************************************)
(* The management page in one browser tab (client/index.tsx): the POSTs it *)
(* makes and repeats, the flag that pauses its refreshes, its panels       *)
(* (panels.ts), and the panels that start a job of the server and follow   *)
(* it (lab-flow.tsx, maintenance.tsx) by its own polls (useJob) and the    *)
(* feed that all views share (job-feed.ts).                                *)
(*                                                                         *)
(* What the canvas shows is Canvas; merging and the tools are panels       *)
(* without state here.                                                     *)
(***************************************************************************)
EXTENDS Naturals, Sequences, FiniteSets

CONSTANTS
  Jobs,
  Calls,        (* bound: performs in flight at a time                     *)
  MaxIds,       (* bound: request ids made for the action                  *)
  MaxTrail,     (* bound: panels one can go back to (30 in the code)       *)
  None

VARIABLES
  job,          (* server: the record of each job                          *)
  carried,      (* server: the requests that ran (web/idempotency.ts)      *)
  given,        (* the request ids made for the action                     *)
  key,          (* requestKeys: the id kept for the action's body          *)
  calls,        (* what perform awaits, and the id it sent                 *)
  operation, busy,
  panel, trail, (* usePanels: current and history                          *)
  panelJob,
  shown,        (* useJob of the panel: its job, the status on display,    *)
                (* whether onSettled was called for it, and its poll       *)
  asked,        (* POSTs that start a job: who made them                   *)
  feed,         (* records, as of the last notification                    *)
  connected,    (* the event stream is open                                *)
  list,         (* the feed's own poll: an answer under way                *)
  heard,        (* history: the requests the page knows the answer of      *)
  reports       (* history: of the job on display, the calls of onSettled  *)

postVars == <<carried, given, key, calls, heard>>
flagVars == <<operation, busy>>
panelVars == <<panel, trail, panelJob>>
viewVars == <<shown, reports>>
feedVars == <<feed, connected, list>>
pageVars == <<job, postVars, flagVars, panelVars, viewVars, asked, feedVars>>

Statuses == <<"none", "queued", "running", "settled">>
Rank(s) == CHOOSE i \in 1..4 : Statuses[i] = s
Ended(s) == s \notin {"queued", "running"}
Follows == {"lab", "maintenance"}   (* the panels with a useJob *)
Nobody == [by |-> "nobody", here |-> FALSE]
NoView == [job |-> None, status |-> "unknown", told |-> FALSE, poll |-> "idle"]

Init ==
  /\ job = [j \in Jobs |-> "none"]
  /\ carried = {} /\ given = 0 /\ key = None /\ heard = {}
  /\ calls = [c \in Calls |-> [at |-> "idle", id |-> None]]
  /\ operation = FALSE /\ busy = FALSE
  /\ panel = "none" /\ trail = <<>> /\ panelJob = None
  /\ shown = NoView /\ reports = 0
  /\ asked = [j \in Jobs |-> Nobody]
  /\ feed = job /\ connected = FALSE /\ list = None

----------------------------------------------------------------------------
(* api: the id of a body is kept until a POST of it gets an answer *)

Forget == key' = None

(* A form that forgets in any case *)
KeptNot == key' = None

Kept == UNCHANGED key

(* perform: one at a time, as far as the flag tells *)
Perform(c) ==
  /\ ~operation /\ calls[c].at = "idle"
  /\ operation' = TRUE /\ busy' = TRUE
  /\ IF key # None
     THEN /\ calls' = [calls EXCEPT ![c] = [at |-> "sent", id |-> key]]
          /\ UNCHANGED <<key, given>>
     ELSE /\ given < MaxIds /\ given' = given + 1
          /\ calls' = [calls EXCEPT ![c] = [at |-> "sent", id |-> given']]
          /\ key' = given'
  /\ UNCHANGED <<job, carried, heard, panelVars, viewVars, asked, feedVars>>

(* idempotent: an id that ran is answered with its result *)
Carry(c) ==
  /\ calls[c].at = "sent"
  /\ calls' = [calls EXCEPT ![c].at = "answered"]
  /\ carried' = carried \cup {calls[c].id}
  /\ UNCHANGED <<job, given, key, heard, flagVars, panelVars, viewVars, asked, feedVars>>

Finally(c) ==
  /\ calls' = [calls EXCEPT ![c] = [at |-> "idle", id |-> None]]
  /\ operation' = FALSE /\ busy' = FALSE

(* The answer, after which perform awaits a refresh *)
Answered(c) ==
  /\ calls[c].at = "answered"
  /\ heard' = heard \cup {calls[c].id}
  /\ Forget
  /\ calls' = [calls EXCEPT ![c].at = "refreshing"]
  /\ UNCHANGED <<job, carried, given, flagVars, panelVars, viewVars, asked, feedVars>>

Refreshed(c) ==
  /\ calls[c].at = "refreshing"
  /\ Finally(c)
  /\ UNCHANGED <<job, carried, given, key, heard, panelVars, viewVars, asked, feedVars>>

(* The connection breaks before or after the server ran it: fetch throws *)
Broken(c) ==
  /\ calls[c].at \in {"sent", "answered"}
  /\ Finally(c)
  /\ Kept
  /\ UNCHANGED <<job, carried, given, heard, panelVars, viewVars, asked, feedVars>>

----------------------------------------------------------------------------
(* useJob.  A view of job j begins: what the feed has of it is reported at *)
(* once, and a first poll is sent.                                         *)

View(j) ==
  LET told == j # None /\ feed[j] # "none" /\ Ended(feed[j]) IN
  /\ shown' = IF j = None THEN NoView
              ELSE [job |-> j, status |-> "unknown", told |-> told, poll |-> "asking"]
  /\ reports' = IF told THEN 1 ELSE 0

(* onBusy(false) and onSettled of the panels *)
Resume == operation' = FALSE

(* A status arrives at the view, by the feed or by a poll *)
Shows(status, poll) ==
  LET tells == Ended(status) /\ ~shown.told IN
  /\ shown' = [shown EXCEPT !.status = status, !.told = @ \/ tells, !.poll = poll]
  /\ reports' = IF tells THEN reports + 1 ELSE reports
  /\ IF tells THEN Resume ELSE UNCHANGED operation

(* The server answers the poll with what the record says now *)
PollTaken ==
  /\ shown.poll = "asking"
  /\ shown' = [shown EXCEPT !.poll = job[shown.job]]
  /\ UNCHANGED <<job, postVars, flagVars, panelVars, reports, asked, feedVars>>

PollArrives ==
  /\ shown.poll \in {"queued", "running", "settled"}
  /\ Shows(shown.poll, IF Ended(shown.poll) THEN "ended" ELSE "waiting")
  /\ UNCHANGED <<job, postVars, busy, panelVars, asked, feedVars>>

(* The connection breaks, or five seconds pass; no poll while the feed is  *)
(* connected                                                               *)
PollFails ==
  /\ shown.poll \notin {"idle", "waiting", "ended", "restoring"}
  /\ shown' = [shown EXCEPT !.poll = "waiting"]
  /\ UNCHANGED <<job, postVars, flagVars, panelVars, reports, asked, feedVars>>

PollAgain ==
  /\ shown.poll = "waiting" /\ ~connected
  /\ shown' = [shown EXCEPT !.poll = "asking"]
  /\ UNCHANGED <<job, postVars, flagVars, panelVars, reports, asked, feedVars>>

----------------------------------------------------------------------------
(* The shared feed *)

(* notify: every view looks for its job in the records *)
Notify(records) ==
  /\ feed' = records
  /\ IF shown.job # None /\ records[shown.job] # "none"
     THEN Shows(records[shown.job], shown.poll)
     ELSE UNCHANGED <<viewVars, operation>>

(* An event holds all records as they were when it was written; the        *)
(* stream keeps its order                                                  *)
StreamArrives ==
  /\ connected
  /\ \E records \in [Jobs -> {"none", "queued", "running", "settled"}] :
       /\ records # feed
       /\ \A j \in Jobs : Rank(feed[j]) <= Rank(records[j]) /\ Rank(records[j]) <= Rank(job[j])
       /\ Notify(records)
  /\ UNCHANGED <<job, postVars, busy, panelVars, asked, connected, list>>

(* A new stream begins with the records of now *)
StreamOpens ==
  /\ ~connected /\ connected' = TRUE
  /\ Notify(job)
  /\ UNCHANGED <<job, postVars, busy, panelVars, asked, list>>

StreamBreaks ==
  /\ connected /\ connected' = FALSE
  /\ UNCHANGED <<job, postVars, flagVars, panelVars, viewVars, asked, feed, list>>

(* start, poll: asks for the list every ten seconds without a stream *)
ListTaken ==
  /\ ~connected /\ list = None
  /\ list' = job
  /\ UNCHANGED <<job, postVars, flagVars, panelVars, viewVars, asked, feed, connected>>

ListArrives ==
  /\ list # None /\ list' = None
  /\ Notify(list)
  /\ UNCHANGED <<job, postVars, busy, panelVars, asked, connected>>

----------------------------------------------------------------------------
(* usePanels *)

Trailed(p) ==
  IF p = "none" THEN <<>>
  ELSE IF panel = "none" \/ p = panel THEN trail
  ELSE IF Len(trail) = MaxTrail THEN Append(Tail(trail), panel)
  ELSE Append(trail, panel)

SetPanel(p) == panel' = p /\ trail' = Trailed(p)

(* The panel p mounts with the job j: the wizard first asks the server for *)
(* the flow it may resume                                                  *)
Mount(p, j) ==
  CASE p = "maintenance" -> View(j)
    [] p = "lab" -> shown' = [NoView EXCEPT !.poll = "restoring"] /\ reports' = 0
    [] OTHER -> View(None)

(* The answers that a panel awaits find it gone *)
Leave(who) == [j \in Jobs |-> [who[j] EXCEPT !.here = FALSE]]
Orphan == asked' = Leave(asked)

(* Another panel: the toolbar's, the canvas's or a panel's own buttons *)
OpenTools ==
  /\ panel \notin {"tools"} /\ SetPanel("tools")
  /\ Mount("tools", None) /\ Orphan
  /\ UNCHANGED <<job, postVars, flagVars, panelJob, feedVars>>

OpenInstall ==
  /\ panel # "lab" /\ SetPanel("lab") /\ panelJob' = None
  /\ Mount("lab", None) /\ Orphan
  /\ UNCHANGED <<job, postVars, flagVars, feedVars>>

(* The wizard resumes the flow of its source line, if one is unfinished *)
LabRestored ==
  /\ shown.poll = "restoring"
  /\ \/ /\ \E j \in Jobs : ~Ended(job[j]) /\ View(j)
        /\ IF reports' > 0 THEN Resume ELSE UNCHANGED operation
     \/ /\ \A j \in Jobs : Ended(job[j])
        /\ View(None) /\ UNCHANGED operation
  /\ UNCHANGED <<job, postVars, busy, panelVars, asked, feedVars>>

OpenMaintenance ==
  /\ ~busy /\ panel # "maintenance"
  /\ panelJob' = None /\ SetPanel("maintenance")
  /\ Mount("maintenance", None) /\ Orphan
  /\ UNCHANGED <<job, postVars, flagVars, feedVars>>

(* A panel cannot be closed while its own POST is pending *)
Pending == \E j \in Jobs : asked[j].here

(* closeLabFlow and closeMaintenance also end the pause *)
Close ==
  /\ panel # "none" /\ ~Pending
  /\ SetPanel("none")
  /\ Mount("none", None) /\ Orphan
  /\ IF panel \in Follows THEN Resume ELSE UNCHANGED operation
  /\ UNCHANGED <<job, postVars, busy, panelJob, feedVars>>

GoBack ==
  /\ trail # <<>> /\ ~Pending
  /\ panel' = trail[Len(trail)] /\ trail' = SubSeq(trail, 1, Len(trail) - 1)
  /\ Mount(panel', panelJob) /\ Orphan
  /\ IF reports' > 0 THEN Resume ELSE UNCHANGED operation
  /\ UNCHANGED <<job, postVars, busy, panelJob, feedVars>>

----------------------------------------------------------------------------
(* Starting a job *)

Asks(j, who) == job[j] = "none" /\ asked[j] = Nobody /\ asked' = [asked EXCEPT ![j] = who]

(* startJob: the canvas and the inspector do so at any time *)
StartJob(j) ==
  /\ Asks(j, [by |-> "page", here |-> FALSE])
  /\ UNCHANGED <<job, postVars, flagVars, panelVars, viewVars, feedVars>>

(* The wizard, once it knows what it resumes and awaits nothing *)
Run(j) ==
  /\ panel = "lab" /\ shown.poll # "restoring" /\ ~Pending
  /\ Asks(j, [by |-> "lab", here |-> TRUE])
  /\ UNCHANGED <<job, postVars, flagVars, panelVars, viewVars, feedVars>>

(* Maintenance: a rollback, or another run once its job is over *)
RunForLab(j) ==
  /\ panel = "maintenance" /\ Ended(shown.status) /\ ~Pending
  /\ Asks(j, [by |-> "maintenance", here |-> TRUE])
  /\ UNCHANGED <<job, postVars, flagVars, panelVars, viewVars, feedVars>>

(* startScopedJob *)
Queue(j) ==
  /\ asked[j] # Nobody /\ job[j] = "none"
  /\ job' = [job EXCEPT ![j] = "queued"]
  /\ UNCHANGED <<postVars, flagVars, panelVars, viewVars, asked, feedVars>>

Replies(j, by) == asked[j].by = by /\ job[j] # "none"

(* A view that begins pauses the refreshes, unless its job has been        *)
(* reported as settled already                                             *)
Follow(j) == View(j) /\ operation' = (reports' = 0)

Started(j) ==
  /\ Replies(j, "page")
  /\ panelJob' = j /\ SetPanel("maintenance") /\ Follow(j)
  /\ LET others == [asked EXCEPT ![j] = Nobody] IN
     asked' = IF panel = "maintenance" THEN others ELSE Leave(others)
  /\ UNCHANGED <<job, postVars, busy, feedVars>>

(* begin and onBusy(true), which a wizard that is gone calls as well *)
Begin(j) ==
  /\ Replies(j, "lab")
  /\ IF asked[j].here THEN Follow(j) ELSE operation' = TRUE /\ UNCHANGED viewVars
  /\ asked' = [asked EXCEPT ![j] = Nobody]
  /\ UNCHANGED <<job, postVars, busy, panelVars, feedVars>>

(* onJobCreated and onBusy(true) *)
Created(j) ==
  /\ Replies(j, "maintenance")
  /\ panelJob' = j
  /\ IF panel = "maintenance" THEN Follow(j) ELSE operation' = TRUE /\ UNCHANGED viewVars
  /\ asked' = [asked EXCEPT ![j] = Nobody]
  /\ UNCHANGED <<job, postVars, busy, panel, trail, feedVars>>

(* The POST is refused, or its answer lost *)
AskFails(j) ==
  /\ asked[j] # Nobody
  /\ asked' = [asked EXCEPT ![j] = Nobody]
  /\ UNCHANGED <<job, postVars, flagVars, panelVars, viewVars, feedVars>>

(* The server's side *)
JobGoes(j) ==
  /\ job[j] \in {"queued", "running"}
  /\ \E s \in {"running", "settled"} : s # job[j] /\ job' = [job EXCEPT ![j] = s]
  /\ UNCHANGED <<postVars, flagVars, panelVars, viewVars, asked, feedVars>>

Next ==
  \/ \E c \in Calls : Perform(c) \/ Carry(c) \/ Answered(c) \/ Refreshed(c) \/ Broken(c)
  \/ PollTaken \/ PollArrives \/ PollFails \/ PollAgain
  \/ StreamArrives \/ StreamOpens \/ StreamBreaks \/ ListTaken \/ ListArrives
  \/ OpenTools \/ OpenInstall \/ LabRestored \/ OpenMaintenance \/ Close \/ GoBack
  \/ \E j \in Jobs : \/ StartJob(j) \/ Run(j) \/ RunForLab(j) \/ AskFails(j)
                     \/ Queue(j) \/ JobGoes(j)
                     \/ Started(j) \/ Begin(j) \/ Created(j)

Spec == Init /\ [][Next]_pageVars

----------------------------------------------------------------------------
(* Of the requests made for one action at most one ran without the page    *)
(* knowing its answer: repeating after a lost answer does not act twice.   *)
RetriesActOnce == Cardinality(carried \ heard) <= 1

(* A panel reports the job on display as settled at most once, and only    *)
(* when it is.                                                             *)
ReportsOnce ==
  /\ reports <= 1
  /\ reports = 1 => shown.job # None /\ job[shown.job] = "settled"

==============================================================================
