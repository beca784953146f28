-------------------------------- MODULE Jobs ---------------------------------
(***************************************************************************)
(* The background jobs of packages/world-line/src/web/jobs.ts.  The web    *)
(* servers of the origin and of every lab share one manager home, so       *)
(* several of them read and write the same world-line/jobs directory.      *)
(*                                                                         *)
(* A block of synchronous code is one step: startJob with the dispatch it  *)
(* ends in, one dispatch from a timer, the end of a job with its record    *)
(* and the dispatch after it, one getJob, one listJobs.  Between two such  *)
(* blocks anything may happen, a server's death included.  The runner is   *)
(* a parameter of startJob: of what it does, only the promotion            *)
(* transaction that getJob reads back is kept (see Promotion).             *)
(***************************************************************************)
EXTENDS Naturals, Sequences, FiniteSets

CONSTANTS
  JobServer,   (* web server processes; a dead one stays dead              *)
  Source,      (* the resources a job is scoped to: origin or a lab        *)
  MaxJobs,     (* jobs ever started (bound)                                *)
  MaxBadWrites, (* failing record writes (bound)                           *)
  Keep,        (* finished records listJobs keeps (1000 in the code)       *)
  Cli,         (* a command line holding an operation lock                 *)
  Null

Job == 1 .. MaxJobs     (* in the order of startedAt *)

(* `linked`: transactionId is set.  `done`: finishedAt is set.  Phases:    *)
(* "text" is whatever the queue or a runner reports, the others are        *)
(* getJob's.                                                               *)
Status == {"queued", "running", "ok", "fail", "error", "interrupted"}
Phase == {"text", "restarted", "open", "committing", "committed", "rolledBack"}
JobRecord == [status : Status, phase : Phase, linked : BOOLEAN, done : BOOLEAN]

(* Who started a job, and on what.                                         *)
Owned == [owner : JobServer, source : Source]

ASSUME JobsAssumption ==
  /\ MaxJobs \in Nat /\ MaxBadWrites \in Nat /\ Keep \in Nat
  /\ Cli \notin JobServer /\ Null \notin JobServer \cup {Cli} \cup Owned \cup JobRecord

Transaction == {"none", "open", "committing", "committed", "rolledBack"}

VARIABLES
  servers,  (* the servers that are alive                                  *)
  job,      (* owner and source of each started job, else Null             *)
  mem,      (* the owner's entry of `jobs`, else Null                      *)
  jobFiles, (* jobs/<id>.json, else Null                                   *)
  pending,  (* each server's queue of runners, oldest first                *)
  timers,   (* jobs whose requeueing armed a 2 s timer                     *)
  step,     (* how far the asynchronous part of each job has come          *)
  result,   (* how its runner ended: "none" until then                     *)
  runs,     (* how often its runner was entered (history)                  *)
  sourceLock, (* holder of each source's operation lock, else Null         *)
  tx,       (* phase of the transaction the job's runner prepared          *)
  badWrites (* record writes that failed so far                            *)

jobVars ==
  <<servers, job, mem, jobFiles, pending, timers, step, result, runs, sourceLock, tx, badWrites>>

Steps == {"unborn", "queued", "entering", "running", "throwing", "finishing",
          "over", "stuck", "dead"}

JobsTypeOK ==
  /\ servers \in SUBSET JobServer
  /\ job \in [Job -> Owned \cup {Null}]
  /\ mem \in [Job -> JobRecord \cup {Null}]
  /\ jobFiles \in [Job -> JobRecord \cup {Null}]
  /\ pending \in [JobServer -> Seq(Job)]
  /\ timers \in SUBSET Job
  /\ step \in [Job -> Steps]
  /\ result \in [Job -> {"none", "ok", "fail", "error"}]
  /\ runs \in [Job -> Nat]
  /\ sourceLock \in [Source -> JobServer \cup {Cli, Null}]
  /\ tx \in [Job -> Transaction]
  /\ badWrites \in 0 .. MaxBadWrites

Born == {j \in Job : job[j] # Null}

-----------------------------------------------------------------------------
(* Helpers *)

NewRecord == [status |-> "queued", phase |-> "text", linked |-> FALSE, done |-> FALSE]

Unsettled(j) == tx[j] \in {"open", "committing"}

(* A dead holder's operation lock is recovered (recoverDeadLocal).         *)
Contended(src) == sourceLock[src] = Cli \/ sourceLock[src] \in servers

(* The server's own loop over `jobs`: does one of this source run?         *)
Runs(jobs, m, s, src) ==
  \E j \in Job :
    /\ jobs[j] # Null /\ jobs[j].owner = s /\ jobs[j].source = src
    /\ m[j] # Null /\ m[j].status = "running"

(* The places in queue q that one pass of dispatch starts: the first of    *)
(* each source of which nothing runs.                                      *)
Startable(jobs, m, s, q) ==
  {i \in DOMAIN q :
     /\ ~Runs(jobs, m, s, jobs[q[i]].source)
     /\ \A h \in 1 .. i - 1 : jobs[q[h]].source # jobs[q[i]].source}

(* Mutant: `pending.delete` is forgotten.                                  *)
RemainingAll(q, taken) == q

(* SelectSeq, as a function that the proofs can unfold.                    *)
Remaining(q, taken) ==
  LET left[n \in 0 .. Len(q)] ==
        IF n = 0 THEN <<>>
        ELSE IF q[n] \in taken THEN left[n - 1] ELSE Append(left[n - 1], q[n])
  IN  left[Len(q)]

(* persist throws also when only the sync of the directory fails: the file *)
(* is replaced or not.                                                     *)
Torn(d, j, r) == {d, [d EXCEPT ![j] = r]}

(* One pass of dispatch, given the state the block before it left.  With   *)
(* `bad` # 0 the write of the record of the job at that place throws: that *)
(* job is off the queue and "running", nothing runs it, and the pass ends. *)
(* Out of a promise or a timer the error reaches the host process, which   *)
(* goes on or dies (ServerDies).                                           *)
Dispatch(s, jobs, m, d, q, steps, bad) ==
  LET started == {q[i] : i \in {k \in Startable(jobs, m, s, q) : bad = 0 \/ k < bad}}
      taken   == started \cup IF bad = 0 THEN {} ELSE {q[bad]}
      marked  == [j \in Job |-> IF j \in taken
                                THEN [m[j] EXCEPT !.status = "running"] ELSE m[j]]
      saved   == [j \in Job |-> IF j \in started THEN marked[j] ELSE d[j]]
  IN  /\ mem' = marked
      /\ jobFiles' \in IF bad = 0 THEN {saved} ELSE Torn(saved, q[bad], marked[q[bad]])
      /\ pending' = [pending EXCEPT ![s] = Remaining(q, taken)]
      /\ step' = [j \in Job |-> CASE j \in started -> "entering"
                                  [] j \in taken \ started -> "stuck"
                                  [] OTHER -> steps[j]]

(* The pass succeeds, or one of its writes fails (within the bound).       *)
DispatchOutcomes(s, jobs, m, q, used) ==
  {0} \cup IF used < MaxBadWrites THEN Startable(jobs, m, s, q) ELSE {}

Cost(bad) == IF bad = 0 THEN 0 ELSE 1

-----------------------------------------------------------------------------
JobsInit ==
  /\ servers = JobServer
  /\ job = [j \in Job |-> Null]
  /\ mem = [j \in Job |-> Null]
  /\ jobFiles = [j \in Job |-> Null]
  /\ pending = [s \in JobServer |-> <<>>]
  /\ timers = {}
  /\ step = [j \in Job |-> "unborn"]
  /\ result = [j \in Job |-> "none"]
  /\ runs = [j \in Job |-> 0]
  /\ sourceLock = [src \in Source |-> Null]
  /\ tx = [j \in Job |-> "none"]
  /\ badWrites = 0

-----------------------------------------------------------------------------
(* startJob *)

(* The next job is recorded, queued and perhaps dispatched at once.  When  *)
(* `bad` # 0 the caller sees the error of a write of dispatch, although    *)
(* the job is registered.                                                  *)
StartJob(s, src, j, bad) ==
  LET jobs == [job EXCEPT ![j] = [owner |-> s, source |-> src]]
      m == [mem EXCEPT ![j] = NewRecord]
      q == Append(pending[s], j)
  IN  /\ s \in servers
      /\ job[j] = Null /\ \A k \in Job : k < j => job[k] # Null
      /\ bad \in DispatchOutcomes(s, jobs, m, q, badWrites)
      /\ job' = jobs
      /\ Dispatch(s, jobs, m, [jobFiles EXCEPT ![j] = NewRecord], q,
                  [step EXCEPT ![j] = "queued"], bad)
      /\ badWrites' = badWrites + Cost(bad)
      /\ UNCHANGED <<servers, timers, result, runs, sourceLock, tx>>

(* The first write throws: the caller sees the error, nothing is queued.   *)
(* When the record was replaced all the same, it names a job of no map.    *)
StartJobFails(s, src, j) ==
  /\ s \in servers
  /\ job[j] = Null /\ \A k \in Job : k < j => job[k] # Null
  /\ badWrites < MaxBadWrites
  /\ badWrites' = badWrites + 1
  /\ \/ UNCHANGED <<job, jobFiles, step>>
     \/ /\ job' = [job EXCEPT ![j] = [owner |-> s, source |-> src]]
        /\ jobFiles' = [jobFiles EXCEPT ![j] = NewRecord]
        /\ step' = [step EXCEPT ![j] = "stuck"]
  /\ UNCHANGED <<servers, mem, pending, timers, result, runs, sourceLock, tx>>

(* The 2 s timer of a requeued job.                                        *)
Tick(j) ==
  LET s == job[j].owner
  IN  /\ j \in timers
      /\ timers' = timers \ {j}
      /\ \E bad \in DispatchOutcomes(s, job, mem, pending[s], badWrites) :
           /\ Dispatch(s, job, mem, jobFiles, pending[s], step, bad)
           /\ badWrites' = badWrites + Cost(bad)
      /\ UNCHANGED <<servers, job, result, runs, sourceLock, tx>>

-----------------------------------------------------------------------------
(* withOperations around the runner *)

Entering(j) == step[j] = "entering"

(* Mutant: the retry arms no timer.                                        *)
ArmedNever(j) == timers \ {j}

Armed(j) == timers \cup {j}

(* LockedError before the runner was entered: back to the end of the queue *)
Requeue(j) ==
  LET s == job[j].owner
  IN  /\ Entering(j)
      /\ Contended(job[j].source)
      /\ mem' = [mem EXCEPT ![j].status = "queued"]
      /\ jobFiles' = [jobFiles EXCEPT ![j] = mem'[j]]
      /\ pending' = [pending EXCEPT ![s] = Append(@, j)]
      /\ timers' = Armed(j)
      /\ step' = [step EXCEPT ![j] = "queued"]
      /\ UNCHANGED <<servers, job, result, runs, sourceLock, tx, badWrites>>

(* ... unless that cannot be recorded: an error, in memory.                *)
RequeueFails(j) ==
  /\ Entering(j)
  /\ Contended(job[j].source)
  /\ badWrites < MaxBadWrites
  /\ mem' = [mem EXCEPT ![j].status = "error"]
  /\ jobFiles' \in Torn(jobFiles, j, [mem[j] EXCEPT !.status = "queued"])
  /\ step' = [step EXCEPT ![j] = "over"]
  /\ badWrites' = badWrites + 1
  /\ UNCHANGED <<servers, job, pending, timers, result, runs, sourceLock, tx>>

(* Mutant: nobody looks for unfinished transactions.                       *)
BlockedNever(src) == FALSE

Blocked(src) == \E k \in Born : job[k].source = src /\ Unsettled(k)

(* "unfinished promotion transaction ... run recovery reconcile"           *)
Refuse(j) ==
  /\ Entering(j)
  /\ ~Contended(job[j].source)
  /\ Blocked(job[j].source)
  /\ sourceLock' = [sourceLock EXCEPT ![job[j].source] = Null]
  /\ step' = [step EXCEPT ![j] = "finishing"]
  /\ result' = [result EXCEPT ![j] = "error"]
  /\ UNCHANGED <<servers, job, mem, jobFiles, pending, timers, runs, tx, badWrites>>

Enter(j) ==
  /\ Entering(j)
  /\ ~Contended(job[j].source)
  /\ ~Blocked(job[j].source)
  /\ sourceLock' = [sourceLock EXCEPT ![job[j].source] = job[j].owner]
  /\ step' = [step EXCEPT ![j] = "running"]
  /\ runs' = [runs EXCEPT ![j] = @ + 1]
  /\ UNCHANGED <<servers, job, mem, jobFiles, pending, timers, result, tx, badWrites>>

-----------------------------------------------------------------------------
(* The runner: the hooks of the handle, and the transaction of a promotion *)

(* setPhase, pushProbe and setLabId change texts and probes, which are not *)
(* kept here, but a write that fails throws into the runner.               *)
ProgressFails(j) ==
  /\ step[j] \in {"running"}
  /\ badWrites < MaxBadWrites
  /\ badWrites' = badWrites + 1
  /\ step' = [step EXCEPT ![j] = "throwing"]
  /\ UNCHANGED <<servers, job, mem, jobFiles, pending, timers, result, runs, sourceLock, tx>>

(* runLabPromote: prepareTransaction, before the hook tells the job of it. *)
Prepare(j) ==
  /\ step[j] \in {"running"}
  /\ tx[j] = "none"
  /\ tx' = [tx EXCEPT ![j] = "open"]
  /\ UNCHANGED <<servers, job, mem, jobFiles, pending, timers, step, result, runs, sourceLock, badWrites>>

(* onTransaction -> setTransactionId                                       *)
Link(j) ==
  /\ step[j] \in {"running"}
  /\ tx[j] = "open" /\ ~mem[j].linked
  /\ mem' = [mem EXCEPT ![j].linked = TRUE]
  /\ \/ /\ jobFiles' = [jobFiles EXCEPT ![j] = mem'[j]]
        /\ UNCHANGED <<step, badWrites>>
     \/ /\ badWrites < MaxBadWrites
        /\ badWrites' = badWrites + 1
        /\ step' = [step EXCEPT ![j] = "throwing"]
        /\ jobFiles' \in Torn(jobFiles, j, mem'[j])
  /\ UNCHANGED <<servers, job, pending, timers, result, runs, sourceLock, tx>>

(* The commit decision, and its completion by settleTransaction.           *)
Advance(j) ==
  /\ step[j] \in {"running"}
  /\ mem[j].linked
  /\ \/ tx[j] = "open" /\ tx' = [tx EXCEPT ![j] = "committing"]
     \/ tx[j] = "committing" /\ tx' = [tx EXCEPT ![j] = "committed"]
  /\ UNCHANGED <<servers, job, mem, jobFiles, pending, timers, step, result, runs, sourceLock, badWrites>>

(* Before the decision a failing promotion rolls back, then throws.        *)
RollBack(j) ==
  /\ step[j] \in {"running", "throwing"}
  /\ tx[j] = "open"
  /\ tx' = [tx EXCEPT ![j] = "rolledBack"]
  /\ step' = [step EXCEPT ![j] = "throwing"]
  /\ UNCHANGED <<servers, job, mem, jobFiles, pending, timers, result, runs, sourceLock, badWrites>>

(* The runner ends.  A promotion that did not commit throws; `ok: false`   *)
(* is the answer of a verification that did not promote.                   *)
RunnerAnswers(j) ==
  {"error"} \cup (IF step[j] = "running" /\ tx[j] \in {"none", "committed"}
                  THEN {"ok"} ELSE {})
            \cup (IF step[j] = "running" /\ tx[j] = "none" THEN {"fail"} ELSE {})

Leave(j) ==
  /\ step[j] \in {"running", "throwing"}
  /\ \E r \in RunnerAnswers(j) : result' = [result EXCEPT ![j] = r]
  /\ sourceLock' = [sourceLock EXCEPT ![job[j].source] = Null]
  /\ step' = [step EXCEPT ![j] = "finishing"]
  /\ UNCHANGED <<servers, job, mem, jobFiles, pending, timers, runs, tx, badWrites>>

(* The `finally` block: status and finishedAt, the record, then dispatch.  *)
(* A write that throws leaves the outcome as an error in memory.           *)
Finish(j) ==
  LET s == job[j].owner
      ended == [mem EXCEPT ![j].status = result[j], ![j].done = TRUE]
      lost  == [ended EXCEPT ![j].status = "error"]
      over  == [step EXCEPT ![j] = "over"]
  IN  /\ step[j] \in {"finishing"}
      /\ \/ \E bad \in DispatchOutcomes(s, job, ended, pending[s], badWrites) :
              /\ Dispatch(s, job, ended, [jobFiles EXCEPT ![j] = ended[j]],
                          pending[s], over, bad)
              /\ badWrites' = badWrites + Cost(bad)
         \/ /\ badWrites < MaxBadWrites
            /\ \E bad \in DispatchOutcomes(s, job, lost, pending[s], badWrites + 1),
                  d \in Torn(jobFiles, j, ended[j]) :
                 /\ Dispatch(s, job, lost, d, pending[s], over, bad)
                 /\ badWrites' = badWrites + 1 + Cost(bad)
      /\ UNCHANGED <<servers, job, timers, result, runs, sourceLock, tx>>

-----------------------------------------------------------------------------
(* getJob and listJobs *)

(* Mutant: whatever is not final counts as interrupted.                    *)
OwnerGoneAlways(j) == job[j].owner \in JobServer

OwnerGone(j) == job[j].owner \notin servers

(* "queued" or "running" on disk and the owner dead: never resumed.        *)
Interrupted(j, r) ==
  IF r.status \in {"queued", "running"} /\ OwnerGone(j)
  THEN [r EXCEPT !.status = "interrupted", !.phase = "restarted", !.done = TRUE]
  ELSE r

Committed(j) == tx[j] = "committed"

(* Mutant: only jobs whose owner died are looked at.                       *)
InDoubtDead(r) == r.status = "interrupted" /\ r.linked

InDoubt(r) == r.status \in {"interrupted", "error"} /\ r.linked

(* The transaction record decides what an ended promotion job shows.       *)
Reconciled(j, r) ==
  IF ~InDoubt(r) THEN r
  ELSE [r EXCEPT !.phase = tx[j],
                 !.status = CASE Committed(j) -> "ok"
                              [] tx[j] = "rolledBack" -> "error"
                              [] OTHER -> @]

(* Does s (alive) hold job j in its own map?                               *)
Holds(s, j) == job[j].owner = s /\ mem[j] # Null

(* The owner answers from its map, unless the record on disk ended badly   *)
(* and has a transaction.                                                  *)
FromDisk(s, j) ==
  \/ ~Holds(s, j)
  \/ InDoubt(jobFiles[j])

(* What getJob(j) in server s answers: Null is `undefined`.                *)
Shown(s, j) ==
  IF jobFiles[j] = Null THEN Null
  ELSE IF FromDisk(s, j) THEN Reconciled(j, Interrupted(j, jobFiles[j]))
  ELSE mem[j]

Saves(s, j) == jobFiles[j] # Null /\ FromDisk(s, j)

(* The record and the map after that getJob.  A write that fails leaves    *)
(* both for the next call: those are stuttering steps.                     *)
ShownDisk(s, j) == IF Saves(s, j) THEN Shown(s, j) ELSE jobFiles[j]
ShownMem(s, j) ==
  IF Saves(s, j) /\ Holds(s, j) /\ Shown(s, j) # jobFiles[j]
  THEN Shown(s, j) ELSE mem[j]

GetJob(s, j) ==
  /\ s \in servers
  /\ Saves(s, j) /\ Shown(s, j) # jobFiles[j]
  /\ jobFiles' = [jobFiles EXCEPT ![j] = ShownDisk(s, j)]
  /\ mem' = [mem EXCEPT ![j] = ShownMem(s, j)]
  /\ UNCHANGED <<servers, job, pending, timers, step, result, runs, sourceLock, tx, badWrites>>

(* Finished records beyond the newest Keep, as s sees them.                *)
Finished(s) == {j \in Job : Shown(s, j) # Null /\ Shown(s, j).done}
Excess(s) ==
  {j \in Finished(s) : Cardinality({k \in Finished(s) : k > j}) >= Keep}

(* getJob for every record, then the excess is deleted, on disk and in the *)
(* map of the server that lists.                                           *)
ListJobs(s) ==
  /\ s \in servers
  /\ Excess(s) # {}
  /\ jobFiles' = [j \in Job |-> IF j \in Excess(s) THEN Null ELSE ShownDisk(s, j)]
  /\ mem' = [j \in Job |-> IF j \in Excess(s) /\ Holds(s, j)
                           THEN Null ELSE ShownMem(s, j)]
  /\ UNCHANGED <<servers, job, pending, timers, step, result, runs, sourceLock, tx, badWrites>>

-----------------------------------------------------------------------------
(* Other processes *)

(* A server dies with its maps, queue, timers and runners; one survives    *)
(* (bound).                                                                *)
ServerDies(s) ==
  /\ s \in servers /\ servers # {s}
  /\ servers' = servers \ {s}
  /\ mem' = [j \in Job |-> IF job[j] # Null /\ job[j].owner = s THEN Null ELSE mem[j]]
  /\ pending' = [pending EXCEPT ![s] = <<>>]
  /\ timers' = {j \in timers : job[j].owner # s}
  /\ step' = [j \in Job |-> IF job[j] # Null /\ job[j].owner = s
                           THEN "dead" ELSE step[j]]
  /\ UNCHANGED <<job, jobFiles, result, runs, sourceLock, tx, badWrites>>

(* A command line takes a source's operation lock and gives it back.       *)
CliTake(src) ==
  /\ ~Contended(src)
  /\ sourceLock' = [sourceLock EXCEPT ![src] = Cli]
  /\ UNCHANGED <<servers, job, mem, jobFiles, pending, timers, step, result, runs, tx, badWrites>>

CliDrop(src) ==
  /\ sourceLock[src] = Cli
  /\ sourceLock' = [sourceLock EXCEPT ![src] = Null]
  /\ UNCHANGED <<servers, job, mem, jobFiles, pending, timers, step, result, runs, tx, badWrites>>

(* `recovery reconcile`, under the operation lock of the source.           *)
ReconcilePromotion(j) ==
  /\ Unsettled(j)
  /\ ~Contended(job[j].source)
  /\ sourceLock' = [sourceLock EXCEPT ![job[j].source] = Null]
  /\ tx' = [tx EXCEPT ![j] = IF @ = "open" THEN "rolledBack" ELSE "committed"]
  /\ UNCHANGED <<servers, job, mem, jobFiles, pending, timers, step, result, runs, badWrites>>

-----------------------------------------------------------------------------
JobsNext ==
  \/ \E j \in Born :
       \/ Tick(j) \/ Requeue(j) \/ RequeueFails(j) \/ Refuse(j) \/ Enter(j)
       \/ ProgressFails(j) \/ Prepare(j) \/ Link(j) \/ Advance(j) \/ RollBack(j)
       \/ Leave(j) \/ Finish(j) \/ ReconcilePromotion(j)
       \/ \E s \in JobServer : GetJob(s, j)
  \/ \E s \in JobServer :
       \/ ListJobs(s) \/ ServerDies(s)
       \/ \E src \in Source, j \in Job :
            \/ StartJobFails(s, src, j)
            \/ \E bad \in 0 .. MaxJobs : StartJob(s, src, j, bad)
  \/ \E src \in Source : CliTake(src) \/ CliDrop(src)

JobsSpec == JobsInit /\ [][JobsNext]_jobVars

(* The event loop goes on: timers fire, lock attempts return, runners end. *)
(* A retry every 2 s need not find the lock free between command lines     *)
(* that take it again and again, so that these are assumed to stop.        *)
Goes(j) ==
  j \in Born /\ (Tick(j) \/ Requeue(j) \/ Refuse(j) \/ Enter(j) \/ Leave(j) \/ Finish(j))

JobsFairness ==
  /\ \A j \in Job : WF_jobVars(Goes(j))
  /\ <>[](\A src \in Source : sourceLock[src] # Cli)

JobsFairSpec == JobsSpec /\ JobsFairness

-----------------------------------------------------------------------------
(* Properties *)

(* Type invariant, with the shape of a server's queue:                     *)
(* dispatch and the retry in jobs.ts keep exactly the queued jobs of a     *)
(* live server in `pending`, once each, and at most one of the jobs it has *)
(* taken off runs on a source.                                             *)
QueueInv ==
  /\ JobsTypeOK
  /\ \A s \in servers : \A j \in Born :
       job[j].owner = s =>
         /\ Cardinality({i \in DOMAIN pending[s] : pending[s][i] = j}) =
              IF step[j] = "queued" THEN 1 ELSE 0
         /\ step[j] \in {"entering", "running", "throwing", "finishing"} =>
              /\ mem[j].status = "running"
              /\ \A k \in Born \ {j} :
                   /\ job[k] = job[j]
                   => step[k] \notin {"entering", "running", "throwing", "finishing"}

(* No runner works on a source while a transaction of another job there is *)
(* unfinished: withOperations looks under the lock that the transaction's  *)
(* own runner held, and only reconciliation can follow a dead runner.      *)
RunsAlone ==
  \A j, k \in Born :
    /\ j # k /\ job[j].source = job[k].source
    /\ step[j] \in {"running", "throwing"}
    => ~Unsettled(k) /\ step[k] \notin {"running", "throwing"}

(* "Execution is never replayed": through requeueing, failing writes, dead *)
(* servers and the reconciliation of their records, a job's runner is      *)
(* entered at most once.                                                   *)
NotReplayed == \A j \in Job : runs[j] <= 1

(* getJob and listJobs in any server show success only for a runner that   *)
(* succeeded or a transaction that was committed.                          *)
OkIsEarned ==
  \A s \in servers : \A j \in Born :
    Shown(s, j) # Null /\ Shown(s, j).status = "ok"
      => result[j] = "ok" \/ tx[j] = "committed"

(* The job record of a committed promotion, whatever its runner or its     *)
(* server died of, is shown as a success by every server but its owner.    *)
CommittedIsShown ==
  \A s \in servers : \A j \in Born :
    /\ jobFiles[j] # Null /\ jobFiles[j].linked /\ tx[j] = "committed"
    /\ s # job[j].owner
    /\ OwnerGone(j) \/ jobFiles[j].done
    => Shown(s, j).status = "ok"

(* A record is only removed, and only called interrupted, when nothing in  *)
(* any live server can still run its job: a job on the board may be acted  *)
(* on by its user.                                                         *)
LiveRecordKept ==
  \A j \in Born :
    jobFiles[j] = Null \/ jobFiles[j].status = "interrupted"
      => step[j] \notin {"queued", "entering", "running", "throwing", "finishing"}

(* What the board of any server shows is what happened to the job.         *)
BoardIsTrue == OkIsEarned /\ CommittedIsShown

(* The queues hold what is queued, nothing runs next to an unfinished      *)
(* transaction, a runner is entered once, no record of a job that may      *)
(* still run is lost, and the board shows what happened.                   *)
JobsSound == QueueInv /\ RunsAlone /\ NotReplayed /\ LiveRecordKept /\ BoardIsTrue

(* A queued job of a live server gets its turn, whoever held the lock of   *)
(* its source and whatever was queued before it, unless a write of a       *)
(* record failed: dispatch, the end of a job and the timers of retries     *)
(* between them look at the queue often enough.                            *)
QueuedGetsTurn ==
  \A j \in Job :
    step[j] = "queued" ~>
      \/ step[j] \in {"running", "throwing", "finishing", "over", "dead"}
      \/ badWrites > 0

=============================================================================
