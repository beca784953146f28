--------------------------------- MODULE Lab ----------------------------------
(***************************************************************************)
(* The labs of a home: verification runs (lab/run.ts, commands/lab.ts),    *)
(* mirrors with their supervisor (commands/lab-service.ts,                 *)
(* lab/service-worker.ts), destroying and reaping (lab/cleanup.ts) and the *)
(* shared package cache they install from (lab/cache-maintenance.ts).      *)
(*                                                                         *)
(* A process runs one command at a time.  Locks refuse, they never wait,   *)
(* so a command takes all of its locks in one step or ends; a command that *)
(* ends without a change is no step.  The lock of a dead process is taken  *)
(* over by an operation, but .service.lock only with --break-stale-lock.   *)
(***************************************************************************)
EXTENDS FiniteSets, Naturals

CONSTANTS
  Runner,       (* command-line or server processes of one host             *)
  Labs,         (* identifiers: a new lab takes one that was never used      *)
  Home,         (* the profile's own home, the source of new labs           *)
  Nobody,
  MaxKills      (* processes and supervisors that may be killed             *)

ASSUME LabAssumption == Nobody \notin Runner

VARIABLES
  lab,          (* each lab directory: manifest, service.json, processes    *)
  used,         (* the identifiers given out                                *)
  proc,         (* where each process is: pc, its lab, what it has read     *)
  svc,          (* holder of labs/.service.lock                             *)
  op,           (* holder of the operation lock of each home                *)
  pruning,      (* holder of the package cache's operation lock             *)
  leases,       (* processes named by a lease file of the package cache     *)
  kills

labVars == <<lab, used, proc, svc, op, pruning, leases, kills>>

(* state: of manifest.json, "none" without a directory.  mirror: purpose.  *)
(* doomed: retention.expiresAt has passed or will, at any time.            *)
(* rec: service.json.  sup: the supervisor.  sent: its message to the      *)
(* process that forked it.  dsh: a DSH of this lab runs.                   *)
NoLab == [state |-> "none", mirror |-> FALSE, doomed |-> FALSE, inherited |-> FALSE,
          rec |-> "none", sup |-> "none", sent |-> "none", dsh |-> FALSE]
NoCommand == [pc |-> "idle", on |-> Nobody, saw |-> NoLab, todo |-> {}]

LabInit ==
  /\ lab = [l \in Labs |-> NoLab]
  /\ used = {}
  /\ proc = [p \in Runner |-> NoCommand]
  /\ svc = Nobody /\ pruning = Nobody
  /\ op = [h \in Labs \union {Home} |-> Nobody]
  /\ leases = {} /\ kills = 0

Doing(p, pc) == proc[p].pc = pc
Dead(h) == h \in Runner /\ Doing(h, "dead")
GoTo(p, pc) == proc' = [proc EXCEPT ![p].pc = pc]
Put(l, r) == lab' = [lab EXCEPT ![l] = r]

(* acquireLock: free, or its owner is dead and may be replaced *)
Open(h) == h = Nobody \/ Dead(h)

(* Mutant: a lease is written without the cache's operation lock *)
LeasableAnyTime == TRUE

(* withPackageCache: a lease is written under the cache's operation lock *)
Leasable == Open(pruning)

Lease(p) == leases' = leases \union {p}

(* rmLab: the directory goes, the processes that run from it do not *)
Removed(r) == [NoLab EXCEPT !.sup = r.sup, !.sent = r.sent, !.dsh = r.dsh]

----------------------------------------------------------------------------
(* Mirrors *)

(* runLabStart: a new mirror, from the profile or from another lab.  The   *)
(* operation lock is that of the source: the new lab has none.             *)
StartNew(p, h) ==
  /\ Doing(p, "idle")
  /\ Open(svc) /\ Open(op[h]) /\ Leasable
  /\ h \in Labs => lab[h].state \notin {"none", "applying"}
  /\ svc' = p /\ op' = [op EXCEPT ![h] = p] /\ Lease(p)
  /\ proc' = [proc EXCEPT ![p] = [NoCommand EXCEPT !.pc = "create"]]
  /\ UNCHANGED <<lab, used, pruning, kills>>

(* runLabStart of a mirror that was stopped; one that still runs without   *)
(* having inherited its home is stopped first.                             *)
StartAgain(p, l) ==
  /\ Doing(p, "idle")
  /\ Open(svc) /\ Open(op[l]) /\ Leasable
  /\ lab[l].state # "none" /\ lab[l].mirror
  /\ \/ lab[l].rec = "stopped" /\ UNCHANGED lab
     \/ /\ lab[l].rec = "running" /\ ~lab[l].inherited
        /\ Put(l, [lab[l] EXCEPT !.rec = "stopped", !.sup = "none",
                                 !.dsh = @ /\ lab[l].sup # "serving"])
  /\ svc' = p /\ op' = [op EXCEPT ![l] = p] /\ Lease(p)
  /\ proc' = [proc EXCEPT ![p] = [NoCommand EXCEPT !.pc = "apply", !.on = l]]
  /\ UNCHANGED <<used, pruning, kills>>

(* createLab, createCleanLab: manifest.json is the last file written *)
Created == [NoLab EXCEPT !.state = "created"]
CreateFails(p) == Doing(p, "create") /\ GoTo(p, "release")
                  /\ UNCHANGED <<lab, used, svc, op, pruning, leases, kills>>
CreateLab(p, l) ==
  /\ Doing(p, "create") /\ l \notin used
  /\ used' = used \union {l} /\ Put(l, Created)
  /\ proc' = [proc EXCEPT ![p].pc = IF svc = p THEN "apply" ELSE "enter", ![p].on = l]
  /\ UNCHANGED <<svc, op, pruning, leases, kills>>

(* The manifest says "applying" before anything is installed; saw is the   *)
(* object in memory from here on.                                          *)
Apply(p) ==
  LET l == proc[p].on IN
  /\ Doing(p, "apply")
  /\ proc' = [proc EXCEPT ![p].pc = "install", ![p].saw.inherited = lab[l].inherited]
  /\ Put(l, [lab[l] EXCEPT !.state = "applying", !.mirror = TRUE])
  /\ UNCHANGED <<used, svc, op, pruning, leases, kills>>

(* before or after the home was inherited *)
InstallFails(p) ==
  /\ Doing(p, "install")
  /\ \E inherited \in {proc[p].saw.inherited, TRUE} :
       proc' = [proc EXCEPT ![p].pc = "fail", ![p].saw.inherited = inherited]
  /\ UNCHANGED <<lab, used, svc, op, pruning, leases, kills>>
Fork(p) ==
  LET l == proc[p].on IN
  /\ Doing(p, "install")
  /\ proc' = [proc EXCEPT ![p].pc = "wait", ![p].saw.inherited = TRUE]
  /\ Put(l, [lab[l] EXCEPT !.sup = "booting", !.sent = "none"])
  /\ UNCHANGED <<used, svc, op, pruning, leases, kills>>

Forker(l) == {p \in Runner : Doing(p, "wait") /\ proc[p].on = l}
Supervisor(l, stage) ==
  lab[l].sup = stage /\ UNCHANGED <<used, proc, svc, op, pruning, leases, kills>>

(* service-worker.ts: launchDsh; SIGTERM or the loss of the forker aborts  *)
(* it and takes DSH along, until DSH has printed its address.              *)
Boot(l) == Supervisor(l, "booting") /\ Put(l, [lab[l] EXCEPT !.sup = "checking", !.dsh = TRUE])
BootFails(l) == Supervisor(l, "booting") /\ Put(l, [lab[l] EXCEPT !.sup = "none", !.sent = "bad"])
ForkerLost(l) == Supervisor(l, "booting") /\ Forker(l) = {} /\ Put(l, [lab[l] EXCEPT !.sup = "none"])

(* From there to the record no handler is installed: the port is checked,  *)
(* "/" fetched and the control endpoint opened.                            *)
CheckFails(l) ==
  Supervisor(l, "checking")
  /\ Put(l, [lab[l] EXCEPT !.sup = "none", !.dsh = FALSE, !.sent = "bad"])

ServiceDown(r) == [r EXCEPT !.sup = "none", !.dsh = FALSE, !.rec = "stopped"]
Serve(l) ==
  /\ Supervisor(l, "checking")
  /\ Put(l, IF Forker(l) = {} THEN ServiceDown(lab[l])
            ELSE [lab[l] EXCEPT !.sup = "serving", !.rec = "running", !.sent = "ok"])

(* DSH exits by itself, and the supervisor's interval notices it *)
DshExits(l) == Supervisor(l, "serving") /\ lab[l].dsh /\ Put(l, [lab[l] EXCEPT !.dsh = FALSE])
NoticeExit(l) == Supervisor(l, "serving") /\ ~lab[l].dsh /\ Put(l, ServiceDown(lab[l]))

(* startMirrorUnlocked waits for a message, an exit or 130 seconds *)
Ready(p) ==
  LET l == proc[p].on IN
  /\ Doing(p, "wait") /\ lab[l].sent = "ok" /\ GoTo(p, "release")
  /\ Put(l, [lab[l] EXCEPT !.state = "passed", !.mirror = TRUE, !.inherited = TRUE])
  /\ UNCHANGED <<used, svc, op, pruning, leases, kills>>
Gone(p) ==
  LET l == proc[p].on IN
  /\ Doing(p, "wait") /\ lab[l].sup = "none" /\ lab[l].sent # "ok" /\ GoTo(p, "fail")
  /\ UNCHANGED <<lab, used, svc, op, pruning, leases, kills>>
TimedOut(p) ==
  LET l == proc[p].on IN
  /\ Doing(p, "wait") /\ GoTo(p, "fail")
  /\ Put(l, IF lab[l].sup = "serving" THEN ServiceDown(lab[l])
            ELSE [lab[l] EXCEPT !.sup = "none"])
  /\ UNCHANGED <<used, svc, op, pruning, leases, kills>>

(* Mutant: a supervisor that has reported nothing leaves the manifest *)
FailedQuietly(r, seen) == IF r.sent = "bad" THEN [r EXCEPT !.state = "failed"] ELSE r

Failed(r, seen) ==
  [r EXCEPT !.state = "failed", !.mirror = TRUE, !.inherited = seen.inherited]

(* The catch block: a recorded service is stopped, the manifest "failed" *)
Fail(p) ==
  LET l == proc[p].on IN
  /\ Doing(p, "fail") /\ GoTo(p, "release")
  /\ Put(l, Failed(IF lab[l].rec = "running" /\ lab[l].sup = "serving"
                    THEN ServiceDown(lab[l]) ELSE lab[l], proc[p].saw))
  /\ UNCHANGED <<used, svc, op, pruning, leases, kills>>

(* The finally blocks, in the order the locks were taken *)
Release(p) ==
  /\ Doing(p, "release")
  /\ proc' = [proc EXCEPT ![p] = NoCommand]
  /\ svc' = IF svc = p THEN Nobody ELSE svc
  /\ op' = [h \in DOMAIN op |-> IF op[h] = p THEN Nobody ELSE op[h]]
  /\ leases' = leases \ {p}
  /\ UNCHANGED <<lab, used, pruning, kills>>

(* runLabStop, with both locks for the length of the step *)
Stop(p, l) ==
  /\ Doing(p, "idle") /\ Open(svc) /\ Open(op[l])
  /\ lab[l].state # "none" /\ lab[l].rec = "running"
  /\ Put(l, IF lab[l].sup = "serving" THEN ServiceDown(lab[l])
            ELSE [lab[l] EXCEPT !.rec = "stopped"])
  /\ svc' = Nobody /\ op' = [op EXCEPT ![l] = Nobody]
  /\ UNCHANGED <<used, proc, pruning, leases, kills>>

----------------------------------------------------------------------------
(* Verification runs *)

(* runVerb: the source's lock, a new lab, then the lab's own lock *)
Run(p) ==
  /\ Doing(p, "idle") /\ Open(op[Home])
  /\ op' = [op EXCEPT ![Home] = p]
  /\ proc' = [proc EXCEPT ![p] = [NoCommand EXCEPT !.pc = "create"]]
  /\ UNCHANGED <<lab, used, svc, pruning, leases, kills>>

(* runLabTransactionUnlocked reads the manifest and refuses a lab mid-run *)
Enterable(l) == Open(op[l]) /\ Leasable /\ lab[l].state \notin {"none", "applying"}
Enter(p) ==
  LET l == proc[p].on IN
  /\ Doing(p, "enter")
  /\ \/ /\ Enterable(l)
        /\ proc' = [proc EXCEPT ![p].pc = "begin", ![p].saw = lab[l]]
        /\ op' = [op EXCEPT ![l] = p] /\ Lease(p)
     \/ ~Enterable(l) /\ GoTo(p, "release") /\ UNCHANGED <<op, leases>>
  /\ UNCHANGED <<lab, used, svc, pruning, kills>>

(* runLabVerify: the retained installation of a lab that is no mirror.     *)
(* .verify.lock lies outside the operation lock that is taken here.        *)
Verify(p, l) ==
  /\ Doing(p, "idle") /\ Enterable(l) /\ ~lab[l].mirror
  /\ proc' = [proc EXCEPT ![p] = [NoCommand EXCEPT !.pc = "begin", !.on = l, !.saw = lab[l]]]
  /\ op' = [op EXCEPT ![l] = p] /\ Lease(p)
  /\ UNCHANGED <<lab, used, svc, pruning, kills>>

(* What a run writes is the manifest it has read, with the new state *)
Written(p, state) ==
  LET l == proc[p].on IN
  [lab[l] EXCEPT !.state = state, !.mirror = proc[p].saw.mirror,
                 !.inherited = proc[p].saw.inherited, !.doomed = proc[p].saw.doomed]

BeginRun(p) ==
  /\ Doing(p, "begin") /\ GoTo(p, "step")
  /\ Put(proc[p].on, Written(p, "applying"))
  /\ UNCHANGED <<used, svc, op, pruning, leases, kills>>

(* The steps of the plan, the boot and the probes; a throw leaves the      *)
(* manifest as it is, only a booted DSH is stopped.                        *)
Throw(p) ==
  LET l == proc[p].on IN
  /\ Doing(p, "step") /\ GoTo(p, "release")
  /\ UNCHANGED <<lab, used, svc, op, pruning, leases, kills>>
Probe(p) ==
  LET l == proc[p].on IN
  /\ Doing(p, "step") /\ ~lab[l].dsh /\ Put(l, [lab[l] EXCEPT !.dsh = TRUE]) /\ GoTo(p, "probe")
  /\ UNCHANGED <<used, svc, op, pruning, leases, kills>>
Unboot(p) ==
  LET l == proc[p].on IN
  /\ Doing(p, "probe") /\ Put(l, [lab[l] EXCEPT !.dsh = FALSE])
  /\ \E then \in {"verdict", "release"} : GoTo(p, then)
  /\ UNCHANGED <<used, svc, op, pruning, leases, kills>>

(* Failures are kept with an expiry, a success only on request *)
Verdict(p) ==
  LET l == proc[p].on IN
  /\ Doing(p, "verdict") /\ GoTo(p, "release")
  /\ \/ Put(l, [Written(p, "failed") EXCEPT !.doomed = TRUE])
     \/ Put(l, [Written(p, "passed") EXCEPT !.doomed = FALSE])
     \/ Put(l, Removed(lab[l]))
  /\ UNCHANGED <<used, svc, op, pruning, leases, kills>>

----------------------------------------------------------------------------
(* Cleaning up *)

(* destroyLab: the operation lock of the lab, then .service.lock; a live   *)
(* service and a run are refused.                                          *)

(* Mutant: destroyLab takes the operation lock alone *)
MayDestroyAlone(l) == Open(op[l])

MayDestroy(l) == Open(op[l]) /\ svc = Nobody

Destroyable(l) == lab[l].state \notin {"none", "applying"} /\ lab[l].rec # "running"
Destroy(p, l) ==
  /\ Doing(p, "idle") /\ MayDestroy(l) /\ Destroyable(l)
  /\ op' = [op EXCEPT ![l] = p] /\ svc' = p
  /\ proc' = [proc EXCEPT ![p] = [NoCommand EXCEPT !.pc = "destroy", !.on = l]]
  /\ UNCHANGED <<lab, used, pruning, leases, kills>>
Remove(p) ==
  LET l == proc[p].on IN
  /\ Doing(p, "destroy") /\ GoTo(p, "release") /\ Put(l, Removed(lab[l]))
  /\ UNCHANGED <<used, svc, op, pruning, leases, kills>>

(* reapExpiredLabs: every directory in turn, without any lock *)
Reap(p) ==
  /\ Doing(p, "idle")
  /\ LET found == {l \in Labs : lab[l].state # "none"} IN
     found # {} /\ proc' = [proc EXCEPT ![p] = [NoCommand EXCEPT !.pc = "reap", !.todo = found]]
  /\ UNCHANGED <<lab, used, svc, op, pruning, leases, kills>>
Inspect(p, l) ==
  /\ Doing(p, "reap") /\ l \in proc[p].todo
  /\ proc' = [proc EXCEPT ![p].todo = @ \ {l}, ![p].on = l,
                ![p].pc = IF lab[l].state = "failed" /\ lab[l].doomed THEN "expired" ELSE "reap"]
  /\ UNCHANGED <<lab, used, svc, op, pruning, leases, kills>>
ReapOne(p) ==
  /\ Doing(p, "expired") /\ GoTo(p, "reap") /\ Put(proc[p].on, Removed(lab[proc[p].on]))
  /\ UNCHANGED <<used, svc, op, pruning, leases, kills>>
Reaped(p) == Doing(p, "reap") /\ proc[p].todo = {} /\ GoTo(p, "release")
             /\ UNCHANGED <<lab, used, svc, op, pruning, leases, kills>>

(* prunePackageCache: the operator vouches for the children of dead owners *)
PruneCache(p) ==
  /\ Doing(p, "idle") /\ Open(pruning)
  /\ pruning' = p /\ GoTo(p, "leases")
  /\ UNCHANGED <<lab, used, svc, op, leases, kills>>
DropLeases(p) ==
  /\ Doing(p, "leases")
  /\ IF \A q \in leases : Dead(q)
       THEN leases' = {} /\ GoTo(p, "labs") /\ UNCHANGED pruning
       ELSE pruning' = Nobody /\ proc' = [proc EXCEPT ![p] = NoCommand] /\ UNCHANGED leases
  /\ UNCHANGED <<lab, used, svc, op, kills>>
CheckLabs(p) ==
  /\ Doing(p, "labs")
  /\ IF \A l \in Labs : lab[l].state # "applying" /\ lab[l].rec # "running"
       THEN GoTo(p, "prune") /\ UNCHANGED pruning
       ELSE pruning' = Nobody /\ proc' = [proc EXCEPT ![p] = NoCommand]
  /\ UNCHANGED <<lab, used, svc, op, leases, kills>>
Pruned(p) ==
  /\ Doing(p, "prune") /\ pruning' = Nobody /\ proc' = [proc EXCEPT ![p] = NoCommand]
  /\ UNCHANGED <<lab, used, svc, op, leases, kills>>

KillRunner(p) ==
  /\ kills < MaxKills /\ proc[p].pc \notin {"idle", "dead"} /\ kills' = kills + 1
  /\ GoTo(p, "dead")
  /\ UNCHANGED <<lab, used, svc, op, pruning, leases>>
KillSupervisor(l) ==
  /\ kills < MaxKills /\ lab[l].sup # "none" /\ kills' = kills + 1
  /\ Put(l, [lab[l] EXCEPT !.sup = "none"])
  /\ UNCHANGED <<used, proc, svc, op, pruning, leases>>

----------------------------------------------------------------------------
Supervise(l) ==
  \/ Boot(l) \/ BootFails(l) \/ ForkerLost(l) \/ CheckFails(l) \/ Serve(l) \/ NoticeExit(l)

(* A command that has begun goes on: timers and children end *)
Proceed(p) ==
  \/ Apply(p) \/ InstallFails(p) \/ Fork(p) \/ Ready(p) \/ Gone(p) \/ TimedOut(p)
  \/ Fail(p) \/ Release(p)

LabNext ==
  \/ \E p \in Runner :
       \/ Proceed(p) \/ CreateFails(p) \/ Run(p) \/ Enter(p) \/ BeginRun(p) \/ Throw(p) \/ Probe(p)
       \/ Unboot(p) \/ Verdict(p) \/ Remove(p) \/ Reap(p) \/ ReapOne(p) \/ Reaped(p)
       \/ PruneCache(p) \/ DropLeases(p) \/ CheckLabs(p) \/ Pruned(p) \/ KillRunner(p)
       \/ \E h \in Labs \union {Home} : StartNew(p, h)
       \/ \E l \in Labs : \/ StartAgain(p, l) \/ CreateLab(p, l) \/ Stop(p, l)
                          \/ Verify(p, l) \/ Destroy(p, l) \/ Inspect(p, l)
  \/ \E l \in Labs : Supervise(l) \/ DshExits(l) \/ KillSupervisor(l)

LabSpec == LabInit /\ [][LabNext]_labVars

(* Installs end, a supervisor reports or the 130 seconds pass *)
LabFairSpec == LabSpec /\ \A p \in Runner : WF_labVars(Proceed(p))

----------------------------------------------------------------------------
(* Properties *)

Working(p, l) == proc[p].on = l
                 /\ proc[p].pc \in {"apply", "install", "wait", "fail", "begin", "step", "probe", "verdict"}

(* cleanup.ts "destroy refuses mid-run labs": from the check to the        *)
(* removal nobody starts, runs or serves the lab that is being destroyed.  *)
DestroyedIsIdle ==
  \A p \in Runner : Doing(p, "destroy") =>
    LET l == proc[p].on IN
    /\ \A q \in Runner \ {p} : ~Working(q, l)
    /\ lab[l].rec # "running"

(* cache-maintenance.ts: `pnpm store prune` and an installation never run  *)
(* at the same time.                                                       *)
PruneAlone ==
  \A p, q \in Runner : Doing(p, "prune") => proc[q].pc \notin {"install", "step"}

(* Nothing runs in a lab that is being destroyed, and the package cache is *)
(* pruned while nothing installs from it.                                  *)
RemovesIdle == DestroyedIsIdle /\ PruneAlone

(* lab-service.ts: a mirror whose start is not killed is not left          *)
(* "applying", which no destroy and no reaper would touch.                 *)
MirrorSettles ==
  \A p \in Runner : \A l \in Labs :
    Doing(p, "install") /\ proc[p].on = l
      ~> Doing(p, "dead") \/ (Doing(p, "release") /\ lab[l].state # "applying")

=============================================================================
