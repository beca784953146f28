------------------------------ MODULE Management -------------------------------
(***************************************************************************)
(* The management API of a home: POSTs accepted by web/api.ts, checked by  *)
(* web/action-schema.ts and dispatched by web/operations.ts and            *)
(* web/extended-actions.ts to the labs with their aliases (lab/aliases.ts) *)
(* and the default line (lab/defaults.ts).  Requests are served            *)
(* concurrently; one that is refused leaves no trace and is no step.  What *)
(* a retry of a request does is in Idempotency, the board of jobs in Jobs, *)
(* the commands themselves in Lab, Vault, Merge and their like.            *)
(*                                                                         *)
(* Two locks matter here: labs/.service.lock, and the operation lock of a  *)
(* lab's home, which is one lock per profile name; "vault" is another.     *)
(***************************************************************************)
EXTENDS Naturals

CONSTANTS
  Requests,
  MaxLabs,      (* lab ids are 1..MaxLabs, in the order of their creation    *)
  Names,        (* aliases                                                 *)
  Served,       (* the lab this server runs in, currentId                  *)
  None

VARIABLES
  lab,          (* each lab: home directory, manifest.json, service.json   *)
  next,         (* the next id                                             *)
  default,      (* .defaults.json of the profile                           *)
  svc,          (* holder of .service.lock                                 *)
  op,           (* holder of the profile's operation lock in each lab      *)
  req           (* each request: where it is, its lab, what it has read    *)

managementVars == <<lab, next, default, svc, op, req>>

Labs == 1..MaxLabs
NoLab == [home |-> FALSE, there |-> FALSE, alias |-> None, mirror |-> FALSE,
          mine |-> TRUE, state |-> "none", runs |-> FALSE]
Mirror == [home |-> TRUE, there |-> TRUE, alias |-> None, mirror |-> TRUE,
           mine |-> TRUE, state |-> "passed", runs |-> TRUE]
Experiment == [Mirror EXCEPT !.mirror = FALSE, !.runs = FALSE]
NoRequest == [at |-> "none", does |-> "none", on |-> None, name |-> None, saw |-> NoLab]

(* The line that serves and a second lab: a line of this profile or of     *)
(* another, or an experiment.                                              *)
Init ==
  /\ \E second \in {Experiment, [Mirror EXCEPT !.runs = FALSE],
                     [Mirror EXCEPT !.runs = FALSE, !.mine = FALSE]} :
       lab = [l \in Labs |-> IF l = Served THEN Mirror
                             ELSE IF l = 2 THEN second ELSE NoLab]
  /\ next = 3 /\ default = None /\ svc = None
  /\ op = [l \in Labs |-> None]
  /\ req = [r \in Requests |-> NoRequest]

At(r, at) == req[r].at = at
Does(r, does) == req[r].does = does
Goes(r, at) == req' = [req EXCEPT ![r].at = at]
Ends(r) == req' = [req EXCEPT ![r] = NoRequest]
On(r) == req[r].on

(* listLabs names the directories; a manifest of them may be missing *)
Listed == {l \in Labs : lab[l].home \/ lab[l].there}

(* resolveLabId of an alias: the newest first, and none may be unreadable *)
Resolves(name, l) ==
  /\ lab[l].there /\ lab[l].alias = name
  /\ \A n \in Listed : n > l => lab[n].there /\ lab[n].alias # name

(* assertAliasAvailable *)
Available(name, except) ==
  \A n \in Listed : n # except => lab[n].there /\ lab[n].alias # name

----------------------------------------------------------------------------
(* The request *)

(* writes of a line's own, with the fields action-schema.ts requires *)
OfLine == {"alias", "default", "start", "stop", "restart", "destroy", "verify"}
OfHome == {"snapshot", "storage-prune-apply"}
Named == {"alias", "create"}
Experiments == {"lab-add", "lab-config-apply"}
Actions == OfLine \union OfHome \union Experiments \union {"create"}
Large == {"lab-config-apply", "environment-import"}
Posts == [allowed : BOOLEAN, origin : {"same", "other"}, type : {"json", "other"},
          bytes : {"few", "many"}, action : Actions, fields : {"right", "wrong"}]

(* the POST handler: authenticated, of the same origin, JSON, and small    *)
(* but for two actions                                                     *)
Admitted(post) ==
  /\ post.allowed /\ post.origin = "same" /\ post.type = "json"
  /\ post.bytes = "few" \/ (post.bytes = "many" /\ post.action \in Large)

(* validateAction: a known action, its fields and no other, none empty *)
Valid(post) == post.action \in Actions /\ post.fields = "right"
Accepted == {post \in Posts : Admitted(post) /\ Valid(post)}

(* the selection of a line: resolved, of this profile, and for what works  *)
(* in its home not being prepared                                          *)
MayServe(does, l) ==
  /\ lab[l].there /\ lab[l].mine
  /\ does \in OfHome => lab[l].state # "applying"
  /\ does \in {"stop", "destroy", "restart"} => l # Served
  /\ does = "restart" => lab[l].mirror
  /\ does = "verify" => ~lab[l].mirror

Accept(r) ==
  /\ At(r, "none")
  /\ \E post \in Accepted, l \in Labs \union {None}, name \in Names \union {None} :
       /\ (post.action \in Experiments \union {"create"}) <=> (l = None)
       /\ (post.action \in Named) <=> (name # None)
       /\ l # None =>
            /\ lab[l].alias # None => Resolves(lab[l].alias, l)
            /\ MayServe(post.action, l)
       /\ req' = [req EXCEPT ![r] = 
            [NoRequest EXCEPT !.at = "checked", !.on = l, !.name = name,
               !.does = IF post.action \in Experiments THEN "lab-add" ELSE post.action]]
  /\ UNCHANGED <<lab, next, default, svc, op>>

(* acquireLock refuses a held lock: the request is answered with the error *)
Refused(r) ==
  /\ At(r, "checked") \/ At(r, "stopped")
  /\ svc # None \/ (On(r) # None /\ op[On(r)] \notin {None, r})
  /\ Ends(r)
  /\ op' = [l \in Labs |-> IF op[l] = r THEN None ELSE op[l]]
  /\ UNCHANGED <<lab, next, default, svc>>

(* .service.lock, and the operation lock of the lab when it is taken too *)
Lock(r, at) ==
  /\ svc = None /\ svc' = r
  /\ req' = [req EXCEPT ![r].at = at, ![r].saw = IF On(r) = None THEN NoLab ELSE lab[On(r)]]
LockBoth(r, at) ==
  /\ op[On(r)] \in {None, r} /\ op' = [op EXCEPT ![On(r)] = r]
  /\ Lock(r, at)
Done(r) ==
  /\ Ends(r)
  /\ svc' = IF svc = r THEN None ELSE svc
  /\ op' = [l \in Labs |-> IF op[l] = r THEN None ELSE op[l]]

(* What is read under the locks refuses the request *)
GiveUp(r) ==
  /\ req[r].at \in {"rename", "choose", "boot", "halt", "remove", "capture"}
  /\ ~req[r].saw.there \/ req[r].saw.state = "applying"
     \/ (At(r, "rename") /\ ~Available(req[r].name, On(r)))
     \/ (At(r, "choose") /\ ~req[r].saw.mirror)
     \/ (At(r, "remove") /\ req[r].saw.runs)
     \/ (At(r, "boot") /\ (req[r].saw.runs \/ ~req[r].saw.mirror))
  /\ Done(r) /\ UNCHANGED <<lab, next, default>>
Usable(r) == req[r].saw.there /\ req[r].saw.state # "applying"

----------------------------------------------------------------------------
(* alias: what was read under .service.lock is written with the new name,  *)
(* whatever a verification run has written since; the write makes the      *)
(* directory again if it went.                                             *)
Rename(r) ==
  /\ At(r, "checked") /\ Does(r, "alias")
  /\ Lock(r, "rename") /\ UNCHANGED <<lab, next, default, op>>
Renamed(r) ==
  /\ At(r, "rename") /\ Usable(r) /\ Available(req[r].name, On(r))
  /\ lab' = [lab EXCEPT ![On(r)] = [req[r].saw EXCEPT !.alias = req[r].name,
                                                      !.home = lab[On(r)].home]]
  /\ Done(r) /\ UNCHANGED <<next, default>>

(* default: a line of this profile *)
Choose(r) ==
  /\ At(r, "checked") /\ Does(r, "default")
  /\ Lock(r, "choose") /\ UNCHANGED <<lab, next, default, op>>
Chosen(r) ==
  /\ At(r, "choose") /\ Usable(r) /\ req[r].saw.mirror
  /\ default' = On(r) /\ Done(r) /\ UNCHANGED <<lab, next>>

(* create: the directory, then the manifest, then the start *)
Create(r) ==
  /\ At(r, "checked") /\ Does(r, "create")
  /\ next \in Labs /\ Available(req[r].name, None)
  /\ svc = None /\ svc' = r
  /\ lab' = [lab EXCEPT ![next].home = TRUE]
  /\ req' = [req EXCEPT ![r].at = "made", ![r].on = next]
  /\ next' = next + 1 /\ UNCHANGED <<default, op>>
Register(r) ==
  /\ At(r, "made") /\ Does(r, "create")
  /\ lab' = [lab EXCEPT ![On(r)] = [Mirror EXCEPT !.alias = req[r].name, !.state = "applying",
                                                  !.runs = FALSE]]
  /\ Goes(r, "start") /\ UNCHANGED <<next, default, svc, op>>

(* start: a stopped line again; a new one that fails gives its name back *)
Start(r) ==
  /\ At(r, "checked") \/ At(r, "stopped")
  /\ req[r].does \in {"start", "restart"}
  /\ LockBoth(r, "boot") /\ UNCHANGED <<lab, next, default>>
Boot(r) ==
  /\ At(r, "boot") /\ Usable(r) /\ req[r].saw.mirror /\ ~req[r].saw.runs
  /\ lab' = [lab EXCEPT ![On(r)].state = "applying"]
  /\ Goes(r, "start") /\ UNCHANGED <<next, default, svc, op>>
Started(r) ==
  /\ At(r, "start")
  /\ \E ok \in BOOLEAN :
       lab' = [lab EXCEPT ![On(r)].state = IF ok THEN "passed" ELSE "failed",
                          ![On(r)].runs = ok,
                          ![On(r)].alias = IF ok \/ ~Does(r, "create") THEN @ ELSE None]
  /\ Done(r) /\ UNCHANGED <<next, default>>

(* stop, and the first half of restart, which keeps the operation lock *)
Stop(r) ==
  /\ At(r, "checked") /\ req[r].does \in {"stop", "restart"}
  /\ LockBoth(r, "halt") /\ UNCHANGED <<lab, next, default>>
Stopped(r) ==
  /\ At(r, "halt") /\ Usable(r)
  /\ lab' = [lab EXCEPT ![On(r)].runs = FALSE]
  /\ IF Does(r, "restart")
       THEN Goes(r, "stopped") /\ svc' = None /\ UNCHANGED op
       ELSE Done(r)
  /\ UNCHANGED <<next, default>>

(* removeLabDefault *)
Forgotten(l) == default' = IF default = l THEN None ELSE default

(* destroy: the directory with its locks, then the default *)
Destroy(r) ==
  /\ At(r, "checked") /\ Does(r, "destroy")
  /\ LockBoth(r, "remove") /\ UNCHANGED <<lab, next, default>>
Remove(r) ==
  /\ At(r, "remove") /\ Usable(r) /\ ~req[r].saw.runs
  /\ lab' = [lab EXCEPT ![On(r)] = NoLab]
  /\ Goes(r, "removed") /\ UNCHANGED <<next, default, svc, op>>
Removed(r) ==
  /\ At(r, "removed")
  /\ Forgotten(On(r)) /\ Done(r) /\ UNCHANGED <<lab, next>>

(* lab-add and its like, a job: a new lab without .service.lock *)
Clone(r) ==
  /\ At(r, "checked") /\ Does(r, "lab-add") /\ next \in Labs
  /\ lab' = [lab EXCEPT ![next].home = TRUE]
  /\ req' = [req EXCEPT ![r].at = "made", ![r].on = next]
  /\ next' = next + 1 /\ UNCHANGED <<default, svc, op>>
Cloned(r) ==
  /\ At(r, "made") /\ Does(r, "lab-add")
  /\ lab' = [lab EXCEPT ![On(r)] = [Experiment EXCEPT !.state = "created"]]
  /\ req' = [req EXCEPT ![r].at = "checked", ![r].does = "verify"]
  /\ UNCHANGED <<next, default, svc, op>>

(* A run (also lab-verify, a job) writes what it read at its start again at *)
(* its end, or removes the lab when it is not kept.                        *)
Begin(r) ==
  LET l == On(r) IN
  /\ At(r, "checked") /\ Does(r, "verify")
  /\ op[l] = None /\ lab[l].there /\ lab[l].state # "applying"
  /\ op' = [op EXCEPT ![l] = r]
  /\ lab' = [lab EXCEPT ![l].state = "applying"]
  /\ req' = [req EXCEPT ![r].at = "run", ![r].saw = lab[l]]
  /\ UNCHANGED <<next, default, svc>>
End(r) ==
  /\ At(r, "run")
  /\ \/ \E state \in {"passed", "failed"} :
          lab' = [lab EXCEPT ![On(r)] = [req[r].saw EXCEPT !.state = state]]
     \/ lab' = [lab EXCEPT ![On(r)] = NoLab]
  /\ Done(r) /\ UNCHANGED <<next, default>>

(* snapshot: the line is selected again under .service.lock *)
Capture(r) ==
  /\ At(r, "checked") /\ Does(r, "snapshot")
  /\ Lock(r, "capture") /\ UNCHANGED <<lab, next, default, op>>
Captured(r) ==
  /\ At(r, "capture") /\ Usable(r)
  /\ Done(r) /\ UNCHANGED <<lab, next, default>>

(* storage-prune-apply: the lock of the vault is made in the home that was *)
(* selected, or in the directory of a lab that is gone.                    *)
Prune(r) ==
  /\ At(r, "checked") /\ Does(r, "storage-prune-apply")
  /\ lab' = [lab EXCEPT ![On(r)].home = TRUE]
  /\ Ends(r) /\ UNCHANGED <<next, default, svc, op>>

Handle(r) ==
  \/ Refused(r) \/ GiveUp(r)
  \/ Rename(r) \/ Renamed(r) \/ Choose(r) \/ Chosen(r)
  \/ Create(r) \/ Register(r) \/ Start(r) \/ Boot(r) \/ Started(r)
  \/ Stop(r) \/ Stopped(r) \/ Destroy(r) \/ Remove(r) \/ Removed(r)
  \/ Clone(r) \/ Cloned(r) \/ Begin(r) \/ End(r)
  \/ Capture(r) \/ Captured(r) \/ Prune(r)

Next == \E r \in Requests : Accept(r) \/ Handle(r)

----------------------------------------------------------------------------
(* aliases.ts: no two lines have one name, though renames, creations and   *)
(* failed starts interleave.  Experiments are left out: a run that ends    *)
(* writes back the name it read at its start.                              *)
NamesUnique ==
  \A l, n \in Labs :
    lab[l].there /\ lab[n].there /\ lab[l].mirror /\ lab[n].mirror
      /\ lab[l].alias # None /\ lab[l].alias = lab[n].alias => l = n

(* defaults.ts: the default is a line of this profile that is there, but   *)
(* while the one who removes it still holds the lock.                      *)
DefaultIsLine ==
  default # None =>
    \/ lab[default].there /\ lab[default].home /\ lab[default].mirror /\ lab[default].mine
    \/ svc # None /\ At(svc, "removed") /\ On(svc) = default

(* operations.ts, stopOrDestroyAction: requests of a page do not take down *)
(* the line that serves it.                                                *)
ServedStays == lab[Served].home /\ lab[Served].there /\ lab[Served].runs

(* Whoever works on a line under .service.lock works on a whole one, whose *)
(* manifest is the one it read.                                            *)
WorksOnWhole ==
  \A r \in Requests :
    req[r].at \in {"rename", "choose", "boot", "halt", "capture"} /\ req[r].saw.mirror
      => lab[On(r)] = req[r].saw

ManagementSound == NamesUnique /\ DefaultIsLine /\ ServedStays /\ WorksOnWhole

=============================================================================
