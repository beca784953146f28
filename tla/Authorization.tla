--------------------------- MODULE Authorization -----------------------------
(***************************************************************************)
(* Who may enter: the login flows of packages/web-login/src/index.ts over  *)
(* the authorization document, the session store, the pending OAuth flows  *)
(* and the recovery record.  A visit is one request of a browser (an OAuth *)
(* flow is its two requests); every await of its handler is a point where  *)
(* the other visits run.  Visits stop half-way when the process restarts.  *)
(***************************************************************************)
EXTENDS FiniteSets, Integers

CONSTANTS
  Visits,       (* requests; a session's random id is the visit that opened it *)
  Users,        (* GitHub accounts                                             *)
  MaxSessions,  (* options.maxSessions                                         *)
  MaxPending,   (* options.githubMaxPendingStates                              *)
  MaxCallbacks, (* options.githubMaxConcurrentCallbacks                        *)
  MaxRestarts,  (* bound: restarts of the host                                 *)
  MaxAuthz,     (* bound: recoveries in a row                                  *)
  None, Unreadable

VARIABLES
  lifecycle, doc,  (* the mutable authorization snapshot of apply()      *)
  sessions,        (* the session store                                  *)
  pending,         (* OAuth states opened and not yet consumed           *)
  slots,           (* callbackGate: callbacks being handled              *)
  visit,           (* where each visit is, with its handler's locals     *)
  disk,            (* github-users.json and recovery.json                *)
  restored,        (* history: sessions read back by the last restart    *)
  restarts

authVars == <<lifecycle, doc, sessions, pending, slots, visit, disk, restored, restarts>>

(* users: the active ones, the first bound being the owner *)
Documents == [authz : Nat, users : SUBSET Users]

(* config.ts refuses a configuration with a limit below one.               *)
ASSUME VisitsAssumption == IsFiniteSet(Visits)
ASSUME LimitsAssumption ==
  MaxSessions \in Nat \ {0} /\ MaxPending \in Nat \ {0} /\ MaxCallbacks \in Nat \ {0}
ASSUME DocumentsAssumption == None \notin Documents /\ Unreadable \notin Documents
ASSUME NamesAssumption ==
  /\ None # Unreadable
  /\ {None, Unreadable} \cap {"login", "enroll", "recover"} = {}

Idle == [at |-> "idle", kind |-> None, initiator |-> None, user |-> None, save |-> None]
Done == [Idle EXCEPT !.at = "done"]
VisitAt(v, place) == visit[v].at = place
Held(v) == visit[v].at \in {"exchange", "saving", "saved", "clearing"}
           /\ visit[v].kind # "recover"

Session(v, kind, user, authz) == [id |-> v, kind |-> kind, user |-> user, authz |-> authz]
PasswordSession(v) == Session(v, "password", None, 0)

(* sessions.open: expired sessions are swept first; a full store refuses *)
Opened(held, s) == IF Cardinality(held) >= MaxSessions THEN held ELSE held \union {s}
Named(held, v) == {s \in held : s.id = v}

(* isEnrollEligiblePrincipal *)
EnrollEligible(s) ==
  \/ s.kind \in {"bootstrap", "recovery"}
  \/ s.kind = "password" /\ lifecycle \in {"bootstrap", "recovery"}

(* resolveLifecycle and loadAuthStartupState on what is on disk *)
StartupLifecycle ==
  IF disk.doc = Unreadable THEN "invalid"
  ELSE IF disk.recovery = "live" THEN "recovery"
  ELSE IF disk.doc = None \/ disk.doc.users = {} THEN "bootstrap"
  ELSE "active"
StartupDocument == IF disk.doc = Unreadable THEN None ELSE disk.doc

AuthzVersion == IF doc = None THEN 0 ELSE doc.authz

AuthInit ==
  /\ disk \in [doc : {None, Unreadable} \union {[authz |-> 1, users |-> {u}] : u \in Users},
               recovery : {"none"}]
  /\ lifecycle = StartupLifecycle
  /\ doc = StartupDocument
  /\ sessions = {} /\ pending = {} /\ slots = 0 /\ restored = {} /\ restarts = 0
  /\ visit = [v \in Visits |-> Idle]

----------------------------------------------------------------------------
(* POST /login *)

PasswordBegin(v) ==
  /\ VisitAt(v, "idle")
  /\ lifecycle # "invalid"
  /\ visit' = [visit EXCEPT ![v].at = "verifying", ![v].kind = lifecycle]
  /\ UNCHANGED <<lifecycle, doc, sessions, pending, slots, disk, restored, restarts>>

(* Mutant: the lifecycle the request found *)
PasswordPrincipalChosenEarly(v) ==
  IF visit[v].kind \in {"bootstrap", "recovery"}
  THEN Session(v, "bootstrap", None, 0) ELSE PasswordSession(v)

(* The principal depends on the lifecycle after the awaits, not on the one *)
(* the request found.                                                      *)
PasswordPrincipal(v) ==
  IF lifecycle \in {"bootstrap", "recovery"}
  THEN Session(v, "bootstrap", None, 0) ELSE PasswordSession(v)

PasswordSignIn(v) ==
  /\ VisitAt(v, "verifying")
  /\ sessions' = Opened(sessions, PasswordPrincipal(v))
  /\ visit' = [visit EXCEPT ![v] = Done]
  /\ UNCHANGED <<lifecycle, doc, pending, slots, disk, restored, restarts>>

PasswordRefused(v) ==
  /\ VisitAt(v, "verifying")
  /\ visit' = [visit EXCEPT ![v] = Done]
  /\ UNCHANGED <<lifecycle, doc, sessions, pending, slots, disk, restored, restarts>>

(* POST /auth/continue: skip the binding *)
Continue(v, s) ==
  /\ VisitAt(v, "idle") /\ s \in sessions
  /\ lifecycle # "invalid"
  /\ s.kind \in {"bootstrap", "recovery"}
  /\ Cardinality(sessions) < MaxSessions
  /\ sessions' = (sessions \ {s}) \union {PasswordSession(v)}
  /\ visit' = [visit EXCEPT ![v] = Done]
  /\ UNCHANGED <<lifecycle, doc, pending, slots, disk, restored, restarts>>

(* POST /logout, and an expiry that get() or sweep() notices *)
SessionEnds(s) ==
  /\ s \in sessions
  /\ sessions' = sessions \ {s}
  /\ restored' = restored \ {s}
  /\ UNCHANGED <<lifecycle, doc, pending, slots, visit, disk, restarts>>

----------------------------------------------------------------------------
(* GitHub *)

BeginOAuth(v, kind, initiator) ==
  /\ VisitAt(v, "idle")
  /\ Cardinality(pending) < MaxPending
  /\ pending' = pending \union {v}
  /\ visit' = [visit EXCEPT ![v] = [Idle EXCEPT !.at = "github", !.kind = kind, !.initiator = initiator]]
  /\ UNCHANGED <<lifecycle, doc, sessions, slots, disk, restored, restarts>>

GithubLogin(v) ==
  /\ lifecycle \in {"active", "recovery"}
  /\ BeginOAuth(v, "login", None)

GithubEnroll(v, s) ==
  /\ s \in sessions /\ EnrollEligible(s)
  /\ lifecycle \in {"bootstrap", "recovery"}
  /\ BeginOAuth(v, "enroll", s.id)

StateExpires(v) ==
  /\ v \in pending
  /\ pending' = pending \ {v}
  /\ UNCHANGED <<lifecycle, doc, sessions, slots, visit, disk, restored, restarts>>

(* The callback: the state is consumed on every path; only a consumed one  *)
(* with a code asks for a slot.                                            *)
Callback(v, cancelled) ==
  /\ VisitAt(v, "github")
  /\ pending' = pending \ {v}
  /\ IF ~cancelled /\ v \in pending /\ slots < MaxCallbacks
     THEN /\ slots' = slots + 1
          /\ visit' = [visit EXCEPT ![v].at = "exchange"]
     ELSE /\ visit' = [visit EXCEPT ![v] = Done]
          /\ UNCHANGED slots
  /\ UNCHANGED <<lifecycle, doc, sessions, disk, restored, restarts>>

(* Mutant: an end without the finally *)
ForgetSlot(v) ==
  /\ UNCHANGED slots
  /\ visit' = [visit EXCEPT ![v] = Done]

(* finally { callbackGate.release() }: every end of the callback *)
EndCallback(v) ==
  /\ slots' = slots - 1
  /\ visit' = [visit EXCEPT ![v] = Done]

Refuse(v) ==
  /\ EndCallback(v)
  /\ UNCHANGED <<lifecycle, doc, sessions, pending, disk, restored, restarts>>

Save(v, u, document) ==
  /\ visit' = [visit EXCEPT ![v].at = "saving", ![v].user = u, ![v].save = document]
  /\ UNCHANGED <<lifecycle, doc, sessions, pending, slots, disk, restored, restarts>>

MayBind(v) ==
  /\ lifecycle \in {"bootstrap", "recovery"}
  /\ \E s \in Named(sessions, visit[v].initiator) : EnrollEligible(s)
(* touchLastLogin: the document as it is when GitHub has answered *)
MayLogIn(u) == doc # None /\ lifecycle # "invalid" /\ u \in doc.users

(* exchangeCode, fetchGitHubUser and revokeAccessToken have answered (or   *)
(* one of them threw: Refuse), up to the next await                        *)
Exchanged(v, u) ==
  /\ VisitAt(v, "exchange")
  /\ CASE visit[v].kind = "enroll" /\ MayBind(v) -> Save(v, u, [authz |-> 1, users |-> {u}])
       [] visit[v].kind = "login" /\ MayLogIn(u) -> Save(v, u, doc)
       [] OTHER -> Refuse(v)

ExchangeFails(v) == VisitAt(v, "exchange") /\ Refuse(v)

(* writeSecureJson's rename; its promise resolves later *)
Rename(v) ==
  /\ VisitAt(v, "saving")
  /\ disk' = [disk EXCEPT !.doc = visit[v].save]
  /\ visit' = [visit EXCEPT ![v].at = "saved"]
  /\ UNCHANGED <<lifecycle, doc, sessions, pending, slots, restored, restarts>>

SaveFails(v) == VisitAt(v, "saving") /\ visit[v].kind = "enroll" /\ Refuse(v)

(* The first owner is bound: everyone else's session ends *)
Bind(v) ==
  /\ VisitAt(v, "saved") /\ visit[v].kind = "enroll"
  /\ doc' = visit[v].save
  /\ lifecycle' = "active"
  /\ sessions' = {} /\ restored' = {}
  /\ visit' = [visit EXCEPT ![v].at = "clearing"]
  /\ UNCHANGED <<pending, slots, disk, restarts>>

(* clearRecoveryRecord, whose failure is ignored, then admitFromOAuth *)
AdmitOwner(v, cleared) ==
  /\ VisitAt(v, "clearing")
  /\ disk' = [disk EXCEPT !.recovery = IF cleared THEN "none" ELSE @]
  /\ sessions' = Opened(sessions, Session(v, "github", visit[v].user, visit[v].save.authz))
  /\ EndCallback(v)
  /\ UNCHANGED <<lifecycle, doc, pending, restored, restarts>>

(* The login stamp: the document read before the await is put back, also   *)
(* when the save failed.                                                   *)
LogIn(v) ==
  /\ visit[v].kind = "login" /\ visit[v].at \in {"saving", "saved"}
  /\ doc' = visit[v].save
  /\ sessions' = Opened(sessions, Session(v, "github", visit[v].user, visit[v].save.authz))
  /\ EndCallback(v)
  /\ UNCHANGED <<lifecycle, pending, disk, restored, restarts>>

----------------------------------------------------------------------------
(* Recovery *)

(* dsh-web-login-recovery, a process of its own *)
CreateRecovery ==
  /\ disk.recovery # "live"
  /\ disk' = [disk EXCEPT !.recovery = "live"]
  /\ UNCHANGED <<lifecycle, doc, sessions, pending, slots, visit, restored, restarts>>

RecoveryExpires ==
  /\ disk.recovery = "live"
  /\ disk' = [disk EXCEPT !.recovery = "expired"]
  /\ UNCHANGED <<lifecycle, doc, sessions, pending, slots, visit, restored, restarts>>

(* GET /auth/recovery with the token of the record on disk *)
RecoveryLoaded(v) ==
  /\ VisitAt(v, "idle")
  /\ disk.recovery = "live"
  /\ visit' = [visit EXCEPT ![v] = [Idle EXCEPT !.at = "recovering", !.kind = "recover"]]
  /\ UNCHANGED <<lifecycle, doc, sessions, pending, slots, disk, restored, restarts>>

RecoveryConsumed(v) ==
  /\ VisitAt(v, "recovering")
  /\ AuthzVersion < MaxAuthz
  /\ disk' = [disk EXCEPT !.recovery = "none"]
  /\ visit' = [visit EXCEPT ![v].at = "saving",
                 ![v].save = [authz |-> AuthzVersion + 1, users |-> {}]]
  /\ UNCHANGED <<lifecycle, doc, sessions, pending, slots, restored, restarts>>

RecoveryFails(v) ==
  /\ visit[v].kind = "recover" /\ visit[v].at \in {"recovering", "saving"}
  /\ visit' = [visit EXCEPT ![v] = Done]
  /\ UNCHANGED <<lifecycle, doc, sessions, pending, slots, disk, restored, restarts>>

Recover(v) ==
  /\ VisitAt(v, "saved") /\ visit[v].kind = "recover"
  /\ doc' = visit[v].save
  /\ lifecycle' = "bootstrap"
  /\ sessions' = {Session(v, "recovery", None, visit[v].save.authz)} /\ restored' = {}
  /\ visit' = [visit EXCEPT ![v] = Done]
  /\ UNCHANGED <<pending, slots, disk, restarts>>

----------------------------------------------------------------------------

(* The host dies and boots: apply() again. The session file keeps what the *)
(* store last persisted, unless it is discarded (another verifier, other   *)
(* options, expired).                                                      *)
Restart ==
  /\ restarts < MaxRestarts
  /\ restarts' = restarts + 1
  /\ lifecycle' = StartupLifecycle
  /\ doc' = StartupDocument
  /\ sessions' \in {{}, sessions}
  /\ restored' = sessions'
  /\ pending' = {} /\ slots' = 0
  /\ visit' = [v \in Visits |-> IF VisitAt(v, "idle") THEN Idle ELSE Done]
  /\ UNCHANGED disk

(* A new request: its random ids are those of no session or OAuth flow *)
Again(v) ==
  /\ VisitAt(v, "done")
  /\ Named(sessions, v) = {}
  /\ \A w \in Visits : visit[w].initiator # v
  /\ visit' = [visit EXCEPT ![v] = Idle]
  /\ UNCHANGED <<lifecycle, doc, sessions, pending, slots, disk, restored, restarts>>

Progress(v) ==
  \/ (\E u \in Users : Exchanged(v, u)) \/ ExchangeFails(v)
  \/ Rename(v) \/ SaveFails(v) \/ Bind(v) \/ LogIn(v)
  \/ \E cleared \in BOOLEAN : AdmitOwner(v, cleared)

AuthNext ==
  \/ \E v \in Visits :
       \/ PasswordBegin(v) \/ PasswordSignIn(v) \/ PasswordRefused(v)
       \/ GithubLogin(v) \/ StateExpires(v)
       \/ \E s \in sessions : Continue(v, s) \/ GithubEnroll(v, s)
       \/ \E cancelled \in BOOLEAN : Callback(v, cancelled)
       \/ Progress(v)
       \/ RecoveryLoaded(v) \/ RecoveryConsumed(v) \/ RecoveryFails(v) \/ Recover(v)
       \/ Again(v)
  \/ \E s \in sessions : SessionEnds(s)
  \/ CreateRecovery \/ RecoveryExpires \/ Restart

AuthSpec == AuthInit /\ [][AuthNext]_authVars

----------------------------------------------------------------------------
(* Properties *)

(* Types, and the stores within their limits. *)
AuthTypeOK ==
  /\ lifecycle \in {"bootstrap", "active", "recovery", "invalid"}
  /\ doc = None \/ doc \in Documents
  /\ Cardinality(sessions) <= MaxSessions
  /\ Cardinality(pending) <= MaxPending

(* github-oauth-spec.zh-CN.md 7 and 126: a gate that is active has a       *)
(* document with an owner, and every session from before the binding was   *)
(* revoked, whatever callbacks, logins and recoveries were at an await     *)
(* meanwhile.  Only what a restart reads back from the disk may be older.  *)
ActiveIsBound ==
  /\ AuthTypeOK
  /\ lifecycle = "active" =>
       /\ doc # None /\ doc.users # {}
       /\ \A s \in sessions \ restored : s.kind \notin {"bootstrap", "recovery"}

(* createConcurrencyGate: the slots taken are the callbacks being handled, *)
(* whatever way each of them ends, and never more than allowed.            *)
SlotsAreCallbacks ==
  /\ slots = Cardinality({v \in Visits : Held(v)})
  /\ slots <= MaxCallbacks

(* An active gate has an owner and no session from before the binding, and *)
(* every callback gives its slot back.                                     *)
GateHonest == ActiveIsBound /\ SlotsAreCallbacks

=============================================================================
