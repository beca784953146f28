------------------------------- MODULE Companion ------------------------------
(***************************************************************************)
(* The pet plugin's page: the mood it derives from the session it follows  *)
(* (client/mood.ts, client/mood-source.ts) and what it posts to the        *)
(* desktop application (client/bridge.ts, client/desktop-pets.ts).         *)
(*                                                                         *)
(* The shell offers sessions in one of two shapes: "provide", a channel to *)
(* the current conversation with its turns, and "binding", a list and the  *)
(* faces of the sessions that are materialised.  The application may be    *)
(* away, or answer posts in any order.                                     *)
(***************************************************************************)
EXTENDS Naturals, Sequences, SequencesExt

CONSTANTS
  Sessions,
  MaxTurns,     (* bound: turns of a session                               *)
  MaxPosts,     (* bound: posts in flight                                  *)
  None

VARIABLES
  shape,        (* of the sessions service                                 *)
  host,         (* each session: what it does, and the turns it has ended  *)
  bound,        (* the sessions with a face                                *)
  current,      (* the session the page is on                              *)
  adapter,      (* SessionFaceAdapter: wasRunning and the turn ends it saw *)
  machine,      (* PetStateMachine                                         *)
  enabled,      (* the setting companionEnabled                            *)
  lastSent,     (* what the bridge believes the application has            *)
  flight,       (* posts without an answer                                 *)
  newest,       (* how the newest post ended                               *)
  seen,         (* history: the turns of the current session at its last   *)
                (* snapshot, None before the first one                     *)
  unearned      (* history: a celebration began for a turn nobody saw end  *)

hostVars == <<shape, host, bound, current>>
petVars == <<adapter, machine, seen, unearned>>
bridgeVars == <<lastSent, flight, newest>>
companionVars == <<hostVars, petVars, bridgeVars, enabled>>

(* A session that works or waits for an approval is as one that thinks *)
Acts == {"thinking", "idle", "sad"}
Running(s) == host[s].act = "thinking"

----------------------------------------------------------------------------
(* PetStateMachine *)

FreshAdapter == [was |-> FALSE, count |-> 0]

(* update(null) *)
Forget(m) ==
  [base |-> "idle", count |-> None, pulse |-> None, asleep |-> m.asleep /\ m.count = None]

(* The count of the first snapshot is the baseline *)
Celebrates(m, slice) == m.count # None /\ slice.count > m.count /\ ~slice.running

(* update(snapshot): any change a user would notice wakes the pet *)
Update(m, slice) ==
  [base |-> slice.base, count |-> slice.count,
   pulse |-> IF Celebrates(m, slice) THEN "celebrating" ELSE m.pulse,
   asleep |-> m.asleep /\ <<m.base, m.count>> = <<slice.base, slice.count>>]

Mood(m) ==
  CASE m.pulse # None -> m.pulse
    [] m.pulse = None /\ m.base = "idle" /\ m.asleep -> "sleeping"
    [] OTHER -> m.base

----------------------------------------------------------------------------
(* DesktopBridge: of what it posts, the mood *)

(* push: what is new is posted and remembered as sent *)
Send(mood) ==
  /\ Len(flight) < MaxPosts
  /\ lastSent' = mood /\ newest' = "flying"
  /\ flight' = Append([i \in DOMAIN flight |-> [flight[i] EXCEPT !.newest = FALSE]],
                      [body |-> mood, newest |-> TRUE])

Push(mood, on) ==
  IF on /\ mood # lastSent THEN Send(mood) ELSE UNCHANGED bridgeVars

(* The machine notifies the bridge of another mood *)
Notify == IF Mood(machine') # Mood(machine) THEN Push(Mood(machine'), enabled) ELSE UNCHANGED bridgeVars

----------------------------------------------------------------------------
(* The mood source *)

Init ==
  /\ shape \in {"provide", "binding"}
  /\ host \in [Sessions -> [act : {"idle", "thinking"}, ends : 0..1]]
  /\ bound \in IF shape = "binding" THEN SUBSET Sessions ELSE {{}}
  /\ current = None
  /\ adapter = FreshAdapter
  /\ machine = [base |-> "idle", count |-> None, pulse |-> None, asleep |-> FALSE]
  /\ enabled = TRUE
  /\ lastSent = Mood(machine) /\ newest = "flying"
  /\ flight = <<[body |-> lastSent, newest |-> TRUE]>>
  /\ seen = None /\ unearned = FALSE

(* machine.update with what the page sees of its session from the view     *)
(* `last` it had of it on                                                  *)
Feed(slice, last) ==
  /\ machine' = Update(machine, slice)
  /\ seen' = host'[current'].ends
  /\ unearned' = (unearned \/ (Celebrates(machine, slice)
                                /\ (last = None \/ last = host'[current'].ends)))

(* followProvideInfo: the conversation's own snapshot *)
FeedConversation(last) ==
  LET now == host'[current'] IN
  /\ Feed([running |-> now.act = "thinking", count |-> now.ends, base |-> now.act], last)
  /\ UNCHANGED adapter

(* SessionFaceAdapter.adapt: a turn has ended when running falls; a row of *)
(* the list knows of no error, and nobody of calls and approvals.          *)
FeedFace(a, last) ==
  LET now == host'[current']
      running == now.act = "thinking"
      count == IF a.was /\ ~running THEN a.count + 1 ELSE a.count
      base == IF running THEN "thinking"
              ELSE IF now.act = "sad" /\ current' \in bound' THEN "sad" ELSE "idle"
  IN  /\ adapter' = [was |-> running, count |-> count]
      /\ Feed([running |-> running, count |-> count, base |-> base], last)

(* The page goes to another session, or to none *)
Select(s) ==
  /\ s # current /\ current' = s
  /\ UNCHANGED <<shape, host, bound>>
  /\ IF s = None
     THEN /\ machine' = Forget(machine) /\ seen' = None
          /\ adapter' = FreshAdapter /\ UNCHANGED unearned
     ELSE IF shape = "provide" THEN FeedConversation(None) ELSE FeedFace(FreshAdapter, None)
  /\ Notify
  /\ UNCHANGED <<enabled>>

(* What the page sees when its session changes: a conversation or a face   *)
(* at once, a row of the list at its next revision.                        *)
Seen(s) ==
  \/ /\ s = current /\ shape = "provide" /\ FeedConversation(seen)
  \/ /\ s = current /\ shape = "binding" /\ FeedFace(adapter, seen)
  \/ /\ s # current \/ (shape = "binding" /\ s \notin bound)
     /\ UNCHANGED petVars

(* The agent's steps; a turn ends as it stops, or is marked a step earlier *)
Act(s, act) ==
  /\ act # host[s].act
  /\ LET ends == Running(s) /\ act # "thinking" IN
     /\ ends => host[s].ends < MaxTurns
     /\ host' = [host EXCEPT ![s] = [act |-> act, ends |-> IF ends THEN @.ends + 1 ELSE @.ends]]
  /\ UNCHANGED <<shape, bound, current>>
  /\ Seen(s) /\ Notify
  /\ UNCHANGED <<enabled>>

Mark(s) ==
  /\ shape = "provide" /\ Running(s) /\ host[s].ends < MaxTurns
  /\ host' = [host EXCEPT ![s].ends = @ + 1]
  /\ UNCHANGED <<shape, bound, current>>
  /\ Seen(s) /\ Notify
  /\ UNCHANGED <<enabled>>

(* The session's instance arrives: the list is revised and the face is     *)
(* followed from now on.                                                   *)
Bind(s) ==
  /\ shape = "binding" /\ s \notin bound
  /\ bound' = bound \cup {s}
  /\ UNCHANGED <<shape, host, current>>
  /\ IF s = current THEN FeedFace(adapter, seen) ELSE UNCHANGED petVars
  /\ Notify
  /\ UNCHANGED <<enabled>>

(* tick: a pulse is over, or five minutes without a change *)
Tick ==
  /\ \/ machine.pulse # None /\ machine' = [machine EXCEPT !.pulse = None]
     \/ machine.base = "idle" /\ ~machine.asleep /\ machine' = [machine EXCEPT !.asleep = TRUE, !.pulse = None]
  /\ Notify
  /\ UNCHANGED <<hostVars, adapter, seen, unearned, enabled>>

----------------------------------------------------------------------------
(* Settings, answers and the discovery *)

Configure ==
  /\ enabled' = ~enabled
  /\ Push(Mood(machine), enabled')
  /\ UNCHANGED <<hostVars, petVars>>

(* Mutant: a post that failed is remembered as sent *)
ForgetNot(post) == lastSent

(* forgetIfUnchanged *)
ForgetSent(post) == IF lastSent = post.body THEN None ELSE lastSent

(* Posts are answered in any order; they fail while the application is away *)
Answered(i, ok) ==
  /\ lastSent' = IF ok THEN lastSent ELSE ForgetSent(flight[i])
  /\ newest' = IF ~flight[i].newest THEN newest ELSE IF ok THEN "ok" ELSE "failed"
  /\ flight' = RemoveAt(flight, i)
  /\ UNCHANGED <<hostVars, petVars, enabled>>

(* The discovery: the application was away and answers, and is told again  *)
Discovered ==
  /\ IF enabled THEN Send(Mood(machine)) ELSE lastSent' = None /\ UNCHANGED <<flight, newest>>
  /\ UNCHANGED <<hostVars, petVars, enabled>>

Next ==
  \/ \E s \in Sessions \cup {None} : Select(s)
  \/ \E s \in Sessions : Mark(s) \/ Bind(s) \/ \E act \in Acts : Act(s, act)
  \/ Tick \/ Configure \/ Discovered
  \/ \E i \in DOMAIN flight, ok \in BOOLEAN : Answered(i, ok)

Spec == Init /\ [][Next]_companionVars

----------------------------------------------------------------------------
(* Properties *)

(* mood.ts update: "First sighting of a session (startup, or after a       *)
(* swap): whatever turn history it already carries is not ours to          *)
(* celebrate."                                                             *)
CelebratesWitnessed == ~unearned

(* bridge.ts push: whatever was on or off meanwhile, the bridge believes   *)
(* that the application has the present state or that it has none, and     *)
(* the former only where the newest post did not fail; and a celebration   *)
(* is for a turn that was seen to end, where the sessions have faces.      *)
CompanionHonest ==
  /\ enabled => lastSent \in {None, Mood(machine)}
  /\ lastSent # None => newest # "failed"
  /\ shape = "binding" => CelebratesWitnessed

=============================================================================
