----------------------------- MODULE DesktopPet ------------------------------
(***************************************************************************)
(* The desktop pet (pet-desktop/src): the model's update function          *)
(* (model.zig), which sees one message at a time, the state server whose   *)
(* connections feed it through a bounded channel (server.zig, state.zig),  *)
(* the saved line (persist.zig), and around it the image registry, the     *)
(* timers and the mouse.                                                   *)
(*                                                                         *)
(* An image is a pair of a pet and a strip.  Frames, geometry, the window's*)
(* position and the display name are left out.                             *)
(***************************************************************************)
EXTENDS Naturals, Sequences

CONSTANTS
  Pets, Fallback,       (* the manifest's pets, and its first one           *)
  Dedicated,            (* the pets with a dedicated drag strip             *)
  Stranger, Null,       (* a pet id the manifest does not list              *)
  Moods,                (* "working" and "pet" are two of them              *)
  MaxChannel,           (* lines the channel holds                          *)
  MaxPosts, MaxRestarts (* bounds: lines posted, restarts of the app        *)

ASSUME PetsAssumption == Fallback \in Pets /\ Null \notin Pets

VARIABLES
  manifest,             (* sprites/manifest.json was read                   *)
  petId, shown, mood,   (* the id heard last, the pet drawn, its mood       *)
  status,               (* strip_status, drag_status: of every image        *)
  flight, registered,   (* the SDK's loads in flight and registry slots     *)
  hovering, pace,       (* the strip whose cadence the frame timer has      *)
  channel, saved,       (* the bridge's lines; the state file               *)
  dragging, following,  (* the drag, its timer                              *)
  precise, recent,      (* its timer resolution, drag_end_ms                *)
  button, click, stray, (* the physical button, a press on its way, an echo counted as a click *)
  posts, restarts

petVars == <<petId, shown, mood, status, flight, registered, hovering, pace>>
bridgeVars == <<channel, saved, posts>>
mouseVars == <<dragging, following, precise, recent, button, click, stray>>
desktopVars == <<manifest, petVars, bridgeVars, mouseVars, restarts>>

Strips(p) == Moods \union (IF p \in Dedicated THEN {"drag"} ELSE {})
Images == UNION {{p} \X Strips(p) : p \in Pets}
Of(p) == {p} \X Strips(p)
Listed(id) == IF manifest /\ id \in Pets THEN id ELSE Fallback

(* effectiveMood with spriteImageId: the strip that is drawn *)
Drawn(p, m, hovers, carried) ==
  IF carried THEN (IF p \in Dedicated THEN "drag" ELSE "working")
  ELSE IF hovers THEN "pet" ELSE m

(* loadPetSet: the pet's images a load is issued for *)
Missing(p, st) == IF manifest THEN {i \in Of(p) : st[i] = "unloaded"} ELSE {}

(* applyStateLine: a field that is absent changes nothing *)
Told(field, old) == IF field = Null THEN old ELSE field

----------------------------------------------------------------------------
(* boot *)

Line == [mood : Moods \union {Null}, pet : Pets \union {Stranger, Null}]

NoLine == [mood |-> Null, pet |-> Null]

(* boot, restoreSavedState: the pet shown first, and its strips, whose     *)
(* loads are issued before any other message.                              *)
Restored(line, readable) == IF readable /\ line.pet \in Pets THEN line.pet ELSE Fallback
Wanted(line, readable) == IF readable THEN Of(Restored(line, readable)) ELSE {}

(* The channel is refused, or its server does not start, or it is open. *)
Channels == {<<>>, Null}

PetInit ==
  /\ manifest \in BOOLEAN
  /\ saved = NoLine /\ petId = Null /\ shown = Fallback /\ mood = "working"
  /\ flight = Wanted(NoLine, manifest) /\ registered = {}
  /\ status = [i \in Images |-> IF i \in flight THEN "loading" ELSE "unloaded"]
  /\ hovering = FALSE /\ pace = "working" /\ channel \in Channels
  /\ dragging = FALSE /\ following = FALSE /\ precise = 0 /\ recent = FALSE
  /\ click = "none" /\ stray = FALSE /\ button = FALSE /\ posts = 0 /\ restarts = 0

(* The app is quit or dies, and is started again. *)
Restart ==
  /\ restarts < MaxRestarts /\ restarts' = restarts + 1
  /\ manifest' \in BOOLEAN
  /\ petId' = saved.pet /\ shown' = Restored(saved, manifest')
  /\ mood' = Told(saved.mood, "working") /\ pace' = mood'
  /\ flight' = Wanted(saved, manifest') /\ registered' = {}
  /\ status' = [i \in Images |-> IF i \in flight' THEN "loading" ELSE "unloaded"]
  /\ hovering' = FALSE /\ channel' \in Channels
  /\ dragging' = FALSE /\ following' = FALSE /\ precise' = 0 /\ recent' = FALSE
  /\ click' = "none" /\ stray' = FALSE
  /\ UNCHANGED <<saved, button, posts>>

----------------------------------------------------------------------------
(* The bridge *)

(* handleConnection: each request has a thread, so lines arrive in any     *)
(* order; what the channel cannot hold is dropped and answered with 200.   *)
PostState(line) ==
  /\ channel # Null /\ posts < MaxPosts
  /\ posts' = posts + 1
  /\ channel' = IF Len(channel) < MaxChannel THEN Append(channel, line) ELSE channel
  /\ UNCHANGED <<manifest, petVars, saved, mouseVars, restarts>>

(* switchPet: the old pet's loaded strips leave the registry at once, its  *)
(* loads in flight are left to image_done.                                 *)
Switched(p) ==
  IF p = shown THEN UNCHANGED <<shown, status, flight, registered>>
  ELSE LET dropped == [i \in Images |->
                         IF i \in Of(shown) /\ status[i] = "loaded" THEN "unloaded" ELSE status[i]]
           wanted == Missing(p, dropped) IN
       /\ shown' = p
       /\ registered' = registered \ {i \in Of(shown) : status[i] = "loaded"}
       /\ flight' = flight \union wanted
       /\ status' = [i \in Images |-> IF i \in wanted THEN "loading" ELSE dropped[i]]

(* saveStateLine, at best effort: a write that fails leaves the old line,  *)
(* or the file it has truncated.                                           *)
Saves(line) == {line, saved, NoLine}

(* state_event, data: the merged state is saved, not the line *)
StateEvent ==
  /\ channel # Null /\ channel # <<>>
  /\ LET line == Head(channel) IN
     /\ petId' = Told(line.pet, petId)
     /\ IF petId' # petId THEN Switched(Listed(line.pet))
        ELSE UNCHANGED <<shown, status, flight, registered>>
     /\ mood' = Told(line.mood, mood)
     /\ pace' = IF mood' # mood THEN Drawn(shown', mood', hovering, dragging) ELSE pace
  /\ saved' \in Saves([mood |-> mood', pet |-> petId'])
  /\ channel' = Tail(channel)
  /\ UNCHANGED <<manifest, hovering, mouseVars, posts, restarts>>

(* Mutant: a strip of a pet that was left stays registered *)
StaleKept(i) == FALSE

(* image_done: a load of a pet that was left in the meantime *)
Stale(i) == i[1] # shown

(* image_done: a strip that failed is not loaded until the pet is chosen again *)
ImageDone(i, loaded) ==
  LET kept == loaded /\ ~Stale(i) IN
  /\ i \in flight /\ flight' = flight \ {i}
  /\ status' = [status EXCEPT ![i] = IF kept THEN "loaded" ELSE "unloaded"]
  /\ registered' = IF kept THEN registered \union {i} ELSE registered
  /\ UNCHANGED <<manifest, petId, shown, mood, hovering, pace, bridgeVars, mouseVars, restarts>>

----------------------------------------------------------------------------
(* The mouse *)

Hover ==
  /\ hovering' = ~hovering
  /\ pace' = IF dragging THEN pace ELSE Drawn(shown, mood, hovering', FALSE)
  /\ UNCHANGED <<manifest, petId, shown, mood, status, flight, registered,
                 bridgeVars, mouseVars, restarts>>

(* The runtime turns a release into a press, also at the end of a drag.    *)
(* Two releases do not overtake each other.                                *)
Button ==
  /\ button \/ click = "none" \/ dragging
  /\ button => click = "none"
  /\ button' = ~button
  /\ click' = IF button THEN (IF dragging THEN "echo" ELSE "click") ELSE click
  /\ UNCHANGED <<manifest, petVars, bridgeVars, dragging, following, precise, recent, stray, restarts>>

(* drag, phase 0: the first change event beyond the slop *)
DragStart ==
  /\ button /\ ~dragging
  /\ dragging' = TRUE /\ following' = TRUE /\ precise' = precise + 1
  /\ pace' = Drawn(shown, mood, hovering, TRUE)
  /\ UNCHANGED <<manifest, petId, shown, mood, status, flight, registered, hovering,
                 bridgeVars, recent, button, click, stray, restarts>>

EndDrag ==
  /\ dragging' = FALSE /\ following' = FALSE /\ precise' = precise - 1 /\ recent' = TRUE
  /\ pace' = Drawn(shown, mood, hovering, FALSE)

(* drag, phases 1 and 2: an end or a cancel is believed only when the      *)
(* button is up.  The event may be lost.                                   *)
DragEnd ==
  /\ dragging /\ ~button /\ EndDrag
  /\ UNCHANGED <<manifest, petId, shown, mood, status, flight, registered, hovering,
                 bridgeVars, button, click, stray, restarts>>

(* Mutant: the timer only follows the pointer *)
PollFollows ==
  /\ following /\ ~dragging /\ following' = FALSE
  /\ UNCHANGED <<manifest, petVars, bridgeVars, dragging, precise, recent, button, click, stray, restarts>>

(* drag_poll *)
DragPoll ==
  /\ following
  /\ \/ ~dragging /\ following' = FALSE /\ UNCHANGED <<dragging, precise, recent, pace>>
     \/ dragging /\ ~button /\ EndDrag
  /\ UNCHANGED <<manifest, petId, shown, mood, status, flight, registered, hovering,
                 bridgeVars, button, click, stray, restarts>>

(* press: the echo of a drag is told apart by the drag, or by its time *)
Press ==
  /\ click # "none" /\ click' = "none"
  /\ recent' = (recent /\ dragging)
  /\ stray' = (stray \/ (click = "echo" /\ ~dragging /\ ~recent))
  /\ UNCHANGED <<manifest, petVars, bridgeVars, dragging, following, precise, button, restarts>>

(* 250 ms after the drag; its echo comes within 16 *)
WindowOver ==
  /\ recent /\ click # "echo" /\ recent' = FALSE
  /\ UNCHANGED <<manifest, petVars, bridgeVars, dragging, following, precise, button, click, stray, restarts>>

----------------------------------------------------------------------------
PetNext ==
  \/ \E line \in Line : PostState(line)
  \/ StateEvent \/ Restart
  \/ \E i \in Images, loaded \in BOOLEAN : ImageDone(i, loaded)
  \/ Hover \/ Button \/ DragStart \/ DragEnd \/ DragPoll \/ Press \/ WindowOver

PetSpec == PetInit /\ [][PetNext]_desktopVars

(* The follow timer fires. *)
PetFairSpec == PetSpec /\ WF_desktopVars(DragPoll)

----------------------------------------------------------------------------
(* model.zig:11-19, 504-510: the registry holds loaded strips of the pet   *)
(* that is drawn and no other, and no strip is loaded twice at a time.     *)
RegistryIsActive ==
  /\ registered = {i \in Images : status[i] = "loaded"} /\ registered \subseteq Of(shown)
  /\ flight = {i \in Images : status[i] = "loading"}

(* model.zig:441, 903: the frame timer has the cadence of the mood that is *)
(* drawn, through hovers, drags and updates in between.                    *)
PaceFollows ==
  pace = Drawn(shown, mood, hovering, dragging)
  \/ {pace, Drawn(shown, mood, hovering, dragging)} = {"drag", "working"}

(* model.zig:742, 901: while a drag lasts its timer runs and the timer     *)
(* resolution is raised once; its release is never taken for a click.      *)
GesturesApart ==
  following = dragging /\ precise = (IF dragging THEN 1 ELSE 0) /\ ~stray

(* The desktop pet between any two messages.                               *)
DesktopInv == RegistryIsActive /\ PaceFollows /\ GesturesApart

(* model.zig:836: a drag ends when the button is up, also when its end     *)
(* event never arrives.                                                    *)
DragEnds == dragging /\ ~button ~> ~dragging \/ button

=============================================================================
