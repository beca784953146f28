---------------------------- MODULE DisplayProofs -----------------------------
(***************************************************************************)
(* Proofs about what is on display: the canvas that follows the store by   *)
(* deltas (Canvas), the sidebar that follows the workspaces (Sidebar) and  *)
(* the desktop pet (DesktopPet).                                           *)
(***************************************************************************)
EXTENDS DesktopPet, Canvas, Sidebar, TLAPS

----------------------------------------------------------------------------
(***************************************************************************)
(* Proofs about Canvas: for any lines, changes and number of revisions     *)
(* kept, the rows that are drawn are those of the revision they bear.      *)
(***************************************************************************)

Deltas == [kind : {"delta"}, revision : Contents,
           upsert : UNION {[D -> 0..MaxStoreChanges] : D \in SUBSET Lines}, remove : SUBSET Lines]
Answers ==
  Deltas \union [kind : {"unchanged"}, revision : Contents]
         \union [kind : {"full"}, revision : Contents, rows : Contents]

(* Nothing, or the content n under its own name.                           *)
Sight(n) == [revision |-> n, rows |-> n]
Sights == {Sight(n) : n \in Contents}
Requests ==
  [at : {"idle", "sent", "answered"}, base : Sights \union {NoData},
   answer : Answers \union {NoData}, passed : BOOLEAN]

(* An answer on its way makes of the data the request was made from what   *)
(* the store held, whatever was kept or changed since.                     *)
Fits(q) == q.at = "answered" => MergedWorld(q.base, q.answer) \in Sights

CanvasInv ==
  /\ rows \in Contents
  /\ entry = NoData \/ entry \in [value : Contents, young : BOOLEAN, same : BOOLEAN]
  /\ last \in Sights \union {NoData} /\ page \in Sights \union {NoData}
  /\ request \in [Readers -> Requests]
  /\ \A r \in Readers : Fits(request[r])

(* The delta from a content to another, or either without the other.       *)
LEMMA ResponseFits ==
  ASSUME NEW base \in Sights \union {NoData}, NEW now \in Contents, NEW since,
         since = IF base = NoData THEN NoData ELSE base.revision
  PROVE  Response(since, now) \in Answers /\ MergedWorld(base, Response(since, now)) = Sight(now)
<1>1. now \in [Lines -> 0..MaxStoreChanges]
  BY DEF Contents
<1>2. CASE since = now
  <2>1. base # NoData
    BY <1>2, DataAssumption
  <2>2. base = Sight(now)
    BY <1>2, <2>1 DEF Sights, Sight
  <2>3. Response(since, now) = [kind |-> "unchanged", revision |-> now]
    BY <1>2 DEF Response
  <2>. QED
    BY <2>2, <2>3 DEF MergedWorld, Answers, Sight
<1>3. CASE since # now /\ since # NoData /\ Contains(kept, since)
  <2>1. base = Sight(since) /\ since \in [Lines -> 0..MaxStoreChanges]
    BY <1>3 DEF Sights, Sight, Contents
  <2> DEFINE up == [l \in {x \in Diff(since, now) : now[x] # 0} |-> now[l]]
             out == {x \in Diff(since, now) : now[x] = 0}
             a == [kind |-> "delta", revision |-> now, upsert |-> up, remove |-> out]
  <2>2. Response(since, now) = a
    BY <1>3 DEF Response
  <2>3. /\ \A l \in Lines : l \in DOMAIN up <=> since[l] # now[l] /\ now[l] # 0
        /\ \A l \in Lines : l \in out <=> since[l] # now[l] /\ now[l] = 0
        /\ \A l \in DOMAIN up : up[l] = now[l]
    BY DEF Diff
  <2>4. up \in [DOMAIN up -> 0..MaxStoreChanges] /\ DOMAIN up \in SUBSET Lines /\ out \in SUBSET Lines
    BY <1>1 DEF Diff
  <2>5. up \in UNION {[D -> 0..MaxStoreChanges] : D \in SUBSET Lines}
    BY <2>4
  <2> HIDE DEF up, out
  <2>6. a \in Answers
    <3>1. a \in Deltas
      BY <2>4, <2>5 DEF Deltas
    <3>. QED
      BY <3>1 DEF Answers
  <2>7. [l \in Lines |-> IF l \in DOMAIN up THEN up[l] ELSE IF l \in out THEN 0 ELSE since[l]] = now
    BY <1>1, <2>3
  <2>8. MergedWorld(base, a) = Sight(now)
    BY <2>1, <2>7 DEF MergedWorld, Sight
  <2>. QED
    BY <2>2, <2>6, <2>8
<1>4. CASE since # now /\ ~(since # NoData /\ Contains(kept, since))
  <2>1. Response(since, now) = [kind |-> "full", revision |-> now, rows |-> now]
    BY <1>4 DEF Response
  <2>. QED
    BY <2>1 DEF MergedWorld, Answers, Sight
<1>. QED
  BY <1>2, <1>3, <1>4

LEMMA AnswerStep == ASSUME CanvasInv, NEW r \in Readers, AnswerRead(r) PROVE CanvasInv'
<1> DEFINE hit == Usable(entry)
           now == IF hit THEN entry.value ELSE rows
           since == IF request[r].base = NoData THEN NoData ELSE request[r].base.revision
           answer == Response(since, now)
<1>1. /\ entry' = (IF hit THEN entry ELSE [value |-> rows, young |-> TRUE, same |-> TRUE])
      /\ request' = [request EXCEPT ![r] = [@ EXCEPT !.at = "answered", !.answer = answer]]
      /\ UNCHANGED <<rows, last, page>>
  BY DEF AnswerRead
<1>2. now \in Contents /\ request[r] \in Requests /\ request[r].base \in Sights \union {NoData}
  BY DEF CanvasInv, Usable, Requests
<1>3. answer \in Answers /\ MergedWorld(request[r].base, answer) = Sight(now)
  BY <1>2, ResponseFits
<1> HIDE DEF answer
<1>4. entry' = NoData \/ entry' \in [value : Contents, young : BOOLEAN, same : BOOLEAN]
  BY <1>1 DEF CanvasInv
<1> HIDE DEF hit, now, since
<1> DEFINE q == [request[r] EXCEPT !.at = "answered", !.answer = answer]
<1>5. q \in Requests /\ q.base = request[r].base /\ q.answer = answer /\ q.at = "answered"
  BY <1>2, <1>3 DEF Requests
<1>6. Fits(q)
  BY <1>2, <1>3, <1>5 DEF Fits, Sights
<1>7. request' = [request EXCEPT ![r] = q]
  BY <1>1
<1> HIDE DEF q
<1>8. request' \in [Readers -> Requests] /\ \A x \in Readers : Fits(request'[x])
  BY <1>5, <1>6, <1>7 DEF CanvasInv
<1>. QED
  BY <1>1, <1>4, <1>8 DEF CanvasInv, Fits, MergedWorld

(* One request is made anew, or is over.                                   *)
LEMMA RequestSet ==
  ASSUME CanvasInv, NEW r \in Readers, NEW q \in Requests, q.at # "answered",
         request' = [request EXCEPT ![r] = q], UNCHANGED <<rows, entry, last, page>>
  PROVE  CanvasInv'
<1>1. Fits(q)
  BY DEF Fits
<1>2. request' \in [Readers -> Requests] /\ \A x \in Readers : Fits(request'[x])
  BY <1>1 DEF CanvasInv
<1>. QED
  BY <1>2 DEF CanvasInv, Fits, MergedWorld

LEMMA IdleRequest == NoRequest \in Requests /\ NoRequest.at # "answered"
BY DEF NoRequest, Requests

LEMMA AcceptStep == ASSUME CanvasInv, NEW r \in Readers, Accept(r) PROVE CanvasInv'
<1>1. /\ request[r].at = "answered" /\ last' = MergedWorld(request[r].base, request[r].answer)
      /\ page' = IF r = "page" THEN last' ELSE page
      /\ request' = [x \in Readers |-> IF x = r THEN NoRequest
                                       ELSE IF request[x].at = "idle" THEN request[x]
                                       ELSE [request[x] EXCEPT !.passed = TRUE]]
      /\ UNCHANGED <<rows, entry>>
  BY DEF Accept
<1>2. last' \in Sights /\ page' \in Sights \union {NoData}
  BY <1>1 DEF CanvasInv, Fits
<1>3. ASSUME NEW x \in Readers PROVE request'[x] \in Requests /\ Fits(request'[x])
  <2> DEFINE q == [request[x] EXCEPT !.passed = TRUE]
  <2>1. request[x] \in Requests /\ Fits(request[x])
    BY DEF CanvasInv
  <2>2. q \in Requests /\ q.at = request[x].at /\ q.base = request[x].base /\ q.answer = request[x].answer
    BY <2>1 DEF Requests
  <2>3. Fits(q)
    BY <2>1, <2>2 DEF Fits
  <2>4. request'[x] \in {NoRequest, request[x], q}
    BY <1>1
  <2> HIDE DEF q
  <2>5. Fits(NoRequest)
    BY IdleRequest DEF Fits
  <2>. QED
    BY <2>1, <2>2, <2>3, <2>4, <2>5, IdleRequest
<1>4. request' \in [Readers -> Requests] /\ \A x \in Readers : Fits(request'[x])
  <2>1. request' = [x \in Readers |-> request'[x]]
    BY <1>1
  <2>. QED
    BY <1>3, <2>1
<1>. QED
  BY <1>1, <1>2, <1>4 DEF CanvasInv, Fits, MergedWorld

LEMMA CanvasStep == CanvasInv /\ [CanvasNext]_canvasVars => CanvasInv'
<1> SUFFICES ASSUME CanvasInv, [CanvasNext]_canvasVars PROVE CanvasInv'
  OBVIOUS
<1>1. ASSUME NEW l \in Lines, NEW content \in 0..MaxStoreChanges, Change(l, content)
      PROVE  CanvasInv'
  <2>1. rows' = [rows EXCEPT ![l] = content] /\ UNCHANGED <<request, last, page>>
    BY <1>1 DEF Change
  <2>2. rows' \in Contents
    BY <2>1 DEF CanvasInv, Contents
  <2>3. entry' = NoData \/ entry' \in [value : Contents, young : BOOLEAN, same : BOOLEAN]
    BY <1>1 DEF Change, CanvasInv
  <2>. QED
    BY <2>1, <2>2, <2>3 DEF CanvasInv, Fits, MergedWorld
<1>2. CASE Expire \/ Invalidate \/ UNCHANGED canvasVars
  <2>1. UNCHANGED <<rows, request, last, page>>
    BY <1>2 DEF Expire, Invalidate, canvasVars
  <2>2. entry' = NoData \/ entry' \in [value : Contents, young : BOOLEAN, same : BOOLEAN]
    BY <1>2 DEF Expire, Invalidate, canvasVars, CanvasInv
  <2>. QED
    BY <2>1, <2>2 DEF CanvasInv, Fits, MergedWorld
<1>3. ASSUME NEW r \in Readers, Send(r) PROVE CanvasInv'
  <2> DEFINE q == [at |-> "sent", base |-> last, answer |-> NoData, passed |-> FALSE]
  <2>1. request' = [request EXCEPT ![r] = q] /\ UNCHANGED <<rows, entry, last, page>>
    BY <1>3 DEF Send
  <2>2. q \in Requests /\ q.at # "answered"
    BY DEF CanvasInv, Requests
  <2> HIDE DEF q
  <2>. QED
    BY <2>1, <2>2, RequestSet
<1>4. ASSUME NEW r \in Readers, Refuse(r) \/ Break(r) PROVE CanvasInv'
  <2>1. request' = [request EXCEPT ![r] = NoRequest] /\ UNCHANGED <<rows, entry, last, page>>
    BY <1>4 DEF Refuse, Break
  <2>. QED
    BY <2>1, RequestSet, IdleRequest
<1>. QED
  BY <1>1, <1>2, <1>3, <1>4, AnswerStep, AcceptStep DEF CanvasNext

(* web/revisions.ts, client/world-data.ts: the rows a reader draws are     *)
(* those of the revision it bears, whatever deltas it was sent.            *)
THEOREM CanvasIsWhole == CanvasSpec => []CanvasWhole
<1>1. CanvasInit => CanvasInv
  <2> SUFFICES ASSUME CanvasInit PROVE CanvasInv
    OBVIOUS
  <2>1. rows \in Contents
    BY DataAssumption DEF CanvasInit, Contents
  <2>. QED
    BY <2>1, IdleRequest DEF CanvasInit, CanvasInv, Fits
<1>2. CanvasInv => CanvasWhole
  BY DEF CanvasInv, CanvasWhole, Sights, Sight
<1>. QED
  BY <1>1, <1>2, CanvasStep, PTL DEF CanvasSpec

----------------------------------------------------------------------------
(***************************************************************************)
(* Proofs about Sidebar: for any workspaces and bounds, what asks to look  *)
(* again is on the timer, or waits for the answer under way.               *)
(***************************************************************************)

SidebarTypes ==
  /\ paths \subseteq Paths /\ ask \in Asked \union {NoAsk}
  /\ timer \in BOOLEAN /\ queuedForce \in BOOLEAN /\ queuedData \in BOOLEAN
  /\ inFlight \in BOOLEAN /\ disposed \in BOOLEAN

QueueInv == SidebarTypes /\ QueueSound

LEMMA RequestsAreAsked ==
  ASSUME QueueInv
  PROVE  /\ [of |-> paths, answer |-> NoAsk] \in Asked
         /\ ask # NoAsk => [ask EXCEPT !.answer = Classified(ask.of)] \in Asked
<1>1. [of |-> paths, answer |-> NoAsk] \in Asked
  BY DEF QueueInv, SidebarTypes, Asked
<1>2. ASSUME ask # NoAsk PROVE [ask EXCEPT !.answer = Classified(ask.of)] \in Asked
  <2>1. ask \in Asked /\ ask.of \in SUBSET Paths
    BY <1>2 DEF QueueInv, SidebarTypes, Asked
  <2>2. Classified(ask.of) \in Rows(ask.of)
    BY DEF Classified, Rows
  <2>3. Classified(ask.of) \in UNION {Rows(P) : P \in SUBSET Paths}
    BY <2>1, <2>2
  <2>. QED
    BY <2>1, <2>3 DEF Asked
<1>. QED
  BY <1>1, <1>2

LEMMA FireStep == ASSUME QueueInv, Fire PROVE QueueInv'
<1>1. /\ timer /\ ~disposed /\ timer' = FALSE
      /\ UNCHANGED <<paths, disposed>>
  BY DEF Fire, worldVars
<1>2. CASE Cleared \/ Unchanged(queuedForce) \/ Hidden(queuedForce)
  <2>1. queuedForce' = FALSE /\ UNCHANGED <<queuedData, inFlight, ask>>
    BY <1>2 DEF Cleared, Unchanged, Hidden
  <2>. QED
    BY <1>1, <2>1 DEF QueueInv, SidebarTypes, QueueSound
<1>3. CASE Queued(queuedForce)
  <2>1. inFlight /\ queuedData' = TRUE /\ UNCHANGED <<inFlight, ask, queuedForce>>
    BY <1>3 DEF Queued
  <2>. QED
    BY <1>1, <2>1 DEF QueueInv, SidebarTypes, QueueSound
<1>4. CASE Asks(queuedForce)
  <2>1. /\ inFlight' = TRUE /\ queuedForce' = FALSE /\ queuedData' = queuedData
        /\ ask' \in Asked
    BY <1>4, RequestsAreAsked DEF Asks
  <2>. QED
    BY <1>1, <2>1, AskAssumption DEF QueueInv, SidebarTypes, QueueSound
<1>. QED
  BY <1>2, <1>3, <1>4 DEF Fire

LEMMA OverStep ==
  ASSUME QueueInv, Over, UNCHANGED <<paths, disposed>> PROVE QueueInv'
BY DEF Over, ScheduleData, QueueInv, SidebarTypes, QueueSound

LEMMA SidebarStep == QueueInv /\ [SidebarNext]_sidebarVars => QueueInv'
<1> SUFFICES ASSUME QueueInv, [SidebarNext]_sidebarVars PROVE QueueInv'
  OBVIOUS
<1>1. ASSUME NEW p \in Paths, PathsChange(p) PROVE QueueInv'
  BY <1>1 DEF PathsChange, ScheduleData, QueueInv, SidebarTypes, QueueSound
<1>2. CASE \/ \E p \in Paths : WorktreeChanges(p)
           \/ Hide \/ Show \/ UNCHANGED sidebarVars
  <2>1. UNCHANGED <<paths, timer, queuedForce, queuedData, inFlight, ask, disposed>>
    BY <1>2 DEF WorktreeChanges, Hide, Show, sidebarVars, worldVars, queueVars
  <2>. QED
    BY <2>1 DEF QueueInv, SidebarTypes, QueueSound
<1>3. CASE Poll
  BY <1>3 DEF Poll, ScheduleData, worldVars, QueueInv, SidebarTypes, QueueSound
<1>4. CASE Serve
  <2>1. /\ ask # NoAsk /\ ask' \in Asked
        /\ UNCHANGED <<paths, timer, queuedForce, queuedData, inFlight, disposed>>
    BY <1>4, RequestsAreAsked DEF Serve, worldVars, queueVars
  <2>. QED
    BY <2>1, AskAssumption DEF QueueInv, SidebarTypes, QueueSound
<1>5. CASE Receive \/ Fail
  BY <1>5, OverStep DEF Receive, Fail, worldVars
<1>6. CASE Dispose
  BY <1>6 DEF Dispose, worldVars, QueueInv, SidebarTypes, QueueSound
<1>. QED
  BY <1>1, <1>2, <1>3, <1>4, <1>5, <1>6, FireStep DEF SidebarNext

(* sidebar-worktree-grouper.ts: no request to look again is lost between   *)
(* the timer, the classification under way and the queue.                  *)
THEOREM QueueIsSound == SidebarSpec => []QueueSound
<1>1. SidebarInit => QueueInv
  BY DEF SidebarInit, QueueInv, SidebarTypes, QueueSound
<1>2. QueueInv => QueueSound
  BY DEF QueueInv
<1>. QED
  BY <1>1, <1>2, SidebarStep, PTL DEF SidebarSpec

----------------------------------------------------------------------------
(***************************************************************************)
(* Proofs about DesktopPet: for any pets, moods and bounds, the registry   *)
(* holds the loaded strips of the pet on display, the frame timer has its  *)
(* cadence, and the release of a drag is not taken for a click.            *)
(***************************************************************************)

(* The echo of a drag finds the drag, or the window after it.              *)
EchoIsKnown == click = "echo" => dragging \/ recent

PetInv ==
  /\ shown \in Pets /\ status \in [Images -> {"unloaded", "loading", "loaded"}]
  /\ dragging \in BOOLEAN /\ recent \in BOOLEAN /\ hovering \in BOOLEAN
  /\ EchoIsKnown
  /\ DesktopInv

LEMMA PetImages == ASSUME NEW p \in Pets PROVE Of(p) \subseteq Images
BY DEF Of, Images

LEMMA ImagesOf == ASSUME NEW i \in Images, NEW p, i[1] = p PROVE i \in Of(p)
BY DEF Of, Images

(* The pet that is left leaves the registry at once; what is wanted of the *)
(* next is what is loading.                                                *)
LEMMA SwitchKeeps ==
  ASSUME PetInv, NEW p \in Pets, Switched(p)
  PROVE  /\ shown' \in Pets /\ status' \in [Images -> {"unloaded", "loading", "loaded"}]
         /\ RegistryIsActive'
<1>1. CASE p = shown
  BY <1>1 DEF Switched, PetInv, DesktopInv, RegistryIsActive
<1>2. CASE p # shown
  <2> DEFINE dropped == [i \in Images |-> IF i \in Of(shown) /\ status[i] = "loaded"
                                          THEN "unloaded" ELSE status[i]]
             wanted == Missing(p, dropped)
  <2>1. /\ shown' = p /\ flight' = flight \union wanted
        /\ registered' = registered \ {i \in Of(shown) : status[i] = "loaded"}
        /\ status' = [i \in Images |-> IF i \in wanted THEN "loading" ELSE dropped[i]]
    BY <1>2 DEF Switched
  <2>2. /\ dropped \in [Images -> {"unloaded", "loading"}]
        /\ \A i \in Images : dropped[i] = "loading" <=> status[i] = "loading"
    BY DEF PetInv, DesktopInv, RegistryIsActive
  <2> HIDE DEF dropped
  <2>3. wanted \subseteq Images
    BY PetImages DEF Missing
  <2> HIDE DEF wanted
  <2>4. registered' = {} /\ flight = {i \in Images : status[i] = "loading"}
    BY <2>1 DEF PetInv, DesktopInv, RegistryIsActive
  <2>5. /\ status' \in [Images -> {"unloaded", "loading"}]
        /\ \A i \in Images : status'[i] = "loading" <=> i \in wanted \/ status[i] = "loading"
    BY <2>1, <2>2
  <2>6. registered' = {i \in Images : status'[i] = "loaded"}
    BY <2>4, <2>5
  <2>7. flight' = {i \in Images : status'[i] = "loading"}
    BY <2>1, <2>3, <2>4, <2>5
  <2>. QED
    BY <2>1, <2>4, <2>5, <2>6, <2>7 DEF RegistryIsActive
<1>. QED
  BY <1>1, <1>2

LEMMA StateEventStep == ASSUME PetInv, StateEvent PROVE PetInv'
<1> DEFINE line == Head(channel)
<1>1. CASE Switched(Listed(line.pet))
  <2>1. Listed(line.pet) \in Pets
    BY PetsAssumption DEF Listed
  <2>. QED
    BY <1>1, <2>1, SwitchKeeps
    DEF StateEvent, mouseVars, PetInv, DesktopInv, EchoIsKnown, PaceFollows, GesturesApart, Drawn
<1>2. CASE UNCHANGED <<shown, status, flight, registered>>
  BY <1>2
  DEF StateEvent, mouseVars, PetInv, DesktopInv, EchoIsKnown, PaceFollows, GesturesApart, Drawn,
      RegistryIsActive
<1>. QED
  BY <1>1, <1>2 DEF StateEvent

(* A start: the strips of the pet shown first are loading, or nothing is.  *)
LEMMA StartsWhole ==
  ASSUME NEW p \in Pets, NEW readable \in BOOLEAN, NEW line, p = Restored(line, readable),
         NEW fl, fl = Wanted(line, readable),
         NEW st, st = [i \in Images |-> IF i \in fl THEN "loading" ELSE "unloaded"]
  PROVE  /\ st \in [Images -> {"unloaded", "loading", "loaded"}]
         /\ {} = {i \in Images : st[i] = "loaded"} /\ fl = {i \in Images : st[i] = "loading"}
<1>1. fl \subseteq Images
  BY PetImages DEF Wanted
<1>. QED
  BY <1>1

LEMMA RestoredIsPet == ASSUME NEW line, NEW readable PROVE Restored(line, readable) \in Pets
BY PetsAssumption DEF Restored

LEMMA RestartStep == ASSUME PetInv, Restart PROVE PetInv'
<1>1. shown' \in Pets /\ manifest' \in BOOLEAN
  BY RestoredIsPet DEF Restart
<1>2. /\ status' \in [Images -> {"unloaded", "loading", "loaded"}]
      /\ {} = {i \in Images : status'[i] = "loaded"}
      /\ flight' = {i \in Images : status'[i] = "loading"}
  BY <1>1, StartsWhole DEF Restart
<1>. QED
  BY <1>1, <1>2
  DEF Restart, PetInv, EchoIsKnown, DesktopInv, RegistryIsActive, PaceFollows, GesturesApart, Drawn

(* A load that comes back for a pet that was left leaves nothing behind.   *)
LEMMA ImageStep ==
  ASSUME PetInv, NEW i \in Images, NEW loaded \in BOOLEAN, ImageDone(i, loaded)
  PROVE  PetInv'
<1> DEFINE keeps == loaded /\ ~Stale(i)
<1>1. /\ status' = [status EXCEPT ![i] = IF keeps THEN "loaded" ELSE "unloaded"]
      /\ registered' = IF keeps THEN registered \union {i} ELSE registered
      /\ flight' = flight \ {i} /\ i \in flight
      /\ UNCHANGED <<shown, mood, hovering, pace, dragging, following, precise, recent, click, stray>>
  BY DEF ImageDone, mouseVars
<1>2. keeps => i \in Of(shown)
  BY ImagesOf DEF Stale
<1> HIDE DEF keeps
<1>3. RegistryIsActive'
  BY <1>1, <1>2 DEF PetInv, DesktopInv, RegistryIsActive
<1>. QED
  BY <1>1, <1>3 DEF PetInv, EchoIsKnown, DesktopInv, PaceFollows, GesturesApart

(* However a drag ends, the timer and its resolution end with it, and the  *)
(* frame timer goes back to the mood.                                      *)
LEMMA DragOver ==
  ASSUME PetInv, dragging, EndDrag, RegistryIsActive',
         UNCHANGED <<shown, mood, status, hovering, click, stray>>
  PROVE  PetInv'
<1>1. PaceFollows'
  <2>1. pace' = Drawn(shown', mood', hovering', dragging')
    BY DEF EndDrag, Drawn
  <2>. QED
    BY <2>1 DEF PaceFollows, Drawn
<1>2. GesturesApart' /\ recent' = TRUE /\ dragging' = FALSE
  <2>1. precise = 1 /\ precise' = precise - 1 /\ dragging' = FALSE /\ following' = FALSE
    BY DEF PetInv, DesktopInv, GesturesApart, EndDrag
  <2>2. precise' = 0
    BY <2>1
  <2>. QED
    BY <2>1, <2>2 DEF PetInv, DesktopInv, GesturesApart, EndDrag
<1>. QED
  BY <1>1, <1>2 DEF PetInv, EchoIsKnown, DesktopInv

LEMMA MouseSteps ==
  ASSUME PetInv, Button \/ DragStart \/ DragEnd \/ DragPoll \/ Press \/ WindowOver
  PROVE  PetInv'
<1>1. UNCHANGED <<shown, mood, status, flight, registered, hovering>>
  BY DEF Button, DragStart, DragEnd, DragPoll, Press, WindowOver, petVars
<1>2. RegistryIsActive'
  BY <1>1 DEF PetInv, DesktopInv, RegistryIsActive
<1>3. CASE Button
  BY <1>1, <1>2, <1>3
  DEF Button, petVars, PetInv, EchoIsKnown, DesktopInv, PaceFollows, GesturesApart
<1>4. CASE DragStart
  BY <1>1, <1>2, <1>4 DEF DragStart, PetInv, EchoIsKnown, DesktopInv, PaceFollows, GesturesApart
<1>5. CASE DragEnd \/ DragPoll
  <2>1. dragging /\ EndDrag /\ UNCHANGED <<click, stray>>
    BY <1>5 DEF DragEnd, DragPoll, PetInv, DesktopInv, GesturesApart
  <2>. QED
    BY <1>1, <1>2, <2>1, DragOver
<1>6. CASE Press
  BY <1>1, <1>2, <1>6
  DEF Press, petVars, PetInv, EchoIsKnown, DesktopInv, PaceFollows, GesturesApart
<1>7. CASE WindowOver
  BY <1>1, <1>2, <1>7
  DEF WindowOver, petVars, PetInv, EchoIsKnown, DesktopInv, PaceFollows, GesturesApart
<1>. QED
  BY <1>3, <1>4, <1>5, <1>6, <1>7

LEMMA PetStep == PetInv /\ [PetNext]_desktopVars => PetInv'
<1> SUFFICES ASSUME PetInv, [PetNext]_desktopVars PROVE PetInv'
  OBVIOUS
<1>1. CASE (\E line \in Line : PostState(line)) \/ UNCHANGED desktopVars
  <2>1. UNCHANGED <<petVars, mouseVars>>
    BY <1>1 DEF PostState, desktopVars
  <2>. QED
    BY <2>1 DEF petVars, mouseVars, PetInv, EchoIsKnown, DesktopInv, RegistryIsActive, PaceFollows,
                GesturesApart
<1>2. CASE Hover
  BY <1>2 DEF Hover, mouseVars, PetInv, EchoIsKnown, DesktopInv, RegistryIsActive, PaceFollows,
              GesturesApart, Drawn
<1>. QED
  BY <1>1, <1>2, StateEventStep, RestartStep, ImageStep, MouseSteps DEF PetNext

(* model.zig: the registry, the cadence and the gestures of the pet agree  *)
(* with what it shows, for any pets, lines and restarts.                   *)
THEOREM DesktopIsSound == PetSpec => []DesktopInv
<1>1. PetInit => PetInv
  <2> SUFFICES ASSUME PetInit PROVE PetInv
    OBVIOUS
  <2>1. Restored(NoLine, manifest) = Fallback /\ Fallback \in Pets
    BY PetsAssumption DEF PetInit, Restored, NoLine
  <2>2. /\ status \in [Images -> {"unloaded", "loading", "loaded"}]
        /\ {} = {i \in Images : status[i] = "loaded"}
        /\ flight = {i \in Images : status[i] = "loading"}
    BY <2>1, StartsWhole DEF PetInit
  <2>. QED
    BY <2>1, <2>2
    DEF PetInit, PetInv, EchoIsKnown, DesktopInv, RegistryIsActive, PaceFollows, GesturesApart,
        Drawn
<1>2. PetInv => DesktopInv
  BY DEF PetInv
<1>. QED
  BY <1>1, <1>2, PetStep, PTL DEF PetSpec

===============================================================================
