------------------------------- MODULE Timeline ------------------------------
(***************************************************************************)
(* The world-line canvas of the management page: timeline.tsx, its pure    *)
(* half timeline-model.ts, the context menu and the presence of a menu     *)
(* that stays mounted while it fades out.                                  *)
(*                                                                         *)
(* Time is counted in quarters of an hour and positions in flow units,     *)
(* rounded down. A poll may replace lines and events between any two       *)
(* actions of the user, and every animation of the viewport lands later    *)
(* than the click that started it.                                         *)
(***************************************************************************)
EXTENDS Integers, FiniteSetsExt, SequencesExt

CONSTANTS
  Lines,        (* the lines but the origin                                *)
  Kinds,        (* kinds a line may have: mirror, verification, rescue     *)
  Home,         (* the line the page runs in: currentId                    *)
  Whole,        (* the numbers of the snapshots that can be restored       *)
  Gaps,         (* the time between one event and the next                 *)
  Lead,         (* the time from the last event to now                     *)
  Zooms,        (* what the user zooms to, in percent                      *)
  MaxEvents,    (* bound: events recorded                                  *)
  MaxChanges,   (* bound: lines and events that go or change               *)
  MaxActions,   (* bound: actions of the user                              *)
  None

VARIABLES
  lines,        (* [listed line -> [kind, state, verdict]]                 *)
  events,       (* the events of the listed lines                          *)
  made, clock, changes,
  busy,         (* an operation of the page is under way                   *)
  selected, cursor, focus,
  expanded,     (* the events of the cluster that was opened               *)
  zoom, markerZoom, flight, frame,
  before, collapse,
  home,         (* history: the zoom the first cluster was opened from     *)
  menu, closing, exit,
  asked,        (* history: the last item chosen                           *)
  actions

dataVars == <<lines, events, made, clock, changes>>
pointVars == <<selected, cursor, focus>>
viewVars == <<expanded, zoom, markerZoom, flight, frame, before, collapse, home>>
menuVars == <<menu, closing, exit>>
timelineVars == <<dataVars, busy, pointVars, viewVars, menuVars, asked, actions>>

Listed == DOMAIN lines
OnLine(l) == {e \in events : e.line = l}
Earlier(e, f) == e.at < f.at \/ (e.at = f.at /\ e.id < f.id)
InOrder(es) == SetToSortSeq(es, Earlier)

----------------------------------------------------------------------------
(* The time axis *)

Start == Min({0} \union {e.at : e \in events}) - 1
End == clock + Lead
Born(l) == IF l = "origin" THEN Start ELSE 0
Time == IF cursor = None THEN End ELSE cursor     (* cursorTime *)

FocusEvent ==
  LET found == {e \in events : e.id = focus /\ e.line = selected /\ e.at = Time}
  IN  IF found = {} THEN None ELSE CHOOSE e \in found : TRUE

(* restoreRelation: the last restore of a line, and its snapshot           *)
Restoration(l) ==
  LET restores == {e \in OnLine(l) : e.kind = "restore"}
      restore == CHOOSE e \in restores : \A f \in restores :
                   e.at > f.at \/ (e.at = f.at /\ e.id <= f.id)
      targets == {e \in OnLine(l) : e.kind = "snapshot" /\ e.snap = restore.snap}
  IN  IF restores = {} THEN {}
      ELSE IF \E e \in targets : e.at <= restore.at THEN {restore} \union targets ELSE {}

(* What must be told apart: the open cluster, the focus, the merges and the *)
(* ends of the restores                                                    *)
SeparatedClosed(cluster, f) ==
  {f} \union {e.id : e \in {m \in events : m.kind = "merge"}}
      \union {e.id : e \in UNION {Restoration(l) : l \in Listed}}

Separated(cluster, f) ==
  {e.id : e \in cluster} \union {f}
    \union {e.id : e \in {m \in events : m.kind = "merge"}}
    \union {e.id : e \in UNION {Restoration(l) : l \in Listed}}

Apart == Separated(expanded, focus)

Anchors ==
  {Start, End} \union
  {t \in {e.at : e \in events} \union {Born(l) : l \in Listed} : Start < t /\ t < End}

(* timelineScale: empty spans are bounded, and both sides of an event that *)
(* must be told apart get room                                             *)
Scale(apart) ==
  LET anchors == Anchors
      spans == anchors \ {End}
      to == [a \in spans |-> Min({t \in anchors : t > a})]
      compressed == \E a \in spans : to[a] - a > 24
      weight == [a \in spans |-> IF compressed THEN Max({1, Min({24, to[a] - a})}) ELSE to[a] - a]
      total == FoldFunction(+, 0, weight)
      roomy == {e.at : e \in {f \in events : f.id \in apart}}
      width == [a \in spans |->
                  LET w == (weight[a] * 772) \div total
                  IN  IF {a, to[a]} \intersect roomy # {} THEN Max({56, w}) ELSE w]
  IN  [t \in anchors |-> 48 + FoldFunctionOnSet(+, 0, width, {a \in spans : a < t})]

MinimumGap(z) == Max({32, 4000 \div Max({25, z})})
ClusterZoom(old, new) == IF 10 * new >= 11 * old \/ 10 * old >= 11 * new THEN new ELSE old

(* eventMarkers: an event that belongs to another one has no marker of its *)
(* own, unless it is separated or restored                                 *)
Visible(l, shown) ==
  {e \in OnLine(l) :
     \/ e.parent = None
     \/ e.id \in shown
     \/ \E f \in OnLine(l) : f.kind = "restore" /\ f.snap = e.snap}

Markers(l, x, shown) ==
  LET put(ms, e) ==
        IF ms # <<>> /\ x[e.at] - x[Head(Last(ms)).at] < MinimumGap(markerZoom)
        THEN [ms EXCEPT ![Len(ms)] = Append(@, e)]
        ELSE Append(ms, <<e>>)
  IN  FoldLeft(put, <<>>, InOrder(Visible(l, shown)))

AsSets(ms) == {ToSet(m) : m \in ToSet(ms)}
MarkersOf(l) == AsSets(Markers(l, Scale(Apart), Apart))
First(m) == CHOOSE e \in m : \A f \in m \ {e} : Earlier(e, f)
Latest(es) == CHOOSE e \in es : \A f \in es \ {e} : Earlier(f, e)

(* The event a marker stands for *)
Face(m) ==
  LET snaps == {e \in m : e.kind = "snapshot"}
  IN  IF snaps = {} THEN Latest(m) ELSE Latest(snaps)

(* The links of the merges: from the marker of the source's last visible   *)
(* event at the time of the merge to the marker of the merge, where `ms`   *)
(* holds the markers of each line                                          *)
Links(x, ms) ==
  LET from(e) ==
        LET past == {f \in UNION ms[e.source] : f.at <= e.at}
            last == CHOOSE f \in past : \A g \in past :
                      f.at > g.at \/ (f.at = g.at /\ f.id <= g.id)
        IN  IF past = {} THEN Born(e.source)
            ELSE First(CHOOSE m \in ms[e.source] : last \in m).at
  IN  UNION {{[from |-> x[from(e)], to |-> x[First(m).at]] : m \in {n \in ms[e.line] : e \in n}} :
               e \in {f \in events : f.kind = "merge" /\ f.source \in Listed}}

----------------------------------------------------------------------------
(* Menus that stay mounted while they fade out *)

(* update(null): nothing twice, at once when motion is reduced *)
Dismissed ==
  \/ exit /\ UNCHANGED menuVars
  \/ ~exit /\ menu' = menu /\ closing' = TRUE /\ exit' = TRUE
  \/ ~exit /\ menu' = None /\ closing' = FALSE /\ exit' = FALSE

(* A menu that is opened while the last one fades out keeps its timer *)
OpenedOnTimer(m) == menu' = m /\ closing' = FALSE /\ exit' = exit

Opened(m) == menu' = m /\ closing' = FALSE /\ exit' = FALSE

(* The effect that closes the menu of a busy page or of a line that went *)
MenuFollows ==
  IF busy' \/ (menu # None /\ menu.line \notin DOMAIN lines')
  THEN Dismissed ELSE UNCHANGED menuVars

Groups == [
  runtime  |-> {"enter", "restart", "stop", "rescue-stop", "destroy"},
  plugins  |-> {"composition", "install-plugin", "experiments", "verify", "verify-login",
                "promote", "report"},
  history  |-> {"save", "event", "history-list", "compare"},
  branches |-> {"fork", "clean", "snapshot-fork", "merge"},
  settings |-> {"default", "alias"}]

Items(m) ==
  LET kind == lines[m.line].kind
  IN  {"enter"}
      \union (IF kind \in {"origin", "mirror"}
              THEN {"composition", "install-plugin", "experiments"} ELSE {})
      \union (IF kind = "rescue" THEN {"rescue-stop"}
              ELSE {"fork", "clean", "save", "history-list", "compare"}
                   \union (IF m.event = None THEN {} ELSE {"event"})
                   \union (IF m.event # None /\ m.event.snap # None THEN {"snapshot-fork"} ELSE {}))
      \union (IF kind = "verification" THEN {"verify", "verify-login", "promote", "report"} ELSE {})
      \union (IF kind \in {"mirror", "verification"}
              THEN {"merge", "default", "alias", "stop", "destroy"} ELSE {})
      \union (IF kind = "mirror" THEN {"restart"} ELSE {})

Disabled(m, i) ==
  LET line == lines[m.line]
      live == line.state \in {"running", "unreachable"}
  IN  \/ busy /\ i \notin {"composition", "experiments", "event", "history-list"}
      \/ /\ line.state = "applying"
         /\ i \in {"enter", "install-plugin", "fork", "save", "verify", "verify-login",
                   "merge", "alias", "restart", "destroy"}
      \/ line.kind = "verification" /\ i \in {"enter", "compare", "merge", "default"}
      \/ i = "snapshot-fork" /\ m.event.snap \notin Whole
      \/ i = "promote" /\ line.verdict # "passed"
      \/ i = "stop" /\ ~live
      \/ i = "destroy" /\ live
      \/ m.line = Home /\ i \in {"stop", "destroy", "restart"}

ShownGroups(m) == {g \in DOMAIN Groups : Groups[g] \intersect Items(m) # {}}

----------------------------------------------------------------------------
(* Selection and viewport *)

Acting == actions < MaxActions /\ actions' = actions + 1
Unasked == UNCHANGED <<dataVars, busy, asked>>

(* setExpanded: the view moves to the cluster, and remembers its zoom if   *)
(* no cluster was open                                                     *)
RemembersAlways == before' = zoom

Remembers == before' = IF expanded = {} THEN zoom ELSE before

Expands(m) ==
  /\ expanded' = m /\ flight' = 150
  /\ Remembers
  /\ home' = IF expanded = {} THEN zoom ELSE home
  /\ UNCHANGED <<zoom, markerZoom, collapse>>

(* inspectEvent and the effects of the new focus *)
Focuses(e) ==
  /\ selected' = e.line /\ cursor' = e.at /\ focus' = e.id
  /\ frame' = IF e \in events THEN e.id ELSE None
  /\ LET markers == Markers(e.line, Scale(Separated(expanded, e.id)), {e.id})
         clusters == {m \in AsSets(markers) : e \in m /\ Cardinality(m) > 1}
     IN  IF e \notin events
         THEN UNCHANGED <<expanded, zoom, markerZoom, flight, before, collapse, home>>
         ELSE IF expanded # {} /\ e \notin expanded
         THEN /\ collapse' = before /\ before' = None /\ expanded' = {}
              /\ UNCHANGED <<zoom, markerZoom, flight, home>>
         ELSE IF clusters # {}
         THEN Expands(CHOOSE m \in clusters : TRUE)
         ELSE UNCHANGED <<expanded, zoom, markerZoom, flight, before, collapse, home>>

(* The effect of [eventFocus, expanded] when only the latter changed *)
Reframes == frame' = IF FocusEvent' = None THEN None ELSE focus

Init ==
  /\ \E k \in [Lines -> Kinds] :
       lines = [l \in Lines |-> [kind |-> k[l], state |-> "stopped", verdict |-> None]]
               @@ ("origin" :> [kind |-> "origin", state |-> "origin", verdict |-> None])
  /\ events = {} /\ made = 0 /\ clock = 0 /\ changes = 0
  /\ busy = FALSE
  /\ selected = "origin" /\ cursor = None /\ focus = None
  /\ expanded = {} /\ zoom = 100 /\ markerZoom = 100 /\ flight = None /\ frame = None
  /\ before = None /\ collapse = None /\ home = None
  /\ menu = None /\ closing = FALSE /\ exit = FALSE
  /\ asked = None /\ actions = 0

(* A click on a marker *)
Inspect(l) ==
  /\ ~busy /\ Acting /\ Unasked
  /\ \E m \in MarkersOf(l) :
       \/ /\ Cardinality(m) = 1
          /\ Focuses(First(m)) /\ UNCHANGED menuVars
       \/ /\ Cardinality(m) > 1 /\ \E e, f \in m : e.at # f.at
          /\ Dismissed
          /\ selected' = l /\ cursor' = First(m).at /\ focus' = focus
          /\ Expands(m) /\ Reframes

(* "Show this event", of the record on display or of the history panel *)
FromHistory(e) ==
  /\ Acting /\ Focuses(e) /\ UNCHANGED menuVars /\ Unasked

(* A click on a track *)
ClickTrack(l) ==
  /\ ~busy /\ Acting
  /\ Dismissed
  /\ selected' = l /\ focus' = focus
  /\ cursor' \in {Born(l), clock}     (* of any time since its birth *)
  /\ UNCHANGED viewVars /\ Unasked

Fits == {z \in Zooms : z <= 100}

FitAll ==
  /\ Acting /\ Unasked
  /\ flight' \in Fits
  /\ expanded' = {}
  /\ UNCHANGED <<zoom, markerZoom, before, collapse, home, pointVars, menuVars>>
  /\ IF expanded = {} THEN UNCHANGED frame ELSE Reframes

Zoom(z) ==
  /\ Acting /\ z # zoom
  /\ zoom' = z /\ markerZoom' = ClusterZoom(markerZoom, z) /\ flight' = None
  /\ Dismissed
  /\ UNCHANGED <<expanded, frame, before, collapse, home, pointVars>> /\ Unasked

(* Two animation frames after a focus: the view goes to its marker *)
Frame ==
  /\ frame # None
  /\ flight' = IF collapse = None THEN 150 ELSE collapse
  /\ collapse' = None /\ frame' = None
  /\ UNCHANGED <<expanded, zoom, markerZoom, before, home, pointVars, menuVars, actions>>
  /\ Unasked

Arrive ==
  /\ flight # None
  /\ zoom' = flight /\ markerZoom' = ClusterZoom(markerZoom, flight) /\ flight' = None
  /\ Dismissed \/ UNCHANGED menuVars
  /\ UNCHANGED <<expanded, frame, before, collapse, home, pointVars, actions>>
  /\ Unasked

----------------------------------------------------------------------------
(* The context menu *)

OpenMenu(l, at, e) ==
  /\ ~busy /\ Acting
  /\ selected' = l /\ cursor' = at /\ focus' = focus
  /\ Opened([line |-> l, at |-> at, event |-> e, group |-> None])
  /\ UNCHANGED viewVars /\ Unasked

(* A right click on a marker *)
OpenRecord(l) == \E m \in MarkersOf(l) : OpenMenu(l, Face(m).at, Face(m))

(* The button of a line, Shift+F10, or a right click beside the markers *)
OpenLine(l) == OpenMenu(l, Max({Born(l), Time}), None)

ToggleLine(l) ==
  /\ menu # None /\ menu.line = l /\ ~closing
  /\ Acting /\ ~busy /\ Dismissed
  /\ UNCHANGED <<pointVars, viewVars>> /\ Unasked

(* Escape, Tab, a click elsewhere, a resized window *)
CloseMenu ==
  /\ menu # None /\ ~closing
  /\ Dismissed
  /\ UNCHANGED <<pointVars, viewVars, actions>> /\ Unasked

OpenGroup(g) ==
  /\ menu # None /\ ~closing /\ menu.group # g /\ g \in ShownGroups(menu)
  /\ menu' = [menu EXCEPT !.group = g]
  /\ UNCHANGED <<closing, exit, pointVars, viewVars, actions>> /\ Unasked

Back ==
  /\ menu # None /\ ~closing /\ menu.group # None
  /\ menu' = [menu EXCEPT !.group = None]
  /\ UNCHANGED <<closing, exit, pointVars, viewVars, actions>> /\ Unasked

(* The items that begin an operation of the page, and those of onManage    *)
Operations == {"enter", "restart", "stop", "rescue-stop", "default", "verify", "verify-login",
               "promote", "report"}
Managed == {"restart", "stop", "rescue-stop", "default", "alias", "destroy"}

Choose(i) ==
  /\ menu # None /\ ~closing /\ menu.group # None
  /\ i \in Groups[menu.group] \intersect Items(menu) /\ ~Disabled(menu, i)
  /\ Acting
  /\ asked' = [item |-> i, line |-> menu.line, event |-> menu.event]
  /\ busy' = (busy \/ (i \in Operations /\ ~(i = "enter" /\ menu.line = "origin")))
  /\ Dismissed
  /\ IF i = "event" THEN Focuses(menu.event)
     ELSE /\ selected' = IF i \in Managed \/ (i = "enter" /\ lines[menu.line].kind = "mirror")
                         THEN menu.line ELSE selected
          /\ UNCHANGED <<cursor, focus, viewVars>>
  /\ UNCHANGED dataVars

(* The fade-out has ended; the effect closes once more what a busy page    *)
(* has just seen go                                                        *)
Exit ==
  /\ exit
  /\ menu' = None
  /\ exit' \in IF busy /\ menu # None THEN BOOLEAN ELSE {FALSE}
  /\ closing' = exit'
  /\ UNCHANGED <<pointVars, viewVars, actions>> /\ Unasked

----------------------------------------------------------------------------
(* What a poll brings *)

Record(l, kind, snap, source, backup) ==
  \E gap \in Gaps :
    LET e == [id |-> made + 1, line |-> l, at |-> clock + gap, kind |-> kind,
              snap |-> snap, source |-> source, parent |-> None]
    IN  /\ made < MaxEvents /\ made' = made + 1
        /\ clock' = clock + gap
        /\ events' = {IF b \in backup THEN [b EXCEPT !.parent = made + 1] ELSE b : b \in events}
                     \union {e}
        /\ UNCHANGED <<lines, changes, busy, pointVars, viewVars, asked, actions>>
        /\ MenuFollows

Snapshot(l) == Record(l, "snapshot", made + 1, None, {})

(* An operation or a restore owns the backup it took, a merge the one      *)
(* taken before it                                                         *)
Backups(l) == {{}} \union {{e} : e \in {f \in OnLine(l) : f.kind = "snapshot" /\ f.parent = None}}
Operation(l) == \E b \in Backups(l) : Record(l, "operation", None, None, b)
Merge(l) == \E s \in Listed \ {l}, b \in Backups(l) : Record(l, "merge", None, s, b)
Restore(l) ==
  \E e \in OnLine(l), b \in Backups(l) :
    e.kind = "snapshot" /\ Record(l, "restore", e.snap, None, b)

Changing == changes < MaxChanges /\ changes' = changes + 1

(* A snapshot that was pruned *)
Prune(e) ==
  /\ Changing /\ e.kind = "snapshot" /\ events' = events \ {e}
  /\ UNCHANGED <<lines, made, clock, busy, pointVars, viewVars, asked, actions>>
  /\ MenuFollows

(* A line that was destroyed: refresh selects another one, and the view    *)
(* is fitted to the lines that are left                                    *)
Destroy(l) ==
  /\ Changing /\ l \notin {"origin", Home}
  /\ lines' = [k \in Listed \ {l} |-> lines[k]]
  /\ events' = events \ OnLine(l)
  /\ selected' = IF selected = l THEN Home ELSE selected
  /\ flight' \in Fits
  /\ UNCHANGED <<made, clock, busy, cursor, focus, expanded, zoom, markerZoom, frame, before,
                 collapse, home, asked, actions>>
  /\ MenuFollows

Turn(l) ==
  /\ Changing /\ l # "origin"
  /\ \E s \in {"running", "stopped", "applying"}, v \in {None, "passed"} :
       /\ lines' = [lines EXCEPT ![l].state = s, ![l].verdict = v]
       /\ lines' # lines
  /\ UNCHANGED <<events, made, clock, busy, pointVars, viewVars, asked, actions>>
  /\ MenuFollows

(* The operation under way has ended; a start or a stop goes back to now  *)
Settle ==
  /\ busy /\ busy' = FALSE
  /\ cursor' \in {cursor, None}
  /\ UNCHANGED <<dataVars, selected, focus, viewVars, menuVars, asked, actions>>

Next ==
  \/ \E l \in Listed : Inspect(l) \/ ClickTrack(l) \/ OpenRecord(l) \/ OpenLine(l) \/ ToggleLine(l)
  \/ \E e \in events : FromHistory(e)
  \/ FitAll
  \/ \E z \in Zooms : Zoom(z)
  \/ Frame \/ Arrive
  \/ CloseMenu \/ Back \/ Exit \/ Settle
  \/ \E g \in DOMAIN Groups : OpenGroup(g)
  \/ \E i \in UNION {Groups[g] : g \in DOMAIN Groups} : Choose(i)
  \/ \E l \in Listed : Snapshot(l) \/ Operation(l) \/ Merge(l) \/ Restore(l)
  \/ \E e \in events : Prune(e)
  \/ \E l \in Listed : Destroy(l) \/ Turn(l)

TimelineSpec == Init /\ [][Next]_timelineVars

----------------------------------------------------------------------------
(* Properties *)

(* The markers of a line hold each of its visible events once, in order,   *)
(* and stay the minimum gap apart (timeline-model.ts:131).                 *)
MarkersWhole(x, seqs) ==
  \A l \in Listed :
    /\ FlattenSeq(seqs[l]) = InOrder(Visible(l, Apart))
    /\ \A k \in 2..Len(seqs[l]) :
         x[Head(seqs[l][k]).at] - x[Head(seqs[l][k - 1]).at] >= MinimumGap(markerZoom)

(* While a marker is no wider than the room kept for separated events, an  *)
(* event of a cluster the user opened, the focus, a merge and both ends of *)
(* a restore share no marker with an event of another time                 *)
(* (timeline.tsx:437): an opened cluster really opens.                     *)
SeparatedApart(ms) ==
  MinimumGap(markerZoom) <= 56 =>
    \A l \in Listed : \A m \in ms[l] : \A e, f \in m :
      e \in expanded \/ e.id = focus \/ e.kind = "merge" \/ e \in Restoration(l) => e.at = f.at

(* In the same range no link of a merge runs backwards (timeline.tsx:439). *)
LinksForward(x, ms) ==
  MinimumGap(markerZoom) <= 56 => \A k \in Links(x, ms) : k.from <= k.to

(* The two markers a restore's link needs are there (timeline.tsx:684),    *)
(* and so is the marker of the focused event, even one that belongs to     *)
(* another event and is hidden otherwise.                                  *)
MarkersExist(ms) ==
  /\ \A l \in Listed : Restoration(l) \subseteq UNION ms[l]
  /\ FocusEvent # None => FocusEvent \in UNION ms[selected]

(* Leaving a cluster goes back to the zoom the user had before the first   *)
(* of the clusters that were opened in a row (timeline.tsx:486).           *)
ZoomKept == (expanded # {} => before = home) /\ (collapse # None => collapse = home)

(* A menu names an event of its own line only, a menu the user just opened *)
(* is not taken down by the fade-out of the previous one, and the page     *)
(* offers no operation on a line that is gone or while another one runs.   *)
MenuAimed ==
  /\ exit = closing
  /\ menu # None /\ ~closing => menu.line \in Listed /\ ~busy
  /\ menu # None /\ menu.event # None => menu.event.line = menu.line

TimelineSound ==
  LET x == Scale(Apart)
      seqs == [l \in Listed |-> Markers(l, x, Apart)]
      ms == [l \in Listed |-> AsSets(seqs[l])]
  IN  /\ MarkersWhole(x, seqs)
      /\ SeparatedApart(ms)
      /\ LinksForward(x, ms)
      /\ MarkersExist(ms)
      /\ ZoomKept
      /\ MenuAimed

=============================================================================
