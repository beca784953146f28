-------------------------------- MODULE Canvas -------------------------------
(***************************************************************************)
(* How the canvas follows the store: the server's cache of reads           *)
(* (web/read-cache.ts), its revisions and row deltas (web/revisions.ts),   *)
(* and the two readers of one tab that share lastWorldData: the page and   *)
(* the corner navigator (client/index.tsx, client/world-data.ts).          *)
(*                                                                         *)
(* A revision is the hash of the content, so it is the content here.  The  *)
(* tab is visible and nothing pauses the page's timer (see Page for what   *)
(* does).  A read of the store is one step.                                *)
(***************************************************************************)
EXTENDS Naturals, Sequences, SequencesExt

CONSTANTS
  Lines,
  MaxStoreChanges, (* bound: changes of the store                          *)
  MaxKept,      (* bound: revisions the server keeps (8 in the code)       *)
  NoData

VARIABLES
  rows,         (* the store: each line's content, 0 without the line      *)
  changes,
  entry,        (* ReadCache: the value, whether it is young and whether   *)
                (* the signature of the three paths is still the same      *)
  kept,         (* revisionResponse: the revisions kept, oldest first      *)
  request,      (* of each reader: what it awaits                          *)
  last,         (* lastWorldData: revision and rows                         *)
  page          (* data, what the page draws                               *)

canvasVars == <<rows, changes, entry, kept, request, last, page>>

Readers == {"page", "navigator"}
Contents == [Lines -> 0..MaxStoreChanges]

ASSUME DataAssumption == MaxStoreChanges \in Nat /\ NoData \notin Contents

NoRequest == [at |-> "idle", base |-> NoData, answer |-> NoData, passed |-> FALSE]

CanvasInit ==
  /\ rows = [l \in Lines |-> 0] /\ changes = 0
  /\ entry = NoData /\ kept = <<>>
  /\ request = [r \in Readers |-> NoRequest]
  /\ last = NoData /\ page = NoData

----------------------------------------------------------------------------
(* The store changes; a line that comes or goes changes the directory the  *)
(* signature is of, a line's own files do not.                             *)
Change(l, content) ==
  /\ changes < MaxStoreChanges /\ content # rows[l]
  /\ changes' = changes + 1
  /\ rows' = [rows EXCEPT ![l] = content]
  /\ entry' = IF entry # NoData /\ 0 \in {content, rows[l]}
              THEN [entry EXCEPT !.same = FALSE] ELSE entry
  /\ UNCHANGED <<kept, request, last, page>>

(* The entry is older than 1.5 seconds *)
Expire ==
  /\ entry # NoData /\ entry.young
  /\ entry' = [entry EXCEPT !.young = FALSE]
  /\ UNCHANGED <<rows, changes, kept, request, last, page>>

(* watchWorldLine, where the platform can watch *)
Invalidate ==
  /\ entry # NoData /\ entry' = NoData
  /\ UNCHANGED <<rows, changes, kept, request, last, page>>

----------------------------------------------------------------------------
(* The server answers a GET: ReadCache.read, then revisionResponse *)

(* A form that never lets an entry grow old *)
UsableForever(e) == e # NoData /\ e.same

Usable(e) == e # NoData /\ e.same /\ e.young

Diff(before, after) == {l \in Lines : before[l] # after[l]}

(* A form whose deltas do not say which rows are gone *)
ResponseUpserts(since, now) ==
  IF since = now THEN [kind |-> "unchanged", revision |-> now]
  ELSE IF since # NoData /\ Contains(kept, since)
  THEN [kind |-> "delta", revision |-> now,
        upsert |-> [l \in {x \in Diff(since, now) : now[x] # 0} |-> now[l]],
        remove |-> {}]
  ELSE [kind |-> "full", revision |-> now, rows |-> now]

Response(since, now) ==
  IF since = now THEN [kind |-> "unchanged", revision |-> now]
  ELSE IF since # NoData /\ Contains(kept, since)
  THEN [kind |-> "delta", revision |-> now,
        upsert |-> [l \in {x \in Diff(since, now) : now[x] # 0} |-> now[l]],
        remove |-> {x \in Diff(since, now) : now[x] = 0}]
  ELSE [kind |-> "full", revision |-> now, rows |-> now]

(* Map.set keeps the place of a revision that is there already *)
Remember(now) ==
  LET all == IF Contains(kept, now) THEN kept ELSE Append(kept, now) IN
  IF Len(all) > MaxKept THEN Tail(all) ELSE all

AnswerRead(r) ==
  /\ request[r].at = "sent"
  /\ LET hit == Usable(entry)
         now == IF hit THEN entry.value ELSE rows
         since == IF request[r].base = NoData THEN NoData ELSE request[r].base.revision
     IN  /\ entry' = IF hit THEN entry ELSE [value |-> rows, young |-> TRUE, same |-> TRUE]
         /\ request' = [request EXCEPT ![r] = [@ EXCEPT !.at = "answered",
                                                        !.answer = Response(since, now)]]
         /\ kept' = Remember(now)
  /\ UNCHANGED <<rows, changes, last, page>>

----------------------------------------------------------------------------
(* The tab *)

(* A tick of the reader's timer.  The page aborts the request before, the  *)
(* navigator sends another only once it has an answer (15 seconds).        *)
Send(r) ==
  /\ r = "navigator" => request[r].at = "idle"
  /\ request' = [request EXCEPT ![r] = [at |-> "sent", base |-> last, answer |-> NoData,
                                        passed |-> FALSE]]
  /\ UNCHANGED <<rows, changes, entry, kept, last, page>>

(* mergeWorldResponse *)
MergedWorld(base, answer) ==
  CASE answer.kind = "unchanged" -> [revision |-> answer.revision, rows |-> base.rows]
    [] answer.kind = "full" -> [revision |-> answer.revision, rows |-> answer.rows]
    [] answer.kind = "delta" ->
         [revision |-> answer.revision,
          rows |-> [l \in Lines |->
                      IF l \in DOMAIN answer.upsert THEN answer.upsert[l]
                      ELSE IF l \in answer.remove THEN 0 ELSE base.rows[l]]]

(* The answer is for the data the request was made from, and no other      *)
(* reader has replaced them since                                          *)
Applies(r) == ~request[r].passed

Accept(r) ==
  /\ request[r].at = "answered" /\ Applies(r)
  /\ last' = MergedWorld(request[r].base, request[r].answer)
  /\ page' = IF r = "page" THEN last' ELSE page
  /\ request' = [x \in Readers |-> IF x = r THEN NoRequest
                                   ELSE IF request[x].at = "idle" THEN request[x]
                                   ELSE [request[x] EXCEPT !.passed = TRUE]]
  /\ UNCHANGED <<rows, changes, entry, kept>>

(* An answer for data that are gone is refused *)
Refuse(r) ==
  /\ request[r].at = "answered" /\ ~Applies(r)
  /\ request' = [request EXCEPT ![r] = NoRequest]
  /\ UNCHANGED <<rows, changes, entry, kept, last, page>>

(* The connection breaks, or the server fails to read *)
Break(r) ==
  /\ request[r].at # "idle"
  /\ request' = [request EXCEPT ![r] = NoRequest]
  /\ UNCHANGED <<rows, changes, entry, kept, last, page>>

CanvasNext ==
  \/ \E l \in Lines, content \in 0..MaxStoreChanges : Change(l, content)
  \/ Expire \/ Invalidate
  \/ \E r \in Readers : AnswerRead(r) \/ Send(r) \/ Accept(r) \/ Refuse(r) \/ Break(r)

(* Entries age and timers tick.  A request is sent ten seconds after the   *)
(* one before and takes a fraction of one: the page's requests are not     *)
(* always broken or overtaken by the navigator's, which come every         *)
(* fifteen.                                                                *)
CanvasFairness ==
  /\ WF_canvasVars(Expire)
  /\ WF_canvasVars(AnswerRead("page") \/ Refuse("page"))
  /\ WF_canvasVars(request["page"].at = "idle" /\ Send("page"))
  /\ SF_canvasVars(Applies("page") /\ AnswerRead("page"))
  /\ SF_canvasVars(Accept("page"))

CanvasSpec == CanvasInit /\ [][CanvasNext]_canvasVars /\ CanvasFairness

----------------------------------------------------------------------------
(* Whatever deltas were applied, the rows on display are those of the      *)
(* revision they are said to be, which is what the next delta is computed  *)
(* against.                                                                *)
CanvasWhole == \A view \in {last, page} : view # NoData => view.rows = view.revision

(* Once the store no longer changes, the page shows it *)
PageCatchesUp == <>[](page # NoData /\ page.rows = rows)
==============================================================================
