------------------------- MODULE TargetCrawlProofs -------------------------
(***************************************************************************)
(* NothingStranded holds for every website, page limit and number of       *)
(* workers, and CleanMeansWhole for every finite website.                  *)
(*                                                                         *)
(* The checkpoint is only as good as the walk it was copied from, so the   *)
(* invariant speaks of every walk in memory, those of executions that lost *)
(* their claim included: what a walk counts as done is stored or still     *)
(* among the execution's unwritten output.                                 *)
(*                                                                         *)
(* Coverage is an induction over the walk.  Whatever a walk has counted as *)
(* visited stands for a page it took in, and everything such a page links  *)
(* is visited, still queued or out of bounds; so when the queue is empty   *)
(* the visited pages are closed under links, and hold all that is offered. *)
(***************************************************************************)
EXTENDS TargetCrawl, Induction, FiniteSetTheorems, TLAPS

(* The fields of the records, whatever their values.                       *)
WalkShape(k) ==
  k = [visited |-> k.visited, contents |-> k.contents, keys |-> k.keys, tokens |-> k.tokens,
       pages |-> k.pages, failures |-> k.failures, fruitless |-> k.fruitless,
       flawed |-> k.flawed, begun |-> k.begun]
ExecShape(e) ==
  /\ e = [limit |-> e.limit, policy |-> e.policy, fresh |-> e.fresh, found |-> e.found,
          stops |-> e.stops, errors |-> e.errors, unsaved |-> e.unsaved, rows |-> e.rows,
          final |-> e.final]
  /\ e.rows = [u \in Url |-> e.rows[u]]

Shapes ==
  /\ walk = [w \in Worker |-> walk[w]] /\ exec = [w \in Worker |-> exec[w]]
  /\ pc = [w \in Worker |-> pc[w]] /\ pageStatus = [u \in Url |-> pageStatus[u]]
  /\ \A w \in Worker : WalkShape(walk[w]) /\ ExecShape(exec[w])
  /\ WalkShape(checkpoint)

KeysAreKept ==
  \A w \in Worker : walk[w].keys \subseteq ingested \cup Unmatched \cup exec[w].unsaved
VisitsAreNoted ==
  \A w \in Worker : \A u \in Url :
    u \in walk[w].visited => pageStatus[u] # "none" \/ exec[w].rows[u] # "none"
RowsAreWritten ==
  \A w \in Worker : pc[w] = "ingesting" => \A u \in Url : exec[w].rows[u] = "none"

CrawlInv == Shapes /\ KeysAreKept /\ VisitsAreNoted /\ RowsAreWritten /\ NothingStranded

(* The empty walk and the empty output have their fields.                  *)
LEMMA BlankShapes == WalkShape(NewWalk) /\ ExecShape(NewExec)
BY DEF WalkShape, ExecShape, NewWalk, NewExec, NoRows

(* No walk has begun and nothing is stored.                                *)
LEMMA InitCrawlInv == Init => CrawlInv
<1> SUFFICES ASSUME Init PROVE CrawlInv
  OBVIOUS
<1> USE DEF Init
<1>1. Shapes
  BY BlankShapes DEF Shapes, NoRows
<1>2. KeysAreKept
  BY DEF KeysAreKept, NewWalk
<1>3. VisitsAreNoted
  BY DEF VisitsAreNoted, NewWalk
<1>4. RowsAreWritten
  BY DEF RowsAreWritten
<1>5. NothingStranded
  BY DEF NothingStranded, NewWalk
<1> QED
  BY <1>1, <1>2, <1>3, <1>4, <1>5 DEF CrawlInv

(* A step of one worker in memory: it may learn keys and visits only with  *)
(* the output that will store them, and loses no output.                   *)
LEMMA StepInMemory ==
  ASSUME CrawlInv, NEW w \in Worker, NEW k, NEW e,
         WalkShape(k), ExecShape(e),
         k.keys \subseteq ingested \cup Unmatched \cup e.unsaved,
         \A u \in Url : u \in k.visited => pageStatus[u] # "none" \/ e.rows[u] # "none",
         walk' = [walk EXCEPT ![w] = k], exec' = [exec EXCEPT ![w] = e],
         pc' = [v \in Worker |-> pc'[v]],
         pc'[w] # "ingesting", \A v \in Worker \ {w} : pc'[v] = pc[v],
         UNCHANGED <<pageStatus, ingested, checkpoint>>
  PROVE  CrawlInv'
<1> USE DEF CrawlInv
<1>1. \A v \in Worker : /\ walk'[v] = IF v = w THEN k ELSE walk[v]
                        /\ exec'[v] = IF v = w THEN e ELSE exec[v]
  BY DEF Shapes
<1>2. Shapes'
  BY <1>1 DEF Shapes, WalkShape, ExecShape
<1>3. KeysAreKept'
  BY <1>1 DEF KeysAreKept
<1>4. VisitsAreNoted'
  BY <1>1 DEF VisitsAreNoted
<1>5. RowsAreWritten'
  BY <1>1 DEF RowsAreWritten
<1>6. NothingStranded'
  BY DEF NothingStranded
<1> QED
  BY <1>2, <1>3, <1>4, <1>5, <1>6

----------------------------------------------------------------------------
(* What the helpers of the walk leave alone.                               *)

(* Stops, errors and retries touch neither records nor page rows.          *)
LEMMA Annotations ==
  ASSUME NEW e, ExecShape(e), NEW x, NEW n
  PROVE  /\ ExecShape(Stopped(e, x)) /\ ExecShape(Failed(e, x)) /\ ExecShape(Retried(e, n))
         /\ Stopped(e, x).unsaved = e.unsaved /\ Stopped(e, x).rows = e.rows
         /\ Failed(e, x).unsaved = e.unsaved /\ Failed(e, x).rows = e.rows
         /\ Retried(e, n).unsaved = e.unsaved /\ Retried(e, n).rows = e.rows
BY DEF ExecShape, Stopped, Failed, Retried

(* An output that has grown by the page record of the current task.        *)
Records(w, e) ==
  /\ ExecShape(e) /\ exec[w].unsaved \subseteq e.unsaved
  /\ \A u \in Url : exec[w].rows[u] # "none" \/ u = Address(w) => e.rows[u] # "none"

(* An annotated output still records the current task.                     *)
LEMMA AnnotatedOutput ==
  ASSUME NEW w \in Worker, NEW e, Records(w, e), NEW x, NEW n
  PROVE  /\ Records(w, Stopped(e, x)) /\ Records(w, Failed(e, x))
         /\ Records(w, Retried(e, n))
BY Annotations DEF Records

(* Noting the page record of the current task keeps the other rows.        *)
LEMMA NotedRow ==
  ASSUME CrawlInv, NEW w \in Worker, NEW status, status # "none"
  PROVE  Records(w, Noted(w, status)) /\ Noted(w, status).unsaved = exec[w].unsaved
<1> DEFINE e == exec[w]
           rows == [e.rows EXCEPT ![Address(w)] = status]
<1>1. ExecShape(e)
  BY DEF CrawlInv, Shapes
<1>2. /\ rows = [u \in Url |-> rows[u]]
      /\ \A u \in Url : rows[u] = IF u = Address(w) THEN status ELSE e.rows[u]
  BY <1>1 DEF ExecShape
<1>3. Noted(w, status) = [e EXCEPT !.rows = rows]
  BY <1>1 DEF Noted, ExecShape
<1> HIDE DEF rows, e
<1>4. /\ Noted(w, status).rows = rows /\ Noted(w, status).unsaved = e.unsaved
      /\ ExecShape(Noted(w, status))
  BY <1>1, <1>2, <1>3 DEF ExecShape
<1> QED
  BY <1>2, <1>4 DEF e, Records

(* A fetched page joins the visited ones; the keys stay.                   *)
LEMMA FetchedWalk ==
  ASSUME CrawlInv, NEW w \in Worker
  PROVE  /\ WalkShape(Fetched(w)) /\ Fetched(w).keys = walk[w].keys
         /\ Fetched(w).visited = walk[w].visited \cup {Address(w)}
<1> DEFINE k == walk[w]
           url == Address(w)
           body == {site.content[Current(w).url]}
           count == k.pages + 1
<1>1. WalkShape(k)
  BY DEF CrawlInv, Shapes
<1>2. Fetched(w) = [k EXCEPT !.visited = @ \cup {url}, !.pages = count, !.failures = 0,
                             !.contents = @ \cup body]
  BY <1>1 DEF Fetched, WalkShape
<1> HIDE DEF k, url, body, count
<1>3. /\ WalkShape(Fetched(w)) /\ Fetched(w).keys = k.keys
      /\ Fetched(w).visited = k.visited \cup {url}
  BY <1>1, <1>2 DEF WalkShape
<1> QED
  BY <1>3 DEF k, url

(* A parsed page adds its address and its keys to the walk.                *)
LEMMA ExtractedWalk ==
  ASSUME CrawlInv, NEW w \in Worker
  PROVE  /\ WalkShape(Extracted(w)) /\ Extracted(w).keys = walk[w].keys \cup Published(w)
         /\ Extracted(w).visited = walk[w].visited \cup {Address(w)}
<1> DEFINE f == Fetched(w)
<1>1. /\ WalkShape(f) /\ f.keys = walk[w].keys
      /\ f.visited = walk[w].visited \cup {Address(w)}
  BY FetchedWalk
<1>2. Extracted(w) = [f EXCEPT !.keys = @ \cup Published(w), !.fruitless = Fruitless(w)]
  BY DEF Extracted
<1> HIDE DEF f
<1> QED
  BY <1>1, <1>2 DEF WalkShape

(* The harvest of a page records it, with the new keys among the unwritten *)
(* output.                                                                 *)
LEMMA HarvestedOutput ==
  ASSUME CrawlInv, NEW w \in Worker, NEW n
  PROVE  Records(w, Harvested(w, n)) /\ NewKeys(w) \subseteq Harvested(w, n).unsaved
<1> DEFINE g == Retried(Noted(w, "parsed"), n)
<1>1. Records(w, g)
  BY NotedRow, AnnotatedOutput
<1>2. Harvested(w, n) = [g EXCEPT !.unsaved = @ \cup NewKeys(w),
                                  !.found = @ \/ NewKeys(w) # {}, !.fresh = FALSE]
  BY DEF Harvested
<1> HIDE DEF g
<1>3. /\ ExecShape(Harvested(w, n)) /\ Harvested(w, n).rows = g.rows
      /\ Harvested(w, n).unsaved = g.unsaved \cup NewKeys(w)
  BY <1>1, <1>2 DEF ExecShape, Records
<1> QED
  BY <1>1, <1>3 DEF Records

(* A step of the walk: its walk learns at most the current url and the     *)
(* keys that join the output.                                              *)
LEMMA WalkStep ==
  ASSUME CrawlInv, NEW w \in Worker, NEW k, NEW e,
         WalkShape(k), Records(w, e),
         k.keys \subseteq walk[w].keys \cup e.unsaved,
         k.visited \subseteq walk[w].visited \cup {Address(w)},
         walk' = [walk EXCEPT ![w] = k], exec' = [exec EXCEPT ![w] = e],
         pc[w] = "walking",
         pc' = pc \/ \E l \in {"closing", "writing"} : pc' = [pc EXCEPT ![w] = l],
         UNCHANGED <<pageStatus, ingested, checkpoint>>
  PROVE  CrawlInv'
<1>1. k.keys \subseteq ingested \cup Unmatched \cup e.unsaved
  BY DEF CrawlInv, KeysAreKept, Records
<1>2. \A u \in Url : u \in k.visited => pageStatus[u] # "none" \/ e.rows[u] # "none"
  BY DEF CrawlInv, VisitsAreNoted, Records
<1>3. /\ pc' = [v \in Worker |-> pc'[v]] /\ pc'[w] # "ingesting"
      /\ \A v \in Worker \ {w} : pc'[v] = pc[v]
  BY DEF CrawlInv, Shapes
<1> QED
  BY <1>1, <1>2, <1>3, StepInMemory DEF Records

----------------------------------------------------------------------------
(* The steps.                                                              *)

(* Steps that touch neither output nor walks, whatever they do to the job. *)
LEMMA StepElsewhere ==
  ASSUME CrawlInv,
         UNCHANGED <<pageStatus, ingested, checkpoint, walk, exec>>,
         pc' = [v \in Worker |-> pc'[v]],
         \A v \in Worker : pc'[v] = "ingesting" => pc[v] = "ingesting"
  PROVE  CrawlInv'
<1> USE DEF CrawlInv
<1>1. Shapes' /\ KeysAreKept' /\ VisitsAreNoted'
  BY DEF Shapes, KeysAreKept, VisitsAreNoted, WalkShape, ExecShape
<1>2. RowsAreWritten' /\ NothingStranded'
  BY DEF RowsAreWritten, NothingStranded
<1> QED
  BY <1>1, <1>2

(* A move to any label but "ingesting" starts no ingestion.                *)
LEMMA GotoElsewhere ==
  ASSUME CrawlInv, NEW w \in Worker, NEW l, l # "ingesting", Goto(w, l)
  PROVE  /\ pc' = [v \in Worker |-> pc'[v]]
         /\ \A v \in Worker : pc'[v] = "ingesting" => pc[v] = "ingesting"
BY DEF CrawlInv, Shapes, Goto

(* A released slot counts nothing as done.                                 *)
LEMMA ReleaseStep ==
  ASSUME CrawlInv, NEW w \in Worker, Release(w),
         UNCHANGED <<pageStatus, ingested, checkpoint>>
  PROVE  CrawlInv'
<1>1. /\ pc' = [v \in Worker |-> pc'[v]] /\ pc'[w] # "ingesting"
      /\ \A v \in Worker \ {w} : pc'[v] = pc[v]
  BY DEF CrawlInv, Shapes, Release, Goto
<1>2. NewWalk.keys = {} /\ NewWalk.visited = {}
  BY DEF NewWalk
<1>3. walk' = [walk EXCEPT ![w] = NewWalk] /\ exec' = [exec EXCEPT ![w] = NewExec]
  BY DEF Release
<1> QED
  BY <1>1, <1>2, <1>3, BlankShapes, StepInMemory

(* A claim touches the job only.                                           *)
LEMMA ClaimStep ==
  ASSUME CrawlInv, NEW w \in Worker, Claim(w)
  PROVE  CrawlInv'
<1>1. CASE ClaimJob(w)
  BY <1>1, GotoElsewhere, StepElsewhere DEF ClaimJob, storeVars
<1>2. CASE ClaimNothing(w)
  BY <1>2, StepElsewhere DEF ClaimNothing, storeVars, workerVars, CrawlInv, Shapes
<1> QED
  BY <1>1, <1>2 DEF Claim

(* Opening a walk changes neither its keys nor its visits.                 *)
LEMMA OpenedWalk ==
  ASSUME NEW k, WalkShape(k), NEW seen,
         NEW f, f = [k EXCEPT !.tokens = seen, !.begun = TRUE]
  PROVE  WalkShape(f) /\ f.keys = k.keys /\ f.visited = k.visited
BY DEF WalkShape

(* A walk starts empty or from the saved checkpoint, which runs ahead of   *)
(* nothing.                                                                *)
LEMMA LoadStep ==
  ASSUME CrawlInv, NEW w \in Worker, Load(w)
  PROVE  CrawlInv'
<1>1. PICK first : first = [NewWalk EXCEPT !.tokens = {Seed}, !.begun = TRUE]
  OBVIOUS
<1>2. PICK fresh : fresh = ~checkpoint.begun
  OBVIOUS
<1>3. PICK limit : limit = SliceLimit(checkpoint.pages)
  OBVIOUS
<1>4. PICK blank : blank = NewExec
  OBVIOUS
<1>5. PICK e : e = [blank EXCEPT !.limit = limit, !.policy = permitted, !.fresh = fresh]
  OBVIOUS
<1> DEFINE k == IF checkpoint.begun THEN checkpoint ELSE first
<1>6. walk' = [walk EXCEPT ![w] = k]
  BY <1>1 DEF Load
<1>7. exec' = [exec EXCEPT ![w] = e]
  BY <1>2, <1>3, <1>4, <1>5 DEF Load
<1>8. /\ ExecShape(blank) /\ blank.unsaved = {}
      /\ NewWalk.keys = {} /\ NewWalk.visited = {}
  BY <1>4, BlankShapes DEF NewExec, NewWalk
<1>9. WalkShape(first) /\ first.keys = {} /\ first.visited = {}
  BY <1>1, <1>8, BlankShapes, OpenedWalk
<1>10. ExecShape(e) /\ e.unsaved = {}
  BY <1>5, <1>8 DEF ExecShape
<1>11. WalkShape(checkpoint) /\ NothingStranded
  BY DEF CrawlInv, Shapes
<1>12. WalkShape(k) /\ k.keys \subseteq ingested \cup Unmatched
       /\ \A u \in Url : u \in k.visited => pageStatus[u] # "none"
  BY <1>9, <1>11 DEF NothingStranded
<1>13. /\ pc' = [v \in Worker |-> pc'[v]] /\ pc'[w] # "ingesting"
       /\ \A v \in Worker \ {w} : pc'[v] = pc[v]
  BY DEF CrawlInv, Shapes, Load, Goto
<1> HIDE DEF k
<1> QED
  BY <1>6, <1>7, <1>10, <1>12, <1>13, StepInMemory DEF Load

(* A page budget or failure stop notes nothing else.                       *)
LEMMA HaltStep ==
  ASSUME CrawlInv, NEW w \in Worker, Halt(w)
  PROVE  CrawlInv'
<1>1. WalkShape(walk[w]) /\ ExecShape(exec[w]) /\ walk = [walk EXCEPT ![w] = walk[w]]
  BY DEF CrawlInv, Shapes
<1>2. PICK reason : exec' = [exec EXCEPT ![w] = Stopped(exec[w], reason)]
  BY DEF Halt, CrawlInv, Shapes
<1> DEFINE e == Stopped(exec[w], reason)
<1>3. ExecShape(e) /\ e.unsaved = exec[w].unsaved /\ e.rows = exec[w].rows
  BY <1>1, Annotations
<1>4. exec' = [exec EXCEPT ![w] = e]
  BY <1>2
<1> HIDE DEF e
<1>5. /\ walk[w].keys \subseteq ingested \cup Unmatched \cup e.unsaved
      /\ \A u \in Url : u \in walk[w].visited => pageStatus[u] # "none" \/ e.rows[u] # "none"
  BY <1>3 DEF CrawlInv, KeysAreKept, VisitsAreNoted
<1>6. /\ pc' = [v \in Worker |-> pc'[v]] /\ pc'[w] # "ingesting"
      /\ \A v \in Worker \ {w} : pc'[v] = pc[v]
  BY DEF Halt, Goto, CrawlInv, Shapes
<1> QED
  BY <1>1, <1>3, <1>4, <1>5, <1>6, StepInMemory DEF Halt, MemoryOnly, storeVars

(* A refusal notes the page it refused.                                    *)
LEMMA RefuseStep ==
  ASSUME CrawlInv, NEW w \in Worker, pc[w] = "walking", NEW status, status # "none",
         NEW reason, NEW type, Refuse(w, status, reason, type)
  PROVE  CrawlInv'
<1> DEFINE e == Failed(Stopped(Noted(w, status), reason), type)
<1>1. Records(w, e)
  BY NotedRow, AnnotatedOutput
<1>2. exec' = [exec EXCEPT ![w] = e]
  BY DEF Refuse
<1> HIDE DEF e
<1>3. WalkShape(walk[w]) /\ walk' = [walk EXCEPT ![w] = walk[w]]
  BY DEF CrawlInv, Shapes, Refuse
<1> QED
  BY <1>1, <1>2, <1>3, WalkStep DEF Refuse, Goto, storeVars

(* The walk: each step hands WalkStep its walk and its output.             *)
LEMMA VisitStep ==
  ASSUME CrawlInv, NEW w \in Worker, NEW n, Visit(w, n)
  PROVE  CrawlInv'
<1> USE DEF Goto, storeVars
<1>1. pc[w] = "walking" /\ WalkShape(walk[w])
  BY DEF CrawlInv, Shapes, Visit, FetchFails, Challenged, Duplicate, Broken, ParseLast, Parse,
         Request, MayAsk, Approaches, Walking
<1>2. ASSUME NEW answer, FetchFails(w, answer, n)
      PROVE  CrawlInv'
  <2> DEFINE e == Failed(Retried(Noted(w, "failed"), n),
                         IF answer = "refused" THEN "blocked_by_source" ELSE "unreachable")
             k == [walk[w] EXCEPT !.failures = @ + 1]
  <2>1. Records(w, e)
    BY NotedRow, AnnotatedOutput
  <2>2. WalkShape(k) /\ k.keys = walk[w].keys /\ k.visited = walk[w].visited
    BY <1>1 DEF WalkShape
  <2>3. exec' = [exec EXCEPT ![w] = e] /\ walk' = [walk EXCEPT ![w] = k]
    BY <1>2, <1>1 DEF FetchFails, CrawlInv, Shapes
  <2> HIDE DEF e, k
  <2> QED
    BY <1>1, <1>2, <2>1, <2>2, <2>3, WalkStep DEF FetchFails
<1>3. CASE Challenged(w, n)
  BY <1>1, <1>3, RefuseStep DEF Challenged
<1>4. CASE Duplicate(w, n)
  <2> DEFINE g == Retried(Noted(w, "skipped"), n)
  <2>1. PICK e : exec' = [exec EXCEPT ![w] = e]
                 /\ (e = g \/ e = Stopped(g, "duplicate_content"))
    BY <1>4 DEF Duplicate
  <2>2. Records(w, e)
    BY <2>1, NotedRow, AnnotatedOutput
  <2>3. walk' = [walk EXCEPT ![w] = Fetched(w)]
    BY <1>4 DEF Duplicate
  <2>4. pc' = pc \/ pc' = [pc EXCEPT ![w] = "closing"]
    BY <1>4 DEF Duplicate
  <2> QED
    BY <1>1, <1>4, <2>1, <2>2, <2>3, <2>4, FetchedWalk, WalkStep DEF Duplicate
<1>5. CASE Broken(w, n)
  <2> DEFINE e == Failed(Retried(Noted(w, "failed"), n), "adapter_error")
  <2>1. Records(w, e)
    BY NotedRow, AnnotatedOutput
  <2>2. exec' = [exec EXCEPT ![w] = e] /\ walk' = [walk EXCEPT ![w] = Fetched(w)]
    BY <1>5 DEF Broken
  <2> HIDE DEF e
  <2> QED
    BY <1>1, <1>5, <2>1, <2>2, FetchedWalk, WalkStep DEF Broken
<1>6. /\ WalkShape(Extracted(w))
      /\ Extracted(w).keys \subseteq walk[w].keys \cup NewKeys(w)
      /\ Extracted(w).visited = walk[w].visited \cup {Address(w)}
  BY ExtractedWalk DEF NewKeys
<1>7. CASE ParseLast(w, n)
  <2> DEFINE e == Stopped(Harvested(w, n), IF EmptyStart(w) THEN "empty_success" ELSE "no_progress")
  <2>1. ExecShape(Harvested(w, n))
    BY HarvestedOutput DEF Records
  <2>2. Records(w, e) /\ NewKeys(w) \subseteq e.unsaved
    BY <2>1, HarvestedOutput, AnnotatedOutput, Annotations
  <2>3. exec' = [exec EXCEPT ![w] = e] /\ walk' = [walk EXCEPT ![w] = Extracted(w)]
    BY <1>7 DEF ParseLast
  <2> HIDE DEF e
  <2> QED
    BY <1>1, <1>6, <1>7, <2>2, <2>3, WalkStep DEF ParseLast
<1>8. CASE Parse(w, n)
  <2> DEFINE g == Harvested(w, n)
             pager == {Fresh(w)[i] : i \in 1..Len(Fresh(w))}
             x == Extracted(w)
  <2>1. ExecShape(g)
    BY HarvestedOutput DEF Records
  <2>2. PICK e : exec' = [exec EXCEPT ![w] = e] /\ (e = g \/ e = Stopped(g, "pagination_loop"))
    BY <1>8 DEF Parse
  <2>3. Records(w, e) /\ NewKeys(w) \subseteq e.unsaved
    BY <2>1, <2>2, HarvestedOutput, AnnotatedOutput, Annotations
  <2>4. PICK k : /\ walk' = [walk EXCEPT ![w] = k]
                 /\ k = [x EXCEPT !.tokens = @ \cup pager]
    BY <1>8 DEF Parse
  <2>5. pc' = [pc EXCEPT ![w] = IF Loops(w) THEN "closing" ELSE "writing"]
    BY <1>8 DEF Parse
  <2> HIDE DEF x, pager
  <2>6. WalkShape(k) /\ k.keys = x.keys /\ k.visited = x.visited
    BY <1>6, <2>4 DEF WalkShape, x
  <2> QED
    BY <1>1, <1>6, <1>8, <2>2, <2>3, <2>4, <2>5, <2>6, WalkStep DEF Parse, x
<1> QED
  BY <1>2, <1>3, <1>4, <1>5, <1>7, <1>8 DEF Visit

(* The steps of the walk.                                                  *)
LEMMA CrawlStep ==
  ASSUME CrawlInv, NEW w \in Worker, Crawl(w)
  PROVE  CrawlInv'
<1>1. CASE Skip(w)
  <2> DEFINE e == Noted(w, "skipped")
  <2>1. Records(w, e)
    BY NotedRow
  <2>2. exec' = [exec EXCEPT ![w] = e]
    BY <1>1 DEF Skip
  <2> HIDE DEF e
  <2>3. WalkShape(walk[w]) /\ walk' = [walk EXCEPT ![w] = walk[w]]
    BY <1>1 DEF CrawlInv, Shapes, Skip
  <2> QED
    BY <1>1, <2>1, <2>2, <2>3, WalkStep DEF Skip, Walking, MemoryOnly, storeVars
<1>2. CASE RefusedByPolicy(w)
  BY <1>2, RefuseStep DEF RefusedByPolicy, Approaches, Walking
<1>3. CASE RefusedByRobots(w)
  BY <1>3, RefuseStep DEF RefusedByRobots, MayAsk, Approaches, Walking
<1>4. CASE Exhaust(w)
  BY <1>4, GotoElsewhere, StepElsewhere DEF Exhaust, MemoryOnly, storeVars
<1> QED
  BY <1>1, <1>2, <1>3, <1>4, HaltStep, VisitStep DEF Crawl

(* The renewed lease before the final write changes no output.             *)
LEMMA ConfirmStep ==
  ASSUME CrawlInv, NEW w \in Worker, Confirm(w)
  PROVE  CrawlInv'
<1>1. PICK e : e = [exec[w] EXCEPT !.final = TRUE] /\ exec' = [exec EXCEPT ![w] = e]
  BY DEF Confirm, CrawlInv, Shapes
<1>2. WalkShape(walk[w]) /\ walk' = [walk EXCEPT ![w] = walk[w]]
  BY DEF CrawlInv, Shapes, Confirm
<1>3. ExecShape(exec[w])
  BY DEF CrawlInv, Shapes
<1>4. ExecShape(e) /\ e.unsaved = exec[w].unsaved /\ e.rows = exec[w].rows
  BY <1>1, <1>3 DEF ExecShape
<1>5. /\ walk[w].keys \subseteq ingested \cup Unmatched \cup e.unsaved
      /\ \A u \in Url : u \in walk[w].visited => pageStatus[u] # "none" \/ e.rows[u] # "none"
  BY <1>4 DEF CrawlInv, KeysAreKept, VisitsAreNoted
<1>6. /\ pc' = [v \in Worker |-> pc'[v]] /\ pc'[w] # "ingesting"
      /\ \A v \in Worker \ {w} : pc'[v] = pc[v]
  BY DEF Confirm, Goto, CrawlInv, Shapes
<1> QED
  BY <1>1, <1>2, <1>4, <1>5, <1>6, StepInMemory DEF Confirm, MemoryOnly, storeVars

(* The rows move from the output to the store; rows already there stay.    *)
LEMMA WritePagesStep ==
  ASSUME CrawlInv, NEW w \in Worker, WritePages(w)
  PROVE  CrawlInv'
<1> USE DEF CrawlInv
<1>1. PICK e : e = [exec[w] EXCEPT !.rows = NoRows] /\ exec' = [exec EXCEPT ![w] = e]
  BY DEF WritePages, Shapes
<1>2. ExecShape(exec[w])
  BY DEF Shapes
<1>3. ExecShape(e) /\ e.unsaved = exec[w].unsaved /\ \A u \in Url : e.rows[u] = "none"
  BY <1>1, <1>2 DEF ExecShape, NoRows
<1>4. \A v \in Worker : exec'[v] = IF v = w THEN e ELSE exec[v]
  BY <1>1 DEF Shapes
<1>5. /\ pageStatus' = [u \in Url |-> pageStatus'[u]]
      /\ \A u \in Url : pageStatus[u] # "none" \/ exec[w].rows[u] # "none"
                        => pageStatus'[u] # "none"
  BY DEF WritePages
<1>6. /\ pc' = [v \in Worker |-> pc'[v]]
      /\ \A v \in Worker \ {w} : pc'[v] = pc[v]
  BY DEF WritePages, Goto, Shapes
<1>7. UNCHANGED <<walk, ingested, checkpoint>>
  BY DEF WritePages
<1>8. Shapes'
  <2>1. exec' = [v \in Worker |-> exec'[v]]
    BY <1>1 DEF Shapes
  <2>2. \A v \in Worker : ExecShape(exec[v])
    BY DEF Shapes
  <2>3. \A v \in Worker : ExecShape(exec'[v])
    BY <1>3, <1>4, <2>2
  <2> QED
    BY <1>5, <1>6, <1>7, <2>1, <2>3 DEF Shapes, WalkShape, ExecShape
<1>9. KeysAreKept'
  BY <1>3, <1>4, <1>7 DEF KeysAreKept
<1>10. VisitsAreNoted'
  BY <1>4, <1>5, <1>7 DEF VisitsAreNoted
<1>11. RowsAreWritten'
  BY <1>3, <1>4, <1>6 DEF RowsAreWritten
<1>12. NothingStranded'
  BY <1>5, <1>7 DEF NothingStranded
<1> QED
  BY <1>8, <1>9, <1>10, <1>11, <1>12

(* A record leaves the output once it is ingested or known as unmatched.   *)
LEMMA IngestStep ==
  ASSUME CrawlInv, NEW w \in Worker, NEW r, Ingest(w, r)
  PROVE  CrawlInv'
<1> USE DEF CrawlInv
<1>1. PICK e : /\ e = [exec[w] EXCEPT !.unsaved = @ \ {r}]
               /\ exec' = [exec EXCEPT ![w] = e]
  BY DEF Ingest, Shapes
<1>2. WalkShape(walk[w]) /\ ExecShape(exec[w])
  BY DEF Shapes
<1>3. ExecShape(e) /\ e.unsaved = exec[w].unsaved \ {r} /\ e.rows = exec[w].rows
  BY <1>1, <1>2 DEF ExecShape
<1>4. PICK k : /\ k = walk[w] \/ k = [walk[w] EXCEPT !.flawed = TRUE]
               /\ walk' = [walk EXCEPT ![w] = k]
  BY DEF Ingest, Shapes
<1>5. WalkShape(k) /\ k.keys = walk[w].keys /\ k.visited = walk[w].visited
  BY <1>2, <1>4 DEF WalkShape
<1>6. /\ ingested \subseteq ingested' /\ r \in ingested' \cup Unmatched
      /\ UNCHANGED <<pc, pageStatus, checkpoint>>
  BY DEF Ingest
<1>7. \A v \in Worker : /\ exec'[v] = IF v = w THEN e ELSE exec[v]
                        /\ walk'[v] = IF v = w THEN k ELSE walk[v]
  BY <1>1, <1>4 DEF Shapes
<1>8. Shapes'
  <2>1. exec' = [v \in Worker |-> exec'[v]] /\ walk' = [v \in Worker |-> walk'[v]]
    BY <1>1, <1>4 DEF Shapes
  <2>2. \A v \in Worker : WalkShape(walk[v]) /\ ExecShape(exec[v])
    BY DEF Shapes
  <2>3. \A v \in Worker : WalkShape(walk'[v]) /\ ExecShape(exec'[v])
    BY <1>3, <1>5, <1>7, <2>2
  <2> QED
    BY <1>6, <2>1, <2>3 DEF Shapes, WalkShape, ExecShape
<1>9. KeysAreKept'
  BY <1>3, <1>5, <1>6, <1>7 DEF KeysAreKept
<1>10. VisitsAreNoted'
  BY <1>3, <1>5, <1>6, <1>7 DEF VisitsAreNoted
<1>11. RowsAreWritten'
  BY <1>3, <1>6, <1>7 DEF RowsAreWritten
<1>12. NothingStranded'
  BY <1>6 DEF NothingStranded
<1> QED
  BY <1>8, <1>9, <1>10, <1>11, <1>12

(* The checkpoint takes the walk over when none of its output is unwritten.*)
LEMMA SaveCheckpointStep ==
  ASSUME CrawlInv, NEW w \in Worker, SaveCheckpoint(w)
  PROVE  CrawlInv'
<1> USE DEF CrawlInv
<1>1. PICK flawed : checkpoint' = [walk[w] EXCEPT !.flawed = flawed]
  BY DEF SaveCheckpoint
<1>2. WalkShape(walk[w])
  BY DEF Shapes
<1>3. /\ WalkShape(checkpoint)' /\ checkpoint'.keys = walk[w].keys
      /\ checkpoint'.visited = walk[w].visited
  BY <1>1, <1>2 DEF WalkShape
<1>4. exec[w].unsaved = {} /\ \A u \in Url : exec[w].rows[u] = "none"
  BY DEF SaveCheckpoint, Written, RowsAreWritten
<1>5. UNCHANGED <<pageStatus, ingested, walk, exec>>
  BY DEF SaveCheckpoint
<1>6. NothingStranded'
  BY <1>3, <1>4, <1>5 DEF NothingStranded, KeysAreKept, VisitsAreNoted
<1>7. /\ pc' = [v \in Worker |-> pc'[v]]
      /\ \A v \in Worker : pc'[v] = "ingesting" => pc[v] = "ingesting"
  BY DEF SaveCheckpoint, Goto, Shapes
<1>8. Shapes'
  BY <1>3, <1>5, <1>7 DEF Shapes, WalkShape, ExecShape
<1>9. KeysAreKept' /\ VisitsAreNoted' /\ RowsAreWritten'
  BY <1>5, <1>7 DEF KeysAreKept, VisitsAreNoted, RowsAreWritten
<1> QED
  BY <1>6, <1>8, <1>9

(* The steps that write the output.                                        *)
LEMMA PersistStep ==
  ASSUME CrawlInv, NEW w \in Worker, Persist(w)
  PROVE  CrawlInv'
<1>1. CASE FinishRun(w)
  BY <1>1, GotoElsewhere, StepElsewhere DEF FinishRun
<1> QED
  BY <1>1, ConfirmStep, WritePagesStep, IngestStep, SaveCheckpointStep DEF Persist

(* The steps that close an execution.                                      *)
LEMMA ReportStep ==
  ASSUME CrawlInv, NEW w \in Worker, Report(w)
  PROVE  CrawlInv'
<1>1. CASE Throw(w)
  BY <1>1, GotoElsewhere, StepElsewhere DEF Throw
<1>2. CASE Release(w) /\ UNCHANGED storeVars
  BY <1>2, ReleaseStep DEF storeVars
<1> QED
  BY <1>1, <1>2 DEF Report, CompleteJob, ContinueJob, BlockJob, FailJob, Abandon

(* Every step keeps the invariant.                                         *)
LEMMA NextCrawlInv == CrawlInv /\ [Next]_vars => CrawlInv'
<1> SUFFICES ASSUME CrawlInv, [Next]_vars PROVE CrawlInv'
  OBVIOUS
<1>1. ASSUME NEW w \in Worker, Execute(w)
      PROVE  CrawlInv'
  <2>1. CASE MarkJobRunning(w)
    BY <2>1, GotoElsewhere, StepElsewhere DEF MarkJobRunning, storeVars
  <2> QED
    BY <1>1, <2>1, LoadStep, CrawlStep, PersistStep, ReportStep DEF Execute
<1>2. ASSUME NEW w \in Worker, Crash(w)
      PROVE  CrawlInv'
  BY <1>2, ReleaseStep DEF Crash, storeVars
<1>3. CASE UNCHANGED <<storeVars, workerVars>>
  BY <1>3, StepElsewhere DEF storeVars, workerVars, CrawlInv, Shapes
<1>4. CASE LeaseRunsOut \/ RunEnds \/ Review \/ UNCHANGED vars
  BY <1>3, <1>4 DEF LeaseRunsOut, RunEnds, Review, ReviewPolicy, ResumePolicyHold, vars
<1> QED
  BY <1>1, <1>2, <1>4, ClaimStep DEF Next

(* Whatever crashes, loses its lease or races another execution, the       *)
(* checkpoint that a later lease resumes from counts nobody as harvested   *)
(* who was not ingested, and no page as fetched that has no page row: with *)
(* ingestion before saveCheckpoint, a resumed crawl loses no output.       *)
THEOREM OutputNeverStranded == Spec => []NothingStranded
<1>1. CrawlInv => NothingStranded
  BY DEF CrawlInv
<1> QED
  BY <1>1, InitCrawlInv, NextCrawlInv, PTL DEF Spec

----------------------------------------------------------------------------
(* The pages a website offers.                                             *)

(* g lists the first n rounds of growth from the seed.                     *)
Rounds(s, g, n) ==
  /\ g[0] = {SeedTask}
  /\ \A i \in 0..n : i > 0 => g[i] = Grown(s, g[i - 1])

(* The rounds of growth are defined for every number, and only in one way. *)
LEMMA RoundsExist ==
  ASSUME NEW s
  PROVE  \A n \in Nat : \E g : Rounds(s, g, n)
<1> DEFINE S == {n \in Nat : \E g : Rounds(s, g, n)}
<1>1. 0 \in S
  <2>1. Rounds(s, [i \in {0} |-> {SeedTask}], 0)
    BY DEF Rounds
  <2> QED BY <2>1
<1>2. ASSUME NEW n \in Nat, n \in S
      PROVE  n + 1 \in S
  <2>1. PICK g : Rounds(s, g, n)
    BY <1>2
  <2> DEFINE h == [i \in 0..(n + 1) |-> IF i = n + 1 THEN Grown(s, g[n]) ELSE g[i]]
  <2>2. h[0] = {SeedTask}
    BY <2>1 DEF Rounds
  <2>3. ASSUME NEW i \in 0..(n + 1), i > 0
        PROVE  h[i] = Grown(s, h[i - 1])
    <3>1. i - 1 \in 0..n /\ h[i - 1] = g[i - 1]
      BY <2>3
    <3>2. CASE i = n + 1
      BY <3>1, <3>2
    <3>3. CASE i # n + 1
      BY <2>1, <2>3, <3>1, <3>3 DEF Rounds
    <3> QED BY <3>2, <3>3
  <2>4. Rounds(s, h, n + 1)
    BY <2>2, <2>3 DEF Rounds
  <2> QED BY <2>4
<1> HIDE DEF S
<1>3. Nat \subseteq S
  BY <1>1, <1>2, NaturalsByInduction
<1> QED BY <1>3 DEF S

(* Two listings of the rounds agree wherever both reach.                   *)
LEMMA RoundsAgree ==
  ASSUME NEW s, NEW i \in Nat
  PROVE  \A g, h : \A m, n \in Nat :
           Rounds(s, g, m) /\ Rounds(s, h, n) /\ i <= m /\ i <= n => g[i] = h[i]
<1> DEFINE Agree(k) == \A g, h : \A m, n \in Nat :
             Rounds(s, g, m) /\ Rounds(s, h, n) /\ k <= m /\ k <= n => g[k] = h[k]
           S == {k \in Nat : Agree(k)}
<1>1. 0 \in S
  BY DEF Rounds
<1>2. ASSUME NEW k \in Nat, k \in S
      PROVE  k + 1 \in S
  <2>1. Agree(k)
    BY <1>2
  <2>2. ASSUME NEW g, NEW h, NEW m \in Nat, NEW n \in Nat,
               Rounds(s, g, m), Rounds(s, h, n), k + 1 <= m, k + 1 <= n
        PROVE  g[k + 1] = h[k + 1]
    <3>1. g[k] = h[k]
      BY <2>1, <2>2
    <3>2. g[k + 1] = Grown(s, g[k]) /\ h[k + 1] = Grown(s, h[k])
      BY <2>2 DEF Rounds
    <3> QED BY <3>1, <3>2
  <2> QED BY <2>2
<1> HIDE DEF S
<1>3. i \in S
  BY <1>1, <1>2, NaturalsByInduction
<1> QED BY <1>3 DEF S

(* The pages reached grow round by round from the seed.                    *)
LEMMA ReachRounds ==
  ASSUME NEW s
  PROVE  /\ Reach(s)[0] = {SeedTask}
         /\ \A n \in Nat : Reach(s)[n + 1] = Grown(s, Reach(s)[n])
<1> DEFINE Is(r) == r = [n \in Nat |-> IF n = 0 THEN {SeedTask} ELSE Grown(s, r[n - 1])]
           round == [n \in Nat |-> CHOOSE g : Rounds(s, g, n)]
           r == [n \in Nat |-> round[n][n]]
<1>1. Reach(s) = CHOOSE f : Is(f)
  BY DEF Reach
<1>2. \A n \in Nat : Rounds(s, round[n], n)
  BY RoundsExist
<1>3. ASSUME NEW n \in Nat
      PROVE  r[n] = IF n = 0 THEN {SeedTask} ELSE Grown(s, r[n - 1])
  <2> HIDE DEF round
  <2>1. CASE n = 0
    BY <1>2, <2>1 DEF Rounds
  <2>2. CASE n # 0
    <3>1. n - 1 \in Nat /\ n > 0 /\ n \in 0..n /\ n - 1 <= n
      BY <2>2
    <3>2. round[n][n] = Grown(s, round[n][n - 1])
      BY <1>2, <3>1 DEF Rounds
    <3>3. PICK i \in Nat : i = n - 1
      BY <3>1
    <3>4. Rounds(s, round[n], n) /\ Rounds(s, round[i], i) /\ i <= n /\ i <= i
      BY <1>2, <3>3
    <3>5. round[n][i] = round[i][i]
      BY <3>4, RoundsAgree
    <3> QED BY <2>2, <3>1, <3>2, <3>3, <3>5
  <2> QED BY <2>1, <2>2
<1> HIDE DEF round
<1>4. Is(r)
  BY <1>3
<1>5. Is(Reach(s))
  <2> HIDE DEF Is, r
  <2> QED BY <1>1, <1>4, Zenon
<1>6. \A n \in Nat : Reach(s)[n] = IF n = 0 THEN {SeedTask} ELSE Grown(s, Reach(s)[n - 1])
  BY <1>5, Zenon
<1>7. \A n \in Nat : n + 1 \in Nat /\ n + 1 # 0 /\ (n + 1) - 1 = n
  OBVIOUS
<1> QED BY <1>6, <1>7

(* One round leads from a page within the limits to those it links, and    *)
(* keeps what was reached.                                                 *)
LEMMA ReachStep ==
  ASSUME NEW s, NEW n \in Nat
  PROVE  /\ Reach(s)[n] \subseteq Reach(s)[n + 1]
         /\ \A t \in Reach(s)[n] : Within(s, t) => LinksOf(s, t) \subseteq Reach(s)[n + 1]
         /\ \A l \in Reach(s)[n + 1] : l \in Reach(s)[n] \/
              \E t \in Reach(s)[n] : Within(s, t) /\ l \in LinksOf(s, t)
<1> PICK a, b : a = Reach(s)[n] /\ b = Reach(s)[n + 1]
  OBVIOUS
<1>1. b = Grown(s, a)
  BY ReachRounds
<1>2. b = a \cup UNION {LinksOf(s, t) : t \in {t \in a : Within(s, t)}}
  BY <1>1 DEF Grown
<1>3. \A t \in a : Within(s, t) => LinksOf(s, t) \subseteq b
  BY <1>2
<1>4. \A l \in b : l \in a \/ \E t \in a : Within(s, t) /\ l \in LinksOf(s, t)
  BY <1>2
<1> QED BY <1>2, <1>3, <1>4

(* What is reached stays reached.                                          *)
LEMMA ReachGrows ==
  ASSUME NEW s, NEW m \in Nat, NEW n \in Nat, m <= n
  PROVE  Reach(s)[m] \subseteq Reach(s)[n]
<1> DEFINE S == {i \in Nat : Reach(s)[m] \subseteq Reach(s)[m + i]}
<1>1. 0 \in S
  OBVIOUS
<1>2. ASSUME NEW i \in Nat, i \in S
      PROVE  i + 1 \in S
  <2>1. m + i \in Nat /\ m + (i + 1) = (m + i) + 1
    OBVIOUS
  <2>2. Reach(s)[m + i] \subseteq Reach(s)[(m + i) + 1]
    BY <2>1, ReachStep
  <2> QED BY <1>2, <2>1, <2>2
<1> HIDE DEF S
<1>3. n - m \in S
  BY <1>1, <1>2, NaturalsByInduction
<1> QED BY <1>3 DEF S

(* Only tasks are reached, and every listing among them at depth zero.     *)
Fits(t) == t \in Task /\ (t.kind = "listing" => t.depth = 0)

(* A page links only what fits.                                            *)
LEMMA LinksFit ==
  ASSUME NEW s \in Site, NEW t, Fits(t), NEW l \in LinksOf(s, t)
  PROVE  Fits(l)
<1>1. t \in Task /\ t.url \in Url /\ t.depth \in Nat
  BY DEF Fits, Task
<1>2. s.profiles[t.url] \in Seq(Url) /\ s.pager[t.url] \in Seq(Url)
  BY <1>1 DEF Site
<1>3. CASE \E i \in 1..Len(s.profiles[t.url]) :
             l = [url |-> s.profiles[t.url][i], kind |-> "profile", depth |-> t.depth + 1]
  BY <1>1, <1>2, <1>3 DEF Fits, Task
<1>4. CASE /\ t.kind # "profile"
           /\ \E i \in 1..Len(s.pager[t.url]) :
                l = [url |-> s.pager[t.url][i], kind |-> "listing", depth |-> t.depth]
  <2>1. t.kind = "listing" /\ t.depth = 0
    BY <1>1, <1>4 DEF Fits, Task
  <2> QED BY <1>1, <1>2, <1>4, <2>1 DEF Fits, Task
<1> QED BY <1>3, <1>4 DEF LinksOf

(* Whatever is reached, in any number of rounds, fits.                     *)
LEMMA ReachFits ==
  ASSUME NEW s \in Site, NEW n \in Nat
  PROVE  \A t \in Reach(s)[n] : Fits(t)
<1> DEFINE S == {i \in Nat : \A t \in Reach(s)[i] : Fits(t)}
<1>1. 0 \in S
  BY ReachRounds, WorldAssumption DEF SeedTask, Fits, Task
<1>2. ASSUME NEW i \in Nat, i \in S
      PROVE  i + 1 \in S
  BY <1>2, ReachStep, LinksFit
<1> HIDE DEF S
<1>3. n \in S
  BY <1>1, <1>2, NaturalsByInduction
<1> QED BY <1>3 DEF S

----------------------------------------------------------------------------
(* What is queued of a pager.                                              *)

Picks(seq, P, T) ==
  /\ Cardinality(P) \in Nat
  /\ \A n \in 1..Cardinality(P) : \E i \in P : T[n] = seq[i]
  /\ \A i \in P : \E n \in 1..Cardinality(P) : T[n] = seq[i]

(* The places a picking keeps: every entry picked stands at one of them,   *)
(* and none of them is left out.                                           *)
LEMMA PickedEntries ==
  ASSUME NEW N \in Nat, NEW P, P \subseteq 1..N, NEW seq
  PROVE  Picks(seq, P, Picked(seq, P))
<1> DEFINE Below(i) == {j \in P : j <= i}
           rank == [i \in P |-> Cardinality(Below(i))]
           C == Cardinality(P)
<1>1. IsFiniteSet(P) /\ C \in Nat
  <2>1. IsFiniteSet(1..N) /\ P \in SUBSET (1..N)
    BY FS_Interval
  <2> QED BY <2>1, FS_Subset, FS_CardinalityType
<1>2. \A i \in P : i \in Nat
  OBVIOUS
<1>3. ASSUME NEW i \in P
      PROVE  /\ Below(i) \in SUBSET P /\ IsFiniteSet(Below(i)) /\ i \in Below(i)
             /\ rank[i] = Cardinality(Below(i)) /\ rank[i] \in 1..C
  <2>1. Below(i) \in SUBSET P /\ i \in Below(i)
    BY <1>2
  <2>2. IsFiniteSet(Below(i)) /\ Cardinality(Below(i)) <= C /\ Cardinality(Below(i)) \in Nat
    BY <1>1, <2>1, FS_Subset, FS_CardinalityType
  <2>3. Cardinality(Below(i)) # 0
    BY <2>1, <2>2, FS_EmptySet
  <2> QED BY <2>1, <2>2, <2>3
<1>4. ASSUME NEW i \in P, NEW k \in P, i < k
      PROVE  rank[i] < rank[k]
  <2>1. k \notin Below(i) /\ Below(i) \cup {k} \subseteq Below(k)
    <3>1. i \in Nat /\ k \in Nat /\ ~(k <= i) /\ k <= k
      BY <1>2, <1>4
    <3>2. \A j \in P : j <= i => j <= k
      BY <1>2, <1>4, <3>1
    <3> QED BY <3>1, <3>2
  <2>2. Cardinality(Below(i) \cup {k}) = rank[i] + 1
    BY <1>3, <2>1, FS_AddElement
  <2>3. Cardinality(Below(i) \cup {k}) <= rank[k]
    <3>1. Below(i) \cup {k} \in SUBSET Below(k)
      BY <2>1
    <3> HIDE DEF Below
    <3> QED BY <1>3, <3>1, FS_Subset
  <2> QED BY <1>1, <1>3, <2>2, <2>3
<1> HIDE DEF Below, C
<1>5. rank \in [P -> 1..C]
  BY <1>3
<1> HIDE DEF rank
<1>6. \A i, k \in P : rank[i] = rank[k] => i = k
  <2> SUFFICES ASSUME NEW i \in P, NEW k \in P, rank[i] = rank[k], i # k PROVE FALSE
    OBVIOUS
  <2>1. i < k \/ k < i
    BY <1>2
  <2>2. rank[i] \in Nat /\ rank[k] \in Nat
    BY <1>1, <1>5
  <2> QED BY <1>4, <2>1, <2>2
<1>7. rank \in Injection(P, 1..C)
  BY <1>5, <1>6 DEF Injection, IsInjective
<1>8. IsFiniteSet(1..C) /\ Cardinality(1..C) = C
  BY <1>1, FS_Interval
<1>9. rank \in Surjection(P, 1..C)
  BY <1>1, <1>7, <1>8, FS_Injection DEF C
<1>10. \A n \in 1..C : \E i \in P : rank[i] = n
  BY <1>9 DEF Surjection
<1>11. ASSUME NEW n \in 1..C
       PROVE  \A i \in P : rank[i] = n => Picked(seq, P)[n] = seq[i]
  <2> SUFFICES ASSUME NEW i \in P, rank[i] = n PROVE Picked(seq, P)[n] = seq[i]
    OBVIOUS
  <2> DEFINE Is(k) == Cardinality({j \in P : j <= k}) = n
  <2>1. \A k \in P : Is(k) <=> rank[k] = n
    BY DEF rank, Below
  <2>2. Picked(seq, P)[n] = seq[CHOOSE k \in P : Is(k)]
    BY DEF Picked, C
  <2> HIDE DEF Is
  <2>3. i = CHOOSE k \in P : Is(k)
    BY <1>6, <2>1
  <2> QED BY <2>2, <2>3
<1> PICK T : T = Picked(seq, P)
  OBVIOUS
<1>12. \A n \in 1..C : \E i \in P : T[n] = seq[i]
  BY <1>10, <1>11
<1>13. \A i \in P : \E n \in 1..C : T[n] = seq[i]
  BY <1>5, <1>11
<1> QED BY <1>1, <1>12, <1>13 DEF C, Picks

----------------------------------------------------------------------------
(* What a walk holds.                                                      *)

(* Task t needs no further thought: it is out of bounds, visited, or still *)
(* queued.                                                                 *)
Queued(q, t) == \E i \in 1..Len(q) : q[i] = t
Ahead(s, k, q, t) ==
  ~Within(s, t) \/ s.address[t.url] \in k.visited \/ Queued(q, t)

(* What can be reached in as many rounds as there are pages visited.       *)
Known(s, k) == Reach(s)[Cardinality(k.visited)]

(* The page was taken in: its people are counted and its links are ahead.  *)
Taken(s, k, q, t) ==
  /\ t \in Known(s, k) /\ Within(s, t) /\ s.people[t.url] \subseteq k.keys
  /\ \A l \in LinksOf(s, t) : Ahead(s, k, q, l)

Listing(u) == [url |-> u, kind |-> "listing", depth |-> 0]
VisitsTaken(s, k, q) ==
  \A a \in k.visited : \E t \in Known(s, k) : s.address[t.url] = a /\ Taken(s, k, q, t)
BodiesTaken(s, k, q) ==
  \A c \in k.contents : \E t \in Known(s, k) : s.content[t.url] = c /\ Taken(s, k, q, t)
Covers(s, k, q) ==
  /\ Ahead(s, k, q, SeedTask)
  /\ \A u \in k.tokens : Ahead(s, k, q, Listing(u))
  /\ VisitsTaken(s, k, q)
  /\ BodiesTaken(s, k, q)
  /\ \A i \in 1..Len(q) : q[i] \in Known(s, k)

(* The walk of an execution: unless an error, an unmatched record or a     *)
(* pager given up speaks against it, it covers what it visited, or it      *)
(* found nobody and has nothing left to visit.                             *)
Walks(s, g, k, q, e) ==
  /\ q \in Seq(Task) /\ k.visited \subseteq Url
  /\ e.fresh => ~e.found /\ Len(q) <= 1
  /\ k.flawed \/ k.keys \cap Unmatched \subseteq e.unsaved
  /\ \/ k.flawed \/ e.errors # {} \/ g \/ ~Regular(s)
     \/ ~e.found /\ q = <<>>
     \/ Covers(s, k, q)
Saved(e) == e.unsaved = {} /\ \A u \in Url : e.rows[u] = "none"

(* The same of the saved checkpoint, which no output is missing from.      *)
Resumes(s, g, k, q) ==
  /\ q \in Seq(Task) /\ k.visited \subseteq Url
  /\ k.flawed \/ k.keys \cap Unmatched = {}
  /\ k.flawed \/ g \/ ~Regular(s) \/ q = <<>> \/ Covers(s, k, q)

CoverageInv ==
  /\ site \in Site /\ gaveUp \in BOOLEAN
  /\ queue = [w \in Worker |-> queue[w]]
  /\ \A w \in Worker : Walks(site, gaveUp, walk[w], queue[w], exec[w])
  /\ \A w \in Worker : pc[w] \in {"finishing", "reporting"} => Saved(exec[w])
  /\ Resumes(site, gaveUp, checkpoint, frontier)

(* What keeps a walk covering, as it takes the head h off its queue.       *)
Moves(s, k, q, k2, q2) ==
  /\ k.visited \subseteq k2.visited /\ k.keys \subseteq k2.keys
  /\ \A i \in 1..Len(q) : Ahead(s, k2, q2, q[i])
  /\ Cardinality(k.visited) \in Nat /\ Cardinality(k2.visited) \in Nat
  /\ Cardinality(k.visited) <= Cardinality(k2.visited)

(* Such a move leaves nothing behind.                                      *)
LEMMA AheadMoves ==
  ASSUME NEW s, NEW k, NEW q, NEW k2, NEW q2, Moves(s, k, q, k2, q2),
         NEW t, Ahead(s, k, q, t)
  PROVE  Ahead(s, k2, q2, t)
<1>1. CASE Queued(q, t)
  <2>1. PICK i \in 1..Len(q) : q[i] = t
    BY <1>1 DEF Queued
  <2>2. Ahead(s, k2, q2, q[i])
    BY DEF Moves
  <2> QED BY <2>1, <2>2
<1>2. CASE ~Queued(q, t)
  BY <1>2 DEF Ahead, Moves
<1> QED BY <1>1, <1>2

(* A walk that moves knows at least as much.                               *)
LEMMA KnownMoves ==
  ASSUME NEW s, NEW k, NEW q, NEW k2, NEW q2, Moves(s, k, q, k2, q2)
  PROVE  Known(s, k) \subseteq Known(s, k2)
<1> PICK m, n : m = Cardinality(k.visited) /\ n = Cardinality(k2.visited)
  OBVIOUS
<1>1. m \in Nat /\ n \in Nat /\ m <= n
  BY DEF Moves
<1> QED BY <1>1, ReachGrows DEF Known

(* A page taken in stays taken in as the walk moves on.                    *)
LEMMA TakenMoves ==
  ASSUME NEW s, NEW k, NEW q, NEW k2, NEW q2, Moves(s, k, q, k2, q2),
         NEW t, Taken(s, k, q, t)
  PROVE  Taken(s, k2, q2, t) /\ t \in Known(s, k2)
<1>1. t \in Known(s, k2)
  BY KnownMoves DEF Taken
<1>2. s.people[t.url] \subseteq k2.keys
  BY DEF Taken, Moves
<1>3. \A l \in LinksOf(s, t) : Ahead(s, k2, q2, l)
  BY AheadMoves DEF Taken
<1> QED BY <1>1, <1>2, <1>3 DEF Taken

(* A walk that moves covers what it covered and what it now takes in: page *)
(* t, when its address and body are the ones that join.                    *)
LEMMA CoversMoves ==
  ASSUME NEW s, NEW k, NEW q, NEW k2, NEW q2, Moves(s, k, q, k2, q2), Covers(s, k, q),
         NEW t,
         \A a \in k2.visited : a \in k.visited \/ (a = s.address[t.url] /\ Taken(s, k2, q2, t)),
         \A c \in k2.contents : c \in k.contents \/ (c = s.content[t.url] /\ Taken(s, k2, q2, t)),
         \A u \in k2.tokens : u \in k.tokens \/ Ahead(s, k2, q2, Listing(u)),
         \A i \in 1..Len(q2) : q2[i] \in Known(s, k2)
  PROVE  Covers(s, k2, q2)
<1>1. Ahead(s, k2, q2, SeedTask)
  BY AheadMoves DEF Covers
<1>2. \A u \in k2.tokens : Ahead(s, k2, q2, Listing(u))
  BY AheadMoves DEF Covers
<1>3. ASSUME NEW a \in k2.visited
      PROVE  \E x \in Known(s, k2) : s.address[x.url] = a /\ Taken(s, k2, q2, x)
  <2>1. CASE a \in k.visited
    <3>1. PICK x \in Known(s, k) : s.address[x.url] = a /\ Taken(s, k, q, x)
      BY <2>1 DEF Covers, VisitsTaken
    <3> QED BY <3>1, TakenMoves
  <2>2. CASE a = s.address[t.url] /\ Taken(s, k2, q2, t)
    BY <2>2 DEF Taken
  <2> QED BY <2>1, <2>2
<1>4. ASSUME NEW c \in k2.contents
      PROVE  \E x \in Known(s, k2) : s.content[x.url] = c /\ Taken(s, k2, q2, x)
  <2>1. CASE c \in k.contents
    <3>1. PICK x \in Known(s, k) : s.content[x.url] = c /\ Taken(s, k, q, x)
      BY <2>1 DEF Covers, BodiesTaken
    <3> QED BY <3>1, TakenMoves
  <2>2. CASE c = s.content[t.url] /\ Taken(s, k2, q2, t)
    BY <2>2 DEF Taken
  <2> QED BY <2>1, <2>2
<1> QED BY <1>1, <1>2, <1>3, <1>4 DEF Covers, VisitsTaken, BodiesTaken

(* A task that is passed by, because it is out of bounds or its page was   *)
(* visited, leaves the walk covering.                                      *)
LEMMA CoversDrop ==
  ASSUME NEW s, NEW k, NEW q \in Seq(Task), q # <<>>, Cardinality(k.visited) \in Nat,
         Covers(s, k, q),
         ~Within(s, Head(q)) \/ s.address[Head(q).url] \in k.visited
  PROVE  Covers(s, k, Tail(q))
<1>1. /\ Len(Tail(q)) = Len(q) - 1 /\ Len(q) \in Nat /\ Len(q) > 0 /\ Head(q) = q[1]
      /\ \A i \in 1..(Len(q) - 1) : Tail(q)[i] = q[i + 1] /\ i + 1 \in 1..Len(q)
  OBVIOUS
<1>2. ASSUME NEW i \in 1..Len(q)
      PROVE  Ahead(s, k, Tail(q), q[i])
  <2>1. CASE i = 1
    BY <1>1, <2>1 DEF Ahead
  <2>2. CASE i # 1
    <3>1. i - 1 \in 1..Len(Tail(q)) /\ Tail(q)[i - 1] = q[i]
      BY <1>1, <2>2
    <3> QED BY <3>1 DEF Ahead, Queued
  <2> QED BY <2>1, <2>2
<1>3. Moves(s, k, q, k, Tail(q))
  BY <1>2 DEF Moves
<1>4. \A i \in 1..Len(Tail(q)) : Tail(q)[i] \in Known(s, k)
  BY <1>1 DEF Covers
<1> QED BY <1>3, <1>4, CoversMoves

(* One more page visited is one more round of what may be known.           *)
LEMMA VisitCounts ==
  ASSUME IsFiniteSet(Url), NEW V, V \subseteq Url, NEW a, a \notin V
  PROVE  Cardinality(V) \in Nat /\ Cardinality(V \cup {a}) = Cardinality(V) + 1
<1>1. IsFiniteSet(V)
  <2>1. V \in SUBSET Url
    OBVIOUS
  <2> QED BY <2>1, FS_Subset
<1> QED BY <1>1, FS_AddElement, FS_CardinalityType

(* The head of the queue is visited, and what joins the queue comes last.  *)
LEMMA VisitMoves ==
  ASSUME IsFiniteSet(Url), NEW s, NEW k, k.visited \subseteq Url,
         NEW q \in Seq(Task), q # <<>>,
         NEW h, h = Head(q), s.address[h.url] \notin k.visited,
         NEW k2, NEW q2, NEW new, new \in Seq(Task), q2 = Tail(q) \o new,
         k2.visited = k.visited \cup {s.address[h.url]}, k.keys \subseteq k2.keys
  PROVE  Moves(s, k, q, k2, q2)
<1> PICK n : n = Cardinality(k.visited)
  OBVIOUS
<1>1. n \in Nat /\ Cardinality(k2.visited) = n + 1
  BY VisitCounts
<1>3. /\ Len(Tail(q)) = Len(q) - 1 /\ Len(q) \in Nat /\ Len(q) > 0 /\ h = q[1]
      /\ \A i \in 1..(Len(q) - 1) : Tail(q)[i] = q[i + 1] /\ i + 1 \in 1..Len(q)
      /\ Len(q2) = Len(q) - 1 + Len(new) /\ Len(new) \in Nat /\ Tail(q) \in Seq(Task)
  OBVIOUS
<1>4. \A i \in 1..(Len(q) - 1) : q2[i] = q[i + 1] /\ i \in 1..Len(q2)
  BY <1>3
<1>5. ASSUME NEW i \in 1..Len(q)
      PROVE  Ahead(s, k2, q2, q[i])
  <2>1. CASE i = 1
    BY <1>3, <2>1 DEF Ahead
  <2>2. CASE i # 1
    <3>1. i - 1 \in 1..(Len(q) - 1) /\ (i - 1) + 1 = i
      BY <1>3, <2>2
    <3>2. i - 1 \in 1..Len(q2) /\ q2[i - 1] = q[i]
      BY <1>4, <3>1
    <3> QED BY <3>2 DEF Ahead, Queued
  <2> QED BY <2>1, <2>2
<1>6. k.visited \subseteq k2.visited
  OBVIOUS
<1>7. n + 1 \in Nat /\ n <= n + 1
  BY <1>1
<1> QED BY <1>1, <1>5, <1>6, <1>7 DEF Moves

(* A page taken in: the head of the queue, when what joins the queue is    *)
(* linked by it and everything it links is ahead.                          *)
LEMMA CoversVisit ==
  ASSUME IsFiniteSet(Url), NEW s \in Site, NEW k, k.visited \subseteq Url,
         NEW q \in Seq(Task), q # <<>>, Covers(s, k, q),
         NEW h, h = Head(q), Within(s, h), s.address[h.url] \notin k.visited,
         NEW k2, NEW q2, NEW new, new \in Seq(Task), q2 = Tail(q) \o new,
         k2.visited = k.visited \cup {s.address[h.url]},
         k2.contents = k.contents \cup {s.content[h.url]},
         k.keys \subseteq k2.keys, s.people[h.url] \subseteq k2.keys,
         \A i \in 1..Len(new) : new[i] \in LinksOf(s, h),
         \A l \in LinksOf(s, h) : Ahead(s, k2, q2, l),
         \A u \in k2.tokens : u \in k.tokens \/ Ahead(s, k2, q2, Listing(u))
  PROVE  Covers(s, k2, q2)
<1>1. Moves(s, k, q, k2, q2)
  BY VisitMoves
<1>2. PICK n \in Nat : Cardinality(k.visited) = n /\ Cardinality(k2.visited) = n + 1
  <2>1. /\ Cardinality(k.visited) \in Nat
        /\ Cardinality(k.visited \cup {s.address[h.url]}) = Cardinality(k.visited) + 1
    BY VisitCounts
  <2> QED BY <2>1
<1>3. Known(s, k) = Reach(s)[n] /\ Known(s, k2) = Reach(s)[n + 1]
  BY <1>2 DEF Known
<1>4. /\ Len(Tail(q)) = Len(q) - 1 /\ Len(q) \in Nat /\ Len(q) > 0 /\ h = q[1]
      /\ \A i \in 1..(Len(q) - 1) : Tail(q)[i] = q[i + 1] /\ i + 1 \in 1..Len(q)
      /\ Len(q2) = Len(q) - 1 + Len(new) /\ Len(new) \in Nat /\ Tail(q) \in Seq(Task)
  OBVIOUS
<1>5. \A i \in 1..(Len(q) - 1) : q2[i] = q[i + 1] /\ i + 1 \in 1..Len(q)
  BY <1>4
<1>6. ASSUME NEW i \in 1..Len(q2), i > Len(q) - 1
      PROVE  i - (Len(q) - 1) \in 1..Len(new) /\ q2[i] = new[i - (Len(q) - 1)]
  BY <1>4, <1>6
<1>7. h \in Reach(s)[n]
  BY <1>3, <1>4 DEF Covers
<1>8. ASSUME NEW i \in 1..Len(q2)
      PROVE  q2[i] \in Known(s, k2)
  <2>1. CASE i <= Len(q) - 1
    <3>1. i + 1 \in 1..Len(q) /\ q2[i] = q[i + 1]
      BY <1>4, <1>5, <2>1
    <3>2. q[i + 1] \in Known(s, k)
      BY <3>1 DEF Covers
    <3> QED BY <1>1, <3>1, <3>2, KnownMoves
  <2>2. CASE i > Len(q) - 1
    <3>1. q2[i] \in LinksOf(s, h)
      BY <1>6, <2>2
    <3> QED BY <1>3, <1>7, <3>1, ReachStep
  <2> QED BY <1>4, <2>1, <2>2
<1>9. Taken(s, k2, q2, h)
  <2>1. h \in Known(s, k2)
    BY <1>3, <1>7, ReachStep
  <2> QED BY <2>1 DEF Taken
<1> QED BY <1>1, <1>8, <1>9, CoversMoves

(* What a walk knows and may visit is offered.                             *)
LEMMA KnownIsOffered ==
  ASSUME IsFiniteSet(Url), NEW s, NEW k, k.visited \subseteq Url,
         NEW t \in Known(s, k), Within(s, t)
  PROVE  t \in Offered(s)
<1> PICK m, n : m = Cardinality(k.visited) /\ n = Cardinality(Url)
  OBVIOUS
<1>1. m \in Nat /\ n \in Nat /\ m <= n
  <2>1. k.visited \in SUBSET Url
    OBVIOUS
  <2> QED BY <2>1, FS_Subset, FS_CardinalityType
<1>2. t \in Reach(s)[n]
  BY <1>1, ReachGrows DEF Known
<1> QED BY <1>2 DEF Offered

----------------------------------------------------------------------------
(* The steps.                                                              *)

(* More given up, or nothing else changed, keeps what a walk stands for.   *)
LEMMA WalksOn ==
  ASSUME NEW s, NEW g, NEW k, NEW q, NEW e, Walks(s, g, k, q, e), NEW h, g => h
  PROVE  Walks(s, h, k, q, e)
BY DEF Walks

(* A step of one worker: it is enough that its own walk is sound.          *)
LEMMA CoverageStep ==
  ASSUME CrawlInv, CoverageInv, NEW w \in Worker, NEW k, NEW q, NEW e,
         walk' = [walk EXCEPT ![w] = k], queue' = [queue EXCEPT ![w] = q],
         exec' = [exec EXCEPT ![w] = e],
         \A v \in Worker \ {w} : pc'[v] = pc[v],
         pc'[w] \in {"finishing", "reporting"} => Saved(e),
         Walks(site, gaveUp', k, q, e), gaveUp' \in BOOLEAN, gaveUp => gaveUp',
         UNCHANGED <<site, checkpoint, frontier>>
  PROVE  CoverageInv'
<1>1. \A v \in Worker : /\ walk'[v] = IF v = w THEN k ELSE walk[v]
                        /\ queue'[v] = IF v = w THEN q ELSE queue[v]
                        /\ exec'[v] = IF v = w THEN e ELSE exec[v]
  BY DEF CrawlInv, Shapes, CoverageInv
<1>2. PICK s, g, h : s = site /\ g = gaveUp /\ h = gaveUp'
  OBVIOUS
<1>3. site' = s
  BY <1>2
<1>4. \A v \in Worker : Walks(s, h, walk'[v], queue'[v], exec'[v])
  BY <1>1, <1>2, WalksOn DEF CoverageInv
<1>5. Resumes(s, h, checkpoint', frontier')
  BY <1>2 DEF CoverageInv, Resumes
<1>6. \A v \in Worker : pc'[v] \in {"finishing", "reporting"} => Saved(exec'[v])
  BY <1>1 DEF CoverageInv
<1>7. queue' = [v \in Worker |-> queue'[v]] /\ site' \in Site
  BY DEF CoverageInv
<1> QED BY <1>2, <1>3, <1>4, <1>5, <1>6, <1>7 DEF CoverageInv

(* An output that has only been annotated: it tells the same records, and  *)
(* every error it told.                                                    *)
Notes(e, f) ==
  /\ f.fresh = e.fresh /\ f.found = e.found /\ f.unsaved = e.unsaved
  /\ e.errors \subseteq f.errors

(* Annotations may be stacked.                                             *)
LEMMA NotesTwice ==
  ASSUME NEW e, NEW f, NEW x, Notes(e, f), Notes(f, x)
  PROVE  Notes(e, x)
BY DEF Notes

(* Stops, errors and retries are annotations, and an error leaves its      *)
(* mark.                                                                   *)
LEMMA AnnotationsNote ==
  ASSUME NEW e, ExecShape(e), NEW x, NEW n
  PROVE  /\ Notes(e, Stopped(e, x)) /\ Notes(e, Failed(e, x)) /\ Notes(e, Retried(e, n))
         /\ Failed(e, x).errors # {}
         /\ ExecShape(Stopped(e, x)) /\ ExecShape(Failed(e, x)) /\ ExecShape(Retried(e, n))
<1>1. Notes(e, Stopped(e, x)) /\ Notes(e, Failed(e, x)) /\ Failed(e, x).errors # {}
  BY DEF ExecShape, Stopped, Failed, Notes
<1>2. Notes(e, Retried(e, n))
  BY DEF ExecShape, Retried, Failed, Notes
<1> QED BY <1>1, <1>2, Annotations

(* The page record of the current task is an annotation.                   *)
LEMMA NotedNotes ==
  ASSUME CrawlInv, NEW w \in Worker, NEW status
  PROVE  Notes(exec[w], Noted(w, status)) /\ ExecShape(Noted(w, status))
<1> DEFINE e == exec[w]
           rows == [e.rows EXCEPT ![Address(w)] = status]
<1>1. ExecShape(e)
  BY DEF CrawlInv, Shapes
<1>2. rows = [u \in Url |-> rows[u]]
  BY <1>1 DEF ExecShape
<1>3. Noted(w, status) = [e EXCEPT !.rows = rows]
  BY <1>1 DEF Noted, ExecShape
<1> HIDE DEF rows, e
<1>4. Notes(e, Noted(w, status)) /\ ExecShape(Noted(w, status))
  BY <1>1, <1>2, <1>3 DEF ExecShape, Notes
<1> QED BY <1>4 DEF e

(* What the harvest of a page adds to the output.                          *)
LEMMA HarvestedFields ==
  ASSUME CrawlInv, NEW w \in Worker, NEW n
  PROVE  /\ ExecShape(Harvested(w, n)) /\ Harvested(w, n).fresh = FALSE
         /\ Harvested(w, n).unsaved = exec[w].unsaved \cup NewKeys(w)
         /\ Harvested(w, n).found = (exec[w].found \/ NewKeys(w) # {})
         /\ exec[w].errors \subseteq Harvested(w, n).errors
<1> DEFINE g == Retried(Noted(w, "parsed"), n)
<1>1. Notes(exec[w], g) /\ ExecShape(g)
  BY NotedNotes, AnnotationsNote, NotesTwice
<1>2. Harvested(w, n) = [g EXCEPT !.unsaved = @ \cup NewKeys(w),
                                  !.found = @ \/ NewKeys(w) # {}, !.fresh = FALSE]
  BY DEF Harvested
<1> HIDE DEF g
<1>3. /\ Harvested(w, n).unsaved = g.unsaved \cup NewKeys(w)
      /\ Harvested(w, n).found = (g.found \/ NewKeys(w) # {})
      /\ Harvested(w, n).fresh = FALSE /\ Harvested(w, n).errors = g.errors
      /\ ExecShape(Harvested(w, n))
  BY <1>1, <1>2 DEF ExecShape
<1> QED BY <1>1, <1>3 DEF Notes

(* What a fetched and a parsed page add to the walk.                       *)
LEMMA FetchedFields ==
  ASSUME CrawlInv, NEW w \in Worker
  PROVE  /\ Fetched(w).contents = walk[w].contents \cup {site.content[Current(w).url]}
         /\ Fetched(w).tokens = walk[w].tokens /\ Fetched(w).flawed = walk[w].flawed
<1> DEFINE k == walk[w]
           url == Address(w)
           body == {site.content[Current(w).url]}
           count == k.pages + 1
<1>1. WalkShape(k)
  BY DEF CrawlInv, Shapes
<1>2. Fetched(w) = [k EXCEPT !.visited = @ \cup {url}, !.pages = count, !.failures = 0,
                             !.contents = @ \cup body]
  BY <1>1 DEF Fetched, WalkShape
<1> HIDE DEF k, url, body, count
<1>3. /\ Fetched(w).contents = k.contents \cup body
      /\ Fetched(w).tokens = k.tokens /\ Fetched(w).flawed = k.flawed
  BY <1>1, <1>2 DEF WalkShape
<1> QED BY <1>3 DEF k, body

(* What a parsed page leaves alone, and the body it adds.                  *)
LEMMA ExtractedFields ==
  ASSUME CrawlInv, NEW w \in Worker
  PROVE  /\ Extracted(w).contents = walk[w].contents \cup {site.content[Current(w).url]}
         /\ Extracted(w).tokens = walk[w].tokens /\ Extracted(w).flawed = walk[w].flawed
<1> DEFINE f == Fetched(w)
<1>1. WalkShape(f)
  BY FetchedWalk
<1>2. Extracted(w) = [f EXCEPT !.keys = @ \cup Published(w), !.fruitless = Fruitless(w)]
  BY DEF Extracted
<1>3. /\ f.contents = walk[w].contents \cup {site.content[Current(w).url]}
      /\ f.tokens = walk[w].tokens /\ f.flawed = walk[w].flawed
  BY FetchedFields
<1> HIDE DEF f
<1> QED BY <1>1, <1>2, <1>3 DEF WalkShape

(* The task a walk looks at.                                               *)
LEMMA AtHead ==
  ASSUME CoverageInv, NEW w \in Worker, Walking(w)
  PROVE  /\ queue[w] \in Seq(Task) /\ queue[w] # <<>> /\ Current(w) = Head(queue[w])
         /\ Tail(queue[w]) \in Seq(Task) /\ Len(Tail(queue[w])) = Len(queue[w]) - 1
         /\ Current(w) \in Task /\ Address(w) = site.address[Current(w).url]
         /\ Address(w) \in Url
<1>1. queue[w] \in Seq(Task) /\ queue[w] # <<>> /\ Current(w) = Head(queue[w])
  BY DEF CoverageInv, Walks, Walking, Current
<1>2. Current(w) \in Task
  BY <1>1
<1>3. Current(w).url \in Url /\ site.address \in [Url -> Url]
  BY <1>2 DEF Task, CoverageInv, Site
<1>4. Address(w) = site.address[Current(w).url]
  BY DEF Address
<1> QED BY <1>1, <1>2, <1>3, <1>4

(* A task about to be requested is within bounds, at an address not        *)
(* visited.                                                                *)
LEMMA AtApproach ==
  ASSUME CoverageInv, NEW w \in Worker, Approaches(w)
  PROVE  Walking(w) /\ Within(site, Current(w)) /\ Address(w) \notin walk[w].visited
<1>1. Walking(w) /\ Address(w) \notin walk[w].visited /\ Address(w) \notin Skippable
      /\ ~(Current(w).depth > MaxDepth)
  BY DEF Approaches, Passed
<1>2. Current(w).depth \in Nat /\ MaxDepth \in Nat
  BY <1>1, AtHead, BoundAssumption DEF Task
<1> QED BY <1>1, <1>2, AtHead DEF Within

(* An annotated output tells the same of its walk.                         *)
LEMMA WalksNoted ==
  ASSUME NEW s, NEW g, NEW k, NEW q, NEW e, Walks(s, g, k, q, e), NEW f, Notes(e, f)
  PROVE  Walks(s, g, k, q, f)
BY DEF Walks, Notes

(* An error speaks for itself, whatever task was lost with it.             *)
LEMMA WalksBlemished ==
  ASSUME NEW s, NEW g, NEW k, NEW q, NEW e, Walks(s, g, k, q, e), q # <<>>,
         NEW f, Notes(e, f), f.errors # {},
         NEW j, j.visited \subseteq Url, j.keys = k.keys, j.flawed = k.flawed
  PROVE  Walks(s, g, j, Tail(q), f)
<1>1. Tail(q) \in Seq(Task) /\ Len(Tail(q)) <= Len(q)
  BY DEF Walks
<1>2. e.fresh => Len(Tail(q)) <= 1
  BY <1>1 DEF Walks
<1> QED BY <1>1, <1>2 DEF Walks, Notes

(* Steps that touch no walk.                                               *)
LEMMA CoverageElsewhere ==
  ASSUME CoverageInv, UNCHANGED <<site, gaveUp, queue, walk, exec, checkpoint, frontier>>,
         \A v \in Worker : pc'[v] \in {"finishing", "reporting"} =>
           pc[v] \in {"finishing", "reporting"} \/ Saved(exec[v])
  PROVE  CoverageInv'
BY DEF CoverageInv, Walks, Resumes, Saved

(* Goto moves one worker.                                                  *)
LEMMA GotoMoves ==
  ASSUME CrawlInv, NEW w \in Worker, NEW l, Goto(w, l)
  PROVE  pc'[w] = l /\ \A v \in Worker \ {w} : pc'[v] = pc[v]
BY DEF CrawlInv, Shapes, Goto

(* The slot of a worker, as it stands.                                     *)
LEMMA SameSlot ==
  ASSUME CrawlInv, CoverageInv, NEW w \in Worker
  PROVE  /\ walk = [walk EXCEPT ![w] = walk[w]] /\ queue = [queue EXCEPT ![w] = queue[w]]
         /\ exec = [exec EXCEPT ![w] = exec[w]]
         /\ ExecShape(exec[w]) /\ WalkShape(walk[w])
         /\ gaveUp \in BOOLEAN /\ Walks(site, gaveUp, walk[w], queue[w], exec[w])
         /\ walk[w].visited \subseteq Url
BY DEF CrawlInv, Shapes, CoverageInv, Walks

(* A released slot holds the empty walk, which found nobody.               *)
LEMMA ReleaseCovers ==
  ASSUME CrawlInv, CoverageInv, NEW w \in Worker, Release(w),
         UNCHANGED <<site, gaveUp, checkpoint, frontier>>
  PROVE  CoverageInv'
<1>1. Walks(site, gaveUp', NewWalk, <<>>, NewExec)
  BY DEF Walks, NewWalk, NewExec
<1>2. pc'[w] = "idle" /\ \A v \in Worker \ {w} : pc'[v] = pc[v]
  BY GotoMoves DEF Release
<1>3. /\ walk' = [walk EXCEPT ![w] = NewWalk] /\ queue' = [queue EXCEPT ![w] = <<>>]
      /\ exec' = [exec EXCEPT ![w] = NewExec]
  BY DEF Release
<1> QED BY <1>1, <1>2, <1>3, SameSlot, CoverageStep

(* A page budget or failure stop leaves the walk as it was.                *)
LEMMA HaltCovers ==
  ASSUME CrawlInv, CoverageInv, NEW w \in Worker, Halt(w)
  PROVE  CoverageInv'
<1>1. PICK reason : exec' = [exec EXCEPT ![w] = Stopped(exec[w], reason)]
  BY DEF Halt, CrawlInv, Shapes
<1>2. PICK e : e = Stopped(exec[w], reason)
  OBVIOUS
<1>3. Walks(site, gaveUp, walk[w], queue[w], e)
  BY <1>2, SameSlot, AnnotationsNote, WalksNoted
<1>4. pc'[w] = "closing" /\ \A v \in Worker \ {w} : pc'[v] = pc[v]
  BY GotoMoves DEF Halt
<1>5. UNCHANGED <<site, gaveUp, walk, queue, checkpoint, frontier>>
  BY DEF Halt, KeepTask, MemoryOnly, worldVars, storeVars
<1>6. /\ walk' = [walk EXCEPT ![w] = walk[w]] /\ queue' = [queue EXCEPT ![w] = queue[w]]
      /\ exec' = [exec EXCEPT ![w] = e]
  BY <1>1, <1>2, <1>5, SameSlot
<1>7. Walks(site, gaveUp', walk[w], queue[w], e) /\ gaveUp' \in BOOLEAN
  BY <1>3, <1>5, SameSlot
<1> QED BY <1>4, <1>5, <1>6, <1>7, CoverageStep

(* A task passed by is out of bounds or visited.                           *)
LEMMA SkipCovers ==
  ASSUME CrawlInv, CoverageInv, IsFiniteSet(Url), NEW w \in Worker, Skip(w)
  PROVE  CoverageInv'
<1>1. Walking(w) /\ (Passed(w) \/ Address(w) \in Skippable)
  BY DEF Skip
<1>2. PICK s, g, k, q, e : s = site /\ g = gaveUp /\ k = walk[w] /\ q = queue[w] /\ e = exec[w]
  OBVIOUS
<1>3. PICK f : f = Noted(w, "skipped")
  OBVIOUS
<1>4. /\ q \in Seq(Task) /\ q # <<>> /\ Tail(q) \in Seq(Task) /\ Len(Tail(q)) = Len(q) - 1
      /\ Current(w) = Head(q) /\ Head(q) \in Task /\ Address(w) = s.address[Head(q).url]
  BY <1>1, <1>2, AtHead
<1>5. Notes(e, f) /\ Walks(s, g, k, q, e)
  BY <1>2, <1>3, NotedNotes, SameSlot
<1>6. ~Within(s, Head(q)) \/ s.address[Head(q).url] \in k.visited
  <2>1. Head(q).depth \in Nat /\ MaxDepth \in Nat
    BY <1>4, BoundAssumption DEF Task
  <2> QED BY <1>1, <1>2, <1>4, <2>1 DEF Passed, Within
<1>7. Cardinality(k.visited) \in Nat
  <2>1. k.visited \in SUBSET Url
    BY <1>5 DEF Walks
  <2> QED BY <2>1, FS_Subset, FS_CardinalityType
<1>8. Covers(s, k, q) => Covers(s, k, Tail(q))
  BY <1>4, <1>6, <1>7, CoversDrop
<1>9. Walks(s, g, k, Tail(q), f)
  <2>1. Len(q) <= 1 => Len(Tail(q)) <= 1
    BY <1>4
  <2> QED BY <1>4, <1>5, <1>8, <2>1 DEF Walks, Notes
<1>10. /\ walk' = [walk EXCEPT ![w] = k] /\ queue' = [queue EXCEPT ![w] = Tail(q)]
       /\ exec' = [exec EXCEPT ![w] = f]
       /\ UNCHANGED <<site, gaveUp, pc, checkpoint, frontier>>
  BY <1>2, <1>3, SameSlot DEF Skip, DropTask, MemoryOnly, worldVars, storeVars
<1>11. pc[w] = "walking"
  BY <1>1 DEF Walking
<1> QED BY <1>2, <1>9, <1>10, <1>11, SameSlot, CoverageStep

(* A refusal is an error; so is each failed request and each page the      *)
(* adapter cannot parse.                                                   *)
LEMMA RefuseCovers ==
  ASSUME CrawlInv, CoverageInv, NEW w \in Worker, Walking(w), NEW status, NEW reason, NEW type,
         Refuse(w, status, reason, type)
  PROVE  CoverageInv'
<1>1. PICK e : e = Failed(Stopped(Noted(w, status), reason), type)
  OBVIOUS
<1>2. Notes(exec[w], e) /\ e.errors # {}
  BY <1>1, NotedNotes, AnnotationsNote, NotesTwice
<1>3. Walks(site, gaveUp, walk[w], Tail(queue[w]), e)
  BY <1>2, AtHead, SameSlot, WalksBlemished
<1>4. pc'[w] = "closing" /\ \A v \in Worker \ {w} : pc'[v] = pc[v]
  BY GotoMoves DEF Refuse
<1>5. /\ queue' = [queue EXCEPT ![w] = Tail(queue[w])] /\ exec' = [exec EXCEPT ![w] = e]
      /\ UNCHANGED <<site, gaveUp, walk, checkpoint, frontier>>
  BY <1>1 DEF Refuse, DropTask, worldVars, storeVars
<1> QED BY <1>3, <1>4, <1>5, SameSlot, CoverageStep

(* A failed request loses its task, and tells an error.                    *)
LEMMA FetchFailsCovers ==
  ASSUME CrawlInv, CoverageInv, NEW w \in Worker, NEW answer, NEW n, FetchFails(w, answer, n)
  PROVE  CoverageInv'
<1>0. Approaches(w) /\ Walking(w)
  BY DEF FetchFails, Request, MayAsk, Approaches
<1>1. PICK e : e = Failed(Retried(Noted(w, "failed"), n),
                          IF answer = "refused" THEN "blocked_by_source" ELSE "unreachable")
  OBVIOUS
<1>2. Notes(exec[w], e) /\ e.errors # {}
  BY <1>1, NotedNotes, AnnotationsNote, NotesTwice
<1>3. PICK k : k = [walk[w] EXCEPT !.failures = @ + 1]
  OBVIOUS
<1>4. k.visited = walk[w].visited /\ k.keys = walk[w].keys /\ k.flawed = walk[w].flawed
  BY <1>3, SameSlot DEF WalkShape
<1>5. Walks(site, gaveUp, k, Tail(queue[w]), e)
  BY <1>0, <1>2, <1>4, AtHead, SameSlot, WalksBlemished
<1>6. /\ queue' = [queue EXCEPT ![w] = Tail(queue[w])] /\ exec' = [exec EXCEPT ![w] = e]
      /\ UNCHANGED <<site, gaveUp, pc, checkpoint, frontier>>
  BY <1>1 DEF FetchFails, DropTask, worldVars, storeVars
<1>7. walk' = [walk EXCEPT ![w] = k]
  BY <1>3 DEF FetchFails, CrawlInv, Shapes
<1>8. pc[w] = "walking"
  BY <1>0 DEF Walking
<1> QED BY <1>5, <1>6, <1>7, <1>8, SameSlot, CoverageStep

(* A page the adapter cannot parse is visited, and tells an error.         *)
LEMMA BrokenCovers ==
  ASSUME CrawlInv, CoverageInv, NEW w \in Worker, NEW n, Broken(w, n)
  PROVE  CoverageInv'
<1>0. Approaches(w) /\ Walking(w)
  BY DEF Broken, Request, MayAsk, Approaches
<1>1. PICK e : e = Failed(Retried(Noted(w, "failed"), n), "adapter_error")
  OBVIOUS
<1>2. Notes(exec[w], e) /\ e.errors # {}
  BY <1>1, NotedNotes, AnnotationsNote, NotesTwice
<1>3. PICK k : k = Fetched(w)
  OBVIOUS
<1>4. /\ k.visited = walk[w].visited \cup {Address(w)} /\ k.keys = walk[w].keys
      /\ k.flawed = walk[w].flawed
  BY <1>3, FetchedWalk, FetchedFields
<1>5. k.visited \subseteq Url
  BY <1>0, <1>4, AtHead, SameSlot
<1>6. Walks(site, gaveUp, k, Tail(queue[w]), e)
  BY <1>0, <1>2, <1>4, <1>5, AtHead, SameSlot, WalksBlemished
<1>7. /\ queue' = [queue EXCEPT ![w] = Tail(queue[w])] /\ exec' = [exec EXCEPT ![w] = e]
      /\ walk' = [walk EXCEPT ![w] = k]
      /\ UNCHANGED <<site, gaveUp, pc, checkpoint, frontier>>
  BY <1>1, <1>3 DEF Broken, DropTask, worldVars, storeVars
<1>8. pc[w] = "walking"
  BY <1>0 DEF Walking
<1> QED BY <1>6, <1>7, <1>8, SameSlot, CoverageStep

(* A body seen before stands for the page that was taken in with it.       *)
LEMMA DuplicateCovers ==
  ASSUME CrawlInv, CoverageInv, IsFiniteSet(Url), NEW w \in Worker, NEW n, Duplicate(w, n)
  PROVE  CoverageInv'
<1>1. Approaches(w) /\ Walking(w) /\ Repeats(w)
  BY DEF Duplicate, Request, MayAsk, Approaches
<1>2. PICK s, g, k, q, e : s = site /\ g = gaveUp /\ k = walk[w] /\ q = queue[w] /\ e = exec[w]
  OBVIOUS
<1>3. PICK h, j : h = Current(w) /\ j = Fetched(w)
  OBVIOUS
<1>4. PICK f : exec' = [exec EXCEPT ![w] = f] /\ Notes(e, f)
  <2>1. PICK x : x = Retried(Noted(w, "skipped"), n)
    OBVIOUS
  <2>2. Notes(e, x) /\ Notes(e, Stopped(x, "duplicate_content"))
    BY <1>2, <2>1, NotedNotes, AnnotationsNote, NotesTwice
  <2>3. CASE Current(w).kind = "listing"
    BY <2>1, <2>2, <2>3 DEF Duplicate
  <2>4. CASE Current(w).kind # "listing"
    BY <2>1, <2>2, <2>4 DEF Duplicate
  <2> QED BY <2>3, <2>4
<1>5. /\ q \in Seq(Task) /\ q # <<>> /\ Tail(q) \in Seq(Task) /\ Len(Tail(q)) = Len(q) - 1
      /\ h = Head(q) /\ h \in Task /\ Address(w) = s.address[h.url] /\ Address(w) \in Url
  BY <1>1, <1>2, <1>3, AtHead
<1>6. Within(s, h) /\ s.address[h.url] \notin k.visited
  BY <1>1, <1>2, <1>3, <1>5, AtApproach
<1>7. /\ j.visited = k.visited \cup {s.address[h.url]} /\ j.keys = k.keys
      /\ j.contents = k.contents \cup {s.content[h.url]} /\ j.tokens = k.tokens
      /\ j.flawed = k.flawed
  BY <1>2, <1>3, <1>5, FetchedWalk, FetchedFields
<1>8. Walks(s, g, k, q, e) /\ s \in Site
  BY <1>2, SameSlot DEF CoverageInv
<1>9. ASSUME Covers(s, k, q), Regular(s)
      PROVE  Covers(s, j, Tail(q))
  <2>1. s.content[h.url] \in k.contents
    BY <1>1, <1>2, <1>3 DEF Repeats
  <2>2. PICK t \in Known(s, k) : s.content[t.url] = s.content[h.url] /\ Taken(s, k, q, t)
    BY <1>9, <2>1 DEF Covers, BodiesTaken
  <2>3. h \in Known(s, k)
    BY <1>5, <1>9 DEF Covers
  <2>4. t \in Offered(s) /\ h \in Offered(s)
    BY <1>6, <1>8, <2>2, <2>3, KnownIsOffered DEF Walks, Taken
  <2>5. Alike(s, t, h)
    BY <1>9, <2>2, <2>4 DEF Regular
  <2>6. LinksOf(s, h) = LinksOf(s, t) /\ s.people[h.url] \subseteq j.keys
    BY <1>7, <2>2, <2>5 DEF Alike, LinksOf, Taken
  <2>7. <<>> \in Seq(Task) /\ Tail(q) = Tail(q) \o <<>> /\ Len(<<>>) = 0
    BY <1>5
  <2>8. Moves(s, k, q, j, Tail(q))
    BY <1>5, <1>6, <1>7, <1>8, <2>7, VisitMoves DEF Walks
  <2>9. \A l \in LinksOf(s, h) : Ahead(s, j, Tail(q), l)
    BY <2>2, <2>6, <2>8, AheadMoves DEF Taken
  <2>10. PICK new, r : new = <<>> /\ r = Tail(q)
    OBVIOUS
  <2>11. /\ new \in Seq(Task) /\ r = Tail(q) \o new
         /\ \A i \in 1..Len(new) : new[i] \in LinksOf(s, h)
         /\ \A l \in LinksOf(s, h) : Ahead(s, j, r, l)
         /\ \A u \in j.tokens : u \in k.tokens \/ Ahead(s, j, r, Listing(u))
    BY <1>7, <2>7, <2>9, <2>10
  <2>12. k.visited \subseteq Url /\ k.keys \subseteq j.keys
    BY <1>7, <1>8 DEF Walks
  <2>13. Covers(s, j, r)
    BY <1>5, <1>6, <1>7, <1>8, <1>9, <2>6, <2>11, <2>12, CoversVisit
  <2> QED BY <2>10, <2>13
<1>10. Walks(s, g, j, Tail(q), f)
  <2>1. Len(q) <= 1 => Len(Tail(q)) <= 1
    BY <1>5
  <2>2. j.visited \subseteq Url
    BY <1>5, <1>7, <1>8 DEF Walks
  <2> QED BY <1>4, <1>5, <1>7, <1>8, <1>9, <2>1, <2>2 DEF Walks, Notes
<1>11. /\ walk' = [walk EXCEPT ![w] = j] /\ queue' = [queue EXCEPT ![w] = Tail(q)]
       /\ UNCHANGED <<site, gaveUp, checkpoint, frontier>>
  BY <1>2, <1>3 DEF Duplicate, DropTask, worldVars, storeVars
<1>12. pc'[w] \in {"walking", "closing"} /\ \A v \in Worker \ {w} : pc'[v] = pc[v]
  <2>1. Goto(w, "closing") \/ (pc' = pc /\ pc[w] = "walking")
    BY <1>1 DEF Duplicate, Walking
  <2> QED BY <2>1, GotoMoves
<1> QED BY <1>2, <1>4, <1>10, <1>11, <1>12, SameSlot, CoverageStep

(* A page that ends the walk: the empty first page leaves nothing to do    *)
(* and nobody found, any other gives a pager up.                           *)
LEMMA ParseLastCovers ==
  ASSUME CrawlInv, CoverageInv, NEW w \in Worker, NEW n, ParseLast(w, n)
  PROVE  CoverageInv'
<1>1. Walking(w) /\ (EmptyStart(w) \/ NoProgress(w))
  BY DEF ParseLast, Request, MayAsk, Approaches
<1>2. PICK s, g, k, q, e : s = site /\ g = gaveUp /\ k = walk[w] /\ q = queue[w] /\ e = exec[w]
  OBVIOUS
<1>3. PICK j, x : j = Extracted(w) /\ x = Harvested(w, n)
  OBVIOUS
<1>4. PICK f : f = Stopped(x, IF EmptyStart(w) THEN "empty_success" ELSE "no_progress")
  OBVIOUS
<1>5. /\ f.fresh = FALSE /\ f.unsaved = e.unsaved \cup NewKeys(w)
      /\ f.found = (e.found \/ NewKeys(w) # {}) /\ e.errors \subseteq f.errors
  <2>1. Notes(x, f)
    BY <1>3, <1>4, HarvestedFields, AnnotationsNote
  <2> QED BY <1>2, <1>3, <2>1, HarvestedFields DEF Notes
<1>6. /\ q \in Seq(Task) /\ q # <<>> /\ Tail(q) \in Seq(Task) /\ Len(Tail(q)) = Len(q) - 1
      /\ Address(w) \in Url
  BY <1>1, <1>2, AtHead
<1>7. /\ j.visited = k.visited \cup {Address(w)} /\ j.keys = k.keys \cup Published(w)
      /\ j.flawed = k.flawed
  BY <1>2, <1>3, ExtractedWalk, ExtractedFields
<1>8. NewKeys(w) = Published(w) \ k.keys
  BY <1>2 DEF NewKeys
<1>9. Walks(s, g, k, q, e) /\ g \in BOOLEAN
  BY <1>2, SameSlot
<1>10. PICK h : h = gaveUp' /\ h = (g \/ NoProgress(w))
  BY <1>2 DEF ParseLast
<1>11. ASSUME EmptyStart(w)
       PROVE  ~f.found /\ Tail(q) = <<>>
  <2>1. e.fresh /\ NewKeys(w) = {}
    BY <1>2, <1>8, <1>11 DEF EmptyStart
  <2>2. ~e.found /\ Len(q) <= 1
    BY <1>9, <2>1 DEF Walks
  <2>3. ~f.found
    BY <1>5, <2>1, <2>2
  <2>4. Len(q) \in Nat /\ Len(q) > 0
    BY <1>6
  <2>5. Len(Tail(q)) = 0
    BY <1>6, <2>2, <2>4
  <2>6. Tail(q) = <<>>
    <3>1. PICK r \in Seq(Task) : r = Tail(q)
      BY <1>6
    <3>2. Len(r) = 0
      BY <2>5, <3>1
    <3> QED BY <3>1, <3>2
  <2> QED BY <2>3, <2>6
<1>12. Walks(s, h, j, Tail(q), f)
  <2>1. j.visited \subseteq Url /\ (j.flawed \/ j.keys \cap Unmatched \subseteq f.unsaved)
    BY <1>5, <1>6, <1>7, <1>8, <1>9 DEF Walks
  <2>2. EmptyStart(w) \/ h
    BY <1>1, <1>10
  <2> QED BY <1>5, <1>6, <1>11, <2>1, <2>2 DEF Walks
<1>13. h \in BOOLEAN /\ (g => h)
  BY <1>9, <1>10
<1>14. /\ walk' = [walk EXCEPT ![w] = j] /\ queue' = [queue EXCEPT ![w] = Tail(q)]
       /\ exec' = [exec EXCEPT ![w] = f] /\ UNCHANGED <<site, checkpoint, frontier>>
  BY <1>2, <1>3, <1>4 DEF ParseLast, DropTask, worldVars, storeVars
<1>15. pc'[w] = "closing" /\ \A v \in Worker \ {w} : pc'[v] = pc[v]
  BY GotoMoves DEF ParseLast
<1>16. Walks(site, gaveUp', j, Tail(q), f) /\ gaveUp' \in BOOLEAN /\ (gaveUp => gaveUp')
  BY <1>2, <1>10, <1>12, <1>13
<1> QED BY <1>14, <1>15, <1>16, CoverageStep

(* What a pager adds to the queue: entries of the pager; and, unless the   *)
(* pager is given up, every entry that was not followed before.            *)
LEMMA FreshPager ==
  ASSUME CoverageInv, NEW w \in Worker, Walking(w)
  PROVE  /\ Pager(w) \in Seq(Url) /\ Fresh(w) \in Seq(Url)
         /\ \A i \in 1..Len(Fresh(w)) : \E j \in 1..Len(Pager(w)) : Fresh(w)[i] = Pager(w)[j]
         /\ ~(Loops(w) /\ Len(Fresh(w)) + 1 < Len(Pager(w))) =>
              \A j \in 1..Len(Pager(w)) :
                Pager(w)[j] \in walk[w].tokens \/ \E i \in 1..Len(Fresh(w)) : Fresh(w)[i] = Pager(w)[j]
<1> PICK P, F, T, old : P = Pager(w) /\ F = Followed(w) /\ T = Fresh(w) /\ old = walk[w].tokens
  OBVIOUS
<1>1. P \in Seq(Url) /\ Len(P) \in Nat
  <2>1. Current(w).url \in Url /\ site \in Site
    BY AtHead DEF Task, CoverageInv
  <2>2. site.pager[Current(w).url] \in Seq(Url)
    BY <2>1 DEF Site
  <2>3. P \in Seq(Url)
    BY <2>2 DEF Pager
  <2> QED BY <2>3
<1>2. F = {i \in 1..Len(P) : P[i] \in old \/ \E j \in 1..(i - 1) : P[j] = P[i]}
  BY DEF Followed
<1>3. F \subseteq 1..Len(P)
  BY <1>2
<1>4. CASE Loops(w)
  <2>1. F # {} /\ F \subseteq Nat
    BY <1>3, <1>4 DEF Loops
  <2>2. PICK first : first = CHOOSE i \in F : \A k \in F : i <= k
    OBVIOUS
  <2>3. \E i \in F : \A k \in F : i <= k
    BY <2>1, LeastNumber
  <2>4. first \in F /\ \A k \in F : first <= k
    BY <2>2, <2>3
  <2>5. T = SubSeq(P, 1, first - 1)
    BY <1>4, <2>2 DEF Fresh
  <2>6. first \in 1..Len(P)
    BY <1>3, <2>4
  <2>7. T \in Seq(Url) /\ Len(T) = first - 1 /\ \A i \in 1..(first - 1) : T[i] = P[i]
    BY <1>1, <2>5, <2>6
  <2>8. \A i \in 1..Len(T) : \E j \in 1..Len(P) : T[i] = P[j]
    <3>1. \A i \in 1..(first - 1) : i \in 1..Len(P)
      BY <1>1, <2>6
    <3> QED BY <2>7, <3>1
  <2>9. ASSUME ~(Len(T) + 1 < Len(P)), NEW j \in 1..Len(P)
        PROVE  P[j] \in old \/ \E i \in 1..Len(T) : T[i] = P[j]
    <3>1. first = Len(P)
      BY <1>1, <2>6, <2>7, <2>9
    <3>2. CASE j \in 1..(first - 1)
      BY <2>7, <3>2
    <3>3. CASE j \notin 1..(first - 1)
      <4>1. j = first
        BY <1>1, <3>1, <3>3
      <4>2. P[j] \in old \/ \E i \in 1..(j - 1) : P[i] = P[j]
        BY <1>2, <2>4, <4>1
      <4> QED BY <2>7, <4>1, <4>2
    <3> QED BY <3>2, <3>3
  <2> QED BY <1>1, <1>4, <2>7, <2>8, <2>9
<1>5. CASE ~Loops(w)
  <2> DEFINE K == (1..Len(P)) \ F
  <2>1. T = Picked(P, K)
    BY <1>5 DEF Fresh
  <2>2. PICK C : C = Cardinality(K)
    OBVIOUS
  <2>3. K \subseteq 1..Len(P)
    OBVIOUS
  <2>4. /\ C \in Nat /\ \A i \in 1..C : \E j \in K : T[i] = P[j]
        /\ \A j \in K : \E i \in 1..C : T[i] = P[j]
    <3>1. PICK N, L : N = Len(P) /\ N \in Nat /\ L = K
      BY <1>1
    <3>2. N \in Nat /\ L \subseteq 1..N
      BY <2>3, <3>1
    <3>3. Picks(P, L, Picked(P, L))
      BY <3>2, PickedEntries
    <3> HIDE DEF K
    <3> QED BY <2>1, <2>2, <3>1, <3>3 DEF Picks
  <2>5. \A i \in 1..C : \E j \in 1..Len(P) : T[i] = P[j]
    BY <2>3, <2>4
  <2>6. T \in Seq(Url) /\ Len(T) = C
    <3>1. DOMAIN T = 1..C /\ T = [i \in 1..C |-> T[i]]
      BY <2>1, <2>2 DEF Picked
    <3>2. \A i \in 1..C : T[i] \in Url
      BY <1>1, <2>5
    <3>3. T \in [1..C -> Url]
      BY <3>1, <3>2
    <3> QED BY <2>4, <3>3
  <2>7. ASSUME NEW j \in 1..Len(P)
        PROVE  P[j] \in old \/ \E i \in 1..Len(T) : T[i] = P[j]
    <3> DEFINE Same == {i \in 1..Len(P) : P[i] = P[j]}
    <3>1. Same \subseteq Nat /\ Same # {}
      OBVIOUS
    <3>2. PICK m \in Same : \A i \in Same : m <= i
      <4> HIDE DEF Same
      <4> QED BY <3>1, LeastNumber
    <3>3. \A i \in 1..(m - 1) : P[i] # P[m]
      <4> SUFFICES ASSUME NEW i \in 1..(m - 1), P[i] = P[m] PROVE FALSE
        OBVIOUS
      <4>1. i \in 1..Len(P) /\ ~(m <= i)
        BY <1>1, <3>2
      <4> QED BY <3>2, <4>1
    <3>4. CASE P[m] \in old
      BY <3>2, <3>4
    <3>5. CASE P[m] \notin old
      <4>1. m \in K
        BY <1>2, <3>2, <3>3, <3>5
      <4>2. PICK i \in 1..C : T[i] = P[m]
        BY <2>4, <4>1
      <4> QED BY <2>6, <3>2, <4>2
    <3> QED BY <3>4, <3>5
  <2> QED BY <1>1, <1>5, <2>5, <2>6, <2>7
<1> QED BY <1>4, <1>5

(* The tasks of a sequence of urls.                                        *)
LEMMA TasksOfUrls ==
  ASSUME NEW urls \in Seq(Url), NEW kind \in {"listing", "profile"}, NEW depth \in Nat
  PROVE  /\ Tasks(urls, kind, depth) \in Seq(Task)
         /\ Len(Tasks(urls, kind, depth)) = Len(urls)
         /\ \A i \in 1..Len(urls) :
              Tasks(urls, kind, depth)[i] = [url |-> urls[i], kind |-> kind, depth |-> depth]
<1> DEFINE g(i) == [url |-> urls[i], kind |-> kind, depth |-> depth]
<1>1. \A i \in 1..Len(urls) : g(i) \in Task
  BY DEF Task
<1>2. Tasks(urls, kind, depth) = [i \in 1..Len(urls) |-> g(i)]
  BY DEF Tasks
<1>3. Len(urls) \in Nat
  OBVIOUS
<1> HIDE DEF g
<1>4. PICK n, T : n = Len(urls) /\ T = Tasks(urls, kind, depth)
  OBVIOUS
<1>5. T \in [1..n -> Task]
  BY <1>1, <1>2, <1>4
<1>6. T \in Seq(Task) /\ Len(T) = n /\ \A i \in 1..n : T[i] = g(i)
  BY <1>2, <1>3, <1>4, <1>5
<1> QED BY <1>4, <1>6 DEF g

(* Both parts of a concatenated queue stay queued.                         *)
LEMMA QueuedBehind ==
  ASSUME NEW a \in Seq(Task), NEW b \in Seq(Task), NEW t
  PROVE  /\ Queued(a, t) => Queued(a \o b, t)
         /\ Queued(b, t) => Queued(a \o b, t)
<1>1. /\ Len(a \o b) = Len(a) + Len(b) /\ Len(a) \in Nat /\ Len(b) \in Nat
      /\ \A i \in 1..Len(a) : (a \o b)[i] = a[i] /\ i \in 1..Len(a \o b)
      /\ \A i \in 1..Len(b) : (a \o b)[Len(a) + i] = b[i] /\ Len(a) + i \in 1..Len(a \o b)
  OBVIOUS
<1>2. ASSUME Queued(a, t) PROVE Queued(a \o b, t)
  BY <1>1, <1>2 DEF Queued
<1>3. ASSUME Queued(b, t) PROVE Queued(a \o b, t)
  BY <1>1, <1>3 DEF Queued
<1> QED BY <1>2, <1>3

(* A parsed page is taken in: its people are counted, its profiles and the *)
(* new entries of its pager are queued.                                    *)
LEMMA ParseCovers ==
  ASSUME CrawlInv, CoverageInv, IsFiniteSet(Url), NEW w \in Worker, NEW n, Parse(w, n)
  PROVE  CoverageInv'
<1>1. Approaches(w) /\ Walking(w)
  BY DEF Parse, Request, MayAsk, Approaches
<1>2. PICK s, g, k, q, e : s = site /\ g = gaveUp /\ k = walk[w] /\ q = queue[w] /\ e = exec[w]
  OBVIOUS
<1>3. PICK c, x, y, new : c = Current(w) /\ x = Extracted(w) /\ y = Harvested(w, n) /\ new = Links(w)
  OBVIOUS
<1>4. PICK P, T, old : P = Pager(w) /\ T = Fresh(w) /\ old = k.tokens
  OBVIOUS
<1>5. PICK j : j = [x EXCEPT !.tokens = @ \cup {T[i] : i \in 1..Len(T)}]
  OBVIOUS
<1>6. PICK f : exec' = [exec EXCEPT ![w] = f] /\ (f = y \/ f = Stopped(y, "pagination_loop"))
  BY <1>3 DEF Parse
<1>7. PICK h : h = gaveUp' /\ h = (g \/ (Loops(w) /\ Len(T) + 1 < Len(P)))
  BY <1>2, <1>4 DEF Parse
<1>8. /\ f.fresh = FALSE /\ f.unsaved = e.unsaved \cup NewKeys(w) /\ e.errors \subseteq f.errors
  <2>0. ExecShape(y)
    BY <1>3, HarvestedFields
  <2>1. f = y \/ Notes(y, f)
    <3>1. Notes(y, Stopped(y, "pagination_loop"))
      BY <2>0, AnnotationsNote
    <3> QED BY <1>6, <3>1
  <2> QED BY <1>2, <1>3, <2>1, HarvestedFields DEF Notes
<1>9. /\ q \in Seq(Task) /\ q # <<>> /\ Tail(q) \in Seq(Task)
      /\ c = Head(q) /\ c \in Task /\ Address(w) = s.address[c.url] /\ Address(w) \in Url
  BY <1>1, <1>2, <1>3, AtHead
<1>10. Within(s, c) /\ s.address[c.url] \notin k.visited
  BY <1>1, <1>2, <1>3, <1>9, AtApproach
<1>11. /\ WalkShape(x) /\ x.visited = k.visited \cup {s.address[c.url]}
       /\ x.keys = k.keys \cup Published(w) /\ x.tokens = old
       /\ x.contents = k.contents \cup {s.content[c.url]} /\ x.flawed = k.flawed
  BY <1>2, <1>3, <1>4, <1>9, ExtractedWalk, ExtractedFields
<1>12. /\ j.visited = x.visited /\ j.keys = x.keys /\ j.contents = x.contents
       /\ j.flawed = x.flawed /\ j.tokens = old \cup {T[i] : i \in 1..Len(T)}
  BY <1>5, <1>11 DEF WalkShape
<1>13. Published(w) = s.people[c.url] /\ NewKeys(w) = Published(w) \ k.keys
  BY <1>2, <1>3 DEF Published, NewKeys
<1>14. Walks(s, g, k, q, e) /\ g \in BOOLEAN /\ s \in Site
  BY <1>2, SameSlot DEF CoverageInv
<1>15. /\ P \in Seq(Url) /\ T \in Seq(Url)
       /\ \A i \in 1..Len(T) : \E m \in 1..Len(P) : T[i] = P[m]
       /\ ~(Loops(w) /\ Len(T) + 1 < Len(P)) =>
            \A m \in 1..Len(P) : P[m] \in old \/ \E i \in 1..Len(T) : T[i] = P[m]
  BY <1>1, <1>2, <1>4, FreshPager
<1>16. PICK d : d = c.depth /\ d \in Nat /\ c.url \in Url
  BY <1>9 DEF Task
<1>17. PICK a, b, links : /\ links = s.profiles[c.url]
                          /\ a = Tasks(links, "profile", d + 1) /\ b = Tasks(T, "listing", d)
  OBVIOUS
<1>18. new = a \o b
  BY <1>2, <1>3, <1>4, <1>16, <1>17 DEF Links
<1>19. links \in Seq(Url)
  BY <1>14, <1>16, <1>17 DEF Site
<1>20. /\ a \in Seq(Task) /\ Len(a) = Len(links)
       /\ \A i \in 1..Len(links) : a[i] = [url |-> links[i], kind |-> "profile", depth |-> d + 1]
  <2>1. d + 1 \in Nat /\ "profile" \in {"listing", "profile"}
    BY <1>16
  <2> QED BY <1>17, <1>19, <2>1, TasksOfUrls
<1>21. /\ b \in Seq(Task) /\ Len(b) = Len(T)
       /\ \A i \in 1..Len(T) : b[i] = [url |-> T[i], kind |-> "listing", depth |-> d]
  <2>1. "listing" \in {"listing", "profile"}
    OBVIOUS
  <2> QED BY <1>15, <1>16, <1>17, <2>1, TasksOfUrls
<1>22. new \in Seq(Task) /\ Tail(q) \o new \in Seq(Task)
  BY <1>9, <1>18, <1>20, <1>21
<1>23. P = IF c.kind = "profile" THEN <<>> ELSE s.pager[c.url]
  BY <1>2, <1>3, <1>4 DEF Pager
<1>24. LinksOf(s, c) = {[url |-> links[i], kind |-> "profile", depth |-> d + 1] : i \in 1..Len(links)}
         \cup IF c.kind = "profile" THEN {}
              ELSE {[url |-> P[i], kind |-> "listing", depth |-> d] : i \in 1..Len(P)}
  BY <1>16, <1>17, <1>23 DEF LinksOf
<1>25. ASSUME NEW i \in 1..Len(new)
       PROVE  new[i] \in LinksOf(s, c)
  <2>1. /\ Len(new) = Len(a) + Len(b) /\ Len(a) \in Nat /\ Len(b) \in Nat
    <3>1. a \in Seq(Task) /\ b \in Seq(Task)
      BY <1>20, <1>21
    <3> QED BY <1>18, <3>1
  <2>2. CASE i <= Len(a)
    <3>1. i \in 1..Len(links) /\ new[i] = a[i]
      BY <1>18, <1>20, <1>21, <2>1, <2>2
    <3> QED BY <1>20, <1>24, <3>1
  <2>3. CASE i > Len(a)
    <3>1. PICK m \in 1..Len(b) : new[i] = b[m]
      <4>1. i - Len(a) \in 1..Len(b) /\ new[i] = b[i - Len(a)]
        BY <1>18, <1>20, <1>21, <2>1, <2>3
      <4> QED BY <4>1
    <3>2. new[i] = [url |-> T[m], kind |-> "listing", depth |-> d]
      BY <1>21, <3>1
    <3>3. PICK z \in 1..Len(P) : T[m] = P[z]
      BY <1>15, <1>21, <3>1
    <3>4. c.kind # "profile"
      BY <1>23, <3>3
    <3> QED BY <1>24, <3>2, <3>3, <3>4
  <2> QED BY <2>1, <2>2, <2>3
<1>26. PICK r : r = Tail(q) \o new
  OBVIOUS
<1>27. \A t : Queued(a, t) \/ Queued(b, t) => Queued(r, t)
  <2>1. \A t : Queued(a, t) \/ Queued(b, t) => Queued(new, t)
    BY <1>18, <1>20, <1>21, QueuedBehind
  <2>2. \A t : Queued(new, t) => Queued(r, t)
    BY <1>9, <1>22, <1>26, QueuedBehind
  <2> QED BY <2>1, <2>2
<1>28. /\ k.visited \subseteq Url /\ k.keys \subseteq j.keys /\ s.people[c.url] \subseteq j.keys
       /\ j.visited = k.visited \cup {s.address[c.url]}
       /\ j.contents = k.contents \cup {s.content[c.url]}
  BY <1>11, <1>12, <1>13, <1>14 DEF Walks
<1>29. ASSUME Covers(s, k, q), ~h
       PROVE  Covers(s, j, r)
  <2>1. Moves(s, k, q, j, r)
    BY <1>9, <1>10, <1>22, <1>26, <1>28, VisitMoves
  <2>2. c.kind # "profile" => d = 0
    <3>1. Fits(c)
      <4>1. c \in Known(s, k)
        BY <1>9, <1>29 DEF Covers
      <4>2. Cardinality(k.visited) \in Nat
        BY <2>1 DEF Moves
      <4> QED BY <1>14, <4>1, <4>2, ReachFits DEF Known
    <3> QED BY <1>9, <1>16, <3>1 DEF Fits, Task
  <2>3. ASSUME NEW i \in 1..Len(T)
        PROVE  Ahead(s, j, r, Listing(T[i]))
    <3>1. c.kind # "profile"
      BY <1>15, <1>23
    <3>2. b[i] = Listing(T[i]) /\ i \in 1..Len(b)
      BY <1>21, <2>2, <3>1 DEF Listing
    <3>3. Queued(b, Listing(T[i]))
      BY <3>2 DEF Queued
    <3> QED BY <1>27, <3>3 DEF Ahead
  <2>4. \A u \in j.tokens : u \in k.tokens \/ Ahead(s, j, r, Listing(u))
    BY <1>4, <1>12, <2>3
  <2>5. ASSUME NEW l \in LinksOf(s, c)
        PROVE  Ahead(s, j, r, l)
    <3>1. CASE \E i \in 1..Len(links) :
                 l = [url |-> links[i], kind |-> "profile", depth |-> d + 1]
      <4>1. Queued(a, l)
        BY <1>20, <3>1 DEF Queued
      <4> QED BY <1>27, <4>1 DEF Ahead
    <3>2. CASE /\ c.kind # "profile"
               /\ \E m \in 1..Len(P) : l = [url |-> P[m], kind |-> "listing", depth |-> d]
      <4>1. PICK m \in 1..Len(P) : l = Listing(P[m])
        BY <2>2, <3>2 DEF Listing
      <4>2. CASE P[m] \in old
        <5>1. Ahead(s, k, q, Listing(P[m]))
          BY <1>4, <1>29, <4>2 DEF Covers
        <5> QED BY <2>1, <4>1, <5>1, AheadMoves
      <4>3. CASE \E i \in 1..Len(T) : T[i] = P[m]
        BY <2>3, <4>1, <4>3
      <4>4. ~(Loops(w) /\ Len(T) + 1 < Len(P))
        BY <1>7, <1>29
      <4> QED BY <1>15, <4>2, <4>3, <4>4
    <3> QED BY <1>24, <3>1, <3>2
  <2> QED BY <1>9, <1>10, <1>14, <1>22, <1>25, <1>26, <1>28, <1>29, <2>4, <2>5, CoversVisit
<1>30. Walks(s, h, j, r, f)
  <2>1. j.visited \subseteq Url /\ (j.flawed \/ j.keys \cap Unmatched \subseteq f.unsaved)
    BY <1>8, <1>9, <1>11, <1>12, <1>13, <1>14 DEF Walks
  <2>2. r \in Seq(Task) /\ j.flawed = k.flawed
    BY <1>11, <1>12, <1>22, <1>26
  <2>3. \/ k.flawed \/ e.errors # {} \/ g \/ ~Regular(s) \/ Covers(s, k, q)
    BY <1>9, <1>14 DEF Walks
  <2>4. g => h
    BY <1>7
  <2> QED BY <1>8, <1>29, <2>1, <2>2, <2>3, <2>4 DEF Walks
<1>31. h \in BOOLEAN /\ (g => h)
  BY <1>7, <1>14
<1>32. /\ walk' = [walk EXCEPT ![w] = j] /\ queue' = [queue EXCEPT ![w] = r]
       /\ UNCHANGED <<site, checkpoint, frontier>>
  BY <1>2, <1>3, <1>4, <1>5, <1>26 DEF Parse, worldVars, storeVars
<1>33. pc'[w] \in {"closing", "writing"} /\ \A v \in Worker \ {w} : pc'[v] = pc[v]
  <2>1. Goto(w, "closing") \/ Goto(w, "writing")
    BY DEF Parse
  <2> QED BY <2>1, GotoMoves
<1>34. Walks(site, gaveUp', j, r, f) /\ gaveUp' \in BOOLEAN /\ (gaveUp => gaveUp')
  BY <1>2, <1>7, <1>30, <1>31
<1> QED BY <1>6, <1>32, <1>33, <1>34, CoverageStep

(* What a walk covers does not depend on its counters and flags.           *)
LEMMA CoversSame ==
  ASSUME NEW s, NEW k, NEW q, Covers(s, k, q), NEW j,
         j.visited = k.visited, j.keys = k.keys, j.contents = k.contents, j.tokens = k.tokens
  PROVE  Covers(s, j, q)
<1>1. \A t : Ahead(s, k, q, t) => Ahead(s, j, q, t)
  BY DEF Ahead
<1>2. Known(s, j) = Known(s, k)
  BY DEF Known
<1>3. \A t : Taken(s, k, q, t) => Taken(s, j, q, t)
  BY <1>1, <1>2 DEF Taken
<1> QED BY <1>1, <1>2, <1>3 DEF Covers, VisitsTaken, BodiesTaken

(* A new walk covers: it has the seed before it and nothing behind.        *)
LEMMA CoversSeed ==
  ASSUME NEW s, NEW k, k.visited = {}, k.contents = {}, k.tokens = {Seed}
  PROVE  Covers(s, k, <<SeedTask>>) /\ <<SeedTask>> \in Seq(Task)
<1>1. SeedTask \in Task /\ SeedTask = Listing(Seed)
  BY WorldAssumption DEF SeedTask, Task, Listing
<1>2. PICK q, t : q = <<t>> /\ t = SeedTask
  OBVIOUS
<1>3. q \in Seq(Task) /\ Len(q) = 1 /\ q[1] = t
  BY <1>1, <1>2
<1>4. Ahead(s, k, q, t)
  BY <1>3 DEF Ahead, Queued
<1>5. Cardinality(k.visited) = 0
  BY FS_EmptySet
<1>6. t \in Known(s, k)
  BY <1>2, <1>5, ReachRounds DEF Known
<1>7. \A i \in 1..Len(q) : q[i] \in Known(s, k)
  BY <1>3, <1>6
<1>8. VisitsTaken(s, k, q) /\ BodiesTaken(s, k, q)
  BY DEF VisitsTaken, BodiesTaken
<1> QED BY <1>1, <1>2, <1>3, <1>4, <1>7, <1>8 DEF Covers

(* A walk starts with the seed or from the saved checkpoint.               *)
LEMMA LoadCovers ==
  ASSUME CrawlInv, CoverageInv, NEW w \in Worker, Load(w)
  PROVE  CoverageInv'
<1>1. PICK first : first = [NewWalk EXCEPT !.tokens = {Seed}, !.begun = TRUE]
  OBVIOUS
<1>2. PICK fresh, begun : begun = checkpoint.begun /\ fresh = ~begun
  OBVIOUS
<1>3. PICK limit, policy : limit = SliceLimit(checkpoint.pages) /\ policy = permitted
  OBVIOUS
<1>4. PICK blank : blank = NewExec
  OBVIOUS
<1>5. PICK e : e = [blank EXCEPT !.limit = limit, !.policy = policy, !.fresh = fresh]
  OBVIOUS
<1>6. PICK k, q : k = (IF begun THEN checkpoint ELSE first)
                  /\ q = (IF begun THEN frontier ELSE <<SeedTask>>)
  OBVIOUS
<1>7. walk' = [walk EXCEPT ![w] = k] /\ queue' = [queue EXCEPT ![w] = q]
  BY <1>1, <1>2, <1>6 DEF Load
<1>8. exec' = [exec EXCEPT ![w] = e]
  BY <1>2, <1>3, <1>4, <1>5 DEF Load
<1>9. e.fresh = fresh /\ e.found = FALSE /\ e.unsaved = {}
  BY <1>4, <1>5 DEF NewExec
<1>10. PICK s, g : s = site /\ g = gaveUp
  OBVIOUS
<1>11. Resumes(s, g, checkpoint, frontier) /\ g \in BOOLEAN
  BY <1>10 DEF CoverageInv
<1>12. Walks(s, g, k, q, e)
  <2>1. CASE begun
    <3>1. k = checkpoint /\ q = frontier /\ ~e.fresh
      BY <1>2, <1>6, <1>9, <2>1
    <3> QED BY <1>9, <1>11, <3>1 DEF Walks, Resumes
  <2>2. CASE ~begun
    <3>1. k = first /\ q = <<SeedTask>>
      BY <1>6, <2>2
    <3>2. k.visited = {} /\ k.contents = {} /\ k.tokens = {Seed} /\ k.keys = {}
      BY <1>1, <3>1 DEF NewWalk
    <3>3. Covers(s, k, q) /\ q \in Seq(Task)
      BY <3>1, <3>2, CoversSeed
    <3>4. Len(q) <= 1
      BY <3>1
    <3> QED BY <1>9, <3>2, <3>3, <3>4 DEF Walks
  <2> QED BY <2>1, <2>2
<1>13. pc'[w] = "walking" /\ \A v \in Worker \ {w} : pc'[v] = pc[v]
  BY GotoMoves DEF Load
<1>14. UNCHANGED <<site, gaveUp, checkpoint, frontier>>
  BY DEF Load, worldVars
<1> QED BY <1>7, <1>8, <1>10, <1>11, <1>12, <1>13, <1>14, CoverageStep

(* The renewed lease before the final write changes no walk.               *)
LEMMA ConfirmCovers ==
  ASSUME CrawlInv, CoverageInv, NEW w \in Worker, Confirm(w)
  PROVE  CoverageInv'
<1>1. PICK e : e = [exec[w] EXCEPT !.final = TRUE] /\ exec' = [exec EXCEPT ![w] = e]
  BY DEF Confirm, CrawlInv, Shapes
<1>2. Notes(exec[w], e)
  BY <1>1, SameSlot DEF ExecShape, Notes
<1>3. Walks(site, gaveUp, walk[w], queue[w], e)
  BY <1>2, SameSlot, WalksNoted
<1>4. pc'[w] = "writing" /\ \A v \in Worker \ {w} : pc'[v] = pc[v]
  BY GotoMoves DEF Confirm
<1>5. UNCHANGED <<site, gaveUp, walk, queue, checkpoint, frontier>>
  BY DEF Confirm, MemoryOnly, worldVars, storeVars
<1>6. /\ walk' = [walk EXCEPT ![w] = walk[w]] /\ queue' = [queue EXCEPT ![w] = queue[w]]
      /\ gaveUp' \in BOOLEAN /\ Walks(site, gaveUp', walk[w], queue[w], e)
  BY <1>3, <1>5, SameSlot
<1> QED BY <1>1, <1>4, <1>5, <1>6, CoverageStep

(* Writing the page rows changes no walk.                                  *)
LEMMA WritePagesCovers ==
  ASSUME CrawlInv, CoverageInv, NEW w \in Worker, WritePages(w)
  PROVE  CoverageInv'
<1>1. PICK e : e = [exec[w] EXCEPT !.rows = NoRows] /\ exec' = [exec EXCEPT ![w] = e]
  BY DEF WritePages, CrawlInv, Shapes
<1>2. Notes(exec[w], e)
  BY <1>1, SameSlot DEF ExecShape, Notes
<1>3. Walks(site, gaveUp, walk[w], queue[w], e)
  BY <1>2, SameSlot, WalksNoted
<1>4. pc'[w] = "ingesting" /\ \A v \in Worker \ {w} : pc'[v] = pc[v]
  BY GotoMoves DEF WritePages
<1>5. UNCHANGED <<site, gaveUp, walk, queue, checkpoint, frontier>>
  BY DEF WritePages, worldVars
<1>6. /\ walk' = [walk EXCEPT ![w] = walk[w]] /\ queue' = [queue EXCEPT ![w] = queue[w]]
      /\ gaveUp' \in BOOLEAN /\ Walks(site, gaveUp', walk[w], queue[w], e)
  BY <1>3, <1>5, SameSlot
<1> QED BY <1>1, <1>4, <1>5, <1>6, CoverageStep

(* A record that no organization claims flaws the walk.                    *)
LEMMA IngestCovers ==
  ASSUME CrawlInv, CoverageInv, NEW w \in Worker, NEW r, Ingest(w, r)
  PROVE  CoverageInv'
<1>1. PICK e : e = [exec[w] EXCEPT !.unsaved = @ \ {r}] /\ exec' = [exec EXCEPT ![w] = e]
  BY DEF Ingest, CrawlInv, Shapes
<1>2. /\ e.fresh = exec[w].fresh /\ e.found = exec[w].found /\ e.errors = exec[w].errors
      /\ e.unsaved = exec[w].unsaved \ {r}
  BY <1>1, SameSlot DEF ExecShape
<1>3. PICK k : /\ \/ k = walk[w] /\ r \notin Unmatched
                  \/ k = [walk[w] EXCEPT !.flawed = TRUE]
               /\ walk' = [walk EXCEPT ![w] = k]
  BY DEF Ingest, CrawlInv, Shapes
<1>4. /\ k.visited = walk[w].visited /\ k.keys = walk[w].keys
      /\ k.contents = walk[w].contents /\ k.tokens = walk[w].tokens
      /\ k.flawed \/ (k.flawed = walk[w].flawed /\ r \notin Unmatched)
  BY <1>3, SameSlot DEF WalkShape
<1>5. Covers(site, walk[w], queue[w]) => Covers(site, k, queue[w])
  BY <1>4, CoversSame
<1>6. Walks(site, gaveUp, walk[w], queue[w], exec[w])
  BY SameSlot
<1>7. Walks(site, gaveUp, k, queue[w], e)
  BY <1>2, <1>4, <1>5, <1>6 DEF Walks
<1>8. UNCHANGED <<site, gaveUp, queue, pc, checkpoint, frontier>> /\ pc[w] = "ingesting"
  BY DEF Ingest, worldVars
<1>9. queue' = [queue EXCEPT ![w] = queue[w]] /\ Walks(site, gaveUp', k, queue[w], e)
  BY <1>7, <1>8, SameSlot
<1> QED BY <1>1, <1>3, <1>8, <1>9, SameSlot, CoverageStep

(* The checkpoint takes over the walk, its errors as a flaw.               *)
LEMMA SaveCheckpointCovers ==
  ASSUME CrawlInv, CoverageInv, NEW w \in Worker, SaveCheckpoint(w)
  PROVE  CoverageInv'
<1>1. PICK s, g, k, q, e : s = site /\ g = gaveUp /\ k = walk[w] /\ q = queue[w] /\ e = exec[w]
  OBVIOUS
<1>2. PICK flawed : flawed = Flawed(w) /\ (flawed <=> k.flawed \/ e.errors # {})
  BY <1>1 DEF Flawed
<1>3. PICK j : j = [k EXCEPT !.flawed = flawed]
  OBVIOUS
<1>4. checkpoint' = j /\ frontier' = q
  BY <1>1, <1>2, <1>3 DEF SaveCheckpoint
<1>5. /\ j.visited = k.visited /\ j.keys = k.keys /\ j.contents = k.contents
      /\ j.tokens = k.tokens /\ j.flawed = flawed
  BY <1>1, <1>3, SameSlot DEF WalkShape
<1>6. Walks(s, g, k, q, e) /\ e.unsaved = {} /\ \A u \in Url : e.rows[u] = "none"
  BY <1>1, SameSlot DEF SaveCheckpoint, Written, CrawlInv, RowsAreWritten
<1>7. Covers(s, k, q) => Covers(s, j, q)
  BY <1>5, CoversSame
<1>8. Resumes(s, g, j, q)
  BY <1>2, <1>5, <1>6, <1>7 DEF Walks, Resumes
<1>9. UNCHANGED <<site, gaveUp, queue, walk, exec>>
  BY DEF SaveCheckpoint, worldVars
<1>10. /\ \A v \in Worker \ {w} : pc'[v] = pc[v]
       /\ Saved(exec[w])
  BY <1>1, <1>6 DEF SaveCheckpoint, Saved, Goto, CrawlInv, Shapes
<1>11. site' = s /\ gaveUp' = g /\ Resumes(s, g, checkpoint', frontier')
  BY <1>1, <1>4, <1>8, <1>9
<1>12. \A v \in Worker : Walks(s, g, walk'[v], queue'[v], exec'[v])
  BY <1>1, <1>9 DEF CoverageInv
<1>13. \A v \in Worker : pc'[v] \in {"finishing", "reporting"} => Saved(exec'[v])
  BY <1>9, <1>10 DEF CoverageInv
<1>14. queue' = [v \in Worker |-> queue'[v]] /\ s \in Site /\ g \in BOOLEAN
  BY <1>1, <1>9 DEF CoverageInv
<1> QED BY <1>11, <1>12, <1>13, <1>14 DEF CoverageInv

(* The steps that follow a request.                                        *)
LEMMA VisitCovers ==
  ASSUME CrawlInv, CoverageInv, IsFiniteSet(Url), NEW w \in Worker, NEW n, Visit(w, n)
  PROVE  CoverageInv'
<1>1. CASE Challenged(w, n)
  <2>1. Walking(w)
    BY <1>1 DEF Challenged, Request, MayAsk, Approaches
  <2> QED BY <1>1, <2>1, RefuseCovers DEF Challenged
<1> QED BY <1>1, FetchFailsCovers, DuplicateCovers, BrokenCovers, ParseLastCovers, ParseCovers DEF Visit

(* The steps of the walk.                                                  *)
LEMMA CrawlCovers ==
  ASSUME CrawlInv, CoverageInv, IsFiniteSet(Url), NEW w \in Worker, Crawl(w)
  PROVE  CoverageInv'
<1>1. CASE RefusedByPolicy(w)
  BY <1>1, RefuseCovers DEF RefusedByPolicy, Approaches
<1>2. CASE RefusedByRobots(w)
  BY <1>2, RefuseCovers DEF RefusedByRobots, MayAsk, Approaches
<1>3. CASE Exhaust(w)
  <2>1. pc'[w] = "closing" /\ \A v \in Worker \ {w} : pc'[v] = pc[v]
    BY <1>3, GotoMoves DEF Exhaust
  <2> QED BY <1>3, <2>1, CoverageElsewhere DEF Exhaust, MemoryOnly, worldVars, storeVars
<1> QED BY <1>1, <1>2, <1>3, HaltCovers, SkipCovers, VisitCovers DEF Crawl

(* The steps that write the output.                                        *)
LEMMA PersistCovers ==
  ASSUME CrawlInv, CoverageInv, NEW w \in Worker, Persist(w)
  PROVE  CoverageInv'
<1>1. CASE FinishRun(w)
  <2>1. pc[w] = "finishing" /\ \A v \in Worker \ {w} : pc'[v] = pc[v]
    BY <1>1, GotoMoves DEF FinishRun
  <2>2. Saved(exec[w])
    BY <2>1 DEF CoverageInv
  <2> QED BY <1>1, <2>1, <2>2, CoverageElsewhere DEF FinishRun, worldVars
<1> QED BY <1>1, ConfirmCovers, WritePagesCovers, IngestCovers, SaveCheckpointCovers DEF Persist

(* The steps that close an execution.                                      *)
LEMMA ReportCovers ==
  ASSUME CrawlInv, CoverageInv, NEW w \in Worker, Report(w)
  PROVE  CoverageInv'
<1>1. CASE Throw(w)
  <2>1. pc'[w] = "failing" /\ \A v \in Worker \ {w} : pc'[v] = pc[v]
    BY <1>1, GotoMoves DEF Throw
  <2> QED BY <1>1, <2>1, CoverageElsewhere DEF Throw, worldVars
<1>2. CASE Release(w) /\ UNCHANGED <<worldVars, storeVars, gaveUp>>
  BY <1>2, ReleaseCovers DEF worldVars, storeVars
<1> QED BY <1>1, <1>2 DEF Report, CompleteJob, ContinueJob, BlockJob, FailJob, Abandon

(* Every step keeps the coverage invariant.                                *)
LEMMA NextCovers ==
  ASSUME CrawlInv, CoverageInv, IsFiniteSet(Url), [Next]_vars
  PROVE  CoverageInv'
<1>1. ASSUME NEW w \in Worker, Claim(w)
      PROVE  CoverageInv'
  <2>1. CASE ClaimJob(w)
    <3>1. pc'[w] = "claimed" /\ \A v \in Worker \ {w} : pc'[v] = pc[v]
      BY <2>1, GotoMoves DEF ClaimJob
    <3> QED BY <2>1, <3>1, CoverageElsewhere DEF ClaimJob, worldVars, storeVars
  <2>2. CASE ClaimNothing(w)
    BY <2>2, CoverageElsewhere DEF ClaimNothing, worldVars, storeVars, workerVars
  <2> QED BY <1>1, <2>1, <2>2 DEF Claim
<1>2. ASSUME NEW w \in Worker, Execute(w)
      PROVE  CoverageInv'
  <2>1. CASE MarkJobRunning(w)
    <3>1. pc'[w] = "loading" /\ \A v \in Worker \ {w} : pc'[v] = pc[v]
      BY <2>1, GotoMoves DEF MarkJobRunning
    <3> QED BY <2>1, <3>1, CoverageElsewhere DEF MarkJobRunning, worldVars, storeVars
  <2> QED BY <1>2, <2>1, LoadCovers, CrawlCovers, PersistCovers, ReportCovers DEF Execute
<1>3. ASSUME NEW w \in Worker, Crash(w)
      PROVE  CoverageInv'
  BY <1>3, ReleaseCovers DEF Crash, worldVars, storeVars
<1>4. CASE UNCHANGED <<site, gaveUp, storeVars, workerVars>>
  BY <1>4, CoverageElsewhere DEF storeVars, workerVars
<1>5. CASE LeaseRunsOut \/ RunEnds \/ Review \/ UNCHANGED vars
  BY <1>4, <1>5 DEF LeaseRunsOut, RunEnds, Review, ReviewPolicy, ResumePolicyHold, vars, worldVars
<1> QED BY <1>1, <1>2, <1>3, <1>5 DEF Next

(* No walk has begun.                                                      *)
LEMMA InitCovers == Init => CoverageInv
<1> SUFFICES ASSUME Init PROVE CoverageInv
  OBVIOUS
<1>1. site \in Site /\ gaveUp \in BOOLEAN /\ queue = [w \in Worker |-> queue[w]]
  BY WorldAssumption DEF Init
<1>2. /\ NewWalk.visited = {} /\ NewWalk.keys = {} /\ NewExec.found = FALSE
      /\ <<>> \in Seq(Task) /\ Len(<<>>) = 0
  BY DEF NewWalk, NewExec
<1>3. ASSUME NEW w \in Worker
      PROVE  Walks(site, gaveUp, walk[w], queue[w], exec[w]) /\ pc[w] = "idle"
  <2>1. walk[w] = NewWalk /\ queue[w] = <<>> /\ exec[w] = NewExec /\ pc[w] = "idle"
    BY DEF Init
  <2> QED BY <1>2, <2>1 DEF Walks
<1>4. Resumes(site, gaveUp, checkpoint, frontier)
  BY <1>2 DEF Init, Resumes
<1> QED BY <1>1, <1>3, <1>4 DEF CoverageInv

----------------------------------------------------------------------------
(* The whole website.                                                      *)

(* When nothing is left to visit, everything offered was taken in.         *)
LEMMA CoversAll ==
  ASSUME IsFiniteSet(Url), NEW s, NEW k, k.visited \subseteq Url, Covers(s, k, <<>>), Regular(s),
         NEW t \in Offered(s)
  PROVE  s.address[t.url] \in k.visited /\ s.people[t.url] \subseteq k.keys
<1> PICK N, q : N = Cardinality(Url) /\ q = <<>>
  OBVIOUS
<1> DEFINE Done(x) == s.address[x.url] \in k.visited /\ Taken(s, k, q, x)
<1>1. N \in Nat
  BY FS_CardinalityType
<1>2. Covers(s, k, q) /\ \A x : ~Queued(q, x)
  <2>1. Len(q) = 0
    OBVIOUS
  <2> QED BY <2>1 DEF Queued
<1>3. ASSUME NEW x \in Offered(s), Ahead(s, k, q, x)
      PROVE  Done(x)
  <2>1. Within(s, x) /\ s.address[x.url] \in k.visited
    BY <1>2, <1>3 DEF Offered, Ahead
  <2>2. PICK y \in Known(s, k) : s.address[y.url] = s.address[x.url] /\ Taken(s, k, q, y)
    BY <1>2, <2>1 DEF Covers, VisitsTaken
  <2>3. y \in Offered(s)
    BY <2>2, KnownIsOffered DEF Taken
  <2>4. x = y
    BY <2>2, <2>3 DEF Regular
  <2> QED BY <2>1, <2>2, <2>4
<1>4. ASSUME NEW i \in Nat, i <= N, NEW x \in Reach(s)[i], Within(s, x)
      PROVE  x \in Offered(s)
  BY <1>1, <1>4, ReachGrows DEF Offered
<1> DEFINE S == {i \in Nat : i <= N => \A x \in Reach(s)[i] : Within(s, x) => Done(x)}
<1>5. 0 \in S
  <2>1. ASSUME 0 <= N, NEW x \in Reach(s)[0], Within(s, x)
        PROVE  Done(x)
    <3>1. x = SeedTask /\ x \in Offered(s)
      BY <1>4, <2>1, ReachRounds
    <3>2. Ahead(s, k, q, x)
      BY <1>2, <3>1 DEF Covers
    <3> QED BY <1>3, <3>1, <3>2
  <2> QED BY <2>1
<1>6. ASSUME NEW i \in Nat, i \in S
      PROVE  i + 1 \in S
  <2>1. ASSUME i + 1 <= N, NEW x \in Reach(s)[i + 1], Within(s, x)
        PROVE  Done(x)
    <3>1. i <= N /\ x \in Offered(s)
      BY <1>1, <1>4, <2>1
    <3>2. CASE x \in Reach(s)[i]
      BY <1>6, <2>1, <3>1, <3>2
    <3>3. CASE \E y \in Reach(s)[i] : Within(s, y) /\ x \in LinksOf(s, y)
      <4>1. PICK y \in Reach(s)[i] : Within(s, y) /\ x \in LinksOf(s, y)
        BY <3>3
      <4>2. Done(y)
        BY <1>6, <3>1, <4>1
      <4>3. Ahead(s, k, q, x)
        BY <4>1, <4>2 DEF Taken
      <4> QED BY <1>3, <3>1, <4>3
    <3> QED BY <3>2, <3>3, ReachStep
  <2> QED BY <2>1
<1> HIDE DEF S
<1>7. N \in S
  BY <1>1, <1>5, <1>6, NaturalsByInduction
<1>8. Done(t)
  BY <1>1, <1>7 DEF S, Offered
<1> QED BY <1>8 DEF Taken

(* What a step can never take back.                                        *)
LEMMA StoreGrows ==
  ASSUME [Next]_vars
  PROVE  /\ site' = site /\ (gaveUp => gaveUp') /\ ingested \subseteq ingested'
         /\ \A u \in Url : pageStatus[u] # "none" => pageStatus'[u] # "none"
<1> DEFINE Grows == /\ site' = site /\ (gaveUp => gaveUp') /\ ingested \subseteq ingested'
                    /\ \A u \in Url : pageStatus[u] # "none" => pageStatus'[u] # "none"
<1>1. CASE UNCHANGED <<site, gaveUp, ingested, pageStatus>>
  BY <1>1
<1>2. ASSUME NEW w \in Worker, NEW n, Visit(w, n)
      PROVE  Grows
  <2>1. CASE ParseLast(w, n)
    <3>1. gaveUp => gaveUp'
      BY <2>1 DEF ParseLast
    <3> QED BY <2>1, <3>1 DEF ParseLast, worldVars, storeVars
  <2>2. CASE Parse(w, n)
    <3>1. gaveUp => gaveUp'
      BY <2>2 DEF Parse
    <3> QED BY <2>2, <3>1 DEF Parse, worldVars, storeVars
  <2> QED BY <1>1, <1>2, <2>1, <2>2 DEF Visit, FetchFails, Challenged, Refuse, Duplicate, Broken,
                                        worldVars, storeVars
<1>3. ASSUME NEW w \in Worker, Crawl(w)
      PROVE  Grows
  BY <1>1, <1>2, <1>3 DEF Crawl, Halt, Skip, RefusedByPolicy, RefusedByRobots, Refuse, Exhaust,
                          MemoryOnly, worldVars, storeVars
<1>4. ASSUME NEW w \in Worker, Persist(w)
      PROVE  Grows
  <2>1. CASE WritePages(w)
    BY <2>1 DEF WritePages, worldVars
  <2>2. CASE \E r \in Record : Ingest(w, r)
    BY <2>2 DEF Ingest, worldVars
  <2> QED BY <1>1, <1>4, <2>1, <2>2 DEF Persist, Confirm, SaveCheckpoint, FinishRun, MemoryOnly,
                                        worldVars, storeVars
<1>5. ASSUME NEW w \in Worker, Report(w) \/ Crash(w) \/ Claim(w) \/ Load(w) \/ MarkJobRunning(w)
      PROVE  Grows
  BY <1>1, <1>5 DEF Report, CompleteJob, ContinueJob, BlockJob, FailJob, Throw, Abandon, Crash,
                    Claim, ClaimJob, ClaimNothing, Load, MarkJobRunning, worldVars, storeVars
<1>6. CASE LeaseRunsOut \/ RunEnds \/ Review \/ UNCHANGED vars
  BY <1>1, <1>6 DEF LeaseRunsOut, RunEnds, Review, ReviewPolicy, ResumePolicyHold, vars,
                    worldVars, storeVars
<1> QED BY <1>3, <1>4, <1>5, <1>6 DEF Next, Execute

(* Only CompleteJob closes a job as clean.                                 *)
LEMMA CleanIsClosed ==
  ASSUME [Next]_vars, jobStatus' = "completed", clean', NEW Goal,
         jobStatus = "completed" /\ clean => Goal,
         \A w \in Worker : CompleteJob(w) => Goal
  PROVE  Goal
<1>1. CASE UNCHANGED <<jobStatus, clean>>
  BY <1>1
<1>2. ASSUME NEW w \in Worker, Crawl(w) \/ Persist(w) \/ Load(w) \/ MarkJobRunning(w) \/ Crash(w)
      PROVE  Goal
  BY <1>1, <1>2 DEF Crawl, Halt, Skip, RefusedByPolicy, RefusedByRobots, Refuse, Exhaust, Visit,
    FetchFails, Challenged, Duplicate, Broken, ParseLast, Parse, Persist, Confirm, WritePages,
    Ingest, SaveCheckpoint, FinishRun, Load, MarkJobRunning, Crash, MemoryOnly, jobVars, claimVars
<1>3. ASSUME NEW w \in Worker, Report(w)
      PROVE  Goal
  BY <1>1, <1>3 DEF Report, ContinueJob, BlockJob, FailJob, GiveBack, Throw, Abandon, jobVars, claimVars
<1>4. ASSUME NEW w \in Worker, Claim(w)
      PROVE  Goal
  BY <1>1, <1>4 DEF Claim, ClaimJob, ClaimNothing, GiveBack, Swept, Recovered
<1>5. CASE LeaseRunsOut \/ RunEnds \/ Review \/ UNCHANGED vars
  BY <1>1, <1>5 DEF LeaseRunsOut, RunEnds, Review, ReviewPolicy, ResumePolicyHold, vars, jobVars, claimVars
<1> QED BY <1>2, <1>3, <1>4, <1>5 DEF Next, Execute

(* A job that closes clean has nothing queued, and its walk covers.        *)
LEMMA CompleteMeansWhole ==
  ASSUME CrawlInv, CoverageInv, IsFiniteSet(Url), NEW w \in Worker, CompleteJob(w),
         clean', ~gaveUp, Regular(site), NEW t \in Offered(site)
  PROVE  pageStatus[site.address[t.url]] # "none" /\ site.people[t.url] \subseteq ingested
<1>1. PICK s, k, q, e : s = site /\ k = walk[w] /\ q = queue[w] /\ e = exec[w]
  OBVIOUS
<1>2. q = <<>>
  BY <1>1 DEF CompleteJob, Reports, Outcome, Pending
<1>3. e.found /\ ~k.flawed /\ e.errors = {}
  BY <1>1 DEF CompleteJob, Flawed
<1>4. Walks(s, gaveUp, k, q, e)
  BY <1>1, SameSlot
<1>5. Saved(e)
  BY <1>1 DEF CompleteJob, Reports, CoverageInv
<1>6. Covers(s, k, <<>>) /\ k.visited \subseteq Url /\ k.keys \cap Unmatched = {}
  BY <1>1, <1>2, <1>3, <1>4, <1>5 DEF Walks, Saved
<1>7. s.address[t.url] \in k.visited /\ s.people[t.url] \subseteq k.keys
  BY <1>1, <1>6, CoversAll
<1>8. pageStatus[s.address[t.url]] # "none"
  BY <1>1, <1>5, <1>6, <1>7 DEF CrawlInv, VisitsAreNoted, Saved
<1>9. k.keys \subseteq ingested
  BY <1>1, <1>5, <1>6 DEF CrawlInv, KeysAreKept, Saved
<1> QED BY <1>1, <1>7, <1>8, <1>9

(* Every step keeps CleanMeansWhole: what it speaks of only grows, and a   *)
(* job closes clean only over a walk that covers the website.              *)
LEMMA NextWhole ==
  ASSUME CrawlInv, CoverageInv, CleanMeansWhole, IsFiniteSet(Url), [Next]_vars
  PROVE  CleanMeansWhole'
<1> PICK s : s = site
  OBVIOUS
<1>1. site' = s /\ s \in Site /\ (gaveUp => gaveUp')
  BY StoreGrows DEF CoverageInv
<1>2. SUFFICES ASSUME jobStatus' = "completed", clean', ~gaveUp', Regular(s), NEW t \in Offered(s)
               PROVE  pageStatus'[s.address[t.url]] # "none" /\ s.people[t.url] \subseteq ingested'
  BY <1>1 DEF CleanMeansWhole
<1>3. s.address[t.url] \in Url
  <2>1. Cardinality(Url) \in Nat
    BY FS_CardinalityType
  <2>2. Fits(t)
    BY <1>1, <2>1, ReachFits DEF Offered
  <2> QED BY <1>1, <2>2 DEF Fits, Task, Site
<1>4. pageStatus[s.address[t.url]] # "none" /\ s.people[t.url] \subseteq ingested
  <2> DEFINE Goal == pageStatus[s.address[t.url]] # "none" /\ s.people[t.url] \subseteq ingested
  <2>1. jobStatus = "completed" /\ clean => Goal
    BY <1>1, <1>2 DEF CleanMeansWhole
  <2>2. \A w \in Worker : CompleteJob(w) => Goal
    BY <1>1, <1>2, CompleteMeansWhole
  <2> HIDE DEF Goal
  <2>3. Goal
    BY <1>2, <2>1, <2>2, CleanIsClosed
  <2> QED BY <2>3 DEF Goal
<1> QED BY <1>3, <1>4, StoreGrows

(* A job closed as completed without a detail collected the whole website, *)
(* however many slices, retries, lost leases and crashes it took: every    *)
(* page a finite, regular website offers within the depth limit has its    *)
(* row, and everybody on it was ingested.  Only the stops that give a      *)
(* pager up (no progress, a pagination loop) are excepted.                 *)
THEOREM CleanCrawlIsWhole ==
  ASSUME IsFiniteSet(Url)
  PROVE  Spec => []CleanMeansWhole
<1>1. Init => CrawlInv /\ CoverageInv /\ CleanMeansWhole
  <2>1. Init => CleanMeansWhole
    BY DEF Init, CleanMeansWhole
  <2> QED BY <2>1, InitCrawlInv, InitCovers
<1>2. CrawlInv /\ CoverageInv /\ CleanMeansWhole /\ [Next]_vars
      => CrawlInv' /\ CoverageInv' /\ CleanMeansWhole'
  BY NextCrawlInv, NextCovers, NextWhole
<1> QED BY <1>1, <1>2, PTL DEF Spec
=============================================================================
