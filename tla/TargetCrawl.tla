---------------------------- MODULE TargetCrawl ----------------------------
(***************************************************************************)
(* One approved crawl job: workers claim it, walk the target's website     *)
(* page by page, ingest what each page published, save a checkpoint and    *)
(* hand the job back after every slice for another lease to resume.        *)
(*                                                                         *)
(* The walk is CrawlEngine.run with its CrawlGuards; the worker around it  *)
(* is ProductionCollectionExecutor.execute and CollectionWorker.runNext;   *)
(* the job is the projection of CollectionQueue to one job of a run.       *)
(*                                                                         *)
(* Abstractions.  A website is a member of Sites: what each url would      *)
(* answer and publish, fixed for the life of the job.  A member of Url is  *)
(* a destination: a url with the body posted to it, if any; its address is *)
(* the url alone.  Urls, page bodies and records are their hashes.  One    *)
(* iteration of the walk is one step:                                      *)
(* it touches only memory between its request and the next ingestion, so   *)
(* its lease and policy are checked at the moment of the request.  All     *)
(* urls of an approved website share one registrable domain, so there is   *)
(* one failure streak, and maxPagesPerDomain, never below the target       *)
(* ceiling, cannot bind before the page limit does.                        *)
(***************************************************************************)
EXTENDS Integers, Sequences, FiniteSets

CONSTANTS Worker, NoWorker, Url, Seed, Content, Record,
          Unmatched,    \* records no single organization of the target claims
          Skippable,    \* urls outside the approved website, or excluded by pattern
          Sites,
          SlicePages, TargetPages, MaxDepth, MaxFailures, MaxFruitless,
          MaxRetries, MaxAttempts

Answer == {"page", "broken", "unreachable", "refused", "challenge", "disallowed"}
Site == [address : [Url -> Url], content : [Url -> Content], people : [Url -> SUBSET Record],
         profiles : [Url -> Seq(Url)], pager : [Url -> Seq(Url)],
         sequential : SUBSET Url, answers : [Url -> SUBSET Answer]]

ASSUME WorldAssumption ==
  /\ NoWorker \notin Worker /\ Seed \in Url \ Skippable /\ Unmatched \subseteq Record
  /\ Sites \subseteq Site
ASSUME BoundAssumption ==
  /\ SlicePages \in Nat \ {0} /\ TargetPages \in Nat \ {0} /\ MaxAttempts \in Nat \ {0}
  /\ MaxFailures \in Nat \ {0} /\ MaxFruitless \in Nat \ {0}
  /\ MaxDepth \in Nat /\ MaxRetries \in Nat

Task == [url : Url, kind : {"listing", "profile"}, depth : Nat]
SeedTask == [url |-> Seed, kind |-> "listing", depth |-> 0]
PageStatus == {"none", "parsed", "skipped", "failed", "blocked"}
JobStatus == {"queued", "active", "completed", "failed", "policy_hold", "cancelled"}
RunStatus == {"none", "running", "completed", "completed_with_errors", "cancelled", "failed"}
ErrorType == {"source_policy_refusal", "robots_disallowed", "unreachable",
              "blocked_by_source", "captcha", "adapter_error"}
StopReason == {"page_budget_exhausted", "repeated_failures", "blocked_by_source_policy",
               "blocked_by_robots", "blocked_by_source", "duplicate_content",
               "empty_success", "no_progress", "pagination_loop"}

VARIABLES
  site, permitted, ended,                             \* the world around the job
  jobStatus, attemptCount, claimToken, leased,        \* collection_jobs
  charged, clean,
  runStatus,                                          \* crawl_runs
  pageStatus,                                         \* crawl_pages
  ingested,                                           \* people rows
  checkpoint, frontier,                               \* crawl_checkpoints
  pc, queue, walk, exec,                              \* the worker slots
  gaveUp                                              \* history: a pager was given up

worldVars == <<site, permitted, ended>>
claimVars == <<jobStatus, attemptCount, claimToken, leased>>
jobVars == <<claimVars, charged, clean>>
storeVars == <<runStatus, pageStatus, ingested, checkpoint, frontier>>
workerVars == <<pc, queue, walk, exec>>
vars == <<worldVars, jobVars, storeVars, workerVars, gaveUp>>

(* The state of the guards: what a checkpoint carries besides its tasks.   *)
Walk == [visited : SUBSET Url, contents : SUBSET Content, keys : SUBSET Record,
         tokens : SUBSET Url, pages : Nat, failures : Nat, fruitless : Nat,
         flawed : BOOLEAN, begun : BOOLEAN]
NewWalk == [visited |-> {}, contents |-> {}, keys |-> {}, tokens |-> {}, pages |-> 0,
            failures |-> 0, fruitless |-> 0, flawed |-> FALSE, begun |-> FALSE]

(* What one execution holds outside its guards: its page limit, the policy *)
(* registry it loaded, and the output it has not written yet.              *)
Exec == [limit : Nat, policy : SUBSET Url, fresh : BOOLEAN, found : BOOLEAN,
         stops : SUBSET StopReason, errors : SUBSET ErrorType,
         unsaved : SUBSET Record, rows : [Url -> PageStatus], final : BOOLEAN]
NoRows == [u \in Url |-> "none"]
NewExec == [limit |-> 0, policy |-> {}, fresh |-> TRUE, found |-> FALSE, stops |-> {},
            errors |-> {}, unsaved |-> {}, rows |-> NoRows, final |-> FALSE]

Init ==
  /\ site \in Sites
  /\ permitted \in {Url, {Seed}}
  /\ ended = FALSE
  /\ jobStatus = "queued" /\ attemptCount = 0 /\ claimToken = NoWorker /\ leased = FALSE
  /\ charged = 0 /\ clean = FALSE
  /\ runStatus = "none" /\ pageStatus = NoRows /\ ingested = {}
  /\ checkpoint = NewWalk /\ frontier = <<>>
  /\ pc = [w \in Worker |-> "idle"]
  /\ queue = [w \in Worker |-> <<>>]
  /\ walk = [w \in Worker |-> NewWalk]
  /\ exec = [w \in Worker |-> NewExec]
  /\ gaveUp = FALSE

Lesser(a, b) == IF a < b THEN a ELSE b
Greater(a, b) == IF a < b THEN b ELSE a
Goto(w, label) == pc' = [pc EXCEPT ![w] = label]

----------------------------------------------------------------------------
(* The claim, as the queue checks it.                                      *)

Owns(w) == claimToken = w /\ jobStatus = "active"
OwnsLease(w) == Owns(w) /\ leased
(* renewLease, also called before every request and every ingested record. *)
Live(w) == OwnsLease(w) /\ ~ended

(* The slot forgets its job.                                               *)
Release(w) ==
  /\ Goto(w, "idle")
  /\ queue' = [queue EXCEPT ![w] = <<>>]
  /\ walk' = [walk EXCEPT ![w] = NewWalk]
  /\ exec' = [exec EXCEPT ![w] = NewExec]

GiveBack(status, attempts) ==
  /\ jobStatus' = status /\ attemptCount' = attempts
  /\ claimToken' = NoWorker /\ leased' = FALSE

(* claimNextJob recovers an expired lease and cancels an expired run       *)
(* before it selects.                                                      *)
Recovered ==
  IF jobStatus = "active" /\ ~leased
  THEN IF attemptCount < MaxAttempts THEN "queued" ELSE "failed"
  ELSE jobStatus
Swept == IF ended /\ Recovered = "queued" THEN "cancelled" ELSE Recovered

(* collection_jobs_attempts_valid aborts the claim of an exhausted job.    *)
AttemptsValid == attemptCount < MaxAttempts

ClaimJob(w) ==
  /\ pc[w] = "idle" /\ Swept = "queued" /\ Seed \in permitted
  /\ AttemptsValid
  /\ jobStatus' = "active" /\ attemptCount' = attemptCount + 1
  /\ claimToken' = w /\ leased' = TRUE
  /\ Goto(w, "claimed")
  /\ UNCHANGED <<worldVars, charged, clean, storeVars, queue, walk, exec, gaveUp>>

ClaimNothing(w) ==
  LET status == IF Swept = "queued" THEN "policy_hold" ELSE Swept IN
  /\ pc[w] = "idle" /\ ~(Swept = "queued" /\ Seed \in permitted)
  /\ status # jobStatus
  /\ GiveBack(status, attemptCount)
  /\ UNCHANGED <<worldVars, charged, clean, storeVars, workerVars, gaveUp>>

MarkJobRunning(w) ==
  /\ pc[w] = "claimed" /\ OwnsLease(w)
  /\ Goto(w, "loading")
  /\ UNCHANGED <<worldVars, jobVars, storeVars, queue, walk, exec, gaveUp>>

(* The first execution opens and attaches the crawl run; each one resumes  *)
(* from the saved checkpoint and may fetch one slice more than it holds.   *)
SlipSliceLimit(pages) == Lesser(TargetPages, SlicePages)
SliceLimit(pages) == Lesser(TargetPages, pages + SlicePages)

Load(w) ==
  /\ pc[w] = "loading"
  /\ IF runStatus = "none" THEN OwnsLease(w) /\ runStatus' = "running"
     ELSE UNCHANGED runStatus
  /\ queue' = [queue EXCEPT ![w] =
       IF checkpoint.begun THEN frontier ELSE <<SeedTask>>]
  /\ walk' = [walk EXCEPT ![w] =
       IF checkpoint.begun THEN checkpoint ELSE [NewWalk EXCEPT !.tokens = {Seed}, !.begun = TRUE]]
  /\ exec' = [exec EXCEPT ![w] = [NewExec EXCEPT !.limit = SliceLimit(checkpoint.pages),
                                                 !.policy = permitted,
                                                 !.fresh = ~checkpoint.begun]]
  /\ Goto(w, "walking")
  /\ UNCHANGED <<worldVars, jobVars, pageStatus, ingested, checkpoint, frontier, gaveUp>>

----------------------------------------------------------------------------
(* CrawlEngine.run: the guards before a request, in their order.           *)

Walking(w) == pc[w] = "walking" /\ queue[w] # <<>>
Current(w) == Head(queue[w])
Address(w) == site.address[Current(w).url]
Full(w) == walk[w].pages >= exec[w].limit
Passed(w) == Current(w).depth > MaxDepth \/ Address(w) \in walk[w].visited
Tired(w) == walk[w].failures >= MaxFailures

(* Every iteration but a budget stop has taken its task off the queue.     *)
DropTask(w) == queue' = [queue EXCEPT ![w] = Tail(@)]
KeepTask(w) == UNCHANGED queue

(* The page record of the current task, with what else the step notes.     *)
Noted(w, status) == [exec[w] EXCEPT !.rows[Address(w)] = status]
Stopped(e, reason) == [e EXCEPT !.stops = @ \cup {reason}]
Failed(e, type) == [e EXCEPT !.errors = @ \cup {type}]

MemoryOnly == UNCHANGED <<worldVars, jobVars, storeVars>>

Halt(w) ==
  /\ Walking(w)
  /\ Full(w) \/ (~Passed(w) /\ Tired(w))
  /\ KeepTask(w)
  /\ exec' = [exec EXCEPT ![w] =
       Stopped(@, IF Full(w) THEN "page_budget_exhausted" ELSE "repeated_failures")]
  /\ Goto(w, "closing")
  /\ MemoryOnly /\ UNCHANGED <<walk, gaveUp>>

Skip(w) ==
  /\ Walking(w) /\ ~Full(w)
  /\ Passed(w) \/ (~Tired(w) /\ Address(w) \in Skippable)
  /\ DropTask(w)
  /\ exec' = [exec EXCEPT ![w] = Noted(w, "skipped")]
  /\ MemoryOnly /\ UNCHANGED <<pc, walk, gaveUp>>

(* The task may be collected as far as the guards can tell.                *)
Approaches(w) ==
  /\ Walking(w) /\ ~Full(w) /\ ~Passed(w) /\ ~Tired(w)
  /\ Address(w) \notin Skippable

(* The source policy or robots.txt refuses: the walk ends, without the     *)
(* task it had just taken.                                                 *)
Refuse(w, status, reason, type) ==
  /\ DropTask(w)
  /\ exec' = [exec EXCEPT ![w] = Failed(Stopped(Noted(w, status), reason), type)]
  /\ Goto(w, "closing")
  /\ UNCHANGED <<worldVars, storeVars, claimVars, clean, walk, gaveUp>>

RefusedByPolicy(w) ==
  /\ Approaches(w) /\ Address(w) \notin exec[w].policy
  /\ Refuse(w, "blocked", "blocked_by_source_policy", "source_policy_refusal")
  /\ UNCHANGED charged

MayAsk(w, answer) ==
  /\ Approaches(w) /\ Address(w) \in exec[w].policy
  /\ answer \in site.answers[Current(w).url]

RefusedByRobots(w) ==
  /\ MayAsk(w, "disallowed")
  /\ Refuse(w, "blocked", "blocked_by_robots", "robots_disallowed")
  /\ UNCHANGED charged

----------------------------------------------------------------------------
(* A request.  Before each transport attempt the fetcher renews the lease, *)
(* asks the current policy registry and charges the target's budget; when  *)
(* any of them refuses, the execution throws (Throw).                      *)

Request(w, answer, attempts) ==
  /\ MayAsk(w, answer)
  /\ Live(w) /\ Address(w) \in permitted
  /\ attempts > 1 => "unreachable" \in site.answers[Current(w).url]
  /\ charged + attempts <= TargetPages
  /\ charged' = charged + attempts

Attempts == 1..(MaxRetries + 1)
(* A retried attempt leaves its error behind even when a later one works.  *)
Retried(e, attempts) == IF attempts > 1 THEN Failed(e, "unreachable") ELSE e

(* No page: the task is lost and the walk goes on to the next one.         *)
FetchFails(w, answer, attempts) ==
  /\ Request(w, answer, attempts)
  /\ DropTask(w)
  /\ walk' = [walk EXCEPT ![w].failures = @ + 1]
  /\ exec' = [exec EXCEPT ![w] =
       Failed(Retried(Noted(w, "failed"), attempts),
              IF answer = "refused" THEN "blocked_by_source" ELSE "unreachable")]
  /\ UNCHANGED <<worldVars, claimVars, clean, storeVars, pc, gaveUp>>

Challenged(w, attempts) ==
  /\ Request(w, "challenge", attempts)
  /\ Refuse(w, "blocked", "blocked_by_source", "captcha")

(* afterFetch.                                                             *)
Fetched(w) ==
  [walk[w] EXCEPT !.visited = @ \cup {Address(w)}, !.pages = @ + 1, !.failures = 0,
                  !.contents = @ \cup {site.content[Current(w).url]}]
Repeats(w) == site.content[Current(w).url] \in walk[w].contents

(* A body seen before: a listing ends the walk, a profile is passed over.  *)
Duplicate(w, attempts) ==
  LET e == Retried(Noted(w, "skipped"), attempts)
      listing == Current(w).kind = "listing" IN
  /\ \E answer \in {"page", "broken"} : Request(w, answer, attempts)
  /\ Repeats(w)
  /\ DropTask(w)
  /\ walk' = [walk EXCEPT ![w] = Fetched(w)]
  /\ exec' = [exec EXCEPT ![w] = IF listing THEN Stopped(e, "duplicate_content") ELSE e]
  /\ IF listing THEN Goto(w, "closing") ELSE UNCHANGED pc
  /\ UNCHANGED <<worldVars, claimVars, clean, storeVars, gaveUp>>

(* The adapter cannot parse the page.                                      *)
Broken(w, attempts) ==
  /\ Request(w, "broken", attempts)
  /\ ~Repeats(w)
  /\ DropTask(w)
  /\ walk' = [walk EXCEPT ![w] = Fetched(w)]
  /\ exec' = [exec EXCEPT ![w] = Failed(Retried(Noted(w, "failed"), attempts), "adapter_error")]
  /\ UNCHANGED <<worldVars, claimVars, clean, storeVars, pc, gaveUp>>

(* afterExtraction.  An empty first page ends the walk before the count of *)
(* fruitless pages; profiles do not count.                                 *)
Published(w) == site.people[Current(w).url]
NewKeys(w) == Published(w) \ walk[w].keys
EmptyStart(w) == Published(w) = {} /\ exec[w].fresh
Fruitless(w) ==
  IF EmptyStart(w) \/ Current(w).kind = "profile" THEN walk[w].fruitless
  ELSE IF NewKeys(w) = {} THEN walk[w].fruitless + 1 ELSE 0
NoProgress(w) ==
  ~EmptyStart(w) /\ Current(w).kind = "listing" /\ Fruitless(w) >= MaxFruitless

Extracted(w) ==
  [Fetched(w) EXCEPT !.keys = @ \cup Published(w), !.fruitless = Fruitless(w)]
Harvested(w, attempts) ==
  [Retried(Noted(w, "parsed"), attempts) EXCEPT
     !.unsaved = @ \cup NewKeys(w), !.found = @ \/ NewKeys(w) # {}, !.fresh = FALSE]

(* The page ends the walk: its links are not followed.                     *)
ParseLast(w, attempts) ==
  /\ Request(w, "page", attempts)
  /\ ~Repeats(w)
  /\ EmptyStart(w) \/ NoProgress(w)
  /\ DropTask(w)
  /\ walk' = [walk EXCEPT ![w] = Extracted(w)]
  /\ exec' = [exec EXCEPT ![w] =
       Stopped(Harvested(w, attempts), IF EmptyStart(w) THEN "empty_success" ELSE "no_progress")]
  /\ gaveUp' = (gaveUp \/ NoProgress(w))
  /\ Goto(w, "closing")
  /\ UNCHANGED <<worldVars, claimVars, clean, storeVars>>

(* The places of a pager whose url was followed before, on this page or an *)
(* earlier one.  On a sequential pager the first of them ends the walk,    *)
(* with the tasks queued so far; any other pager passes over them.         *)
Tasks(urls, kind, depth) ==
  [i \in 1..Len(urls) |-> [url |-> urls[i], kind |-> kind, depth |-> depth]]
Pager(w) == IF Current(w).kind = "profile" THEN <<>> ELSE site.pager[Current(w).url]
Followed(w) ==
  {i \in 1..Len(Pager(w)) : \/ Pager(w)[i] \in walk[w].tokens
                           \/ \E j \in 1..(i - 1) : Pager(w)[j] = Pager(w)[i]}
Loops(w) == Current(w).url \in site.sequential /\ Followed(w) # {}

(* The entries of a sequence at the places of a set, in their order.       *)
Picked(seq, places) ==
  [n \in 1..Cardinality(places) |->
     seq[CHOOSE i \in places : Cardinality({j \in places : j <= i}) = n]]
Fresh(w) ==
  IF Loops(w)
  THEN LET first == CHOOSE i \in Followed(w) : \A k \in Followed(w) : i <= k
       IN  SubSeq(Pager(w), 1, first - 1)
  ELSE Picked(Pager(w), 1..Len(Pager(w)) \ Followed(w))

Links(w) ==
  Tasks(site.profiles[Current(w).url], "profile", Current(w).depth + 1)
    \o Tasks(Fresh(w), "listing", Current(w).depth)

Parse(w, attempts) ==
  LET e == Harvested(w, attempts)
      pager == {Fresh(w)[i] : i \in 1..Len(Fresh(w))} IN
  /\ Request(w, "page", attempts)
  /\ ~Repeats(w)
  /\ ~EmptyStart(w) /\ ~NoProgress(w)
  /\ queue' = [queue EXCEPT ![w] = Tail(@) \o Links(w)]
  /\ walk' = [walk EXCEPT ![w] = [Extracted(w) EXCEPT !.tokens = @ \cup pager]]
  /\ exec' = [exec EXCEPT ![w] = IF Loops(w) THEN Stopped(e, "pagination_loop") ELSE e]
  /\ gaveUp' = (gaveUp \/ (Loops(w) /\ Len(Fresh(w)) + 1 < Len(Pager(w))))
  /\ Goto(w, IF Loops(w) THEN "closing" ELSE "writing")
  /\ UNCHANGED <<worldVars, claimVars, clean, storeVars>>

(* The frontier is exhausted.                                              *)
Exhaust(w) ==
  /\ pc[w] = "walking" /\ queue[w] = <<>>
  /\ Goto(w, "closing")
  /\ MemoryOnly /\ UNCHANGED <<queue, walk, exec, gaveUp>>

----------------------------------------------------------------------------
(* Writing the output: ingestRun, then the checkpoint.  The same steps     *)
(* follow a parsed page and, once the lease is confirmed, the whole walk.  *)

Confirm(w) ==
  /\ pc[w] = "closing" /\ Live(w)
  /\ exec' = [exec EXCEPT ![w].final = TRUE]
  /\ Goto(w, "writing")
  /\ MemoryOnly /\ UNCHANGED <<queue, walk, gaveUp>>

WritePages(w) ==
  /\ pc[w] = "writing"
  /\ pageStatus' = [u \in Url |->
       IF exec[w].rows[u] = "none" THEN pageStatus[u] ELSE exec[w].rows[u]]
  /\ exec' = [exec EXCEPT ![w].rows = NoRows]
  /\ Goto(w, "ingesting")
  /\ UNCHANGED <<worldVars, jobVars, runStatus, ingested, checkpoint, frontier, queue, walk,
                 gaveUp>>

(* Each record is ingested under a renewed lease; one that matches no      *)
(* organization is counted as an error.                                    *)
Ingest(w, r) ==
  /\ pc[w] = "ingesting" /\ r \in exec[w].unsaved
  /\ Live(w)
  /\ exec' = [exec EXCEPT ![w].unsaved = @ \ {r}]
  /\ IF r \in Unmatched
     THEN walk' = [walk EXCEPT ![w].flawed = TRUE] /\ UNCHANGED ingested
     ELSE ingested' = ingested \cup {r} /\ UNCHANGED walk
  /\ UNCHANGED <<worldVars, jobVars, runStatus, pageStatus, checkpoint, frontier, pc, queue,
                 gaveUp>>

SlipWritten(w) == TRUE
Written(w) == exec[w].unsaved = {}

SlipFlawed(w) == walk[w].flawed
Flawed(w) == walk[w].flawed \/ exec[w].errors # {}

Pending(w) == queue[w] # <<>>
MayContinue(w) ==
  /\ Pending(w) /\ "page_budget_exhausted" \in exec[w].stops
  /\ walk[w].pages < TargetPages

(* saveCheckpoint looks at no claim.                                       *)
SaveCheckpoint(w) ==
  /\ pc[w] = "ingesting" /\ Written(w)
  /\ checkpoint' = [walk[w] EXCEPT !.flawed = Flawed(w)]
  /\ frontier' = queue[w]
  /\ Goto(w, IF ~exec[w].final THEN "walking"
             ELSE IF MayContinue(w) THEN "reporting" ELSE "finishing")
  /\ UNCHANGED <<worldVars, jobVars, runStatus, pageStatus, ingested, queue, walk, exec, gaveUp>>

----------------------------------------------------------------------------
(* Closing the execution.                                                  *)

(* crawlOutcome, and what execute makes of it while tasks are pending.     *)
CrawlOutcome(w) ==
  LET stops == exec[w].stops IN
  IF "blocked_by_source_policy" \in stops THEN "policy_hold"
  ELSE IF stops \cap {"blocked_by_robots", "blocked_by_source"} # {} THEN "blocked"
  ELSE IF "page_budget_exhausted" \in stops THEN "failed"
  ELSE "completed"
Outcome(w) ==
  IF MayContinue(w) THEN "continuation"
  ELSE IF Pending(w) /\ CrawlOutcome(w) = "completed" THEN "failed"
  ELSE CrawlOutcome(w)

FinishRun(w) ==
  /\ pc[w] = "finishing"
  /\ runStatus' = IF Outcome(w) # "completed" THEN "cancelled"
                  ELSE IF Flawed(w) THEN "completed_with_errors" ELSE "completed"
  /\ Goto(w, "reporting")
  /\ UNCHANGED <<worldVars, jobVars, pageStatus, ingested, checkpoint, frontier, queue, walk,
                 exec, gaveUp>>

Reports(w, outcome) == pc[w] = "reporting" /\ Outcome(w) = outcome

(* A detail, hence a flaw of the batch, tells errors and an empty harvest. *)
CompleteJob(w) ==
  /\ Reports(w, "completed") /\ OwnsLease(w)
  /\ jobStatus' = "completed" /\ leased' = FALSE
  /\ clean' = (~Flawed(w) /\ exec[w].found)
  /\ Release(w)
  /\ UNCHANGED <<worldVars, attemptCount, claimToken, charged, storeVars, gaveUp>>

(* A healthy slice returns its attempt.                                    *)
ContinueJob(w) ==
  /\ Reports(w, "continuation") /\ OwnsLease(w)
  /\ GiveBack("queued", Greater(attemptCount - 1, 0))
  /\ Release(w)
  /\ UNCHANGED <<worldVars, charged, clean, storeVars, gaveUp>>

BlockJob(w, outcome) ==
  /\ Reports(w, outcome) /\ outcome \in {"policy_hold", "blocked"} /\ Owns(w)
  /\ GiveBack(IF outcome = "policy_hold" THEN outcome ELSE "failed", attemptCount)
  /\ Release(w)
  /\ UNCHANGED <<worldVars, charged, clean, storeVars, gaveUp>>

(* A failed outcome is never retried; an exception may be.                 *)
FailJob(w, retryable) ==
  /\ \/ Reports(w, "failed") /\ ~retryable
     \/ pc[w] = "failing"
  /\ Owns(w)
  /\ GiveBack(IF retryable /\ attemptCount < MaxAttempts THEN "queued" ELSE "failed",
              attemptCount)
  /\ Release(w)
  /\ UNCHANGED <<worldVars, charged, clean, storeVars, gaveUp>>

(* Any call may throw: a lost lease or exhausted budget, a request that    *)
(* policy or scope refuses, a redirect out of the website, an archive or   *)
(* database error.  Inside execute the crawl run is marked failed first.   *)
InExecute == {"walking", "closing", "writing", "ingesting", "finishing"}
Throw(w) ==
  /\ pc[w] \notin {"idle", "failing"}
  /\ runStatus' = IF pc[w] \in InExecute THEN "failed" ELSE runStatus
  /\ Goto(w, "failing")
  /\ UNCHANGED <<worldVars, jobVars, pageStatus, ingested, checkpoint, frontier, queue, walk,
                 exec, gaveUp>>

(* The catch block logs a refused failJob.                                 *)
Abandon(w) ==
  /\ pc[w] = "failing" /\ ~Owns(w)
  /\ Release(w)
  /\ UNCHANGED <<worldVars, jobVars, storeVars, gaveUp>>

Crash(w) ==
  /\ pc[w] # "idle"
  /\ Release(w)
  /\ UNCHANGED <<worldVars, jobVars, storeVars, gaveUp>>

----------------------------------------------------------------------------
(* The world.                                                              *)

LeaseRunsOut ==
  /\ jobStatus = "active" /\ leased
  /\ leased' = FALSE
  /\ UNCHANGED <<worldVars, jobStatus, attemptCount, claimToken, charged, clean, storeVars,
                 workerVars, gaveUp>>

(* The run's authorization expires.                                        *)
RunEnds ==
  /\ ~ended /\ ended' = TRUE
  /\ UNCHANGED <<site, permitted, jobVars, storeVars, workerVars, gaveUp>>

ReviewPolicy(u) ==
  /\ permitted' = IF u \in permitted THEN permitted \ {u} ELSE permitted \cup {u}
  /\ UNCHANGED <<site, ended, jobVars, storeVars, workerVars, gaveUp>>

ResumePolicyHold ==
  /\ jobStatus = "policy_hold" /\ Seed \in permitted /\ ~ended
  /\ jobStatus' = "queued"
  /\ UNCHANGED <<worldVars, attemptCount, claimToken, leased, charged, clean, storeVars,
                 workerVars, gaveUp>>

----------------------------------------------------------------------------
Claim(w) == ClaimJob(w) \/ ClaimNothing(w)

Visit(w, attempts) ==
  \/ \E answer \in {"unreachable", "refused"} : FetchFails(w, answer, attempts)
  \/ Challenged(w, attempts) \/ Duplicate(w, attempts) \/ Broken(w, attempts)
  \/ ParseLast(w, attempts) \/ Parse(w, attempts)

Crawl(w) ==
  \/ Halt(w) \/ Skip(w) \/ RefusedByPolicy(w) \/ RefusedByRobots(w) \/ Exhaust(w)
  \/ \E attempts \in Attempts : Visit(w, attempts)

Persist(w) ==
  \/ Confirm(w) \/ WritePages(w) \/ SaveCheckpoint(w) \/ FinishRun(w)
  \/ \E r \in Record : Ingest(w, r)

Report(w) ==
  \/ CompleteJob(w) \/ ContinueJob(w)
  \/ \E outcome \in {"policy_hold", "blocked"} : BlockJob(w, outcome)
  \/ \E retryable \in BOOLEAN : FailJob(w, retryable)
  \/ Throw(w) \/ Abandon(w)

Execute(w) == MarkJobRunning(w) \/ Load(w) \/ Crawl(w) \/ Persist(w) \/ Report(w)

Review == (\E u \in Url : ReviewPolicy(u)) \/ ResumePolicyHold

Next ==
  \/ \E w \in Worker : Claim(w) \/ Execute(w) \/ Crash(w)
  \/ LeaseRunsOut \/ RunEnds \/ Review

Spec == Init /\ [][Next]_vars

(* Executions end, an unrenewable lease runs out and idle slots poll; that *)
(* a run expires, or that anything succeeds, is not assumed.               *)
Fairness ==
  /\ WF_vars((\A w \in Worker : pc[w] = "idle" \/ ~Live(w)) /\ LeaseRunsOut)
  /\ \A w \in Worker : WF_vars(Claim(w)) /\ WF_vars(Execute(w))

FairSpec == Spec /\ Fairness

----------------------------------------------------------------------------
TypeOK ==
  /\ site \in Sites /\ permitted \subseteq Url /\ ended \in BOOLEAN
  /\ jobStatus \in JobStatus /\ attemptCount \in 0..MaxAttempts
  /\ claimToken \in Worker \cup {NoWorker} /\ leased \in BOOLEAN
  /\ charged \in 0..TargetPages /\ clean \in BOOLEAN
  /\ runStatus \in RunStatus /\ pageStatus \in [Url -> PageStatus]
  /\ ingested \subseteq Record
  /\ checkpoint \in Walk /\ frontier \in Seq(Task)
  /\ pc \in [Worker -> {"idle", "claimed", "loading", "walking", "closing", "writing",
                        "ingesting", "finishing", "reporting", "failing"}]
  /\ queue \in [Worker -> Seq(Task)]
  /\ walk \in [Worker -> Walk] /\ exec \in [Worker -> Exec]
  /\ gaveUp \in BOOLEAN

(* Whatever crashes, expires or races, the saved checkpoint never runs     *)
(* ahead of the output: a person it would keep a later lease from          *)
(* harvesting again has been ingested (or counted as unmatched), and a     *)
(* page it would keep from being fetched again has its page row.           *)
NothingStranded ==
  /\ checkpoint.keys \subseteq ingested \cup Unmatched
  /\ \A u \in Url : u \in checkpoint.visited => pageStatus[u] # "none"

(* The pages website s offers to a walk within the depth limit: a page     *)
(* within the limits leads to those it links.                              *)
Within(s, t) == t.depth <= MaxDepth /\ s.address[t.url] \notin Skippable
LinksOf(s, t) ==
  {[url |-> s.profiles[t.url][i], kind |-> "profile", depth |-> t.depth + 1] :
     i \in 1..Len(s.profiles[t.url])}
  \cup IF t.kind = "profile" THEN {}
       ELSE {[url |-> s.pager[t.url][i], kind |-> "listing", depth |-> t.depth] :
               i \in 1..Len(s.pager[t.url])}
Grown(s, ts) == ts \cup UNION {LinksOf(s, t) : t \in {t \in ts : Within(s, t)}}
Reach(s) ==
  LET reach[n \in Nat] == IF n = 0 THEN {SeedTask} ELSE Grown(s, reach[n - 1])
  IN  reach
Offered(s) == {t \in Reach(s)[Cardinality(Url)] : Within(s, t)}

(* No address is offered twice: as a profile and as a listing, at two      *)
(* depths, or with two bodies posted to it.  And pages with the same body  *)
(* publish the same, at the same depth.  Of pages that look the same to    *)
(* the guards the walk takes the first and passes over the others.         *)
Alike(s, t, u) ==
  /\ t.kind = u.kind /\ t.depth = u.depth
  /\ s.people[t.url] = s.people[u.url]
  /\ s.profiles[t.url] = s.profiles[u.url] /\ s.pager[t.url] = s.pager[u.url]
Regular(s) ==
  \A t, u \in Offered(s) :
    /\ s.address[t.url] = s.address[u.url] => t = u
    /\ s.content[t.url] = s.content[u.url] => Alike(s, t, u)

(* A job closed as completed without a detail collected the whole website: *)
(* however many slices, retries and lost leases it took, every page the    *)
(* site offers has its row and everybody on it was ingested.  The stops    *)
(* that give a pager up on purpose are the exception.                      *)
CleanMeansWhole ==
  jobStatus = "completed" /\ clean /\ ~gaveUp /\ Regular(site) =>
    \A t \in Offered(site) : /\ pageStatus[site.address[t.url]] # "none"
                             /\ site.people[t.url] \subseteq ingested

(* Every crawl comes to rest, whatever the site, its pagers and the        *)
(* workers do, unless a resumed hold has no attempt left to claim it with. *)
AtRest ==
  \/ jobStatus \notin {"queued", "active"}
  \/ jobStatus = "queued" /\ attemptCount = MaxAttempts
CrawlEnds == []<>AtRest
=============================================================================
