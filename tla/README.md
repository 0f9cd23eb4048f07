# A verification project for public-workforce-data

TLA+ models of the platform that discovers, collects and publishes public
workforce directories, checked with TLC on small instances and, where it says
so, proved with TLAPS for every instance. Paths below are relative to the
repository (`src/`); `collection-projects.ts` stands for
`packages/database/src/repositories/collection-projects.ts`.

## 1. The system

An operator defines a *project* (a scope of organizations), prepares its
roster, and approves finite *batches* of work. Workers lease *jobs* of these
batches from PostgreSQL. A *discovery* job walks an organization's website and
records directory pages as crawl targets; a *crawl* job reads a directory
through an adapter and ingests what it publishes. Published people are exported
under suppression rules and an audit trail.

| Component | State it keeps | Operations | What is hard | What makes it correct | Module |
|---|---|---|---|---|---|
| Collection queue (`collection-projects.ts`, migrations 0012, 0020) | projects, rosters, batches (status, counters, expiry, frozen organizations), jobs (status, attempts, claim token, lease), crawl targets and links | create/refresh/generate/approve, pause/cancel, resume holds, claim, renew, reserve, complete/continue/fail/block | many workers on one database, leases that expire under a live worker, crashes, cancellation under running work, shared budgets, requeues | one active job per domain; nothing ended is reopened; finished means drained; budgets exact; scope frozen; every run drains | `CollectionQueue` |
| Collection worker (`collection-worker.ts`, `cli/collection-worker.ts`) | one claimed job per slot, a heartbeat | runNext, drain, drainApprovedBatch, daemon loop | heartbeat failing while the executor runs; a late report | reports only what it owns | `CollectionQueue`, `TargetCrawl` |
| Crawl engine (`packages/core/src/crawl`, `crawl.ts`) | frontier, visited urls, content hashes, tokens, counters, checkpoints | run, guards, robots, retries | loops, budgets, resume after a crash, stops that drop pages | ends on any site; a resume loses and repeats nothing | `TargetCrawl` |
| Adapters, data boundary, deduplication (`generic-html`, `generic-json`, `data-boundary.ts`, `dedup.ts`) | none of their own; they decide what the engine's loop sees | extraction strategies, pagination, merging | the same people in several forms and on several pages; pagers of every kind against the loop guards | no address is lost, nothing beyond the boundary kept | `DirectoryPages` |
| Discovery worker (`services/discovery-worker`) | a saved frontier on the job; crawl targets and links | discover, recordTarget, recordBlocked | crashes between statements, lost leases, a registry that changes under the walk | what a saved frontier leaves out is dealt with | `DiscoveryWalk` |
| Source policies (`source-policy.ts`, `source-policies.ts`, `policy.ts`) | reviewed policies, cached robots.txt | resolve, evaluate, review, approve | specificity, ties, review during collection | default deny; decisions come whole | `SourcePolicies` |
| Operator web service (`apps/admin/src/server.ts`) | none of its own | reviews, bulk decisions, selection of records, commands | rows recorded one by one beside other operators and workers | a form's rows are its decisions | `OperatorConsole` |
| Ingestion (`pipeline.ts`, `ingestion.ts`) | documents, versions, people, assignments, emails, observations | ingestRun, recordSourceDocument, ingestPerson | no transaction per page or person, replays, concurrent workers | evidence stands, replay adds nothing, versions numbered | `Ingestion` |
| Email candidates (`services/validation-worker`) | candidates, results | generate, validate | state read, provider awaited, state written | a candidate is what the last applied answer said | `EmailCandidates` |
| Suppression, complaints, audit (`compliance.ts`, `suppression.ts`, 0008, 0011) | suppression entries, complaints, a hash chain of events | add/revoke, recordComplaint, appendAudit | retries of half-done complaints, one rule in two languages | a complaint suppresses once; the chain verifies | `Suppression`, `PeopleRelease` |
| Exports (`exports.ts`, `queries.ts`, `people-export.ts`) | export rows | stream, build | suppression added while a file is written, lost answers | opt-outs reach the file; the trail tells the truth | `PeopleRelease` |
| Organizations (`organizations.ts`, 0013) | organizations, evidence, relationships | upsert, relate | concurrent imports, cycles built by two writers | one owner per piece of evidence; no cycle | `OrganizationIdentity` |
| Spine and websites (`spine-import.ts`, `website-resolution.ts`) | staged rows, candidates | stage, canonicalize, relate, verify/reject | bulk import beside collections, restaging | imported means linked; one verified website | `OrganizationSpine` |
| Spine commands (`us-national-spine`) | artifact files, a summary | organize, import | six sources that refer to each other, row by row, killed anywhere | every row accounted for | `SpineOrganizer` |
| Accepted contacts (`texas-education`) | checkpoint, quarantine and revalidation files, contacts | replay, startup import, uncovered campuses | killed between any two awaits, organizations that change | no contact skipped | `LegacyContacts` |
| Delimited files (`jurisdiction-config/kit`) | a stream reader's state | parse a whole file, parse a stream | a quote cut in two by a chunk | chunks read as a whole | `DelimitedFiles` |
| Taxonomy and sector packs (`packages/taxonomy`, `registries.ts`, `titles.ts`) | the composed taxonomy, a cache of its scoped parts | compose, forScope, normalizeTitle | packs that define the same code, scopes, who asked first | registering a sector changes no other | `SectorPacks` |
| Migrations and seeding (`migrations.ts`, `reference-seed.ts`, `client.ts`) | applied versions, the schema, reference rows | migrate, rollback, seed | several runners with different checkouts, each killed anywhere | what is recorded is in force | `DatabaseSetup` |
| Read API, reports, observability | none that is read back | | | | not modelled |

**Interactions.** All coordination goes through the database: the worker and
the operator service call the queue's repository, each call one transaction;
the discovery worker and ingestion write the tables the queue later reads
(`crawl_targets`, `crawl_target_organizations`); source policy is read inside
the claim; the crawl engine calls back into the queue before every request
(`reserveRequest`) and at every checkpoint (`renewLease`, ingestion).

`PROJECT.json` lists every component with its sources, and, under `hazards`,
what in this code is hard to test, at the line where it bites.

## 2. Plan

All modules below are written and checked. Every safety invariant and every action property
that a passing run checks is also proved for all constants, and so are the refinements
(section 6). What could follow, in this order:

1. `TargetCrawl`: `TypeOK` in full (the proofs use the part of it they need), and with it
   that a crawl job moves as CollectionQueue says.
2. `CollectionQueue`: the statements of `completeJob`, `failJob` and `createApprovedRun`
   apart from each other, and with them the order in which these take row locks.
3. Properties of the two hazards that have none: the recovery of leases across batches, and
   the key of an observation (`PROJECT.json`, `hazards`).

The modules that are proved about use recursive functions, no RECURSIVE operators. What
the models leave out is in section 8.

## 3. The modules

**CollectionQueue** has one action per transaction of `collection-projects.ts`
and per step of `runNext`.

| State | In the code |
|---|---|
| `projectStatus`, `roster` | `collection_projects.status`, `collection_project_organizations` |
| `batchStatus`, `collectDiscovered`, `expired`, `scope`, `batchPages`, `batchErrors` | `collection_batches` with `expires_at <= now()` as a flag, `collection_batch_organizations`, `pages_processed`, `errors_encountered` |
| `jobStatus`, `attemptCount`, `claimToken`, `lease`, `jobPages`, `flawed` | `collection_jobs`; the lease is absent, valid or past its time; `flawed` are the jobs with an `outcome_detail` |
| `targetType`, `targetStatus`, `owner`, `links` | `crawl_targets` (`owner` is its `organization_id`) and `crawl_target_organizations` |
| `permitted` | the targets whose url the source policies let production collect |
| `pc`, `held` | where a worker slot stands in `runNext` and the job it claimed |
| `found`, `claim`, `resuming` | transactions in flight: the batches a slot's transaction counted without an open job, what a claim has written and may still select, the holds a resume has locked |
| `overtaken` | history: batches resumed while somebody's count of none was still to be used |

A job is identified by (batch, target, kind), which migration 0020 makes unique;
status `none` means the row does not exist.

| Action | In the code |
|---|---|
| `RefreshOrganizations`, `GenerateDiscoveryTargets` | the same names; `prepareRoster` calls both |
| `CreateApprovedRun`, `CreateApprovedBatch` | the same names; a run freezes the roster, a legacy batch takes any prefix its limit allows |
| `SetStatus`, `ReviewPolicy` | `setStatus`, a source-policy review |
| `ResumePolicyHolds`, `ResumeCommit`, `ResumeAbort` | `resumePolicyHolds`: its locking select, its commit, a lost connection |
| `Hold`, `ClaimNothing`, `ClaimJob` | `claimNextJob`: recovery of expired leases and sweep of expired runs, the holds one after the other, and the commit with a lease or without |
| `MarkJobRunning`, `ReserveRequest` | the same names |
| `RecordTarget`, `RecordBlocked` | the discovery worker's target writes |
| `CompleteJob`, `ContinueJob`, `FailJob` | the reports, each with its target update, charge, discovered jobs, limit enforcement and settlement |
| `BlockJob`, `BlockCommit` | `blockJob`: its update of the job with the count of open jobs, and its commit with the settlement |
| `Throw`, `Abandon`, `Crash` | an exception or failed heartbeat, a refused `failJob`, the death of the process |
| `LeaseRunsOut`, `RunExpires` | time |

Abstractions, each stated where it is made: a lease is valid until it runs out
and `renewLease` keeps it valid, so renewal is the absence of `LeaseRunsOut`;
a claim token is the slot that drew it; the order of candidates is arbitrary
(priority and age are data); the organization a claim resolves, and the one a
new target belongs to, is any that qualifies; the sets of pages, targets and
organizations are finite and small. A batch's `awaiting_approval`, a target's
`excluded` and `unsupported_platform` are never written by this code and are
left out.

Three transactions act on what an earlier statement of theirs read without locking the
batch: a claim and `blockJob` count the open jobs of a batch before they settle it, and
`resumePolicyHolds` writes to the batches of the holds it selected. Each of the three is a
step that reads and locks, any steps of others, and a commit at which its writes appear.
The rows it wrote until then are `LockedJobs`: nobody sees the writes, and a transaction
that would write these rows waits (`LocksRespected`). The other transactions are one step
each (section 8).

The tables start empty except `crawl_targets`: jurisdiction imports seed
directories for an organization (`texas-education`) and migration 0020 links every
earlier target to its organization, so `InitTargets` lets any target be such a
directory, never crawled or crawled.

Operators named `Slip...` are not part of the model. Each states a plausible
mistake in the operator that follows it and, put in its place, breaks the
property that guards against it; `PROJECT.json` pairs them under `mutants`.

**WorkLedger** is what the queue promises, with no batch, lease or worker in
it: an item of work is absent, waiting, active, held or done; items of a lane
are never active together; what is done stays done; what is held or active only
comes back through waiting. **CollectionQueue** instantiates it with jobs as items and
registrable domains as lanes (`ImplementsLedger`).

**MCCollectionQueue** holds the instances: names for the model values and the
restricted specifications a run explores. **CollectionQueueProofs** holds the proofs.

**TargetCrawl** looks into one crawl job of a run: what CollectionQueue leaves
between a claim and its report. Its job columns are CollectionQueue's projected to
one job (`claimed` and `running` are both `active`; the website's one domain and
the run's other jobs are left out).

| State | In the code |
|---|---|
| `site`, `permitted`, `ended` | what each url would answer and publish; the urls the source policies permit; whether the run's authorization expired |
| `jobStatus`, `attemptCount`, `claimToken`, `leased`, `charged`, `clean` | `collection_jobs`; `charged` is `pages_processed`, `clean` the absence of an `outcome_detail` |
| `runStatus`, `pageStatus`, `ingested` | `crawl_runs.status`, `crawl_pages`, the people rows |
| `checkpoint`, `frontier` | `crawl_checkpoints`: the restored guards with the summed ingestion errors (`flawed`), and `pendingTasks` |
| `pc`, `queue`, `walk`, `exec` | one slot: where `execute` and `run` stand, the task queue, the `CrawlGuards`, and the rest of the execution (page limit, policy registry, stops, errors, output not yet written) |
| `gaveUp` | history: a pager was given up by `no_progress` or by a loop |

| Action | In the code |
|---|---|
| `ClaimJob`, `ClaimNothing`, `MarkJobRunning`, `Load` | `claimNextJob`, `markJobRunning`, the head of `execute`: crawl run, checkpoint, slice limit, policy registry |
| `Halt`, `Skip`, `RefusedByPolicy`, `RefusedByRobots` | the guards of `CrawlEngine.run` before a request, in their order |
| `FetchFails`, `Challenged`, `Duplicate`, `Broken`, `ParseLast`, `Parse`, `Exhaust` | what a request and the extraction of its page may come to, retries included |
| `Confirm`, `WritePages`, `Ingest`, `SaveCheckpoint` | `ingestRun` and `saveCheckpoint`, after a page and after the walk |
| `FinishRun`, `CompleteJob`, `ContinueJob`, `BlockJob`, `FailJob` | the outcome and its report |
| `Throw`, `Abandon`, `Crash`, `LeaseRunsOut`, `RunEnds`, `ReviewPolicy`, `ResumePolicyHold` | exceptions at any call, deaths, time, the operator |

Abstractions. Urls, bodies and records are their hashes; the site does not change
while it is crawled. One iteration of the walk is one step: between a request and
the next ingestion it touches only memory, so the lease and the policy are checked
where the request is. The transactions between are single steps, and another
worker, a crash or an expiry may come between any two. All urls of an approved
website share a domain (one failure streak); `maxPagesPerDomain` is never below the
target ceiling and cannot bind before the page limit. A member of `Url` is a
destination (a url with the body posted to it), which is also its pager token; its
`address` is the url alone, which visited urls, page rows and policies go by.
Discovery tasks and the adapter's `empty` without an empty page are left out.
Budgets of the whole run are CollectionQueue's; running into one is `Throw` here.

**MCTargetCrawl** holds five websites: `Directory` (two listing pages whose next
link comes round, a profile, an excluded link), `Repeating` (a numbered pager and a
page with the first page's body), `Hostile` (refusals, challenges, robots, broken
and unreachable pages, a record that matches no organization), `Barren` (listing
pages without anybody new) and `Empty` (nobody on the first page).
**TargetCrawlProofs** proves both of its safety properties.

**DirectoryPages** reads one website: `directory` is what it publishes, `pager` the
walk with its queue, claimed tokens, known bodies and record keys, stops and
`harvest`. `ReadListing` and `MissingPage` are the iterations of `CrawlEngine.run`
that find a page or none; behind them stand `ExtractHtml` and `ExtractJson` (every
strategy, `DedupeExtractedRecords`, `ApplyDataBoundary`) and `DiscoverPaginationFrom`
and `PaginationFrom` (every kind of control, in the order the code looks for them).
A page is its entries and its controls; parsing HTML or JSON into them is left out.
`TargetCrawl` takes all of this as an arbitrary site.

In `TargetCrawl`, `SeedTask`, `Followed` and `Picked` say where the task of a url comes
from: the start, a link of a page, the head of the queue.

**SourcePolicies** is the registry (`policies`, newest first), its resolution by
score and order, evaluation, `RecordReview` and `Approve`, the boundary of a website
by registrable domain, the url exclusions and robots.txt by longest match.
**DiscoveryWalk** walks websites under it: `job` (lease, attempts, saved state),
`walk` (a process's frontier and where it stands in one iteration), `target` and
`targetLinks`. Each request, each statement of `recordTarget`, the renewal and the
write of the state are steps of their own; a process may die, or lose its lease to
another and go on, between any two. `seen` is history: what was read, and what a rule
dropped. A page's links enter the frontier one after the other (`Pushed`), as a recursive
function over them. **DiscoveryProofs** holds the proof.

**OperatorConsole** has the handlers of `server.ts` that decide sources. A bulk form
is checked against `DomainManifest` in one step (`SubmitDecisions`), then recorded and
approved row by row (`RecordDecision`, `ApproveDecision`), and resumes the held jobs
(`ResumePolicyHolds`); a failure (`FailDecisions`) leaves what was recorded. Other
operators' reviews and approvals, the workers' policy gate in its two halves
(`ReadGate`, `HoldJob`) and the selection of records come in between.

**Ingestion** runs `ingestRun`: the document, its version, then for each record the
person, assignment, emails, contact and observations, one statement a step, each
with its `on conflict` clause as its effect. `exec` is where a worker stands, the
tables are sets of records, `now` orders the fetches. **EmailCandidates** extends it
with generation (pattern detection over the published addresses included) and
validation, each statement a step. **IngestionProofs** proves what is said of both, and of
SectorPacks, DatabaseSetup and DirectoryPages.
**MCIngestion** has two contents for one url, one
or two organizations, and in one cast a staff with patterns; the set-up of the database
and the reading of packs are stages of their own beside it.

**Suppression** states the exclusion of the export query and that of the `SuppressionIndex`
as operators over the same entries. **PeopleRelease** runs the clients on top: a step is a
statement, or the part of a transaction between two locks it waits for (`SELECT ... FOR
UPDATE` on a complaint, the audit chain's lock, the revocation trigger under an update).
`Fail`, `AppendAnswerLost` and `Die` are the faults: a statement that fails, an answer lost
after the commit, a dead client whose transaction rolls back. Rows and a row's addresses are
sets: a row is known by its assignment, an address by its id and its rank among the row's;
the order of a built file is the stream's. An address has the document it was last seen in,
by which the query withholds it, and the one its row carries, which may differ. An entry
that is not yet effective is one not yet inserted, an expired one is revoked.
**PeopleReleaseProofs** holds the proofs, **MCPeopleRelease** pairs the clients.

**OrganizationIdentity** has the upsert in three steps, `BeginUpsert` (advisory locks on
every fingerprint the record could resolve by), `Resolve` (the look for owners) and
`CommitUpsert`, and the relationships with the trigger that walks up for a cycle, under its
lock. Locks, identifiers and fingerprints go by a value as it is spelled, recorded evidence
by its normalization (`Normalized`), so two spellings of one identifier hold two locks.
**OrganizationSpine** extends it with staging, the transaction of `canonicalizeReady`,
relationships and website candidates; `MaterializeRelationships` observes its edges one
after the other, as a recursive function. A verification is three steps: the lock on the
candidate (`LockCandidate`), the lock on the organization with the test that it has no
website (`LockOrganization`), and the commit (`VerifyCandidate`); two people may review at
the same time. **OrganizationProofs** proves of both modules
who owns what, and that containment is acyclic. **MCOrganizations** has four casts.

**SpineOrganizer** runs the organizer and the importer as two commands over six
sources, a row at a time, each killed at any row; the importer refuses a summary that
disagrees with the reviewed inventory. **LegacyContacts** has the command line importer
in its modes (batch, outputs, checkpoint), the startup importer of a worker and the
preparation of targets, killed between any two awaits, while the organizations change.
**LegacyContactsProofs** holds its proofs, and those of SpineOrganizer and DelimitedFiles.
**DelimitedFiles** has the whole-file and the streaming reader over six kinds of
characters. **Absence** declares the model value for an
absent column.

**SectorPacks** composes packs with the base as `registry.ts` does: `Collides` and
`Coherent` are what its constructor refuses, `Composed` is what `forScope` builds, and
`scopedCache` what it remembers; `readings` is history: what each organization's
pipeline was given (`ForScope`). `NormalizeTitle` reads a title with it. A title is a
sequence of words, a rule the word it looks for.

**DatabaseSetup** runs `migrate`, `rollback` and the set-up of an embedded database
(migrate, then seed) as processes (`runners`) with checkouts of their own. A script and
its bookkeeping row are two steps of one transaction (`RunUp`, `CommitUp`, `RunDown`,
`CommitDown`): what happened inside becomes visible with the second. `schema` is what
the scripts did, `recorded` the table `schema_migrations`, `reference` the reference
tables; `Dies` ends a process at any await. That a script waits for an open one which
makes or drops the objects it needs, and that an embedded database is opened by one
process at a time, are assumptions about PostgreSQL and PGlite. **MCDatabaseSetup** holds three
migrations, their checkouts and fifteen packs.

**MCSources** composes these: a behaviour is in one *stage*, which moves one of
organizations, contacts, official files, delimited files, discovery (`zombies`: a
process that lost its lease goes on; `reviews`: the registry changes; `shared`: two
organizations meet at one website), the console or the pages of one of 996 websites.

**Induction** has what several proofs need and the library states of operators only:
induction over the naturals as a fact about a set (`NaturalsByInduction`; `UpTo` a bound),
that a computation of n steps from a start exists as a function (`Iteration`), and that a
set of naturals has a least member (`LeastNumber`). What a recursive function computes for
every input is proved with these.

## 4. What the runs check

All runs set `CHECK_DEADLOCK FALSE`: a finished system with no approvals, files or
clients left really stops. In the queue and the crawl the only counters that grow are
bounded by the code itself (attempts, the pages of a target, the errors of a batch
through its breaker) and by the finite sets of batches and targets; elsewhere the
bounds named below cap what the environment may start. No state constraint is used.

| Run | Instance | Checks |
|---|---|---|
| `leases` | 1 run, 2 targets on 2 domains, 2 symmetric workers, limits of 2 pages and 2 errors, 2 attempts; holds resumed; the roster fixed, the second target permitted or not | `RunAccounting`: each charged page belongs to exactly one job, and the run's limit holds; `BreakerOvershoot`: errors exceed the breaker by no more than the jobs in flight; `ValidLeaseIsKept`: nobody takes a job with a valid lease from its worker; `SettledBatchIsDrained`: a finished batch has no job left to run, unless a resume overtook the settlement |
| `discovery` | 1 run, 2 targets, the first a website shared by 2 organizations of which one is on the roster at first, the second unknown or a directory an earlier collection left to the other organization; 1 worker that never dies, limits of 1 page and 2 errors | `CleanMeansComplete`, `ScopeIsFrozen`, refinement of the ledger |
| `operator` | 2 batches on 1 target, 2 symmetric workers, every operator command and policy change | `OneActivePerDomain`, `QueueInv` (the inductive invariant, types included), `EndedJobsStay`, `CancelledProjectStops` |
| `drain` | 1 run, 1 target, 2 workers, with fairness: preparation, pause and cancellation, reviews, resumption that commits or is lost, discovery writes, crashes, expiry | `RunDrains`: once approved, a run ends for good after its expiry |
| `crawl` | 5 sites of 4 urls, 2 workers, slices of 2 pages (250 in the code), 4 pages per target, depth 1, 2 failures, 2 fruitless pages, 1 retry, 2 attempts | `NothingStranded`: the checkpoint never runs ahead of the stored output; `CleanMeansWhole`: a job completed without a detail collected all the site offers; `CrawlEnds`: every crawl comes to rest |
| `release` | 6 pairs or triples of clients among 2 intakes, 3 operators, a streamed and a built export; 2 people with a shared address, pages of 1 row (2000 in the code), 4 opt-outs of different scopes, 5 deliveries | `OptOutsReachTheFile`, `ContactsAppearOnce`, `ComplaintSuppressesOnce`, `ChainVerifies`, `TrailTellsTheTruth`; `WorkEnds`: no clients wait for each other for ever |
| `ingestion` | 2 symmetric workers, a url with 2 contents fetched 2 or 3 times, 1 or 2 organizations; in the fourth cast 1 worker beside generation and validation passes of a staff of 3; as stages of their own 3 runners, 3 migrations, 7 commands, and every sequence of up to 3 of 15 packs read by 4 organizations | `EvidenceStands`, `VersionsNumbered`, `WindowsCover`, `ReplayAddsNothing`, `PublishedStays`; of candidates `StatusIsAnAnswer`, `DecisionsStand`; `SchemaIsRecorded`; `PacksDoNotInterfere` |
| `sources` | the nine stages of MCSources: 4 casts of organizations with 3 upserts (two spellings of one identifier among them), 4 relationships, 3 stagings and two reviewers of websites; 2 files of contacts in batches of 2; 5 releases of 6 sources; 2 processes on 2 websites with budgets of 3 pages and depth 2; all files of up to 5 characters in chunks of up to 3; 2 operators, 3 sources and 4 policies; 996 websites | `EvidenceHasOneOwner`, `HierarchyAcyclic`, `ImportedMeansLinked`, `OneVerifiedWebsite`, `NoContactIsSkipped`, `SpineAccountsForEveryRow`, `NothingFoundIsLost`, `ChunksReadAsWhole`, `DecisionsComeWhole`, `EveryAddressIsHarvested` |
| `holds_spare_others` | 1 worker, 2 targets, limits of 1 page and 2 errors | finds a claim that aborts for everybody (finding 1) |
| `late_area` | an operator and a streamed export | finds somebody in the file whose state opted out before it was written (finding 2) |
| `mixed_pager` | the websites of `sources` | finds a walk that ends as a loop with a page unread (finding 3) |
| `sitemap_unread` | the stages of discovery in `sources` | finds a walk that never asked for its sitemap (finding 4) |

In `crawl` the operator acts (the run expires, a policy is reviewed) on the sites
`Directory` and `Empty` only, and the reviewed url is the profile on the one and the seed on
the other. `CleanMeansWhole` has three premises. `gaveUp`: `no_progress` and a loop before
the pager's last link give up pages on purpose. `Regular`: when a url is offered both as a
profile and as a listing, at two depths, or with two bodies, the walk takes the first and
passes over the other, and with it the other's links; two pages with one body are `Alike`
when they also agree on kind, depth, people, profiles and pager. Sites where none of this
can happen are the regular ones. And `clean`: an incomplete job must say so.

Why these bounds are enough. Of the queue: the code's conditions relate a job to
itself, to one other job of its domain, target or batch, and to one counter. Two
workers and two batches (or two targets) produce every such pair; two attempts are the
schema's default and the least that allows both a retry and an exhausted job; limits of
one or two pages and errors put the counters at, below and one past their limit. What
is proved below does not depend on them. Of the rest: where statements interleave,
two clients meet in every pair of steps and a third is there where one waits for two
(`{"o1", "o2", "o3"}` in `release`); a page of one row puts every boundary between
pages inside an export of two people. An upsert looks at one owner per piece of
evidence, so two collections and the import show every pair that may disagree, and a
cycle closed by two writers needs three organizations. A checkpoint, a batch and a
frontier need one entry before, at and behind the point where the process dies. A
stream reader's state depends on the last character and on whether a field is open:
five characters reach each state and leave it at every cut. Three pages show every way
in which a page's links may lead back, on, or to a page already queued. Three runners are what
it takes for an undone script to be recorded (see the observations); three packs show a
redefinition of the base's code, of an earlier pack's, and of one that was replaced.

The bounds that cap a run are constants with an `ASSUME`: `Fetches`, `Passes`,
`Upserts`, `Relations`, `Stagings`, `Invocations`, `Commands`, `MaxClaims`,
`MaxReviews` and `MaxChanges` count what the environment may still start; nothing in
the code is cut short by them. In `sources` two restrictions beyond the stages hold:
only the stage `zombies` moves a second process, only `shared` a second organization.

**Fairness** (used by `drain`). Clocks advance, so a run's
expiry comes (`expires_at` is at most 31 days away) and a lease nobody can renew
runs out. Every execution ends: page budgets, request timeouts and bounded
retries limit it, and otherwise the process dies. A resume in flight commits or is lost,
and a claim in flight commits (it awaits nothing but the database; the other claims wait
for its lock, hence strong fairness). An idle daemon slot polls
again (`cli/collection-worker.ts`, the loop around `runNext`); that is assumed
only while no exhausted candidate can abort the claim, because the daemon's
claim is outside its `try` and the abort ends it (finding 1). Nothing is
assumed about operators, policy reviews, discovery writes or page reservations.
A lease need not run out while its owner lives and may renew it.

TargetCrawl's `Fairness` (used by `crawl`) is the same: executions end (each step of
an execution is eventually taken, by success or by `Throw`), idle slots poll, and a
lease runs out when nobody renews it. Neither the expiry of the run nor the success
of any call is assumed, so `CrawlEnds` rests on the guards, the slices and the
attempts alone. Its exception is the state of finding 1: a resumed hold with
no attempt left stays queued for ever.

`release` assumes `WF_vars(Step(c))` for each client: a client that can go on does,
unless it dies. `Trouble` (failures, lost answers, deaths) is never forced. `WorkEnds`
thus says that row locks, the audit lock and trigger locks are always released; the
code justifies it because a transaction that has its locks awaits nothing but the
database.

## 5. Findings

1. *A resumed hold can stop every worker* (`holds_spare_others`). A job refused by
   policy in its last attempt keeps `attempt_count = max_attempts`;
   `resumePolicyHolds` requeues it; the next claim that selects it violates
   `collection_jobs_attempts_valid` and rolls back, and `runNext` does not catch
   it. In the run the first attempt fails and is retried and the second ends in the hold.
   `docs/STATEWIDE_COLLECTION.md` promises that a policy hold does not
   prevent other eligible domains from running.
2. *A late opt-out of a state does not reach its counties* (`late_area`). The export
   query walks up the areas around a duty location; the re-check before the write knows
   only the location's own area. `docs/SECURITY.md` promises both the inheritance and
   that an opt-out recorded a second earlier still takes effect.
3. *A pager of numbers and next links is cut off* (`mixed_pager`). In the run the numbers of
   the first page queue the pages 2 and 3; the next link of page 2, which leads to page 3,
   then counts as a loop, and the walk ends with page 3 queued and never requested.
4. *No sitemap is ever read* (`sitemap_unread`). The frontier starts with the website's
   sitemap, the loop drops every url that names a file which is not a page, and `.xml`
   is one of these.

### Observations

The models reach these states too. No run is kept for them: either no document
promises otherwise, or the disagreement is small. The first eight contradict a line
of the documentation or a comment.

- `resumePolicyHolds` takes a batch that already finished back to queued;
  `docs/OPERATIONS.md:91-93` calls such a batch immutable audit evidence.
- A running job completes after its project was cancelled: cancellation stops queued
  and claimed jobs, `completeJob` does not look at the project
  (`docs/STATEWIDE_COLLECTION.md:133-134`).
- `saveCheckpoint`, `upsertPage` and `finishRun` look at no claim: a worker that lost
  its lease may save its older frontier after its successor finished, and the job is
  complete with pending tasks in its checkpoint (`docs/OPERATIONS.md:320-321`). Nothing
  is lost by it: `NothingStranded` and `CleanMeansWhole` hold.
- After 401, 403 or 429 the walk counts a failure and goes on with the next task
  (`docs/CRAWLING_POLICY.md:17`: left alone).
- A pager that posts a cursor to one endpoint is collected only to its first page:
  tokens know the body, visited urls do not (`docs/DIRECTORY_ADAPTERS.md:83-84`).
- Ingesting an unchanged page again after its record resolved to another organization
  throws `immutable conflict` on every attempt, after the person was written: the
  observation's key does not hold the organization (`docs/DATA_MODEL.md:240-241`).
- A bulk approval of a domain outranks, being newer, an older prohibition of the same
  score below it (`docs/STATEWIDE_COLLECTION.md:25-29`: prohibited sources cannot be
  approved through this path); so it does one recorded after the manifest was read.
- `first_seen_at` of a contact point, a document, a version and a unit stays at the fetch
  that was written first, also when an earlier one is written later (the comment
  `ingestion.ts:118-122`: it only moves earlier). `WindowsCover` asks of these rows the
  late end only.

Queue and console:

- `blockJob` and the holds of a claim count the open jobs of a batch and settle it later,
  without its row locked. A resume that commits between the two leaves a batch completed
  with errors beside the job it queued, which nobody claims until another hold of it is
  resumed (`overtaken`, the exception of `SettledBatchIsDrained`). In a run the
  expiry ends it, which `RunDrains` shows.
- Two of the last jobs of a batch blocked at the same time each count the other as open:
  the batch stays live with nothing to run, a run until it expires, a legacy batch for ever.
- A resume that selected its holds before a cancellation commits after it: a queued job and
  a reopened batch in a cancelled project, which `CancelledProjectStops` keeps from running.
- `completeJob` and `failJob` lock the batch before queued jobs, `claimNextJob` locks jobs
  before a batch it settles. PostgreSQL would end one of two that meet with a deadlock
  error; the model has their rows taken at one instant and does not show it.
- The recovery of an expired lease neither settles a legacy batch nor frees its
  target, and a job requeued into a settled or exhausted legacy batch blocks its target
  for later batches. Runs are immune through their expiry, which `RunDrains` shows.
- A hold committed after `resumePolicyHolds` read the jobs stays held although its
  source is approved; approving one policy by its own form resumes nothing.
- A bulk form that fails half way leaves a `review_required` row that masks an earlier
  approval, and holds that are not resumed.
- A record selected before it is linked never joins the roster.

Pages and discovery:

- Two controls of a page that lead to one url, one of them a next link, are a loop.
- A numbered pager whose first page has a second url with the same body ends the walk
  as duplicate content; a guessed offset steps by the current offset (0, 25, 50, 100);
  a page-like parameter hides alphabetical and department filters.
- Of a person listed again with the same fields on a later page, a second address is
  dropped; entries that share an address are one record, also when they name two people;
  so are two people of one name, title and organization on a page.
- Entries merge before the data boundary: a name the boundary refuses takes with it the
  addresses of the entries that were merged with it, also of those it would have kept.
  `EveryAddressIsHarvested` excepts these, and a record whose key, as the boundary left it,
  an earlier page has published for somebody else.
- A redirect off the site fails the whole discovery, although the loop means to pass
  over it; failures are not part of the saved state, so a resumed walk may report
  complete what it was refused before; a failed robots.txt is cached for the process's
  life.
- An older policy for a url pattern outranks a newer prohibition of the domain.

Ingestion, candidates and release:

- `ingestPerson` runs before the observations, although a comment in `pipeline.ts` says
  evidence is written first; a crash between leaves a person without any until replayed.
- A late `invalid` rejects a promoted candidate and a late `valid` promotes a rejected
  one; an answer of another kind for a promoted one violates the table's check and ends
  the pass. Two passes may send the same candidate twice; candidates without a provider
  are selected again each time.
- A complaint whose intake died between its insert and its resolution stays pending,
  and the review queue lists only those that need review.
- A lost answer of the audit append marks an export failed that the trail calls
  completed.
- The re-check knows the bodies above an employer to twelve levels (`queries.ts:43`), the
  query to any distance: a late opt-out of a more distant body misses the re-check.
- The re-check compares the preferred published address with the document of the
  assignment, not with its own: a late opt-out of a source misses it in the full format.

Organizations and imports:

- Identifiers that differ only in case share evidence and not the lock: two collections at
  the same time make two organizations, whose evidence is the same once normalized. The
  model reaches it; `EvidenceHasOneOwner` speaks of evidence as it is spelled. A weaker
  fingerprint may join two bodies of one name that a stronger one would tell apart. The
  spine may give one organization two identifiers of one system.
- A row restaged with a new version before the earlier one was made an organization, and
  two sources sharing an identifier in one batch, abort `canonicalizeReady` each time;
  two versions with one parent and date abort `materializeRelationships`.
- `upsertOrganization` may overwrite a verified website.
- The organizer leaves the previous summary beside truncated artifacts when it is
  killed; the importer's comparison with the inventory is what refuses them.
- `materializeTexasEducationAttributes` aborts for good once two versions of the state's
  file are imported.
- The key of an accepted contact omits its file: the same row at the same line of two
  files is one contact, and the startup import, which compares counts, then never
  completes (it fails closed). A school matched otherwise makes every replay abort.
- Two importers of one mode share their files without a lock; a line torn by a crash
  makes the next start refuse its own output.
- `parseCsv` and `parseCsvStream` differ on a quote inside an open field, on one that is
  never closed and on a carriage return between a quoted field and another quote;
  `ChunksReadAsWhole` compares them on well-formed files only.

Taxonomy and set-up:

- The taxonomy's version hashes scopes, rules and role codes, not abbreviations,
  seniorities, specialties or job families (`registries.ts:54-60`): a change of these is
  not visible on the titles normalized before it, although the comment above says so.
- A pack that overrides a role gives it another job family for every organization, also
  beyond its scope; `PacksDoNotInterfere` excepts just that.
- `rollback` compares no checksums. Two migrations and a rollback can leave a version on
  record whose script was undone: the second migration's script finds everything there
  and does nothing, the rollback drops it, and the second records the version. It takes a
  script that can run twice; `SchemaIsRecorded` excepts what was undone while others were
  at work.
- A lower version added later is applied before a higher one that was edited is refused.

## 6. What is proved

For every value of the constants that satisfies the assumptions named below, the proof
modules prove these properties of every behaviour (finite instances or not, unless a
finite set is asked for).

| Module | Theorems | Properties |
|---|---|---|
| `CollectionQueueProofs` | `TypeCorrect`, `QueueSafety`, `DomainExclusion`, `FinishedMeansDrained`, `FrozenScope`, `BudgetKept`, `EndedIsFinal`, `CleanEndings`, `LeaseProtectsOwner`, `CancellationIsFinal`, `BreakerBound` (finite `Domain`), `PagesAddUp` (finite `Target`); the refinement `QueueImplementsLedger` | all of CollectionQueue but `RunDrains` |
| `TargetCrawlProofs` | `OutputNeverStranded`, `CleanCrawlIsWhole` (finite `Url`) | `NothingStranded`, `CleanMeansWhole` |
| `DiscoveryProofs` | `FrontierLosesNothing`; `DecisionsAreNotSplit` | `NothingFoundIsLost`; `DecisionsComeWhole` |
| `IngestionProofs` | `NumbersHaveNoGap`, `RecordsStayProved`, `SightingsAreCovered`, `NothingIsTakenBack`, `ReplayConverges`; `CandidatesSayTheirAnswer`, `AnswersAreNotUndone`; `InferenceLeavesIngestion`, the refinement of Ingestion by EmailCandidates; `SetupsAreRecorded`, `PacksStayApart`, `NobodyIsLost` | all of Ingestion and EmailCandidates; `SchemaIsRecorded`, `PacksDoNotInterfere`, `EveryAddressIsHarvested` |
| `PeopleReleaseProofs` | `ChainIsOne`, `TrailIsTrue`, `ComplaintDecidedOnce`, `OptOutsAreKept`, `ContactsAreWrittenOnce` | all of PeopleRelease but `WorkEnds` |
| `OrganizationProofs` | `EvidenceKeepsItsOwner`, `ImportedRowsAreLinked`, `VerifiedWebsiteStands`, `ContainmentHasNoCycle` | all of OrganizationIdentity and OrganizationSpine |
| `LegacyContactsProofs` | `CheckpointsAreKept`; `ContactsAreNotSkipped` (if `ExclusionsHold`); `SpineIsAccountedFor`, `ChunksAreWhole` | `NoContactIsSkipped` and its first half without a hypothesis; `SpineAccountsForEveryRow`, `ChunksReadAsWhole` |

### The arguments

**The queue.** Most of its properties need one another. Types need `HeldWhileWorking`, since
an action reads the job its slot holds. `SettledBatchIsDrained` is kept because a job
becomes open only in a live or cancelled batch, and because what a transaction counted still
holds when it settles. That is `CountsHold`: a count of no open job stays true unless a
resume opens one, which is what `overtaken` remembers. It needs that rows locked by a
transaction are as it found them (`LockedAsFound`) and that claims exclude each other
(`OneClaimAtATime`). Most actions disturb no transaction in flight: `Undisturbed` says what
they leave alone, and `UndisturbedKeeps` proves the three from it once for all of them.
`ScopeIsFrozen` and `RunBudget` need that a batch without approval has neither jobs nor
pages. `QueueInv` is their conjunction with `ClaimComplete` and `FreshBatchIsEmpty`, and it
is inductive. The proof does not go through each conjunct for each action: `JobMove`,
`DomainMove` and `BatchMove` name what an action may do to the statuses, `NextMoves` shows
that every step is made of these moves, and `DomainKept`, `DrainedKept`, `EndedIsFinal` and
the refinement follow from the moves alone. `Settings` plays the same part for scope, budget
and fresh batches. `BreakerBound` counts: `BreakerMove` says that a step either adds no
active job, or takes one away with each error, or finds the breaker open; active jobs of a
batch are at most as many as domains because `OneActivePerDomain` maps them one to one.
`PagesAddUp` needs that batches without approval have no charged job (`UnapprovedIsFree`)
and that a step charges one job only, with the pages its run is charged (`Charges`); that a
sum over a set moves with one summand (`TotalMoves`) is proved from the recursive definition
of the sum, by induction over its size.

**A crawl.** A checkpoint is a copy of a walk in memory, so both invariants speak of every
walk, also of those that lost their claim and may still save. `CrawlInv` is about what is
stored: a record key a walk knows is ingested, unmatched or in that execution's unwritten
output, and a visited url has a page row. No claim appears in the argument: it is only the
order of the writes that keeps it. `CoverageInv` is about what is ahead: unless something
speaks against it (an error, an unmatched record, a pager given up), the seed, every token
and every link of a visited page is visited or queued (`Covers`), by a path no longer than
the number of visited pages (`Known`, which is what the depth needs); a checkpoint
`Resumes` from such a walk. A walk with nothing queued has then taken all that is offered.

**Discovery.** `WalkInv` has one predicate, `Good`, for the states saved on jobs and those
in the memory of every process: each candidate is linked, and each page it calls visited
is `Settled` (its directory is linked; its links wait, were visited, were dropped, or the
frontier was full). Tables and history only grow (`Grows`), so what is good stays good
whoever else writes (`GoodStays`); a step of one process has to be looked at for that
process only (`OneMoves`). Where the process stands between the two statements of
`recordTarget` is what the rest of the invariant remembers.

**Ingestion.** `IngestionInv` says of the tables that their keys are unique and their
rows refer to each other, of each worker what the statements behind it have written
(`WorkHolds`, `RecordDone`), and of the history that what was completed is written. Rows
are only added or widened, so what is done for one worker stays done under the statements
of the others; a number for a version is next only if its predecessor is taken, which is
what the unique index makes of a race. `CandidatesInv` says of a candidate that its status
is the result it points to, and of a result not yet applied whose it is.

**Release.** `ReleaseInv` has a part for each lock: who holds the audit lock has the last
number and read the last event (`AuditInv`); who revokes an entry does so alone
(`RevokeInv`); an event that is carried to the trail is true (`ExportInv`); who decides a
complaint has its row, and entries and receipt are there exactly when it is resolved
(`ComplaintInv`, `Told`). `FileInv` follows a line from the query to the file: it names
which entries the query knew and which the re-check knew, and the two rules together keep
out everybody an entry names (`KeepsOut`), although each alone does not. What an entry added
after the query can do is in the property itself (`Recheckable`): not one for an area or a
source, nor for a body above the levels a row carries. Findings and observations name
what such an entry misses.

**Organizations.** `IdentityInv`: a key, as it is spelled, names one organization, as
recorded evidence or as a fingerprint; an upsert holds locks on all keys it might resolve
by, so what it looked up is still so when it commits, except for the official identifier,
which the bulk import claims without a lock and whose uniqueness the database guards.
`RowsInv` and `ImportInv` carry this through staging and the two steps of an import,
`WebsiteInv` through the decisions. `ReviewInv` is about decisions under way: who verifies
holds the candidate's row and the organization's, which has no website until the commit; so
no second reviewer gets past the lock, and no import writes to the row meanwhile
(`RowFree`). `HierarchyInv`: the table has no set of organizations each of which has another
of the set above it on one day (`LoopFree`, which needs no paths), and at most one writer,
under the trigger's lock, has an edge to write that the table does not refuse. That the
trigger's bounded recursion meets everybody above (`EveryoneIsMet`) is where finiteness
comes in: a growing set of organizations met is full after as many rounds as there are.

**Contacts.** `LegacyInv` puts a line that was read in one of three places: landed, pending
in the batch, or held; batches land in order, so a checkpoint stands for all lines before
it. A starter has counted only contacts the manifest expects.

**The console.** `ConsoleInv`: the rows on record under a form are a first part of its
decisions, what it has left is the rest, and all but the newest are approved. The registry
grows at its front while others write to it, so a row is named by its distance from the end
and a form's rows are counted by place; a row another operator adds moves none of them.

**Set-up.** `SetupInv`: as long as nothing was undone since a runner began, what it read of
`schema_migrations` is still on record, and of its checkout each file is before it or on
record. As long as no undo crossed another's work (`crossed`, a history variable), schema and
record name the same versions, and the script of an open transaction either changes the
schema or finds it as it would leave it. A seeding runner has each row before it or in the
reference tables. The proof shows that the exception the property names is the only one.

**Packs.** A composition is a recursion over the packs in their order; `Iteration` says that it
exists, so that it can be followed step by step. Where each pack stands among those chosen
for a scope is a function of the same kind (`Places`), which gives that leaving out packs twice
is leaving them out at once, and with it that a pack beyond an organization's scope could be
absent. In a merged table each code has the row of the last pack that defines it, or the
base's (`MergedTo`), so of what others still define, removing a pack changes only codes it
declares to override (`Collides` refuses the rest), and of a title read beyond its scope only
the job family. `PacksInv` carries this through the cache: two scopes with one key
read the same.

**Spine files.** `OrganizerInv` says of each list of the artifact which rows it holds (`Fits`),
that what has no class has a row of work (`WorkFits`), that a source's count is the number of
its rows in the lists (`CountsFit`), and that a missing website is queued or answered once per
row, by the index of the Texas file (`SitesFit`, `IndexFits`). That this index is whole before
the first record is written, because Texas is read first (`TexasFirst`), is what makes an
answer final.

**Delimited files.** Reading in parts is reading one character at a time, wherever the cuts
are, because the only state across a cut is the reader's (`pending`: a quote whose meaning
the next character decides). `Agree` compares it with the reader of whole files, which looks
one character ahead, through the state of a well-formed file (`Expecting`).

**Pages.** `PagesInv`: while no guard has ended the walk, each claimed token waits, was read
or leads nowhere, and each link of a page that was read is claimed; the keys seen are the
keys of the harvest, and each record a page keeps is in the harvest or was first published
elsewhere. That a page's records hold each named entry's addresses is proved of the
extraction strategies one by one, and of merging record by record.

### Assumptions

Each is an `ASSUME` that TLC evaluates on the instances, and says what the code or its
tables guarantee:

- `StructureAssumption`, `LimitAssumption`, `NullAssumption` (queue): functions and positive
  limits, as the checks of migration 0012 have them.
- `SiteAssumption` (discovery): every url that is named has an answer, a missing page
  included. `PageAssumption` (ingestion): the fields of an extracted record.
- `NoneAssumption`, `CatalogueAssumption`, `RowAssumption`, `ClientAssumption` (release): an
  absent value is no status, an operator's entry is no complaint's, an assignment is one
  row and an address id one address, a client has one role.
- `RecordAssumption`, `EdgeAssumption` (`effective_from` is not null, migration 0004),
  `ExistingAssumption` (fingerprints are unique), `WebsiteAssumption`, `FileAssumption` (the
  checks of migration 0017; an import reads a finite file).
- `ManifestAssumption` (the artifact's lines are numbered), `DispositionAssumption` (contacts).
- `ConsoleAssumption`: forms are lists of decisions, and no operator is the absent value.
- `SetupAssumption`: a checkout is a list with each version once (`checkMigrations`,
  `migrations.ts:155-165`). `PacksAssumption`: the base has the roles `other` and `unknown`
  (`roles.ts:328-337`); rules and packs come in an order.
- `OrganizerAssumption`: the files are lists of rows, and a census row is of one of the five
  sheets the command reads (`cli.ts:272-278`). `FilesAssumption`: a chunk has a character.
- `PagesAssumption`: a page's entries and controls are lists, and `MaxFruitless`
  (`maxPagesWithoutNewRecords`) is positive.

`DecisionsAreNotSplit` also says where it starts (`OperatorStart`): the registry is a list of
reviewed rows and none of them is by one of the forms to come.

Four theorems have a hypothesis of their own. `IsFiniteSet` of domains, targets or urls is
true of any deployment.
`ExclusionsHold`: no state of the organization tables would accept a line the manifest
declares as excluded, which is what `legacy-contact-import.ts:25` says of them ("excluded by
production validation"). Without it the command line importer, which does not read the
exclusions, may import one; the count of keys then equals the expected one while a row is
missing, and a worker starts. `CheckpointsAreKept` does not need it.

### What stays with TLC

- `RunDrains`, `CrawlEnds`, `WorkEnds`: liveness under fairness is out of the prover's reach.
- The four violations, and the bounds of the instances: a proof says nothing about them.

## 7. Running it

    tlc -workers 2 -config MCLeases.cfg MCCollectionQueue.tla
    tlapm CollectionQueueProofs.tla

The other configurations and proof modules run the same way; `PROJECT.json` lists them.

## 8. Not modelled

- In CollectionQueue: the statements of `completeJob`, `failJob`, `setStatus` and the
  approvals apart from each other (one step each, at the commit), and so the deadlocks of
  row locks taken in different orders. A claim has one `now()`, that of its first step; a
  hold's count and the update before it are one instant; a resume reads the registry with
  its select, not one statement earlier.
- Dates of suppression entries (see `PeopleRelease`), the `reviewed_at` of a verification,
  `last_seen_at` of organizations beyond the order of names.
- `checkMigrations` and what is inside one script; pools, statement timeouts; the
  reference tables no pack adds to.
- Parsing of HTML, JSON and personal names, the regular expressions over personal data
  and titles, the rows of the taxonomy: pure text rules, covered by the repository's unit
  tests; DirectoryPages, Ingestion and SectorPacks take their results as constants.
- The directory score of a page, request pacing, transport, rendering and body limits.
- The kit's importer of rows (`importer.ts`) and the column mappings of each official
  file, jurisdictions, areas, aliases and units.
- Request parsing, sign-in and rendering of the web service, the read API, reports,
  logging and metrics: nothing there is read back by the system.
