-------------------------- MODULE CollectionQueue --------------------------
(***************************************************************************)
(* The durable collection queue: projects release approved batches, a      *)
(* batch holds one job per (target, kind), and worker slots lease jobs.    *)
(*                                                                         *)
(* Every action is one database transaction of                             *)
(* packages/database/src/repositories/collection-projects.ts, or one step  *)
(* of the worker loop in services/crawler-worker/src/collection-worker.ts. *)
(* Three transactions act on what an earlier statement of theirs read      *)
(* without locking the batch: a claim, blockJob and resumePolicyHolds.     *)
(* Each is a step that reads and locks, the steps between, and a commit,   *)
(* at which its writes appear.  Until then the rows it wrote are locked:   *)
(* another transaction that would write them waits, and none sees them.    *)
(*                                                                         *)
(* Abstractions.  Time is the order of events: a lease is "valid" until    *)
(* LeaseRunsOut, a run is unexpired until RunExpires.  A claim token is    *)
(* the worker slot that drew it, since a slot runs one job at a time and   *)
(* forgets its token before the next claim.  priority and created_at only  *)
(* order the candidates of a claim, so any candidate may come first.       *)
(***************************************************************************)
EXTENDS Integers, FiniteSets

CONSTANTS Project, Batch, Target, Org, Domain, Worker,
          ProjectOf,    \* the project that may create each batch
          DomainOf,     \* registrable domain of each target's url
          PublishedBy,  \* organizations whose published website is this url
          PageLimit, ErrorLimit, TargetPages, MaxAttempts,
          NoJob, NoWorker

ASSUME StructureAssumption ==
  /\ ProjectOf \in [Batch -> Project]
  /\ DomainOf \in [Target -> Domain]
  /\ PublishedBy \in [Target -> SUBSET Org]
ASSUME LimitAssumption ==
  /\ PageLimit \in Nat \ {0} /\ ErrorLimit \in Nat \ {0}
  /\ TargetPages \in Nat \ {0} /\ MaxAttempts \in Nat \ {0}

Kind == {"discovery", "crawl"}
Job == Batch \X Target \X Kind
BatchOf(j) == j[1]
TargetOf(j) == j[2]
KindOf(j) == j[3]
DomainKey(j) == DomainOf[TargetOf(j)]
Owner(j) == ProjectOf[BatchOf(j)]

ASSUME NullAssumption == NoJob \notin Job /\ NoWorker \notin Worker

ProjectStatus == {"draft", "active", "paused", "completed", "cancelled"}
BatchStatus == {"none", "queued", "running", "completed", "completed_with_errors", "cancelled"}
JobStatus == {"none", "queued", "claimed", "running", "completed", "failed",
              "policy_hold", "cancelled"}
TargetStatus == {"pending", "discovering", "ready", "crawling", "crawled",
                 "failed", "blocked", "policy_hold"}

Active == {"claimed", "running"}
Open == Active \cup {"queued"}
Live == {"queued", "running"}

VARIABLES
  projectStatus, roster,                              \* collection_projects
  batchStatus, collectDiscovered, expired, scope,     \* collection_batches
  batchPages, batchErrors,
  jobStatus, attemptCount, claimToken, lease,         \* collection_jobs
  jobPages, flawed,
  targetType, targetStatus,                           \* crawl_targets
  owner, links,                                       \* the first and every organization
  permitted,                                          \* source_policies
  pc, held,                                           \* the worker slots
  found,      \* batches the transaction of a slot counted without an open job
  claim,      \* what the claim in flight wrote, and the batches it may select from
  resuming,   \* the holds each project's resume in flight has locked
  overtaken   \* batches resumed while a count of none was still to be used

projectVars == <<projectStatus, roster>>
batchVars == <<batchStatus, collectDiscovered, expired, scope, batchPages, batchErrors>>
jobVars == <<jobStatus, attemptCount, claimToken, lease, jobPages, flawed>>
targetVars == <<targetType, targetStatus, owner, links>>
workerVars == <<pc, held, found>>
txVars == <<claim, resuming, overtaken>>
vars == <<projectVars, batchVars, jobVars, targetVars, permitted, workerVars, txVars>>

(* A claim's transaction: the status it wrote to each job ("none" where it *)
(* wrote none), the batches its sweep ended, and those left to its select. *)
NoClaim == [jobs |-> [j \in Job |-> "none"], ended |-> {}, reach |-> {}]

(* Targets may predate every project: jurisdiction imports seed directories *)
(* and migration 0020 linked each earlier target to its organization.      *)
InitTargets ==
  /\ owner \in [Target -> {{}} \cup {{o} : o \in Org}]
  /\ links = owner
  /\ targetType = [t \in Target |-> IF owner[t] = {} THEN "absent" ELSE "directory"]
  /\ \E status \in {"pending", "crawled"} :
       targetStatus = [t \in Target |-> IF owner[t] = {} THEN "pending" ELSE status]

Init ==
  /\ projectStatus = [p \in Project |-> "draft"]
  /\ roster \in [Project -> SUBSET Org]
  /\ batchStatus = [b \in Batch |-> "none"]
  /\ collectDiscovered = [b \in Batch |-> FALSE]
  /\ expired = [b \in Batch |-> FALSE]
  /\ scope = [b \in Batch |-> {}]
  /\ batchPages = [b \in Batch |-> 0]
  /\ batchErrors = [b \in Batch |-> 0]
  /\ jobStatus = [j \in Job |-> "none"]
  /\ attemptCount = [j \in Job |-> 0]
  /\ claimToken = [j \in Job |-> NoWorker]
  /\ lease = [j \in Job |-> "none"]
  /\ jobPages = [j \in Job |-> 0]
  /\ flawed = {}
  /\ InitTargets
  /\ permitted \in SUBSET Target
  /\ pc = [w \in Worker |-> "idle"]
  /\ held = [w \in Worker |-> NoJob]
  /\ found = [w \in Worker |-> {}]
  /\ claim = NoClaim
  /\ resuming = [p \in Project |-> {}]
  /\ overtaken = {}

----------------------------------------------------------------------------
(* Shared conditions and the helpers every closing transaction runs.       *)
(*                                                                         *)
(* An operator named Slip... is not part of the model.  It states a        *)
(* plausible mistake in the operator after it; put in that operator's      *)
(* place, it breaks the property that guards against the mistake.          *)

SlipTripped(b, pages, errors) == pages[b] >= PageLimit \/ errors[b] > ErrorLimit
Tripped(b, pages, errors) == pages[b] >= PageLimit \/ errors[b] >= ErrorLimit
WithinLimits(b) == ~Tripped(b, batchPages, batchErrors)

SlipAuthorized(b) == ~expired[b]
Authorized(b) ==
  projectStatus[ProjectOf[b]] = "active" /\ batchStatus[b] \in Live /\ ~expired[b]

SlipOwns(w, j) == claimToken[j] = w
Owns(w, j) == claimToken[j] = w /\ jobStatus[j] \in Active
OwnsLease(w, j) == Owns(w, j) /\ lease[j] = "valid"

Busy(t, js) == \E k \in Job : TargetOf(k) = t /\ js[k] \in Open

(* enqueueDiscovered: the crawl jobs a finished job of target t releases,  *)
(* once per target and batch and only for the run's organizations.         *)
SlipInScope(b, t, u) == links[u] \cap links[t] # {}
InScope(b, t, u) == links[u] \cap links[t] \cap scope[b] # {}

Discovered(b, t, js, ts) ==
  IF collectDiscovered[b] /\ ~expired[b] /\ batchStatus[b] \in Live
  THEN {j \in Job : /\ BatchOf(j) = b /\ KindOf(j) = "crawl" /\ js[j] = "none"
                    /\ targetType[TargetOf(j)] = "directory"
                    /\ ts[TargetOf(j)] \in {"ready", "crawled"}
                    /\ InScope(b, t, TargetOf(j))
                    /\ \A k \in Job : TargetOf(k) = TargetOf(j) => js[k] \notin Active}
  ELSE {}

EnqueueDiscovered(b, t, js, ts) ==
  LET new == Discovered(b, t, js, ts)
  IN  [j \in Job |-> IF j \in new THEN "queued" ELSE js[j]]

(* enforceBatchLimits: a tripped page or error breaker cancels the queue.  *)
EnforceBatchLimits(b, js, pages, errors) ==
  [j \in Job |-> IF BatchOf(j) = b /\ js[j] = "queued" /\ Tripped(b, pages, errors)
                 THEN "cancelled" ELSE js[j]]

(* finishBatchIfSettled, for each batch of bs: closes a live batch that    *)
(* has no open job left, and records whether anything in it went wrong.    *)
SlipNothingOpen(b, js) == \A j \in Job : BatchOf(j) = b => js[j] \notin Active
NothingOpen(b, js) == \A j \in Job : BatchOf(j) = b => js[j] \notin Open

SlipTroubled(b, js, errors, detail) ==
  errors[b] > 0 \/ \E j \in Job : BatchOf(j) = b /\ js[j] \in {"failed", "policy_hold"}
Troubled(b, js, errors, detail) ==
  \/ errors[b] > 0
  \/ \E j \in Job : /\ BatchOf(j) = b
                    /\ js[j] \in {"failed", "policy_hold", "cancelled"} \/ j \in detail

FinishIfSettled(bs, status, js, errors, detail) ==
  [b \in Batch |->
     IF b \in bs /\ status[b] \in Live /\ NothingOpen(b, js)
     THEN IF Troubled(b, js, errors, detail) THEN "completed_with_errors" ELSE "completed"
     ELSE status[b]]

(* The common tail of completeJob and failJob.                             *)
CloseOut(j, js, ts) ==
  LET b == BatchOf(j)
      enqueued == EnqueueDiscovered(b, TargetOf(j), js, ts)
      limited == EnforceBatchLimits(b, enqueued, batchPages', batchErrors')
  IN  /\ jobStatus' = limited
      /\ targetStatus' = ts
      /\ batchStatus' = FinishIfSettled({b}, batchStatus, limited, batchErrors', flawed')

(* What a transaction settles of the batches it counted: each holds a job  *)
(* it has just held or failed, so none ends cleanly.                       *)
Settle(bs) ==
  [b \in Batch |-> IF b \in bs /\ batchStatus[b] \in Live
                   THEN "completed_with_errors" ELSE batchStatus[b]]
Counted(b, js) == IF NothingOpen(b, js) THEN {b} ELSE {}

Release(w) ==
  /\ pc' = [pc EXCEPT ![w] = "idle"]
  /\ held' = [held EXCEPT ![w] = NoJob]
  /\ found' = [found EXCEPT ![w] = {}]

ClearClaim(j) ==
  /\ claimToken' = [claimToken EXCEPT ![j] = NoWorker]
  /\ lease' = [lease EXCEPT ![j] = "none"]

(* Row locks.  A slot whose blockJob is in flight has the outcome as pc.   *)
Blocking == {"policy_hold", "blocked"}
LockedJobs ==
  {j \in Job : \/ claim.jobs[j] # "none"
               \/ \E p \in Project : j \in resuming[p]
               \/ \E w \in Worker : pc[w] \in Blocking /\ held[w] = j}
LocksRespected ==
  /\ \A j \in LockedJobs : jobStatus'[j] = jobStatus[j]
  /\ \A b \in claim.ended : batchStatus'[b] = batchStatus[b]

----------------------------------------------------------------------------
(* The operator's console.                                                 *)

RefreshOrganizations(p) ==
  /\ \E new \in SUBSET Org : roster' = [roster EXCEPT ![p] = @ \cup new]
  /\ UNCHANGED <<projectStatus, batchVars, jobVars, targetVars, permitted, workerVars, txVars>>

(* Of the organizations that publish a new url, one becomes its owner.     *)
GenerateDiscoveryTargets(p) ==
  LET publishers == [t \in Target |-> PublishedBy[t] \cap roster[p]]
      new == {t \in Target : targetType[t] = "absent" /\ publishers[t] # {}}
  IN  /\ targetType' = [t \in Target |-> IF t \in new THEN "site" ELSE targetType[t]]
      /\ \E first \in [new -> Org] :
           /\ \A t \in new : first[t] \in publishers[t]
           /\ owner' = [t \in Target |-> IF t \in new THEN {first[t]} ELSE owner[t]]
      /\ links' = [t \in Target |-> links[t] \cup publishers[t]]
      /\ UNCHANGED <<projectVars, batchVars, jobVars, targetStatus, permitted, workerVars, txVars>>

NewBatch(b, js) ==
  /\ batchStatus[b] = "none"
  /\ projectStatus[ProjectOf[b]] \notin {"completed", "cancelled"}
  /\ js # {}
  /\ batchStatus' = [batchStatus EXCEPT ![b] = "queued"]
  /\ jobStatus' = [j \in Job |-> IF j \in js THEN "queued" ELSE jobStatus[j]]
  /\ projectStatus' = [projectStatus EXCEPT ![ProjectOf[b]] = "active"]
  /\ UNCHANGED <<roster, expired, batchPages, batchErrors, attemptCount, claimToken, lease,
                 jobPages, flawed, targetVars, permitted, workerVars, txVars>>

(* One finite run over everything the frozen roster publishes.             *)
CreateApprovedRun(b) ==
  LET frozen == roster[ProjectOf[b]]
      js == {j \in Job : /\ BatchOf(j) = b
                         /\ targetType[TargetOf(j)] # "absent"
                         /\ KindOf(j) = "discovery" <=> targetType[TargetOf(j)] = "site"
                         /\ links[TargetOf(j)] \cap frozen # {}
                         /\ targetStatus[TargetOf(j)] # "blocked"
                         /\ ~Busy(TargetOf(j), jobStatus)}
  IN  /\ NewBatch(b, js)
      /\ collectDiscovered' = [collectDiscovered EXCEPT ![b] = TRUE]
      /\ scope' = [scope EXCEPT ![b] = frozen]

(* A legacy diagnostic batch: the operator's limit takes any prefix.       *)
CreateApprovedBatch(b) ==
  \E kind \in Kind :
    LET ready == {j \in Job :
          /\ BatchOf(j) = b /\ KindOf(j) = kind
          /\ owner[TargetOf(j)] \cap roster[ProjectOf[b]] # {}
          /\ \/ /\ kind = "discovery" /\ targetType[TargetOf(j)] = "site"
                /\ targetStatus[TargetOf(j)] \in {"pending", "failed", "policy_hold"}
             \/ /\ kind = "crawl" /\ targetType[TargetOf(j)] = "directory"
                /\ targetStatus[TargetOf(j)] \in {"ready", "failed", "policy_hold"}
          /\ ~Busy(TargetOf(j), jobStatus)}
    IN  /\ \E js \in SUBSET ready : NewBatch(b, js)
        /\ UNCHANGED <<collectDiscovered, scope>>

SetStatus(p, status) ==
  /\ projectStatus[p] \notin {"completed", "cancelled"}
  /\ projectStatus' = [projectStatus EXCEPT ![p] = status]
  /\ jobStatus' = [j \in Job |->
       IF status = "cancelled" /\ Owner(j) = p /\ jobStatus[j] \in {"queued", "claimed"}
       THEN "cancelled" ELSE jobStatus[j]]
  /\ batchStatus' = [b \in Batch |->
       IF status = "cancelled" /\ ProjectOf[b] = p /\ batchStatus[b] \in Live
       THEN "cancelled" ELSE batchStatus[b]]
  /\ LocksRespected
  /\ UNCHANGED <<roster, collectDiscovered, expired, scope, batchPages, batchErrors,
                 attemptCount, claimToken, lease, jobPages, flawed, targetVars, permitted,
                 workerVars, txVars>>

(* A person records a source decision, in either direction.                *)
ReviewPolicy(t) ==
  /\ permitted' = IF t \in permitted THEN permitted \ {t} ELSE permitted \cup {t}
  /\ UNCHANGED <<projectVars, batchVars, jobVars, targetVars, workerVars, txVars>>

(* Resuming a hold reopens its batch, settled or not.                      *)
SlipReopened(js) == batchStatus
Reopened(js) ==
  [b \in Batch |-> IF \E j \in js : BatchOf(j) = b THEN "queued" ELSE batchStatus[b]]

(* resumePolicyHolds locks the holds it selects; the registry it decides   *)
(* by is read with them.                                                   *)
ResumePolicyHolds(p) ==
  LET js == {j \in Job : /\ Owner(j) = p /\ jobStatus[j] = "policy_hold"
                         /\ collectDiscovered[BatchOf(j)] /\ ~expired[BatchOf(j)]
                         /\ batchStatus[BatchOf(j)] # "cancelled"
                         /\ WithinLimits(BatchOf(j))
                         /\ TargetOf(j) \in permitted}
  IN  /\ js # {} /\ resuming[p] = {}
      /\ resuming' = [resuming EXCEPT ![p] = js]
      /\ UNCHANGED <<projectVars, batchVars, jobVars, targetVars, permitted, workerVars,
                     claim, overtaken>>

(* It queues them and then their batches, whatever became of those since   *)
(* the select, once no sweep in flight holds a batch of them.              *)
ResumeCommit(p) ==
  LET bs == {BatchOf(j) : j \in resuming[p]}
  IN  /\ resuming[p] # {} /\ bs \cap claim.ended = {}
      /\ jobStatus' = [j \in Job |-> IF j \in resuming[p] THEN "queued" ELSE jobStatus[j]]
      /\ batchStatus' = Reopened(resuming[p])
      /\ overtaken' = overtaken \cup (bs \cap UNION {found[w] : w \in Worker})
      /\ resuming' = [resuming EXCEPT ![p] = {}]
      /\ UNCHANGED <<projectVars, collectDiscovered, expired, scope, batchPages, batchErrors,
                     attemptCount, claimToken, lease, jobPages, flawed, targetVars,
                     permitted, workerVars, claim>>

(* The connection is lost before the commit.                               *)
ResumeAbort(p) ==
  /\ resuming[p] # {}
  /\ resuming' = [resuming EXCEPT ![p] = {}]
  /\ UNCHANGED <<projectVars, batchVars, jobVars, targetVars, permitted, workerVars,
                 claim, overtaken>>

----------------------------------------------------------------------------
(* Time.                                                                   *)

(* renewLease keeps a valid lease valid; it succeeds only while the owner  *)
(* is alive and its project, batch and run still authorize the work.       *)
Renewable(j) ==
  Authorized(BatchOf(j)) /\ \E w \in Worker : held[w] = j /\ OwnsLease(w, j)

LeaseRunsOut(j) ==
  /\ jobStatus[j] \in Active /\ lease[j] = "valid"
  /\ lease' = [lease EXCEPT ![j] = "expired"]
  /\ UNCHANGED <<projectVars, batchVars, jobStatus, attemptCount, claimToken, jobPages,
                 flawed, targetVars, permitted, workerVars, txVars>>

(* Only a run has an expiry; a legacy batch has expires_at null.           *)
RunExpires(b) ==
  /\ collectDiscovered[b] /\ ~expired[b]
  /\ expired' = [expired EXCEPT ![b] = TRUE]
  /\ UNCHANGED <<projectVars, batchStatus, collectDiscovered, scope, batchPages, batchErrors,
                 jobVars, targetVars, permitted, workerVars, txVars>>

----------------------------------------------------------------------------
(* claimNextJob: one transaction under the global claim lock.  It sweeps   *)
(* expired leases and runs, holds one after the other the candidates whose *)
(* source policy refuses them, and leases the first it may collect.        *)

(* recoverExpiredLeases.                                                   *)
SlipLeaseExpired(j) == jobStatus[j] \in Active
LeaseExpired(j) == jobStatus[j] \in Active /\ lease[j] = "expired"
Recovered ==
  [j \in Job |-> IF LeaseExpired(j)
                 THEN IF attemptCount[j] < MaxAttempts THEN "queued" ELSE "failed"
                 ELSE jobStatus[j]]

SlipSweptJobs == Recovered
SlipSweptHolds ==
  [j \in Job |-> IF expired[BatchOf(j)] /\ Recovered[j] \in {"queued", "policy_hold"}
                 THEN "cancelled" ELSE Recovered[j]]
SweptJobs ==
  [j \in Job |-> IF expired[BatchOf(j)] /\ Recovered[j] = "queued"
                 THEN "cancelled" ELSE Recovered[j]]

Sweep(bs) ==
  [jobs |-> [j \in Job |-> IF SweptJobs[j] = jobStatus[j] THEN "none" ELSE SweptJobs[j]],
   ended |-> {b \in Batch : /\ expired[b] /\ batchStatus[b] \in Live
                            /\ \A j \in Job : BatchOf(j) = b => Recovered[j] \notin Active},
   reach |-> {b \in bs : ~expired[b]}]

(* The transaction slot w is in, or one it may begin for the batches bs:   *)
(* the claim lock admits one claim at a time, and its sweep waits for a    *)
(* blockJob whose lease has run out.                                       *)
HasClaimLock(v) == pc[v] = "claiming"
Transactions(w, bs) ==
  {x \in {claim} : pc[w] = "claiming"}
    \cup {x \in {Sweep(bs)} : /\ pc[w] = "idle" /\ \A v \in Worker : ~HasClaimLock(v)
                             /\ \A j \in LockedJobs : x.jobs[j] = "none"}

(* The job statuses as transaction x reads them.                           *)
Read(x) == [j \in Job |-> IF x.jobs[j] = "none" THEN jobStatus[j] ELSE x.jobs[j]]

SlipDomainFree(x, j) ==
  \A k \in Job : DomainKey(k) = DomainKey(j) => Read(x)[k] # "running"
DomainFree(x, j) ==
  \A k \in Job : DomainKey(k) = DomainKey(j) => Read(x)[k] \notin Active

(* The jobs its next select may return, each once.                         *)
Candidates(x) ==
  {j \in Job : /\ BatchOf(j) \in x.reach /\ Read(x)[j] = "queued"
               /\ projectStatus[Owner(j)] = "active"
               /\ batchStatus[BatchOf(j)] \in Live /\ WithinLimits(BatchOf(j))
               /\ DomainFree(x, j)}
Refused(x) == {j \in Candidates(x) : TargetOf(j) \notin permitted}

(* Holding a refused candidate counts the open jobs of its batch; a batch  *)
(* the claim settles is out of its reach.                                  *)
Hold(w, bs, j) ==
  \E x \in Transactions(w, bs) :
    LET counted == Counted(BatchOf(j), [Read(x) EXCEPT ![j] = "policy_hold"])
    IN  /\ j \in Refused(x)
        /\ claim' = [x EXCEPT !.jobs = [@ EXCEPT ![j] = "policy_hold"], !.reach = @ \ counted]
        /\ found' = [found EXCEPT ![w] = @ \cup counted]
        /\ pc' = [pc EXCEPT ![w] = "claiming"]
        /\ UNCHANGED <<projectVars, batchVars, jobVars, targetVars, permitted, held,
                       resuming, overtaken>>

(* What its commit writes, the job it may lease aside.                     *)
SweptRow(x, j) == jobStatus[j] \in Active /\ x.jobs[j] # "none"
TokensLeft(x) == [j \in Job |-> IF SweptRow(x, j) THEN NoWorker ELSE claimToken[j]]
LeasesLeft(x) == [j \in Job |-> IF SweptRow(x, j) THEN "none" ELSE lease[j]]
TargetsHeld(x) ==
  [t \in Target |-> IF \E j \in Job : TargetOf(j) = t /\ x.jobs[j] = "policy_hold"
                    THEN "policy_hold" ELSE targetStatus[t]]

(* No candidate is left: the worker gets null.                             *)
ClaimNothing(w, bs) ==
  /\ \E x \in Transactions(w, bs) :
       /\ Candidates(x) = {}
       /\ jobStatus' = Read(x)
       /\ batchStatus' = Settle(x.ended \cup found[w])
       /\ targetStatus' = TargetsHeld(x)
       /\ claimToken' = TokensLeft(x) /\ lease' = LeasesLeft(x)
  /\ claim' = NoClaim
  /\ Release(w)
  /\ UNCHANGED <<projectVars, collectDiscovered, expired, scope, batchPages, batchErrors,
                 attemptCount, jobPages, flawed, targetType, owner, links, permitted,
                 resuming, overtaken>>

(* The check collection_jobs_attempts_valid aborts the whole transaction   *)
(* when the job it would lease has no attempt left.                        *)
AttemptsValid(c) == attemptCount[c] < MaxAttempts

(* Worker w leases job c.                                                  *)
Grant(w, x, c) ==
  /\ AttemptsValid(c)
  /\ jobStatus' = [Read(x) EXCEPT ![c] = "claimed"]
  /\ batchStatus' = [Settle(x.ended \cup found[w]) EXCEPT ![BatchOf(c)] = "running"]
  /\ targetStatus' = [TargetsHeld(x) EXCEPT ![TargetOf(c)] =
       IF KindOf(c) = "discovery" THEN "discovering" ELSE "crawling"]
  /\ attemptCount' = [attemptCount EXCEPT ![c] = @ + 1]
  /\ claimToken' = [TokensLeft(x) EXCEPT ![c] = w]
  /\ lease' = [LeasesLeft(x) EXCEPT ![c] = "valid"]
  /\ held' = [held EXCEPT ![w] = c]

ClaimJob(w, bs) ==
  /\ \E x \in Transactions(w, bs) : \E c \in Candidates(x) \ Refused(x) : Grant(w, x, c)
  /\ pc' = [pc EXCEPT ![w] = "claimed"]
  /\ found' = [found EXCEPT ![w] = {}]
  /\ claim' = NoClaim
  /\ UNCHANGED <<projectVars, collectDiscovered, expired, scope, batchPages, batchErrors,
                 jobPages, flawed, targetType, owner, links, permitted, resuming, overtaken>>

(* A daemon claims across all batches, a named drain within one.           *)
ClaimScopes == {Batch} \cup {{b} : b \in Batch}

----------------------------------------------------------------------------
(* runNext: what the slot that holds a claim does with it.                 *)

MarkJobRunning(w) ==
  LET j == held[w] IN
  /\ pc[w] = "claimed"
  /\ OwnsLease(w, j) /\ jobStatus[j] = "claimed"
  /\ jobStatus' = [jobStatus EXCEPT ![j] = "running"]
  /\ pc' = [pc EXCEPT ![w] = "running"]
  /\ UNCHANGED <<projectVars, batchVars, attemptCount, claimToken, lease, jobPages, flawed,
                 targetVars, permitted, held, found, txVars>>

(* reserveRequest: a run charges the request before it is sent.            *)
ReserveRequest(w) ==
  LET j == held[w]
      b == BatchOf(j) IN
  /\ pc[w] = "running"
  /\ OwnsLease(w, j) /\ jobStatus[j] = "running" /\ Authorized(b)
  /\ collectDiscovered[b]
  /\ jobPages[j] < TargetPages /\ WithinLimits(b)
  /\ batchPages' = [batchPages EXCEPT ![b] = @ + 1]
  /\ jobPages' = [jobPages EXCEPT ![j] = @ + 1]
  /\ UNCHANGED <<projectVars, batchStatus, collectDiscovered, expired, scope, batchErrors,
                 jobStatus, attemptCount, claimToken, lease, flawed, targetVars, permitted,
                 workerVars, txVars>>

(* A discovery job writes the targets it finds for the organization its    *)
(* claim resolved.  Neither recordTarget nor recordBlocked looks at the    *)
(* claim or at another job's use of the target, and only recordTarget      *)
(* links the organization.                                                 *)
Discovering(w) == pc[w] = "running" /\ KindOf(held[w]) = "discovery"
ClaimedFor(j) ==
  LET inScope == links[TargetOf(j)] \cap scope[BatchOf(j)]
  IN  IF inScope = {} THEN owner[TargetOf(j)] ELSE inScope
OwnedFrom(t, o) == [owner EXCEPT ![t] = IF targetType[t] = "absent" THEN {o} ELSE @]

RecordTarget(w, t) ==
  /\ Discovering(w)
  /\ targetType' = [targetType EXCEPT ![t] = "directory"]
  /\ targetStatus' = [targetStatus EXCEPT ![t] = IF @ = "crawled" THEN @ ELSE "ready"]
  /\ \E o \in ClaimedFor(held[w]) : /\ owner' = OwnedFrom(t, o)
                                   /\ links' = [links EXCEPT ![t] = @ \cup {o}]
  /\ UNCHANGED <<projectVars, batchVars, jobVars, permitted, workerVars, txVars>>

(* A refused page; a source policy refuses only the seed itself.           *)
RecordBlocked(w, t, status) ==
  /\ Discovering(w)
  /\ status = "policy_hold" => t = TargetOf(held[w])
  /\ targetType' = [targetType EXCEPT ![t] = IF @ = "absent" THEN "site" ELSE @]
  /\ targetStatus' = [targetStatus EXCEPT ![t] = status]
  /\ \E o \in ClaimedFor(held[w]) : owner' = OwnedFrom(t, o)
  /\ UNCHANGED <<projectVars, batchVars, jobVars, links, permitted, workerVars, txVars>>

(* Pages a result may report: a run reports pages it reserved, a legacy    *)
(* job any number within its target budget.                                *)
Reported(j) == IF collectDiscovered[BatchOf(j)] THEN 0..jobPages[j] ELSE 0..TargetPages
Greatest(a, b) == IF a < b THEN b ELSE a

(* What completing a job charges its batch.                                *)
SlipCharged(b, n) == n
Charged(b, n) == IF collectDiscovered[b] THEN 0 ELSE n

CompleteJob(w) ==
  LET j == held[w]
      b == BatchOf(j) IN
  /\ pc[w] = "running" /\ OwnsLease(w, j)
  /\ \E n \in Reported(j) :
       /\ jobPages' = [jobPages EXCEPT ![j] = Greatest(@, n)]
       /\ batchPages' = [batchPages EXCEPT ![b] = @ + Charged(b, n)]
  /\ flawed' \in {flawed \ {j}, flawed \cup {j}}
  /\ batchErrors' = batchErrors
  /\ lease' = [lease EXCEPT ![j] = "none"]
  /\ CloseOut(j, [jobStatus EXCEPT ![j] = "completed"],
              [targetStatus EXCEPT ![TargetOf(j)] =
                 IF KindOf(j) = "discovery" THEN "ready" ELSE "crawled"])
  /\ LocksRespected
  /\ Release(w)
  /\ UNCHANGED <<projectVars, collectDiscovered, expired, scope, attemptCount, claimToken,
                 targetType, owner, links, permitted, txVars>>

(* A healthy checkpoint goes back to its queue and returns its attempt.    *)
ContinueJob(w) ==
  LET j == held[w] IN
  /\ pc[w] = "running" /\ OwnsLease(w, j) /\ KindOf(j) = "crawl"
  /\ \E n \in Reported(j) : jobPages' = [jobPages EXCEPT ![j] = Greatest(@, n)]
  /\ jobStatus' = [jobStatus EXCEPT ![j] = "queued"]
  /\ attemptCount' = [attemptCount EXCEPT ![j] = Greatest(@ - 1, 0)]
  /\ ClearClaim(j)
  /\ flawed' = flawed \cup {j}
  /\ targetStatus' = [targetStatus EXCEPT ![TargetOf(j)] = "ready"]
  /\ Release(w)
  /\ UNCHANGED <<projectVars, batchVars, targetType, owner, links, permitted, txVars>>

(* failJob checks the token but not the lease.  It reports a failed result *)
(* or, from the catch block, an exception; either may be retryable.        *)
FailJob(w, retryable) ==
  LET j == held[w]
      retry == retryable /\ attemptCount[j] < MaxAttempts IN
  /\ pc[w] \in {"running", "failing"} /\ Owns(w, j)
  /\ ClearClaim(j)
  /\ batchErrors' = [batchErrors EXCEPT ![BatchOf(j)] = @ + 1]
  /\ UNCHANGED <<batchPages, flawed>>
  /\ CloseOut(j, [jobStatus EXCEPT ![j] = IF retry THEN "queued" ELSE "failed"],
              [targetStatus EXCEPT ![TargetOf(j)] = IF retry THEN "ready" ELSE "failed"])
  /\ LocksRespected
  /\ Release(w)
  /\ UNCHANGED <<projectVars, collectDiscovered, expired, scope, attemptCount, jobPages,
                 targetType, owner, links, permitted, txVars>>

(* blockJob neither charges an error nor takes the batch row: what it      *)
(* counts may be out of date when it settles the batch.                    *)
BlockJob(w, outcome) ==
  LET j == held[w] IN
  /\ pc[w] = "running" /\ Owns(w, j) /\ j \notin LockedJobs
  /\ pc' = [pc EXCEPT ![w] = outcome]
  /\ found' = [found EXCEPT ![w] = Counted(BatchOf(j), [jobStatus EXCEPT ![j] = "failed"])]
  /\ UNCHANGED <<projectVars, batchVars, jobVars, targetVars, permitted, held, txVars>>

BlockCommit(w) ==
  LET j == held[w] IN
  /\ pc[w] \in Blocking
  /\ jobStatus' = [jobStatus EXCEPT ![j] =
                      IF pc[w] = "policy_hold" THEN "policy_hold" ELSE "failed"]
  /\ ClearClaim(j)
  /\ targetStatus' = [targetStatus EXCEPT ![TargetOf(j)] = pc[w]]
  /\ batchStatus' = Settle(found[w])
  /\ Release(w)
  /\ UNCHANGED <<projectVars, collectDiscovered, expired, scope, batchPages, batchErrors,
                 attemptCount, jobPages, flawed, targetType, owner, links, permitted, txVars>>

(* An exception, among them a refused queue call or a heartbeat that could *)
(* not renew, leads to the catch block.                                    *)
Throw(w) ==
  /\ pc[w] \in {"claimed", "running"} \cup Blocking
  /\ pc' = [pc EXCEPT ![w] = "failing"]
  /\ found' = [found EXCEPT ![w] = {}]
  /\ UNCHANGED <<projectVars, batchVars, jobVars, targetVars, permitted, held, txVars>>

(* The catch block logs a refused failJob and gives the job up.            *)
Abandon(w) ==
  /\ pc[w] = "failing" /\ ~Owns(w, held[w])
  /\ Release(w)
  /\ UNCHANGED <<projectVars, batchVars, jobVars, targetVars, permitted, txVars>>

(* The process dies, and with it the transaction it is in; its jobs keep   *)
(* their claims until the lease runs out.                                  *)
Crash(w) ==
  /\ pc[w] # "idle"
  /\ claim' = IF pc[w] = "claiming" THEN NoClaim ELSE claim
  /\ Release(w)
  /\ UNCHANGED <<projectVars, batchVars, jobVars, targetVars, permitted, resuming, overtaken>>

----------------------------------------------------------------------------
EndClaim(w, bs) == ClaimNothing(w, bs) \/ ClaimJob(w, bs)
Claim(w, bs) == (\E j \in Job : Hold(w, bs, j)) \/ EndClaim(w, bs)

Report(w) ==
  \/ CompleteJob(w)
  \/ ContinueJob(w)
  \/ \E retryable \in BOOLEAN : FailJob(w, retryable)
  \/ \E outcome \in {"policy_hold", "blocked"} : BlockJob(w, outcome)
  \/ BlockCommit(w)
  \/ Throw(w)
  \/ Abandon(w)

Operate ==
  \/ \E p \in Project : RefreshOrganizations(p) \/ GenerateDiscoveryTargets(p)
                        \/ ResumePolicyHolds(p) \/ ResumeCommit(p) \/ ResumeAbort(p)
  \/ \E p \in Project, s \in {"active", "paused", "completed", "cancelled"} : SetStatus(p, s)
  \/ \E b \in Batch : CreateApprovedRun(b) \/ CreateApprovedBatch(b)
  \/ \E t \in Target : ReviewPolicy(t)

Work(w) == MarkJobRunning(w) \/ ReserveRequest(w)

Discover(w) ==
  \E t \in Target : \/ RecordTarget(w, t)
                    \/ \E s \in {"policy_hold", "blocked"} : RecordBlocked(w, t, s)

Expire == (\E j \in Job : LeaseRunsOut(j)) \/ (\E b \in Batch : RunExpires(b))

Next ==
  \/ Operate
  \/ \E w \in Worker, bs \in ClaimScopes : Claim(w, bs)
  \/ \E w \in Worker : Work(w) \/ Discover(w) \/ Report(w) \/ Crash(w)
  \/ Expire

Spec == Init /\ [][Next]_vars

(* A candidate with no attempt left: the claim that selects it aborts.     *)
Exhausted(w) ==
  \E x \in Transactions(w, Batch) : \E c \in Candidates(x) : ~AttemptsValid(c)

(* What the deployment guarantees: clocks advance, a lease nobody can      *)
(* renew runs out, transactions and executions end (page budgets and       *)
(* timeouts bound them), an idle daemon slot polls again, and not every    *)
(* claim dies.  A claim is only sure to commit while no exhausted          *)
(* candidate can abort it.                                                 *)
Fairness ==
  /\ \A b \in Batch : WF_vars(RunExpires(b))
  /\ \A j \in Job : WF_vars(~Renewable(j) /\ LeaseRunsOut(j))
  /\ \A p \in Project : WF_vars(ResumeCommit(p) \/ ResumeAbort(p))
  /\ WF_vars(\E w \in Worker : ~Exhausted(w) /\ Claim(w, Batch))
  /\ SF_vars(\E w \in Worker : ~Exhausted(w) /\ EndClaim(w, Batch))
  /\ \A w \in Worker : WF_vars(MarkJobRunning(w) \/ Report(w) \/ Crash(w))

FairSpec == Spec /\ Fairness

----------------------------------------------------------------------------
TypeOK ==
  /\ projectStatus \in [Project -> ProjectStatus]
  /\ roster \in [Project -> SUBSET Org]
  /\ batchStatus \in [Batch -> BatchStatus]
  /\ collectDiscovered \in [Batch -> BOOLEAN]
  /\ expired \in [Batch -> BOOLEAN]
  /\ scope \in [Batch -> SUBSET Org]
  /\ batchPages \in [Batch -> Nat]
  /\ batchErrors \in [Batch -> Nat]
  /\ jobStatus \in [Job -> JobStatus]
  /\ attemptCount \in [Job -> 0..MaxAttempts]
  /\ claimToken \in [Job -> Worker \cup {NoWorker}]
  /\ lease \in [Job -> {"none", "valid", "expired"}]
  /\ jobPages \in [Job -> 0..TargetPages]
  /\ flawed \subseteq Job
  /\ targetType \in [Target -> {"absent", "site", "directory"}]
  /\ targetStatus \in [Target -> TargetStatus]
  /\ owner \in [Target -> SUBSET Org]
  /\ links \in [Target -> SUBSET Org]
  /\ permitted \subseteq Target
  /\ pc \in [Worker -> {"idle", "claiming", "claimed", "running", "failing"} \cup Blocking]
  /\ held \in [Worker -> Job \cup {NoJob}]
  /\ found \in [Worker -> SUBSET Batch]
  /\ claim \in [jobs : [Job -> JobStatus], ended : SUBSET Batch, reach : SUBSET Batch]
  /\ resuming \in [Project -> SUBSET Job]
  /\ overtaken \subseteq Batch

(* Whatever leases expire, workers die or projects overlap, no two jobs of *)
(* one registrable domain are ever active at once (the unique index        *)
(* collection_jobs_one_active_domain_idx never has to refuse a claim).     *)
OneActivePerDomain ==
  \A j, k \in Job : /\ jobStatus[j] \in Active /\ jobStatus[k] \in Active
                    /\ DomainKey(j) = DomainKey(k)
                    => j = k

(* An active job carries the claim the next sweep or its worker needs to   *)
(* move it on: a token and a lease (collection_jobs_claim_complete).       *)
ClaimComplete ==
  \A j \in Job : jobStatus[j] \in Active => claimToken[j] \in Worker /\ lease[j] # "none"

Settled == {"completed", "completed_with_errors"}

(* A batch is reported finished only when none of its jobs can still run,  *)
(* across completions, failures, holds, recoveries, expiry and resumption, *)
(* unless a resume was committed between the count of a hold's transaction *)
(* and its settlement.                                                     *)
SettledBatchIsDrained ==
  \A j \in Job : batchStatus[BatchOf(j)] \in Settled /\ jobStatus[j] \in Open
                  => BatchOf(j) \in overtaken

(* A batch reported as cleanly completed has no error on record and every  *)
(* job of it ended complete, none of them partial.                         *)
CleanMeansComplete ==
  \A b \in Batch : batchStatus[b] = "completed" =>
     /\ batchErrors[b] = 0
     /\ \A j \in Job : BatchOf(j) = b => /\ jobStatus[j] \in {"none", "completed"}
                                         /\ j \notin flawed

(* However many workers charge one run, its requests stay within the run's *)
(* page limit and each job's within the target budget.                     *)
RunBudget ==
  \A b \in Batch : collectDiscovered[b] => batchPages[b] <= PageLimit

(* A count summed over a finite set of jobs.                               *)
JobsOf(b) == {j \in Job : BatchOf(j) = b}
Total(count, js) ==
  LET sum[s \in SUBSET js] ==
        IF s = {} THEN 0 ELSE LET j == CHOOSE k \in s : TRUE IN count[j] + sum[s \ {j}]
  IN  sum[js]

(* Every charged page of a run belongs to exactly one of its jobs, and the *)
(* run never exceeds its page limit, however many workers reserve at once. *)
RunAccounting ==
  \A b \in Batch : collectDiscovered[b] =>
    /\ batchPages[b] <= PageLimit
    /\ batchPages[b] = Total(jobPages, JobsOf(b))

(* A slot that is not idle knows the job it claimed.                       *)
HeldWhileWorking == \A w \in Worker : pc[w] \notin {"idle", "claiming"} => held[w] \in Job

(* A batch that was never approved has no jobs and charged no pages.       *)
FreshBatchIsEmpty ==
  \A b \in Batch : batchStatus[b] = "none" =>
     /\ ~collectDiscovered[b] /\ batchPages[b] = 0
     /\ \A j \in Job : BatchOf(j) = b => jobStatus[j] = "none"

(* The error breaker trips late only by the jobs already in flight, at     *)
(* most one per registrable domain.                                        *)
ActiveJobs(b) == {j \in Job : BatchOf(j) = b /\ jobStatus[j] \in Active}
BreakerOvershoot ==
  \A b \in Batch : batchErrors[b] + Cardinality(ActiveJobs(b))
                     <= ErrorLimit - 1 + Cardinality(Domain)

(* A run only ever works for the organizations its approval froze, even    *)
(* when the roster grows and discovery links more targets.                 *)
ScopeIsFrozen ==
  \A j \in Job : /\ collectDiscovered[BatchOf(j)] /\ jobStatus[j] # "none"
                 => links[TargetOf(j)] \cap scope[BatchOf(j)] # {}

(* One claim at a time, and only transactions in flight remember counts.   *)
OneClaimAtATime ==
  /\ \A v, w \in Worker : pc[v] = "claiming" /\ pc[w] = "claiming" => v = w
  /\ (\A w \in Worker : pc[w] # "claiming") => claim = NoClaim
  /\ \A w \in Worker :
       /\ found[w] # {} => pc[w] \in Blocking \cup {"claiming"}
       /\ pc[w] \in Blocking => found[w] \subseteq {BatchOf(held[w])}
       /\ \A b \in found[w] : batchStatus[b] # "none"

(* A row that a transaction has locked stays as the transaction found it.  *)
LockedAsFound ==
  /\ \A j \in Job : claim.jobs[j] # "none" =>
       \/ LeaseExpired(j) /\ claim.jobs[j] \in {"queued", "failed", "cancelled", "policy_hold"}
       \/ jobStatus[j] = "queued" /\ claim.jobs[j] \in {"cancelled", "policy_hold"}
  /\ \A p \in Project : \A j \in resuming[p] : Owner(j) = p /\ jobStatus[j] = "policy_hold"
  /\ \A w \in Worker : pc[w] \in Blocking => Owns(w, held[w]) /\ claim.jobs[held[w]] = "none"

(* What a transaction counted stays true until it settles, unless a resume *)
(* overtakes it; what a sweep ended is locked until then.                  *)
CountsHold ==
  /\ \A b \in claim.ended : NothingOpen(b, Read(claim)) /\ batchStatus[b] # "none"
  /\ \A w \in Worker : \A b \in found[w] \ overtaken :
       NothingOpen(b, IF pc[w] \in Blocking THEN [jobStatus EXCEPT ![held[w]] = "failed"]
                      ELSE Read(claim))

(* The inductive invariant behind the safety theorems.                     *)
QueueInv ==
  /\ TypeOK
  /\ HeldWhileWorking
  /\ OneClaimAtATime
  /\ LockedAsFound
  /\ CountsHold
  /\ FreshBatchIsEmpty
  /\ OneActivePerDomain
  /\ ClaimComplete
  /\ SettledBatchIsDrained
  /\ RunBudget
  /\ ScopeIsFrozen

(* Nobody takes an active job with a valid lease from the slot holding it: *)
(* it leaves the active states by that slot's own report, or because its   *)
(* project is cancelled, or after the slot died or let go.                 *)
ValidLeaseIsKept ==
  [][\A j \in Job, w \in Worker :
       /\ OwnsLease(w, j) /\ held[w] = j
       /\ jobStatus'[j] \notin Active
       => held'[w] = NoJob \/ projectStatus'[Owner(j)] = "cancelled"]_vars

(* A job that ended never moves again: no late result, retry, recovery or  *)
(* resumption reopens it.                                                  *)
EndedJobsStay ==
  [][\A j \in Job : jobStatus[j] \in {"completed", "failed", "cancelled"}
                    => jobStatus'[j] = jobStatus[j]]_vars

(* A cancelled project stays cancelled, claims no job and charges no       *)
(* request again, whatever its workers still hold.                         *)
CancelledProjectStops ==
  [][\A p \in Project : projectStatus[p] = "cancelled" =>
       /\ projectStatus'[p] = "cancelled"
       /\ \A j \in Job : Owner(j) = p => /\ jobStatus'[j] = "claimed" => jobStatus[j] = "claimed"
                                         /\ collectDiscovered[BatchOf(j)]
                                              => batchPages'[BatchOf(j)] = batchPages[BatchOf(j)]]_vars

(* Every approved run drains: once its authorization expires it ends for   *)
(* good, with no job left that anybody could still run, even if workers    *)
(* died in it, its project was cancelled or holds were resumed.            *)
Drained(b) ==
  /\ batchStatus[b] \in Settled \cup {"cancelled"}
  /\ \A j \in Job : BatchOf(j) = b => jobStatus[j] \notin Open
RunDrains == \A b \in Batch : collectDiscovered[b] ~> [](expired[b] /\ Drained(b))

(* docs/STATEWIDE_COLLECTION.md: "A policy hold does not prevent other     *)
(* eligible domains from running."  A claim that reaches a candidate with  *)
(* no attempt left violates collection_jobs_attempts_valid and rolls back  *)
(* for every worker, so none may stand before an eligible job elsewhere.   *)
HoldsSpareOthers ==
  \A w \in Worker : \A x \in Transactions(w, Batch) : \A c, d \in Candidates(x) :
     /\ DomainKey(c) # DomainKey(d) /\ d \notin Refused(x) /\ AttemptsValid(d)
     => AttemptsValid(c)

(* The queue implements the ledger: job statuses collapse to the phases of *)
(* a piece of work and registrable domains are its lanes.                  *)
PhaseOf(status) ==
  CASE status = "none" -> "absent"
    [] status = "queued" -> "waiting"
    [] status \in Active -> "active"
    [] status = "policy_hold" -> "held"
    [] OTHER -> "done"

Ledger == INSTANCE WorkLedger WITH
            Item <- Job, LaneOf <- [j \in Job |-> DomainKey(j)],
            phase <- [j \in Job |-> PhaseOf(jobStatus[j])]
ImplementsLedger == Ledger!LedgerSpec
=============================================================================
