----------------------- MODULE CollectionQueueProofs -----------------------
(***************************************************************************)
(* The safety of the collection queue for every number of projects,        *)
(* batches, targets, domains and workers and every limit.                  *)
(***************************************************************************)
EXTENDS CollectionQueue, Induction, FiniteSetTheorems, TLAPS

USE DEF ProjectStatus, BatchStatus, JobStatus, TargetStatus, Active, Open, Live, Settled

(* The parts of a job.                                                     *)
LEMMA JobParts ==
  ASSUME NEW j \in Job
  PROVE  /\ BatchOf(j) \in Batch /\ TargetOf(j) \in Target /\ KindOf(j) \in Kind
         /\ DomainKey(j) \in Domain /\ Owner(j) \in Project
BY StructureAssumption DEF Job, BatchOf, TargetOf, KindOf, DomainKey, Owner, Kind

(* finishBatchIfSettled only closes live batches, and only drained ones.   *)
LEMMA FinishFacts ==
  \A bs, errors, detail : \A status \in [Batch -> BatchStatus], js \in [Job -> JobStatus] :
    LET result == FinishIfSettled(bs, status, js, errors, detail)
    IN  /\ result \in [Batch -> BatchStatus]
        /\ \A b \in Batch : \/ result[b] = status[b]
                            \/ /\ b \in bs /\ status[b] \in Live /\ result[b] \in Settled
                               /\ \A j \in Job : BatchOf(j) = b => js[j] \notin Open
BY DEF FinishIfSettled, NothingOpen, Troubled

(* The tail of completeJob and failJob activates nothing: it may release   *)
(* an absent job and cancel a queued one, and it closes drained batches.   *)
LEMMA CloseOutFacts ==
  ASSUME TypeOK, NEW j \in Job, NEW js \in [Job -> JobStatus],
         NEW ts \in [Target -> TargetStatus], CloseOut(j, js, ts)
  PROVE  /\ jobStatus' \in [Job -> JobStatus]
         /\ targetStatus' = ts
         /\ batchStatus' \in [Batch -> BatchStatus]
         /\ \A k \in Job :
              \/ jobStatus'[k] = js[k]
              \/ js[k] = "queued" /\ jobStatus'[k] = "cancelled"
              \/ /\ js[k] = "none" /\ jobStatus'[k] \in {"queued", "cancelled"}
                 /\ k \in Discovered(BatchOf(j), TargetOf(j), js, ts)
         /\ \A b \in Batch :
              \/ batchStatus'[b] = batchStatus[b]
              \/ /\ batchStatus[b] \in Live /\ batchStatus'[b] \in Settled
                 /\ \A k \in Job : BatchOf(k) = b => jobStatus'[k] \notin Open
<1> DEFINE enqueued == EnqueueDiscovered(BatchOf(j), TargetOf(j), js, ts)
           limited == EnforceBatchLimits(BatchOf(j), enqueued, batchPages', batchErrors')
<1>1. /\ jobStatus' = limited
      /\ targetStatus' = ts
      /\ batchStatus' = FinishIfSettled({BatchOf(j)}, batchStatus, limited, batchErrors', flawed')
  BY DEF CloseOut
<1>2. /\ enqueued \in [Job -> JobStatus]
      /\ \A k \in Job : \/ enqueued[k] = js[k]
                        \/ /\ enqueued[k] = "queued"
                           /\ k \in Discovered(BatchOf(j), TargetOf(j), js, ts)
  BY DEF EnqueueDiscovered
<1>3. \A k \in Discovered(BatchOf(j), TargetOf(j), js, ts) : js[k] = "none"
  BY DEF Discovered
<1>4. /\ limited \in [Job -> JobStatus]
      /\ \A k \in Job : \/ limited[k] = enqueued[k]
                        \/ limited[k] = "cancelled" /\ enqueued[k] = "queued"
  <2> HIDE DEF enqueued
  <2> QED BY <1>2 DEF EnforceBatchLimits
<1> HIDE DEF enqueued, limited
<1>5. \A k \in Job :
              \/ limited[k] = js[k]
              \/ js[k] = "queued" /\ limited[k] = "cancelled"
              \/ /\ js[k] = "none" /\ limited[k] \in {"queued", "cancelled"}
                 /\ k \in Discovered(BatchOf(j), TargetOf(j), js, ts)
  BY <1>2, <1>3, <1>4
<1>6. batchStatus \in [Batch -> BatchStatus]
  BY DEF TypeOK
<1>7. /\ batchStatus' \in [Batch -> BatchStatus]
      /\ \A b \in Batch :
              \/ batchStatus'[b] = batchStatus[b]
              \/ /\ batchStatus[b] \in Live /\ batchStatus'[b] \in Settled
                 /\ \A k \in Job : BatchOf(k) = b => limited[k] \notin Open
  BY <1>1, <1>4, <1>6, FinishFacts
<1> QED BY <1>1, <1>4, <1>5, <1>7

(* What the sweep at the head of a claim writes, and what it ends.         *)
LEMMA SweepFacts ==
  ASSUME TypeOK, NEW bs \in ClaimScopes
  PROVE  LET x == Sweep(bs)
         IN  /\ x.jobs \in [Job -> JobStatus] /\ x.ended \subseteq Batch /\ x.reach \subseteq Batch
             /\ \A j \in Job : x.jobs[j] # "none" =>
                  \/ LeaseExpired(j) /\ x.jobs[j] \in {"queued", "failed", "cancelled"}
                  \/ jobStatus[j] = "queued" /\ x.jobs[j] = "cancelled"
             /\ \A b \in x.ended : NothingOpen(b, Read(x)) /\ batchStatus[b] # "none"
<1>1. /\ Recovered \in [Job -> JobStatus]
      /\ \A j \in Job : \/ Recovered[j] = jobStatus[j] /\ ~LeaseExpired(j)
                        \/ LeaseExpired(j) /\ Recovered[j] \in {"queued", "failed"}
  BY DEF Recovered, TypeOK
<1>2. /\ SweptJobs \in [Job -> JobStatus]
      /\ \A j \in Job :
            \/ SweptJobs[j] = Recovered[j] /\ ~(expired[BatchOf(j)] /\ Recovered[j] = "queued")
            \/ /\ SweptJobs[j] = "cancelled" /\ Recovered[j] = "queued"
               /\ expired[BatchOf(j)]
  BY <1>1 DEF SweptJobs
<1>3. /\ Sweep(bs).jobs =
            [j \in Job |-> IF SweptJobs[j] = jobStatus[j] THEN "none" ELSE SweptJobs[j]]
      /\ Sweep(bs).ended = {b \in Batch : /\ expired[b] /\ batchStatus[b] \in Live
                               /\ \A j \in Job : BatchOf(j) = b => Recovered[j] \notin Active}
      /\ Sweep(bs).reach = {b \in bs : ~expired[b]}
  BY DEF Sweep
<1>4. bs \subseteq Batch
  BY DEF ClaimScopes
<1> DEFINE x == Sweep(bs)
<1> HIDE DEF x
<1>5. \A j \in Job : Read(x)[j] = SweptJobs[j]
  BY <1>1, <1>2, <1>3 DEF Read, x
<1>6. /\ x.jobs \in [Job -> JobStatus]
      /\ \A j \in Job : x.jobs[j] # "none" =>
           \/ LeaseExpired(j) /\ x.jobs[j] \in {"queued", "failed", "cancelled"}
           \/ jobStatus[j] = "queued" /\ x.jobs[j] = "cancelled"
  BY <1>1, <1>2, <1>3 DEF x
<1>7. \A b \in x.ended : NothingOpen(b, Read(x)) /\ batchStatus[b] # "none"
  <2> SUFFICES ASSUME NEW b \in x.ended
               PROVE  /\ batchStatus[b] # "none"
                      /\ \A j \in Job : BatchOf(j) = b => Read(x)[j] \notin Open
    BY DEF NothingOpen
  <2>1. /\ b \in Batch /\ expired[b] /\ batchStatus[b] \in Live
        /\ \A j \in Job : BatchOf(j) = b => Recovered[j] \notin Active
    BY <1>3 DEF x
  <2> QED BY <1>2, <1>5, <2>1
<1> QED BY <1>3, <1>4, <1>6, <1>7 DEF x

(* A claim transaction of slot w reads a table whose rows it has only      *)
(* recovered, cancelled or held; it knows the batches it may settle to     *)
(* have no open job, and no other slot relies on a row it wrote.           *)
LEMMA ReadFacts ==
  ASSUME QueueInv, NEW w \in Worker, NEW bs \in ClaimScopes, NEW x \in Transactions(w, bs)
  PROVE  /\ x.jobs \in [Job -> JobStatus] /\ x.ended \subseteq Batch /\ x.reach \subseteq Batch
         /\ Read(x) \in [Job -> JobStatus]
         /\ \A j \in Job :
              \/ x.jobs[j] = "none" /\ Read(x)[j] = jobStatus[j]
              \/ /\ Read(x)[j] = x.jobs[j]
                 /\ LeaseExpired(j) /\ x.jobs[j] \in {"queued", "failed", "cancelled", "policy_hold"}
              \/ /\ Read(x)[j] = x.jobs[j]
                 /\ jobStatus[j] = "queued" /\ x.jobs[j] \in {"cancelled", "policy_hold"}
         /\ \A b \in x.ended : NothingOpen(b, Read(x)) /\ batchStatus[b] # "none"
         /\ \A b \in found[w] : batchStatus[b] # "none" /\ (b \in overtaken \/ NothingOpen(b, Read(x)))
         /\ pc[w] \in {"idle", "claiming"}
         /\ \A v \in Worker \ {w} : pc[v] # "claiming"
         /\ \A v \in Worker : pc[v] \in Blocking => x.jobs[held[v]] = "none"
<1>1. /\ TypeOK /\ OneClaimAtATime /\ LockedAsFound /\ CountsHold /\ HeldWhileWorking
  BY DEF QueueInv
<1>2. \/ x = claim /\ pc[w] = "claiming"
      \/ /\ x = Sweep(bs) /\ pc[w] = "idle" /\ \A v \in Worker : pc[v] # "claiming"
         /\ \A j \in LockedJobs : x.jobs[j] = "none"
  BY DEF Transactions, HasClaimLock
<1>3. /\ x.jobs \in [Job -> JobStatus] /\ x.ended \subseteq Batch /\ x.reach \subseteq Batch
  BY <1>1, <1>2, SweepFacts DEF TypeOK
<1>4. \A j \in Job : x.jobs[j] # "none" =>
        \/ LeaseExpired(j) /\ x.jobs[j] \in {"queued", "failed", "cancelled", "policy_hold"}
        \/ jobStatus[j] = "queued" /\ x.jobs[j] \in {"cancelled", "policy_hold"}
  BY <1>1, <1>2, SweepFacts DEF LockedAsFound
<1>5. \A j \in Job : Read(x)[j] = (IF x.jobs[j] = "none" THEN jobStatus[j] ELSE x.jobs[j])
  BY DEF Read
<1>6. Read(x) \in [Job -> JobStatus]
  BY <1>1, <1>3 DEF Read, TypeOK
<1>7. \A b \in x.ended : NothingOpen(b, Read(x)) /\ batchStatus[b] # "none"
  BY <1>1, <1>2, SweepFacts DEF CountsHold
<1>8. \A b \in found[w] : batchStatus[b] # "none" /\ (b \in overtaken \/ NothingOpen(b, Read(x)))
  <2>1. CASE x = claim /\ pc[w] = "claiming"
    BY <1>1, <2>1 DEF CountsHold, OneClaimAtATime, Blocking
  <2>2. CASE pc[w] = "idle"
    BY <1>1, <2>2 DEF OneClaimAtATime, Blocking
  <2> QED BY <1>2, <2>1, <2>2
<1>9. pc[w] \in {"idle", "claiming"} /\ \A v \in Worker \ {w} : pc[v] # "claiming"
  BY <1>1, <1>2 DEF OneClaimAtATime
<1>10. \A v \in Worker : pc[v] \in Blocking => x.jobs[held[v]] = "none"
  <2> SUFFICES ASSUME NEW v \in Worker, pc[v] \in Blocking PROVE x.jobs[held[v]] = "none"
    OBVIOUS
  <2>1. held[v] \in Job
    BY <1>1 DEF HeldWhileWorking, Blocking
  <2>2. held[v] \in LockedJobs
    BY <2>1 DEF LockedJobs
  <2> QED BY <1>1, <1>2, <2>2 DEF LockedAsFound
<1> QED BY <1>3, <1>4, <1>5, <1>6, <1>7, <1>8, <1>9, <1>10

(* A settlement ends live batches of those counted, and never cleanly.     *)
LEMMA SettleFacts ==
  ASSUME TypeOK, NEW bs
  PROVE  /\ Settle(bs) \in [Batch -> BatchStatus]
         /\ \A b \in Batch :
              \/ Settle(bs)[b] = batchStatus[b]
              \/ b \in bs /\ batchStatus[b] \in Live /\ Settle(bs)[b] = "completed_with_errors"
BY DEF Settle, TypeOK

(* A candidate is a queued job, as its claim reads the table, of a live    *)
(* batch within its limits, in a free lane.                                *)
LEMMA CandidateFacts ==
  ASSUME QueueInv, NEW w \in Worker, NEW bs \in ClaimScopes, NEW x \in Transactions(w, bs),
         NEW c \in Candidates(x)
  PROVE  /\ c \in Job /\ BatchOf(c) \in Batch /\ TargetOf(c) \in Target
         /\ Read(x)[c] = "queued" /\ jobStatus[c] \in Open
         /\ jobStatus[c] = "queued" \/ LeaseExpired(c)
         /\ projectStatus[Owner(c)] = "active"
         /\ batchStatus[BatchOf(c)] \in Live /\ WithinLimits(BatchOf(c))
         /\ \A k \in Job : DomainKey(k) = DomainKey(c) => Read(x)[k] \notin Active
<1>1. /\ c \in Job /\ Read(x)[c] = "queued" /\ projectStatus[Owner(c)] = "active"
      /\ batchStatus[BatchOf(c)] \in Live /\ WithinLimits(BatchOf(c)) /\ DomainFree(x, c)
  BY DEF Candidates
<1>2. BatchOf(c) \in Batch /\ TargetOf(c) \in Target
  BY <1>1, JobParts
<1>3. jobStatus[c] \in Open /\ (jobStatus[c] = "queued" \/ LeaseExpired(c))
  BY <1>1, ReadFacts DEF LeaseExpired
<1> QED BY <1>1, <1>2, <1>3 DEF DomainFree

----------------------------------------------------------------------------
(* Types.                                                                  *)

(* The tables start well typed.                                            *)
LEMMA TypeInit == Init => TypeOK /\ HeldWhileWorking
<1> SUFFICES ASSUME Init PROVE TypeOK /\ HeldWhileWorking
  OBVIOUS
<1>1. InitTargets
  BY DEF Init
<1>2. owner \in [Target -> SUBSET Org] /\ links \in [Target -> SUBSET Org]
  BY <1>1 DEF InitTargets
<1>3. targetType \in [Target -> {"absent", "site", "directory"}]
  BY <1>1 DEF InitTargets
<1>4. targetStatus \in [Target -> TargetStatus]
  BY <1>1 DEF InitTargets, TargetStatus
<1>5. claim \in [jobs : [Job -> JobStatus], ended : SUBSET Batch, reach : SUBSET Batch]
  BY DEF Init, NoClaim
<1> QED
  BY <1>2, <1>3, <1>4, <1>5, LimitAssumption DEF Init, TypeOK, HeldWhileWorking

(* A slot that reports gives up its job and its place in the loop.         *)
LEMMA ReleaseType ==
  ASSUME TypeOK, HeldWhileWorking, NEW w \in Worker, Release(w)
  PROVE  /\ pc' \in [Worker -> {"idle", "claiming", "claimed", "running", "failing"} \cup Blocking]
         /\ held' \in [Worker -> Job \cup {NoJob}]
         /\ found' \in [Worker -> SUBSET Batch]
         /\ HeldWhileWorking'
BY DEF TypeOK, HeldWhileWorking, Release

(* A released claim keeps the claim columns well typed.                    *)
LEMMA ClearClaimType ==
  ASSUME TypeOK, NEW j \in Job, ClearClaim(j)
  PROVE  /\ claimToken' \in [Job -> Worker \cup {NoWorker}]
         /\ lease' \in [Job -> {"none", "valid", "expired"}]
BY DEF TypeOK, ClearClaim

(* No action leaves the declared types, one step per action.               *)
LEMMA TypeStep ==
  ASSUME QueueInv, Next
  PROVE  TypeOK' /\ HeldWhileWorking'
<1> USE DEF projectVars, batchVars, jobVars, targetVars, workerVars, txVars
<1> USE LimitAssumption
<1>0. TypeOK /\ HeldWhileWorking
  BY DEF QueueInv
<1>1. ASSUME NEW p \in Project, RefreshOrganizations(p)
      PROVE  TypeOK' /\ HeldWhileWorking'
  BY <1>0, <1>1 DEF RefreshOrganizations, TypeOK, HeldWhileWorking
<1>2. ASSUME NEW p \in Project, GenerateDiscoveryTargets(p)
      PROVE  TypeOK' /\ HeldWhileWorking'
  <2> DEFINE publishers == [t \in Target |-> PublishedBy[t] \cap roster[p]]
             new == {t \in Target : targetType[t] = "absent" /\ publishers[t] # {}}
  <2>1. PICK first \in [new -> Org] :
          owner' = [t \in Target |-> IF t \in new THEN {first[t]} ELSE owner[t]]
    BY <1>2 DEF GenerateDiscoveryTargets
  <2>2. owner' \in [Target -> SUBSET Org]
    BY <1>0, <2>1 DEF TypeOK
  <2> QED BY <1>0, <1>2, <2>2, StructureAssumption
          DEF GenerateDiscoveryTargets, TypeOK, HeldWhileWorking
<1>3. ASSUME NEW p \in Project, ResumePolicyHolds(p) \/ ResumeCommit(p) \/ ResumeAbort(p)
      PROVE  TypeOK' /\ HeldWhileWorking'
  <2>1. CASE ResumePolicyHolds(p)
    BY <1>0, <2>1 DEF ResumePolicyHolds, TypeOK, HeldWhileWorking
  <2>2. CASE ResumeCommit(p)
    BY <1>0, <2>2 DEF ResumeCommit, Reopened, TypeOK, HeldWhileWorking
  <2>3. CASE ResumeAbort(p)
    BY <1>0, <2>3 DEF ResumeAbort, TypeOK, HeldWhileWorking
  <2> QED BY <1>3, <2>1, <2>2, <2>3
<1>4. ASSUME NEW p \in Project, NEW s \in {"active", "paused", "completed", "cancelled"},
             SetStatus(p, s)
      PROVE  TypeOK' /\ HeldWhileWorking'
  BY <1>0, <1>4 DEF SetStatus, TypeOK, HeldWhileWorking
<1>5. ASSUME NEW b \in Batch, CreateApprovedRun(b)
      PROVE  TypeOK' /\ HeldWhileWorking'
  BY <1>0, <1>5, StructureAssumption DEF CreateApprovedRun, NewBatch, TypeOK, HeldWhileWorking
<1>6. ASSUME NEW b \in Batch, CreateApprovedBatch(b)
      PROVE  TypeOK' /\ HeldWhileWorking'
  <2>1. PICK js : NewBatch(b, js)
    BY <1>6 DEF CreateApprovedBatch
  <2>2. UNCHANGED <<collectDiscovered, scope>>
    BY <1>6 DEF CreateApprovedBatch
  <2> QED BY <1>0, <2>1, <2>2, StructureAssumption DEF NewBatch, TypeOK, HeldWhileWorking
<1>7. ASSUME NEW t \in Target, ReviewPolicy(t)
      PROVE  TypeOK' /\ HeldWhileWorking'
  BY <1>0, <1>7 DEF ReviewPolicy, TypeOK, HeldWhileWorking
<1>8. ASSUME NEW w \in Worker, NEW bs \in ClaimScopes, NEW j \in Job, Hold(w, bs, j)
      PROVE  TypeOK' /\ HeldWhileWorking'
  <2>1. PICK x \in Transactions(w, bs) :
          LET counted == Counted(BatchOf(j), [Read(x) EXCEPT ![j] = "policy_hold"])
          IN  /\ claim' = [x EXCEPT !.jobs = [@ EXCEPT ![j] = "policy_hold"], !.reach = @ \ counted]
              /\ found' = [found EXCEPT ![w] = @ \cup counted]
    BY <1>8 DEF Hold
  <2> DEFINE counted == Counted(BatchOf(j), [Read(x) EXCEPT ![j] = "policy_hold"])
  <2>2. counted \subseteq Batch
    BY JobParts DEF Counted
  <2> HIDE DEF counted
  <2>3. claim' \in [jobs : [Job -> JobStatus], ended : SUBSET Batch, reach : SUBSET Batch]
    <3>1. /\ x.jobs \in [Job -> JobStatus] /\ x.ended \subseteq Batch /\ x.reach \subseteq Batch
          /\ DOMAIN x = {"jobs", "ended", "reach"}
      BY <1>0, ReadFacts DEF Transactions, Sweep, TypeOK
    <3>2. x = [jobs |-> x.jobs, ended |-> x.ended, reach |-> x.reach]
      BY <1>0 DEF Transactions, Sweep, TypeOK
    <3>3. claim' = [jobs |-> [x.jobs EXCEPT ![j] = "policy_hold"], ended |-> x.ended,
                    reach |-> x.reach \ counted]
      BY <2>1, <3>2 DEF counted
    <3> QED BY <3>1, <3>3
  <2>4. found' \in [Worker -> SUBSET Batch]
    BY <1>0, <2>1, <2>2 DEF counted, TypeOK
  <2>5. /\ pc' = [pc EXCEPT ![w] = "claiming"]
        /\ UNCHANGED <<projectVars, batchVars, jobVars, targetVars, permitted, held,
                       resuming, overtaken>>
    BY <1>8 DEF Hold
  <2>6. HeldWhileWorking'
    BY <1>0, <2>5 DEF TypeOK, HeldWhileWorking
  <2>7. pc' \in [Worker -> {"idle", "claiming", "claimed", "running", "failing"} \cup Blocking]
    BY <1>0, <2>5 DEF TypeOK
  <2> QED BY <1>0, <2>3, <2>4, <2>5, <2>6, <2>7 DEF TypeOK
<1>9. ASSUME NEW w \in Worker, NEW bs \in ClaimScopes, ClaimNothing(w, bs) \/ ClaimJob(w, bs)
      PROVE  TypeOK' /\ HeldWhileWorking'
  <2>1. ASSUME NEW x \in Transactions(w, bs)
        PROVE  /\ Read(x) \in [Job -> JobStatus]
               /\ Settle(x.ended \cup found[w]) \in [Batch -> BatchStatus]
               /\ TargetsHeld(x) \in [Target -> TargetStatus]
               /\ TokensLeft(x) \in [Job -> Worker \cup {NoWorker}]
               /\ LeasesLeft(x) \in [Job -> {"none", "valid", "expired"}]
    BY <1>0, <2>1, ReadFacts, SettleFacts DEF TargetsHeld, TokensLeft, LeasesLeft, TypeOK
  <2>2. claim' \in [jobs : [Job -> JobStatus], ended : SUBSET Batch, reach : SUBSET Batch]
    BY <1>9 DEF ClaimNothing, ClaimJob, NoClaim
  <2>3. CASE ClaimNothing(w, bs)
    <3>1. /\ jobStatus' \in [Job -> JobStatus] /\ batchStatus' \in [Batch -> BatchStatus]
          /\ targetStatus' \in [Target -> TargetStatus]
          /\ claimToken' \in [Job -> Worker \cup {NoWorker}]
          /\ lease' \in [Job -> {"none", "valid", "expired"}]
      BY <2>1, <2>3 DEF ClaimNothing
    <3>2. /\ Release(w)
          /\ UNCHANGED <<projectVars, collectDiscovered, expired, scope, batchPages,
                         batchErrors, attemptCount, jobPages, flawed, targetType, owner,
                         links, permitted, resuming, overtaken>>
      BY <2>3 DEF ClaimNothing
    <3> QED BY <1>0, <2>2, <3>1, <3>2, ReleaseType DEF TypeOK
  <2>4. CASE ClaimJob(w, bs)
    <3>1. PICK x \in Transactions(w, bs) : \E c \in Candidates(x) : Grant(w, x, c)
      BY <2>4 DEF ClaimJob
    <3>2. PICK c \in Candidates(x) : Grant(w, x, c)
      BY <3>1
    <3>3. c \in Job /\ BatchOf(c) \in Batch /\ TargetOf(c) \in Target
      BY JobParts DEF Candidates
    <3>4. /\ jobStatus' \in [Job -> JobStatus] /\ batchStatus' \in [Batch -> BatchStatus]
          /\ targetStatus' \in [Target -> TargetStatus]
          /\ claimToken' \in [Job -> Worker \cup {NoWorker}]
          /\ lease' \in [Job -> {"none", "valid", "expired"}]
      BY <2>1, <3>2, <3>3 DEF Grant
    <3>5. attemptCount' \in [Job -> 0..MaxAttempts]
      BY <1>0, <3>2, <3>3 DEF Grant, AttemptsValid, TypeOK
    <3>6. held' \in [Worker -> Job \cup {NoJob}] /\ held'[w] = c
          /\ \A v \in Worker \ {w} : held'[v] = held[v]
      BY <1>0, <3>2, <3>3 DEF Grant, TypeOK
    <3>7. /\ pc' = [pc EXCEPT ![w] = "claimed"] /\ found' = [found EXCEPT ![w] = {}]
          /\ UNCHANGED <<projectVars, collectDiscovered, expired, scope, batchPages,
                         batchErrors, jobPages, flawed, targetType, owner, links, permitted,
                         resuming, overtaken>>
      BY <2>4 DEF ClaimJob
    <3>8. HeldWhileWorking'
      BY <1>0, <3>3, <3>6, <3>7 DEF HeldWhileWorking, TypeOK
    <3>9. /\ pc' \in [Worker -> {"idle", "claiming", "claimed", "running", "failing"} \cup Blocking]
          /\ found' \in [Worker -> SUBSET Batch]
      BY <1>0, <3>7 DEF TypeOK
    <3> QED BY <1>0, <2>2, <3>4, <3>5, <3>6, <3>7, <3>8, <3>9 DEF TypeOK
  <2> QED BY <1>9, <2>3, <2>4
<1>10. ASSUME NEW w \in Worker, MarkJobRunning(w)
       PROVE  TypeOK' /\ HeldWhileWorking'
  BY <1>0, <1>10 DEF MarkJobRunning, TypeOK, HeldWhileWorking
<1>11. ASSUME NEW w \in Worker, ReserveRequest(w)
       PROVE  TypeOK' /\ HeldWhileWorking'
  <2>1. held[w] \in Job /\ BatchOf(held[w]) \in Batch
    BY <1>0, <1>11, JobParts DEF ReserveRequest, HeldWhileWorking
  <2> QED BY <1>0, <1>11, <2>1 DEF ReserveRequest, TypeOK, HeldWhileWorking
<1>12. ASSUME NEW w \in Worker, NEW t \in Target, RecordTarget(w, t)
       PROVE  TypeOK' /\ HeldWhileWorking'
  <2>1. held[w] \in Job
    BY <1>0, <1>12 DEF RecordTarget, Discovering, HeldWhileWorking
  <2>2. PICK o \in ClaimedFor(held[w]) : /\ owner' = OwnedFrom(t, o)
                                        /\ links' = [links EXCEPT ![t] = @ \cup {o}]
    BY <1>12 DEF RecordTarget
  <2>3. o \in Org
    BY <1>0, <2>1, <2>2, JobParts DEF ClaimedFor, TypeOK
  <2> QED BY <1>0, <1>12, <2>2, <2>3 DEF RecordTarget, OwnedFrom, TypeOK, HeldWhileWorking
<1>13. ASSUME NEW w \in Worker, NEW t \in Target, NEW s \in {"policy_hold", "blocked"},
              RecordBlocked(w, t, s)
       PROVE  TypeOK' /\ HeldWhileWorking'
  <2>1. held[w] \in Job
    BY <1>0, <1>13 DEF RecordBlocked, Discovering, HeldWhileWorking
  <2>2. PICK o \in ClaimedFor(held[w]) : owner' = OwnedFrom(t, o)
    BY <1>13 DEF RecordBlocked
  <2>3. o \in Org
    BY <1>0, <2>1, <2>2, JobParts DEF ClaimedFor, TypeOK
  <2> QED BY <1>0, <1>13, <2>2, <2>3 DEF RecordBlocked, OwnedFrom, TypeOK, HeldWhileWorking
<1>14. ASSUME NEW w \in Worker, CompleteJob(w)
       PROVE  TypeOK' /\ HeldWhileWorking'
  <2> DEFINE j == held[w]
             js == [jobStatus EXCEPT ![j] = "completed"]
             ts == [targetStatus EXCEPT ![TargetOf(j)] =
                      IF KindOf(j) = "discovery" THEN "ready" ELSE "crawled"]
  <2>1. /\ j \in Job /\ BatchOf(j) \in Batch
        /\ CloseOut(j, js, ts) /\ Release(w)
    BY <1>0, <1>14, JobParts DEF CompleteJob, HeldWhileWorking
  <2>2. js \in [Job -> JobStatus] /\ ts \in [Target -> TargetStatus]
    BY <1>0 DEF TypeOK
  <2>3. /\ jobStatus' \in [Job -> JobStatus]
        /\ batchStatus' \in [Batch -> BatchStatus]
        /\ targetStatus' \in [Target -> TargetStatus]
    <3> HIDE DEF j, js, ts
    <3> QED BY <1>0, <2>1, <2>2, CloseOutFacts
  <2>4. PICK n \in Reported(j) :
          /\ jobPages' = [jobPages EXCEPT ![j] = Greatest(@, n)]
          /\ batchPages' = [batchPages EXCEPT ![BatchOf(j)] =
                              @ + Charged(BatchOf(j), n)]
    BY <1>14 DEF CompleteJob
  <2>5. n \in 0..TargetPages
    BY <1>0, <2>1 DEF Reported, TypeOK
  <2>6. jobPages' \in [Job -> 0..TargetPages] /\ batchPages' \in [Batch -> Nat]
    BY <1>0, <2>1, <2>4, <2>5 DEF Greatest, Charged, TypeOK
  <2>7. flawed' \subseteq Job
    BY <1>0, <1>14, <2>1 DEF CompleteJob, TypeOK
  <2> QED BY <1>0, <1>14, <2>1, <2>3, <2>6, <2>7, ReleaseType DEF CompleteJob, TypeOK
<1>15. ASSUME NEW w \in Worker, ContinueJob(w)
       PROVE  TypeOK' /\ HeldWhileWorking'
  <2>1. held[w] \in Job /\ Release(w) /\ ClearClaim(held[w])
    BY <1>0, <1>15 DEF ContinueJob, HeldWhileWorking
  <2>2. PICK n \in Reported(held[w]) :
          jobPages' = [jobPages EXCEPT ![held[w]] = Greatest(@, n)]
    BY <1>15 DEF ContinueJob
  <2>3. jobPages' \in [Job -> 0..TargetPages]
    BY <1>0, <2>1, <2>2 DEF Reported, Greatest, TypeOK
  <2>4. attemptCount' \in [Job -> 0..MaxAttempts]
    BY <1>0, <1>15, <2>1 DEF ContinueJob, Greatest, TypeOK
  <2> QED BY <1>0, <1>15, <2>1, <2>3, <2>4, ReleaseType, ClearClaimType DEF ContinueJob, TypeOK
<1>16. ASSUME NEW w \in Worker, NEW r \in BOOLEAN, FailJob(w, r)
       PROVE  TypeOK' /\ HeldWhileWorking'
  <2> DEFINE j == held[w]
             retry == r /\ attemptCount[j] < MaxAttempts
             js == [jobStatus EXCEPT ![j] = IF retry THEN "queued" ELSE "failed"]
             ts == [targetStatus EXCEPT ![TargetOf(j)] = IF retry THEN "ready" ELSE "failed"]
  <2>1. /\ j \in Job /\ BatchOf(j) \in Batch
        /\ CloseOut(j, js, ts) /\ Release(w) /\ ClearClaim(j)
    BY <1>0, <1>16, JobParts DEF FailJob, HeldWhileWorking
  <2>2. js \in [Job -> JobStatus] /\ ts \in [Target -> TargetStatus]
    BY <1>0 DEF TypeOK
  <2>3. /\ jobStatus' \in [Job -> JobStatus]
        /\ batchStatus' \in [Batch -> BatchStatus]
        /\ targetStatus' \in [Target -> TargetStatus]
    <3> HIDE DEF j, js, ts
    <3> QED BY <1>0, <2>1, <2>2, CloseOutFacts
  <2>4. batchErrors' \in [Batch -> Nat]
    BY <1>0, <1>16, <2>1 DEF FailJob, TypeOK
  <2> QED BY <1>0, <1>16, <2>1, <2>3, <2>4, ReleaseType, ClearClaimType DEF FailJob, TypeOK
<1>17. ASSUME NEW w \in Worker, NEW o \in {"policy_hold", "blocked"}, BlockJob(w, o)
       PROVE  TypeOK' /\ HeldWhileWorking'
  <2>1. held[w] \in Job /\ BatchOf(held[w]) \in Batch
    BY <1>0, <1>17, JobParts DEF BlockJob, HeldWhileWorking
  <2>2. found' \in [Worker -> SUBSET Batch]
    BY <1>0, <1>17, <2>1 DEF BlockJob, Counted, TypeOK
  <2>3. pc' = [pc EXCEPT ![w] = o] /\ o \in Blocking /\ UNCHANGED held
    BY <1>17 DEF BlockJob, Blocking
  <2>4. HeldWhileWorking'
    BY <1>0, <2>1, <2>3 DEF TypeOK, HeldWhileWorking
  <2>5. pc' \in [Worker -> {"idle", "claiming", "claimed", "running", "failing"} \cup Blocking]
    BY <1>0, <2>3 DEF TypeOK
  <2> QED BY <1>0, <1>17, <2>2, <2>4, <2>5 DEF BlockJob, TypeOK
<1>21. ASSUME NEW w \in Worker, BlockCommit(w)
       PROVE  TypeOK' /\ HeldWhileWorking'
  <2>1. held[w] \in Job /\ Release(w) /\ ClearClaim(held[w])
    BY <1>0, <1>21 DEF BlockCommit, HeldWhileWorking, Blocking
  <2>2. jobStatus' \in [Job -> JobStatus] /\ targetStatus' \in [Target -> TargetStatus]
    BY <1>0, <1>21 DEF BlockCommit, Blocking, TypeOK
  <2>3. batchStatus' \in [Batch -> BatchStatus]
    BY <1>0, <1>21, SettleFacts DEF BlockCommit
  <2> QED BY <1>0, <1>21, <2>1, <2>2, <2>3, ReleaseType, ClearClaimType DEF BlockCommit, TypeOK
<1>18. ASSUME NEW w \in Worker, Throw(w) \/ Abandon(w) \/ Crash(w)
       PROVE  TypeOK' /\ HeldWhileWorking'
  <2>1. CASE Throw(w)
    BY <1>0, <2>1 DEF Throw, Blocking, TypeOK, HeldWhileWorking
  <2>2. CASE Abandon(w)
    BY <1>0, <2>2, ReleaseType DEF Abandon, TypeOK
  <2>3. CASE Crash(w)
    <3>1. claim' \in [jobs : [Job -> JobStatus], ended : SUBSET Batch, reach : SUBSET Batch]
      BY <1>0, <2>3 DEF Crash, NoClaim, TypeOK
    <3> QED BY <1>0, <2>3, <3>1, ReleaseType DEF Crash, TypeOK
  <2> QED BY <1>18, <2>1, <2>2, <2>3
<1>19. ASSUME NEW j \in Job, LeaseRunsOut(j)
       PROVE  TypeOK' /\ HeldWhileWorking'
  BY <1>0, <1>19 DEF LeaseRunsOut, TypeOK, HeldWhileWorking
<1>20. ASSUME NEW b \in Batch, RunExpires(b)
       PROVE  TypeOK' /\ HeldWhileWorking'
  BY <1>0, <1>20 DEF RunExpires, TypeOK, HeldWhileWorking
<1> QED
  BY <1>1, <1>2, <1>3, <1>4, <1>5, <1>6, <1>7, <1>8, <1>9, <1>10, <1>11, <1>12, <1>13,
     <1>14, <1>15, <1>16, <1>17, <1>18, <1>19, <1>20, <1>21
  DEF Next, Operate, Claim, EndClaim, Work, Discover, Report, Expire

----------------------------------------------------------------------------
(* What one step may do, action by action.                                 *)

(* The moves of a job.  The phases of the ledger are read off these.       *)
JobMove(j) ==
  \/ jobStatus'[j] = jobStatus[j]
  \/ jobStatus[j] = "none" /\ jobStatus'[j] \in {"queued", "cancelled"}
  \/ jobStatus[j] = "queued" /\ jobStatus'[j] \in {"claimed", "policy_hold", "cancelled"}
  \/ jobStatus[j] \in Active /\ jobStatus'[j] \in JobStatus \ {"none"}
  \/ jobStatus[j] = "policy_hold" /\ jobStatus'[j] = "queued"

(* At most one job becomes active, in a domain that had no active job.     *)
DomainMove ==
  \/ \A j \in Job : jobStatus'[j] \in Active => jobStatus[j] \in Active
  \/ \E c \in Job : \A j \in Job \ {c} :
       jobStatus'[j] \in Active => jobStatus[j] \in Active /\ DomainKey(j) # DomainKey(c)

(* A batch that closes is drained, unless a resume overtook the count; a   *)
(* batch that gains an open job is live.                                   *)
Closes(b) ==
  /\ batchStatus[b] \in Live /\ batchStatus'[b] \in Settled
  /\ b \in overtaken' \/ \A j \in Job : BatchOf(j) = b => jobStatus'[j] \notin Open
BatchMove(b) ==
  /\ \/ batchStatus'[b] = batchStatus[b]
     \/ batchStatus'[b] \in Live \cup {"cancelled"}
     \/ Closes(b)
  /\ \A j \in Job : BatchOf(j) = b /\ jobStatus'[j] # jobStatus[j] =>
        \/ batchStatus[b] \in Live /\ jobStatus[j] = "none"
        \/ batchStatus'[b] \in Live
        \/ jobStatus[j] \in Open
        \/ jobStatus'[j] \notin Open /\ jobStatus[j] # "none"

Moves ==
  /\ \A j \in Job : JobMove(j)
  /\ DomainMove
  /\ \A b \in Batch : BatchMove(b)
  /\ overtaken \subseteq overtaken'

(* A step that changes no status makes only idle moves.                    *)
LEMMA StillMoves ==
  ASSUME UNCHANGED <<jobStatus, batchStatus, overtaken>>
  PROVE  Moves
BY DEF Moves, JobMove, DomainMove, BatchMove

(* An approval creates queued jobs of a fresh batch and nothing else.      *)
LEMMA NewBatchMoves ==
  ASSUME TypeOK, NEW b \in Batch, NEW js, NewBatch(b, js),
         \A j \in js : BatchOf(j) = b /\ ~Busy(TargetOf(j), jobStatus),
         FreshBatchIsEmpty
  PROVE  Moves
BY DEF NewBatch, Moves, JobMove, DomainMove, BatchMove, TypeOK, FreshBatchIsEmpty, txVars

(* A claim that leases nothing only sweeps and holds.                      *)
LEMMA ClaimNothingMoves ==
  ASSUME QueueInv, NEW w \in Worker, NEW bs \in ClaimScopes, ClaimNothing(w, bs)
  PROVE  Moves
<1>1. PICK x \in Transactions(w, bs) :
        jobStatus' = Read(x) /\ batchStatus' = Settle(x.ended \cup found[w])
  BY DEF ClaimNothing
<1>2. UNCHANGED overtaken
  BY DEF ClaimNothing
<1>3. TypeOK
  BY DEF QueueInv
<1>4. \A j \in Job :
        \/ jobStatus'[j] = jobStatus[j]
        \/ jobStatus[j] \in Active
           /\ jobStatus'[j] \in {"queued", "failed", "cancelled", "policy_hold"}
        \/ jobStatus[j] = "queued" /\ jobStatus'[j] \in {"cancelled", "policy_hold"}
  BY <1>1, ReadFacts DEF LeaseExpired
<1>5. \A b \in Batch : batchStatus'[b] = batchStatus[b] \/ Closes(b)
  <2>1. \A b \in x.ended \cup found[w] : b \in overtaken \/ NothingOpen(b, Read(x))
    BY ReadFacts
  <2> QED BY <1>1, <1>2, <1>3, <2>1, SettleFacts DEF Closes, NothingOpen
<1>6. \A j \in Job : JobMove(j)
  BY <1>4 DEF JobMove
<1>7. DomainMove
  BY <1>4 DEF DomainMove
<1>8. \A b \in Batch : BatchMove(b)
  BY <1>4, <1>5 DEF BatchMove
<1> QED BY <1>2, <1>6, <1>7, <1>8 DEF Moves

(* A claim that leases makes one job active, in a lane that is free.       *)
LEMMA ClaimJobMoves ==
  ASSUME QueueInv, NEW w \in Worker, NEW bs \in ClaimScopes, ClaimJob(w, bs)
  PROVE  Moves
<1>1. PICK x \in Transactions(w, bs) : \E c \in Candidates(x) : Grant(w, x, c)
  BY DEF ClaimJob
<1>2. PICK c \in Candidates(x) : Grant(w, x, c)
  BY <1>1
<1>3. UNCHANGED overtaken /\ TypeOK
  BY DEF ClaimJob, QueueInv
<1>4. /\ c \in Job /\ Read(x)[c] = "queued" /\ BatchOf(c) \in Batch
      /\ jobStatus[c] \in Open
      /\ \A k \in Job : DomainKey(k) = DomainKey(c) => Read(x)[k] \notin Active
  BY CandidateFacts
<1>5. /\ Read(x) \in [Job -> JobStatus]
      /\ \A j \in Job :
           \/ Read(x)[j] = jobStatus[j]
           \/ jobStatus[j] \in Active
              /\ Read(x)[j] \in {"queued", "failed", "cancelled", "policy_hold"}
           \/ jobStatus[j] = "queued" /\ Read(x)[j] \in {"cancelled", "policy_hold"}
  BY ReadFacts DEF LeaseExpired
<1>6. \A j \in Job : jobStatus'[j] = (IF j = c THEN "claimed" ELSE Read(x)[j])
  BY <1>2, <1>4, <1>5 DEF Grant
<1>7. \A b \in Batch :
        \/ batchStatus'[b] = batchStatus[b]
        \/ b = BatchOf(c) /\ batchStatus'[b] = "running"
        \/ Closes(b)
  <2> DEFINE settled == Settle(x.ended \cup found[w])
  <2>1. batchStatus' = [settled EXCEPT ![BatchOf(c)] = "running"]
    BY <1>2 DEF Grant
  <2>2. /\ settled \in [Batch -> BatchStatus]
        /\ \A b \in Batch :
             \/ settled[b] = batchStatus[b]
             \/ /\ b \in x.ended \cup found[w] /\ batchStatus[b] \in Live
                /\ settled[b] \in Settled
    BY <1>3, SettleFacts
  <2> HIDE DEF settled
  <2>3. \A b \in x.ended \cup found[w] : b \in overtaken \/ NothingOpen(b, Read(x))
    BY ReadFacts
  <2>4. ASSUME NEW b \in Batch \ {BatchOf(c)} PROVE batchStatus'[b] = batchStatus[b] \/ Closes(b)
    BY <1>3, <1>6, <2>1, <2>2, <2>3 DEF Closes, NothingOpen
  <2>5. batchStatus'[BatchOf(c)] = "running"
    BY <1>4, <2>1, <2>2
  <2> QED BY <2>4, <2>5
<1>8. \A j \in Job : JobMove(j)
  BY <1>4, <1>5, <1>6 DEF JobMove
<1>9. DomainMove
  <2>1. ASSUME NEW j \in Job \ {c}, jobStatus'[j] \in Active
        PROVE  jobStatus[j] \in Active /\ DomainKey(j) # DomainKey(c)
    BY <1>4, <1>5, <1>6, <2>1
  <2> QED BY <1>4, <2>1 DEF DomainMove
<1>10. \A b \in Batch : BatchMove(b)
  BY <1>4, <1>5, <1>6, <1>7 DEF BatchMove
<1> QED BY <1>3, <1>8, <1>9, <1>10 DEF Moves

(* The tail of a report: releases, cancellations and the settlement.       *)
LEMMA CloseMoves ==
  ASSUME TypeOK, NEW w \in Worker, NEW s \in {"completed", "queued", "failed"},
         held[w] \in Job, jobStatus[held[w]] \in Active,
         NEW ts \in [Target -> TargetStatus],
         CloseOut(held[w], [jobStatus EXCEPT ![held[w]] = s], ts), UNCHANGED overtaken
  PROVE  Moves
<1> DEFINE j == held[w]
           js == [jobStatus EXCEPT ![j] = s]
<1>1. js \in [Job -> JobStatus] /\ j \in Job /\ jobStatus[j] \in Active /\ CloseOut(j, js, ts)
  BY DEF TypeOK
<1>2. \A k \in Job : js[k] = (IF k = j THEN s ELSE jobStatus[k])
  BY DEF TypeOK
<1>3. /\ \A k \in Discovered(BatchOf(j), TargetOf(j), js, ts) :
           BatchOf(k) = BatchOf(j) /\ batchStatus[BatchOf(j)] \in Live
  BY DEF Discovered
<1> HIDE DEF j, js
<1>4. /\ jobStatus' \in [Job -> JobStatus]
      /\ \A k \in Job :
              \/ jobStatus'[k] = js[k]
              \/ js[k] = "queued" /\ jobStatus'[k] = "cancelled"
              \/ /\ js[k] = "none" /\ jobStatus'[k] \in {"queued", "cancelled"}
                 /\ k \in Discovered(BatchOf(j), TargetOf(j), js, ts)
      /\ \A b \in Batch :
              \/ batchStatus'[b] = batchStatus[b]
              \/ /\ batchStatus[b] \in Live /\ batchStatus'[b] \in Settled
                 /\ \A k \in Job : BatchOf(k) = b => jobStatus'[k] \notin Open
  BY <1>1, CloseOutFacts
<1>5. \A k \in Job : JobMove(k)
  BY <1>1, <1>2, <1>4 DEF JobMove
<1>6. DomainMove
  BY <1>1, <1>2, <1>4 DEF DomainMove
<1>7. \A b \in Batch : BatchMove(b)
  BY <1>1, <1>2, <1>3, <1>4 DEF BatchMove, Closes
<1> QED BY <1>5, <1>6, <1>7 DEF Moves

(* Every step of the system is made of the named moves.                    *)
LEMMA NextMoves ==
  ASSUME QueueInv, Next
  PROVE  Moves
<1> USE DEF projectVars, batchVars, jobVars, targetVars, workerVars, txVars
<1>0. TypeOK /\ HeldWhileWorking /\ FreshBatchIsEmpty
  BY DEF QueueInv
<1>1. ASSUME NEW p \in Project,
             RefreshOrganizations(p) \/ GenerateDiscoveryTargets(p)
      PROVE  Moves
  BY <1>1, StillMoves DEF RefreshOrganizations, GenerateDiscoveryTargets
<1>2. ASSUME NEW p \in Project, ResumeCommit(p)
      PROVE  Moves
  <2>1. \A j \in resuming[p] : jobStatus[j] = "policy_hold"
    BY <1>2 DEF QueueInv, LockedAsFound
  <2> QED BY <1>0, <1>2, <2>1
          DEF ResumeCommit, Reopened, Moves, JobMove, DomainMove, BatchMove, TypeOK
<1>3. ASSUME NEW p \in Project, NEW s \in {"active", "paused", "completed", "cancelled"},
             SetStatus(p, s)
      PROVE  Moves
  BY <1>0, <1>3 DEF SetStatus, Moves, JobMove, DomainMove, BatchMove, TypeOK
<1>4. ASSUME NEW b \in Batch, CreateApprovedRun(b)
      PROVE  Moves
  BY <1>0, <1>4, NewBatchMoves DEF CreateApprovedRun
<1>5. ASSUME NEW b \in Batch, CreateApprovedBatch(b)
      PROVE  Moves
  BY <1>0, <1>5, NewBatchMoves DEF CreateApprovedBatch
<1>6. ASSUME NEW t \in Target, ReviewPolicy(t)
      PROVE  Moves
  BY <1>6, StillMoves DEF ReviewPolicy
<1>7. ASSUME NEW w \in Worker, NEW bs \in ClaimScopes, ClaimNothing(w, bs) \/ ClaimJob(w, bs)
      PROVE  Moves
  BY <1>7, ClaimNothingMoves, ClaimJobMoves
<1>8. ASSUME NEW w \in Worker, MarkJobRunning(w)
      PROVE  Moves
  BY <1>0, <1>8 DEF MarkJobRunning, Moves, JobMove, DomainMove, BatchMove, TypeOK
<1>9. ASSUME NEW w \in Worker, ReserveRequest(w)
      PROVE  Moves
  BY <1>9, StillMoves DEF ReserveRequest
<1>10. ASSUME NEW w \in Worker, NEW t \in Target, NEW s,
              RecordTarget(w, t) \/ RecordBlocked(w, t, s)
       PROVE  Moves
  BY <1>10, StillMoves DEF RecordTarget, RecordBlocked
<1>11. ASSUME NEW w \in Worker, CompleteJob(w)
       PROVE  Moves
  <2> DEFINE ts == [targetStatus EXCEPT ![TargetOf(held[w])] =
                      IF KindOf(held[w]) = "discovery" THEN "ready" ELSE "crawled"]
  <2>1. /\ held[w] \in Job /\ jobStatus[held[w]] \in Active
        /\ CloseOut(held[w], [jobStatus EXCEPT ![held[w]] = "completed"], ts)
        /\ UNCHANGED overtaken
    BY <1>0, <1>11 DEF CompleteJob, OwnsLease, Owns, HeldWhileWorking
  <2>2. ts \in [Target -> TargetStatus]
    BY <1>0 DEF TypeOK
  <2> HIDE DEF ts
  <2> QED BY <1>0, <2>1, <2>2, CloseMoves
<1>12. ASSUME NEW w \in Worker, ContinueJob(w)
       PROVE  Moves
  BY <1>0, <1>12 DEF ContinueJob, OwnsLease, Owns, Moves, JobMove, DomainMove, BatchMove, TypeOK
<1>13. ASSUME NEW w \in Worker, NEW r \in BOOLEAN, FailJob(w, r)
       PROVE  Moves
  <2> DEFINE retry == r /\ attemptCount[held[w]] < MaxAttempts
             s == IF retry THEN "queued" ELSE "failed"
             ts == [targetStatus EXCEPT ![TargetOf(held[w])] =
                      IF retry THEN "ready" ELSE "failed"]
  <2>1. /\ held[w] \in Job /\ jobStatus[held[w]] \in Active
        /\ CloseOut(held[w], [jobStatus EXCEPT ![held[w]] = s], ts)
        /\ UNCHANGED overtaken
    BY <1>0, <1>13 DEF FailJob, Owns, HeldWhileWorking
  <2>2. ts \in [Target -> TargetStatus] /\ s \in {"completed", "queued", "failed"}
    BY <1>0 DEF TypeOK
  <2> HIDE DEF ts, s
  <2> QED BY <1>0, <2>1, <2>2, CloseMoves
<1>14. ASSUME NEW w \in Worker, BlockCommit(w)
       PROVE  Moves
  <2>1. /\ held[w] \in Job /\ Owns(w, held[w]) /\ UNCHANGED overtaken
        /\ jobStatus' = [jobStatus EXCEPT ![held[w]] =
                           IF pc[w] = "policy_hold" THEN "policy_hold" ELSE "failed"]
        /\ batchStatus' = Settle(found[w])
    BY <1>0, <1>14 DEF BlockCommit, Blocking, QueueInv, LockedAsFound, HeldWhileWorking
  <2>2. jobStatus[held[w]] \in Active
    BY <2>1 DEF Owns
  <2>3. /\ jobStatus' \in [Job -> JobStatus]
        /\ jobStatus'[held[w]] \in {"policy_hold", "failed"}
        /\ \A j \in Job \ {held[w]} : jobStatus'[j] = jobStatus[j]
    BY <1>0, <2>1 DEF TypeOK
  <2>4. \A b \in found[w] \ overtaken : \A j \in Job :
           BatchOf(j) = b /\ j # held[w] => jobStatus[j] \notin Open
    BY <1>0, <1>14, <2>1 DEF BlockCommit, QueueInv, CountsHold, NothingOpen, TypeOK
  <2>5. \A b \in Batch : batchStatus'[b] = batchStatus[b] \/ Closes(b)
    BY <1>0, <2>1, <2>3, <2>4, SettleFacts DEF Closes
  <2>6. \A j \in Job : JobMove(j)
    BY <2>2, <2>3 DEF JobMove
  <2>7. DomainMove
    BY <2>3 DEF DomainMove
  <2>8. \A b \in Batch : BatchMove(b)
    BY <2>2, <2>3, <2>5 DEF BatchMove
  <2> QED BY <2>1, <2>6, <2>7, <2>8 DEF Moves
<1>15. ASSUME NEW w \in Worker, Throw(w) \/ Abandon(w) \/ Crash(w)
       PROVE  Moves
  BY <1>15, StillMoves DEF Throw, Abandon, Crash
<1>16. ASSUME NEW j \in Job, LeaseRunsOut(j)
       PROVE  Moves
  BY <1>16, StillMoves DEF LeaseRunsOut
<1>17. ASSUME NEW b \in Batch, RunExpires(b)
       PROVE  Moves
  BY <1>17, StillMoves DEF RunExpires
<1>18. ASSUME NEW p \in Project, ResumePolicyHolds(p) \/ ResumeAbort(p)
       PROVE  Moves
  BY <1>18, StillMoves DEF ResumePolicyHolds, ResumeAbort
<1>19. ASSUME NEW w \in Worker,
              \/ \E bs \in ClaimScopes, j \in Job : Hold(w, bs, j)
              \/ \E o \in {"policy_hold", "blocked"} : BlockJob(w, o)
       PROVE  Moves
  BY <1>19, StillMoves DEF Hold, BlockJob
<1> QED
  BY <1>1, <1>2, <1>3, <1>4, <1>5, <1>6, <1>7, <1>8, <1>9, <1>10, <1>11, <1>12, <1>13,
     <1>14, <1>15, <1>16, <1>17, <1>18, <1>19
  DEF Next, Operate, Claim, EndClaim, Work, Discover, Report, Expire

----------------------------------------------------------------------------
(* The inductive invariant.                                                *)

(* The invariant holds before anything was approved.                       *)
LEMMA InvInit == Init => QueueInv
<1> SUFFICES ASSUME Init PROVE QueueInv
  OBVIOUS
<1>1. TypeOK /\ HeldWhileWorking
  BY TypeInit
<1>2. FreshBatchIsEmpty /\ OneActivePerDomain /\ ClaimComplete
  BY DEF Init, FreshBatchIsEmpty, OneActivePerDomain, ClaimComplete
<1>3. SettledBatchIsDrained /\ RunBudget /\ ScopeIsFrozen
  BY JobParts DEF Init, SettledBatchIsDrained, RunBudget, ScopeIsFrozen
<1>4. OneClaimAtATime /\ LockedAsFound /\ CountsHold
  BY DEF Init, NoClaim, Blocking, OneClaimAtATime, LockedAsFound, CountsHold
<1> QED BY <1>1, <1>2, <1>3, <1>4 DEF QueueInv

(* The moves alone keep lanes exclusive and finished batches drained.      *)
LEMMA DomainKept ==
  ASSUME OneActivePerDomain, DomainMove
  PROVE  OneActivePerDomain'
BY JobParts DEF OneActivePerDomain, DomainMove, DomainKey

(* A batch is only closed when drained, and only reopened as queued.       *)
LEMMA DrainedKept ==
  ASSUME SettledBatchIsDrained, Moves
  PROVE  SettledBatchIsDrained'
BY JobParts DEF SettledBatchIsDrained, Moves, BatchMove, Closes

(* What the transactions in flight rely on while another step is taken:    *)
(* nothing moves a row they locked, and a job opens only in a fresh batch, *)
(* beside an active job nobody has locked, or by a resume that is noted.   *)
Keep(j) ==
  /\ jobStatus'[j] = jobStatus[j] /\ claimToken'[j] = claimToken[j]
  /\ lease[j] = "expired" => lease'[j] = "expired"
Opens(j) ==
  \/ batchStatus[BatchOf(j)] = "none"
  \/ \E k \in Job : /\ BatchOf(k) = BatchOf(j) /\ jobStatus[k] \in Active
                    /\ claim.jobs[k] = "none"
                    /\ \A v \in Worker : pc[v] \in Blocking => held[v] # k
  \/ /\ BatchOf(j) \notin claim.ended
     /\ \A v \in Worker : BatchOf(j) \in found[v] => BatchOf(j) \in overtaken'
Undisturbed ==
  /\ \/ claim' = claim /\ \A v \in Worker : pc[v] = "claiming" => pc'[v] = "claiming"
     \/ claim' = NoClaim /\ \A v \in Worker : pc'[v] # "claiming"
  /\ \A p \in Project : resuming'[p] \subseteq resuming[p]
  /\ overtaken \subseteq overtaken'
  /\ \A v \in Worker : \/ pc'[v] = pc[v] /\ held'[v] = held[v] /\ found'[v] = found[v]
                       \/ pc'[v] \notin Blocking \cup {"claiming"} /\ found'[v] = {}
  /\ \A j \in Job : claim'.jobs[j] # "none" => Keep(j)
  /\ \A p \in Project : \A j \in resuming'[p] : Keep(j)
  /\ \A v \in Worker : pc'[v] \in Blocking => Keep(held[v])
  /\ \A j \in Job : jobStatus'[j] \in Open => jobStatus[j] \in Open \/ Opens(j)

(* Undisturbed, a transaction finds everything as it left it.              *)
LEMMA UndisturbedKeeps ==
  ASSUME QueueInv, TypeOK', Undisturbed, \A b \in Batch : BatchMove(b)
  PROVE  OneClaimAtATime' /\ LockedAsFound' /\ CountsHold'
<1>0. /\ TypeOK /\ HeldWhileWorking /\ OneClaimAtATime /\ LockedAsFound /\ CountsHold
  BY DEF QueueInv
<1>1. \A b \in Batch : batchStatus[b] # "none" => batchStatus'[b] # "none"
  BY DEF BatchMove, Closes
<1>2. OneClaimAtATime'
  <2>1. \A v, w \in Worker : pc'[v] = "claiming" /\ pc'[w] = "claiming" => v = w
    BY <1>0 DEF Undisturbed, OneClaimAtATime
  <2>2. (\A w \in Worker : pc'[w] # "claiming") => claim' = NoClaim
    BY <1>0 DEF Undisturbed, OneClaimAtATime
  <2>3. ASSUME NEW w \in Worker
        PROVE  /\ found'[w] # {} => pc'[w] \in Blocking \cup {"claiming"}
               /\ pc'[w] \in Blocking => found'[w] \subseteq {BatchOf(held'[w])}
               /\ \A b \in found'[w] : batchStatus'[b] # "none"
    <3>1. CASE pc'[w] = pc[w] /\ held'[w] = held[w] /\ found'[w] = found[w]
      <4>1. found[w] \subseteq Batch
        BY <1>0 DEF TypeOK
      <4> QED BY <1>0, <1>1, <3>1, <4>1 DEF OneClaimAtATime
    <3>2. CASE pc'[w] \notin Blocking \cup {"claiming"} /\ found'[w] = {}
      BY <3>2
    <3> QED BY <3>1, <3>2 DEF Undisturbed
  <2> QED BY <2>1, <2>2, <2>3 DEF OneClaimAtATime
<1>3. ASSUME NEW w \in Worker, pc'[w] \in Blocking
      PROVE  /\ pc[w] = pc'[w] /\ held'[w] = held[w] /\ found'[w] = found[w]
             /\ held[w] \in Job /\ Owns(w, held[w]) /\ claim.jobs[held[w]] = "none"
  <2>1. pc[w] = pc'[w] /\ held'[w] = held[w] /\ found'[w] = found[w]
    BY <1>3 DEF Undisturbed
  <2> QED BY <1>0, <1>3, <2>1 DEF LockedAsFound, HeldWhileWorking, Blocking
<1>4. \A j \in Job : claim'.jobs[j] # "none" => claim' = claim
  BY DEF Undisturbed, NoClaim
<1>5. LockedAsFound'
  <2>1. ASSUME NEW j \in Job, claim'.jobs[j] # "none"
        PROVE  \/ /\ LeaseExpired(j)'
                  /\ claim'.jobs[j] \in {"queued", "failed", "cancelled", "policy_hold"}
               \/ jobStatus'[j] = "queued" /\ claim'.jobs[j] \in {"cancelled", "policy_hold"}
    <3>1. Keep(j) /\ claim' = claim
      BY <1>4, <2>1 DEF Undisturbed
    <3> QED BY <1>0, <2>1, <3>1 DEF LockedAsFound, LeaseExpired, Keep
  <2>2. ASSUME NEW p \in Project, NEW j \in resuming'[p]
        PROVE  Owner(j) = p /\ jobStatus'[j] = "policy_hold"
    <3>1. j \in resuming[p] /\ Keep(j)
      BY <2>2 DEF Undisturbed
    <3> QED BY <1>0, <3>1 DEF LockedAsFound, Keep
  <2>3. ASSUME NEW w \in Worker, pc'[w] \in Blocking
        PROVE  Owns(w, held[w])' /\ claim'.jobs[held'[w]] = "none"
    <3>1. Keep(held[w]) /\ held'[w] = held[w] /\ Owns(w, held[w])
      BY <1>3, <2>3 DEF Undisturbed
    <3>2. claim'.jobs[held[w]] = "none"
      BY <1>3, <1>4, <2>3
    <3> QED BY <3>1, <3>2 DEF Owns, Keep
  <2> QED BY <2>1, <2>2, <2>3 DEF LockedAsFound
<1>6. CountsHold'
  <2>1. ASSUME NEW b \in Batch, claim' = claim, NothingOpen(b, Read(claim)),
               batchStatus[b] # "none",
               \/ b \in claim.ended
               \/ \E w \in Worker : b \in found[w] /\ b \notin overtaken'
        PROVE  NothingOpen(b, Read(claim)')
    <3> SUFFICES ASSUME NEW j \in Job, BatchOf(j) = b, Read(claim)'[j] \in Open PROVE FALSE
      BY DEF NothingOpen
    <3>1. Read(claim)[j] \notin Open
      BY <2>1 DEF NothingOpen
    <3>2. claim.jobs[j] = "none" /\ jobStatus'[j] \in Open /\ jobStatus[j] \notin Open
      BY <2>1, <3>1 DEF Read
    <3>3. PICK k \in Job : /\ BatchOf(k) = b /\ jobStatus[k] \in Active
                           /\ claim.jobs[k] = "none"
      BY <2>1, <3>2 DEF Undisturbed, Opens
    <3>4. Read(claim)[k] \in Open
      BY <3>3 DEF Read
    <3> QED BY <2>1, <3>3, <3>4 DEF NothingOpen
  <2>2. ASSUME NEW b \in claim'.ended
        PROVE  NothingOpen(b, Read(claim)') /\ batchStatus'[b] # "none"
    <3>1. claim' = claim
      BY <2>2 DEF Undisturbed, NoClaim
    <3>2. b \in Batch /\ NothingOpen(b, Read(claim)) /\ batchStatus[b] # "none"
      BY <1>0, <2>2, <3>1 DEF CountsHold, TypeOK
    <3> QED BY <1>1, <2>1, <2>2, <3>1, <3>2
  <2>3. ASSUME NEW w \in Worker, NEW b \in found'[w] \ overtaken', pc'[w] \notin Blocking
        PROVE  NothingOpen(b, Read(claim)')
    <3>1. /\ pc'[w] = pc[w] /\ found'[w] = found[w] /\ pc[w] = "claiming" /\ claim' = claim
      BY <1>0, <2>3 DEF Undisturbed, OneClaimAtATime
    <3>2. b \in Batch /\ b \notin overtaken /\ batchStatus[b] # "none"
      BY <1>0, <2>3, <3>1 DEF TypeOK, OneClaimAtATime, Undisturbed
    <3>3. NothingOpen(b, Read(claim))
      BY <1>0, <2>3, <3>1, <3>2 DEF CountsHold
    <3> QED BY <2>1, <2>3, <3>1, <3>2, <3>3
  <2>4. ASSUME NEW w \in Worker, NEW b \in found'[w] \ overtaken', pc'[w] \in Blocking
        PROVE  NothingOpen(b, [jobStatus' EXCEPT ![held'[w]] = "failed"])
    <3>1. /\ pc[w] = pc'[w] /\ held'[w] = held[w] /\ b \in found[w] /\ held[w] \in Job
          /\ b \in Batch /\ b \notin overtaken /\ batchStatus[b] # "none"
      BY <1>0, <1>3, <2>4 DEF TypeOK, OneClaimAtATime, Undisturbed
    <3>2. NothingOpen(b, [jobStatus EXCEPT ![held[w]] = "failed"])
      BY <1>0, <2>4, <3>1 DEF CountsHold
    <3>3. \A k \in Job : BatchOf(k) = b /\ k # held[w] => jobStatus[k] \notin Open
      BY <1>0, <3>1, <3>2 DEF NothingOpen, TypeOK
    <3> SUFFICES ASSUME NEW j \in Job, BatchOf(j) = b,
                        [jobStatus' EXCEPT ![held[w]] = "failed"][j] \in Open
                 PROVE  FALSE
      BY <3>1 DEF NothingOpen
    <3>4. j # held[w] /\ jobStatus'[j] \in Open
      BY DEF TypeOK
    <3>5. Opens(j)
      BY <3>3, <3>4 DEF Undisturbed
    <3> QED BY <2>4, <3>1, <3>3, <3>5 DEF Opens
  <2> QED BY <2>2, <2>3, <2>4 DEF CountsHold
<1> QED BY <1>2, <1>5, <1>6


(* A step that leaves claims, leases and statuses disturbs nobody.         *)
LEMMA TablesAtRest ==
  ASSUME QueueInv, UNCHANGED <<jobStatus, claimToken, overtaken>>,
         \A j \in Job : lease[j] = "expired" => lease'[j] = "expired",
         \/ claim' = claim /\ \A v \in Worker : pc[v] = "claiming" => pc'[v] = "claiming"
         \/ claim' = NoClaim /\ \A v \in Worker : pc'[v] # "claiming",
         \A p \in Project : resuming'[p] \subseteq resuming[p],
         \A v \in Worker : \/ pc'[v] = pc[v] /\ held'[v] = held[v] /\ found'[v] = found[v]
                           \/ pc'[v] \notin Blocking \cup {"claiming"} /\ found'[v] = {}
  PROVE  Undisturbed
<1>1. \A j \in Job : Keep(j)
  BY DEF Keep
<1>2. \A v \in Worker : pc'[v] \in Blocking => held[v] \in Job
  BY DEF QueueInv, HeldWhileWorking, Blocking
<1>3. \A p \in Project : resuming[p] \subseteq Job
  BY DEF QueueInv, TypeOK
<1> QED BY <1>1, <1>2, <1>3 DEF Undisturbed

(* A slot that reports its job disturbs no other: it reports what no other *)
(* transaction has locked.                                                 *)
LEMMA ReportDisturbsNobody ==
  ASSUME QueueInv, NEW w \in Worker, held[w] \in Job, Owns(w, held[w]), pc[w] # "claiming",
         claim.jobs[held[w]] = "none", Release(w),
         UNCHANGED <<claim, resuming, overtaken>>,
         \A j \in Job \ {held[w]} : /\ claimToken'[j] = claimToken[j] /\ lease'[j] = lease[j]
                                    /\ j \in LockedJobs => jobStatus'[j] = jobStatus[j],
         \A j \in Job : jobStatus'[j] \in Open =>
            \/ jobStatus[j] \in Open
            \/ BatchOf(j) = BatchOf(held[w]) /\ pc[w] \notin Blocking
  PROVE  Undisturbed
<1>0. TypeOK /\ HeldWhileWorking /\ LockedAsFound
  BY DEF QueueInv
<1>1. /\ \A v \in Worker \ {w} : pc'[v] = pc[v] /\ held'[v] = held[v] /\ found'[v] = found[v]
      /\ pc'[w] = "idle" /\ found'[w] = {}
  BY <1>0 DEF Release, TypeOK
<1>2. \A j \in Job \ {held[w]} : j \in LockedJobs => Keep(j)
  BY DEF Keep
<1>3. \A j \in Job : claim.jobs[j] # "none" => Keep(j)
  BY <1>2 DEF LockedJobs
<1>4. \A p \in Project : \A j \in resuming[p] : Keep(j)
  <2> SUFFICES ASSUME NEW p \in Project, NEW j \in resuming[p] PROVE Keep(j)
    OBVIOUS
  <2>1. j \in Job /\ jobStatus[j] = "policy_hold"
    BY <1>0 DEF LockedAsFound, TypeOK
  <2> QED BY <1>2, <2>1 DEF LockedJobs, Owns
<1>5. \A v \in Worker \ {w} : pc[v] \in Blocking =>
         held[v] \in Job /\ held[v] # held[w] /\ Keep(held[v])
  <2> SUFFICES ASSUME NEW v \in Worker \ {w}, pc[v] \in Blocking
               PROVE  held[v] \in Job /\ held[v] # held[w] /\ Keep(held[v])
    OBVIOUS
  <2>1. held[v] \in Job /\ Owns(v, held[v])
    BY <1>0 DEF LockedAsFound, HeldWhileWorking, Blocking
  <2> QED BY <1>2, <2>1 DEF LockedJobs, Owns
<1>6. "idle" \notin Blocking /\ "claiming" \notin Blocking
  BY DEF Blocking
<1>7. \A j \in Job : jobStatus'[j] \in Open => jobStatus[j] \in Open \/ Opens(j)
  <2> SUFFICES ASSUME NEW j \in Job, BatchOf(j) = BatchOf(held[w]), pc[w] \notin Blocking
               PROVE  Opens(j)
    OBVIOUS
  <2>1. \A v \in Worker : pc[v] \in Blocking => held[v] # held[w]
    BY <1>5
  <2>2. jobStatus[held[w]] \in Active
    BY DEF Owns
  <2> QED BY <2>1, <2>2 DEF Opens
<1>8. \A v \in Worker : pc[v] = "claiming" => pc'[v] = "claiming"
  BY <1>1
<1>9. \A v \in Worker : pc'[v] \in Blocking => Keep(held[v])
  BY <1>1, <1>5, <1>6
<1>10. \A v \in Worker : \/ pc'[v] = pc[v] /\ held'[v] = held[v] /\ found'[v] = found[v]
                         \/ pc'[v] \notin Blocking \cup {"claiming"} /\ found'[v] = {}
  BY <1>1, <1>6
<1> QED BY <1>3, <1>4, <1>7, <1>8, <1>9, <1>10 DEF Undisturbed

(* A claim that commits disturbs nobody: what it wrote it had locked.      *)
LEMMA ClaimDisturbsNobody ==
  ASSUME QueueInv, NEW w \in Worker, NEW bs \in ClaimScopes, EndClaim(w, bs)
  PROVE  Undisturbed
<1>0. TypeOK /\ HeldWhileWorking /\ LockedAsFound
  BY DEF QueueInv
<1>1. PICK x \in Transactions(w, bs) :
        \/ jobStatus' = Read(x) /\ claimToken' = TokensLeft(x) /\ lease' = LeasesLeft(x)
        \/ \E c \in Candidates(x) : Grant(w, x, c)
  BY DEF EndClaim, ClaimNothing, ClaimJob
<1>2. /\ claim' = NoClaim /\ UNCHANGED <<resuming, overtaken>>
      /\ pc' = [pc EXCEPT ![w] = "idle"] \/ pc' = [pc EXCEPT ![w] = "claimed"]
      /\ found' = [found EXCEPT ![w] = {}]
  BY DEF EndClaim, ClaimNothing, ClaimJob, Release
<1>3. \A v \in Worker \ {w} : held'[v] = held[v]
  <2>1. ASSUME NEW y, NEW c, Grant(w, y, c) PROVE held' = [held EXCEPT ![w] = c]
    BY <2>1 DEF Grant
  <2>2. \/ held' = [held EXCEPT ![w] = NoJob]
        \/ \E y, c : Grant(w, y, c)
    BY DEF EndClaim, ClaimNothing, ClaimJob, Release
  <2> QED BY <1>0, <2>1, <2>2 DEF TypeOK
<1>4. ASSUME NEW j \in Job, x.jobs[j] = "none", j \notin Candidates(x)
      PROVE  Keep(j)
  <2>1. CASE jobStatus' = Read(x) /\ claimToken' = TokensLeft(x) /\ lease' = LeasesLeft(x)
    BY <1>4, <2>1 DEF Read, TokensLeft, LeasesLeft, SweptRow, Keep
  <2>2. ASSUME NEW c \in Candidates(x), Grant(w, x, c) PROVE Keep(j)
    BY <1>4, <2>2 DEF Grant, Read, TokensLeft, LeasesLeft, SweptRow, Keep
  <2> QED BY <1>1, <2>1, <2>2
<1>5. \A j \in Job : jobStatus'[j] \in Open => jobStatus[j] \in Open
  <2>1. \A c \in Candidates(x) : c \in Job /\ jobStatus[c] \in Open
    BY CandidateFacts
  <2>2. /\ Read(x) \in [Job -> JobStatus]
        /\ \A j \in Job : Read(x)[j] \in Open => jobStatus[j] \in Open
    BY ReadFacts DEF LeaseExpired
  <2>3. \A c \in Candidates(x) : Grant(w, x, c) => jobStatus' = [Read(x) EXCEPT ![c] = "claimed"]
    BY DEF Grant
  <2> QED BY <1>1, <2>1, <2>2, <2>3
<1>6. \A p \in Project : \A j \in resuming[p] : Keep(j)
  <2> SUFFICES ASSUME NEW p \in Project, NEW j \in resuming[p] PROVE Keep(j)
    OBVIOUS
  <2>1. j \in Job /\ jobStatus[j] = "policy_hold"
    BY <1>0 DEF LockedAsFound, TypeOK
  <2>2. x.jobs[j] = "none" /\ j \notin Candidates(x)
    BY <2>1, ReadFacts, CandidateFacts DEF LeaseExpired
  <2> QED BY <1>4, <2>1, <2>2
<1>7. ASSUME NEW v \in Worker \ {w}, pc[v] \in Blocking
      PROVE  Keep(held[v])
  <2>1. held[v] \in Job /\ x.jobs[held[v]] = "none" /\ jobStatus[held[v]] \in Active
    BY <1>0, <1>7, ReadFacts DEF LockedAsFound, HeldWhileWorking, Blocking, Owns
  <2>2. held[v] \notin Candidates(x)
    BY <2>1 DEF Candidates, Read
  <2> QED BY <1>4, <2>1, <2>2
<1>8. /\ pc[w] \notin Blocking /\ "idle" \notin Blocking /\ "claimed" \notin Blocking
      /\ \A v \in Worker \ {w} : pc[v] # "claiming"
  BY ReadFacts DEF Blocking
<1>9. /\ \A v \in Worker \ {w} : pc'[v] = pc[v] /\ found'[v] = found[v]
      /\ pc'[w] \in {"idle", "claimed"} /\ found'[w] = {}
  BY <1>0, <1>2 DEF TypeOK
<1>10. \A j \in Job : claim'.jobs[j] = "none"
  BY <1>2 DEF NoClaim
<1>11. \A v \in Worker : pc'[v] # "claiming"
  BY <1>8, <1>9
<1>12. \A v \in Worker : pc'[v] \in Blocking => Keep(held[v])
  BY <1>7, <1>8, <1>9
<1>13. \A v \in Worker : \/ pc'[v] = pc[v] /\ held'[v] = held[v] /\ found'[v] = found[v]
                         \/ pc'[v] \notin Blocking \cup {"claiming"} /\ found'[v] = {}
  BY <1>3, <1>8, <1>9
<1> QED BY <1>2, <1>5, <1>6, <1>10, <1>11, <1>12, <1>13 DEF Undisturbed

(* A held claim of a valid lease is not among the rows a claim has locked. *)
LEMMA ValidIsUnlocked ==
  ASSUME QueueInv, NEW w \in Worker, held[w] \in Job, OwnsLease(w, held[w])
  PROVE  claim.jobs[held[w]] = "none"
BY DEF QueueInv, LockedAsFound, OwnsLease, Owns, LeaseExpired

(* Every step but those that lock or count disturbs no transaction.        *)
LEMMA OthersDisturbNobody ==
  ASSUME QueueInv, Next
  PROVE  \/ Undisturbed
         \/ \E w \in Worker, bs \in ClaimScopes, j \in Job : Hold(w, bs, j)
         \/ \E w \in Worker, o \in {"policy_hold", "blocked"} : BlockJob(w, o)
         \/ \E p \in Project : ResumePolicyHolds(p)
<1> USE DEF projectVars, batchVars, jobVars, targetVars, workerVars, txVars
<1>0. /\ TypeOK /\ HeldWhileWorking /\ LockedAsFound /\ FreshBatchIsEmpty
      /\ jobStatus \in [Job -> JobStatus] /\ targetStatus \in [Target -> TargetStatus]
  BY DEF QueueInv, TypeOK
<1>1. ASSUME \/ \E p \in Project : RefreshOrganizations(p) \/ GenerateDiscoveryTargets(p)
             \/ \E t \in Target : ReviewPolicy(t)
             \/ \E w \in Worker : ReserveRequest(w) \/ Discover(w)
             \/ \E b \in Batch : RunExpires(b)
      PROVE  UNCHANGED <<jobStatus, claimToken, lease, claim, resuming, overtaken, workerVars>>
  BY <1>1 DEF RefreshOrganizations, GenerateDiscoveryTargets, ReviewPolicy, ReserveRequest,
     Discover, RecordTarget, RecordBlocked, RunExpires
<1>2. ASSUME UNCHANGED <<jobStatus, claimToken, lease, claim, resuming, overtaken, workerVars>>
      PROVE  Undisturbed
  BY <1>2, TablesAtRest
<1>3. ASSUME NEW j \in Job, LeaseRunsOut(j)
      PROVE  Undisturbed
  <2>1. \A k \in Job : lease[k] = "expired" => lease'[k] = "expired"
    BY <1>0, <1>3 DEF LeaseRunsOut, TypeOK
  <2> QED BY <1>3, <2>1, TablesAtRest DEF LeaseRunsOut
<1>4. ASSUME NEW p \in Project, ResumeAbort(p)
      PROVE  Undisturbed
  <2>1. \A q \in Project : resuming'[q] \subseteq resuming[q]
    BY <1>0, <1>4 DEF ResumeAbort, TypeOK
  <2> QED BY <1>4, <2>1, TablesAtRest DEF ResumeAbort
<1>5. ASSUME NEW w \in Worker, Throw(w) \/ Abandon(w) \/ Crash(w)
      PROVE  Undisturbed
  <2>1. /\ UNCHANGED <<jobStatus, claimToken, lease, resuming, overtaken>>
        /\ \A v \in Worker \ {w} : pc'[v] = pc[v] /\ held'[v] = held[v] /\ found'[v] = found[v]
        /\ pc'[w] \in {"idle", "failing"} /\ found'[w] = {}
    BY <1>0, <1>5 DEF Throw, Abandon, Crash, Release, TypeOK
  <2>2. \/ claim' = claim /\ pc[w] # "claiming"
        \/ claim' = NoClaim /\ pc[w] = "claiming"
    BY <1>5 DEF Throw, Abandon, Crash, Blocking
  <2>3. \/ claim' = claim /\ \A v \in Worker : pc[v] = "claiming" => pc'[v] = "claiming"
        \/ claim' = NoClaim /\ \A v \in Worker : pc'[v] # "claiming"
    BY <2>1, <2>2 DEF QueueInv, OneClaimAtATime
  <2>4. \A v \in Worker : \/ pc'[v] = pc[v] /\ held'[v] = held[v] /\ found'[v] = found[v]
                          \/ pc'[v] \notin Blocking \cup {"claiming"} /\ found'[v] = {}
    BY <2>1 DEF Blocking
  <2> QED BY <2>1, <2>3, <2>4, TablesAtRest
<1>6. ASSUME NEW p \in Project, NEW s \in {"active", "paused", "completed", "cancelled"},
             SetStatus(p, s)
      PROVE  Undisturbed
  <2>1. \A j \in Job : /\ claimToken'[j] = claimToken[j] /\ lease'[j] = lease[j]
                       /\ jobStatus'[j] \in Open => jobStatus[j] \in Open
                       /\ j \in LockedJobs => jobStatus'[j] = jobStatus[j]
    BY <1>0, <1>6 DEF SetStatus, LocksRespected, TypeOK
  <2>2. \A j \in LockedJobs : Keep(j)
    BY <2>1 DEF LockedJobs, Keep
  <2>3. /\ \A v \in Worker : pc[v] \in Blocking => held[v] \in Job
        /\ \A q \in Project : resuming[q] \subseteq Job
    BY <1>0 DEF HeldWhileWorking, Blocking, TypeOK
  <2>4. UNCHANGED <<pc, held, found, claim, resuming, overtaken>>
    BY <1>6 DEF SetStatus
  <2> QED BY <2>1, <2>2, <2>3, <2>4 DEF LockedJobs, Undisturbed
<1>7. ASSUME NEW b \in Batch, NEW js, NewBatch(b, js), \A j \in js : BatchOf(j) = b
      PROVE  Undisturbed
  <2>1. \A j \in Job : /\ claimToken'[j] = claimToken[j] /\ lease'[j] = lease[j]
                       /\ \/ jobStatus'[j] = jobStatus[j]
                          \/ BatchOf(j) = b /\ batchStatus[b] = "none" /\ jobStatus[j] = "none"
    BY <1>0, <1>7 DEF NewBatch, FreshBatchIsEmpty
  <2>2. /\ \A v \in Worker : pc[v] \in Blocking => held[v] \in Job /\ jobStatus[held[v]] # "none"
        /\ \A q \in Project : \A j \in resuming[q] : j \in Job /\ jobStatus[j] # "none"
        /\ \A j \in Job : claim.jobs[j] # "none" => jobStatus[j] # "none"
    BY <1>0 DEF HeldWhileWorking, LockedAsFound, LeaseExpired, Owns, Blocking, TypeOK
  <2>3. UNCHANGED <<pc, held, found, claim, resuming, overtaken>>
    BY <1>7 DEF NewBatch
  <2>4. \A j \in Job : jobStatus[j] # "none" => Keep(j)
    BY <2>1 DEF Keep
  <2>5. \A j \in Job : jobStatus'[j] \in Open => jobStatus[j] \in Open \/ Opens(j)
    BY <2>1 DEF Opens
  <2> QED BY <2>2, <2>3, <2>4, <2>5 DEF Undisturbed
<1>8. \A b \in Batch : CreateApprovedRun(b) \/ CreateApprovedBatch(b) =>
         \E js : NewBatch(b, js) /\ \A j \in js : BatchOf(j) = b
  BY DEF CreateApprovedRun, CreateApprovedBatch
<1>9. ASSUME NEW p \in Project, ResumeCommit(p)
      PROVE  Undisturbed
  <2>1. \A j \in Job : /\ claimToken'[j] = claimToken[j] /\ lease'[j] = lease[j]
                       /\ jobStatus'[j] = (IF j \in resuming[p] THEN "queued" ELSE jobStatus[j])
    BY <1>9 DEF ResumeCommit
  <2>2. /\ resuming[p] \subseteq Job /\ resuming'[p] = {}
        /\ \A q \in Project \ {p} : resuming'[q] = resuming[q]
    BY <1>0, <1>9 DEF ResumeCommit, TypeOK
  <2>3. \A j \in Job \ resuming[p] : Keep(j)
    BY <2>1 DEF Keep
  <2>4. /\ \A v \in Worker : pc[v] \in Blocking => held[v] \in Job \ resuming[p]
        /\ \A j \in Job : claim.jobs[j] # "none" => j \notin resuming[p]
        /\ \A q \in Project \ {p} : \A j \in resuming[q] : j \in Job \ resuming[p]
    BY <1>0 DEF HeldWhileWorking, LockedAsFound, LeaseExpired, Owns, Blocking, TypeOK
  <2>5. \A j \in resuming[p] : Opens(j)
    BY <1>9 DEF ResumeCommit, Opens
  <2>6. UNCHANGED <<pc, held, found, claim>> /\ overtaken \subseteq overtaken'
    BY <1>9 DEF ResumeCommit
  <2> QED BY <2>1, <2>2, <2>3, <2>4, <2>5, <2>6 DEF Undisturbed
<1>10. ASSUME NEW w \in Worker, MarkJobRunning(w)
       PROVE  Undisturbed
  <2>1. held[w] \in Job /\ OwnsLease(w, held[w]) /\ Owns(w, held[w])
    BY <1>0, <1>10 DEF MarkJobRunning, OwnsLease, HeldWhileWorking
  <2>2. \A j \in Job \ {held[w]} : Keep(j)
    BY <1>0, <1>10 DEF MarkJobRunning, Keep
  <2>3. /\ claim.jobs[held[w]] = "none"
        /\ \A v \in Worker : pc[v] \in Blocking => held[v] \in Job \ {held[w]}
        /\ \A q \in Project : \A j \in resuming[q] : j \in Job \ {held[w]}
    BY <1>0, <1>10, <2>1, ValidIsUnlocked
    DEF MarkJobRunning, HeldWhileWorking, LockedAsFound, Owns, Blocking, TypeOK
  <2>4. /\ UNCHANGED <<held, found, claim, resuming, overtaken>>
        /\ pc[w] = "claimed" /\ pc' = [pc EXCEPT ![w] = "running"]
        /\ \A j \in Job : jobStatus'[j] \in Open => jobStatus[j] \in Open
    BY <1>0, <1>10 DEF MarkJobRunning
  <2>5. \A v \in Worker : \/ pc'[v] = pc[v]
                          \/ v = w /\ pc[v] = "claimed" /\ pc'[v] = "running"
    BY <1>0, <2>4 DEF TypeOK
  <2>6. \A v \in Worker : \/ pc'[v] = pc[v] /\ held'[v] = held[v] /\ found'[v] = found[v]
                          \/ pc'[v] \notin Blocking \cup {"claiming"} /\ found'[v] = {}
    BY <2>4, <2>5 DEF Blocking, QueueInv, OneClaimAtATime
  <2>7. \A v \in Worker : pc'[v] \in Blocking => Keep(held[v])
    BY <2>2, <2>3, <2>5 DEF Blocking
  <2> QED BY <2>2, <2>3, <2>4, <2>5, <2>6, <2>7 DEF Undisturbed
<1>11. ASSUME NEW w \in Worker, CompleteJob(w)
       PROVE  Undisturbed
  <2> DEFINE js == [jobStatus EXCEPT ![held[w]] = "completed"]
             ts == [targetStatus EXCEPT ![TargetOf(held[w])] =
                      IF KindOf(held[w]) = "discovery" THEN "ready" ELSE "crawled"]
  <2>1. /\ held[w] \in Job /\ OwnsLease(w, held[w]) /\ Owns(w, held[w])
        /\ pc[w] = "running" /\ CloseOut(held[w], js, ts) /\ Release(w)
        /\ UNCHANGED <<claim, resuming, overtaken>>
    BY <1>0, <1>11 DEF CompleteJob, OwnsLease, HeldWhileWorking
  <2>2. /\ js \in [Job -> JobStatus] /\ ts \in [Target -> TargetStatus]
        /\ \A k \in Job : js[k] \in Open => jobStatus[k] \in Open
    BY <1>0
  <2>3. \A j \in Job \ {held[w]} :
           /\ claimToken'[j] = claimToken[j] /\ lease'[j] = lease[j]
           /\ j \in LockedJobs => jobStatus'[j] = jobStatus[j]
    BY <1>0, <1>11 DEF CompleteJob, LocksRespected
  <2> HIDE DEF js, ts
  <2>4. \A j \in Job : jobStatus'[j] \in Open =>
           jobStatus[j] \in Open \/ BatchOf(j) = BatchOf(held[w])
    BY <1>0, <2>1, <2>2, CloseOutFacts DEF Discovered
  <2> QED BY <2>1, <2>3, <2>4, ValidIsUnlocked, ReportDisturbsNobody DEF Blocking
<1>12. ASSUME NEW w \in Worker, ContinueJob(w)
       PROVE  Undisturbed
  <2>1. /\ held[w] \in Job /\ OwnsLease(w, held[w]) /\ Owns(w, held[w])
        /\ pc[w] = "running" /\ Release(w)
        /\ UNCHANGED <<claim, resuming, overtaken>>
    BY <1>0, <1>12 DEF ContinueJob, OwnsLease, HeldWhileWorking
  <2>2. \A j \in Job \ {held[w]} :
           /\ claimToken'[j] = claimToken[j] /\ lease'[j] = lease[j]
           /\ jobStatus'[j] = jobStatus[j]
    BY <1>0, <1>12 DEF ContinueJob, ClearClaim
  <2>3. jobStatus[held[w]] \in Open
    BY <2>1 DEF Owns
  <2> QED BY <2>1, <2>2, <2>3, ValidIsUnlocked, ReportDisturbsNobody
<1>13. ASSUME NEW w \in Worker, NEW r \in BOOLEAN, FailJob(w, r)
       PROVE  Undisturbed
  <2> DEFINE s == IF r /\ attemptCount[held[w]] < MaxAttempts THEN "queued" ELSE "failed"
             t == IF r /\ attemptCount[held[w]] < MaxAttempts THEN "ready" ELSE "failed"
             js == [jobStatus EXCEPT ![held[w]] = s]
             ts == [targetStatus EXCEPT ![TargetOf(held[w])] = t]
  <2>1. /\ held[w] \in Job /\ Owns(w, held[w]) /\ ClearClaim(held[w])
        /\ pc[w] \in {"running", "failing"} /\ CloseOut(held[w], js, ts) /\ Release(w)
        /\ UNCHANGED <<claim, resuming, overtaken>> /\ LocksRespected
    BY <1>0, <1>13 DEF FailJob, HeldWhileWorking
  <2>2. /\ js \in [Job -> JobStatus] /\ ts \in [Target -> TargetStatus]
        /\ \A k \in Job : js[k] \in Open => jobStatus[k] \in Open
        /\ js[held[w]] \notin Active /\ js[held[w]] # "none"
    BY <1>0, <2>1 DEF Owns
  <2>3. \A j \in Job \ {held[w]} :
           /\ claimToken'[j] = claimToken[j] /\ lease'[j] = lease[j]
           /\ j \in LockedJobs => jobStatus'[j] = jobStatus[j]
    BY <1>0, <2>1 DEF ClearClaim, LocksRespected
  <2> HIDE DEF s, t, js, ts
  <2>4. /\ jobStatus'[held[w]] \notin Active
        /\ \A j \in Job : jobStatus'[j] \in Open =>
             jobStatus[j] \in Open \/ BatchOf(j) = BatchOf(held[w])
    BY <1>0, <2>1, <2>2, CloseOutFacts DEF Discovered
  <2>5. claim.jobs[held[w]] = "none"
    BY <2>1, <2>4 DEF LocksRespected, LockedJobs, Owns
  <2> QED BY <2>1, <2>3, <2>4, <2>5, ReportDisturbsNobody DEF Blocking
<1>14. ASSUME NEW w \in Worker, BlockCommit(w)
       PROVE  Undisturbed
  <2>1. /\ held[w] \in Job /\ Owns(w, held[w]) /\ claim.jobs[held[w]] = "none"
        /\ pc[w] # "claiming" /\ Release(w) /\ ClearClaim(held[w])
        /\ UNCHANGED <<claim, resuming, overtaken>>
        /\ jobStatus' = [jobStatus EXCEPT ![held[w]] =
                           IF pc[w] = "policy_hold" THEN "policy_hold" ELSE "failed"]
    BY <1>0, <1>14 DEF BlockCommit, HeldWhileWorking, LockedAsFound, Blocking
  <2>2. \A j \in Job \ {held[w]} :
           /\ claimToken'[j] = claimToken[j] /\ lease'[j] = lease[j]
           /\ jobStatus'[j] = jobStatus[j]
    BY <1>0, <2>1 DEF ClearClaim
  <2>3. jobStatus[held[w]] \in Open
    BY <2>1 DEF Owns
  <2> QED BY <2>1, <2>2, <2>3, ReportDisturbsNobody
<1>15. ASSUME NEW w \in Worker, NEW bs \in ClaimScopes, EndClaim(w, bs)
       PROVE  Undisturbed
  BY <1>15, ClaimDisturbsNobody
<1> QED
  BY <1>1, <1>2, <1>3, <1>4, <1>5, <1>6, <1>7, <1>8, <1>9, <1>10, <1>11, <1>12, <1>13,
     <1>14, <1>15
  DEF Next, Operate, Claim, Work, Report, Expire

(* A hold adds one locked row and one count to its claim.                  *)
LEMMA HoldInFlight ==
  ASSUME QueueInv, NEW w \in Worker, NEW bs \in ClaimScopes, NEW j \in Job, Hold(w, bs, j)
  PROVE  OneClaimAtATime' /\ LockedAsFound' /\ CountsHold'
<1> USE DEF batchVars, jobVars
<1>0. /\ TypeOK /\ OneClaimAtATime /\ LockedAsFound /\ CountsHold /\ HeldWhileWorking
      /\ jobStatus \in [Job -> JobStatus]
  BY DEF QueueInv, TypeOK
<1>1. PICK x \in Transactions(w, bs) :
        LET counted == Counted(BatchOf(j), [Read(x) EXCEPT ![j] = "policy_hold"])
        IN  /\ j \in Refused(x)
            /\ claim' = [x EXCEPT !.jobs = [@ EXCEPT ![j] = "policy_hold"], !.reach = @ \ counted]
            /\ found' = [found EXCEPT ![w] = @ \cup counted]
  BY DEF Hold
<1> DEFINE read == [Read(x) EXCEPT ![j] = "policy_hold"]
           counted == Counted(BatchOf(j), read)
<1>2. /\ pc' = [pc EXCEPT ![w] = "claiming"]
      /\ UNCHANGED <<jobStatus, batchStatus, lease, claimToken, held, resuming, overtaken>>
  BY DEF Hold
<1>3. /\ x.jobs \in [Job -> JobStatus] /\ Read(x) \in [Job -> JobStatus]
      /\ j \in Candidates(x)
  BY <1>1, ReadFacts DEF Refused
<1>4. x = [jobs |-> x.jobs, ended |-> x.ended, reach |-> x.reach]
  BY <1>0 DEF Transactions, Sweep, TypeOK
<1>5. claim' = [jobs |-> [x.jobs EXCEPT ![j] = "policy_hold"], ended |-> x.ended,
                reach |-> x.reach \ counted]
  BY <1>1, <1>4
<1> HIDE DEF read, counted
<1>6. /\ claim'.ended = x.ended
      /\ \A k \in Job : claim'.jobs[k] = (IF k = j THEN "policy_hold" ELSE x.jobs[k])
  BY <1>3, <1>5
<1>7. \A k \in Job : Read(claim)'[k] = read[k]
  BY <1>2, <1>3, <1>6 DEF Read, read
<1>8. /\ \A v \in Worker \ {w} : pc'[v] = pc[v] /\ found'[v] = found[v] /\ pc[v] # "claiming"
      /\ pc'[w] = "claiming" /\ found'[w] = found[w] \cup counted
      /\ counted \subseteq {BatchOf(j)}
      /\ \A b \in counted : NothingOpen(b, read)
  BY <1>0, <1>1, <1>2, ReadFacts DEF TypeOK, Counted, counted, read
<1>9. batchStatus[BatchOf(j)] # "none" /\ (jobStatus[j] = "queued" \/ LeaseExpired(j))
  BY <1>3, CandidateFacts
<1>10. OneClaimAtATime'
  <2>1. \A v \in Worker : found'[v] # {} => pc'[v] \in Blocking \cup {"claiming"}
    BY <1>0, <1>8 DEF OneClaimAtATime
  <2>2. \A v \in Worker : pc'[v] \in Blocking => found'[v] \subseteq {BatchOf(held'[v])}
    BY <1>0, <1>2, <1>8 DEF OneClaimAtATime, Blocking
  <2>3. \A v \in Worker : \A b \in found'[v] : batchStatus'[b] # "none"
    BY <1>0, <1>2, <1>8, <1>9 DEF OneClaimAtATime
  <2> QED BY <1>8, <2>1, <2>2, <2>3 DEF OneClaimAtATime
<1>11. LockedAsFound'
  <2>1. ASSUME NEW k \in Job, claim'.jobs[k] # "none"
        PROVE  \/ /\ LeaseExpired(k)'
                  /\ claim'.jobs[k] \in {"queued", "failed", "cancelled", "policy_hold"}
               \/ jobStatus'[k] = "queued" /\ claim'.jobs[k] \in {"cancelled", "policy_hold"}
    BY <1>2, <1>6, <1>9, <2>1, ReadFacts DEF LeaseExpired
  <2>2. \A p \in Project : \A k \in resuming'[p] : Owner(k) = p /\ jobStatus'[k] = "policy_hold"
    BY <1>0, <1>2 DEF LockedAsFound
  <2>3. ASSUME NEW v \in Worker, pc'[v] \in Blocking
        PROVE  Owns(v, held[v])' /\ claim'.jobs[held'[v]] = "none"
    <3>1. pc[v] \in Blocking /\ held[v] \in Job /\ Owns(v, held[v]) /\ v # w
      BY <1>0, <1>8, <2>3 DEF LockedAsFound, HeldWhileWorking, Blocking
    <3>2. x.jobs[held[v]] = "none" /\ held[v] # j
      BY <1>3, <3>1, ReadFacts, CandidateFacts DEF Owns
    <3> QED BY <1>2, <1>6, <3>1, <3>2 DEF Owns
  <2> QED BY <2>1, <2>2, <2>3 DEF LockedAsFound
<1>12. \A b : NothingOpen(b, Read(x)) => NothingOpen(b, Read(claim)')
  <2> SUFFICES ASSUME NEW b, NothingOpen(b, Read(x)), NEW k \in Job, BatchOf(k) = b
               PROVE  Read(claim)'[k] \notin Open
    BY DEF NothingOpen
  <2>1. Read(x)[k] \notin Open
    BY DEF NothingOpen
  <2>2. read[k] \notin Open
    BY <1>3, <2>1 DEF read
  <2> QED BY <1>7, <2>2
<1>13. CountsHold'
  <2>1. \A b \in claim'.ended : NothingOpen(b, Read(claim)') /\ batchStatus'[b] # "none"
    BY <1>2, <1>6, <1>12, ReadFacts
  <2>2. \A b \in found'[w] \ overtaken' : NothingOpen(b, Read(claim)')
    <3>1. \A b \in counted : NothingOpen(b, Read(claim)')
      BY <1>7, <1>8 DEF NothingOpen
    <3>2. \A b \in found[w] \ overtaken : NothingOpen(b, Read(x))
      BY ReadFacts
    <3> QED BY <1>2, <1>8, <1>12, <3>1, <3>2
  <2>3. ASSUME NEW v \in Worker \ {w}, NEW b \in found'[v] \ overtaken'
        PROVE  /\ pc'[v] \in Blocking
               /\ NothingOpen(b, [jobStatus' EXCEPT ![held'[v]] = "failed"])
    BY <1>0, <1>2, <1>8, <2>3 DEF CountsHold, OneClaimAtATime
  <2>4. pc'[w] \notin Blocking
    BY <1>8 DEF Blocking
  <2> QED BY <2>1, <2>2, <2>3, <2>4 DEF CountsHold
<1> QED BY <1>10, <1>11, <1>13

(* A blockJob that has counted adds a locked row and at most one count.    *)
LEMMA BlockInFlight ==
  ASSUME QueueInv, NEW w \in Worker, NEW o \in {"policy_hold", "blocked"}, BlockJob(w, o)
  PROVE  OneClaimAtATime' /\ LockedAsFound' /\ CountsHold'
<1> USE DEF batchVars, jobVars, txVars
<1>0. /\ TypeOK /\ OneClaimAtATime /\ LockedAsFound /\ CountsHold /\ FreshBatchIsEmpty
      /\ held[w] \in Job /\ BatchOf(held[w]) \in Batch
  BY JobParts DEF QueueInv, BlockJob, HeldWhileWorking
<1>1. /\ pc[w] = "running" /\ Owns(w, held[w]) /\ held[w] \notin LockedJobs
      /\ pc' = [pc EXCEPT ![w] = o]
      /\ found' = [found EXCEPT ![w] = Counted(BatchOf(held[w]),
                                               [jobStatus EXCEPT ![held[w]] = "failed"])]
      /\ UNCHANGED <<jobStatus, batchStatus, lease, claimToken, held, claim, resuming, overtaken>>
  BY DEF BlockJob
<1>2. /\ \A v \in Worker \ {w} : pc'[v] = pc[v] /\ found'[v] = found[v]
      /\ pc'[w] \in Blocking /\ found'[w] \subseteq {BatchOf(held[w])}
      /\ \A b \in found'[w] : NothingOpen(b, [jobStatus EXCEPT ![held[w]] = "failed"])
  BY <1>0, <1>1 DEF TypeOK, Counted, Blocking
<1>3. claim.jobs[held[w]] = "none" /\ batchStatus[BatchOf(held[w])] # "none"
  BY <1>0, <1>1 DEF LockedJobs, Owns, FreshBatchIsEmpty
<1>4. "claiming" \notin Blocking /\ "running" \notin Blocking
  BY DEF Blocking
<1>5. OneClaimAtATime'
  <2>1. \A v, u \in Worker : pc'[v] = "claiming" /\ pc'[u] = "claiming" => v = u
    BY <1>0, <1>2, <1>4 DEF OneClaimAtATime
  <2>2. (\A v \in Worker : pc'[v] # "claiming") => claim' = NoClaim
    BY <1>0, <1>1, <1>2 DEF OneClaimAtATime
  <2>3. \A v \in Worker : /\ found'[v] # {} => pc'[v] \in Blocking \cup {"claiming"}
                          /\ pc'[v] \in Blocking => found'[v] \subseteq {BatchOf(held'[v])}
                          /\ \A b \in found'[v] : batchStatus'[b] # "none"
    BY <1>0, <1>1, <1>2, <1>3 DEF OneClaimAtATime
  <2> QED BY <2>1, <2>2, <2>3 DEF OneClaimAtATime
<1>6. LockedAsFound'
  BY <1>0, <1>1, <1>2, <1>3 DEF LockedAsFound, LeaseExpired, Owns
<1>7. CountsHold'
  <2>1. \A b \in claim'.ended : NothingOpen(b, Read(claim)') /\ batchStatus'[b] # "none"
    BY <1>0, <1>1 DEF CountsHold, Read, NothingOpen
  <2>2. \A v \in Worker \ {w} : \A b \in found'[v] \ overtaken' :
          NothingOpen(b, IF pc'[v] \in Blocking THEN [jobStatus' EXCEPT ![held'[v]] = "failed"]
                         ELSE Read(claim)')
    BY <1>0, <1>1, <1>2 DEF CountsHold, Read, NothingOpen
  <2>3. \A b \in found'[w] : NothingOpen(b, [jobStatus' EXCEPT ![held'[w]] = "failed"])
    BY <1>1, <1>2
  <2> QED BY <1>2, <2>1, <2>2, <2>3 DEF CountsHold
<1> QED BY <1>5, <1>6, <1>7

(* What the transactions in flight rely on holds in every reachable state. *)
LEMMA InFlightStep ==
  ASSUME QueueInv, TypeOK', Next
  PROVE  OneClaimAtATime' /\ LockedAsFound' /\ CountsHold'
<1>1. CASE Undisturbed
  BY <1>1, NextMoves, UndisturbedKeeps DEF Moves
<1>2. ASSUME NEW p \in Project, ResumePolicyHolds(p)
      PROVE  OneClaimAtATime' /\ LockedAsFound' /\ CountsHold'
  <2> USE DEF batchVars, jobVars, workerVars
  <2>1. /\ UNCHANGED <<jobStatus, batchStatus, lease, claimToken, pc, held, found, claim, overtaken>>
        /\ \A q \in Project : \A j \in resuming'[q] :
             \/ j \in resuming[q]
             \/ Owner(j) = q /\ jobStatus[j] = "policy_hold"
    BY <1>2 DEF ResumePolicyHolds, QueueInv, TypeOK
  <2>2. OneClaimAtATime'
    BY <2>1 DEF QueueInv, OneClaimAtATime
  <2>3. LockedAsFound'
    BY <2>1 DEF QueueInv, LockedAsFound, LeaseExpired, Owns
  <2>4. CountsHold'
    BY <2>1 DEF QueueInv, CountsHold, Read, NothingOpen
  <2> QED BY <2>2, <2>3, <2>4
<1> QED BY <1>1, <1>2, OthersDisturbNobody, HoldInFlight, BlockInFlight

(* Only a claim arms a job, and whoever disarms one makes it inactive.     *)
LEMMA ClaimKept ==
  ASSUME ClaimComplete, UNCHANGED <<claimToken, lease>>,
         \A j \in Job : jobStatus'[j] \in Active => jobStatus[j] \in Active
  PROVE  ClaimComplete'
BY DEF ClaimComplete

(* A cleared claim belongs to a job that is no longer active.              *)
LEMMA ClaimCleared ==
  ASSUME TypeOK, ClaimComplete, NEW j \in Job, ClearClaim(j), jobStatus'[j] \notin Active,
         \A k \in Job : jobStatus'[k] \in Active => jobStatus[k] \in Active
  PROVE  ClaimComplete'
BY DEF ClaimComplete, ClearClaim, TypeOK

(* Every active job keeps its token and lease, action by action.           *)
LEMMA ClaimCompleteStep ==
  ASSUME QueueInv, Next
  PROVE  ClaimComplete'
<1> USE DEF projectVars, batchVars, jobVars, targetVars, workerVars, txVars
<1>0. TypeOK /\ HeldWhileWorking /\ ClaimComplete
  BY DEF QueueInv
<1>1. ASSUME UNCHANGED <<jobStatus, claimToken, lease>>
      PROVE  ClaimComplete'
  BY <1>0, <1>1, ClaimKept
<1>2. ASSUME NEW p \in Project, ResumeCommit(p)
      PROVE  ClaimComplete'
  BY <1>0, <1>2, ClaimKept DEF ResumeCommit
<1>3. ASSUME NEW p \in Project, NEW s \in {"active", "paused", "completed", "cancelled"},
             SetStatus(p, s)
      PROVE  ClaimComplete'
  BY <1>0, <1>3, ClaimKept DEF SetStatus
<1>4. ASSUME NEW b \in Batch, NEW js, NewBatch(b, js)
      PROVE  ClaimComplete'
  BY <1>0, <1>4, ClaimKept DEF NewBatch
<1>5. ASSUME NEW w \in Worker, NEW bs \in ClaimScopes, NEW x \in Transactions(w, bs),
             NEW j \in Job, Read(x)[j] \in Active
      PROVE  /\ jobStatus[j] \in Active
             /\ TokensLeft(x)[j] = claimToken[j] /\ LeasesLeft(x)[j] = lease[j]
  BY <1>5, ReadFacts DEF TokensLeft, LeasesLeft, SweptRow
<1>6. ASSUME NEW w \in Worker, NEW bs \in ClaimScopes, ClaimNothing(w, bs) \/ ClaimJob(w, bs)
      PROVE  ClaimComplete'
  <2>1. CASE ClaimNothing(w, bs)
    <3>1. PICK x \in Transactions(w, bs) :
            jobStatus' = Read(x) /\ claimToken' = TokensLeft(x) /\ lease' = LeasesLeft(x)
      BY <2>1 DEF ClaimNothing
    <3> QED BY <1>0, <1>5, <3>1 DEF ClaimComplete
  <2>2. CASE ClaimJob(w, bs)
    <3>1. PICK x \in Transactions(w, bs) : \E c \in Candidates(x) : Grant(w, x, c)
      BY <2>2 DEF ClaimJob
    <3>2. PICK c \in Candidates(x) : Grant(w, x, c)
      BY <3>1
    <3>3. /\ claimToken' = [TokensLeft(x) EXCEPT ![c] = w]
          /\ lease' = [LeasesLeft(x) EXCEPT ![c] = "valid"]
          /\ jobStatus' = [Read(x) EXCEPT ![c] = "claimed"]
      BY <3>2 DEF Grant
    <3>4. Read(x) \in [Job -> JobStatus] /\ c \in Job
      BY ReadFacts DEF Candidates
    <3>5. claimToken'[c] = w /\ lease'[c] = "valid"
      BY <3>3, <3>4 DEF TokensLeft, LeasesLeft
    <3>6. ASSUME NEW j \in Job \ {c}, jobStatus'[j] \in Active
          PROVE  claimToken'[j] \in Worker /\ lease'[j] # "none"
      <4>1. Read(x)[j] \in Active
        BY <3>3, <3>4, <3>6
      <4>2. claimToken'[j] = TokensLeft(x)[j] /\ lease'[j] = LeasesLeft(x)[j]
        BY <3>3, <3>6 DEF TokensLeft, LeasesLeft
      <4> QED BY <1>0, <1>5, <4>1, <4>2 DEF ClaimComplete
    <3> QED BY <3>5, <3>6 DEF ClaimComplete
  <2> QED BY <1>6, <2>1, <2>2
<1>7. ASSUME NEW w \in Worker, MarkJobRunning(w)
      PROVE  ClaimComplete'
  BY <1>0, <1>7, ClaimKept DEF MarkJobRunning, OwnsLease, Owns
<1>8. ASSUME NEW w \in Worker, CompleteJob(w)
      PROVE  ClaimComplete'
  <2> DEFINE js == [jobStatus EXCEPT ![held[w]] = "completed"]
             ts == [targetStatus EXCEPT ![TargetOf(held[w])] =
                      IF KindOf(held[w]) = "discovery" THEN "ready" ELSE "crawled"]
  <2>1. /\ held[w] \in Job /\ CloseOut(held[w], js, ts)
        /\ UNCHANGED claimToken /\ lease' = [lease EXCEPT ![held[w]] = "none"]
    BY <1>0, <1>8 DEF CompleteJob, HeldWhileWorking
  <2>2. /\ js \in [Job -> JobStatus] /\ ts \in [Target -> TargetStatus]
        /\ \A k \in Job : js[k] = (IF k = held[w] THEN "completed" ELSE jobStatus[k])
    BY <1>0 DEF TypeOK
  <2> HIDE DEF js, ts
  <2>3. \A k \in Job : jobStatus'[k] \in Active => k # held[w] /\ jobStatus[k] \in Active
    BY <1>0, <2>1, <2>2, CloseOutFacts
  <2> QED BY <1>0, <2>1, <2>3 DEF ClaimComplete
<1>9. ASSUME NEW w \in Worker, ContinueJob(w)
      PROVE  ClaimComplete'
  <2>1. held[w] \in Job
    BY <1>0, <1>9 DEF ContinueJob, HeldWhileWorking
  <2> QED BY <1>0, <1>9, <2>1, ClaimCleared DEF ContinueJob, TypeOK
<1>10. ASSUME NEW w \in Worker, NEW r \in BOOLEAN, FailJob(w, r)
       PROVE  ClaimComplete'
  <2> DEFINE s == IF r /\ attemptCount[held[w]] < MaxAttempts THEN "queued" ELSE "failed"
             t == IF r /\ attemptCount[held[w]] < MaxAttempts THEN "ready" ELSE "failed"
             js == [jobStatus EXCEPT ![held[w]] = s]
             ts == [targetStatus EXCEPT ![TargetOf(held[w])] = t]
  <2>1. held[w] \in Job /\ ClearClaim(held[w]) /\ CloseOut(held[w], js, ts)
    BY <1>0, <1>10 DEF FailJob, HeldWhileWorking
  <2>2. /\ js \in [Job -> JobStatus] /\ ts \in [Target -> TargetStatus]
        /\ \A k \in Job : js[k] = (IF k = held[w] THEN s ELSE jobStatus[k])
        /\ s \notin Active
    BY <1>0 DEF TypeOK
  <2> HIDE DEF js, ts, s
  <2>3. \A k \in Job : jobStatus'[k] \in Active => k # held[w] /\ jobStatus[k] \in Active
    BY <1>0, <2>1, <2>2, CloseOutFacts
  <2> QED BY <1>0, <2>1, <2>3, ClaimCleared
<1>11. ASSUME NEW w \in Worker, BlockCommit(w)
       PROVE  ClaimComplete'
  <2>1. held[w] \in Job
    BY <1>0, <1>11 DEF BlockCommit, HeldWhileWorking, Blocking
  <2>2. \A k \in Job : jobStatus'[k] \in Active => jobStatus[k] \in Active /\ k # held[w]
    BY <1>0, <1>11, <2>1 DEF BlockCommit, TypeOK
  <2> QED BY <1>0, <1>11, <2>1, <2>2, ClaimCleared DEF BlockCommit
<1>12. ASSUME NEW j \in Job, LeaseRunsOut(j)
       PROVE  ClaimComplete'
  BY <1>0, <1>12 DEF LeaseRunsOut, ClaimComplete, TypeOK
<1>13. \A b \in Batch : CreateApprovedRun(b) \/ CreateApprovedBatch(b) =>
          \E js : NewBatch(b, js)
  BY DEF CreateApprovedRun, CreateApprovedBatch
<1>14. ASSUME \/ \E p \in Project : RefreshOrganizations(p) \/ GenerateDiscoveryTargets(p)
              \/ \E t \in Target : ReviewPolicy(t)
              \/ \E w \in Worker : \/ ReserveRequest(w) \/ Discover(w)
                                    \/ Throw(w) \/ Abandon(w) \/ Crash(w)
              \/ \E b \in Batch : RunExpires(b)
              \/ \E p \in Project : ResumePolicyHolds(p) \/ ResumeAbort(p)
              \/ \E w \in Worker, bs \in ClaimScopes, j \in Job : Hold(w, bs, j)
              \/ \E w \in Worker, o \in {"policy_hold", "blocked"} : BlockJob(w, o)
       PROVE  UNCHANGED <<jobStatus, claimToken, lease>>
  BY <1>14 DEF RefreshOrganizations, GenerateDiscoveryTargets, ReviewPolicy, ReserveRequest,
     Discover, RecordTarget, RecordBlocked, Throw, Abandon, Crash, RunExpires,
     ResumePolicyHolds, ResumeAbort, Hold, BlockJob
<1> QED
  BY <1>0, <1>1, <1>2, <1>3, <1>4, <1>5, <1>6, <1>7, <1>8, <1>9, <1>10, <1>11, <1>12,
     <1>13, <1>14
  DEF Next, Operate, Claim, EndClaim, Work, Report, Expire

(* Approval alone sets what a batch collects, and only a request or a      *)
(* legacy completion charges it.                                           *)
Settings ==
  /\ \A b \in Batch : batchStatus[b] # "none" =>
        collectDiscovered'[b] = collectDiscovered[b] /\ scope'[b] = scope[b]
  /\ \A b \in Batch : batchStatus'[b] = "none" =>
        collectDiscovered'[b] = collectDiscovered[b] /\ batchPages'[b] = batchPages[b]
  /\ \A t \in Target : links[t] \subseteq links'[t]
  /\ \A b \in Batch : collectDiscovered'[b] => batchPages'[b] <= PageLimit
  /\ \A j \in Job : collectDiscovered'[BatchOf(j)] /\ jobStatus'[j] # "none"
                       /\ (jobStatus[j] = "none" \/ batchStatus[BatchOf(j)] = "none")
                    => links'[TargetOf(j)] \cap scope'[BatchOf(j)] # {}

(* A step that starts no job keeps scopes, budgets and fresh batches.      *)
LEMMA SettingsKept ==
  ASSUME QueueInv, UNCHANGED <<collectDiscovered, scope, batchPages>>,
         \A t \in Target : links[t] \subseteq links'[t],
         \A j \in Job : jobStatus[j] = "none" => jobStatus'[j] = "none"
  PROVE  Settings
BY JobParts DEF QueueInv, FreshBatchIsEmpty, RunBudget, Settings

(* The tail of a report starts jobs of the batch's own scope only.         *)
LEMMA SettingsClosed ==
  ASSUME QueueInv, NEW w \in Worker, held[w] \in Job, jobStatus[held[w]] \in Active,
         NEW s \in {"completed", "queued", "failed"}, NEW ts \in [Target -> TargetStatus],
         CloseOut(held[w], [jobStatus EXCEPT ![held[w]] = s], ts),
         UNCHANGED <<collectDiscovered, scope, links>>,
         \A b \in Batch : collectDiscovered[b] \/ b # BatchOf(held[w])
                          => batchPages'[b] = batchPages[b]
  PROVE  Settings
<1> DEFINE j == held[w]
           js == [jobStatus EXCEPT ![j] = s]
<1>1. /\ js \in [Job -> JobStatus] /\ BatchOf(j) \in Batch /\ TypeOK
      /\ \A k \in Job : js[k] = (IF k = j THEN s ELSE jobStatus[k])
  BY JobParts DEF QueueInv, TypeOK
<1>2. \A k \in Discovered(BatchOf(j), TargetOf(j), js, ts) :
         links[TargetOf(k)] \cap scope[BatchOf(k)] # {}
  BY DEF Discovered, InScope
<1>3. batchStatus[BatchOf(j)] # "none"
  BY <1>1 DEF QueueInv, FreshBatchIsEmpty
<1> HIDE DEF js
<1>4. /\ \A k \in Job : js[k] = "none" /\ jobStatus'[k] # "none" =>
            links[TargetOf(k)] \cap scope[BatchOf(k)] # {}
      /\ \A b \in Batch : batchStatus'[b] = "none" => batchStatus[b] = "none"
  BY <1>1, <1>2, CloseOutFacts DEF js
<1>5. \A k \in Job : batchStatus[BatchOf(k)] = "none" => jobStatus[k] = "none"
  BY JobParts DEF QueueInv, FreshBatchIsEmpty
<1>6. \A k \in Job : jobStatus[k] = "none" => js[k] = "none"
  BY <1>1
<1> QED BY <1>3, <1>4, <1>5, <1>6 DEF QueueInv, RunBudget, Settings

(* Every step keeps the scopes, the budgets and the fresh batches.         *)
LEMMA SettingsStep ==
  ASSUME QueueInv, Next
  PROVE  Settings
<1> USE DEF projectVars, batchVars, jobVars, targetVars, workerVars, txVars
<1>0. TypeOK /\ HeldWhileWorking
  BY DEF QueueInv
<1>1. ASSUME \/ \E p \in Project : RefreshOrganizations(p)
             \/ \E t \in Target : ReviewPolicy(t)
             \/ \E w \in Worker : Throw(w) \/ Abandon(w) \/ Crash(w)
             \/ \E j \in Job : LeaseRunsOut(j)
             \/ \E b \in Batch : RunExpires(b)
             \/ \E p \in Project : ResumePolicyHolds(p) \/ ResumeAbort(p)
             \/ \E w \in Worker, bs \in ClaimScopes, j \in Job : Hold(w, bs, j)
             \/ \E w \in Worker, o \in {"policy_hold", "blocked"} : BlockJob(w, o)
      PROVE  Settings
  <2>1. UNCHANGED <<collectDiscovered, scope, batchPages, links, jobStatus>>
    BY <1>1 DEF RefreshOrganizations, ReviewPolicy, Throw, Abandon, Crash, LeaseRunsOut, RunExpires,
       ResumePolicyHolds, ResumeAbort, Hold, BlockJob
  <2> QED BY <2>1, SettingsKept
<1>2. ASSUME NEW p \in Project, ResumeCommit(p)
       PROVE  Settings
  BY <1>0, <1>2, SettingsKept DEF ResumeCommit, QueueInv, LockedAsFound, TypeOK
<1>3. ASSUME NEW p \in Project, NEW s \in {"active", "paused", "completed", "cancelled"},
              SetStatus(p, s)
       PROVE  Settings
  BY <1>0, <1>3, SettingsKept DEF SetStatus, TypeOK
<1>4. ASSUME NEW p \in Project, GenerateDiscoveryTargets(p)
      PROVE  Settings
  BY <1>4, SettingsKept DEF GenerateDiscoveryTargets
<1>5. ASSUME NEW b \in Batch, CreateApprovedRun(b)
      PROVE  Settings
  <2> DEFINE frozen == roster[ProjectOf[b]]
  <2>1. PICK js : /\ NewBatch(b, js)
                  /\ \A j \in js : BatchOf(j) = b /\ links[TargetOf(j)] \cap frozen # {}
    BY <1>5 DEF CreateApprovedRun
  <2>2. /\ collectDiscovered' = [collectDiscovered EXCEPT ![b] = TRUE]
        /\ scope' = [scope EXCEPT ![b] = frozen]
    BY <1>5 DEF CreateApprovedRun
  <2>3. \A j \in Job : batchStatus[BatchOf(j)] = "none" => jobStatus[j] = "none"
    BY JobParts DEF QueueInv, FreshBatchIsEmpty
  <2>4. batchPages[b] = 0
    BY <2>1 DEF NewBatch, QueueInv, FreshBatchIsEmpty
  <2>5. /\ batchStatus[b] = "none" /\ batchStatus'[b] = "queued"
        /\ UNCHANGED <<batchPages, links>>
        /\ \A j \in Job : jobStatus'[j] = (IF j \in js THEN "queued" ELSE jobStatus[j])
    BY <1>0, <2>1 DEF NewBatch, TypeOK
  <2>6. /\ scope'[b] = frozen
        /\ \A c \in Batch \ {b} : /\ collectDiscovered'[c] = collectDiscovered[c]
                                  /\ scope'[c] = scope[c]
    BY <1>0, <2>2 DEF TypeOK
  <2> HIDE DEF frozen
  <2>7. \A c \in Batch : collectDiscovered'[c] => batchPages'[c] <= PageLimit
    BY <2>4, <2>5, <2>6, LimitAssumption DEF QueueInv, RunBudget
  <2>8. \A j \in Job : /\ collectDiscovered'[BatchOf(j)] /\ jobStatus'[j] # "none"
                       /\ (jobStatus[j] = "none" \/ batchStatus[BatchOf(j)] = "none")
                       => links'[TargetOf(j)] \cap scope'[BatchOf(j)] # {}
    BY <2>1, <2>3, <2>5, <2>6, JobParts
  <2> QED BY <2>5, <2>6, <2>7, <2>8 DEF Settings
<1>6. ASSUME NEW b \in Batch, CreateApprovedBatch(b)
      PROVE  Settings
  <2>1. PICK js : /\ NewBatch(b, js)
                  /\ \A j \in js : BatchOf(j) = b
    BY <1>6 DEF CreateApprovedBatch
  <2>2. UNCHANGED <<collectDiscovered, scope>> /\ ~collectDiscovered[b]
    BY <1>6, <2>1 DEF CreateApprovedBatch, NewBatch, QueueInv, FreshBatchIsEmpty
  <2>3. \A j \in Job : batchStatus[BatchOf(j)] = "none" => jobStatus[j] = "none"
    BY JobParts DEF QueueInv, FreshBatchIsEmpty
  <2> QED
    BY <1>0, <2>1, <2>2, <2>3, JobParts DEF NewBatch, QueueInv, RunBudget, Settings, TypeOK
<1>7. ASSUME NEW w \in Worker, NEW bs \in ClaimScopes, ClaimNothing(w, bs)
      PROVE  Settings
  <2>1. \A j \in Job : jobStatus[j] = "none" => jobStatus'[j] = "none"
    BY <1>7, ReadFacts DEF ClaimNothing, LeaseExpired
  <2> QED BY <1>7, <2>1, SettingsKept DEF ClaimNothing
<1>8. ASSUME NEW w \in Worker, NEW bs \in ClaimScopes, ClaimJob(w, bs)
      PROVE  Settings
  <2>1. PICK x \in Transactions(w, bs) : \E c \in Candidates(x) : Grant(w, x, c)
    BY <1>8 DEF ClaimJob
  <2>2. PICK c \in Candidates(x) : Grant(w, x, c)
    BY <2>1
  <2>3. /\ Read(x) \in [Job -> JobStatus] /\ jobStatus[c] # "none"
        /\ \A j \in Job : jobStatus[j] = "none" => Read(x)[j] = "none"
    BY ReadFacts, CandidateFacts DEF LeaseExpired
  <2>4. \A j \in Job : jobStatus[j] = "none" => jobStatus'[j] = "none"
    BY <2>2, <2>3 DEF Grant
  <2> QED BY <1>8, <2>4, SettingsKept DEF ClaimJob
<1>9. ASSUME NEW w \in Worker, MarkJobRunning(w)
      PROVE  Settings
  BY <1>0, <1>9, SettingsKept DEF MarkJobRunning, OwnsLease, Owns, TypeOK
<1>10. ASSUME NEW w \in Worker, ReserveRequest(w)
      PROVE  Settings
  <2> DEFINE b == BatchOf(held[w])
  <2>1. /\ b \in Batch /\ batchStatus[b] # "none" /\ WithinLimits(b)
        /\ batchPages' = [batchPages EXCEPT ![b] = @ + 1]
    BY <1>0, <1>10, JobParts DEF ReserveRequest, Authorized, HeldWhileWorking
  <2> HIDE DEF b
  <2>2. \A c \in Batch : batchPages'[c] =
                           (IF c = b THEN batchPages[c] + 1 ELSE batchPages[c])
    BY <1>0, <2>1 DEF TypeOK
  <2>3. \A c \in Batch : collectDiscovered[c] => batchPages'[c] <= PageLimit
    BY <1>0, <2>1, <2>2, LimitAssumption
    DEF QueueInv, RunBudget, TypeOK, WithinLimits, Tripped
  <2>4. \A j \in Job : batchStatus[BatchOf(j)] = "none" => jobStatus[j] = "none"
    BY JobParts DEF QueueInv, FreshBatchIsEmpty
  <2> QED BY <1>10, <2>1, <2>2, <2>3, <2>4 DEF ReserveRequest, Settings
<1>11. ASSUME NEW w \in Worker, NEW t \in Target, RecordTarget(w, t)
      PROVE  Settings
  BY <1>0, <1>11, SettingsKept DEF RecordTarget, TypeOK
<1>12. ASSUME NEW w \in Worker, NEW t \in Target, NEW s, RecordBlocked(w, t, s)
       PROVE  Settings
  BY <1>12, SettingsKept DEF RecordBlocked
<1>13. ASSUME NEW w \in Worker, CompleteJob(w)
       PROVE  Settings
  <2> DEFINE ts == [targetStatus EXCEPT ![TargetOf(held[w])] =
                      IF KindOf(held[w]) = "discovery" THEN "ready" ELSE "crawled"]
  <2>1. /\ held[w] \in Job /\ jobStatus[held[w]] \in Active
        /\ CloseOut(held[w], [jobStatus EXCEPT ![held[w]] = "completed"], ts)
        /\ UNCHANGED <<collectDiscovered, scope, links>>
    BY <1>0, <1>13 DEF CompleteJob, OwnsLease, Owns, HeldWhileWorking
  <2>2. ts \in [Target -> TargetStatus]
    BY <1>0 DEF TypeOK
  <2>3. \A b \in Batch : collectDiscovered[b] \/ b # BatchOf(held[w])
                         => batchPages'[b] = batchPages[b]
    BY <1>0, <1>13 DEF CompleteJob, Charged, TypeOK
  <2> HIDE DEF ts
  <2> QED BY <2>1, <2>2, <2>3, SettingsClosed
<1>14. ASSUME NEW w \in Worker, ContinueJob(w)
       PROVE  Settings
  BY <1>0, <1>14, SettingsKept DEF ContinueJob, OwnsLease, Owns, TypeOK
<1>15. ASSUME NEW w \in Worker, NEW r \in BOOLEAN, FailJob(w, r)
       PROVE  Settings
  <2> DEFINE retry == r /\ attemptCount[held[w]] < MaxAttempts
             s == IF retry THEN "queued" ELSE "failed"
             ts == [targetStatus EXCEPT ![TargetOf(held[w])] =
                      IF retry THEN "ready" ELSE "failed"]
  <2>1. /\ held[w] \in Job /\ jobStatus[held[w]] \in Active
        /\ CloseOut(held[w], [jobStatus EXCEPT ![held[w]] = s], ts)
        /\ UNCHANGED <<collectDiscovered, scope, links, batchPages>>
    BY <1>0, <1>15 DEF FailJob, Owns, HeldWhileWorking
  <2>2. ts \in [Target -> TargetStatus] /\ s \in {"completed", "queued", "failed"}
    BY <1>0 DEF TypeOK
  <2> HIDE DEF ts, s
  <2> QED BY <2>1, <2>2, SettingsClosed
<1>16. ASSUME NEW w \in Worker, BlockCommit(w)
       PROVE  Settings
  <2>1. jobStatus[held[w]] # "none"
    BY <1>16 DEF BlockCommit, QueueInv, LockedAsFound, Owns
  <2> QED BY <1>0, <1>16, <2>1, SettingsKept DEF BlockCommit, TypeOK
<1> QED
  BY <1>0, <1>1, <1>2, <1>3, <1>4, <1>5, <1>6, <1>7, <1>8, <1>9, <1>10, <1>11, <1>12,
     <1>13, <1>14, <1>15, <1>16
  DEF Next, Operate, Claim, EndClaim, Work, Discover, Report, Expire

(* The invariant is inductive.                                             *)
LEMMA InvStep == QueueInv /\ [Next]_vars => QueueInv'
<1> SUFFICES ASSUME QueueInv, [Next]_vars PROVE QueueInv'
  OBVIOUS
<1>1. CASE Next
  <2>1. TypeOK' /\ HeldWhileWorking'
    BY <1>1, TypeStep
  <2>2. Moves
    BY <1>1, NextMoves
  <2>3. Settings
    BY <1>1, SettingsStep
  <2>4. OneActivePerDomain'
    BY <2>2, DomainKept DEF Moves, QueueInv
  <2>5. SettledBatchIsDrained'
    BY <2>2, DrainedKept DEF QueueInv
  <2>6. ClaimComplete'
    BY <1>1, ClaimCompleteStep
  <2>7. FreshBatchIsEmpty'
    BY <2>2, <2>3 DEF QueueInv, FreshBatchIsEmpty, Moves, JobMove, BatchMove, Closes, Settings
  <2>8. RunBudget'
    BY <2>3 DEF Settings, RunBudget
  <2>9. ScopeIsFrozen'
    BY <2>3, JobParts DEF QueueInv, ScopeIsFrozen, Settings
  <2>10. OneClaimAtATime' /\ LockedAsFound' /\ CountsHold'
    BY <1>1, <2>1, InFlightStep
  <2> QED BY <2>1, <2>4, <2>5, <2>6, <2>7, <2>8, <2>9, <2>10 DEF QueueInv
<1>2. CASE UNCHANGED vars
  <2> USE <1>2 DEF vars, projectVars, batchVars, jobVars, targetVars, workerVars, txVars
  <2>1. TypeOK' /\ HeldWhileWorking' /\ FreshBatchIsEmpty'
    BY DEF QueueInv, TypeOK, HeldWhileWorking, FreshBatchIsEmpty
  <2>2. OneClaimAtATime'
    BY DEF QueueInv, OneClaimAtATime
  <2>3. LockedAsFound'
    BY DEF QueueInv, LockedAsFound, LeaseExpired, Owns
  <2>4. CountsHold'
    BY DEF QueueInv, CountsHold, NothingOpen, Read
  <2>5. OneActivePerDomain' /\ ClaimComplete' /\ SettledBatchIsDrained'
    BY DEF QueueInv, OneActivePerDomain, ClaimComplete, SettledBatchIsDrained
  <2>6. RunBudget' /\ ScopeIsFrozen'
    BY DEF QueueInv, RunBudget, ScopeIsFrozen
  <2> QED BY <2>1, <2>2, <2>3, <2>4, <2>5, <2>6 DEF QueueInv
<1> QED BY <1>1, <1>2

(* The queue's invariant holds in every reachable state, for every number  *)
(* of projects, batches, targets and workers.                              *)
THEOREM QueueSafety == Spec => []QueueInv
BY InvInit, InvStep, PTL DEF Spec

(* The tables keep the domains their columns and enums declare.            *)
THEOREM TypeCorrect == Spec => []TypeOK
BY QueueSafety, PTL DEF QueueInv

(* No two jobs of one registrable domain are ever active together, however *)
(* leases expire and workers crash: the claim transaction alone guarantees *)
(* what collection_jobs_one_active_domain_idx double-checks.               *)
THEOREM DomainExclusion == Spec => []OneActivePerDomain
BY QueueSafety, PTL DEF QueueInv

(* A batch reported finished has no job left to run, unless a resume was   *)
(* committed between the count that settled it and the settlement.         *)
THEOREM FinishedMeansDrained == Spec => []SettledBatchIsDrained
BY QueueSafety, PTL DEF QueueInv

(* A run works for the organizations its approval froze and no other.      *)
THEOREM FrozenScope == Spec => []ScopeIsFrozen
BY QueueSafety, PTL DEF QueueInv

(* A run's reserved requests never exceed the page limit it was given.     *)
THEOREM BudgetKept == Spec => []RunBudget
BY QueueSafety, PTL DEF QueueInv

----------------------------------------------------------------------------
(* Ended jobs and the ledger.                                              *)

(* Under the invariant every step makes only the named moves.              *)
LEMMA MovesEveryStep ==
  ASSUME QueueInv, [Next]_vars
  PROVE  Moves
<1>1. CASE Next
  BY <1>1, NextMoves
<1>2. CASE UNCHANGED vars
  BY <1>2, StillMoves DEF vars, jobVars, batchVars, txVars
<1> QED BY <1>1, <1>2

(* A job that completed, failed or was cancelled never moves again.        *)
THEOREM EndedIsFinal == Spec => EndedJobsStay
<1>1. QueueInv /\ [Next]_vars =>
        [\A j \in Job : jobStatus[j] \in {"completed", "failed", "cancelled"}
                        => jobStatus'[j] = jobStatus[j]]_vars
  <2> SUFFICES ASSUME QueueInv, [Next]_vars,
                      NEW j \in Job, jobStatus[j] \in {"completed", "failed", "cancelled"}
               PROVE  jobStatus'[j] = jobStatus[j]
    OBVIOUS
  <2> QED BY MovesEveryStep DEF Moves, JobMove
<1> QED BY <1>1, QueueSafety, PTL DEF Spec, EndedJobsStay

(* The phase of a status, case by case.                                    *)
LEMMA PhaseFacts ==
  /\ PhaseOf("none") = "absent"
  /\ PhaseOf("queued") = "waiting"
  /\ \A s \in Active : PhaseOf(s) = "active"
  /\ PhaseOf("policy_hold") = "held"
  /\ \A s \in {"completed", "failed", "cancelled"} : PhaseOf(s) = "done"
BY DEF PhaseOf

(* Every behaviour of the queue is a behaviour of the ledger.              *)
THEOREM QueueImplementsLedger == Spec => ImplementsLedger
<1> DEFINE ph == [j \in Job |-> PhaseOf(jobStatus[j])]
<1>1. Init => Ledger!LedgerInit
  BY PhaseFacts DEF Init, Ledger!LedgerInit
<1>2. QueueInv /\ QueueInv' /\ [Next]_vars => [Ledger!LedgerStep]_ph
  <2> SUFFICES ASSUME QueueInv, QueueInv', [Next]_vars
               PROVE  Ledger!LedgerStep
    OBVIOUS
  <2>1. /\ jobStatus \in [Job -> JobStatus] /\ jobStatus' \in [Job -> JobStatus]
        /\ \A j \in Job : JobMove(j)
    BY MovesEveryStep DEF QueueInv, TypeOK, Moves
  <2>2. ph' \in [Job -> Ledger!Phase]
    BY <2>1, PhaseFacts DEF Ledger!Phase
  <2>3. \A j \in Job : ph'[j] = ph[j] \/ ph'[j] \in Ledger!Moves[ph[j]]
    BY <2>1, PhaseFacts DEF JobMove, Ledger!Moves
  <2>4. \A j \in Job : ph'[j] = "active" => jobStatus'[j] \in Active
    BY <2>1, PhaseFacts
  <2>5. Ledger!LanesExclusive(ph')
    BY <2>4 DEF Ledger!LanesExclusive, QueueInv, OneActivePerDomain
  <2> QED BY <2>2, <2>3, <2>5 DEF Ledger!LedgerStep
<1> QED BY <1>1, <1>2, QueueSafety, PTL DEF Spec, ImplementsLedger, Ledger!LedgerSpec

----------------------------------------------------------------------------
(* How a batch ends.                                                       *)

(* Nothing on record speaks against calling batch b completed.             *)
CleanRecord(errors, js, detail, b) ==
  /\ errors[b] = 0
  /\ \A j \in Job : BatchOf(j) = b => js[j] \in {"none", "completed"} /\ j \notin detail

(* finishBatchIfSettled calls a batch "completed" only when nothing in it  *)
(* went wrong.                                                             *)
LEMMA FinishClean ==
  ASSUME NEW bs, NEW status, NEW js \in [Job -> JobStatus], NEW errors \in [Batch -> Nat],
         NEW detail, NEW b \in Batch,
         FinishIfSettled(bs, status, js, errors, detail)[b] = "completed"
  PROVE  status[b] = "completed" \/ CleanRecord(errors, js, detail, b)
BY DEF FinishIfSettled, NothingOpen, Troubled, CleanRecord

(* Batch b has nothing on record against it once the step is done.         *)
EndsClean(b) == CleanRecord(batchErrors', jobStatus', flawed', b)

(* What a step may do to that record: only an active job adds to it, and   *)
(* a batch is only called clean when it is.                                *)
Outcomes ==
  /\ \A b \in Batch : \/ batchErrors'[b] = batchErrors[b]
                      \/ \E j \in Job : BatchOf(j) = b /\ jobStatus[j] \in Active
  /\ \A j \in Job : (j \in flawed' <=> j \in flawed) \/ jobStatus[j] \in Active
  /\ \A b \in Batch : \/ batchStatus'[b] # "completed"
                      \/ batchStatus[b] = "completed"
                      \/ EndsClean(b)

(* A step that records no outcome and calls no further batch completed.    *)
LEMMA OutcomesKept ==
  ASSUME UNCHANGED <<batchErrors, flawed>>,
         \A b \in Batch : batchStatus'[b] = batchStatus[b] \/ batchStatus'[b] # "completed"
  PROVE  Outcomes
BY DEF Outcomes

(* The tail of a report closes the batch by what the report recorded.      *)
LEMMA CloseOutClean ==
  ASSUME TypeOK, batchErrors' \in [Batch -> Nat], NEW j \in Job, NEW js \in [Job -> JobStatus],
         NEW ts \in [Target -> TargetStatus], CloseOut(j, js, ts)
  PROVE  \A b \in Batch : \/ batchStatus'[b] # "completed"
                          \/ batchStatus[b] = "completed"
                          \/ EndsClean(b)
<1> DEFINE limited == EnforceBatchLimits(BatchOf(j),
                        EnqueueDiscovered(BatchOf(j), TargetOf(j), js, ts),
                        batchPages', batchErrors')
<1>1. /\ jobStatus' = limited
      /\ batchStatus' = FinishIfSettled({BatchOf(j)}, batchStatus, limited, batchErrors', flawed')
  BY DEF CloseOut
<1> HIDE DEF limited
<1>2. limited \in [Job -> JobStatus]
  BY <1>1, CloseOutFacts
<1>3. batchStatus \in [Batch -> BatchStatus]
  BY DEF TypeOK
<1> QED BY <1>1, <1>2, <1>3, FinishClean DEF EndsClean

(* A settlement calls no further batch completed.                          *)
LEMMA SettledUnclean ==
  ASSUME TypeOK, NEW bs, NEW b \in Batch, Settle(bs)[b] = "completed"
  PROVE  batchStatus[b] = "completed"
BY SettleFacts

(* Every step records outcomes of active jobs only, action by action.      *)
LEMMA OutcomesStep ==
  ASSUME QueueInv, Next
  PROVE  Outcomes
<1> USE DEF projectVars, batchVars, jobVars, targetVars, workerVars, txVars
<1>0. TypeOK /\ HeldWhileWorking
  BY DEF QueueInv
<1>1. ASSUME \/ \E p \in Project : RefreshOrganizations(p) \/ GenerateDiscoveryTargets(p)
             \/ \E t \in Target : ReviewPolicy(t)
             \/ \E w \in Worker : \/ Throw(w) \/ Abandon(w) \/ Crash(w) \/ Discover(w)
                                  \/ MarkJobRunning(w) \/ ReserveRequest(w)
             \/ \E j \in Job : LeaseRunsOut(j)
             \/ \E b \in Batch : RunExpires(b)
             \/ \E p \in Project : ResumePolicyHolds(p) \/ ResumeAbort(p)
             \/ \E w \in Worker, bs \in ClaimScopes, j \in Job : Hold(w, bs, j)
             \/ \E w \in Worker, o \in {"policy_hold", "blocked"} : BlockJob(w, o)
      PROVE  Outcomes
  <2>1. UNCHANGED <<batchErrors, flawed, batchStatus>>
    BY <1>1 DEF RefreshOrganizations, GenerateDiscoveryTargets, ReviewPolicy, Throw, Abandon,
       Crash, Discover, RecordTarget, RecordBlocked, MarkJobRunning, ReserveRequest,
       LeaseRunsOut, RunExpires, ResumePolicyHolds, ResumeAbort, Hold, BlockJob
  <2> QED BY <2>1, OutcomesKept
<1>2. ASSUME NEW p \in Project, ResumeCommit(p)
      PROVE  Outcomes
  BY <1>2, OutcomesKept DEF ResumeCommit, Reopened
<1>3. ASSUME NEW p \in Project, NEW s, SetStatus(p, s)
      PROVE  Outcomes
  BY <1>3, OutcomesKept DEF SetStatus
<1>4. ASSUME NEW b \in Batch, CreateApprovedRun(b) \/ CreateApprovedBatch(b)
      PROVE  Outcomes
  <2>1. PICK js : NewBatch(b, js)
    BY <1>4 DEF CreateApprovedRun, CreateApprovedBatch
  <2> QED BY <1>0, <2>1, OutcomesKept DEF NewBatch, TypeOK
<1>5. ASSUME NEW w \in Worker, NEW bs \in ClaimScopes, ClaimNothing(w, bs)
      PROVE  Outcomes
  <2>1. PICK x \in Transactions(w, bs) : batchStatus' = Settle(x.ended \cup found[w])
    BY <1>5 DEF ClaimNothing
  <2>2. \A b \in Batch : batchStatus'[b] = "completed" => batchStatus[b] = "completed"
    BY <1>0, <2>1, SettledUnclean
  <2> QED BY <1>5, <2>2 DEF Outcomes, ClaimNothing
<1>6. ASSUME NEW w \in Worker, NEW bs \in ClaimScopes, ClaimJob(w, bs)
      PROVE  Outcomes
  <2>1. PICK x \in Transactions(w, bs) : \E c \in Candidates(x) : Grant(w, x, c)
    BY <1>6 DEF ClaimJob
  <2>2. PICK c \in Candidates(x) : Grant(w, x, c)
    BY <2>1
  <2> DEFINE settled == Settle(x.ended \cup found[w])
  <2>3. batchStatus' = [settled EXCEPT ![BatchOf(c)] = "running"] /\ settled \in [Batch -> BatchStatus]
    BY <1>0, <2>2, SettleFacts DEF Grant
  <2>4. \A b \in Batch : settled[b] = "completed" => batchStatus[b] = "completed"
    BY <1>0, SettledUnclean
  <2> HIDE DEF settled
  <2>5. \A b \in Batch : batchStatus'[b] = "completed" => batchStatus[b] = "completed"
    BY <2>3, <2>4
  <2> QED BY <1>6, <2>5 DEF Outcomes, ClaimJob
<1>7. ASSUME NEW w \in Worker, CompleteJob(w)
      PROVE  Outcomes
  <2> DEFINE j == held[w]
             js == [jobStatus EXCEPT ![j] = "completed"]
             ts == [targetStatus EXCEPT ![TargetOf(j)] =
                      IF KindOf(j) = "discovery" THEN "ready" ELSE "crawled"]
  <2>1. /\ j \in Job /\ jobStatus[j] \in Active /\ CloseOut(j, js, ts)
        /\ flawed' \in {flawed \ {j}, flawed \cup {j}} /\ batchErrors' = batchErrors
    BY <1>0, <1>7 DEF CompleteJob, OwnsLease, Owns, HeldWhileWorking
  <2>2. /\ js \in [Job -> JobStatus] /\ ts \in [Target -> TargetStatus]
        /\ batchErrors' \in [Batch -> Nat]
    BY <1>0, <2>1 DEF TypeOK
  <2> HIDE DEF j, js, ts
  <2>3. \A b \in Batch : \/ batchStatus'[b] # "completed"
                         \/ batchStatus[b] = "completed"
                         \/ EndsClean(b)
    BY <1>0, <2>1, <2>2, CloseOutClean
  <2> QED BY <2>1, <2>3 DEF Outcomes
<1>8. ASSUME NEW w \in Worker, ContinueJob(w)
      PROVE  Outcomes
  BY <1>0, <1>8 DEF ContinueJob, OwnsLease, Owns, HeldWhileWorking, Outcomes
<1>9. ASSUME NEW w \in Worker, NEW r \in BOOLEAN, FailJob(w, r)
      PROVE  Outcomes
  <2> DEFINE j == held[w]
             retry == r /\ attemptCount[j] < MaxAttempts
             js == [jobStatus EXCEPT ![j] = IF retry THEN "queued" ELSE "failed"]
             ts == [targetStatus EXCEPT ![TargetOf(j)] = IF retry THEN "ready" ELSE "failed"]
  <2>1. /\ j \in Job /\ jobStatus[j] \in Active /\ CloseOut(j, js, ts)
        /\ batchErrors' = [batchErrors EXCEPT ![BatchOf(j)] = @ + 1] /\ UNCHANGED flawed
    BY <1>0, <1>9 DEF FailJob, Owns, HeldWhileWorking
  <2>2. /\ js \in [Job -> JobStatus] /\ ts \in [Target -> TargetStatus]
        /\ batchErrors' \in [Batch -> Nat]
    <3>1. js \in [Job -> JobStatus] /\ ts \in [Target -> TargetStatus]
      BY <1>0 DEF TypeOK
    <3>2. batchErrors' \in [Batch -> Nat]
      BY <1>0, <2>1, JobParts DEF TypeOK
    <3> QED BY <3>1, <3>2
  <2> HIDE DEF j, js, ts
  <2>3. \A b \in Batch : \/ batchStatus'[b] # "completed"
                         \/ batchStatus[b] = "completed"
                         \/ EndsClean(b)
    BY <1>0, <2>1, <2>2, CloseOutClean
  <2>4. \A b \in Batch : b # BatchOf(j) => batchErrors'[b] = batchErrors[b]
    BY <1>0, <2>1 DEF TypeOK
  <2> QED BY <2>1, <2>3, <2>4 DEF Outcomes
<1>10. ASSUME NEW w \in Worker, BlockCommit(w)
       PROVE  Outcomes
  <2>1. \A b \in Batch : batchStatus'[b] = "completed" => batchStatus[b] = "completed"
    BY <1>0, <1>10, SettledUnclean DEF BlockCommit
  <2> QED BY <1>10, <2>1 DEF Outcomes, BlockCommit
<1> QED
  BY <1>1, <1>2, <1>3, <1>4, <1>5, <1>6, <1>7, <1>8, <1>9, <1>10
  DEF Next, Operate, Claim, EndClaim, Work, Report, Expire

(* A batch the console shows as cleanly completed stays so: nothing active *)
(* is left in it that could still add an error, a failed job or a partial  *)
(* result, and only an open batch is given further jobs.                   *)
THEOREM CleanEndings == Spec => []CleanMeansComplete
<1>1. Init => CleanMeansComplete
  BY DEF Init, CleanMeansComplete
<1>2. QueueInv /\ CleanMeansComplete /\ [Next]_vars => CleanMeansComplete'
  <2> SUFFICES ASSUME QueueInv, CleanMeansComplete, [Next]_vars,
                      NEW b \in Batch, batchStatus'[b] = "completed"
               PROVE  EndsClean(b)
    BY DEF CleanMeansComplete, EndsClean, CleanRecord
  <2>1. CASE UNCHANGED vars
    BY <2>1 DEF vars, batchVars, jobVars, CleanMeansComplete, EndsClean, CleanRecord
  <2>2. CASE Next
    <3>1. Outcomes /\ Moves
      BY <2>2, OutcomesStep, MovesEveryStep
    <3>2. CASE batchStatus[b] = "completed"
      <4>1. ASSUME NEW j \in Job, BatchOf(j) = b
            PROVE  /\ jobStatus'[j] = jobStatus[j] /\ jobStatus[j] \in {"none", "completed"}
                   /\ j \notin flawed' /\ jobStatus[j] \notin Active
        BY <3>1, <3>2, <4>1 DEF CleanMeansComplete, Outcomes, Moves, JobMove, BatchMove
      <4>2. batchErrors'[b] = 0
        BY <3>1, <3>2, <4>1 DEF Outcomes, CleanMeansComplete
      <4> QED BY <4>1, <4>2 DEF EndsClean, CleanRecord
    <3> QED BY <3>1, <3>2 DEF Outcomes
  <2> QED BY <2>1, <2>2
<1> QED BY <1>1, <1>2, QueueSafety, PTL DEF Spec

----------------------------------------------------------------------------
(* What a claim gives its owner, and what a cancellation takes away.       *)

(* The step takes job j from slot w neither by the slot's own report nor   *)
(* by cancelling its project.                                              *)
Robbed(j, w) ==
  /\ OwnsLease(w, j) /\ held[w] = j
  /\ jobStatus'[j] \notin Active
  /\ held'[w] # NoJob /\ projectStatus'[Owner(j)] # "cancelled"

(* A report disturbs no active job but the one its slot holds.             *)
LEMMA ReportTakesOwn ==
  ASSUME QueueInv, NEW v \in Worker, held[v] \in Job, Owns(v, held[v]), Release(v),
         NEW w \in Worker, NEW j \in Job,
         \A k \in Job \ {held[v]} : jobStatus[k] \in Active => jobStatus'[k] = jobStatus[k]
  PROVE  ~Robbed(j, w)
BY DEF QueueInv, TypeOK, Robbed, OwnsLease, Owns, Release

(* The tail of a completion or a failure leaves the other active jobs.     *)
LEMMA CloseOutSparesActive ==
  ASSUME QueueInv, NEW j \in Job, NEW s \in JobStatus, NEW ts \in [Target -> TargetStatus],
         CloseOut(j, [jobStatus EXCEPT ![j] = s], ts)
  PROVE  \A k \in Job \ {j} : jobStatus[k] \in Active => jobStatus'[k] = jobStatus[k]
<1> DEFINE js == [jobStatus EXCEPT ![j] = s]
<1>1. /\ TypeOK /\ js \in [Job -> JobStatus] /\ CloseOut(j, js, ts)
      /\ \A k \in Job \ {j} : js[k] = jobStatus[k]
  BY DEF QueueInv, TypeOK
<1> HIDE DEF js
<1> QED BY <1>1, CloseOutFacts

(* The sweep and the holds of a claim pass over a job with a valid lease.  *)
LEMMA ClaimSparesValid ==
  ASSUME QueueInv, NEW j \in Job, jobStatus[j] \in Active, lease[j] = "valid",
         NEW w \in Worker, NEW bs \in ClaimScopes, NEW x \in Transactions(w, bs)
  PROVE  Read(x)[j] = jobStatus[j]
BY ReadFacts DEF LeaseExpired

(* No step robs a slot of a validly leased job, action by action.          *)
LEMMA NobodyRobbed ==
  ASSUME QueueInv, Next, NEW j \in Job, NEW w \in Worker
  PROVE  ~Robbed(j, w)
<1> USE DEF projectVars, batchVars, jobVars, targetVars, workerVars, txVars
<1>0. /\ TypeOK /\ HeldWhileWorking
      /\ jobStatus \in [Job -> JobStatus] /\ targetStatus \in [Target -> TargetStatus]
  BY DEF QueueInv, TypeOK
<1>1. ASSUME UNCHANGED jobStatus
      PROVE  ~Robbed(j, w)
  BY <1>1 DEF Robbed, OwnsLease, Owns
<1>2. ASSUME NEW p \in Project, ResumeCommit(p)
      PROVE  ~Robbed(j, w)
  BY <1>0, <1>2 DEF ResumeCommit, QueueInv, LockedAsFound, Robbed, OwnsLease, Owns
<1>3. ASSUME NEW p \in Project, NEW s \in {"active", "paused", "completed", "cancelled"},
             SetStatus(p, s)
      PROVE  ~Robbed(j, w)
  BY <1>0, <1>3 DEF SetStatus, Robbed, OwnsLease, Owns, TypeOK
<1>4. ASSUME NEW b \in Batch, NEW js, NewBatch(b, js), \A k \in js : BatchOf(k) = b
      PROVE  ~Robbed(j, w)
  <2>1. j \in js => jobStatus[j] = "none"
    BY <1>4 DEF NewBatch, QueueInv, FreshBatchIsEmpty
  <2> QED BY <1>0, <1>4, <2>1 DEF NewBatch, Robbed, OwnsLease, Owns
<1>5. ASSUME NEW v \in Worker, NEW bs \in ClaimScopes, ClaimNothing(v, bs)
      PROVE  ~Robbed(j, w)
  <2>1. PICK x \in Transactions(v, bs) : jobStatus' = Read(x)
    BY <1>5 DEF ClaimNothing
  <2> QED BY <2>1, ClaimSparesValid DEF Robbed, OwnsLease, Owns
<1>6. ASSUME NEW v \in Worker, NEW bs \in ClaimScopes, ClaimJob(v, bs)
      PROVE  ~Robbed(j, w)
  <2>1. PICK x \in Transactions(v, bs) : \E c \in Candidates(x) : Grant(v, x, c)
    BY <1>6 DEF ClaimJob
  <2>2. PICK c \in Candidates(x) : Grant(v, x, c)
    BY <2>1
  <2>3. c \in Job /\ Read(x) \in [Job -> JobStatus]
    BY ReadFacts DEF Candidates
  <2>4. /\ jobStatus'[c] = "claimed"
        /\ \A k \in Job \ {c} : jobStatus'[k] = Read(x)[k]
    BY <2>2, <2>3 DEF Grant
  <2> QED BY <2>4, ClaimSparesValid DEF Robbed, OwnsLease, Owns
<1>7. ASSUME NEW v \in Worker, MarkJobRunning(v)
      PROVE  ~Robbed(j, w)
  BY <1>0, <1>7 DEF MarkJobRunning, Robbed, OwnsLease, Owns
<1>8. ASSUME NEW v \in Worker, CompleteJob(v)
      PROVE  ~Robbed(j, w)
  <2> DEFINE ts == [targetStatus EXCEPT ![TargetOf(held[v])] =
                      IF KindOf(held[v]) = "discovery" THEN "ready" ELSE "crawled"]
  <2>1. /\ held[v] \in Job /\ Owns(v, held[v]) /\ Release(v)
        /\ CloseOut(held[v], [jobStatus EXCEPT ![held[v]] = "completed"], ts)
    BY <1>0, <1>8 DEF CompleteJob, OwnsLease, Owns, HeldWhileWorking
  <2>2. ts \in [Target -> TargetStatus]
    BY <1>0
  <2> HIDE DEF ts
  <2>3. \A k \in Job \ {held[v]} : jobStatus[k] \in Active => jobStatus'[k] = jobStatus[k]
    BY <2>1, <2>2, CloseOutSparesActive
  <2> QED BY <2>1, <2>3, ReportTakesOwn
<1>9. ASSUME NEW v \in Worker, ContinueJob(v)
      PROVE  ~Robbed(j, w)
  <2>1. /\ held[v] \in Job /\ Owns(v, held[v]) /\ Release(v)
        /\ \A k \in Job \ {held[v]} : jobStatus'[k] = jobStatus[k]
    BY <1>0, <1>9 DEF ContinueJob, OwnsLease, HeldWhileWorking
  <2> QED BY <2>1, ReportTakesOwn
<1>10. ASSUME NEW v \in Worker, NEW r \in BOOLEAN, FailJob(v, r)
       PROVE  ~Robbed(j, w)
  <2> DEFINE retry == r /\ attemptCount[held[v]] < MaxAttempts
             s == IF retry THEN "queued" ELSE "failed"
             ts == [targetStatus EXCEPT ![TargetOf(held[v])] =
                      IF retry THEN "ready" ELSE "failed"]
  <2>1. /\ held[v] \in Job /\ Owns(v, held[v]) /\ Release(v)
        /\ CloseOut(held[v], [jobStatus EXCEPT ![held[v]] = s], ts)
    BY <1>0, <1>10 DEF FailJob, Owns, HeldWhileWorking
  <2>2. ts \in [Target -> TargetStatus] /\ s \in JobStatus
    BY <1>0
  <2> HIDE DEF ts, s
  <2>3. \A k \in Job \ {held[v]} : jobStatus[k] \in Active => jobStatus'[k] = jobStatus[k]
    BY <2>1, <2>2, CloseOutSparesActive
  <2> QED BY <2>1, <2>3, ReportTakesOwn
<1>11. ASSUME NEW v \in Worker, BlockCommit(v)
       PROVE  ~Robbed(j, w)
  <2>1. /\ held[v] \in Job /\ Owns(v, held[v]) /\ Release(v)
        /\ \A k \in Job \ {held[v]} : jobStatus'[k] = jobStatus[k]
    BY <1>0, <1>11 DEF BlockCommit, QueueInv, LockedAsFound, HeldWhileWorking, Blocking
  <2> QED BY <2>1, ReportTakesOwn
<1>12. ASSUME \/ \E p \in Project : RefreshOrganizations(p) \/ GenerateDiscoveryTargets(p)
              \/ \E t \in Target : ReviewPolicy(t)
              \/ \E v \in Worker : \/ Throw(v) \/ Abandon(v) \/ Crash(v) \/ Discover(v)
                                   \/ ReserveRequest(v)
              \/ \E k \in Job : LeaseRunsOut(k)
              \/ \E b \in Batch : RunExpires(b)
              \/ \E p \in Project : ResumePolicyHolds(p) \/ ResumeAbort(p)
              \/ \E v \in Worker, bs \in ClaimScopes, k \in Job : Hold(v, bs, k)
              \/ \E v \in Worker, o \in {"policy_hold", "blocked"} : BlockJob(v, o)
       PROVE  UNCHANGED jobStatus
  BY <1>12 DEF RefreshOrganizations, GenerateDiscoveryTargets, ReviewPolicy, Throw, Abandon,
     Crash, Discover, RecordTarget, RecordBlocked, ReserveRequest, LeaseRunsOut, RunExpires,
     ResumePolicyHolds, ResumeAbort, Hold, BlockJob
<1>13. \A b \in Batch : CreateApprovedRun(b) \/ CreateApprovedBatch(b) =>
          \E js : NewBatch(b, js) /\ \A k \in js : BatchOf(k) = b
  BY DEF CreateApprovedRun, CreateApprovedBatch
<1> QED
  BY <1>1, <1>2, <1>3, <1>4, <1>5, <1>6, <1>7, <1>8, <1>9, <1>10, <1>11, <1>12, <1>13
  DEF Next, Operate, Claim, EndClaim, Work, Report, Expire

(* A slot with a valid lease keeps its job until it reports, dies or lets  *)
(* go, or the operator cancels the project: no other worker, sweep or      *)
(* breaker takes it away.                                                  *)
THEOREM LeaseProtectsOwner == Spec => ValidLeaseIsKept
<1>1. QueueInv /\ [Next]_vars =>
        [\A j \in Job, w \in Worker :
           /\ OwnsLease(w, j) /\ held[w] = j
           /\ jobStatus'[j] \notin Active
           => held'[w] = NoJob \/ projectStatus'[Owner(j)] = "cancelled"]_vars
  BY NobodyRobbed DEF Robbed
<1> QED BY <1>1, QueueSafety, PTL DEF Spec, ValidLeaseIsKept

(* What a step may only do for a project that is not cancelled.            *)
Authorizations ==
  /\ \A p \in Project : projectStatus[p] = "cancelled" => projectStatus'[p] = "cancelled"
  /\ \A j \in Job : \/ jobStatus'[j] # "claimed"
                    \/ jobStatus[j] = "claimed"
                    \/ projectStatus[Owner(j)] = "active"
  /\ \A b \in Batch : \/ batchPages'[b] = batchPages[b]
                      \/ ~collectDiscovered[b]
                      \/ projectStatus[ProjectOf[b]] = "active"

(* The tail of a report claims nothing.                                    *)
LEMMA CloseOutClaimsNothing ==
  ASSUME QueueInv, NEW j \in Job, NEW s \in {"completed", "queued", "failed"},
         NEW ts \in [Target -> TargetStatus],
         CloseOut(j, [jobStatus EXCEPT ![j] = s], ts)
  PROVE  \A k \in Job : jobStatus'[k] = "claimed" => jobStatus[k] = "claimed"
<1> DEFINE js == [jobStatus EXCEPT ![j] = s]
<1>1. /\ TypeOK /\ js \in [Job -> JobStatus] /\ CloseOut(j, js, ts)
      /\ \A k \in Job : js[k] = "claimed" => jobStatus[k] = "claimed"
  BY DEF QueueInv, TypeOK
<1> HIDE DEF js
<1> QED BY <1>1, CloseOutFacts

(* Every step works for live projects only, action by action.              *)
LEMMA AuthorizationsStep ==
  ASSUME QueueInv, Next
  PROVE  Authorizations
<1> USE DEF projectVars, batchVars, jobVars, targetVars, workerVars, txVars
<1>0. /\ TypeOK /\ HeldWhileWorking
      /\ jobStatus \in [Job -> JobStatus] /\ targetStatus \in [Target -> TargetStatus]
      /\ projectStatus \in [Project -> ProjectStatus]
  BY DEF QueueInv, TypeOK
<1>1. ASSUME UNCHANGED <<projectStatus, jobStatus, batchPages>>
      PROVE  Authorizations
  BY <1>1 DEF Authorizations
<1>2. ASSUME NEW p \in Project, ResumeCommit(p)
      PROVE  Authorizations
  BY <1>2 DEF ResumeCommit, Authorizations
<1>3. ASSUME NEW p \in Project, NEW s \in {"active", "paused", "completed", "cancelled"},
             SetStatus(p, s)
      PROVE  Authorizations
  BY <1>0, <1>3 DEF SetStatus, Authorizations
<1>4. ASSUME NEW b \in Batch, NEW js, NewBatch(b, js)
      PROVE  Authorizations
  BY <1>0, <1>4 DEF NewBatch, Authorizations
<1>5. ASSUME NEW w \in Worker, NEW bs \in ClaimScopes, ClaimNothing(w, bs)
      PROVE  Authorizations
  <2>1. PICK x \in Transactions(w, bs) : jobStatus' = Read(x)
    BY <1>5 DEF ClaimNothing
  <2>2. \A j \in Job : jobStatus'[j] = "claimed" => jobStatus[j] = "claimed"
    BY <2>1, ReadFacts
  <2> QED BY <1>5, <2>2 DEF ClaimNothing, Authorizations
<1>6. ASSUME NEW w \in Worker, NEW bs \in ClaimScopes, ClaimJob(w, bs)
      PROVE  Authorizations
  <2>1. PICK x \in Transactions(w, bs) : \E c \in Candidates(x) : Grant(w, x, c)
    BY <1>6 DEF ClaimJob
  <2>2. PICK c \in Candidates(x) : Grant(w, x, c)
    BY <2>1
  <2>3. /\ c \in Job /\ projectStatus[Owner(c)] = "active"
        /\ Read(x) \in [Job -> JobStatus]
        /\ \A k \in Job : Read(x)[k] = "claimed" => jobStatus[k] = "claimed"
    BY CandidateFacts, ReadFacts
  <2>4. jobStatus' = [Read(x) EXCEPT ![c] = "claimed"]
    BY <2>2 DEF Grant
  <2>5. \A k \in Job : jobStatus'[k] = "claimed" => k = c \/ jobStatus[k] = "claimed"
    BY <2>3, <2>4
  <2> QED BY <1>6, <2>3, <2>5 DEF ClaimJob, Authorizations
<1>7. ASSUME NEW w \in Worker, MarkJobRunning(w)
      PROVE  Authorizations
  BY <1>0, <1>7 DEF MarkJobRunning, Authorizations
<1>8. ASSUME NEW w \in Worker, ReserveRequest(w)
      PROVE  Authorizations
  <2>1. \A b \in Batch : b # BatchOf(held[w]) => batchPages'[b] = batchPages[b]
    BY <1>0, <1>8 DEF ReserveRequest, TypeOK
  <2> QED BY <1>8, <2>1 DEF ReserveRequest, Authorized, Authorizations
<1>9. ASSUME NEW w \in Worker, CompleteJob(w)
      PROVE  Authorizations
  <2> DEFINE ts == [targetStatus EXCEPT ![TargetOf(held[w])] =
                      IF KindOf(held[w]) = "discovery" THEN "ready" ELSE "crawled"]
  <2>1. /\ held[w] \in Job /\ UNCHANGED projectStatus
        /\ CloseOut(held[w], [jobStatus EXCEPT ![held[w]] = "completed"], ts)
    BY <1>0, <1>9 DEF CompleteJob, HeldWhileWorking
  <2>2. ts \in [Target -> TargetStatus]
    BY <1>0
  <2>3. \A b \in Batch : collectDiscovered[b] => batchPages'[b] = batchPages[b]
    BY <1>0, <1>9 DEF CompleteJob, Charged, TypeOK
  <2> HIDE DEF ts
  <2>4. \A k \in Job : jobStatus'[k] = "claimed" => jobStatus[k] = "claimed"
    BY <2>1, <2>2, CloseOutClaimsNothing
  <2> QED BY <2>1, <2>3, <2>4 DEF Authorizations
<1>10. ASSUME NEW w \in Worker, ContinueJob(w)
       PROVE  Authorizations
  BY <1>0, <1>10 DEF ContinueJob, Authorizations
<1>11. ASSUME NEW w \in Worker, NEW r \in BOOLEAN, FailJob(w, r)
       PROVE  Authorizations
  <2> DEFINE retry == r /\ attemptCount[held[w]] < MaxAttempts
             s == IF retry THEN "queued" ELSE "failed"
             ts == [targetStatus EXCEPT ![TargetOf(held[w])] =
                      IF retry THEN "ready" ELSE "failed"]
  <2>1. /\ held[w] \in Job /\ UNCHANGED <<projectStatus, batchPages>>
        /\ CloseOut(held[w], [jobStatus EXCEPT ![held[w]] = s], ts)
    BY <1>0, <1>11 DEF FailJob, HeldWhileWorking
  <2>2. ts \in [Target -> TargetStatus] /\ s \in {"completed", "queued", "failed"}
    BY <1>0
  <2> HIDE DEF ts, s
  <2>3. \A k \in Job : jobStatus'[k] = "claimed" => jobStatus[k] = "claimed"
    BY <2>1, <2>2, CloseOutClaimsNothing
  <2> QED BY <2>1, <2>3 DEF Authorizations
<1>12. ASSUME NEW w \in Worker, BlockCommit(w)
       PROVE  Authorizations
  BY <1>0, <1>12 DEF BlockCommit, Authorizations
<1>13. ASSUME \/ \E p \in Project : RefreshOrganizations(p) \/ GenerateDiscoveryTargets(p)
              \/ \E t \in Target : ReviewPolicy(t)
              \/ \E w \in Worker : Throw(w) \/ Abandon(w) \/ Crash(w) \/ Discover(w)
              \/ \E j \in Job : LeaseRunsOut(j)
              \/ \E b \in Batch : RunExpires(b)
              \/ \E p \in Project : ResumePolicyHolds(p) \/ ResumeAbort(p)
              \/ \E w \in Worker, bs \in ClaimScopes, j \in Job : Hold(w, bs, j)
              \/ \E w \in Worker, o \in {"policy_hold", "blocked"} : BlockJob(w, o)
       PROVE  UNCHANGED <<projectStatus, jobStatus, batchPages>>
  BY <1>13 DEF RefreshOrganizations, GenerateDiscoveryTargets, ReviewPolicy, Throw, Abandon,
     Crash, Discover, RecordTarget, RecordBlocked, LeaseRunsOut, RunExpires, ResumePolicyHolds,
     ResumeAbort, Hold, BlockJob
<1>14. \A b \in Batch : CreateApprovedRun(b) \/ CreateApprovedBatch(b) =>
          \E js : NewBatch(b, js)
  BY DEF CreateApprovedRun, CreateApprovedBatch
<1> QED
  BY <1>1, <1>2, <1>3, <1>4, <1>5, <1>6, <1>7, <1>8, <1>9, <1>10, <1>11, <1>12, <1>13, <1>14
  DEF Next, Operate, Claim, EndClaim, Work, Report, Expire

(* Once cancelled, a project stays cancelled and no step claims a job for  *)
(* it or charges a request to one of its runs, whatever its slots hold.    *)
THEOREM CancellationIsFinal == Spec => CancelledProjectStops
<1>1. QueueInv /\ [Next]_vars =>
        [\A p \in Project : projectStatus[p] = "cancelled" =>
           /\ projectStatus'[p] = "cancelled"
           /\ \A j \in Job : Owner(j) = p =>
                /\ jobStatus'[j] = "claimed" => jobStatus[j] = "claimed"
                /\ collectDiscovered[BatchOf(j)]
                     => batchPages'[BatchOf(j)] = batchPages[BatchOf(j)]]_vars
  BY AuthorizationsStep, JobParts DEF Authorizations, Owner
<1> QED BY <1>1, QueueSafety, PTL DEF Spec, CancelledProjectStops

----------------------------------------------------------------------------
(* The error breaker.                                                      *)

(* Exclusive lanes leave a batch at most one active job per domain.        *)
LEMMA OneJobPerLane ==
  ASSUME IsFiniteSet(Domain), OneActivePerDomain, NEW b \in Batch
  PROVE  /\ IsFiniteSet(ActiveJobs(b))
         /\ Cardinality(ActiveJobs(b)) \in Nat
         /\ Cardinality(ActiveJobs(b)) <= Cardinality(Domain)
<1> DEFINE lane == [j \in ActiveJobs(b) |-> DomainKey(j)]
<1>1. lane \in [ActiveJobs(b) -> Domain]
  BY JobParts DEF ActiveJobs
<1>2. \A j, k \in ActiveJobs(b) : lane[j] = lane[k] => j = k
  BY DEF ActiveJobs, OneActivePerDomain
<1>3. lane \in Injection(ActiveJobs(b), Domain)
  BY <1>1, <1>2 DEF Injection, IsInjective
<1> QED BY <1>3, FS_Injection, FS_CardinalityType

(* What a step does to the breaker of batch b: it starts no job of b and   *)
(* charges nothing, or it charges an error and ends an active job of b, or *)
(* it starts one while the breaker has not tripped.                        *)
BreakerMove(b) ==
  \/ /\ batchErrors'[b] = batchErrors[b]
     /\ \A j \in Job : BatchOf(j) = b /\ jobStatus'[j] \in Active => jobStatus[j] \in Active
  \/ /\ batchErrors'[b] = batchErrors[b] + 1
     /\ \E e \in ActiveJobs(b) :
          \A j \in Job : BatchOf(j) = b /\ jobStatus'[j] \in Active
                         => jobStatus[j] \in Active /\ j # e
  \/ batchErrors'[b] = batchErrors[b] /\ batchErrors[b] < ErrorLimit

(* A step that charges nothing and starts nothing.                         *)
LEMMA BreakerRests ==
  ASSUME UNCHANGED batchErrors,
         \A j \in Job : jobStatus'[j] \in Active => jobStatus[j] \in Active
  PROVE  \A b \in Batch : BreakerMove(b)
BY DEF BreakerMove

(* Every step moves every breaker so, action by action.                    *)
LEMMA BreakerStep ==
  ASSUME QueueInv, Next
  PROVE  \A b \in Batch : BreakerMove(b)
<1> USE DEF projectVars, batchVars, jobVars, targetVars, workerVars, txVars
<1>0. /\ TypeOK /\ HeldWhileWorking
      /\ jobStatus \in [Job -> JobStatus] /\ targetStatus \in [Target -> TargetStatus]
      /\ batchErrors \in [Batch -> Nat]
  BY DEF QueueInv, TypeOK
<1>1. ASSUME UNCHANGED <<jobStatus, batchErrors>>
      PROVE  \A b \in Batch : BreakerMove(b)
  BY <1>1, BreakerRests
<1>2. ASSUME NEW p \in Project, ResumeCommit(p)
      PROVE  \A b \in Batch : BreakerMove(b)
  BY <1>2, BreakerRests DEF ResumeCommit
<1>3. ASSUME NEW p \in Project, NEW s, SetStatus(p, s)
      PROVE  \A b \in Batch : BreakerMove(b)
  BY <1>3, BreakerRests DEF SetStatus
<1>4. ASSUME NEW b \in Batch, NEW js, NewBatch(b, js)
      PROVE  \A c \in Batch : BreakerMove(c)
  BY <1>4, BreakerRests DEF NewBatch
<1>5. ASSUME NEW w \in Worker, NEW bs \in ClaimScopes, ClaimNothing(w, bs)
      PROVE  \A b \in Batch : BreakerMove(b)
  <2>1. PICK x \in Transactions(w, bs) : jobStatus' = Read(x)
    BY <1>5 DEF ClaimNothing
  <2>2. \A j \in Job : jobStatus'[j] \in Active => jobStatus[j] \in Active
    BY <2>1, ReadFacts
  <2> QED BY <1>5, <2>2, BreakerRests DEF ClaimNothing
<1>6. ASSUME NEW w \in Worker, NEW bs \in ClaimScopes, ClaimJob(w, bs)
      PROVE  \A b \in Batch : BreakerMove(b)
  <2>1. PICK x \in Transactions(w, bs) : \E c \in Candidates(x) : Grant(w, x, c)
    BY <1>6 DEF ClaimJob
  <2>2. PICK c \in Candidates(x) : Grant(w, x, c)
    BY <2>1
  <2>3. c \in Job /\ BatchOf(c) \in Batch /\ WithinLimits(BatchOf(c))
    BY CandidateFacts
  <2>4. batchErrors[BatchOf(c)] < ErrorLimit
    BY <1>0, <2>3, LimitAssumption DEF WithinLimits, Tripped
  <2>5. /\ Read(x) \in [Job -> JobStatus]
        /\ \A k \in Job : Read(x)[k] \in Active => jobStatus[k] \in Active
    BY ReadFacts
  <2>6. jobStatus' = [Read(x) EXCEPT ![c] = "claimed"] /\ UNCHANGED batchErrors
    BY <1>6, <2>2 DEF Grant, ClaimJob
  <2>7. \A k \in Job : jobStatus'[k] \in Active => k = c \/ jobStatus[k] \in Active
    BY <2>5, <2>6
  <2> QED BY <2>3, <2>4, <2>6, <2>7 DEF BreakerMove
<1>7. ASSUME NEW w \in Worker, MarkJobRunning(w)
      PROVE  \A b \in Batch : BreakerMove(b)
  BY <1>0, <1>7, BreakerRests DEF MarkJobRunning, OwnsLease, Owns, HeldWhileWorking
<1>8. ASSUME NEW w \in Worker, CompleteJob(w)
      PROVE  \A b \in Batch : BreakerMove(b)
  <2> DEFINE js == [jobStatus EXCEPT ![held[w]] = "completed"]
             ts == [targetStatus EXCEPT ![TargetOf(held[w])] =
                      IF KindOf(held[w]) = "discovery" THEN "ready" ELSE "crawled"]
  <2>1. /\ held[w] \in Job /\ UNCHANGED batchErrors /\ CloseOut(held[w], js, ts)
    BY <1>0, <1>8 DEF CompleteJob, HeldWhileWorking
  <2>2. /\ js \in [Job -> JobStatus] /\ ts \in [Target -> TargetStatus]
        /\ \A k \in Job : js[k] \in Active => jobStatus[k] \in Active
    BY <1>0
  <2> HIDE DEF js, ts
  <2>3. \A k \in Job : jobStatus'[k] \in Active => jobStatus[k] \in Active
    BY <1>0, <2>1, <2>2, CloseOutFacts
  <2> QED BY <2>1, <2>3, BreakerRests
<1>9. ASSUME NEW w \in Worker, ContinueJob(w)
      PROVE  \A b \in Batch : BreakerMove(b)
  BY <1>0, <1>9, BreakerRests DEF ContinueJob
<1>10. ASSUME NEW w \in Worker, NEW r \in BOOLEAN, FailJob(w, r)
       PROVE  \A b \in Batch : BreakerMove(b)
  <2> DEFINE j == held[w]
             retry == r /\ attemptCount[j] < MaxAttempts
             s == IF retry THEN "queued" ELSE "failed"
             js == [jobStatus EXCEPT ![j] = s]
             ts == [targetStatus EXCEPT ![TargetOf(j)] = IF retry THEN "ready" ELSE "failed"]
  <2>1. /\ j \in Job /\ BatchOf(j) \in Batch /\ jobStatus[j] \in Active /\ CloseOut(j, js, ts)
        /\ batchErrors' = [batchErrors EXCEPT ![BatchOf(j)] = @ + 1]
    BY <1>0, <1>10, JobParts DEF FailJob, Owns, HeldWhileWorking
  <2>2. /\ js \in [Job -> JobStatus] /\ ts \in [Target -> TargetStatus]
        /\ \A k \in Job : js[k] \in Active => jobStatus[k] \in Active /\ k # j
    BY <1>0, <2>1
  <2> HIDE DEF j, js, ts
  <2>3. \A k \in Job : jobStatus'[k] \in Active => jobStatus[k] \in Active /\ k # j
    BY <1>0, <2>1, <2>2, CloseOutFacts
  <2>4. j \in ActiveJobs(BatchOf(j))
    BY <2>1 DEF ActiveJobs
  <2>5. \A b \in Batch : batchErrors'[b] =
           (IF b = BatchOf(j) THEN batchErrors[b] + 1 ELSE batchErrors[b])
    BY <1>0, <2>1
  <2> QED BY <2>3, <2>4, <2>5 DEF BreakerMove
<1>11. ASSUME NEW w \in Worker, BlockCommit(w)
       PROVE  \A b \in Batch : BreakerMove(b)
  BY <1>0, <1>11, BreakerRests DEF BlockCommit
<1>12. ASSUME \/ \E p \in Project : RefreshOrganizations(p) \/ GenerateDiscoveryTargets(p)
              \/ \E t \in Target : ReviewPolicy(t)
              \/ \E w \in Worker : \/ Throw(w) \/ Abandon(w) \/ Crash(w) \/ Discover(w)
                                   \/ ReserveRequest(w)
              \/ \E j \in Job : LeaseRunsOut(j)
              \/ \E b \in Batch : RunExpires(b)
              \/ \E p \in Project : ResumePolicyHolds(p) \/ ResumeAbort(p)
              \/ \E w \in Worker, bs \in ClaimScopes, j \in Job : Hold(w, bs, j)
              \/ \E w \in Worker, o \in {"policy_hold", "blocked"} : BlockJob(w, o)
       PROVE  UNCHANGED <<jobStatus, batchErrors>>
  BY <1>12 DEF RefreshOrganizations, GenerateDiscoveryTargets, ReviewPolicy, Throw, Abandon,
     Crash, Discover, RecordTarget, RecordBlocked, ReserveRequest, LeaseRunsOut, RunExpires,
     ResumePolicyHolds, ResumeAbort, Hold, BlockJob
<1>13. \A b \in Batch : CreateApprovedRun(b) \/ CreateApprovedBatch(b) =>
          \E js : NewBatch(b, js)
  BY DEF CreateApprovedRun, CreateApprovedBatch
<1> QED
  BY <1>1, <1>2, <1>3, <1>4, <1>5, <1>6, <1>7, <1>8, <1>9, <1>10, <1>11, <1>12, <1>13
  DEF Next, Operate, Claim, EndClaim, Work, Report, Expire

(* The error breaker trips late only by the jobs already in flight: while  *)
(* it has not tripped the exclusive lanes bound those, and once it has,    *)
(* each further error ends one of them and none starts.                    *)
THEOREM BreakerBound ==
  ASSUME IsFiniteSet(Domain)
  PROVE  Spec => []BreakerOvershoot
<1> DEFINE lanes == Cardinality(Domain)
<1>0. lanes \in Nat /\ ErrorLimit \in Nat \ {0}
  BY FS_CardinalityType, LimitAssumption
<1>1. Init => BreakerOvershoot
  <2> SUFFICES ASSUME Init, NEW b \in Batch
               PROVE  batchErrors[b] + Cardinality(ActiveJobs(b)) <= ErrorLimit - 1 + lanes
    BY DEF BreakerOvershoot
  <2>1. QueueInv /\ batchErrors[b] = 0
    BY InvInit DEF Init
  <2> QED BY <1>0, <2>1, OneJobPerLane DEF QueueInv
<1>2. QueueInv /\ QueueInv' /\ BreakerOvershoot /\ [Next]_vars => BreakerOvershoot'
  <2> SUFFICES ASSUME QueueInv, QueueInv', BreakerOvershoot, [Next]_vars, NEW b \in Batch
               PROVE  batchErrors'[b] + Cardinality(ActiveJobs(b)')
                        <= ErrorLimit - 1 + lanes
    BY DEF BreakerOvershoot
  <2>1. BreakerMove(b)
    <3>1. CASE Next
      BY <3>1, BreakerStep
    <3>2. CASE UNCHANGED vars
      BY <3>2, BreakerRests DEF vars, batchVars, jobVars
    <3> QED BY <3>1, <3>2
  <2>2. /\ IsFiniteSet(ActiveJobs(b)) /\ Cardinality(ActiveJobs(b)) \in Nat
        /\ Cardinality(ActiveJobs(b)) <= lanes
    BY OneJobPerLane DEF QueueInv
  <2>3. /\ Cardinality(ActiveJobs(b)') \in Nat
        /\ Cardinality(ActiveJobs(b)') <= lanes
    <3>1. OneActivePerDomain'
      BY DEF QueueInv
    <3>2. PICK lane : lane = [j \in ActiveJobs(b)' |-> DomainKey(j)]
      OBVIOUS
    <3>3. lane \in [ActiveJobs(b)' -> Domain]
      BY <3>2, JobParts DEF ActiveJobs
    <3>4. \A j, k \in ActiveJobs(b)' : lane[j] = lane[k] => j = k
      BY <3>1, <3>2 DEF ActiveJobs, OneActivePerDomain
    <3>5. lane \in Injection(ActiveJobs(b)', Domain)
      BY <3>3, <3>4 DEF Injection, IsInjective
    <3> QED BY <3>5, FS_Injection, FS_CardinalityType
  <2>4. /\ batchErrors[b] \in Nat
        /\ batchErrors[b] + Cardinality(ActiveJobs(b)) <= ErrorLimit - 1 + lanes
    BY DEF QueueInv, TypeOK, BreakerOvershoot
  <2>5. CASE /\ batchErrors'[b] = batchErrors[b]
             /\ \A j \in Job : BatchOf(j) = b /\ jobStatus'[j] \in Active
                               => jobStatus[j] \in Active
    <3>1. ActiveJobs(b)' \in SUBSET ActiveJobs(b)
      BY <2>5 DEF ActiveJobs
    <3>2. Cardinality(ActiveJobs(b)') <= Cardinality(ActiveJobs(b))
      BY <2>2, <3>1, FS_Subset
    <3> QED BY <1>0, <2>2, <2>3, <2>4, <2>5, <3>2
  <2>6. CASE /\ batchErrors'[b] = batchErrors[b] + 1
             /\ \E e \in ActiveJobs(b) :
                  \A j \in Job : BatchOf(j) = b /\ jobStatus'[j] \in Active
                                 => jobStatus[j] \in Active /\ j # e
    <3>1. PICK e \in ActiveJobs(b) :
            \A j \in Job : BatchOf(j) = b /\ jobStatus'[j] \in Active
                           => jobStatus[j] \in Active /\ j # e
      BY <2>6
    <3>2. ActiveJobs(b)' \in SUBSET (ActiveJobs(b) \ {e})
      BY <3>1 DEF ActiveJobs
    <3>3. /\ IsFiniteSet(ActiveJobs(b) \ {e})
          /\ Cardinality(ActiveJobs(b) \ {e}) = Cardinality(ActiveJobs(b)) - 1
      BY <2>2, <3>1, FS_RemoveElement
    <3>4. Cardinality(ActiveJobs(b)') <= Cardinality(ActiveJobs(b)) - 1
      BY <3>2, <3>3, FS_Subset
    <3> QED BY <1>0, <2>2, <2>3, <2>4, <2>6, <3>4
  <2>7. CASE batchErrors'[b] = batchErrors[b] /\ batchErrors[b] < ErrorLimit
    BY <1>0, <2>3, <2>4, <2>7
  <2> QED BY <2>1, <2>5, <2>6, <2>7 DEF BreakerMove
<1> QED BY <1>1, <1>2, QueueSafety, PTL DEF Spec

----------------------------------------------------------------------------
(* Sums over a finite set.                                                  *)

(* The function a total is read from.                                       *)
IsSum(f, S, g) ==
  f = [s \in SUBSET S |-> IF s = {} THEN 0 ELSE LET j == CHOOSE k \in s : TRUE IN g[j] + f[s \ {j}]]

(* A finite set without the element chosen of it is smaller.                *)
LEMMA OneLess ==
  ASSUME NEW s, IsFiniteSet(s), s # {}
  PROVE  LET x == CHOOSE y \in s : TRUE
         IN  x \in s /\ IsFiniteSet(s \ {x}) /\ Cardinality(s \ {x}) + 1 = Cardinality(s)
             /\ Cardinality(s \ {x}) \in Nat
<1> DEFINE x == CHOOSE y \in s : TRUE
<1>1. x \in s
  OBVIOUS
<1> HIDE DEF x
<1>2. IsFiniteSet(s \ {x}) /\ Cardinality(s \ {x}) = Cardinality(s) - 1
  BY <1>1, FS_RemoveElement
<1>3. Cardinality(s) \in Nat /\ Cardinality(s \ {x}) \in Nat
  BY <1>2, FS_CardinalityType
<1> QED BY <1>1, <1>2, <1>3 DEF x

(* A finite set can be summed over.                                         *)
LEMMA SumExists ==
  ASSUME NEW S, IsFiniteSet(S), NEW g
  PROVE  \E sum : IsSum(sum, S, g)
<1> DEFINE Small(n) == {s \in SUBSET S : Cardinality(s) <= n}
           Sums(f, n) == f = [s \in Small(n) |-> IF s = {} THEN 0
                                 ELSE LET x == CHOOSE y \in s : TRUE IN g[x] + f[s \ {x}]]
           N == {n \in Nat : \E f : Sums(f, n)}
<1>0. \A s \in SUBSET S : IsFiniteSet(s) /\ Cardinality(s) \in Nat
  BY FS_Subset, FS_CardinalityType
<1>1. 0 \in N
  <2> DEFINE zero == [s \in Small(0) |-> 0]
  <2>1. \A s \in Small(0) : s = {}
    BY <1>0, FS_EmptySet
  <2>2. Sums(zero, 0)
    BY <2>1
  <2> QED BY <2>2
<1>2. ASSUME NEW n \in Nat, n \in N PROVE n + 1 \in N
  <2>1. PICK f : Sums(f, n)
    BY <1>2
  <2> DEFINE h == [s \in Small(n + 1) |-> IF s = {} THEN 0
                      ELSE LET x == CHOOSE y \in s : TRUE IN g[x] + f[s \ {x}]]
  <2>2. ASSUME NEW s \in Small(n) PROVE s \in Small(n + 1) /\ h[s] = f[s]
    BY <1>0, <2>1
  <2>3. ASSUME NEW s \in Small(n + 1), s # {}
        PROVE  LET x == CHOOSE y \in s : TRUE IN s \ {x} \in Small(n)
    BY <1>0, <2>3, OneLess
  <2>4. Sums(h, n + 1)
    <3> SUFFICES ASSUME NEW s \in Small(n + 1)
                 PROVE  h[s] = IF s = {} THEN 0
                               ELSE LET x == CHOOSE y \in s : TRUE IN g[x] + h[s \ {x}]
      OBVIOUS
    <3>1. CASE s = {}
      BY <3>1
    <3>2. CASE s # {}
      <4> DEFINE x == CHOOSE y \in s : TRUE
      <4>1. h[s] = g[x] + f[s \ {x}]
        BY <3>2
      <4>2. h[s \ {x}] = f[s \ {x}]
        BY <2>2, <2>3, <3>2
      <4> QED BY <3>2, <4>1, <4>2
    <3> QED BY <3>1, <3>2
  <2>5. \E sum : Sums(sum, n + 1)
    BY <2>4
  <2> HIDE DEF Sums
  <2> QED BY <2>5
<1>3. Cardinality(S) \in N
  <2> HIDE DEF N
  <2>1. Nat \subseteq N
    BY <1>1, <1>2, NaturalsByInduction
  <2> QED BY <1>0, <2>1
<1>4. PICK f : Sums(f, Cardinality(S))
  BY <1>3
<1>5. Small(Cardinality(S)) = SUBSET S
  BY <1>0, FS_Subset
<1> HIDE DEF Small
<1> QED BY <1>4, <1>5 DEF IsSum

(* Summing functions that differ by k at one element.                       *)
LEMMA SumsDiffer ==
  ASSUME NEW S, IsFiniteSet(S), NEW e, NEW k \in Nat,
         NEW g, NEW h, \A x \in S : g[x] \in Nat,
         \A x \in S : h[x] = g[x] + (IF x = e THEN k ELSE 0),
         NEW f1, IsSum(f1, S, g), NEW f2, IsSum(f2, S, h)
  PROVE  \A s \in SUBSET S : f1[s] \in Nat /\ f2[s] = f1[s] + (IF e \in s THEN k ELSE 0)
<1> DEFINE Good(s) == f1[s] \in Nat /\ f2[s] = f1[s] + (IF e \in s THEN k ELSE 0)
           N == {n \in Nat : \A s \in SUBSET S : Cardinality(s) <= n => Good(s)}
<1>0. \A s \in SUBSET S : IsFiniteSet(s) /\ Cardinality(s) \in Nat
  BY FS_Subset, FS_CardinalityType
<1>1. f1[{}] = 0 /\ f2[{}] = 0
  BY DEF IsSum
<1>2. Good({})
  BY <1>1
<1>3. 0 \in N
  <2>1. \A s \in SUBSET S : Cardinality(s) <= 0 => s = {}
    BY <1>0, FS_EmptySet
  <2> HIDE DEF Good
  <2> QED BY <1>2, <2>1
<1>4. ASSUME NEW n \in Nat, n \in N PROVE n + 1 \in N
  <2> SUFFICES ASSUME NEW s \in SUBSET S, Cardinality(s) <= n + 1 PROVE Good(s)
    <3> HIDE DEF Good
    <3> QED OBVIOUS
  <2> SUFFICES ASSUME s # {} PROVE Good(s)
    BY <1>2
  <2> DEFINE x == CHOOSE y \in s : TRUE
             r == s \ {x}
  <2>1. x \in s /\ x \in S /\ r \in SUBSET S /\ Cardinality(r) <= n
    BY <1>0, OneLess
  <2>2. f1[s] = g[x] + f1[r] /\ f2[s] = h[x] + f2[r]
    BY DEF IsSum
  <2>3. r \in SUBSET S /\ e \in r <=> (e \in s /\ e # x)
    BY <2>1
  <2> HIDE DEF x, r
  <2>4. f1[r] \in Nat /\ f2[r] = f1[r] + (IF e \in r THEN k ELSE 0)
    BY <1>4, <2>1
  <2>5. g[x] \in Nat /\ h[x] = g[x] + (IF x = e THEN k ELSE 0)
    BY <2>1
  <2> QED BY <2>1, <2>2, <2>3, <2>4, <2>5
<1>5. Nat \subseteq N
  <2> HIDE DEF N
  <2> QED BY <1>3, <1>4, NaturalsByInduction
<1> HIDE DEF Good
<1> QED BY <1>0, <1>5 DEF Good

(* The total is that of the function the definition chooses.                *)
LEMMA TotalIsSum ==
  ASSUME NEW S, IsFiniteSet(S), NEW g
  PROVE  \E sum : IsSum(sum, S, g) /\ Total(g, S) = sum[S]
<1> DEFINE sum == CHOOSE f : IsSum(f, S, g)
<1>1. IsSum(sum, S, g)
  BY SumExists
<1>2. Total(g, S) = sum[S]
  BY DEF Total, IsSum
<1> HIDE DEF sum
<1> QED BY <1>1, <1>2

(* One more at one element is one more in total.                            *)
LEMMA TotalMoves ==
  ASSUME NEW S, IsFiniteSet(S), NEW e, NEW k \in Nat, NEW g, NEW h,
         \A x \in S : g[x] \in Nat, \A x \in S : h[x] = g[x] + (IF x = e THEN k ELSE 0)
  PROVE  Total(h, S) = Total(g, S) + (IF e \in S THEN k ELSE 0)
<1>1. PICK sum : IsSum(sum, S, g) /\ Total(g, S) = sum[S]
  BY TotalIsSum
<1>2. PICK after : IsSum(after, S, h) /\ Total(h, S) = after[S]
  BY TotalIsSum
<1>3. \A s \in SUBSET S : after[s] = sum[s] + (IF e \in s THEN k ELSE 0)
  BY <1>1, <1>2, SumsDiffer
<1> QED BY <1>1, <1>2, <1>3

(* Nothing adds up to nothing.                                             *)
LEMMA TotalOfNothing ==
  ASSUME NEW S, IsFiniteSet(S), NEW g, \A x \in S : g[x] = 0
  PROVE  Total(g, S) = 0
<1>1. PICK sum : IsSum(sum, S, g) /\ Total(g, S) = sum[S]
  BY TotalIsSum
<1> DEFINE zero == [s \in SUBSET S |-> 0]
<1>2. IsSum(zero, S, g)
  <2> SUFFICES ASSUME NEW s \in SUBSET S, s # {}
               PROVE  0 = LET j == CHOOSE k \in s : TRUE IN g[j] + zero[s \ {j}]
    BY DEF IsSum
  <2> DEFINE j == CHOOSE k \in s : TRUE
  <2>1. j \in S /\ s \ {j} \in SUBSET S
    OBVIOUS
  <2> HIDE DEF j
  <2>2. g[j] = 0 /\ zero[s \ {j}] = 0
    BY <2>1
  <2> HIDE DEF zero
  <2>3. 0 = g[j] + zero[s \ {j}]
    BY <2>2
  <2> QED BY <2>3 DEF j
<1> HIDE DEF zero
<1>3. \A x \in S : g[x] \in Nat
  OBVIOUS
<1>4. ASSUME NEW h, IsSum(sum, S, h), NEW e, NEW k \in Nat,
             \A x \in S : h[x] = g[x] + (IF x = e THEN k ELSE 0)
      PROVE  sum[S] = zero[S] + (IF e \in S THEN k ELSE 0)
  BY <1>2, <1>3, <1>4, SumsDiffer
<1>5. zero[S] = 0
  BY DEF zero
<1>6. \A x \in S : g[x] = g[x] + (IF x = S THEN 0 ELSE 0)
  BY <1>3
<1>7. sum[S] = zero[S] + (IF S \in S THEN 0 ELSE 0)
  BY <1>1, <1>4, <1>6
<1> QED BY <1>1, <1>5, <1>7

----------------------------------------------------------------------------
(* What a step may do to the pages of a run: nothing, or charge one page to *)
(* the run and to one of its jobs.                                          *)
SamePages(b) == batchPages'[b] = batchPages[b] /\ \A j \in JobsOf(b) : jobPages'[j] = jobPages[j]
OnePage(b, e) ==
  /\ e \in JobsOf(b) /\ batchPages'[b] = batchPages[b] + 1
  /\ \A j \in JobsOf(b) : jobPages'[j] = jobPages[j] + (IF j = e THEN 1 ELSE 0)
Charges ==
  /\ \A b \in Batch : batchStatus[b] = "none" => SamePages(b)
  /\ \A b \in Batch : ~collectDiscovered[b] /\ collectDiscovered'[b] => batchStatus[b] = "none"
  /\ \A b \in Batch : collectDiscovered[b] => SamePages(b) \/ \E e \in Job : OnePage(b, e)

(* A report says no more pages of a run than its job was charged.           *)
LEMMA ReportedIsCharged ==
  ASSUME QueueInv, NEW j \in Job, jobStatus[j] # "none", collectDiscovered' = collectDiscovered,
         NEW n \in Reported(j), jobPages' = [jobPages EXCEPT ![j] = Greatest(@, n)],
         \A b \in Batch : b # BatchOf(j) \/ collectDiscovered[b] => batchPages'[b] = batchPages[b]
  PROVE  Charges
<1>1. TypeOK /\ BatchOf(j) \in Batch /\ batchStatus[BatchOf(j)] # "none"
  BY JobParts DEF QueueInv, FreshBatchIsEmpty
<1>2. \A i \in Job : i # j => jobPages'[i] = jobPages[i]
  BY <1>1 DEF TypeOK
<1>3. collectDiscovered[BatchOf(j)] => jobPages'[j] = jobPages[j]
  BY <1>1 DEF TypeOK, Reported, Greatest
<1> QED BY <1>1, <1>2, <1>3 DEF Charges, SamePages, JobsOf

(* Every step is such a step.                                               *)
LEMMA ChargesStep ==
  ASSUME QueueInv, Next
  PROVE  Charges
<1> USE DEF projectVars, batchVars, jobVars, targetVars, workerVars, txVars
<1>0. TypeOK /\ HeldWhileWorking
  BY DEF QueueInv
<1>1. ASSUME UNCHANGED <<collectDiscovered, batchPages, jobPages>> PROVE Charges
  BY <1>1 DEF Charges, SamePages
<1>2. ASSUME \/ \E p \in Project : \/ RefreshOrganizations(p) \/ GenerateDiscoveryTargets(p)
                                   \/ ResumePolicyHolds(p) \/ ResumeCommit(p) \/ ResumeAbort(p)
             \/ \E p \in Project, s \in {"active", "paused", "completed", "cancelled"} : SetStatus(p, s)
             \/ \E t \in Target : ReviewPolicy(t)
             \/ \E w \in Worker : Throw(w) \/ Abandon(w) \/ Crash(w) \/ MarkJobRunning(w)
             \/ \E j \in Job : LeaseRunsOut(j)
             \/ \E b \in Batch : RunExpires(b)
             \/ \E w \in Worker, bs \in ClaimScopes, j \in Job : Hold(w, bs, j)
      PROVE  Charges
  BY <1>1, <1>2 DEF RefreshOrganizations, GenerateDiscoveryTargets, ResumePolicyHolds,
                    ResumeCommit, ResumeAbort, SetStatus, ReviewPolicy, Throw, Abandon, Crash,
                    MarkJobRunning, LeaseRunsOut, RunExpires, Hold
<1>3. ASSUME NEW w \in Worker, NEW bs \in ClaimScopes, ClaimNothing(w, bs) \/ ClaimJob(w, bs) PROVE Charges
  BY <1>1, <1>3 DEF ClaimNothing, ClaimJob
<1>4. ASSUME NEW w \in Worker,
             \/ \E t \in Target : RecordTarget(w, t) \/ \E s \in {"blocked", "policy_hold"} : RecordBlocked(w, t, s)
             \/ \E r \in BOOLEAN : FailJob(w, r)
             \/ \E o \in {"policy_hold", "blocked"} : BlockJob(w, o)
             \/ BlockCommit(w)
      PROVE  Charges
  BY <1>1, <1>4 DEF RecordTarget, RecordBlocked, FailJob, BlockJob, BlockCommit
<1>5. ASSUME NEW b \in Batch, CreateApprovedRun(b) \/ CreateApprovedBatch(b) PROVE Charges
  <2>1. batchStatus[b] = "none" /\ UNCHANGED <<batchPages, jobPages>>
    BY <1>5 DEF CreateApprovedRun, CreateApprovedBatch, NewBatch
  <2>2. \A c \in Batch : c # b => collectDiscovered'[c] = collectDiscovered[c]
    BY <1>0, <1>5 DEF CreateApprovedRun, CreateApprovedBatch, TypeOK
  <2> QED BY <2>1, <2>2 DEF Charges, SamePages
<1>6. ASSUME NEW w \in Worker, ReserveRequest(w) PROVE Charges
  <2> DEFINE e == held[w]
             b == BatchOf(e)
  <2>1. /\ e \in Job /\ b \in Batch /\ batchStatus[b] # "none" /\ collectDiscovered' = collectDiscovered
        /\ batchPages' = [batchPages EXCEPT ![b] = @ + 1] /\ jobPages' = [jobPages EXCEPT ![e] = @ + 1]
    BY <1>0, <1>6, JobParts DEF ReserveRequest, Authorized, HeldWhileWorking
  <2> HIDE DEF e
  <2>2. \A j \in Job : jobPages[j] \in Nat /\ jobPages'[j] = jobPages[j] + (IF j = e THEN 1 ELSE 0)
    BY <1>0, <2>1 DEF TypeOK
  <2>3. \A c \in Batch : batchPages'[c] = (IF c = b THEN batchPages[c] + 1 ELSE batchPages[c])
    BY <1>0, <2>1 DEF TypeOK
  <2>4. OnePage(b, e)
    BY <2>1, <2>2, <2>3 DEF OnePage, JobsOf
  <2>5. \A c \in Batch : c # b => SamePages(c)
    BY <2>1, <2>2, <2>3 DEF SamePages, JobsOf
  <2> QED BY <2>1, <2>4, <2>5 DEF Charges
<1>7. ASSUME NEW w \in Worker, CompleteJob(w) PROVE Charges
  <2>1. /\ held[w] \in Job /\ jobStatus[held[w]] # "none" /\ collectDiscovered' = collectDiscovered
        /\ BatchOf(held[w]) \in Batch
    BY <1>0, <1>7, JobParts DEF CompleteJob, OwnsLease, Owns, HeldWhileWorking
  <2>2. PICK n \in Reported(held[w]) :
          /\ jobPages' = [jobPages EXCEPT ![held[w]] = Greatest(@, n)]
          /\ batchPages' = [batchPages EXCEPT ![BatchOf(held[w])] = @ + Charged(BatchOf(held[w]), n)]
    BY <1>7 DEF CompleteJob
  <2>3. \A b \in Batch : b # BatchOf(held[w]) \/ collectDiscovered[b] => batchPages'[b] = batchPages[b]
    BY <1>0, <2>1, <2>2 DEF Charged, TypeOK
  <2> QED BY <2>1, <2>2, <2>3, ReportedIsCharged
<1>8. ASSUME NEW w \in Worker, ContinueJob(w) PROVE Charges
  <2>1. /\ held[w] \in Job /\ jobStatus[held[w]] # "none"
        /\ UNCHANGED <<collectDiscovered, batchPages>>
    BY <1>0, <1>8 DEF ContinueJob, OwnsLease, Owns, HeldWhileWorking
  <2>2. PICK n \in Reported(held[w]) : jobPages' = [jobPages EXCEPT ![held[w]] = Greatest(@, n)]
    BY <1>8 DEF ContinueJob
  <2> QED BY <2>1, <2>2, ReportedIsCharged
<1> QED
  BY <1>2, <1>3, <1>4, <1>5, <1>6, <1>7, <1>8
  DEF Next, Operate, Claim, EndClaim, Work, Discover, Report, Expire

(* Two counters, one fact: what a run was charged is what its jobs were.  A *)
(* batch nobody approved was charged nothing, job by job.                   *)
UnapprovedIsFree ==
  \A b \in Batch : batchStatus[b] = "none" => \A j \in JobsOf(b) : jobPages[j] = 0

(* A batch has two jobs for each target at most.                            *)
LEMMA JobsAreFinite ==
  ASSUME IsFiniteSet(Target), NEW b \in Batch
  PROVE  IsFiniteSet(JobsOf(b))
<1> DEFINE pair == [j \in JobsOf(b) |-> <<TargetOf(j), KindOf(j)>>]
<1>1. IsFiniteSet(Kind)
  <2>1. IsFiniteSet({"discovery"})
    BY FS_Singleton
  <2>2. Kind = {"discovery"} \cup {"crawl"}
    BY DEF Kind
  <2> QED BY <2>1, <2>2, FS_AddElement
<1>2. IsFiniteSet(Target \X Kind)
  BY <1>1, FS_Product
<1>3. pair \in [JobsOf(b) -> Target \X Kind]
  BY JobParts DEF JobsOf
<1>4. \A i, j \in JobsOf(b) : pair[i] = pair[j] => i = j
  BY DEF JobsOf, Job, BatchOf, TargetOf, KindOf
<1> HIDE DEF pair
<1>5. pair \in Injection(JobsOf(b), Target \X Kind)
  BY <1>3, <1>4 DEF Injection, IsInjective
<1> QED BY <1>2, <1>5, FS_Injection

(* Both stay so.                                                            *)
LEMMA AccountStep ==
  ASSUME IsFiniteSet(Target), QueueInv, QueueInv', UnapprovedIsFree, RunAccounting, Next
  PROVE  UnapprovedIsFree' /\ RunAccounting'
<1>1. Charges /\ \A b \in Batch : batchStatus'[b] = "none" => batchStatus[b] = "none"
  BY ChargesStep, NextMoves DEF Moves, BatchMove, Closes
<1>2. UnapprovedIsFree'
  BY <1>1 DEF UnapprovedIsFree, Charges, SamePages, JobsOf
<1>3. ASSUME NEW b \in Batch, collectDiscovered'[b]
      PROVE  batchPages'[b] = Total(jobPages', JobsOf(b))
  <2>1. IsFiniteSet(JobsOf(b))
    BY JobsAreFinite
  <2>2. \A j \in JobsOf(b) : jobPages[j] \in Nat
    BY DEF JobsOf, QueueInv, TypeOK
  <2>3. CASE ~collectDiscovered[b]
    <3>1. batchStatus[b] = "none" /\ batchPages'[b] = 0 /\ \A j \in JobsOf(b) : jobPages'[j] = 0
      BY <1>1, <1>3, <2>3 DEF Charges, SamePages, UnapprovedIsFree, QueueInv, FreshBatchIsEmpty
    <3> QED BY <2>1, <3>1, TotalOfNothing
  <2>4. CASE collectDiscovered[b]
    <3>1. batchPages[b] = Total(jobPages, JobsOf(b))
      BY <2>4 DEF RunAccounting
    <3>2. CASE SamePages(b)
      <4>1. \A j \in JobsOf(b) : jobPages'[j] = jobPages[j] + (IF j = NoJob THEN 0 ELSE 0)
        BY <2>2, <3>2 DEF SamePages
      <4>2. Total(jobPages', JobsOf(b)) = Total(jobPages, JobsOf(b)) + (IF NoJob \in JobsOf(b) THEN 0 ELSE 0)
        BY <2>1, <2>2, <4>1, TotalMoves
      <4>3. batchPages[b] \in Nat
        BY DEF QueueInv, TypeOK
      <4> QED BY <3>1, <3>2, <4>2, <4>3 DEF SamePages
    <3>3. ASSUME NEW e \in Job, OnePage(b, e) PROVE batchPages'[b] = Total(jobPages', JobsOf(b))
      <4>1. Total(jobPages', JobsOf(b)) = Total(jobPages, JobsOf(b)) + (IF e \in JobsOf(b) THEN 1 ELSE 0)
        BY <2>1, <2>2, <3>3, TotalMoves DEF OnePage
      <4> QED BY <3>1, <3>3, <4>1 DEF OnePage
    <3> QED BY <1>1, <2>4, <3>2, <3>3 DEF Charges
  <2> QED BY <2>3, <2>4
<1>4. RunAccounting'
  BY <1>3 DEF RunAccounting, QueueInv, RunBudget, JobsOf
<1> QED BY <1>2, <1>4

(* The pages a run was charged are those of its jobs, each counted once,    *)
(* and never more than its limit, however many workers reserve at once.     *)
THEOREM PagesAddUp ==
  ASSUME IsFiniteSet(Target)
  PROVE  Spec => []RunAccounting
<1>1. Init => UnapprovedIsFree /\ RunAccounting
  BY DEF Init, UnapprovedIsFree, RunAccounting, JobsOf
<1>2. QueueInv /\ QueueInv' /\ UnapprovedIsFree /\ RunAccounting /\ [Next]_vars
      => UnapprovedIsFree' /\ RunAccounting'
  <2>1. CASE Next
    BY <2>1, AccountStep
  <2>2. CASE UNCHANGED vars
    BY <2>2 DEF vars, batchVars, jobVars, UnapprovedIsFree, RunAccounting, JobsOf
  <2> QED BY <2>1, <2>2
<1> QED BY <1>1, <1>2, QueueSafety, PTL DEF Spec
=============================================================================
