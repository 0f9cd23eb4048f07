------------------------- MODULE MCCollectionQueue -------------------------
(***************************************************************************)
(* Small instances of CollectionQueue.  Each restricted specification is a *)
(* subset of Next: the environment actions a run does not ask about are    *)
(* left out so that the others can be explored exhaustively.               *)
(***************************************************************************)
EXTENDS CollectionQueue, TLC
CONSTANTS p1, b1, b2, t1, t2, o1, o2, d1, d2, w1, w2

OneProject == [b \in Batch |-> p1]
OwnDomain == [t \in Target |-> IF t = t1 THEN d1 ELSE d2]
AllSites == [t \in Target |-> {o1}]
FirstIsSharedSite == [t \in Target |-> IF t = t1 THEN {o1, o2} ELSE {}]
FirstIsSite == [t \in Target |-> IF t = t1 THEN {o1} ELSE {}]

WorkerSymmetry == Permutations({w1, w2})
WorkerBatchSymmetry == WorkerSymmetry \cup Permutations({b1, b2})

(* Targets no collection or import has met.                                *)
Untouched(ts) == \A t \in ts : owner[t] = {}

Claims == \E w \in Worker, bs \in ClaimScopes : Claim(w, bs)
Workers == \E w \in Worker : Work(w) \/ Report(w) \/ Crash(w)
Prepare == \E p \in Project : GenerateDiscoveryTargets(p)
Steer == \E p \in Project, s \in {"active", "paused", "cancelled"} : SetStatus(p, s)

(* Concurrent workers on one run whose targets are known websites, and the *)
(* resumption of what they hold.                                           *)
NextLeases ==
  \/ Prepare
  \/ \E b \in Batch : CreateApprovedRun(b)
  \/ \E p \in Project : ResumePolicyHolds(p) \/ ResumeCommit(p)
  \/ Claims \/ Workers \/ Expire \/ Steer
InitLeases ==
  /\ Init /\ Untouched(Target) /\ t1 \in permitted
  /\ roster = [p \in Project |-> Org]
SpecLeases == InitLeases /\ [][NextLeases]_vars

(* A run whose discovery jobs feed it, with a roster that grows.           *)
NextDiscovery ==
  \/ Prepare
  \/ \E b \in Batch : CreateApprovedRun(b)
  \/ \E p \in Project : RefreshOrganizations(p)
  \/ \E w \in Worker : Work(w) \/ Discover(w) \/ Report(w)
  \/ Claims \/ Expire
InitDiscovery ==
  /\ Init /\ Untouched({t1}) /\ permitted = Target
  /\ owner[t2] # {o1} /\ targetStatus[t2] = IF owner[t2] = {} THEN "pending" ELSE "crawled"
  /\ roster = [p \in Project |-> {o1}]
SpecDiscovery == InitDiscovery /\ [][NextDiscovery]_vars

(* Everything the operator can do, to a run and a legacy batch.            *)
NextOperator == Operate \/ Claims \/ Workers \/ Expire
InitOperator == Init /\ Untouched(Target)
SpecOperator == InitOperator /\ [][NextOperator]_vars

(* One run from approval to its end: workers that die, holds that resume,  *)
(* pauses and a cancellation.                                              *)
NextDrain ==
  \/ Prepare \/ Steer
  \/ \E b \in Batch : CreateApprovedRun(b)
  \/ \E p \in Project : ResumePolicyHolds(p) \/ ResumeCommit(p) \/ ResumeAbort(p)
  \/ \E t \in Target : ReviewPolicy(t)
  \/ \E w \in Worker, t \in Target : RecordTarget(w, t)
  \/ Claims \/ Workers \/ Expire
InitDrain == Init /\ roster = [p \in Project |-> Org]
SpecDrain == InitDrain /\ [][NextDrain]_vars /\ Fairness
=============================================================================
