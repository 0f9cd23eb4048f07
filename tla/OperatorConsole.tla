---------------------------- MODULE OperatorConsole ----------------------------
(* What operators do to the sources of a project at the console: review and *)
(* approve one policy, add official records to the roster, and decide many  *)
(* sources at once.  The bulk form reads the source manifest, then records  *)
(* and approves its lines one by one, each in a transaction of its own, and *)
(* resumes the jobs that were held; other operators and the workers go on.  *)
(* What becomes of batches and jobs otherwise is CollectionQueue's matter.  *)
EXTENDS SourcePolicies

CONSTANTS
    Operators,       \* the people signed in; each submits one bulk form
    BulkForms,       \* the decisions they may submit: sequences of hosts
    ConsoleReviews,  \* the reviews they may record one at a time
    LinkedTargets,   \* [url -> the organization it was found for]: the targets on record
    SourceRecords,   \* [official record -> [organization, fits]]: its link, if it is within sector and state
    FirstRoster,     \* the organizations selected before
    MaxSelection,    \* records one selection may name (250 in the code)
    MaxChanges       \* bound: policies on record

ASSUME ConsoleAssumption ==
    /\ MaxSelection \in Nat \ {0} /\ MaxChanges \in Nat
    /\ BulkForms \subseteq Seq(UNION {ToSet(decisions) : decisions \in BulkForms})
    /\ None \notin Operators

VARIABLES
    forms,      \* [operator -> his bulk form: step, decisions, left, row, seen]
    jobs,       \* [url -> where its job of the project's run stands]
    selection   \* the project: [accepts, roster, records]

consoleVars == <<forms, jobs, selection>>

NoForm == [step |-> "unsent", decisions |-> <<>>, left |-> <<>>, row |-> 0]
ConsoleInit ==
    /\ forms = [o \in Operators |-> NoForm]
    /\ jobs = [url \in {u \in DOMAIN LinkedTargets : LinkedTargets[u] \in FirstRoster} |-> "queued"]
    /\ selection = [accepts |-> TRUE, roster |-> FirstRoster, records |-> {}]

(* A row keeps its number while newer ones are put before it.               *)
At_(row) == Len(policies) - row + 1
RecordedBy(by, policy) ==
    [pattern |-> policy.pattern, domain |-> policy.domain, status |-> policy.status, approved |-> policy.approved, by |-> by]
Room == Len(policies) < MaxChanges

----------------------------------------------------------------------------
(* POST /policies and /policies/:id/approve: one review, one approval.      *)
SubmitReview(policy) ==
    /\ Room
    /\ RecordReview(RecordedBy(None, policy))
    /\ UNCHANGED consoleVars
SubmitApproval(i) ==
    /\ Approve(i)
    /\ UNCHANGED consoleVars

(* The manifest: the targets of the roster with what the registry says.     *)
DomainManifest ==
    {[domain |-> url.host,
      status |-> IF Evaluate(policies, url) THEN "ready"
                 ELSE IF ResolvePolicy(policies, url) = None THEN "unreviewed"
                 ELSE ResolvePolicy(policies, url).status] :
        url \in {u \in DOMAIN LinkedTargets : LinkedTargets[u] \in selection.roster}}

(* POST /projects/:id/policies/bulk.  Every line is looked up in the        *)
(* manifest before the first is recorded.                                   *)
Acceptable(decision) ==
    /\ \E row \in DomainManifest : row.domain = decision
    /\ [domain |-> decision, status |-> "prohibited"] \notin DomainManifest
SubmitDecisions(o, decisions) ==
    /\ forms[o].step = "unsent"
    /\ decisions # <<>>
    /\ \A i \in DOMAIN decisions : Acceptable(decisions[i])
    /\ forms' = [forms EXCEPT ![o] = [@ EXCEPT !.step = "deciding", !.decisions = decisions, !.left = decisions]]
    /\ UNCHANGED <<policies, jobs, selection>>
RefuseDecisions(o, decisions) ==
    /\ forms[o].step = "unsent"
    /\ decisions = <<>> \/ \E i \in DOMAIN decisions : ~Acceptable(decisions[i])
    /\ forms' = [forms EXCEPT ![o].step = "refused"]
    /\ UNCHANGED <<policies, jobs, selection>>
RecordDecision(o) ==
    /\ forms[o].step = "deciding" /\ forms[o].left # <<>> /\ forms[o].row = 0
    /\ Room
    /\ RecordReview(RecordedBy(o, NewPolicy(None, Head(forms[o].left), "review_required")))
    /\ forms' = [forms EXCEPT ![o].row = Len(policies')]
    /\ UNCHANGED <<jobs, selection>>
SlipReviewOf(o) == Len(policies)
ReviewOf(o) == forms[o].row
ApproveDecision(o) ==
    /\ forms[o].step = "deciding" /\ forms[o].row # 0
    /\ Approve(At_(ReviewOf(o)))
    /\ forms' = [forms EXCEPT ![o].row = 0, ![o].left = Tail(@)]
    /\ UNCHANGED <<jobs, selection>>
ResumePolicyHolds(o) ==
    /\ forms[o].step = "deciding" /\ forms[o].left = <<>>
    /\ jobs' = [url \in DOMAIN jobs |->
                   IF jobs[url] = "policy_hold" /\ Evaluate(policies, url) THEN "queued" ELSE jobs[url]]
    /\ forms' = [forms EXCEPT ![o].step = "resumed"]
    /\ UNCHANGED <<policies, selection>>

(* The approval throws if somebody approved the row meanwhile; any query    *)
(* throws if the database is out of reach.  What was recorded stays.        *)
FailDecisions(o) ==
    /\ forms[o].step = "deciding"
    /\ forms' = [forms EXCEPT ![o].step = "failed"]
    /\ UNCHANGED <<policies, jobs, selection>>

----------------------------------------------------------------------------
(* POST /organization-records/projects: the records join the selection, the *)
(* organizations they are linked to the roster, all of them or none.        *)
AddToProject(records) ==
    /\ selection.accepts
    /\ records # {} /\ Cardinality(records) <= MaxSelection
    /\ \A r \in records : SourceRecords[r].fits
    /\ LET linked == {SourceRecords[r].organization : r \in records} \ {None}
       IN selection' = [selection EXCEPT !.records = @ \cup records, !.roster = @ \cup linked]
    /\ UNCHANGED <<policies, forms, jobs>>
CloseProject ==
    /\ selection.accepts
    /\ selection' = [selection EXCEPT !.accepts = FALSE]
    /\ UNCHANGED <<policies, forms, jobs>>

(* A worker takes a queued job, reads the registry and runs or holds it;    *)
(* the hold is seen by others only once it is committed.                    *)
ReadGate(url) ==
    /\ jobs[url] = "queued"
    /\ jobs' = [jobs EXCEPT ![url] = IF Evaluate(policies, url) THEN "running" ELSE "refused"]
    /\ UNCHANGED <<policies, forms, selection>>
HoldJob(url) ==
    /\ jobs[url] = "refused"
    /\ jobs' = [jobs EXCEPT ![url] = "policy_hold"]
    /\ UNCHANGED <<policies, forms, selection>>

ConsoleNext ==
    \/ \E o \in Operators :
          \/ \E decisions \in BulkForms : SubmitDecisions(o, decisions) \/ RefuseDecisions(o, decisions)
          \/ RecordDecision(o) \/ ApproveDecision(o) \/ ResumePolicyHolds(o) \/ FailDecisions(o)
    \/ \E policy \in ConsoleReviews : SubmitReview(policy)
    \/ \E i \in DOMAIN policies : SubmitApproval(i)
    \/ \E records \in SUBSET DOMAIN SourceRecords : AddToProject(records)
    \/ CloseProject
    \/ \E url \in DOMAIN jobs : ReadGate(url) \/ HoldJob(url)

----------------------------------------------------------------------------
(* "A bulk submission records a separate review and approval on each source *)
(* row under the signed-in operator's identity": whoever else works at the  *)
(* same time and wherever it stops, a form's rows are its decisions in      *)
(* their order, each approved before the next is recorded; a form that is   *)
(* refused leaves none, one that resumed has all of them approved.          *)
IsBy(policy, o) == "by" \in DOMAIN policy /\ policy.by = o
RowsOf(o) == {row \in 1..Len(policies) : IsBy(policies[At_(row)], o)}
DecisionsComeWhole ==
    \A o \in Operators :
        LET form == forms[o]
            Place(row) == Cardinality({r \in RowsOf(o) : r <= row})
        IN /\ Cardinality(RowsOf(o)) <= Len(form.decisions)
           /\ \A row \in RowsOf(o) :
                 /\ policies[At_(row)].domain = Bare(form.decisions[Place(row)])
                 /\ Place(row) < Cardinality(RowsOf(o)) \/ form.step = "resumed" => policies[At_(row)].approved
           /\ form.step = "resumed" => Cardinality(RowsOf(o)) = Len(form.decisions)
=============================================================================
