-------------------------- MODULE EmailCandidates --------------------------
(* Addresses that are guessed for people who publish none, and what a       *)
(* validation provider says of them, while collection goes on.              *)
(*                                                                          *)
(* Generation and validation are passes of their own.  Neither runs in a    *)
(* transaction: each of their statements commits alone, and several passes  *)
(* may run at the same time.                                                *)
EXTENDS Ingestion, SequencesExt

CONSTANTS
    Parsed,            \* [published name -> [first, middle, last]], each a sequence of letters
    Patterns,          \* sequence of local-part patterns, each a sequence of tokens and marks
    Parts,             \* [address -> [local, domain]]
    OrganizationDomain,
    MinSupport, MinConsistency,  \* published examples needed, and their percentage
    Generators, Validators,
    Answers,           \* the statuses the configured provider may return
    Passes             \* bound: generation and validation passes in all

ASSUME SupportAssumption == MinSupport \in Nat /\ MinConsistency \in 0..100 /\ Passes \in Nat

VARIABLES
    candidates,  \* email_candidates
    results,     \* email_validation_results: [candidate, status], by insertion
    pass,        \* [generator or validator -> where its pass stands]
    passes       \* how many were started

candidateVars == <<candidates, results, pass, passes>>
ingestionVars == vars

----------------------------------------------------------------------------
(* Patterns.                                                                *)

Initial(token) == SubSeq(token, 1, IF token = <<>> THEN 0 ELSE 1)
Token(piece, name) ==
    CASE piece = "first" -> name.first
      [] piece = "last"  -> name.last
      [] piece = "f"     -> Initial(name.first)
      [] piece = "l"     -> Initial(name.last)
      [] piece = "m"     -> Initial(name.middle)
      [] OTHER           -> <<piece>>

(* A name that lacks a token the pattern needs has no such address.         *)
Render(pattern, name) ==
    LET pieces == [i \in DOMAIN pattern |-> Token(pattern[i], name)]
    IN IF <<>> \in ToSet(pieces) THEN None ELSE FlattenSeq(pieces)

NameOf(person) == Parsed[(CHOOSE p \in people : p.id = person).name]
IsPublished(m) == m.class \in {"published", "decoded_published"}
Usable(domain) == {m \in emails : IsPublished(m) /\ Parts[m.address].domain = domain}
Support(domain, pattern) ==
    {m \in Usable(domain) : Render(pattern, NameOf(m.person)) = Parts[m.address].local}

(* learnDomainPatterns; of equally supported patterns the first is the one  *)
(* that the rows' order happens to put first.                               *)
Strong(domain, pattern) ==
    LET n == Cardinality(Support(domain, pattern)) IN
    n >= MinSupport /\ 100 * n >= MinConsistency * Cardinality(Usable(domain))
Learned(domain) ==
    {p \in ToSet(Patterns) :
        /\ Strong(domain, p)
        /\ \A q \in ToSet(Patterns) :
              Cardinality(Support(domain, q)) <= Cardinality(Support(domain, p))}

----------------------------------------------------------------------------
NoPass == [pc |-> "idle"]

CandidatesInit ==
    /\ Init
    /\ candidates = {} /\ results = <<>>
    /\ pass = [x \in Generators \cup Validators |-> NoPass]
    /\ passes = 0

Begin(x, state) ==
    /\ pass[x] = NoPass /\ passes < Passes
    /\ pass' = [pass EXCEPT ![x] = state]
    /\ passes' = passes + 1
    /\ UNCHANGED <<ingestionVars, candidates, results>>

StartGeneration(g) ==
    Begin(g, [pc |-> "next", domains |-> {Parts[m.address].domain : m \in {e \in emails : IsPublished(e)}}])

Learn(g) ==
    /\ pass[g].pc = "next"
    /\ \E domain \in pass[g].domains :
          \/ \E pattern \in Learned(domain) :
                pass' = [pass EXCEPT ![g] = [pc |-> "learned", domains |-> @.domains \ {domain},
                            domain |-> domain, pattern |-> pattern,
                            examples |-> {m.address : m \in Support(domain, pattern)}]]
          \/ Learned(domain) = {} /\ pass' = [pass EXCEPT ![g].domains = @ \ {domain}]
    /\ UNCHANGED <<ingestionVars, candidates, results, passes>>

(* Only people with no observed address at all are asked for.               *)
SelectTargets(g) ==
    /\ pass[g].pc = "learned"
    /\ LET silent == {p \in people : \A m \in emails : m.person # p.id}
           targets == {<<p.id, p.name, a.organization>> : p \in silent, a \in assignments}
       IN pass' = [pass EXCEPT ![g] =
                     [pc |-> "generating", domains |-> @.domains, domain |-> @.domain,
                      pattern |-> @.pattern, examples |-> @.examples,
                      targets |-> {t \in targets :
                        /\ \E a \in assignments : a.person = t[1] /\ a.organization = t[3]
                        /\ OrganizationDomain[t[3]] = pass[g].domain}]]
    /\ UNCHANGED <<ingestionVars, candidates, results, passes>>

(* A candidate that exists keeps its state and what was said of it.         *)
SlipRegenerated(old, support) == [old EXCEPT !.evidence = support, !.state = "pending"]
Regenerated(old, support) == [old EXCEPT !.evidence = support]

CandidateKey(c) == <<c.person, c.address>>
InsertCandidate(g, target) ==
    /\ pass[g].pc = "generating" /\ target \in pass[g].targets
    /\ LET p == pass[g]
           local == Render(p.pattern, Parsed[target[2]])
           new == [person |-> target[1], address |-> [local |-> local, domain |-> p.domain],
                   evidence |-> [pattern |-> p.pattern, examples |-> p.examples],
                   state |-> "pending", status |-> "unvalidated", latest |-> 0]
           merged(old) == Regenerated(old, new.evidence)
       IN candidates' = IF local = None THEN candidates
                        ELSE Upsert(candidates, CandidateKey, new, merged)
    /\ pass' = [pass EXCEPT ![g].targets = @ \ {target}]
    /\ UNCHANGED <<ingestionVars, results, passes>>

NextDomain(g) ==
    /\ pass[g].pc = "generating" /\ pass[g].targets = {}
    /\ pass' = [pass EXCEPT ![g] = [pc |-> "next", domains |-> pass[g].domains]]
    /\ UNCHANGED <<ingestionVars, candidates, results, passes>>

----------------------------------------------------------------------------
(* Validation: what is pending is read once and sent, the answers come      *)
(* back item by item.                                                       *)

Pending == {c \in candidates : c.state = "pending" /\ c.status = "unvalidated"}
StartValidation(v) ==
    /\ Pending # {}
    /\ Begin(v, [pc |-> "asked", items |-> {CandidateKey(c) : c \in Pending}])

RecordResult(v, item, status) ==
    /\ pass[v].pc = "asked" /\ item \in pass[v].items
    /\ results' = Append(results, [candidate |-> item, status |-> status])
    /\ pass' = [pass EXCEPT ![v] = [pc |-> "recorded", items |-> @.items \ {item}, item |-> item,
                                    status |-> status, result |-> Len(results')]]
    /\ UNCHANGED <<ingestionVars, candidates, passes>>

QualifiesForPromotion(status) == status = "valid"

(* "state <> 'promoted' or validation_status = 'valid'"                     *)
SlipPromotionAllowed(c) == TRUE
PromotionAllowed(c) == c.state # "promoted" \/ c.status = "valid"

Applied(c, status, result) ==
    [c EXCEPT !.status = status, !.latest = result,
              !.state = IF QualifiesForPromotion(status) THEN "promoted"
                        ELSE IF status = "invalid" THEN "rejected" ELSE @]

(* An update the constraint refuses ends the pass; the result stays.        *)
ApplyResult(v) ==
    /\ pass[v].pc = "recorded"
    /\ LET c == CHOOSE d \in candidates : CandidateKey(d) = pass[v].item
           updated == Applied(c, pass[v].status, pass[v].result)
       IN IF PromotionAllowed(updated)
          THEN /\ candidates' = (candidates \ {c}) \cup {updated}
               /\ pass' = [pass EXCEPT ![v] = IF @.items = {} THEN NoPass
                                              ELSE [pc |-> "asked", items |-> @.items]]
          ELSE pass' = [pass EXCEPT ![v] = NoPass] /\ UNCHANGED candidates
    /\ UNCHANGED <<ingestionVars, results, passes>>

(* A pass is over, or fails.                                                *)
EndPass(x) ==
    /\ pass[x] # NoPass
    /\ pass' = [pass EXCEPT ![x] = NoPass]
    /\ UNCHANGED <<ingestionVars, candidates, results, passes>>

Inference ==
    \/ \E g \in Generators :
          \/ StartGeneration(g) \/ Learn(g) \/ SelectTargets(g) \/ NextDomain(g)
          \/ pass[g].pc = "generating" /\ \E target \in pass[g].targets : InsertCandidate(g, target)
    \/ \E v \in Validators :
          \/ StartValidation(v) \/ ApplyResult(v)
          \/ pass[v].pc = "asked" /\ \E item \in pass[v].items, status \in Answers : RecordResult(v, item, status)
    \/ \E x \in Generators \cup Validators : EndPass(x)

CandidatesNext == Inference \/ (Next /\ UNCHANGED candidateVars)
CandidatesSpec == CandidatesInit /\ [][CandidatesNext]_<<ingestionVars, candidateVars>>
----------------------------------------------------------------------------
(* Properties.                                                              *)

(* "A candidate is only "promoted" once a provider has actually returned    *)
(* valid" (migration 0006): what a candidate is said to be is what the last *)
(* applied answer about it said, also when two passes had it checked and    *)
(* their answers came back in the other order, or a pass died between       *)
(* recording an answer and applying it.                                     *)
StatusIsAnAnswer ==
    \A c \in candidates :
        /\ c.state = "promoted" <=> c.status = "valid"
        /\ c.status = "invalid" => c.state = "rejected"
        /\ c.state = "rejected" => \E i \in DOMAIN results : results[i] = [candidate |-> CandidateKey(c), status |-> "invalid"]
        /\ c.latest # 0 => results[c.latest] = [candidate |-> CandidateKey(c), status |-> c.status]
        /\ c.latest = 0 => c.status = "unvalidated" /\ c.state = "pending"

(* A decision is taken back by an answer only: generating the candidates    *)
(* again, from other evidence, neither drops a candidate nor reopens it.    *)
DecisionsStand ==
    [][\A c \in candidates : \E d \in candidates' :
          /\ CandidateKey(d) = CandidateKey(c)
          /\ d.state # c.state => d.latest > 0 /\ d.latest # c.latest
          /\ c.state # "pending" => d.state # "pending"]_candidates
============================================================================
