-------------------------- MODULE IngestionProofs --------------------------
(* What is written of people while workers ingest pages stays right, for    *)
(* every set of pages, workers and passes, and what is said of a guessed    *)
(* address is what a provider answered; what surrounds the ingestion does   *)
(* too: the setting up of the database, the vocabulary of sector packs and  *)
(* the reading of a directory's pages.                                      *)
EXTENDS EmailCandidates, DatabaseSetup, DirectoryPages, Induction, FiniteSetTheorems, SequenceTheorems, TLAPS

----------------------------------------------------------------------------
(* Candidates: the inductive invariant.                                     *)

PassFields(p) ==
    /\ p.pc \in {"idle", "next", "learned", "generating", "asked", "recorded"}
    /\ p.pc = "idle" => p = NoPass
    /\ p.pc = "next" => DOMAIN p = {"pc", "domains"}
    /\ p.pc = "learned" => DOMAIN p = {"pc", "domains", "domain", "pattern", "examples"}
    /\ p.pc = "generating" => DOMAIN p = {"pc", "domains", "domain", "pattern", "examples", "targets"}
    /\ p.pc = "asked" => DOMAIN p = {"pc", "items"}
    /\ p.pc = "recorded" => DOMAIN p = {"pc", "items", "item", "status", "result"}
PassesShaped ==
    /\ DOMAIN pass = Generators \cup Validators
    /\ \A x \in DOMAIN pass : PassFields(pass[x])
    /\ results \in Seq({results[i] : i \in DOMAIN results})

CandidateFields == {"person", "address", "evidence", "state", "status", "latest"}
OneCandidate ==
    /\ \A c \in candidates : DOMAIN c = CandidateFields
    /\ \A c, d \in candidates : CandidateKey(c) = CandidateKey(d) => c = d

(* What is asked about exists, and an answer that is still to be applied is *)
(* one nobody applied and nobody else holds.                                *)
IsCandidate(item) == \E c \in candidates : CandidateKey(c) = item
Recorded(x) == pass[x].pc = "recorded"
AnswersPending ==
    /\ \A x \in DOMAIN pass : pass[x].pc \in {"asked", "recorded"} => \A item \in pass[x].items : IsCandidate(item)
    /\ \A x \in DOMAIN pass : Recorded(x) =>
          /\ IsCandidate(pass[x].item)
          /\ pass[x].result \in DOMAIN results
          /\ results[pass[x].result] = [candidate |-> pass[x].item, status |-> pass[x].status]
          /\ \A c \in candidates : c.latest # pass[x].result
          /\ \A y \in DOMAIN pass : Recorded(y) /\ y # x => pass[y].result # pass[x].result

Told(c) ==
    /\ c.state = "promoted" <=> c.status = "valid"
    /\ c.status = "invalid" => c.state = "rejected"
    /\ c.state = "rejected" =>
          \E i \in DOMAIN results : results[i] = [candidate |-> CandidateKey(c), status |-> "invalid"]
    /\ c.latest # 0 => /\ c.latest \in DOMAIN results
                       /\ results[c.latest] = [candidate |-> CandidateKey(c), status |-> c.status]
    /\ c.latest = 0 => c.status = "unvalidated" /\ c.state = "pending"
CandidatesInv == PassesShaped /\ OneCandidate /\ AnswersPending /\ \A c \in candidates : Told(c)

(* Nothing is said of anyone at first.                                      *)
LEMMA CandidatesBegin == CandidatesInit => CandidatesInv
BY DEF CandidatesInit, CandidatesInv, PassesShaped, PassFields, NoPass, OneCandidate, AnswersPending, Recorded

(* Reading what is there changes no candidate and no answer.                *)
LEMMA GenerationKeeps ==
    ASSUME CandidatesInv, NEW g \in Generators,
           \/ StartGeneration(g) \/ Learn(g) \/ SelectTargets(g) \/ NextDomain(g)
    PROVE  CandidatesInv' /\ UNCHANGED <<candidates, results>>
<1>1. /\ UNCHANGED <<candidates, results>> /\ DOMAIN pass' = DOMAIN pass
      /\ PassFields(pass'[g]) /\ pass'[g].pc \in {"next", "learned", "generating"}
      /\ \A x \in DOMAIN pass : x # g => pass'[x] = pass[x]
  <2>1. CASE StartGeneration(g)
    BY <2>1 DEF StartGeneration, Begin, CandidatesInv, PassesShaped, PassFields
  <2>2. CASE Learn(g)
    <3>1. g \in DOMAIN pass /\ DOMAIN pass[g] = {"pc", "domains"} /\ pass[g].pc = "next"
      BY <2>2 DEF Learn, CandidatesInv, PassesShaped, PassFields
    <3>2. PICK domain \in pass[g].domains :
             \/ \E pattern \in Learned(domain) :
                   pass' = [pass EXCEPT ![g] = [pc |-> "learned", domains |-> @.domains \ {domain},
                               domain |-> domain, pattern |-> pattern,
                               examples |-> {m.address : m \in Support(domain, pattern)}]]
             \/ pass' = [pass EXCEPT ![g].domains = @ \ {domain}]
      BY <2>2 DEF Learn
    <3>3. CASE pass' = [pass EXCEPT ![g].domains = @ \ {domain}]
      BY <2>2, <3>1, <3>3 DEF Learn, PassFields
    <3>4. ASSUME NEW pattern, NEW examples,
                 pass' = [pass EXCEPT ![g] = [pc |-> "learned", domains |-> @.domains \ {domain},
                               domain |-> domain, pattern |-> pattern, examples |-> examples]]
          PROVE  /\ DOMAIN pass' = DOMAIN pass
                 /\ PassFields(pass'[g]) /\ pass'[g].pc = "learned"
                 /\ \A x \in DOMAIN pass : x # g => pass'[x] = pass[x]
      BY <3>1, <3>4 DEF PassFields
    <3> QED BY <2>2, <3>2, <3>3, <3>4 DEF Learn
  <2>3. CASE SelectTargets(g)
    BY <2>3 DEF SelectTargets, CandidatesInv, PassesShaped, PassFields
  <2>4. CASE NextDomain(g)
    BY <2>4 DEF NextDomain, CandidatesInv, PassesShaped, PassFields
  <2> QED BY <2>1, <2>2, <2>3, <2>4
<1>2. PassesShaped'
  BY <1>1 DEF CandidatesInv, PassesShaped
<1>3. AnswersPending'
  BY <1>1 DEF CandidatesInv, PassesShaped, AnswersPending, Recorded, IsCandidate, CandidateKey
<1> QED
  BY <1>1, <1>2, <1>3 DEF CandidatesInv, OneCandidate, Told, CandidateKey

(* A candidate is added with nothing said of it, or only its evidence is    *)
(* replaced.                                                                *)
LEMMA InsertKeeps ==
    ASSUME CandidatesInv, NEW g \in Generators, NEW target, InsertCandidate(g, target)
    PROVE  /\ CandidatesInv'
           /\ \A c \in candidates : \E d \in candidates' :
                 CandidateKey(d) = CandidateKey(c) /\ d.state = c.state
<1> DEFINE p == pass[g]
           local == Render(p.pattern, Parsed[target[2]])
           new == [person |-> target[1], address |-> [local |-> local, domain |-> p.domain],
                   evidence |-> [pattern |-> p.pattern, examples |-> p.examples],
                   state |-> "pending", status |-> "unvalidated", latest |-> 0]
           old == {r \in candidates : CandidateKey(r) = CandidateKey(new)}
           keptAs(c, d) == /\ DOMAIN d = CandidateFields
                           /\ \A f \in CandidateFields \ {"evidence"} : d[f] = c[f]
<1>0. /\ g \in DOMAIN pass /\ DOMAIN pass[g] = {"pc", "domains", "domain", "pattern", "examples", "targets"}
      /\ pass[g].pc = "generating" /\ UNCHANGED results
      /\ \A c \in candidates : DOMAIN c = CandidateFields
      /\ \A c, d \in candidates : CandidateKey(c) = CandidateKey(d) => c = d
  BY DEF InsertCandidate, CandidatesInv, PassesShaped, PassFields, OneCandidate
<1>1. /\ DOMAIN pass' = DOMAIN pass
      /\ PassFields(pass'[g]) /\ pass'[g].pc = "generating"
      /\ \A x \in DOMAIN pass : x # g => pass'[x] = pass[x]
  BY <1>0 DEF InsertCandidate, PassFields
<1>2. \/ candidates' = candidates
      \/ old = {} /\ candidates' = candidates \cup {new}
      \/ candidates' = (candidates \ old) \cup {Regenerated(r, new.evidence) : r \in old}
  BY DEF InsertCandidate, Upsert
<1>3. DOMAIN new = CandidateFields /\ Told(new) /\ new.latest = 0
  BY DEF Told, CandidateFields
<1>4. ASSUME NEW c \in candidates
      PROVE  LET d == Regenerated(c, new.evidence) IN keptAs(c, d) /\ CandidateKey(d) = CandidateKey(c)
  BY <1>0 DEF Regenerated, CandidateFields, CandidateKey
<1> HIDE DEF new, p, local
<1>5. /\ \A d \in candidates' : \/ d = new /\ old = {}
                                \/ \E c \in candidates : keptAs(c, d) /\ CandidateKey(c) = CandidateKey(d)
      /\ \A c \in candidates : \E d \in candidates' : keptAs(c, d) /\ CandidateKey(c) = CandidateKey(d)
      /\ \A c, d \in candidates' : CandidateKey(c) = CandidateKey(d) => c = d
  <2>1. CASE candidates' = candidates
    BY <2>1, <1>0
  <2>2. CASE old = {} /\ candidates' = candidates \cup {new}
    BY <2>2, <1>0
  <2>3. CASE candidates' = (candidates \ old) \cup {Regenerated(r, new.evidence) : r \in old}
    BY <2>3, <1>0, <1>4
  <2> QED BY <1>2, <2>1, <2>2, <2>3
<1>6. ASSUME NEW c, NEW d, keptAs(c, d), Told(c)
      PROVE  Told(d)' /\ d.latest = c.latest /\ d.state = c.state
  BY <1>6, <1>0 DEF Told, CandidateFields, CandidateKey
<1>7. ASSUME NEW d \in candidates' PROVE Told(d)' /\ DOMAIN d = CandidateFields
  <2>1. CASE d = new
    <3>1. Told(d) /\ DOMAIN d = CandidateFields
      BY <2>1, <1>3
    <3> QED BY <3>1, <1>0 DEF Told
  <2>2. ASSUME NEW c \in candidates, keptAs(c, d) PROVE Told(d)' /\ DOMAIN d = CandidateFields
    BY <2>2, <1>6 DEF CandidatesInv
  <2> QED BY <1>5, <2>1, <2>2
<1>8. PassesShaped'
  BY <1>0, <1>1 DEF CandidatesInv, PassesShaped
<1>9. \A item : IsCandidate(item) => IsCandidate(item)'
  BY <1>5 DEF IsCandidate
<1>10. AnswersPending'
  <2>1. \A d \in candidates' : d.latest = 0 \/ \E c \in candidates : c.latest = d.latest
    BY <1>5, <1>3 DEF CandidateFields
  <2>2. \A x \in DOMAIN pass : pass'[x].pc \in {"asked", "recorded"} => pass'[x] = pass[x]
    BY <1>1
  <2>3. \A i \in DOMAIN results : i # 0
    BY DEF CandidatesInv, PassesShaped
  <2> QED BY <2>1, <2>2, <2>3, <1>9, <1>1, <1>0 DEF CandidatesInv, AnswersPending, Recorded
<1> QED
  BY <1>5, <1>6, <1>7, <1>8, <1>10 DEF CandidatesInv, OneCandidate

(* Asking is about pending candidates; an answer is kept before it is       *)
(* applied.                                                                 *)
LEMMA AskingKeeps ==
    ASSUME CandidatesInv, NEW v \in Validators, StartValidation(v)
    PROVE  CandidatesInv' /\ UNCHANGED candidates
<1>1. /\ UNCHANGED <<candidates, results>> /\ DOMAIN pass' = DOMAIN pass
      /\ pass'[v] = [pc |-> "asked", items |-> {CandidateKey(c) : c \in Pending}]
      /\ \A x \in DOMAIN pass : x # v => pass'[x] = pass[x]
  BY DEF StartValidation, Begin, CandidatesInv, PassesShaped
<1>2. PassesShaped'
  BY <1>1 DEF CandidatesInv, PassesShaped, PassFields
<1>3. AnswersPending'
  BY <1>1 DEF CandidatesInv, AnswersPending, Recorded, IsCandidate, CandidateKey, Pending
<1> QED
  BY <1>1, <1>2, <1>3 DEF CandidatesInv, OneCandidate, Told, CandidateKey

(* A new answer is one nobody has applied: it is the last of all.           *)
LEMMA AnswerKeeps ==
    ASSUME CandidatesInv, NEW v \in Validators, NEW item, NEW status, RecordResult(v, item, status)
    PROVE  CandidatesInv' /\ UNCHANGED candidates
<1> DEFINE answer == [candidate |-> item, status |-> status]
           last == Len(results) + 1
<1>0. /\ v \in DOMAIN pass /\ PassFields(pass[v]) /\ pass[v].pc = "asked" /\ item \in pass[v].items
      /\ results \in Seq({results[i] : i \in DOMAIN results})
  BY DEF RecordResult, CandidatesInv, PassesShaped
<1>1. /\ UNCHANGED candidates /\ DOMAIN pass' = DOMAIN pass
      /\ pass'[v] = [pc |-> "recorded", items |-> pass[v].items \ {item}, item |-> item,
                     status |-> status, result |-> Len(results')]
      /\ \A x \in DOMAIN pass : x # v => pass'[x] = pass[x]
  BY <1>0 DEF RecordResult, PassFields
<1>2. /\ results' = Append(results, answer) /\ Len(results') = last
      /\ \A i \in DOMAIN results : i \in DOMAIN results' /\ results'[i] = results[i] /\ i # last /\ i # 0
      /\ last \in DOMAIN results' /\ results'[last] = answer /\ last # 0
      /\ results' \in Seq({results'[i] : i \in DOMAIN results'})
  <2>1. results \in Seq({results[i] : i \in DOMAIN results} \cup {answer})
    BY <1>0
  <2>2. results' = Append(results, answer)
    BY DEF RecordResult
  <2>3. Append(results, answer) \in Seq({results[i] : i \in DOMAIN results} \cup {answer})
    BY <2>1
  <2>4. /\ Len(Append(results, answer)) = last /\ DOMAIN Append(results, answer) = 1..last
        /\ \A i \in DOMAIN results : Append(results, answer)[i] = results[i]
        /\ Append(results, answer)[last] = answer /\ DOMAIN results = 1..Len(results) /\ Len(results) \in Nat
    BY <2>1
  <2>5. results' \in Seq({results'[i] : i \in DOMAIN results'})
    BY <2>2, <2>3, <2>4
  <2> HIDE DEF answer
  <2> QED BY <2>2, <2>4, <2>5
<1> HIDE DEF answer, last
<1>3. \A c \in candidates : c.latest # last
  BY <1>2 DEF CandidatesInv, Told
<1>4. PassesShaped'
  BY <1>0, <1>1, <1>2 DEF CandidatesInv, PassesShaped, PassFields
<1>5. AnswersPending'
  <2>1. \A x \in DOMAIN pass : Recorded(x) => pass[x].result # last
    BY <1>2 DEF CandidatesInv, AnswersPending
  <2>2. IsCandidate(item) /\ \A i : IsCandidate(i)' <=> IsCandidate(i)
    BY <1>0, <1>1 DEF CandidatesInv, AnswersPending, IsCandidate, CandidateKey
  <2> QED BY <2>1, <2>2, <1>0, <1>1, <1>2, <1>3 DEF CandidatesInv, AnswersPending, Recorded, answer
<1>6. ASSUME NEW c \in candidates PROVE Told(c)'
  <2>1. Told(c)
    BY DEF CandidatesInv
  <2>2. c.state = "rejected" =>
           \E i \in DOMAIN results' : results'[i] = [candidate |-> CandidateKey(c), status |-> "invalid"]
    BY <2>1, <1>2 DEF Told
  <2> QED BY <2>1, <2>2, <1>2 DEF Told, CandidateKey
<1> QED
  BY <1>1, <1>4, <1>5, <1>6 DEF CandidatesInv, OneCandidate, CandidateKey

(* What is applied is the answer that was recorded, and nobody applied it   *)
(* before; a promoted candidate is one the constraint let be so.            *)
LEMMA ApplyKeeps ==
    ASSUME CandidatesInv, NEW v \in Validators, ApplyResult(v)
    PROVE  /\ CandidatesInv'
           /\ \A c \in candidates : \E d \in candidates' :
                 /\ CandidateKey(d) = CandidateKey(c)
                 /\ d.state # c.state => d.latest > 0 /\ d.latest # c.latest
                 /\ c.state # "pending" => d.state # "pending"
<1>0. /\ v \in DOMAIN pass /\ PassFields(pass[v]) /\ Recorded(v) /\ UNCHANGED results
      /\ results \in Seq({results[i] : i \in DOMAIN results})
      /\ pass[v].result \in DOMAIN results /\ pass[v].result \in Nat /\ pass[v].result > 0
      /\ results[pass[v].result] = [candidate |-> pass[v].item, status |-> pass[v].status]
      /\ \A c \in candidates : c.latest # pass[v].result
      /\ \A item \in pass[v].items : IsCandidate(item)
  <2>1. results \in Seq({results[i] : i \in DOMAIN results}) /\ v \in DOMAIN pass /\ Recorded(v)
    BY DEF ApplyResult, CandidatesInv, PassesShaped, Recorded
  <2>2. DOMAIN results = 1..Len(results) /\ Len(results) \in Nat
    BY <2>1
  <2> QED BY <2>1, <2>2 DEF ApplyResult, CandidatesInv, PassesShaped, Recorded, AnswersPending
<1>1. PICK c \in candidates : CandidateKey(c) = pass[v].item
  BY <1>0 DEF CandidatesInv, AnswersPending, IsCandidate
<1>2. c = CHOOSE d \in candidates : CandidateKey(d) = pass[v].item
  BY <1>1 DEF CandidatesInv, OneCandidate
<1>3. PICK d : d = Applied(c, pass[v].status, pass[v].result)
  OBVIOUS
<1>4. /\ DOMAIN d = CandidateFields /\ CandidateKey(d) = CandidateKey(c)
      /\ d.latest = pass[v].result /\ d.status = pass[v].status
      /\ d.state = IF d.status = "valid" THEN "promoted" ELSE IF d.status = "invalid" THEN "rejected" ELSE c.state
  BY <1>3, <1>1 DEF Applied, CandidateKey, CandidateFields, CandidatesInv, OneCandidate, QualifiesForPromotion
<1>5. CASE PromotionAllowed(d)
  <2>1. /\ candidates' = (candidates \ {c}) \cup {d} /\ DOMAIN pass' = DOMAIN pass
        /\ pass'[v] = IF pass[v].items = {} THEN NoPass ELSE [pc |-> "asked", items |-> pass[v].items]
        /\ \A x \in DOMAIN pass : x # v => pass'[x] = pass[x]
    BY <1>5, <1>2, <1>3, <1>0 DEF ApplyResult
  <2>2. Told(d)
    <3>1. d.state = "promoted" <=> d.status = "valid"
      BY <1>4, <1>5 DEF PromotionAllowed
    <3>2. ASSUME d.state = "rejected"
          PROVE \E i \in DOMAIN results : results[i] = [candidate |-> CandidateKey(d), status |-> "invalid"]
      <4>1. CASE d.status = "invalid"
        BY <4>1, <1>0, <1>1, <1>4
      <4>2. CASE d.status # "invalid"
        <5>1. c.state = "rejected" /\ Told(c)
          BY <4>2, <3>2, <1>4 DEF CandidatesInv
        <5>2. \E i \in DOMAIN results : results[i] = [candidate |-> CandidateKey(c), status |-> "invalid"]
          BY <5>1 DEF Told
        <5> QED BY <5>2, <1>4
      <4> QED BY <4>1, <4>2
    <3> QED BY <3>1, <3>2, <1>0, <1>1, <1>4 DEF Told
  <2>3. \A e : Told(e)' <=> Told(e)
    BY <1>0 DEF Told
  <2>4. \A i : IsCandidate(i)' <=> IsCandidate(i)
    BY <2>1, <1>4 DEF IsCandidate
  <2>5. PassesShaped'
    BY <2>1, <1>0 DEF CandidatesInv, PassesShaped, PassFields, NoPass
  <2>6. OneCandidate'
    BY <2>1, <1>4 DEF CandidatesInv, OneCandidate
  <2>7. AnswersPending'
    <3>1. \A x \in DOMAIN pass : Recorded(x)' => x # v /\ Recorded(x) /\ pass'[x] = pass[x]
      BY <2>1 DEF Recorded, NoPass
    <3>2. \A x \in DOMAIN pass : Recorded(x) /\ x # v => pass[x].result # d.latest
      BY <1>0, <1>4 DEF CandidatesInv, AnswersPending
    <3> QED BY <3>1, <3>2, <2>1, <2>4, <1>0 DEF CandidatesInv, AnswersPending, NoPass
  <2>8. \A e \in candidates' : Told(e)'
    BY <2>1, <2>2, <2>3 DEF CandidatesInv
  <2>9. c.state # "pending" => d.state # "pending"
    BY <1>4
  <2> QED BY <2>1, <2>5, <2>6, <2>7, <2>8, <2>9, <1>4, <1>0 DEF CandidatesInv
<1>6. CASE ~PromotionAllowed(d)
  <2>1. /\ UNCHANGED candidates /\ DOMAIN pass' = DOMAIN pass /\ pass'[v] = NoPass
        /\ \A x \in DOMAIN pass : x # v => pass'[x] = pass[x]
    BY <1>6, <1>2, <1>3, <1>0 DEF ApplyResult
  <2>2. PassesShaped'
    BY <2>1, <1>0 DEF CandidatesInv, PassesShaped, PassFields, NoPass
  <2>3. AnswersPending'
    <3>1. \A x \in DOMAIN pass : pass'[x].pc \in {"asked", "recorded"} => x # v /\ pass'[x] = pass[x]
      BY <2>1 DEF NoPass
    <3>2. \A i : IsCandidate(i)' <=> IsCandidate(i)
      BY <2>1 DEF IsCandidate, CandidateKey
    <3> QED BY <3>1, <3>2, <2>1, <1>0 DEF CandidatesInv, AnswersPending, Recorded
  <2> QED BY <2>1, <2>2, <2>3, <1>0 DEF CandidatesInv, OneCandidate, Told, CandidateKey
<1> QED BY <1>5, <1>6

(* A pass that ends leaves what it has written.                             *)
LEMMA EndingKeeps ==
    ASSUME CandidatesInv, NEW x \in Generators \cup Validators, EndPass(x)
    PROVE  CandidatesInv' /\ UNCHANGED candidates
<1>1. /\ UNCHANGED <<candidates, results>> /\ DOMAIN pass' = DOMAIN pass /\ pass'[x] = NoPass
      /\ \A y \in DOMAIN pass : y # x => pass'[y] = pass[y]
  BY DEF EndPass, CandidatesInv, PassesShaped
<1>2. PassesShaped'
  BY <1>1 DEF CandidatesInv, PassesShaped, PassFields, NoPass
<1>3. AnswersPending'
  BY <1>1 DEF CandidatesInv, AnswersPending, Recorded, IsCandidate, CandidateKey, NoPass
<1> QED
  BY <1>1, <1>2, <1>3 DEF CandidatesInv, OneCandidate, Told, CandidateKey

(* Every step keeps the invariant and takes no decision back.               *)
LEMMA CandidatesStep ==
    ASSUME CandidatesInv, [CandidatesNext]_<<ingestionVars, candidateVars>>
    PROVE  /\ CandidatesInv'
           /\ \A c \in candidates : \E d \in candidates' :
                 /\ CandidateKey(d) = CandidateKey(c)
                 /\ d.state # c.state => d.latest > 0 /\ d.latest # c.latest
                 /\ c.state # "pending" => d.state # "pending"
<1>1. ASSUME UNCHANGED candidateVars PROVE CandidatesInv' /\ UNCHANGED candidates
  <2>1. PassesShaped'
    BY <1>1 DEF candidateVars, CandidatesInv, PassesShaped
  <2>2. AnswersPending'
    BY <1>1 DEF candidateVars, CandidatesInv, AnswersPending, Recorded, IsCandidate, CandidateKey
  <2> QED BY <1>1, <2>1, <2>2 DEF candidateVars, CandidatesInv, OneCandidate, Told, CandidateKey
<1>2. ASSUME NEW g \in Generators,
             \/ StartGeneration(g) \/ Learn(g) \/ SelectTargets(g) \/ NextDomain(g)
      PROVE  CandidatesInv' /\ UNCHANGED candidates
  BY <1>2, GenerationKeeps
<1>3. ASSUME NEW g \in Generators, NEW target, InsertCandidate(g, target)
      PROVE  /\ CandidatesInv'
             /\ \A c \in candidates : \E d \in candidates' :
                   CandidateKey(d) = CandidateKey(c) /\ d.state = c.state
  BY <1>3, InsertKeeps
<1>4. ASSUME NEW v \in Validators, StartValidation(v) PROVE CandidatesInv' /\ UNCHANGED candidates
  BY <1>4, AskingKeeps
<1>5. ASSUME NEW v \in Validators, NEW item, NEW status, RecordResult(v, item, status)
      PROVE CandidatesInv' /\ UNCHANGED candidates
  BY <1>5, AnswerKeeps
<1>6. ASSUME NEW x \in Generators \cup Validators, EndPass(x) PROVE CandidatesInv' /\ UNCHANGED candidates
  BY <1>6, EndingKeeps
<1>7. ASSUME UNCHANGED candidates
      PROVE  \A c \in candidates : \E d \in candidates' :
                 /\ CandidateKey(d) = CandidateKey(c)
                 /\ d.state # c.state => d.latest > 0 /\ d.latest # c.latest
                 /\ c.state # "pending" => d.state # "pending"
  BY <1>7
<1>8. CASE Inference
  <2>1. PICK who : \/ who \in Generators /\ (StartGeneration(who) \/ Learn(who) \/ SelectTargets(who) \/ NextDomain(who))
                   \/ who \in Generators /\ \E target : InsertCandidate(who, target)
                   \/ who \in Validators /\ (StartValidation(who) \/ ApplyResult(who))
                   \/ who \in Validators /\ \E item, status : RecordResult(who, item, status)
                   \/ who \in Generators \cup Validators /\ EndPass(who)
    BY <1>8 DEF Inference
  <2>2. CASE who \in Validators /\ ApplyResult(who)
    BY <2>2, ApplyKeeps
  <2> QED BY <2>1, <2>2, <1>2, <1>3, <1>4, <1>5, <1>6, <1>7
<1> QED BY <1>1, <1>7, <1>8 DEF CandidatesNext, candidateVars

(* Of CandidatesInv: what a candidate is said to be is what the last        *)
(* applied answer about it said.                                            *)
LEMMA CandidatesInvariant == CandidatesSpec => []CandidatesInv
<1>1. CandidatesInit => CandidatesInv
  BY CandidatesBegin
<1>2. CandidatesInv /\ [CandidatesNext]_<<ingestionVars, candidateVars>> => CandidatesInv'
  BY CandidatesStep
<1> QED BY <1>1, <1>2, PTL DEF CandidatesSpec

(* A candidate is promoted once, and only once, a provider has returned     *)
(* "valid", in whatever order answers are recorded and applied and whoever  *)
(* fails in between (email_candidates, migration 0006).                     *)
THEOREM CandidatesSayTheirAnswer == CandidatesSpec => []StatusIsAnAnswer
<1>1. CandidatesInv => StatusIsAnAnswer
  BY DEF CandidatesInv, Told, StatusIsAnAnswer
<1> QED BY <1>1, CandidatesInvariant, PTL

(* Generating candidates again, from whatever evidence, drops none and      *)
(* reopens none: only an answer that was not applied before changes what a  *)
(* candidate is.                                                            *)
THEOREM AnswersAreNotUndone == CandidatesSpec => DecisionsStand
<1>1. CandidatesInv /\ [CandidatesNext]_<<ingestionVars, candidateVars>> =>
         [\A c \in candidates : \E d \in candidates' :
             /\ CandidateKey(d) = CandidateKey(c)
             /\ d.state # c.state => d.latest > 0 /\ d.latest # c.latest
             /\ c.state # "pending" => d.state # "pending"]_candidates
  BY CandidatesStep
<1> QED BY <1>1, CandidatesInvariant, PTL DEF CandidatesSpec, DecisionsStand

----------------------------------------------------------------------------
(* Ingestion: what is written, and what a worker relies on.                 *)

DocumentKnown(url) == \E d \in documents : d.url = url
DocumentSeen(url, at) == at \in Nat /\ \E d \in documents : d.url = url /\ at <= d.last
VersionKnown(url, content, number, at) ==
    at \in Nat /\ \E v \in versions : v.url = url /\ v.content = content /\ v.number = number /\ at <= v.last
UnitKnown(organization, name, id, at) ==
    at \in Nat /\ \E u \in units : u.organization = organization /\ u.name = name /\ u.id = id /\ at <= u.last
PersonKnown(organization, identity, id, at) ==
    at \in Nat /\ \E p \in people : /\ p.organization = organization /\ p.identity = identity /\ p.id = id
                      /\ p.first <= at /\ at <= p.last
AssignmentKnown(person, organization, unit, title, id, at) ==
    at \in Nat /\ \E a \in assignments : /\ AssignmentKey(a) = <<person, organization, unit, title>> /\ a.id = id
                           /\ a.first <= at /\ at <= a.last
EmailKnown(person, organization, address, at) ==
    at \in Nat /\ \E m \in emails : /\ m.person = person /\ m.organization = organization /\ m.address = address
                      /\ m.first <= at /\ at <= m.last
ContactKnown(person, organization, number, at) ==
    at \in Nat /\ \E c \in contacts : /\ c.person = person /\ c.organization = organization /\ c.number = number
                        /\ at <= c.last
ObservationKnown(url, version, key, field, person, raw) ==
    \E o \in observations : /\ o.url = url /\ o.version = version /\ o.key = key
                            /\ o.field = field /\ o.person = person /\ o.raw = raw

(* What was known stays known.                                              *)
DocumentsLast ==
    /\ \A url : DocumentKnown(url) => DocumentKnown(url)'
    /\ \A url, at : DocumentSeen(url, at) => DocumentSeen(url, at)'
VersionsLast ==
    /\ \A url, content, number, at :
          VersionKnown(url, content, number, at) => VersionKnown(url, content, number, at)'
    /\ \A url, number : NumberTaken(url, number) => NumberTaken(url, number)'
UnitsLast ==
    \A organization, name, id, at :
        UnitKnown(organization, name, id, at) => UnitKnown(organization, name, id, at)'
PeopleLast ==
    \A organization, identity, id, at :
        PersonKnown(organization, identity, id, at) => PersonKnown(organization, identity, id, at)'
AssignmentsLast ==
    \A person, organization, unit, title, id, at :
        AssignmentKnown(person, organization, unit, title, id, at) =>
        AssignmentKnown(person, organization, unit, title, id, at)'
EmailsLast ==
    \A person, organization, address, at :
        EmailKnown(person, organization, address, at) => EmailKnown(person, organization, address, at)'
ContactsLast ==
    \A person, organization, number, at :
        ContactKnown(person, organization, number, at) => ContactKnown(person, organization, number, at)'
ObservationsLast ==
    \A url, version, key, field, person, raw :
        ObservationKnown(url, version, key, field, person, raw) =>
        ObservationKnown(url, version, key, field, person, raw)'
Lasting ==
    /\ DocumentsLast /\ VersionsLast /\ UnitsLast /\ PeopleLast
    /\ AssignmentsLast /\ EmailsLast /\ ContactsLast /\ ObservationsLast

(* The tables: a key has one row, and identifiers are dealt out in turn.    *)
IsWindow(r) == r.first \in Nat /\ r.last \in Nat
DocumentsTable ==
    /\ IsFiniteSet(documents)
    /\ \A d \in documents : DOMAIN d = {"url", "first", "last"} /\ d.last \in Nat
    /\ \A d, e \in documents : d.url = e.url => d = e
VersionsTable ==
    /\ IsFiniteSet(versions)
    /\ \A v \in versions : DOMAIN v = {"url", "content", "number", "first", "last"} /\ v.last \in Nat
    /\ \A v, u \in versions : v.url = u.url /\ v.content = u.content => v = u
    /\ \A v, u \in versions : v.url = u.url /\ v.number = u.number => v = u
    /\ \A url : {v.number : v \in VersionsOf(url)} = 1..Cardinality(VersionsOf(url))
UnitsTable ==
    /\ IsFiniteSet(units)
    /\ \A u \in units : DOMAIN u = {"id", "organization", "name", "first", "last"} /\ u.last \in Nat
    /\ \A u, v \in units : u.organization = v.organization /\ u.name = v.name => u = v
PeopleTable ==
    /\ IsFiniteSet(people)
    /\ \A p \in people : /\ DOMAIN p = {"id", "organization", "identity", "name", "first", "last"}
                         /\ IsWindow(p) /\ p.id \in 1..Cardinality(people)
    /\ \A p, q \in people : p.organization = q.organization /\ p.identity = q.identity => p = q
    /\ \A p, q \in people : p.id = q.id => p = q
AssignmentsTable ==
    /\ IsFiniteSet(assignments)
    /\ \A a \in assignments :
          /\ DOMAIN a = {"id", "person", "organization", "unit", "title", "published", "first", "last"}
          /\ IsWindow(a) /\ a.id \in 1..Cardinality(assignments)
    /\ \A a, b \in assignments : AssignmentKey(a) = AssignmentKey(b) => a = b
    /\ \A a, b \in assignments : a.id = b.id => a = b
EmailsTable ==
    /\ IsFiniteSet(emails)
    /\ \A m \in emails :
          /\ DOMAIN m = {"person", "organization", "address", "assignment", "class", "first", "last"}
          /\ IsWindow(m)
    /\ \A m, n \in emails : m.person = n.person /\ m.organization = n.organization /\ m.address = n.address => m = n
ContactsTable ==
    /\ IsFiniteSet(contacts)
    /\ \A c \in contacts : DOMAIN c = {"person", "organization", "number", "first", "last"} /\ c.last \in Nat
    /\ \A c, d \in contacts : c.person = d.person /\ c.organization = d.organization /\ c.number = d.number => c = d

(* An address is kept under the organization of its person.                 *)
EmailsBelong == \A m \in emails : \E p \in people : p.id = m.person /\ p.organization = m.organization
Tables ==
    /\ DocumentsTable /\ VersionsTable /\ UnitsTable /\ PeopleTable /\ AssignmentsTable
    /\ EmailsTable /\ ContactsTable /\ EmailsBelong /\ IsFiniteSet(observations)

(* What of a record is written when.                                        *)
EntryAt(page, n) == Safe(page.records[n])
Resolved(page, scope, n) == Context(scope, page.records[n])
UnitDone(rec, organization, unit, at) ==
    IF rec.department = None THEN unit = None
    ELSE UnitKnown(organization, Normalized[rec.department], unit, at)
PersonDone(rec, organization, person, at) == PersonKnown(organization, Identity[rec.name], person, at)
AssignmentDone(rec, organization, unit, person, assignment, at) ==
    AssignmentKnown(person, organization, unit, Normalized[rec.title], assignment, at)
EmailDone(rec, organization, person, at, j) == EmailKnown(person, organization, Kept(rec)[j].address, at)
ContactDone(rec, organization, person, at) ==
    Number(rec) = None \/ ContactKnown(person, organization, Number(rec), at)
FieldDone(page, rec, version, person, j) ==
    ObservationKnown(page.url, version, rec.key, Observed(rec)[j].field, person, Observed(rec)[j].raw)
RecordDone(page, rec, organization, version, unit, person, assignment, at) ==
    /\ DocumentSeen(page.url, at) /\ VersionKnown(page.url, page.content, version, at)
    /\ UnitDone(rec, organization, unit, at)
    /\ PersonDone(rec, organization, person, at)
    /\ AssignmentDone(rec, organization, unit, person, assignment, at)
    /\ \A j \in DOMAIN Kept(rec) : EmailDone(rec, organization, person, at, j)
    /\ ContactDone(rec, organization, person, at)
    /\ \A j \in DOMAIN Observed(rec) : FieldDone(page, rec, version, person, j)

(* A record that was passed: it has no organization or no name, or all of   *)
(* it is written.                                                           *)
Passed(page, scope, n) ==
    LET rec == EntryAt(page, n)
        organization == Resolved(page, scope, n)
    IN \/ organization = None \/ rec.name = None
       \/ \E version, unit, person, assignment, at :
             RecordDone(page, rec, organization, version, unit, person, assignment, at)
Complete(page, scope) ==
    /\ page \in Pages
    /\ DocumentKnown(page.url)
    /\ \E number, at : VersionKnown(page.url, page.content, number, at)
    /\ \A n \in DOMAIN page.records : Passed(page, scope, n)

(* What a worker relies on.                                                 *)
InRecord == {"unit", "person", "assignment", "email", "observe"}
ExecFields == {"pc", "page", "at", "scope", "n", "version", "next", "organization", "unit", "person",
               "assignment", "i"}
RecordWork(e) ==
    LET rec == EntryAt(e.page, e.n) IN
    /\ e.n \in DOMAIN e.page.records /\ e.i \in Nat \ {0}
    /\ e.organization = Resolved(e.page, e.scope, e.n) /\ e.organization # None /\ rec.name # None
    /\ e.pc = "unit" => rec.department # None
    /\ e.pc # "unit" => UnitDone(rec, e.organization, e.unit, e.at)
    /\ e.pc \in {"assignment", "email", "observe"} => PersonDone(rec, e.organization, e.person, e.at)
    /\ e.pc \in {"email", "observe"} =>
          /\ AssignmentDone(rec, e.organization, e.unit, e.person, e.assignment, e.at)
          /\ \A j \in DOMAIN Kept(rec) :
                j < e.i \/ e.pc = "observe" => EmailDone(rec, e.organization, e.person, e.at, j)
    /\ e.pc = "observe" =>
          /\ ContactDone(rec, e.organization, e.person, e.at)
          /\ \A j \in DOMAIN Observed(rec) : j < e.i => FieldDone(e.page, rec, e.version, e.person, j)
PageWork(e) ==
    /\ e.page \in Pages /\ e.n \in Nat \ {0}
    /\ \A k \in DOMAIN e.page.records : k < e.n => Passed(e.page, e.scope, k)
    /\ e.version = 0 => e.n = 1 /\ e.pc \in {"renew", "document", "version"}
    /\ e.version = 0 /\ e.pc = "renew" => e.page.records # <<>>
    /\ e.version # 0 =>
          /\ e.pc \notin {"document", "version"}
          /\ DocumentSeen(e.page.url, e.at) /\ VersionKnown(e.page.url, e.page.content, e.version, e.at)
    /\ e.pc \in {"document", "version"} /\ e.page.records # <<>> =>
          e.organization = Resolved(e.page, e.scope, e.n)
    /\ e.pc = "version" =>
          /\ DocumentSeen(e.page.url, e.at)
          /\ e.next \in Nat \ {0} /\ (e.next = 1 \/ NumberTaken(e.page.url, e.next - 1))
WorkHolds(e) ==
    /\ DOMAIN e = ExecFields /\ e.at \in Nat
    /\ e.pc \in {"idle", "conflict", "renew", "document", "version"} \cup InRecord
    /\ e.pc \notin {"idle", "conflict"} => PageWork(e)
    /\ e.pc \in InRecord => RecordWork(e)

(* What the history says was ingested is written.                           *)
DoneHolds(d) ==
    /\ d.page \in Pages /\ d.n \in DOMAIN d.page.records
    /\ \E organization, unit :
          RecordDone(d.page, EntryAt(d.page, d.n), organization, d.version, unit, d.person, d.assignment, d.at)
HistoryHolds ==
    /\ DOMAIN ingested = {"records", "pages"}
    /\ \A d \in ingested.records : DoneHolds(d)
    /\ \A x \in ingested.pages : Complete(x[1], x[2])

IngestionInv ==
    /\ Tables /\ HistoryHolds
    /\ now \in Nat
    /\ DOMAIN exec = Workers
    /\ \A w \in Workers : WorkHolds(exec[w]) /\ exec[w].at <= now

----------------------------------------------------------------------------
(* Records and sets.                                                        *)

(* A set grows by one row, or one of its rows is replaced.                  *)
LEMMA RowAdded ==
    ASSUME NEW S, IsFiniteSet(S), NEW x, x \notin S
    PROVE  IsFiniteSet(S \cup {x}) /\ Cardinality(S \cup {x}) = Cardinality(S) + 1 /\ Cardinality(S) \in Nat
BY FS_AddElement, FS_CardinalityType

(* A row replaced in a finite table leaves its size.                       *)
LEMMA RowReplaced ==
    ASSUME NEW S, IsFiniteSet(S), NEW r \in S, NEW x, x \notin S \ {r}
    PROVE  /\ IsFiniteSet((S \ {r}) \cup {x})
           /\ Cardinality((S \ {r}) \cup {x}) = Cardinality(S) /\ Cardinality(S) \in Nat
<1>1. IsFiniteSet(S \ {r}) /\ Cardinality(S \ {r}) = Cardinality(S) - 1
  BY FS_RemoveElement
<1>2. Cardinality(S) \in Nat
  BY FS_CardinalityType
<1>3. /\ IsFiniteSet((S \ {r}) \cup {x})
      /\ Cardinality((S \ {r}) \cup {x}) = Cardinality(S \ {r}) + 1
  BY <1>1, FS_AddElement
<1> QED BY <1>1, <1>2, <1>3

(* The addresses kept of a record, and what is observed of it, are          *)
(* sequences; a record's key and addresses are not private.                 *)
LEMMA KeptIsSequence ==
    ASSUME NEW rec, rec.emails \in Seq({rec.emails[i] : i \in DOMAIN rec.emails})
    PROVE  DOMAIN Kept(rec) = 1..Len(Kept(rec)) /\ Len(Kept(rec)) \in Nat
<1> DEFINE own == {i \in DOMAIN rec.emails : ~rec.emails[i].personal}
<1>1. DOMAIN rec.emails = 1..Len(rec.emails) /\ Len(rec.emails) \in Nat
  OBVIOUS
<1>2. IsFiniteSet(own)
  <2>1. IsFiniteSet(1..Len(rec.emails)) /\ own \in SUBSET (1..Len(rec.emails))
    BY <1>1, FS_Interval
  <2> HIDE DEF own
  <2> QED BY <2>1, FS_Subset
<1>3. Cardinality(own) \in Nat
  BY <1>2, FS_CardinalityType
<1>4. DOMAIN Kept(rec) = 1..Cardinality(own)
  BY DEF Kept
<1>5. PICK n, f, S : n = Cardinality(own) /\ f = Kept(rec) /\ S = {f[i] : i \in DOMAIN f}
  OBVIOUS
<1>6. n \in Nat /\ f \in [1..n -> S]
  <2> DEFINE g(i) == rec.emails[CHOOSE k \in own : Cardinality({j \in own : j <= k}) = i]
  <2>1. f = [i \in 1..n |-> g(i)]
    BY <1>5 DEF Kept
  <2> HIDE DEF g
  <2> QED BY <2>1, <1>3, <1>5
<1> HIDE DEF own
<1>7. Kept(rec) \in Seq(S)
  BY <1>5, <1>6
<1> QED BY <1>7

(* What is observed of a record is a finite sequence.                      *)
LEMMA ObservedIsSequence ==
    ASSUME NEW rec, rec.emails \in Seq({rec.emails[i] : i \in DOMAIN rec.emails})
    PROVE  DOMAIN Observed(rec) = 1..Len(Observed(rec)) /\ Len(Observed(rec)) \in Nat
<1> DEFINE row(class, name, value, normal) ==
               [class |-> class, field |-> name, raw |-> value, normal |-> normal]
           field(class, name, value, normal) ==
               IF value = None THEN <<>> ELSE <<row(class, name, value, normal)>>
           kept == Kept(rec)
           addresses == [i \in DOMAIN kept |-> row("contact", kept[i].address, kept[i].address, kept[i].address)]
           a == field("employment", "full_name_published", rec.name, rec.name)
           b == field("employment", "title_published", rec.title, Normalized[rec.title])
           c == field("employment", "department_published", rec.department, Normalized[rec.department])
           d == field("organization", "organization_published", rec.organization, rec.organization)
           e == field("contact", "phone_published", rec.phone, Normalized[rec.phone])
           All == {row("employment", "full_name_published", rec.name, rec.name),
                   row("employment", "title_published", rec.title, Normalized[rec.title]),
                   row("employment", "department_published", rec.department, Normalized[rec.department]),
                   row("organization", "organization_published", rec.organization, rec.organization),
                   row("contact", "phone_published", rec.phone, Normalized[rec.phone])}
                  \cup {addresses[i] : i \in DOMAIN kept}
<1>1. DOMAIN kept = 1..Len(kept) /\ Len(kept) \in Nat
  BY KeptIsSequence
<1>2. addresses \in Seq(All)
  <2>1. \A i \in 1..Len(kept) : addresses[i] \in All
    BY <1>1
  <2> QED BY <1>1, <2>1
<1> HIDE DEF row, addresses
<1>0. \A x \in All : <<>> \in Seq(All) /\ <<x>> \in Seq(All)
  <2> HIDE DEF All
  <2> QED OBVIOUS
<1>3. a \in Seq(All) /\ b \in Seq(All) /\ c \in Seq(All) /\ d \in Seq(All) /\ e \in Seq(All)
  <2>1. /\ row("employment", "full_name_published", rec.name, rec.name) \in All
        /\ row("employment", "title_published", rec.title, Normalized[rec.title]) \in All
        /\ row("employment", "department_published", rec.department, Normalized[rec.department]) \in All
        /\ row("organization", "organization_published", rec.organization, rec.organization) \in All
        /\ row("contact", "phone_published", rec.phone, Normalized[rec.phone]) \in All
    OBVIOUS
  <2> HIDE DEF All
  <2> QED BY <2>1, <1>0
<1>4. Observed(rec) = a \o b \o c \o d \o e \o addresses
  BY DEF Observed, row, addresses
<1> HIDE DEF a, b, c, d, e, All
<1>5. a \o b \o c \o d \o e \o addresses \in Seq(All)
  BY <1>2, <1>3
<1>6. Observed(rec) \in Seq(All)
  BY <1>4, <1>5
<1> QED BY <1>6

(* The addresses and observations of a published record are finite         *)
(* sequences.                                                              *)
LEMMA EntryIsSafe ==
    ASSUME NEW page \in Pages, NEW n \in DOMAIN page.records
    PROVE  LET rec == EntryAt(page, n) IN
           /\ DOMAIN Kept(rec) = 1..Len(Kept(rec)) /\ Len(Kept(rec)) \in Nat
           /\ DOMAIN Observed(rec) = 1..Len(Observed(rec)) /\ Len(Observed(rec)) \in Nat
<1>1. EntryAt(page, n).emails = page.records[n].emails
  BY PageAssumption DEF EntryAt, Safe, Fields
<1>2. EntryAt(page, n).emails \in Seq({EntryAt(page, n).emails[i] : i \in DOMAIN EntryAt(page, n).emails})
  BY <1>1, PageAssumption
<1> QED BY <1>2, KeptIsSequence, ObservedIsSequence

(* The records of a page are numbered from one.                             *)
LEMMA RecordsAreNumbered ==
    ASSUME NEW page \in Pages
    PROVE  /\ DOMAIN page.records = 1..Len(page.records) /\ Len(page.records) \in Nat
           /\ page.records # <<>> => Len(page.records) > 0
<1>1. page.records \in Seq({page.records[n] : n \in DOMAIN page.records})
  BY PageAssumption
<1> QED BY <1>1

(* What was known is relied on wherever it was.                             *)
LEMMA RecordLasts ==
    ASSUME Lasting, NEW page, NEW rec, NEW organization, NEW version, NEW unit, NEW person, NEW assignment,
           NEW at, RecordDone(page, rec, organization, version, unit, person, assignment, at)
    PROVE  RecordDone(page, rec, organization, version, unit, person, assignment, at)'
BY DEF RecordDone, Lasting, VersionsLast, UnitsLast, PeopleLast, AssignmentsLast, EmailsLast, ContactsLast,
       DocumentsLast, ObservationsLast, UnitDone, PersonDone, AssignmentDone, EmailDone, ContactDone, FieldDone

(* Records a page has passed stay ingested.                                *)
LEMMA PassedLasts ==
    ASSUME Lasting, NEW page, NEW scope, NEW n, Passed(page, scope, n)
    PROVE  Passed(page, scope, n)'
BY RecordLasts DEF Passed

(* What a worker's progress stands for lasts, whatever another worker      *)
(* writes.                                                                 *)
LEMMA WorkLasts ==
    ASSUME Lasting, NEW e, WorkHolds(e)
    PROVE  WorkHolds(e)'
<1>1. PageWork(e) => PageWork(e)'
  BY PassedLasts DEF PageWork, Lasting, DocumentsLast, VersionsLast
<1>2. RecordWork(e) => RecordWork(e)'
  BY DEF RecordWork, Lasting, UnitsLast, PeopleLast, AssignmentsLast, EmailsLast, ContactsLast,
         ObservationsLast, UnitDone, PersonDone, AssignmentDone, EmailDone, ContactDone, FieldDone
<1> QED BY <1>1, <1>2 DEF WorkHolds

(* What was ingested to its end stays in the tables.                       *)
LEMMA HistoryLasts ==
    ASSUME Lasting, HistoryHolds, UNCHANGED ingested
    PROVE  HistoryHolds'
<1>1. ASSUME NEW d, DoneHolds(d) PROVE DoneHolds(d)'
  BY <1>1, RecordLasts DEF DoneHolds
<1>2. ASSUME NEW page, NEW scope, Complete(page, scope) PROVE Complete(page, scope)'
  BY <1>2, PassedLasts DEF Complete, Lasting, DocumentsLast, VersionsLast
<1> QED BY <1>1, <1>2 DEF HistoryHolds

----------------------------------------------------------------------------
(* The tables, upsert by upsert: a key that is known is found, otherwise a  *)
(* row is added; what was known stays.                                      *)

(* A table nobody writes.                                                   *)
LEMMA Untouched ==
    /\ UNCHANGED documents => DocumentsLast /\ (DocumentsTable => DocumentsTable')
    /\ UNCHANGED versions => VersionsLast /\ (VersionsTable => VersionsTable')
    /\ UNCHANGED units => UnitsLast /\ (UnitsTable => UnitsTable')
    /\ UNCHANGED people => PeopleLast /\ (PeopleTable => PeopleTable')
    /\ UNCHANGED assignments => AssignmentsLast /\ (AssignmentsTable => AssignmentsTable')
    /\ UNCHANGED emails => EmailsLast /\ (EmailsTable => EmailsTable')
    /\ UNCHANGED contacts => ContactsLast /\ (ContactsTable => ContactsTable')
    /\ UNCHANGED observations => ObservationsLast
    /\ UNCHANGED <<people, emails>> => (EmailsBelong => EmailsBelong')
<1>1. UNCHANGED documents => DocumentsLast /\ (DocumentsTable => DocumentsTable')
  BY DEF DocumentsLast, DocumentKnown, DocumentSeen, DocumentsTable
<1>2. UNCHANGED versions => VersionsLast /\ (VersionsTable => VersionsTable')
  BY DEF VersionsLast, VersionKnown, NumberTaken, VersionsTable, VersionsOf
<1>3. UNCHANGED units => UnitsLast /\ (UnitsTable => UnitsTable')
  BY DEF UnitsLast, UnitKnown, UnitsTable
<1>4. UNCHANGED people => PeopleLast /\ (PeopleTable => PeopleTable')
  BY DEF PeopleLast, PersonKnown, PeopleTable, IsWindow
<1>5. UNCHANGED assignments => AssignmentsLast /\ (AssignmentsTable => AssignmentsTable')
  BY DEF AssignmentsLast, AssignmentKnown, AssignmentKey, AssignmentsTable, IsWindow
<1>6. UNCHANGED emails => EmailsLast /\ (EmailsTable => EmailsTable')
  BY DEF EmailsLast, EmailKnown, EmailsTable, IsWindow
<1>7. UNCHANGED contacts => ContactsLast /\ (ContactsTable => ContactsTable')
  BY DEF ContactsLast, ContactKnown, ContactsTable
<1>8. UNCHANGED observations => ObservationsLast
  BY DEF ObservationsLast, ObservationKnown
<1>9. UNCHANGED <<people, emails>> => (EmailsBelong => EmailsBelong')
  BY DEF EmailsBelong
<1> QED BY <1>1, <1>2, <1>3, <1>4, <1>5, <1>6, <1>7, <1>8, <1>9

(* The document row is the url's.                                           *)
LEMMA DocumentsGrow ==
    ASSUME DocumentsTable, NEW w \in Workers, RecordDocument(w), NEW url, url = Page(w).url,
           NEW e, e = exec[w], e.at \in Nat
    PROVE  /\ DocumentsTable' /\ DocumentsLast /\ DocumentSeen(url, e.at)'
           /\ DocumentKnown(url) => Cardinality(documents') = Cardinality(documents)
<1> DEFINE new == [url |-> url, first |-> e.at, last |-> e.at]
           merged(d) == SeenLast(d, e.at)
           old == {r \in documents : r.url = url}
           isRow(d) == DOMAIN d = {"url", "first", "last"} /\ d.last \in Nat
<1>1. documents' = IF old = {} THEN documents \cup {new} ELSE (documents \ old) \cup {merged(r) : r \in old}
  BY DEF RecordDocument, Upsert
<1>2. new.url = url /\ isRow(new) /\ new.last = e.at
  OBVIOUS
<1>3. \A d \in documents : LET m == merged(d) IN
         m.url = d.url /\ isRow(m) /\ d.last <= m.last /\ e.at <= m.last
  BY DEF SeenLast, DocumentsTable
<1> HIDE DEF new, merged, isRow
<1>4. CASE old = {}
  <2>1. documents' = documents \cup {new} /\ new \notin documents
    BY <1>1, <1>2, <1>4
  <2>2. IsFiniteSet(documents')
    BY <2>1, RowAdded DEF DocumentsTable
  <2>3. DocumentsTable'
    BY <2>1, <2>2, <1>2, <1>4 DEF DocumentsTable, isRow
  <2>4. DocumentSeen(url, e.at)'
    BY <2>1, <1>2 DEF DocumentSeen
  <2>5. DocumentsLast /\ ~DocumentKnown(url)
    BY <2>1, <1>4 DEF DocumentsLast, DocumentKnown, DocumentSeen
  <2> QED BY <2>3, <2>4, <2>5
<1>5. CASE old # {}
  <2>1. PICK d \in documents : d.url = url
    BY <1>5
  <2>2. PICK m : m = merged(d)
    OBVIOUS
  <2>3. m.url = url /\ isRow(m) /\ d.last <= m.last /\ e.at <= m.last
    BY <1>3, <2>1, <2>2
  <2>4. documents' = (documents \ {d}) \cup {m} /\ m \notin documents \ {d}
    BY <1>1, <1>5, <2>1, <2>2, <2>3 DEF DocumentsTable
  <2>5. IsFiniteSet(documents') /\ Cardinality(documents') = Cardinality(documents)
    BY <2>1, <2>4, RowReplaced DEF DocumentsTable
  <2>6. DocumentsTable'
    BY <2>1, <2>3, <2>4, <2>5 DEF DocumentsTable, isRow
  <2>7. DocumentSeen(url, e.at)'
    BY <2>3, <2>4 DEF DocumentSeen
  <2>8. DocumentsLast
    <3>1. ASSUME NEW at \in Nat, at <= d.last PROVE at <= m.last
      BY <3>1, <2>3 DEF DocumentsTable, isRow
    <3> QED BY <3>1, <2>1, <2>3, <2>4 DEF DocumentsLast, DocumentKnown, DocumentSeen
  <2> QED BY <2>5, <2>6, <2>7, <2>8
<1> QED BY <1>4, <1>5

VersionTaken(w, e, rec, number) ==
    /\ VersionKnown(e.page.url, e.page.content, number, e.at)'
    /\ exec' = [exec EXCEPT ![w] = IF e.page.records = <<>> THEN [e EXCEPT !.version = number, !.pc = "renew"]
                                   ELSE Enter([e EXCEPT !.version = number], rec)]

(* A version is found by its content; a new one gets the next number, or    *)
(* the statement fails because somebody else got it.                        *)
LEMMA VersionsGrow ==
    ASSUME VersionsTable, NEW w \in Workers, RecordVersion(w), NEW e, e = exec[w], e.at \in Nat,
           e.next \in Nat \ {0}, e.next = 1 \/ NumberTaken(e.page.url, e.next - 1),
           NEW rec, rec = Record(w)
    PROVE  /\ VersionsTable' /\ VersionsLast
           /\ \/ exec' = [exec EXCEPT ![w] = Idle]
              \/ \E number \in Nat \ {0} : VersionTaken(w, e, rec, number)
           /\ (\E v \in versions : v.url = e.page.url /\ v.content = e.page.content) =>
                 Cardinality(versions') = Cardinality(versions)
<1> DEFINE url == e.page.url
           content == e.page.content
           new == [url |-> url, content |-> content, number |-> e.next, first |-> e.at, last |-> e.at]
           merged(v) == SeenLast(v, e.at)
           old == {r \in versions : <<r.url, r.content>> = <<url, content>>}
           found == CHOOSE r \in versions' : <<r.url, r.content>> = <<url, content>>
           next(number) == IF e.page.records = <<>> THEN [e EXCEPT !.version = number, !.pc = "renew"]
                           ELSE Enter([e EXCEPT !.version = number], rec)
           isRow(v) == DOMAIN v = {"url", "content", "number", "first", "last"} /\ v.last \in Nat
<1>1. \/ /\ old = {} /\ NumberTaken(url, e.next)
         /\ exec' = [exec EXCEPT ![w] = Idle] /\ UNCHANGED versions
      \/ /\ old # {} \/ ~NumberTaken(url, e.next)
         /\ versions' = IF old = {} THEN versions \cup {new} ELSE (versions \ old) \cup {merged(r) : r \in old}
         /\ exec' = [exec EXCEPT ![w] = IF e.page.records = <<>>
                                        THEN [[e EXCEPT !.version = found.number] EXCEPT !.pc = "renew"]
                                        ELSE Enter([e EXCEPT !.version = found.number], rec)]
  BY DEF RecordVersion, Upsert, Stored, Page
<1>2. /\ new.url = url /\ new.content = content /\ new.number = e.next /\ new.last = e.at /\ isRow(new)
  OBVIOUS
<1>3. \A v \in versions : LET m == merged(v) IN
         /\ m.url = v.url /\ m.content = v.content /\ m.number = v.number /\ isRow(m)
         /\ v.last <= m.last /\ e.at <= m.last
  BY DEF SeenLast, VersionsTable
<1>4. \A number : [[e EXCEPT !.version = number] EXCEPT !.pc = "renew"] = [e EXCEPT !.version = number, !.pc = "renew"]
  OBVIOUS
<1>0. \A u : IsFiniteSet(VersionsOf(u)) /\ Cardinality(VersionsOf(u)) \in Nat
  BY FS_Subset, FS_CardinalityType DEF VersionsTable, VersionsOf
<1> HIDE DEF new, merged, isRow, next
<1>5. CASE versions' = versions /\ exec' = [exec EXCEPT ![w] = Idle]
  BY <1>5, Untouched
<1>6. CASE old = {} /\ ~NumberTaken(url, e.next) /\ versions' = versions \cup {new}
           /\ exec' = [exec EXCEPT ![w] = next(found.number)]
  <2>1. new \notin versions
    BY <1>6, <1>2
  <2>2. IsFiniteSet(versions')
    BY <1>6, <2>1, RowAdded DEF VersionsTable
  <2>3. VersionsOf(url)' = VersionsOf(url) \cup {new} /\ \A u : u # url => VersionsOf(u)' = VersionsOf(u)
    BY <1>6, <1>2 DEF VersionsOf
  <2>4. Cardinality(VersionsOf(url) \cup {new}) = Cardinality(VersionsOf(url)) + 1
    BY <2>1, <1>0, RowAdded DEF VersionsOf
  <2>5. e.next = Cardinality(VersionsOf(url)) + 1
    <3>1. {v.number : v \in VersionsOf(url)} = 1..Cardinality(VersionsOf(url))
      BY DEF VersionsTable
    <3>2. \A k : NumberTaken(url, k) <=> k \in {v.number : v \in VersionsOf(url)}
      BY DEF NumberTaken, VersionsOf
    <3>3. \A k : NumberTaken(url, k) <=> k \in 1..Cardinality(VersionsOf(url))
      BY <3>1, <3>2
    <3> QED BY <3>3, <1>6, <1>0
  <2>6. \A u : {v.number : v \in VersionsOf(u)'} = 1..Cardinality(VersionsOf(u)')
    <3>1. \A u : u # url => {v.number : v \in VersionsOf(u)'} = 1..Cardinality(VersionsOf(u)')
      BY <2>3 DEF VersionsTable
    <3>2. {v.number : v \in VersionsOf(url)'} = {v.number : v \in VersionsOf(url)} \cup {e.next}
      BY <2>3, <1>2
    <3>3. Cardinality(VersionsOf(url)') = Cardinality(VersionsOf(url)) + 1
      BY <2>3, <2>4
    <3>4. {v.number : v \in VersionsOf(url)} = 1..Cardinality(VersionsOf(url))
      BY DEF VersionsTable
    <3>5. {v.number : v \in VersionsOf(url)'} = 1..Cardinality(VersionsOf(url)')
      BY <3>2, <3>3, <3>4, <2>5, <1>0
    <3> QED BY <3>1, <3>5
  <2>7. \A v \in versions : v.url = url => v.number # e.next
    BY <1>6 DEF NumberTaken
  <2>8. VersionsTable'
    <3>1. /\ \A x \in versions' : isRow(x)
          /\ \A x, y \in versions' : x.url = y.url /\ x.content = y.content => x = y
          /\ \A x, y \in versions' : x.url = y.url /\ x.number = y.number => x = y
      BY <1>6, <1>2, <2>7 DEF VersionsTable, isRow
    <3> QED BY <3>1, <2>2, <2>6 DEF VersionsTable, isRow
  <2>9. found = new
    BY <1>6, <1>2
  <2>10. VersionKnown(url, content, e.next, e.at)'
    BY <1>6, <1>2 DEF VersionKnown
  <2>11. VersionTaken(w, e, rec, e.next)
    BY <1>6, <1>2, <2>9, <2>10 DEF VersionTaken, next
  <2>12. VersionsLast
    BY <1>6 DEF VersionsLast, VersionKnown, NumberTaken
  <2>13. ~\E v \in versions : v.url = url /\ v.content = content
    BY <1>6
  <2> QED BY <2>8, <2>11, <2>12, <2>13
<1>7. ASSUME old # {}, versions' = (versions \ old) \cup {merged(r) : r \in old},
             exec' = [exec EXCEPT ![w] = next(found.number)]
      PROVE  /\ VersionsTable' /\ VersionsLast /\ Cardinality(versions') = Cardinality(versions)
             /\ \E number \in Nat \ {0} :
                    VersionKnown(url, content, number, e.at)' /\ exec' = [exec EXCEPT ![w] = next(number)]
  <2>1. PICK v \in versions : v.url = url /\ v.content = content
    BY <1>7
  <2>2. PICK m : m = merged(v)
    OBVIOUS
  <2>3. /\ m.url = url /\ m.content = content /\ m.number = v.number /\ isRow(m)
        /\ v.last <= m.last /\ e.at <= m.last
    BY <1>3, <2>1, <2>2
  <2>4. versions' = (versions \ {v}) \cup {m} /\ m \notin versions \ {v}
    <3>1. old = {v}
      BY <2>1 DEF VersionsTable
    <3> QED BY <3>1, <1>7, <2>2, <2>1, <2>3 DEF VersionsTable
  <2>5. IsFiniteSet(versions') /\ Cardinality(versions') = Cardinality(versions)
    BY <2>4, RowReplaced DEF VersionsTable
  <2>6. VersionsOf(url)' = (VersionsOf(url) \ {v}) \cup {m} /\ \A u : u # url => VersionsOf(u)' = VersionsOf(u)
    BY <2>1, <2>3, <2>4 DEF VersionsOf
  <2>7. Cardinality(VersionsOf(url)') = Cardinality(VersionsOf(url))
    <3>1. v \in VersionsOf(url) /\ m \notin VersionsOf(url) \ {v}
      BY <2>1, <2>4 DEF VersionsOf
    <3> QED BY <3>1, <2>6, <1>0, RowReplaced
  <2>8. {u.number : u \in VersionsOf(url)'} = {u.number : u \in VersionsOf(url)}
    BY <2>6, <2>3, <2>1 DEF VersionsOf
  <2>9. \A u : {x.number : x \in VersionsOf(u)'} = 1..Cardinality(VersionsOf(u)')
    BY <2>6, <2>7, <2>8 DEF VersionsTable
  <2>10. /\ \A x \in versions' : isRow(x)
         /\ \A x, y \in versions' : x.url = y.url /\ x.content = y.content => x = y
         /\ \A x, y \in versions' : x.url = y.url /\ x.number = y.number => x = y
    BY <2>1, <2>3, <2>4 DEF VersionsTable, isRow
  <2>11. VersionsTable'
    BY <2>5, <2>9, <2>10 DEF VersionsTable, isRow
  <2>12. found = m
    BY <2>3, <2>4, <2>10
  <2>13. VersionKnown(url, content, m.number, e.at)'
    BY <2>3, <2>4 DEF VersionKnown
  <2>14. m.number \in Nat \ {0}
    <3>1. v.number \in {x.number : x \in VersionsOf(url)}
      BY <2>1 DEF VersionsOf
    <3>2. {x.number : x \in VersionsOf(url)} = 1..Cardinality(VersionsOf(url))
      BY DEF VersionsTable
    <3> QED BY <3>1, <3>2, <2>3, <1>0
  <2>15. VersionsLast
    <3>1. ASSUME NEW at \in Nat, at <= v.last PROVE at <= m.last
      BY <3>1, <2>3 DEF VersionsTable, isRow
    <3> QED BY <3>1, <2>1, <2>3, <2>4 DEF VersionsLast, VersionKnown, NumberTaken
  <2> QED BY <1>7, <2>5, <2>11, <2>12, <2>13, <2>14, <2>15
<1> QED BY <1>1, <1>4, <1>5, <1>6, <1>7 DEF next, VersionTaken

(* A unit is found by its organization and name.                            *)
LEMMA UnitsGrow ==
    ASSUME UnitsTable, NEW w \in Workers, UpsertUnit(w), NEW e, e = exec[w], e.at \in Nat,
           NEW name, name = Normalized[Record(w).department]
    PROVE  /\ UnitsTable' /\ UnitsLast
           /\ \E id : /\ UnitKnown(e.organization, name, id, e.at)'
                      /\ exec' = [exec EXCEPT ![w].pc = "person", ![w].unit = id]
           /\ (\E id, at : UnitKnown(e.organization, name, id, at)) => Cardinality(units') = Cardinality(units)
<1> DEFINE new == [id |-> Cardinality(units) + 1, organization |-> e.organization, name |-> name,
                   first |-> e.at, last |-> e.at]
           merged(u) == SeenLast(u, e.at)
           old == {u \in units : <<u.organization, u.name>> = <<e.organization, name>>}
           found == CHOOSE u \in units' : <<u.organization, u.name>> = <<e.organization, name>>
           isRow(u) == DOMAIN u = {"id", "organization", "name", "first", "last"} /\ u.last \in Nat
<1>1. /\ units' = IF old = {} THEN units \cup {new} ELSE (units \ old) \cup {merged(r) : r \in old}
      /\ exec' = [exec EXCEPT ![w].pc = "person", ![w].unit = found.id]
  BY DEF UpsertUnit, Upsert, Stored
<1>2. new.organization = e.organization /\ new.name = name /\ isRow(new) /\ new.last = e.at
  OBVIOUS
<1>3. \A u \in units : LET m == merged(u) IN
         /\ m.organization = u.organization /\ m.name = u.name /\ m.id = u.id /\ isRow(m)
         /\ u.last <= m.last /\ e.at <= m.last
  BY DEF SeenLast, UnitsTable
<1> HIDE DEF new, merged, isRow
<1>4. CASE old = {}
  <2>1. units' = units \cup {new} /\ new \notin units
    BY <1>1, <1>2, <1>4
  <2>2. IsFiniteSet(units')
    BY <2>1, RowAdded DEF UnitsTable
  <2>3. UnitsTable'
    BY <2>1, <2>2, <1>2, <1>4 DEF UnitsTable, isRow
  <2>4. \E id : found.id = id /\ UnitKnown(e.organization, name, id, e.at)'
    <3>1. found = new
      BY <2>1, <1>2, <1>4
    <3>2. PICK id : id = new.id
      OBVIOUS
    <3>3. UnitKnown(e.organization, name, id, e.at)'
      BY <3>2, <2>1, <1>2 DEF UnitKnown
    <3> QED BY <3>1, <3>2, <3>3
  <2>5. UnitsLast
    BY <2>1 DEF UnitsLast, UnitKnown
  <2>6. ~\E id, at : UnitKnown(e.organization, name, id, at)
    BY <1>4 DEF UnitKnown
  <2> QED BY <2>3, <2>4, <2>5, <2>6, <1>1
<1>5. CASE old # {}
  <2>1. PICK u \in units : u.organization = e.organization /\ u.name = name
    BY <1>5
  <2>2. PICK m : m = merged(u)
    OBVIOUS
  <2>3. /\ m.organization = e.organization /\ m.name = name /\ m.id = u.id /\ isRow(m)
        /\ u.last <= m.last /\ e.at <= m.last
    BY <2>1, <2>2, <1>3
  <2>4. old = {u}
    BY <2>1 DEF UnitsTable
  <2>5. units' = (units \ {u}) \cup {m} /\ m \notin units \ {u}
    BY <1>1, <1>5, <2>1, <2>2, <2>3, <2>4 DEF UnitsTable
  <2>6. IsFiniteSet(units') /\ Cardinality(units') = Cardinality(units)
    BY <2>5, RowReplaced DEF UnitsTable
  <2>7. UnitsTable'
    BY <2>1, <2>3, <2>5, <2>6 DEF UnitsTable, isRow
  <2>8. \E id : found.id = id /\ UnitKnown(e.organization, name, id, e.at)'
    <3>1. found = m
      BY <2>1, <2>3, <2>5 DEF UnitsTable
    <3>2. UnitKnown(e.organization, name, m.id, e.at)'
      BY <2>3, <2>5 DEF UnitKnown
    <3> QED BY <3>1, <3>2
  <2>9. UnitsLast
    <3>1. ASSUME NEW at \in Nat, at <= u.last PROVE at <= m.last
      BY <3>1, <2>3 DEF UnitsTable, isRow
    <3> QED BY <3>1, <2>1, <2>3, <2>5 DEF UnitsLast, UnitKnown
  <2> QED BY <2>6, <2>7, <2>8, <2>9, <1>1
<1> QED BY <1>4, <1>5

(* A window that is widened covers what it covered and the new fetch.       *)
LEMMA WindowWidened ==
    ASSUME NEW r, IsWindow(r), {"first", "last"} \subseteq DOMAIN r, NEW at \in Nat, NEW m, m = Widened(r, at)
    PROVE  /\ DOMAIN m = DOMAIN r /\ \A f \in DOMAIN r \ {"first", "last"} : m[f] = r[f]
           /\ IsWindow(m) /\ m.first <= at /\ at <= m.last
           /\ \A t \in Nat : r.first <= t /\ t <= r.last => m.first <= t /\ t <= m.last
<1>1. PICK first, last : /\ first = (IF at < r.first THEN at ELSE r.first)
                         /\ last = (IF at > r.last THEN at ELSE r.last)
  OBVIOUS
<1>2. m = [r EXCEPT !.first = first, !.last = last]
  BY <1>1 DEF Widened
<1>3. DOMAIN m = DOMAIN r /\ \A f \in DOMAIN r \ {"first", "last"} : m[f] = r[f]
  BY <1>2
<1>4. m.first = first /\ m.last = last
  BY <1>2
<1> QED BY <1>1, <1>3, <1>4 DEF IsWindow

(* A person is found by organization and identity.                          *)
LEMMA PeopleGrow ==
    ASSUME PeopleTable, NEW w \in Workers, UpsertPerson(w), NEW e, e = exec[w], e.at \in Nat,
           NEW identity, identity = Identity[Record(w).name]
    PROVE  /\ PeopleTable' /\ PeopleLast
           /\ \E id : /\ PersonKnown(e.organization, identity, id, e.at)'
                      /\ exec' = [exec EXCEPT ![w].pc = "assignment", ![w].person = id]
           /\ (\E id, at : PersonKnown(e.organization, identity, id, at)) => Cardinality(people') = Cardinality(people)
           /\ \A p \in people : \E q \in people' : q.id = p.id /\ q.organization = p.organization
<1> DEFINE new == [id |-> Cardinality(people) + 1, organization |-> e.organization,
                   identity |-> identity, name |-> Record(w).name, first |-> e.at, last |-> e.at]
           merged(p) == [Widened(p, e.at) EXCEPT !.name = IF Length[new.name] > Length[@] THEN new.name ELSE @]
           old == {p \in people : <<p.organization, p.identity>> = <<e.organization, identity>>}
           found == CHOOSE p \in people' : <<p.organization, p.identity>> = <<e.organization, identity>>
           isRow(p) == DOMAIN p = {"id", "organization", "identity", "name", "first", "last"} /\ IsWindow(p)
           covers(p, at) == p.first <= at /\ at <= p.last
<1>1. /\ people' = IF old = {} THEN people \cup {new} ELSE (people \ old) \cup {merged(r) : r \in old}
      /\ exec' = [exec EXCEPT ![w].pc = "assignment", ![w].person = found.id]
  BY DEF UpsertPerson, Upsert, Stored
<1>2. /\ new.organization = e.organization /\ new.identity = identity /\ new.id = Cardinality(people) + 1
      /\ isRow(new) /\ covers(new, e.at)
  BY DEF IsWindow
<1>3. \A p \in people : LET m == merged(p) IN
         /\ m.organization = p.organization /\ m.identity = p.identity /\ m.id = p.id /\ isRow(m)
         /\ covers(m, e.at) /\ \A at \in Nat : covers(p, at) => covers(m, at)
  <2> SUFFICES ASSUME NEW p \in people
               PROVE  LET m == merged(p) IN
                 /\ m.organization = p.organization /\ m.identity = p.identity /\ m.id = p.id /\ isRow(m)
                 /\ covers(m, e.at) /\ \A at \in Nat : covers(p, at) => covers(m, at)
    OBVIOUS
  <2>1. PICK x : x = Widened(p, e.at)
    OBVIOUS
  <2>2. /\ DOMAIN x = {"id", "organization", "identity", "name", "first", "last"}
        /\ x.organization = p.organization /\ x.identity = p.identity /\ x.id = p.id /\ IsWindow(x)
        /\ covers(x, e.at) /\ \A at \in Nat : covers(p, at) => covers(x, at)
    <3>1. IsWindow(p) /\ DOMAIN p = {"id", "organization", "identity", "name", "first", "last"}
      BY DEF PeopleTable
    <3> QED BY <2>1, <3>1, WindowWidened
  <2>3. PICK name : merged(p) = [x EXCEPT !.name = name]
    BY <2>1, <2>2
  <2> QED BY <2>2, <2>3 DEF IsWindow
<1> HIDE DEF new, merged
<1>4. Cardinality(people) \in Nat
  BY FS_CardinalityType DEF PeopleTable
<1>5. CASE old = {}
  <2>1. people' = people \cup {new} /\ new \notin people
    BY <1>1, <1>2, <1>5
  <2>2. IsFiniteSet(people') /\ Cardinality(people') = Cardinality(people) + 1
    BY <2>1, RowAdded DEF PeopleTable
  <2>3. PeopleTable'
    <3>1. /\ \A p \in people' : isRow(p) /\ p.id \in 1..Cardinality(people')
          /\ \A p \in people : p.id # new.id
      BY <2>1, <2>2, <1>2, <1>4 DEF PeopleTable, isRow
    <3>2. \A p, q \in people' : p.id = q.id => p = q
      BY <2>1, <3>1 DEF PeopleTable
    <3>3. \A p, q \in people' : p.organization = q.organization /\ p.identity = q.identity => p = q
      BY <2>1, <1>2, <1>5 DEF PeopleTable
    <3> QED BY <2>2, <3>1, <3>2, <3>3 DEF PeopleTable, isRow
  <2>4. \E id : found.id = id /\ PersonKnown(e.organization, identity, id, e.at)'
    <3>1. found = new
      BY <2>1, <1>2, <1>5
    <3>2. PICK id : id = new.id
      OBVIOUS
    <3>3. PersonKnown(e.organization, identity, id, e.at)'
      BY <3>2, <2>1, <1>2 DEF PersonKnown
    <3> QED BY <3>1, <3>2, <3>3
  <2>5. PeopleLast
    BY <2>1 DEF PeopleLast, PersonKnown
  <2>6. ~\E id, at : PersonKnown(e.organization, identity, id, at)
    BY <1>5 DEF PersonKnown
  <2> QED BY <2>1, <2>3, <2>4, <2>5, <2>6, <1>1
<1>6. CASE old # {}
  <2>1. PICK p \in people : p.organization = e.organization /\ p.identity = identity
    BY <1>6
  <2>2. PICK m : m = merged(p)
    OBVIOUS
  <2>3. /\ m.organization = p.organization /\ m.identity = p.identity /\ m.id = p.id /\ isRow(m)
        /\ covers(m, e.at) /\ \A at \in Nat : covers(p, at) => covers(m, at)
    BY <2>1, <2>2, <1>3
  <2>4. old = {p}
    BY <2>1 DEF PeopleTable
  <2>5. people' = (people \ {p}) \cup {m} /\ m \notin people \ {p}
    BY <1>1, <1>6, <2>1, <2>2, <2>3, <2>4 DEF PeopleTable
  <2>6. IsFiniteSet(people') /\ Cardinality(people') = Cardinality(people)
    BY <2>5, RowReplaced DEF PeopleTable
  <2> HIDE DEF covers
  <2>7. PeopleTable'
    BY <2>1, <2>3, <2>5, <2>6 DEF PeopleTable, isRow
  <2>8. \E id : found.id = id /\ PersonKnown(e.organization, identity, id, e.at)'
    <3>1. found = m
      BY <2>1, <2>3, <2>5 DEF PeopleTable
    <3>2. PersonKnown(e.organization, identity, m.id, e.at)'
      BY <2>1, <2>3, <2>5 DEF PersonKnown, covers
    <3> QED BY <3>1, <3>2
  <2>9. PeopleLast
    BY <2>1, <2>3, <2>5 DEF PeopleLast, PersonKnown, covers
  <2> QED BY <2>1, <2>3, <2>5, <2>6, <2>7, <2>8, <2>9, <1>1
<1> QED BY <1>5, <1>6

(* An assignment is found by person, organization, unit and title, none of  *)
(* a unit or of a title being equal to none.                                *)
LEMMA AssignmentsGrow ==
    ASSUME AssignmentsTable, NEW w \in Workers, UpsertAssignment(w), NEW e, e = exec[w], e.at \in Nat,
           NEW title, title = Normalized[Record(w).title]
    PROVE  /\ AssignmentsTable' /\ AssignmentsLast
           /\ \E id : /\ AssignmentKnown(e.person, e.organization, e.unit, title, id, e.at)'
                      /\ exec' = [exec EXCEPT ![w].pc = "email", ![w].i = 1, ![w].assignment = id]
           /\ (\E id, at : AssignmentKnown(e.person, e.organization, e.unit, title, id, at)) =>
                 Cardinality(assignments') = Cardinality(assignments)
<1> DEFINE new == [id |-> Cardinality(assignments) + 1, person |-> e.person, organization |-> e.organization,
                   unit |-> e.unit, title |-> title, published |-> Record(w).title,
                   first |-> e.at, last |-> e.at]
           merged(a) == [Widened(a, e.at) EXCEPT !.published = IF new.published = None THEN @ ELSE new.published]
           key == <<e.person, e.organization, e.unit, title>>
           old == {a \in assignments : AssignmentKey(a) = AssignmentKey(new)}
           found == CHOOSE a \in assignments' : AssignmentKey(a) = AssignmentKey(new)
           fields == {"id", "person", "organization", "unit", "title", "published", "first", "last"}
           isRow(a) == DOMAIN a = fields /\ IsWindow(a)
           covers(a, at) == a.first <= at /\ at <= a.last
<1>1. /\ assignments' = IF old = {} THEN assignments \cup {new}
                        ELSE (assignments \ old) \cup {merged(r) : r \in old}
      /\ exec' = [exec EXCEPT ![w].pc = "email", ![w].i = 1, ![w].assignment = found.id]
  BY DEF UpsertAssignment, Upsert, Stored
<1>2. /\ AssignmentKey(new) = key /\ new.id = Cardinality(assignments) + 1
      /\ isRow(new) /\ covers(new, e.at)
  BY DEF IsWindow, AssignmentKey
<1>3. \A a \in assignments : LET m == merged(a) IN
         /\ AssignmentKey(m) = AssignmentKey(a) /\ m.id = a.id /\ isRow(m)
         /\ covers(m, e.at) /\ \A at \in Nat : covers(a, at) => covers(m, at)
  <2> SUFFICES ASSUME NEW a \in assignments
               PROVE  LET m == merged(a) IN
                 /\ AssignmentKey(m) = AssignmentKey(a) /\ m.id = a.id /\ isRow(m)
                 /\ covers(m, e.at) /\ \A at \in Nat : covers(a, at) => covers(m, at)
    OBVIOUS
  <2>1. PICK x : x = Widened(a, e.at)
    OBVIOUS
  <2>2. /\ DOMAIN x = fields /\ x.person = a.person /\ x.organization = a.organization
        /\ x.unit = a.unit /\ x.title = a.title /\ x.id = a.id /\ IsWindow(x)
        /\ covers(x, e.at) /\ \A at \in Nat : covers(a, at) => covers(x, at)
    <3>1. IsWindow(a) /\ DOMAIN a = fields
      BY DEF AssignmentsTable
    <3> QED BY <2>1, <3>1, WindowWidened
  <2>3. PICK published : merged(a) = [x EXCEPT !.published = published]
    BY <2>1, <2>2
  <2> QED BY <2>2, <2>3 DEF IsWindow, AssignmentKey
<1> HIDE DEF new, merged, key
<1>4. Cardinality(assignments) \in Nat
  BY FS_CardinalityType DEF AssignmentsTable
<1>5. CASE old = {}
  <2>1. assignments' = assignments \cup {new} /\ new \notin assignments
    BY <1>1, <1>2, <1>5
  <2>2. IsFiniteSet(assignments') /\ Cardinality(assignments') = Cardinality(assignments) + 1
    BY <2>1, RowAdded DEF AssignmentsTable
  <2>3. AssignmentsTable'
    <3>1. /\ \A a \in assignments' : isRow(a) /\ a.id \in 1..Cardinality(assignments')
          /\ \A a \in assignments : a.id # new.id
      BY <2>1, <2>2, <1>2, <1>4 DEF AssignmentsTable, isRow
    <3>2. \A a, b \in assignments' : a.id = b.id => a = b
      BY <2>1, <3>1 DEF AssignmentsTable
    <3>3. \A a, b \in assignments' : AssignmentKey(a) = AssignmentKey(b) => a = b
      BY <2>1, <1>5 DEF AssignmentsTable
    <3> QED BY <2>2, <3>1, <3>2, <3>3 DEF AssignmentsTable, isRow, AssignmentKey
  <2>4. \E id : found.id = id /\ AssignmentKnown(e.person, e.organization, e.unit, title, id, e.at)'
    <3>1. found = new
      BY <2>1, <1>2, <1>5
    <3>2. PICK id : id = new.id
      OBVIOUS
    <3>3. PICK row : row = new
      OBVIOUS
    <3>4. row \in assignments' /\ AssignmentKey(row) = key /\ row.id = id /\ covers(row, e.at)
      BY <3>2, <3>3, <2>1, <1>2
    <3>5. AssignmentKnown(e.person, e.organization, e.unit, title, id, e.at)'
      BY <3>4 DEF AssignmentKnown, AssignmentKey, key
    <3> QED BY <3>1, <3>2, <3>5
  <2>5. AssignmentsLast
    BY <2>1 DEF AssignmentsLast, AssignmentKnown, AssignmentKey
  <2>6. ~\E id, at : AssignmentKnown(e.person, e.organization, e.unit, title, id, at)
    BY <1>5, <1>2 DEF AssignmentKnown, key
  <2> QED BY <2>1, <2>3, <2>4, <2>5, <2>6, <1>1
<1>6. CASE old # {}
  <2>1. PICK a \in assignments : AssignmentKey(a) = key
    BY <1>6, <1>2
  <2>2. PICK m : m = merged(a)
    OBVIOUS
  <2>3. /\ AssignmentKey(m) = AssignmentKey(a) /\ m.id = a.id /\ isRow(m)
        /\ covers(m, e.at) /\ \A at \in Nat : covers(a, at) => covers(m, at)
    BY <2>1, <2>2, <1>3
  <2>4. old = {a}
    BY <2>1, <1>2 DEF AssignmentsTable
  <2>5. assignments' = (assignments \ {a}) \cup {m} /\ m \notin assignments \ {a}
    BY <1>1, <1>6, <2>1, <2>2, <2>3, <2>4 DEF AssignmentsTable
  <2>6. IsFiniteSet(assignments') /\ Cardinality(assignments') = Cardinality(assignments)
    BY <2>5, RowReplaced DEF AssignmentsTable
  <2> HIDE DEF covers
  <2>7. /\ \A x \in assignments' : isRow(x) /\ x.id \in 1..Cardinality(assignments')
        /\ \A x, y \in assignments' : AssignmentKey(x) = AssignmentKey(y) => x = y
        /\ \A x, y \in assignments' : x.id = y.id => x = y
    BY <2>1, <2>3, <2>5, <2>6 DEF AssignmentsTable, isRow
  <2>8. AssignmentsTable'
    BY <2>6, <2>7 DEF AssignmentsTable, isRow, AssignmentKey
  <2>9. \E id : found.id = id /\ AssignmentKnown(e.person, e.organization, e.unit, title, id, e.at)'
    <3>1. found = m
      BY <2>1, <2>3, <2>5, <2>7, <1>2
    <3>2. m \in assignments' /\ AssignmentKey(m) = key /\ covers(m, e.at)
      BY <2>1, <2>3, <2>5
    <3>3. AssignmentKnown(e.person, e.organization, e.unit, title, m.id, e.at)'
      BY <3>2 DEF AssignmentKnown, AssignmentKey, key, covers
    <3> QED BY <3>1, <3>3
  <2>10. AssignmentsLast
    <3>1. \A x \in assignments : \E y \in assignments' :
             AssignmentKey(y) = AssignmentKey(x) /\ y.id = x.id /\ \A at \in Nat : covers(x, at) => covers(y, at)
      BY <2>1, <2>3, <2>5
    <3> QED BY <3>1 DEF AssignmentsLast, AssignmentKnown, AssignmentKey, covers
  <2> QED BY <2>5, <2>6, <2>8, <2>9, <2>10, <1>1
<1> QED BY <1>5, <1>6

AddressesKept ==
    \A m \in emails : \E n \in emails' :
        /\ <<n.person, n.organization, n.address>> = <<m.person, m.organization, m.address>>
        /\ n.class \in {m.class, "published"}
AddressesOf(person, organization) ==
    \A n \in emails' :  \/ n.person = person /\ n.organization = organization
                        \/ \E m \in emails : m.person = n.person /\ m.organization = n.organization

(* An address is found by person, organization and address, and keeps its   *)
(* class unless it is published in plain text.                              *)
LEMMA EmailsGrow ==
    ASSUME EmailsTable, NEW w \in Workers, UpsertEmail(w), NEW e, e = exec[w], e.at \in Nat,
           NEW address, address = Kept(Record(w))[e.i].address
    PROVE  /\ EmailsTable' /\ EmailsLast
           /\ EmailKnown(e.person, e.organization, address, e.at)'
           /\ exec' = [exec EXCEPT ![w].i = e.i + 1]
           /\ (\E at : EmailKnown(e.person, e.organization, address, at)) =>
                 Cardinality(emails') = Cardinality(emails)
           /\ AddressesKept /\ AddressesOf(e.person, e.organization)
<1> DEFINE new == [person |-> e.person, organization |-> e.organization, address |-> address,
                   assignment |-> e.assignment, class |-> Classification(Record(w), Kept(Record(w))[e.i]),
                   first |-> e.at, last |-> e.at]
           merged(r) == [Widened(r, e.at) EXCEPT !.class = Replaced(@, new.class),
                                                 !.assignment = e.assignment]
           key(r) == <<r.person, r.organization, r.address>>
           old == {r \in emails : key(r) = key(new)}
           fields == {"person", "organization", "address", "assignment", "class", "first", "last"}
           isRow(r) == DOMAIN r = fields /\ IsWindow(r)
           covers(r, at) == r.first <= at /\ at <= r.last
<1>1. /\ emails' = IF old = {} THEN emails \cup {new} ELSE (emails \ old) \cup {merged(r) : r \in old}
      /\ exec' = [exec EXCEPT ![w].i = e.i + 1]
  BY DEF UpsertEmail, Upsert
<1>2. /\ new.person = e.person /\ new.organization = e.organization /\ new.address = address
      /\ isRow(new) /\ covers(new, e.at)
  BY DEF IsWindow
<1>3. \A r \in emails : LET m == merged(r) IN
         /\ m.person = r.person /\ m.organization = r.organization /\ m.address = r.address
         /\ isRow(m) /\ m.class \in {r.class, "published"}
         /\ covers(m, e.at) /\ \A at \in Nat : covers(r, at) => covers(m, at)
  <2> SUFFICES ASSUME NEW r \in emails
               PROVE  LET m == merged(r) IN
                 /\ m.person = r.person /\ m.organization = r.organization /\ m.address = r.address
                 /\ isRow(m) /\ m.class \in {r.class, "published"}
                 /\ covers(m, e.at) /\ \A at \in Nat : covers(r, at) => covers(m, at)
    OBVIOUS
  <2>1. PICK x : x = Widened(r, e.at)
    OBVIOUS
  <2>2. /\ DOMAIN x = fields /\ x.person = r.person /\ x.organization = r.organization
        /\ x.address = r.address /\ x.class = r.class /\ IsWindow(x)
        /\ covers(x, e.at) /\ \A at \in Nat : covers(r, at) => covers(x, at)
    <3>1. IsWindow(r) /\ DOMAIN r = fields
      BY DEF EmailsTable
    <3> QED BY <2>1, <3>1, WindowWidened
  <2>3. PICK class : merged(r) = [x EXCEPT !.class = class, !.assignment = e.assignment]
                     /\ class \in {r.class, "published"}
    BY <2>1, <2>2 DEF Replaced
  <2> QED BY <2>2, <2>3 DEF IsWindow
<1> HIDE DEF new, merged
<1>4. CASE old = {}
  <2>1. emails' = emails \cup {new} /\ new \notin emails
    BY <1>1, <1>4
  <2>2. IsFiniteSet(emails')
    BY <2>1, RowAdded DEF EmailsTable
  <2>3. EmailsTable'
    <3>1. \A r \in emails' : isRow(r)
      BY <2>1, <1>2 DEF EmailsTable
    <3>2. \A m, n \in emails' :
             m.person = n.person /\ m.organization = n.organization /\ m.address = n.address => m = n
      BY <2>1, <1>2, <1>4 DEF EmailsTable
    <3> QED BY <2>2, <3>1, <3>2 DEF EmailsTable
  <2>4. EmailKnown(e.person, e.organization, address, e.at)'
    BY <2>1, <1>2 DEF EmailKnown
  <2>5. EmailsLast
    BY <2>1 DEF EmailsLast, EmailKnown
  <2>6. ~\E at : EmailKnown(e.person, e.organization, address, at)
    BY <1>4, <1>2 DEF EmailKnown
  <2>7. AddressesKept /\ AddressesOf(e.person, e.organization)
    BY <2>1, <1>2 DEF AddressesKept, AddressesOf
  <2> QED BY <2>3, <2>4, <2>5, <2>6, <2>7, <1>1
<1>5. CASE old # {}
  <2>1. PICK r \in emails : r.person = e.person /\ r.organization = e.organization /\ r.address = address
    BY <1>5, <1>2
  <2>2. PICK m : m = merged(r)
    OBVIOUS
  <2>3. /\ m.person = e.person /\ m.organization = e.organization /\ m.address = address
        /\ isRow(m) /\ m.class \in {r.class, "published"}
        /\ covers(m, e.at) /\ \A at \in Nat : covers(r, at) => covers(m, at)
    BY <2>1, <2>2, <1>3
  <2>4. old = {r}
    BY <2>1, <1>2 DEF EmailsTable
  <2>5. emails' = (emails \ {r}) \cup {m} /\ m \notin emails \ {r}
    BY <1>1, <1>5, <2>1, <2>2, <2>3, <2>4 DEF EmailsTable
  <2>6. IsFiniteSet(emails') /\ Cardinality(emails') = Cardinality(emails)
    BY <2>5, RowReplaced DEF EmailsTable
  <2> HIDE DEF covers
  <2>7. EmailsTable'
    <3>1. \A x \in emails' : isRow(x)
      BY <2>3, <2>5 DEF EmailsTable
    <3>2. \A x, y \in emails' :
             x.person = y.person /\ x.organization = y.organization /\ x.address = y.address => x = y
      BY <2>1, <2>3, <2>5 DEF EmailsTable
    <3> QED BY <2>6, <3>1, <3>2 DEF EmailsTable
  <2>8. EmailKnown(e.person, e.organization, address, e.at)'
    BY <2>5, <2>3 DEF EmailKnown, covers
  <2>9. EmailsLast
    <3>1. \A x \in emails : \E y \in emails' :
             /\ y.person = x.person /\ y.organization = x.organization /\ y.address = x.address
             /\ \A at \in Nat : covers(x, at) => covers(y, at)
      BY <2>1, <2>3, <2>5
    <3> QED BY <3>1 DEF EmailsLast, EmailKnown, covers
  <2>10. AddressesKept /\ AddressesOf(e.person, e.organization)
    BY <2>1, <2>3, <2>5 DEF AddressesKept, AddressesOf
  <2> QED BY <2>6, <2>7, <2>8, <2>9, <2>10, <1>1
<1> QED BY <1>4, <1>5

(* A number is found by person, organization and number.                    *)
LEMMA ContactsGrow ==
    ASSUME ContactsTable, NEW w \in Workers, UpsertContact(w), NEW e, e = exec[w], e.at \in Nat,
           NEW rec, rec = Record(w)
    PROVE  /\ ContactsTable' /\ ContactsLast
           /\ ContactDone(rec, e.organization, e.person, e.at)'
           /\ exec' = [exec EXCEPT ![w].pc = "observe", ![w].i = 1]
           /\ (\E at : ContactDone(rec, e.organization, e.person, at)) => Cardinality(contacts') = Cardinality(contacts)
<1> DEFINE number == Number(rec)
           new == [person |-> e.person, organization |-> e.organization, number |-> number,
                   first |-> e.at, last |-> e.at]
           merged(r) == SeenLast(r, e.at)
           key(r) == <<r.person, r.organization, r.number>>
           old == {r \in contacts : key(r) = key(new)}
           isRow(r) == DOMAIN r = {"person", "organization", "number", "first", "last"} /\ r.last \in Nat
<1>1. /\ contacts' = IF number = None THEN contacts
                     ELSE IF old = {} THEN contacts \cup {new}
                     ELSE (contacts \ old) \cup {merged(r) : r \in old}
      /\ exec' = [exec EXCEPT ![w].pc = "observe", ![w].i = 1]
  BY DEF UpsertContact, Upsert
<1>2. new.person = e.person /\ new.organization = e.organization /\ new.number = number /\ isRow(new) /\ new.last = e.at
  OBVIOUS
<1>3. \A r \in contacts : LET m == merged(r) IN
         /\ m.person = r.person /\ m.organization = r.organization /\ m.number = r.number /\ isRow(m)
         /\ r.last <= m.last /\ e.at <= m.last
  BY DEF SeenLast, ContactsTable
<1> HIDE DEF new, merged, number
<1>4. CASE number = None
  BY <1>1, <1>4, Untouched DEF ContactDone, number
<1>5. CASE number # None /\ old = {}
  <2>1. contacts' = contacts \cup {new} /\ new \notin contacts
    BY <1>1, <1>5
  <2>2. IsFiniteSet(contacts')
    BY <2>1, RowAdded DEF ContactsTable
  <2>3. ContactsTable'
    <3>1. \A r \in contacts' : isRow(r)
      BY <2>1, <1>2 DEF ContactsTable
    <3>2. \A c, d \in contacts' :
             c.person = d.person /\ c.organization = d.organization /\ c.number = d.number => c = d
      BY <2>1, <1>2, <1>5 DEF ContactsTable
    <3> QED BY <2>2, <3>1, <3>2 DEF ContactsTable
  <2>4. ContactDone(rec, e.organization, e.person, e.at)'
    BY <2>1, <1>2 DEF ContactDone, ContactKnown, number
  <2>5. ContactsLast
    BY <2>1 DEF ContactsLast, ContactKnown
  <2>6. ~\E at : ContactDone(rec, e.organization, e.person, at)
    BY <1>5, <1>2 DEF ContactDone, ContactKnown, number
  <2> QED BY <2>3, <2>4, <2>5, <2>6, <1>1
<1>6. CASE number # None /\ old # {}
  <2>1. PICK r \in contacts : r.person = e.person /\ r.organization = e.organization /\ r.number = number
    BY <1>6, <1>2
  <2>2. PICK m : m = merged(r)
    OBVIOUS
  <2>3. /\ m.person = e.person /\ m.organization = e.organization /\ m.number = number /\ isRow(m)
        /\ r.last <= m.last /\ e.at <= m.last
    BY <2>1, <2>2, <1>3
  <2>4. old = {r}
    BY <2>1, <1>2 DEF ContactsTable
  <2>5. contacts' = (contacts \ {r}) \cup {m} /\ m \notin contacts \ {r}
    BY <1>1, <1>6, <2>1, <2>2, <2>3, <2>4 DEF ContactsTable
  <2>6. IsFiniteSet(contacts') /\ Cardinality(contacts') = Cardinality(contacts)
    BY <2>5, RowReplaced DEF ContactsTable
  <2>7. ContactsTable'
    <3>1. \A x \in contacts' : isRow(x)
      BY <2>3, <2>5 DEF ContactsTable
    <3>2. \A c, d \in contacts' :
             c.person = d.person /\ c.organization = d.organization /\ c.number = d.number => c = d
      BY <2>1, <2>3, <2>5 DEF ContactsTable
    <3> QED BY <2>6, <3>1, <3>2 DEF ContactsTable
  <2>8. ContactDone(rec, e.organization, e.person, e.at)'
    BY <2>3, <2>5 DEF ContactDone, ContactKnown, number
  <2>9. ContactsLast
    <3>1. ASSUME NEW at \in Nat, at <= r.last PROVE at <= m.last
      BY <3>1, <2>3 DEF ContactsTable, isRow
    <3> QED BY <3>1, <2>1, <2>3, <2>5 DEF ContactsLast, ContactKnown
  <2> QED BY <2>6, <2>7, <2>8, <2>9, <1>1
<1> QED BY <1>4, <1>5, <1>6

(* An observation is added, or is there and says the same of the same       *)
(* person; otherwise the statement fails.                                   *)
LEMMA ObservationsGrow ==
    ASSUME IsFiniteSet(observations), NEW w \in Workers, Observe(w), NEW e, e = exec[w],
           NEW rec, rec = Record(w)
    PROVE  /\ IsFiniteSet(observations') /\ ObservationsLast /\ observations \subseteq observations'
           /\ \/ exec' = [exec EXCEPT ![w] = [Idle EXCEPT !.pc = "conflict"]]
              \/ FieldDone(e.page, rec, e.version, e.person, e.i)' /\ exec' = [exec EXCEPT ![w].i = e.i + 1]
           /\ (\E person : FieldDone(e.page, rec, e.version, person, e.i)) =>
                 Cardinality(observations') = Cardinality(observations)
<1> DEFINE o == Observed(rec)[e.i]
           key(r) == <<r.url, r.version, r.key, r.field>>
           new == [url |-> e.page.url, version |-> e.version, key |-> rec.key, field |-> o.field,
                   class |-> o.class, person |-> e.person, raw |-> o.raw, normal |-> o.normal]
           old == {r \in observations : key(r) = key(new)}
<1>1. \/ /\ \A r \in old : SameObservation(r, new)
         /\ observations' = IF old = {} THEN observations \cup {new} ELSE observations
         /\ exec' = [exec EXCEPT ![w].i = e.i + 1]
      \/ exec' = [exec EXCEPT ![w] = [Idle EXCEPT !.pc = "conflict"]] /\ UNCHANGED observations
  BY DEF Observe, Page
<1>2. /\ new.url = e.page.url /\ new.version = e.version /\ new.key = rec.key /\ new.field = o.field
      /\ new.person = e.person /\ new.raw = o.raw
  OBVIOUS
<1> HIDE DEF new
<1>3. /\ IsFiniteSet(observations') /\ observations \subseteq observations'
      /\ old # {} => observations' = observations
  BY <1>1, FS_AddElement
<1>4. ObservationsLast
  BY <1>3 DEF ObservationsLast, ObservationKnown
<1>5. (\E person : FieldDone(e.page, rec, e.version, person, e.i)) => old # {}
  BY <1>2 DEF FieldDone, ObservationKnown
<1>6. ASSUME \A r \in old : SameObservation(r, new),
             observations' = IF old = {} THEN observations \cup {new} ELSE observations
      PROVE  FieldDone(e.page, rec, e.version, e.person, e.i)'
  <2>1. \E r \in observations' : r = new
    BY <1>6 DEF SameObservation
  <2> QED BY <2>1, <1>2 DEF FieldDone, ObservationKnown
<1> QED BY <1>1, <1>3, <1>4, <1>5, <1>6

----------------------------------------------------------------------------
(* The steps.                                                               *)

(* A worker moves, what it relies on is so, and the others rely on what     *)
(* they did.                                                                *)
LEMMA WorkerMoves ==
    ASSUME IngestionInv, Tables', HistoryHolds', Lasting, NEW w \in Workers, NEW f,
           exec' = [exec EXCEPT ![w] = f], WorkHolds(f)', now' \in Nat, now <= now', f.at <= now'
    PROVE  IngestionInv'
<1>1. DOMAIN exec' = Workers /\ exec'[w] = f /\ \A v \in Workers \ {w} : exec'[v] = exec[v]
  BY DEF IngestionInv
<1>2. ASSUME NEW v \in Workers, v # w
      PROVE  \E e : e = exec'[v] /\ WorkHolds(e)' /\ e.at <= now'
  <2>1. PICK e : e = exec[v]
    OBVIOUS
  <2>2. WorkHolds(e) /\ e.at <= now /\ now \in Nat
    BY <2>1 DEF IngestionInv
  <2>3. WorkHolds(e)'
    BY <2>2, WorkLasts
  <2>4. e.at <= now'
    BY <2>2 DEF WorkHolds
  <2> QED BY <2>1, <2>3, <2>4, <1>1, <1>2
<1>3. \A v \in Workers : \E e : e = exec'[v] /\ WorkHolds(e)' /\ e.at <= now'
  BY <1>1, <1>2
<1>4. \A v \in Workers : WorkHolds(exec[v])' /\ exec'[v].at <= now'
  BY <1>3
<1> QED BY <1>1, <1>4 DEF IngestionInv

(* A worker that stops relies on nothing.                                   *)
LEMMA IdleHolds ==
    /\ WorkHolds(Idle)' /\ Idle.at = 0
    /\ WorkHolds([Idle EXCEPT !.pc = "conflict"])' /\ [Idle EXCEPT !.pc = "conflict"].at = 0
BY DEF WorkHolds, Idle, ExecFields, InRecord

(* A worker that stops, or fails on a conflict, stands for nothing.        *)
LEMMA WorkerStops ==
    ASSUME IngestionInv, Tables', HistoryHolds', Lasting, NEW w \in Workers, UNCHANGED now,
           \/ exec' = [exec EXCEPT ![w] = Idle]
           \/ exec' = [exec EXCEPT ![w] = [Idle EXCEPT !.pc = "conflict"]]
    PROVE  IngestionInv'
<1>1. PICK f : exec' = [exec EXCEPT ![w] = f] /\ (f = Idle \/ f = [Idle EXCEPT !.pc = "conflict"])
  OBVIOUS
<1>2. WorkHolds(f)' /\ f.at = 0
  BY <1>1, IdleHolds
<1>3. now' \in Nat /\ now <= now' /\ f.at <= now'
  BY <1>2 DEF IngestionInv
<1> QED BY <1>1, <1>2, <1>3, WorkerMoves

(* Entering a record: it is passed over, or its unit comes first.           *)
LEMMA EnterHolds ==
    ASSUME NEW e, DOMAIN e = ExecFields, e.at \in Nat, e.page \in Pages, e.n \in DOMAIN e.page.records,
           e.n \in Nat \ {0},
           \A k \in DOMAIN e.page.records : k < e.n => Passed(e.page, e.scope, k)',
           e.version # 0, DocumentSeen(e.page.url, e.at)',
           VersionKnown(e.page.url, e.page.content, e.version, e.at)',
           NEW rec, rec = EntryAt(e.page, e.n), e.organization = Resolved(e.page, e.scope, e.n)
    PROVE  WorkHolds(Enter(e, rec))' /\ Enter(e, rec).at = e.at
<1>1. CASE e.organization = None \/ rec.name = None
  <2>1. PICK f : f = [e EXCEPT !.pc = "renew", !.n = e.n + 1]
    OBVIOUS
  <2>2. Enter(e, rec) = f
    BY <1>1, <2>1 DEF Enter, PassOver
  <2>3. /\ DOMAIN f = ExecFields /\ f.at = e.at /\ f.pc = "renew" /\ f.page = e.page /\ f.scope = e.scope
        /\ f.n = e.n + 1 /\ f.version = e.version
    BY <2>1 DEF ExecFields
  <2>4. Passed(e.page, e.scope, e.n)'
    BY <1>1 DEF Passed
  <2>5. \A k \in DOMAIN e.page.records : k < f.n => Passed(e.page, e.scope, k)'
    <3>1. \A k \in DOMAIN e.page.records : k \in Nat
      BY RecordsAreNumbered
    <3> QED BY <3>1, <2>3, <2>4
  <2>6. PageWork(f)'
    BY <2>3, <2>5 DEF PageWork
  <2> QED BY <2>2, <2>3, <2>6 DEF WorkHolds, InRecord
<1>2. CASE ~(e.organization = None \/ rec.name = None)
  <2>1. PICK f : f = [e EXCEPT !.pc = IF rec.department = None THEN "person" ELSE "unit",
                               !.unit = None, !.i = 1]
    OBVIOUS
  <2>2. Enter(e, rec) = f
    BY <1>2, <2>1 DEF Enter
  <2>3. /\ DOMAIN f = ExecFields /\ f.at = e.at /\ f.page = e.page /\ f.scope = e.scope
        /\ f.pc = (IF rec.department = None THEN "person" ELSE "unit") /\ f.unit = None /\ f.i = 1
        /\ f.n = e.n /\ f.version = e.version /\ f.organization = e.organization
    BY <2>1 DEF ExecFields
  <2>4. PageWork(f)'
    BY <2>3 DEF PageWork
  <2>5. RecordWork(f)'
    BY <2>3, <1>2 DEF RecordWork, UnitDone
  <2> QED BY <2>2, <2>3, <2>4, <2>5 DEF WorkHolds, InRecord
<1> QED BY <1>1, <1>2

(* Nothing is written: what was known is known.                             *)
LEMMA NothingWritten ==
    ASSUME Tables, UNCHANGED <<evidence, roster>>
    PROVE  Tables' /\ Lasting
BY Untouched DEF evidence, roster, Tables, Lasting

(* A worker takes a page up.                                               *)
LEMMA FetchKeeps ==
    ASSUME IngestionInv, NEW w \in Workers, Fetch(w)
    PROVE  IngestionInv'
<1>1. Tables' /\ Lasting
  BY NothingWritten DEF Fetch, IngestionInv
<1>2. PICK p \in Pages :
         exec' = [exec EXCEPT ![w] = [Idle EXCEPT !.pc = IF p.records = <<>> THEN "document" ELSE "renew",
                                                  !.page = p, !.at = now + 1, !.scope = links]]
  BY DEF Fetch
<1>3. PICK f : f = [Idle EXCEPT !.pc = IF p.records = <<>> THEN "document" ELSE "renew",
                                !.page = p, !.at = now + 1, !.scope = links]
  OBVIOUS
<1>4. /\ DOMAIN f = ExecFields /\ f.pc = (IF p.records = <<>> THEN "document" ELSE "renew")
      /\ f.page = p /\ f.at = now + 1 /\ f.n = 1 /\ f.version = 0
  BY <1>3 DEF Idle, ExecFields
<1>5. now \in Nat /\ now' = now + 1 /\ UNCHANGED ingested
  BY DEF Fetch, IngestionInv
<1>6. \A k \in DOMAIN p.records : ~(k < 1)
  BY RecordsAreNumbered
<1>7. PageWork(f)'
  BY <1>4, <1>6 DEF PageWork
<1>8. WorkHolds(f)'
  BY <1>4, <1>5, <1>7 DEF WorkHolds, InRecord
<1>9. exec' = [exec EXCEPT ![w] = f] /\ f.at <= now' /\ now <= now' /\ now' \in Nat
  BY <1>2, <1>3, <1>4, <1>5
<1>10. HistoryHolds'
  BY <1>1, <1>5, HistoryLasts DEF IngestionInv
<1> QED BY <1>1, <1>8, <1>9, <1>10, WorkerMoves

(* The lease is renewed before the next record; no row changes.            *)
LEMMA RenewKeeps ==
    ASSUME IngestionInv, NEW w \in Workers, Renew(w)
    PROVE  IngestionInv'
<1>1. Tables' /\ Lasting /\ HistoryHolds' /\ now' = now /\ now \in Nat
  BY NothingWritten, HistoryLasts DEF Renew, IngestionInv
<1>2. PICK c : c = exec[w]
  OBVIOUS
<1>3. WorkHolds(c) /\ c.pc = "renew" /\ c.n <= Len(c.page.records) /\ c.at <= now
  BY <1>2 DEF Renew, IngestionInv, At, Page
<1>4. /\ PageWork(c) /\ DOMAIN c = ExecFields /\ c.at \in Nat
      /\ c.page \in Pages /\ c.n \in Nat \ {0} /\ c.n \in DOMAIN c.page.records
  BY <1>3, PageAssumption DEF WorkHolds, PageWork
<1>5. PICK rec : rec = EntryAt(c.page, c.n)
  OBVIOUS
<1>6. PICK e : e = [c EXCEPT !.organization = Resolved(c.page, c.scope, c.n)]
  OBVIOUS
<1>7. exec' = [exec EXCEPT ![w] = IF e.version = 0 THEN [e EXCEPT !.pc = "document"] ELSE Enter(e, rec)]
  BY <1>2, <1>5, <1>6 DEF Renew, Record, Page, EntryAt, Resolved
<1>8. /\ DOMAIN e = ExecFields /\ e.organization = Resolved(e.page, e.scope, e.n)
      /\ e.at = c.at /\ e.page = c.page /\ e.scope = c.scope /\ e.n = c.n /\ e.version = c.version
  BY <1>4, <1>6 DEF ExecFields
<1>9. PageWork(c)'
  BY <1>4, <1>1, <1>3, WorkLasts DEF WorkHolds
<1>10. CASE e.version = 0
  <2>1. PICK f : f = [e EXCEPT !.pc = "document"]
    OBVIOUS
  <2>2. /\ DOMAIN f = ExecFields /\ f.at = c.at /\ f.page = c.page /\ f.scope = c.scope /\ f.n = c.n
        /\ f.version = c.version /\ f.pc = "document" /\ f.organization = Resolved(c.page, c.scope, c.n)
    BY <2>1, <1>8 DEF ExecFields
  <2>3. PageWork(f)'
    BY <2>2, <1>9, <1>10, <1>3, <1>8, <1>5 DEF PageWork
  <2>4. WorkHolds(f)'
    BY <2>2, <2>3, <1>4 DEF WorkHolds, InRecord
  <2>5. exec' = [exec EXCEPT ![w] = f] /\ f.at <= now' /\ now <= now' /\ now' \in Nat
    BY <2>1, <2>2, <1>1, <1>3, <1>7, <1>10
  <2> QED BY <2>4, <2>5, <1>1, WorkerMoves
<1>11. CASE e.version # 0
  <2>1. PICK f : f = Enter(e, rec)
    OBVIOUS
  <2>2. WorkHolds(f)' /\ f.at = c.at
    BY <2>1, <1>4, <1>5, <1>8, <1>9, <1>11, EnterHolds DEF PageWork
  <2>3. exec' = [exec EXCEPT ![w] = f] /\ f.at <= now' /\ now <= now' /\ now' \in Nat
    BY <2>1, <2>2, <1>1, <1>3, <1>7, <1>11
  <2> QED BY <2>2, <2>3, <1>1, WorkerMoves
<1> QED BY <1>10, <1>11

(* The document row is written or sighted again.                           *)
LEMMA DocumentKeeps ==
    ASSUME IngestionInv, NEW w \in Workers, RecordDocument(w)
    PROVE  IngestionInv'
<1>1. PICK e : e = exec[w]
  OBVIOUS
<1>2. WorkHolds(e) /\ e.pc = "document" /\ e.at <= now /\ now \in Nat /\ now' = now
  BY <1>1 DEF RecordDocument, IngestionInv, At
<1>3. /\ PageWork(e) /\ DOMAIN e = ExecFields /\ e.at \in Nat /\ e.version = 0
  BY <1>2 DEF WorkHolds, PageWork
<1>4. DocumentsTable' /\ DocumentsLast /\ DocumentSeen(e.page.url, e.at)'
  <2>1. e.page.url = Page(w).url
    BY <1>1 DEF Page
  <2> QED BY <2>1, <1>1, <1>3, DocumentsGrow DEF IngestionInv, Tables
<1>5. Tables' /\ Lasting
  BY <1>4, Untouched DEF RecordDocument, roster, IngestionInv, Tables, Lasting
<1>6. HistoryHolds'
  BY <1>5, HistoryLasts DEF RecordDocument, IngestionInv
<1>7. PICK f : f = [e EXCEPT !.pc = "version", !.next = Cardinality(VersionsOf(e.page.url)) + 1]
  OBVIOUS
<1>8. exec' = [exec EXCEPT ![w] = f]
  BY <1>1, <1>7 DEF RecordDocument, Page
<1>9. /\ DOMAIN f = ExecFields /\ f.at = e.at /\ f.page = e.page /\ f.scope = e.scope /\ f.n = e.n
      /\ f.version = e.version /\ f.pc = "version" /\ f.organization = e.organization
      /\ f.next = Cardinality(VersionsOf(e.page.url)) + 1
  BY <1>3, <1>7 DEF ExecFields
<1>10. f.next \in Nat \ {0} /\ (f.next = 1 \/ NumberTaken(e.page.url, f.next - 1))
  <2>1. {v.number : v \in VersionsOf(e.page.url)} = 1..Cardinality(VersionsOf(e.page.url))
    BY DEF IngestionInv, Tables, VersionsTable
  <2>2. Cardinality(VersionsOf(e.page.url)) \in Nat
    BY FS_Subset, FS_CardinalityType DEF IngestionInv, Tables, VersionsTable, VersionsOf
  <2>3. \A k : NumberTaken(e.page.url, k) <=> k \in {v.number : v \in VersionsOf(e.page.url)}
    BY DEF NumberTaken, VersionsOf
  <2> QED BY <2>1, <2>2, <2>3, <1>9
<1>11. f.next = 1 \/ NumberTaken(e.page.url, f.next - 1)'
  BY <1>10, <1>5 DEF Lasting, VersionsLast
<1>12. PageWork(e)'
  BY <1>2, <1>3, <1>5, WorkLasts DEF WorkHolds
<1>13. PageWork(f)'
  BY <1>3, <1>4, <1>9, <1>10, <1>11, <1>12, <1>2 DEF PageWork
<1>14. WorkHolds(f)'
  BY <1>3, <1>9, <1>13 DEF WorkHolds, InRecord
<1>15. f.at <= now' /\ now <= now' /\ now' \in Nat
  BY <1>2, <1>9
<1> QED BY <1>5, <1>6, <1>8, <1>14, <1>15, WorkerMoves

(* The version row is written under the next number, or sighted again.     *)
LEMMA VersionKeeps ==
    ASSUME IngestionInv, NEW w \in Workers, RecordVersion(w)
    PROVE  IngestionInv'
<1>1. PICK e : e = exec[w]
  OBVIOUS
<1>2. WorkHolds(e) /\ e.pc = "version" /\ e.at <= now /\ now \in Nat /\ now' = now
  BY <1>1 DEF RecordVersion, IngestionInv, At
<1>3. /\ PageWork(e) /\ DOMAIN e = ExecFields /\ e.at \in Nat /\ e.version = 0 /\ e.n = 1
      /\ e.next \in Nat \ {0} /\ (e.next = 1 \/ NumberTaken(e.page.url, e.next - 1))
      /\ e.page \in Pages
  BY <1>2 DEF WorkHolds, PageWork
<1>4. PICK rec : rec = Record(w)
  OBVIOUS
<1>5. /\ VersionsTable' /\ VersionsLast
      /\ \/ exec' = [exec EXCEPT ![w] = Idle]
         \/ \E number \in Nat \ {0} : VersionTaken(w, e, rec, number)
  BY <1>1, <1>3, <1>4, VersionsGrow DEF IngestionInv, Tables
<1>6. Tables' /\ Lasting
  BY <1>5, Untouched DEF RecordVersion, roster, IngestionInv, Tables, Lasting
<1>7. HistoryHolds'
  BY <1>6, HistoryLasts DEF RecordVersion, IngestionInv
<1>8. CASE exec' = [exec EXCEPT ![w] = Idle]
  BY <1>2, <1>6, <1>7, <1>8, WorkerStops
<1>9. ASSUME NEW number \in Nat \ {0}, VersionTaken(w, e, rec, number)
      PROVE  IngestionInv'
  <2>1. PageWork(e)' /\ DocumentSeen(e.page.url, e.at)'
    BY <1>2, <1>3, <1>6, WorkLasts DEF WorkHolds, PageWork
  <2>2. CASE e.page.records = <<>>
    <3>1. PICK f : f = [e EXCEPT !.version = number, !.pc = "renew"]
      OBVIOUS
    <3>2. /\ DOMAIN f = ExecFields /\ f.at = e.at /\ f.page = e.page /\ f.scope = e.scope /\ f.n = e.n
          /\ f.version = number /\ f.pc = "renew"
      BY <3>1, <1>3 DEF ExecFields
    <3>3. PageWork(f)'
      BY <3>2, <2>1, <1>9 DEF PageWork, VersionTaken
    <3>4. WorkHolds(f)'
      BY <3>2, <3>3, <1>3 DEF WorkHolds, InRecord
    <3>5. exec' = [exec EXCEPT ![w] = f] /\ f.at <= now' /\ now <= now' /\ now' \in Nat
      BY <3>1, <3>2, <2>2, <1>9, <1>2 DEF VersionTaken
    <3> QED BY <3>4, <3>5, <1>6, <1>7, WorkerMoves
  <2>3. CASE e.page.records # <<>>
    <3>1. PICK g : g = [e EXCEPT !.version = number]
      OBVIOUS
    <3>2. /\ DOMAIN g = ExecFields /\ g.at = e.at /\ g.page = e.page /\ g.scope = e.scope /\ g.n = 1
          /\ g.version = number /\ g.organization = e.organization
      BY <3>1, <1>3 DEF ExecFields
    <3>3. g.n \in DOMAIN g.page.records
      BY <3>2, <2>3, <1>3, RecordsAreNumbered
    <3>4. rec = EntryAt(g.page, g.n) /\ g.organization = Resolved(g.page, g.scope, g.n)
      BY <3>2, <2>3, <1>1, <1>2, <1>3, <1>4 DEF PageWork, Record, Page, EntryAt
    <3>5. \A k \in DOMAIN g.page.records : k < g.n => Passed(g.page, g.scope, k)'
      BY <3>2, <2>1, <1>3 DEF PageWork
    <3>6. PICK f : f = Enter(g, rec)
      OBVIOUS
    <3>7. WorkHolds(f)' /\ f.at = g.at
      <4>1. VersionKnown(g.page.url, g.page.content, g.version, g.at)'
        BY <3>2, <1>9 DEF VersionTaken
      <4> QED BY <3>2, <3>3, <3>4, <3>5, <3>6, <4>1, <2>1, <1>9, <1>3, EnterHolds
    <3>8. exec' = [exec EXCEPT ![w] = f] /\ f.at <= now' /\ now <= now' /\ now' \in Nat
      BY <3>1, <3>2, <3>6, <3>7, <2>3, <1>9, <1>2 DEF VersionTaken
    <3> QED BY <3>7, <3>8, <1>6, <1>7, WorkerMoves
  <2> QED BY <2>2, <2>3
<1> QED BY <1>5, <1>8, <1>9

(* Of a worker in a record.                                                 *)
LEMMA WorkerInRecord ==
    ASSUME IngestionInv, NEW w \in Workers, exec[w].pc \in InRecord, NEW e, e = exec[w],
           NEW rec, rec = Record(w)
    PROVE  /\ WorkHolds(e) /\ PageWork(e) /\ RecordWork(e) /\ DOMAIN e = ExecFields
           /\ e.at \in Nat /\ e.at <= now /\ now \in Nat /\ e.version # 0
           /\ e.page \in Pages /\ e.n \in DOMAIN e.page.records /\ rec = EntryAt(e.page, e.n)
BY DEF IngestionInv, WorkHolds, PageWork, RecordWork, InRecord, Record, Page, EntryAt

(* In a record nothing changes of the page but where the worker stands.     *)
LEMMA RecordGoesOn ==
    ASSUME IngestionInv, Tables', HistoryHolds', Lasting, NEW w \in Workers, UNCHANGED now,
           NEW e, e = exec[w], e.pc \in InRecord,
           NEW f, exec' = [exec EXCEPT ![w] = f], DOMAIN f = ExecFields, f.pc \in InRecord,
           f.at = e.at, f.page = e.page, f.scope = e.scope, f.n = e.n, f.version = e.version,
           RecordWork(f)'
    PROVE  IngestionInv'
<1>1. /\ WorkHolds(e) /\ PageWork(e) /\ e.at \in Nat /\ e.at <= now /\ now \in Nat /\ e.version # 0
  BY WorkerInRecord
<1>2. PageWork(e)'
  BY <1>1, WorkLasts DEF WorkHolds, InRecord
<1>3. PageWork(f)'
  BY <1>1, <1>2 DEF PageWork, InRecord
<1>4. WorkHolds(f)'
  BY <1>1, <1>3 DEF WorkHolds, InRecord
<1>5. now' \in Nat /\ now <= now' /\ f.at <= now'
  BY <1>1
<1> QED BY <1>4, <1>5, WorkerMoves

(* What a worker has written of its current record lasts.                  *)
LEMMA RecordWorkLasts ==
    ASSUME Lasting, NEW e, WorkHolds(e), e.pc \in InRecord
    PROVE  RecordWork(e)'
BY WorkLasts DEF WorkHolds

(* The unit row of the current record.                                     *)
LEMMA UnitKeeps ==
    ASSUME IngestionInv, NEW w \in Workers, UpsertUnit(w)
    PROVE  IngestionInv'
<1>1. PICK e, rec : e = exec[w] /\ rec = Record(w)
  OBVIOUS
<1>2. e.pc = "unit" /\ e.pc \in InRecord /\ now' = now
  BY <1>1 DEF UpsertUnit, At, InRecord
<1>3. /\ WorkHolds(e) /\ RecordWork(e) /\ DOMAIN e = ExecFields /\ rec = EntryAt(e.page, e.n) /\ e.at \in Nat
  BY <1>1, <1>2, WorkerInRecord
<1>4. PICK name : name = Normalized[rec.department]
  OBVIOUS
<1>5. PICK id : /\ UnitsTable' /\ UnitsLast /\ UnitKnown(e.organization, name, id, e.at)'
                /\ exec' = [exec EXCEPT ![w].pc = "person", ![w].unit = id]
  BY <1>1, <1>3, <1>4, UnitsGrow DEF IngestionInv, Tables
<1>6. Tables' /\ Lasting
  BY <1>5, Untouched DEF UpsertUnit, evidence, IngestionInv, Tables, Lasting
<1>7. HistoryHolds'
  BY <1>6, HistoryLasts DEF UpsertUnit, IngestionInv
<1>8. PICK f : f = [e EXCEPT !.pc = "person", !.unit = id]
  OBVIOUS
<1>9. exec' = [exec EXCEPT ![w] = f]
  BY <1>1, <1>5, <1>8 DEF IngestionInv
<1>10. /\ DOMAIN f = ExecFields /\ f.at = e.at /\ f.page = e.page /\ f.scope = e.scope /\ f.n = e.n
       /\ f.version = e.version /\ f.organization = e.organization /\ f.i = e.i
       /\ f.pc = "person" /\ f.unit = id
  BY <1>3, <1>8 DEF ExecFields
<1>11. RecordWork(f)'
  BY <1>2, <1>3, <1>4, <1>5, <1>10 DEF RecordWork, UnitDone
<1> QED BY <1>1, <1>2, <1>6, <1>7, <1>9, <1>10, <1>11, RecordGoesOn DEF InRecord

(* The person row of the current record.                                   *)
LEMMA PersonKeeps ==
    ASSUME IngestionInv, NEW w \in Workers, UpsertPerson(w)
    PROVE  IngestionInv'
<1>1. PICK e, rec : e = exec[w] /\ rec = Record(w)
  OBVIOUS
<1>2. e.pc = "person" /\ e.pc \in InRecord /\ now' = now
  BY <1>1 DEF UpsertPerson, At, InRecord
<1>3. /\ WorkHolds(e) /\ RecordWork(e) /\ DOMAIN e = ExecFields /\ rec = EntryAt(e.page, e.n) /\ e.at \in Nat
  BY <1>1, <1>2, WorkerInRecord
<1>4. PICK identity : identity = Identity[rec.name]
  OBVIOUS
<1>5. PICK id : /\ PeopleTable' /\ PeopleLast /\ PersonKnown(e.organization, identity, id, e.at)'
                /\ exec' = [exec EXCEPT ![w].pc = "assignment", ![w].person = id]
                /\ \A p \in people : \E q \in people' : q.id = p.id /\ q.organization = p.organization
  BY <1>1, <1>3, <1>4, PeopleGrow DEF IngestionInv, Tables
<1>6. EmailsBelong'
  <2>1. UNCHANGED emails /\ EmailsBelong
    BY DEF UpsertPerson, IngestionInv, Tables
  <2> QED BY <2>1, <1>5 DEF EmailsBelong
<1>7. Tables' /\ Lasting
  BY <1>5, <1>6, Untouched DEF UpsertPerson, evidence, IngestionInv, Tables, Lasting
<1>8. HistoryHolds'
  BY <1>7, HistoryLasts DEF UpsertPerson, IngestionInv
<1>9. PICK f : f = [e EXCEPT !.pc = "assignment", !.person = id]
  OBVIOUS
<1>10. exec' = [exec EXCEPT ![w] = f]
  BY <1>1, <1>5, <1>9 DEF IngestionInv
<1>11. /\ DOMAIN f = ExecFields /\ f.at = e.at /\ f.page = e.page /\ f.scope = e.scope /\ f.n = e.n
       /\ f.version = e.version /\ f.organization = e.organization /\ f.i = e.i /\ f.unit = e.unit
       /\ f.pc = "assignment" /\ f.person = id
  BY <1>3, <1>9 DEF ExecFields
<1>12. RecordWork(e)'
  BY <1>2, <1>3, <1>7, RecordWorkLasts
<1>13. RecordWork(f)'
  BY <1>2, <1>3, <1>4, <1>5, <1>11, <1>12 DEF RecordWork, PersonDone
<1> QED BY <1>1, <1>2, <1>7, <1>8, <1>10, <1>11, <1>13, RecordGoesOn DEF InRecord

(* The assignment row of the current record.                               *)
LEMMA AssignmentKeeps ==
    ASSUME IngestionInv, NEW w \in Workers, UpsertAssignment(w)
    PROVE  IngestionInv'
<1>1. PICK e, rec : e = exec[w] /\ rec = Record(w)
  OBVIOUS
<1>2. e.pc = "assignment" /\ e.pc \in InRecord /\ now' = now
  BY <1>1 DEF UpsertAssignment, At, InRecord
<1>3. /\ WorkHolds(e) /\ RecordWork(e) /\ DOMAIN e = ExecFields /\ rec = EntryAt(e.page, e.n) /\ e.at \in Nat
      /\ e.page \in Pages /\ e.n \in DOMAIN e.page.records
  BY <1>1, <1>2, WorkerInRecord
<1>4. PICK title : title = Normalized[rec.title]
  OBVIOUS
<1>5. PICK id : /\ AssignmentsTable' /\ AssignmentsLast
                /\ AssignmentKnown(e.person, e.organization, e.unit, title, id, e.at)'
                /\ exec' = [exec EXCEPT ![w].pc = "email", ![w].i = 1, ![w].assignment = id]
  <2>1. AssignmentsTable /\ title = Normalized[Record(w).title]
    BY <1>1, <1>4 DEF IngestionInv, Tables
  <2> QED BY <2>1, <1>1, <1>3, AssignmentsGrow
<1>6. Tables' /\ Lasting
  BY <1>5, Untouched DEF UpsertAssignment, evidence, IngestionInv, Tables, Lasting
<1>7. HistoryHolds'
  BY <1>6, HistoryLasts DEF UpsertAssignment, IngestionInv
<1>8. PICK f : f = [e EXCEPT !.pc = "email", !.i = 1, !.assignment = id]
  OBVIOUS
<1>9. exec' = [exec EXCEPT ![w] = f]
  BY <1>1, <1>5, <1>8 DEF IngestionInv
<1>10. /\ DOMAIN f = ExecFields /\ f.at = e.at /\ f.page = e.page /\ f.scope = e.scope /\ f.n = e.n
       /\ f.version = e.version /\ f.organization = e.organization /\ f.unit = e.unit
       /\ f.person = e.person /\ f.pc = "email" /\ f.i = 1 /\ f.assignment = id
  BY <1>3, <1>8 DEF ExecFields
<1>11. RecordWork(e)'
  BY <1>2, <1>3, <1>6, RecordWorkLasts
<1>12. \A j \in DOMAIN Kept(rec) : ~(j < 1)
  BY <1>3, EntryIsSafe
<1>13. RecordWork(f)'
  BY <1>2, <1>3, <1>4, <1>5, <1>10, <1>11, <1>12 DEF RecordWork, AssignmentDone
<1> QED BY <1>1, <1>2, <1>6, <1>7, <1>9, <1>10, <1>13, RecordGoesOn DEF InRecord

(* One address of the current record, or the end of them.                  *)
LEMMA EmailKeeps ==
    ASSUME IngestionInv, NEW w \in Workers, UpsertEmail(w)
    PROVE  IngestionInv'
<1>1. PICK e, rec : e = exec[w] /\ rec = Record(w)
  OBVIOUS
<1>2. e.pc = "email" /\ e.pc \in InRecord /\ now' = now
  BY <1>1 DEF UpsertEmail, At, InRecord
<1>3. /\ WorkHolds(e) /\ RecordWork(e) /\ DOMAIN e = ExecFields /\ rec = EntryAt(e.page, e.n) /\ e.at \in Nat
      /\ e.page \in Pages /\ e.n \in DOMAIN e.page.records
  BY <1>1, <1>2, WorkerInRecord
<1>4. PICK address : address = Kept(rec)[e.i].address
  OBVIOUS
<1>5. /\ EmailsTable' /\ EmailsLast
      /\ EmailKnown(e.person, e.organization, address, e.at)'
      /\ exec' = [exec EXCEPT ![w].i = e.i + 1]
      /\ AddressesOf(e.person, e.organization)
  <2>1. EmailsTable /\ address = Kept(Record(w))[e.i].address
    BY <1>1, <1>4 DEF IngestionInv, Tables
  <2> QED BY <2>1, <1>1, <1>3, EmailsGrow
<1>6. EmailsBelong'
  <2>1. \E p \in people : p.id = e.person /\ p.organization = e.organization
    BY <1>2, <1>3 DEF RecordWork, PersonDone, PersonKnown
  <2>2. UNCHANGED people /\ EmailsBelong
    BY DEF UpsertEmail, IngestionInv, Tables
  <2> QED BY <2>1, <2>2, <1>5 DEF EmailsBelong, AddressesOf
<1>7. Tables' /\ Lasting
  BY <1>5, <1>6, Untouched DEF UpsertEmail, evidence, IngestionInv, Tables, Lasting
<1>8. HistoryHolds'
  BY <1>7, HistoryLasts DEF UpsertEmail, IngestionInv
<1>9. PICK f : f = [e EXCEPT !.i = e.i + 1]
  OBVIOUS
<1>10. exec' = [exec EXCEPT ![w] = f]
  BY <1>1, <1>5, <1>9 DEF IngestionInv
<1>11. /\ DOMAIN f = ExecFields /\ f.at = e.at /\ f.page = e.page /\ f.scope = e.scope /\ f.n = e.n
       /\ f.version = e.version /\ f.organization = e.organization /\ f.unit = e.unit
       /\ f.person = e.person /\ f.pc = "email" /\ f.i = e.i + 1 /\ f.assignment = e.assignment
  BY <1>2, <1>3, <1>9 DEF ExecFields
<1>12. RecordWork(e)'
  BY <1>2, <1>3, <1>7, RecordWorkLasts
<1>13. \A j \in DOMAIN Kept(rec) : j < f.i => EmailDone(rec, e.organization, e.person, e.at, j)'
  <2>1. \A j \in DOMAIN Kept(rec) : j \in Nat
    BY <1>3, EntryIsSafe
  <2>2. EmailDone(rec, e.organization, e.person, e.at, e.i)'
    BY <1>4, <1>5 DEF EmailDone
  <2>3. \A j \in DOMAIN Kept(rec) : j < e.i => EmailDone(rec, e.organization, e.person, e.at, j)'
    BY <1>2, <1>3, <1>12 DEF RecordWork
  <2>4. e.i \in Nat
    BY <1>3 DEF RecordWork
  <2> QED BY <2>1, <2>2, <2>3, <2>4, <1>11
<1>14. RecordWork(f)'
  BY <1>2, <1>3, <1>11, <1>12, <1>13 DEF RecordWork
<1> QED BY <1>1, <1>2, <1>7, <1>8, <1>10, <1>11, <1>14, RecordGoesOn DEF InRecord

(* The contact rows of the current record.                                 *)
LEMMA ContactKeeps ==
    ASSUME IngestionInv, NEW w \in Workers, UpsertContact(w)
    PROVE  IngestionInv'
<1>1. PICK e, rec : e = exec[w] /\ rec = Record(w)
  OBVIOUS
<1>2. e.pc = "email" /\ e.pc \in InRecord /\ now' = now /\ e.i > Len(Kept(rec))
  BY <1>1 DEF UpsertContact, At, InRecord
<1>3. /\ WorkHolds(e) /\ RecordWork(e) /\ DOMAIN e = ExecFields /\ rec = EntryAt(e.page, e.n)
      /\ e.page \in Pages /\ e.n \in DOMAIN e.page.records /\ e.at \in Nat
  BY <1>1, <1>2, WorkerInRecord
<1>4. /\ ContactsTable' /\ ContactsLast /\ ContactDone(rec, e.organization, e.person, e.at)'
      /\ exec' = [exec EXCEPT ![w].pc = "observe", ![w].i = 1]
  <2>1. ContactsTable
    BY DEF IngestionInv, Tables
  <2> QED BY <2>1, <1>1, <1>3, ContactsGrow
<1>5. Tables' /\ Lasting
  BY <1>4, Untouched DEF UpsertContact, evidence, IngestionInv, Tables, Lasting
<1>6. HistoryHolds'
  BY <1>5, HistoryLasts DEF UpsertContact, IngestionInv
<1>7. PICK f : f = [e EXCEPT !.pc = "observe", !.i = 1]
  OBVIOUS
<1>8. exec' = [exec EXCEPT ![w] = f]
  BY <1>1, <1>4, <1>7 DEF IngestionInv
<1>9. /\ DOMAIN f = ExecFields /\ f.at = e.at /\ f.page = e.page /\ f.scope = e.scope /\ f.n = e.n
      /\ f.version = e.version /\ f.organization = e.organization /\ f.unit = e.unit
      /\ f.person = e.person /\ f.pc = "observe" /\ f.i = 1 /\ f.assignment = e.assignment
  BY <1>3, <1>7 DEF ExecFields
<1>10. RecordWork(e)'
  BY <1>2, <1>3, <1>5, RecordWorkLasts
<1>11. \A j \in DOMAIN Kept(rec) : j < e.i
  BY <1>2, <1>3, EntryIsSafe DEF RecordWork
<1>12. \A j \in DOMAIN Observed(rec) : ~(j < 1)
  BY <1>3, EntryIsSafe
<1>13. RecordWork(f)'
  BY <1>2, <1>3, <1>4, <1>9, <1>10, <1>11, <1>12 DEF RecordWork
<1> QED BY <1>1, <1>2, <1>5, <1>6, <1>8, <1>9, <1>13, RecordGoesOn DEF InRecord

(* One observation of the current record, or the end of them.              *)
LEMMA ObserveKeeps ==
    ASSUME IngestionInv, NEW w \in Workers, Observe(w)
    PROVE  IngestionInv'
<1>1. PICK e, rec : e = exec[w] /\ rec = Record(w)
  OBVIOUS
<1>2. e.pc = "observe" /\ e.pc \in InRecord /\ now' = now
  BY <1>1 DEF Observe, At, InRecord
<1>3. /\ WorkHolds(e) /\ RecordWork(e) /\ DOMAIN e = ExecFields /\ rec = EntryAt(e.page, e.n)
      /\ e.page \in Pages /\ e.n \in DOMAIN e.page.records
  BY <1>1, <1>2, WorkerInRecord
<1>4. /\ IsFiniteSet(observations') /\ ObservationsLast
      /\ \/ exec' = [exec EXCEPT ![w] = [Idle EXCEPT !.pc = "conflict"]]
         \/ FieldDone(e.page, rec, e.version, e.person, e.i)' /\ exec' = [exec EXCEPT ![w].i = e.i + 1]
  <2>1. IsFiniteSet(observations)
    BY DEF IngestionInv, Tables
  <2> QED BY <2>1, <1>1, ObservationsGrow
<1>5. Tables' /\ Lasting
  BY <1>4, Untouched DEF Observe, roster, IngestionInv, Tables, Lasting
<1>6. HistoryHolds'
  BY <1>5, HistoryLasts DEF Observe, IngestionInv
<1>7. CASE exec' = [exec EXCEPT ![w] = [Idle EXCEPT !.pc = "conflict"]]
  BY <1>2, <1>5, <1>6, <1>7, WorkerStops
<1>8. CASE FieldDone(e.page, rec, e.version, e.person, e.i)' /\ exec' = [exec EXCEPT ![w].i = e.i + 1]
  <2>1. PICK f : f = [e EXCEPT !.i = e.i + 1]
    OBVIOUS
  <2>2. exec' = [exec EXCEPT ![w] = f]
    BY <1>1, <1>8, <2>1 DEF IngestionInv
  <2>3. /\ DOMAIN f = ExecFields /\ f.at = e.at /\ f.page = e.page /\ f.scope = e.scope /\ f.n = e.n
        /\ f.version = e.version /\ f.organization = e.organization /\ f.unit = e.unit
        /\ f.person = e.person /\ f.pc = "observe" /\ f.i = e.i + 1 /\ f.assignment = e.assignment
    BY <1>2, <1>3, <2>1 DEF ExecFields
  <2>4. RecordWork(e)'
    BY <1>2, <1>3, <1>5, RecordWorkLasts
  <2>5. \A j \in DOMAIN Observed(rec) : j < f.i => FieldDone(e.page, rec, e.version, e.person, j)'
    <3>1. \A j \in DOMAIN Observed(rec) : j \in Nat
      BY <1>3, EntryIsSafe
    <3>2. \A j \in DOMAIN Observed(rec) : j < e.i => FieldDone(e.page, rec, e.version, e.person, j)'
      BY <1>2, <1>3, <2>4 DEF RecordWork
    <3>3. e.i \in Nat
      BY <1>3 DEF RecordWork
    <3> QED BY <3>1, <3>2, <3>3, <1>8, <2>3
  <2>6. RecordWork(f)'
    BY <1>2, <1>3, <2>3, <2>4, <2>5 DEF RecordWork
  <2> QED BY <1>1, <1>2, <1>5, <1>6, <2>2, <2>3, <2>6, RecordGoesOn DEF InRecord
<1> QED BY <1>4, <1>7, <1>8

(* A record that was observed to its end is done, and passed.               *)
LEMMA NextRecordKeeps ==
    ASSUME IngestionInv, NEW w \in Workers, NextRecord(w)
    PROVE  IngestionInv'
<1>1. PICK e, rec : e = exec[w] /\ rec = Record(w)
  OBVIOUS
<1>2. e.pc = "observe" /\ e.pc \in InRecord /\ now' = now /\ e.i > Len(Observed(rec))
  BY <1>1 DEF NextRecord, At, InRecord
<1>3. /\ WorkHolds(e) /\ PageWork(e) /\ RecordWork(e) /\ DOMAIN e = ExecFields /\ rec = EntryAt(e.page, e.n)
      /\ e.page \in Pages /\ e.n \in DOMAIN e.page.records /\ e.at \in Nat /\ e.at <= now /\ now \in Nat
      /\ e.version # 0
  BY <1>1, <1>2, WorkerInRecord
<1>4. Tables' /\ Lasting
  BY NothingWritten DEF NextRecord, IngestionInv
<1>5. \A j \in DOMAIN Observed(rec) : j < e.i
  BY <1>2, <1>3, EntryIsSafe DEF RecordWork
<1>6. RecordDone(e.page, rec, e.organization, e.version, e.unit, e.person, e.assignment, e.at)'
  <2>1. RecordDone(e.page, rec, e.organization, e.version, e.unit, e.person, e.assignment, e.at)
    BY <1>2, <1>3, <1>5 DEF RecordDone, RecordWork, PageWork
  <2> QED BY <2>1, <1>4, RecordLasts
<1>7. PICK d : d = [page |-> e.page, n |-> e.n, version |-> e.version, at |-> e.at,
                    person |-> e.person, assignment |-> e.assignment]
  OBVIOUS
<1>8. ingested' = [ingested EXCEPT !.records = @ \cup {d}]
  BY <1>1, <1>7 DEF NextRecord, Page
<1>9. DoneHolds(d)'
  BY <1>3, <1>6, <1>7 DEF DoneHolds
<1>10. HistoryHolds'
  <2>1. \A x \in ingested.records : DoneHolds(x)'
    BY <1>4, RecordLasts DEF IngestionInv, HistoryHolds, DoneHolds
  <2>2. \A x \in ingested.pages : Complete(x[1], x[2])'
    BY <1>4, PassedLasts DEF IngestionInv, HistoryHolds, Complete, Lasting, DocumentsLast, VersionsLast
  <2>3. /\ DOMAIN ingested' = {"records", "pages"}
        /\ ingested'.records = ingested.records \cup {d} /\ ingested'.pages = ingested.pages
    BY <1>8 DEF IngestionInv, HistoryHolds
  <2> QED BY <2>1, <2>2, <2>3, <1>9 DEF HistoryHolds
<1>11. PICK f : f = [e EXCEPT !.pc = "renew", !.n = e.n + 1]
  OBVIOUS
<1>12. exec' = [exec EXCEPT ![w] = f]
  BY <1>1, <1>11 DEF NextRecord, PassOver
<1>13. /\ DOMAIN f = ExecFields /\ f.at = e.at /\ f.page = e.page /\ f.scope = e.scope /\ f.n = e.n + 1
       /\ f.version = e.version /\ f.pc = "renew"
  BY <1>3, <1>11 DEF ExecFields
<1>14. Passed(e.page, e.scope, e.n)'
  BY <1>3, <1>6 DEF Passed, RecordWork
<1>15. PageWork(e)'
  BY <1>2, <1>3, <1>4, WorkLasts DEF WorkHolds, InRecord
<1>16. \A k \in DOMAIN e.page.records : k < f.n => Passed(e.page, e.scope, k)'
  <2>1. \A k \in DOMAIN e.page.records : k \in Nat
    BY <1>3, RecordsAreNumbered
  <2>2. \A k \in DOMAIN e.page.records : k < e.n => Passed(e.page, e.scope, k)'
    BY <1>15 DEF PageWork
  <2> QED BY <2>1, <2>2, <1>3, <1>13, <1>14
<1>17. PageWork(f)'
  BY <1>3, <1>13, <1>15, <1>16 DEF PageWork
<1>18. WorkHolds(f)'
  BY <1>3, <1>13, <1>17 DEF WorkHolds, InRecord
<1>19. f.at <= now' /\ now <= now' /\ now' \in Nat
  BY <1>2, <1>3, <1>13
<1> QED BY <1>4, <1>10, <1>12, <1>18, <1>19, WorkerMoves

(* A page all of whose records were passed is complete.                     *)
LEMMA FinishKeeps ==
    ASSUME IngestionInv, NEW w \in Workers, Finish(w)
    PROVE  IngestionInv'
<1>1. PICK e : e = exec[w]
  OBVIOUS
<1>2. WorkHolds(e) /\ e.pc = "renew" /\ now' = now /\ e.n > Len(e.page.records)
  BY <1>1 DEF Finish, IngestionInv, At, Page
<1>3. PageWork(e) /\ e.page \in Pages
  BY <1>2 DEF WorkHolds, PageWork
<1>4. Tables' /\ Lasting
  BY NothingWritten DEF Finish, IngestionInv
<1>5. e.version # 0
  BY <1>2, <1>3, RecordsAreNumbered DEF PageWork
<1>6. \A k \in DOMAIN e.page.records : k < e.n
  BY <1>2, <1>3, RecordsAreNumbered DEF PageWork
<1>7. Complete(e.page, e.scope)
  BY <1>3, <1>5, <1>6 DEF PageWork, Complete, DocumentSeen, DocumentKnown
<1>8. \A x \in ingested.pages \cup {<<e.page, e.scope>>} : Complete(x[1], x[2])
  BY <1>7 DEF IngestionInv, HistoryHolds
<1>9. \A x \in ingested.pages \cup {<<e.page, e.scope>>} : Complete(x[1], x[2])'
  BY <1>4, <1>8, PassedLasts DEF Complete, Lasting, DocumentsLast, VersionsLast
<1>10. ingested' = [ingested EXCEPT !.pages = @ \cup {<<e.page, e.scope>>}]
  BY <1>1 DEF Finish, Page
<1>11. HistoryHolds'
  <2>1. \A x \in ingested.records : DoneHolds(x)'
    BY <1>4, RecordLasts DEF IngestionInv, HistoryHolds, DoneHolds
  <2>2. /\ DOMAIN ingested' = {"records", "pages"} /\ ingested'.records = ingested.records
        /\ ingested'.pages = ingested.pages \cup {<<e.page, e.scope>>}
    BY <1>10 DEF IngestionInv, HistoryHolds
  <2> QED BY <2>1, <2>2, <1>9 DEF HistoryHolds
<1>12. exec' = [exec EXCEPT ![w] = Idle]
  BY DEF Finish
<1> QED BY <1>2, <1>4, <1>11, <1>12, WorkerStops

(* A failing worker leaves what it wrote.                                  *)
LEMMA FailKeeps ==
    ASSUME IngestionInv, NEW w \in Workers, Fail(w)
    PROVE  IngestionInv'
<1>1. Tables' /\ Lasting
  BY NothingWritten DEF Fail, IngestionInv
<1>2. HistoryHolds'
  BY <1>1, HistoryLasts DEF Fail, IngestionInv
<1> QED BY <1>1, <1>2, WorkerStops DEF Fail

(* Nothing of this changes when a target is linked to an organization.      *)
LEMMA LinkKeeps ==
    ASSUME IngestionInv, UNCHANGED <<evidence, roster, exec, now, ingested>>
    PROVE  IngestionInv'
<1>1. Tables' /\ Lasting
  BY NothingWritten DEF IngestionInv
<1>2. HistoryHolds'
  BY <1>1, HistoryLasts DEF IngestionInv
<1>3. ASSUME NEW v \in Workers
      PROVE  \E e : e = exec'[v] /\ WorkHolds(e)' /\ e.at <= now'
  <2>1. PICK e : e = exec[v]
    OBVIOUS
  <2>2. WorkHolds(e) /\ e.at <= now
    BY <2>1 DEF IngestionInv
  <2>3. WorkHolds(e)'
    BY <2>2, <1>1, WorkLasts
  <2> QED BY <2>1, <2>2, <2>3
<1>4. \A v \in Workers : WorkHolds(exec[v])' /\ exec'[v].at <= now'
  BY <1>3
<1> QED BY <1>1, <1>2, <1>4 DEF IngestionInv

(* Nothing is written at first.                                             *)
LEMMA IngestionBegins == Init => IngestionInv
<1> SUFFICES ASSUME Init PROVE IngestionInv
  OBVIOUS
<1>1. DocumentsTable /\ UnitsTable /\ ContactsTable /\ IsFiniteSet(observations) /\ EmailsBelong /\ EmailsTable
  BY FS_EmptySet DEF Init, DocumentsTable, UnitsTable, ContactsTable, EmailsBelong, EmailsTable
<1>2. PeopleTable /\ AssignmentsTable
  BY FS_EmptySet DEF Init, PeopleTable, AssignmentsTable
<1>3. VersionsTable
  <2>1. \A url : VersionsOf(url) = {}
    BY DEF Init, VersionsOf
  <2>2. \A url : {v.number : v \in VersionsOf(url)} = {} /\ 1..Cardinality(VersionsOf(url)) = {}
    BY <2>1, FS_EmptySet
  <2> QED BY <2>2, FS_EmptySet DEF Init, VersionsTable
<1>4. HistoryHolds
  BY DEF Init, HistoryHolds
<1>5. WorkHolds(Idle) /\ Idle.at = 0
  BY DEF WorkHolds, Idle, ExecFields, InRecord
<1>6. DOMAIN exec = Workers /\ (\A w \in Workers : exec[w] = Idle) /\ now = 0
  BY DEF Init
<1> QED BY <1>1, <1>2, <1>3, <1>4, <1>5, <1>6 DEF IngestionInv, Tables

(* Every step keeps the ingestion invariant.                               *)
LEMMA IngestionStep ==
    ASSUME IngestionInv, [Next]_vars
    PROVE  IngestionInv'
<1>1. CASE UNCHANGED vars
  BY <1>1, LinkKeeps DEF vars
<1>2. CASE LinkOrganization
  BY <1>2, LinkKeeps DEF LinkOrganization
<1>3. ASSUME NEW w \in Workers, Fetch(w) \/ Write(w) \/ Fail(w)
      PROVE  IngestionInv'
  BY <1>3, FetchKeeps, RenewKeeps, DocumentKeeps, VersionKeeps, UnitKeeps, PersonKeeps, AssignmentKeeps,
     EmailKeeps, ContactKeeps, ObserveKeeps, NextRecordKeeps, FinishKeeps, FailKeeps DEF Write
<1> QED BY <1>1, <1>2, <1>3 DEF Next

(* The ingestion invariant holds always.                                   *)
LEMMA IngestionInvariant == Spec => []IngestionInv
<1>1. IngestionInv /\ [Next]_vars => IngestionInv'
  BY IngestionStep
<1> QED BY <1>1, IngestionBegins, PTL DEF Spec

----------------------------------------------------------------------------
(* What the invariant says.                                                 *)

(* The versions of a document are numbered from one without a gap or a      *)
(* double, each with a content of its own, although two workers may compute *)
(* the same number (recordDocumentVersion).                                 *)
THEOREM NumbersHaveNoGap == Spec => []VersionsNumbered
<1>1. ASSUME IngestionInv PROVE VersionsNumbered
  <2> SUFFICES ASSUME NEW d \in documents
               PROVE  LET own == VersionsOf(d.url) IN
                      /\ {v.number : v \in own} = 1..Cardinality(own)
                      /\ Cardinality({v.content : v \in own}) = Cardinality(own)
    BY DEF VersionsNumbered
  <2> DEFINE own == VersionsOf(d.url)
             contents == {v.content : v \in own}
             f == [v \in own |-> v.content]
  <2>1. VersionsTable
    BY <1>1 DEF IngestionInv, Tables
  <2>2. IsFiniteSet(own)
    BY <2>1, FS_Subset DEF VersionsTable, VersionsOf
  <2>3. \A u, v \in own : u.content = v.content => u = v
    BY <2>1 DEF VersionsTable, VersionsOf
  <2>4. {v.number : v \in own} = 1..Cardinality(own)
    BY <2>1 DEF VersionsTable
  <2> HIDE DEF own
  <2>5. f \in Surjection(own, contents)
    BY DEF Surjection
  <2>6. f \in Injection(own, contents)
    BY <2>3 DEF Injection, IsInjective
  <2> HIDE DEF f, contents
  <2>7. Cardinality(contents) = Cardinality(own)
    BY <2>2, <2>5, <2>6, FS_Surjection
  <2> QED BY <2>4, <2>7 DEF own, contents
<1> QED BY <1>1, IngestionInvariant, PTL

(* A record that was ingested to its end stays proved: its version, every   *)
(* observation of it about its person, its addresses and its assignment are *)
(* there, whoever ingests what else afterwards.                             *)
THEOREM RecordsStayProved == Spec => []EvidenceStands
<1>1. ASSUME IngestionInv PROVE EvidenceStands
  <2> SUFFICES ASSUME NEW d \in ingested.records, NEW rec, rec = EntryAt(d.page, d.n)
               PROVE
        /\ \E v \in versions : v.url = d.page.url /\ v.number = d.version /\ v.content = d.page.content
        /\ \A i \in DOMAIN Observed(rec) :
              \E o \in observations :
                 /\ o.url = d.page.url /\ o.version = d.version /\ o.key = rec.key
                 /\ o.person = d.person /\ o.field = Observed(rec)[i].field /\ o.raw = Observed(rec)[i].raw
        /\ \A i \in DOMAIN Kept(rec) :
              \E m \in emails : m.person = d.person /\ m.address = Kept(rec)[i].address
        /\ \E a \in assignments : a.id = d.assignment /\ a.person = d.person
    BY DEF EvidenceStands, EntryAt
  <2>1. PICK organization, unit :
           RecordDone(d.page, rec, organization, d.version, unit, d.person, d.assignment, d.at)
    BY <1>1 DEF IngestionInv, HistoryHolds, DoneHolds
  <2>2. \E v \in versions : v.url = d.page.url /\ v.number = d.version /\ v.content = d.page.content
    BY <2>1 DEF RecordDone, VersionKnown
  <2>3. ASSUME NEW i \in DOMAIN Observed(rec)
        PROVE  \E o \in observations :
                 /\ o.url = d.page.url /\ o.version = d.version /\ o.key = rec.key
                 /\ o.person = d.person /\ o.field = Observed(rec)[i].field /\ o.raw = Observed(rec)[i].raw
    BY <2>1 DEF RecordDone, FieldDone, ObservationKnown
  <2>4. ASSUME NEW i \in DOMAIN Kept(rec)
        PROVE  \E m \in emails : m.person = d.person /\ m.address = Kept(rec)[i].address
    BY <2>1 DEF RecordDone, EmailDone, EmailKnown
  <2>5. \E a \in assignments : a.id = d.assignment /\ a.person = d.person
    BY <2>1 DEF RecordDone, AssignmentDone, AssignmentKnown, AssignmentKey
  <2> QED BY <2>2, <2>3, <2>4, <2>5
<1> QED BY <1>1, IngestionInvariant, PTL

(* The window of a person, an assignment and an address covers every fetch  *)
(* they were ingested from, in whatever order workers write what they       *)
(* fetched; that of a document, a version, a unit and a contact point       *)
(* reaches as late as each (recordSourceDocument, upsertUnit and            *)
(* ingestPerson: the upserts of first_seen_at and last_seen_at).            *)
THEOREM SightingsAreCovered == Spec => []WindowsCover
<1>1. ASSUME IngestionInv, NEW d \in ingested.records, NEW rec, rec = EntryAt(d.page, d.n)
      PROVE
         /\ \A p \in people : p.id = d.person => p.first <= d.at /\ d.at <= p.last
         /\ \A m \in emails : m.person = d.person /\ (\E i \in DOMAIN Kept(rec) : Kept(rec)[i].address = m.address)
                                => m.first <= d.at /\ d.at <= m.last
         /\ \A x \in documents : x.url = d.page.url => d.at <= x.last
         /\ \A v \in versions : v.url = d.page.url /\ v.number = d.version => d.at <= v.last
         /\ \A a \in assignments : a.id = d.assignment =>
               /\ a.first <= d.at /\ d.at <= a.last
               /\ \A u \in units :
                     rec.department # None /\ u.organization = a.organization /\ u.name = Normalized[rec.department]
                     => d.at <= u.last
               /\ \A c \in contacts :
                     /\ Number(rec) # None
                     /\ <<c.person, c.organization, c.number>> = <<d.person, a.organization, Number(rec)>>
                     => d.at <= c.last
  <2>1. PICK organization, unit :
           RecordDone(d.page, rec, organization, d.version, unit, d.person, d.assignment, d.at)
    BY <1>1 DEF IngestionInv, HistoryHolds, DoneHolds
  <2>2. PICK p \in people : p.id = d.person /\ p.organization = organization /\ p.first <= d.at /\ d.at <= p.last
    BY <2>1 DEF RecordDone, PersonDone, PersonKnown
  <2>3. \A q \in people : q.id = d.person => q = p
    BY <1>1, <2>2 DEF IngestionInv, Tables, PeopleTable
  <2>4. \A a \in assignments : a.id = d.assignment =>
           a.organization = organization /\ a.first <= d.at /\ d.at <= a.last
    BY <1>1, <2>1 DEF IngestionInv, Tables, AssignmentsTable, RecordDone, AssignmentDone, AssignmentKnown,
                      AssignmentKey
  <2>5. ASSUME NEW m \in emails, m.person = d.person,
               NEW i \in DOMAIN Kept(rec), Kept(rec)[i].address = m.address
        PROVE  m.first <= d.at /\ d.at <= m.last
    <3>1. m.organization = organization
      BY <1>1, <2>2, <2>3, <2>5 DEF IngestionInv, Tables, EmailsBelong
    <3>2. PICK n \in emails : /\ n.person = d.person /\ n.organization = organization
                              /\ n.address = Kept(rec)[i].address /\ n.first <= d.at /\ d.at <= n.last
      BY <2>1, <2>5 DEF RecordDone, EmailDone, EmailKnown
    <3>3. n = m
      BY <1>1, <2>5, <3>1, <3>2 DEF IngestionInv, Tables, EmailsTable
    <3> QED BY <3>2, <3>3
  <2>6. \A v \in versions : v.url = d.page.url /\ v.number = d.version => d.at <= v.last
    BY <1>1, <2>1 DEF IngestionInv, Tables, VersionsTable, RecordDone, VersionKnown
  <2>7. \A x \in documents : x.url = d.page.url => d.at <= x.last
    BY <1>1, <2>1 DEF IngestionInv, Tables, DocumentsTable, RecordDone, DocumentSeen
  <2>8. \A u \in units :
           rec.department # None /\ u.organization = organization /\ u.name = Normalized[rec.department]
           => d.at <= u.last
    BY <1>1, <2>1 DEF IngestionInv, Tables, UnitsTable, RecordDone, UnitDone, UnitKnown
  <2>9. \A c \in contacts :
           Number(rec) # None /\ <<c.person, c.organization, c.number>> = <<d.person, organization, Number(rec)>>
           => d.at <= c.last
    BY <1>1, <2>1 DEF IngestionInv, Tables, ContactsTable, RecordDone, ContactDone, ContactKnown
  <2> QED BY <2>2, <2>3, <2>4, <2>5, <2>6, <2>7, <2>8, <2>9
<1>2. IngestionInv => WindowsCover
  BY <1>1 DEF WindowsCover, EntryAt
<1> QED BY <1>2, IngestionInvariant, PTL

----------------------------------------------------------------------------
(* What a step may not do.                                                  *)

LastSeenLater ==
    \A v \in versions : \E u \in versions' :
        [u EXCEPT !.last = 0] = [v EXCEPT !.last = 0] /\ u.last >= v.last

(* A version's last sighting only moves forward.                           *)
LEMMA VersionsSeenLater ==
    ASSUME IngestionInv, [Next]_vars
    PROVE  LastSeenLater
<1>1. CASE UNCHANGED versions
  BY <1>1 DEF LastSeenLater, IngestionInv, Tables, VersionsTable
<1>2. ASSUME NEW w \in Workers, RecordVersion(w) PROVE LastSeenLater
  <2>1. PICK e : e = exec[w]
    OBVIOUS
  <2>2. e.at \in Nat
    BY <2>1 DEF IngestionInv, WorkHolds
  <2> DEFINE old == {r \in versions : <<r.url, r.content>> = <<e.page.url, e.page.content>>}
             new == [url |-> e.page.url, content |-> e.page.content, number |-> e.next,
                     first |-> e.at, last |-> e.at]
  <2>3. \/ versions' = versions
        \/ versions' = versions \cup {new}
        \/ versions' = (versions \ old) \cup {SeenLast(r, e.at) : r \in old}
    BY <1>2, <2>1 DEF RecordVersion, Upsert, Page
  <2>4. ASSUME NEW v \in versions
        PROVE  LET u == SeenLast(v, e.at) IN [u EXCEPT !.last = 0] = [v EXCEPT !.last = 0] /\ u.last >= v.last
    <3>1. DOMAIN v = {"url", "content", "number", "first", "last"} /\ v.last \in Nat
      BY DEF IngestionInv, Tables, VersionsTable
    <3>2. PICK last \in Nat : SeenLast(v, e.at) = [v EXCEPT !.last = last] /\ last >= v.last
      BY <3>1, <2>2 DEF SeenLast
    <3> QED BY <3>1, <3>2
  <2>5. \A v \in versions : [v EXCEPT !.last = 0] = [v EXCEPT !.last = 0] /\ v.last >= v.last
    BY DEF IngestionInv, Tables, VersionsTable
  <2> HIDE DEF new
  <2>6. ASSUME NEW v \in versions
        PROVE  \E u \in versions' : [u EXCEPT !.last = 0] = [v EXCEPT !.last = 0] /\ u.last >= v.last
    <3>1. v \in versions' \/ SeenLast(v, e.at) \in versions'
      BY <2>3
    <3> QED BY <3>1, <2>4, <2>5
  <2> QED BY <2>6 DEF LastSeenLater
<1>3. CASE UNCHANGED vars
  BY <1>1, <1>3 DEF vars, evidence
<1>4. CASE Next
  BY <1>1, <1>2, <1>4, ZenonT(60) DEF Next, LinkOrganization, Write, Fetch, Renew, RecordDocument, UpsertUnit, UpsertPerson,
     UpsertAssignment, UpsertEmail, UpsertContact, Observe, NextRecord, Finish, Fail, evidence
<1> QED BY <1>3, <1>4

(* An address once written stays with its person.                          *)
LEMMA AddressesStay ==
    ASSUME IngestionInv, [Next]_vars
    PROVE  AddressesKept
<1>1. CASE UNCHANGED emails
  BY <1>1 DEF AddressesKept
<1>2. ASSUME NEW w \in Workers, UpsertEmail(w) PROVE AddressesKept
  <2>1. PICK e, address : e = exec[w] /\ address = Kept(Record(w))[e.i].address
    OBVIOUS
  <2>2. EmailsTable /\ e.at \in Nat
    BY <2>1 DEF IngestionInv, Tables, WorkHolds
  <2> QED BY <1>2, <2>1, <2>2, EmailsGrow
<1>3. CASE UNCHANGED vars
  BY <1>1, <1>3 DEF vars, roster
<1>4. CASE Next
  BY <1>1, <1>2, <1>4, ZenonT(60) DEF Next, LinkOrganization, Write, Fetch, Renew, RecordDocument, RecordVersion, UpsertUnit,
     UpsertPerson, UpsertAssignment, UpsertContact, Observe, NextRecord, Finish, Fail, roster
<1> QED BY <1>3, <1>4

(* An observation once written stays.                                      *)
LEMMA ObservationsStay ==
    ASSUME IngestionInv, [Next]_vars
    PROVE  observations \subseteq observations'
<1>1. ASSUME NEW w \in Workers, Observe(w) PROVE observations \subseteq observations'
  <2>1. IsFiniteSet(observations)
    BY DEF IngestionInv, Tables
  <2> QED BY <1>1, <2>1, ObservationsGrow
<1>2. CASE UNCHANGED vars
  BY <1>2 DEF vars, evidence
<1>3. CASE Next
  BY <1>1, <1>3, ZenonT(60) DEF Next, LinkOrganization, Write, Fetch, Renew, RecordDocument, RecordVersion, UpsertUnit,
     UpsertPerson, UpsertAssignment, UpsertEmail, UpsertContact, NextRecord, Finish, Fail, evidence
<1> QED BY <1>2, <1>3

(* An address that was published in plain text stays so, and neither        *)
(* evidence nor an address is taken back, by any step of any worker.        *)
THEOREM NothingIsTakenBack == Spec => PublishedStays
<1>1. IngestionInv /\ [Next]_vars =>
         [/\ \A m \in emails : \E n \in emails' :
               /\ <<n.person, n.organization, n.address>> = <<m.person, m.organization, m.address>>
               /\ n.class \in {m.class, "published"}
          /\ observations \subseteq observations'
          /\ \A v \in versions : \E u \in versions' :
               [u EXCEPT !.last = 0] = [v EXCEPT !.last = 0] /\ u.last >= v.last]_vars
  BY VersionsSeenLater, AddressesStay, ObservationsStay DEF LastSeenLater, AddressesKept
<1> QED BY <1>1, IngestionInvariant, PTL DEF Spec, PublishedStays

(* A record of a complete page is found in every table: what a worker that  *)
(* ingests it again looks up is what was written.                           *)
LEMMA ReplayFindsRecord ==
    ASSUME IngestionInv, NEW w \in Workers, exec[w].pc \in InRecord, NEW e, e = exec[w],
           NEW rec, rec = Record(w), Complete(e.page, e.scope)
    PROVE  \E version, unit, person, assignment, at :
              /\ RecordDone(e.page, rec, e.organization, version, unit, person, assignment, at)
              /\ version = e.version
              /\ e.pc # "unit" => unit = e.unit
              /\ e.pc \in {"assignment", "email", "observe"} => person = e.person
<1>1. /\ PageWork(e) /\ RecordWork(e) /\ rec = EntryAt(e.page, e.n) /\ e.n \in DOMAIN e.page.records
      /\ e.version # 0
  BY WorkerInRecord
<1>2. PICK version, unit, person, assignment, at :
         RecordDone(e.page, rec, e.organization, version, unit, person, assignment, at)
  BY <1>1 DEF Complete, Passed, RecordWork
<1>3. version = e.version
  BY <1>1, <1>2 DEF RecordDone, PageWork, VersionKnown, IngestionInv, Tables, VersionsTable
<1>4. ASSUME e.pc # "unit" PROVE unit = e.unit
  BY <1>1, <1>2, <1>4 DEF RecordDone, RecordWork, UnitDone, UnitKnown, IngestionInv, Tables, UnitsTable
<1>5. ASSUME e.pc \in {"assignment", "email", "observe"} PROVE person = e.person
  BY <1>1, <1>2, <1>5 DEF RecordDone, RecordWork, PersonDone, PersonKnown, IngestionInv, Tables, PeopleTable
<1> QED BY <1>2, <1>3, <1>4, <1>5

SameRows ==
    /\ Cardinality(documents') = Cardinality(documents) /\ Cardinality(versions') = Cardinality(versions)
    /\ Cardinality(units') = Cardinality(units) /\ Cardinality(people') = Cardinality(people)
    /\ Cardinality(assignments') = Cardinality(assignments) /\ Cardinality(emails') = Cardinality(emails)
    /\ Cardinality(contacts') = Cardinality(contacts)
    /\ Cardinality(observations') = Cardinality(observations)

(* A worker on a page that was ingested to its end adds no row.            *)
LEMMA ReplayAddsNoRow ==
    ASSUME IngestionInv, NEW w \in Workers, Complete(exec[w].page, exec[w].scope), Write(w) \/ Fail(w)
    PROVE  SameRows
<1>1. PICK e, rec : e = exec[w] /\ rec = Record(w)
  OBVIOUS
<1>2. Complete(e.page, e.scope) /\ WorkHolds(e) /\ Tables
  BY <1>1 DEF IngestionInv
<1>3. CASE Renew(w) \/ NextRecord(w) \/ Finish(w) \/ Fail(w)
  BY <1>3 DEF Renew, NextRecord, Finish, Fail, evidence, roster, SameRows
<1>4. CASE RecordDocument(w)
  <2>1. e.page.url = Page(w).url /\ DocumentKnown(e.page.url) /\ e.at \in Nat
    BY <1>1, <1>2 DEF Page, Complete, WorkHolds
  <2>2. Cardinality(documents') = Cardinality(documents)
    BY <1>1, <1>2, <1>4, <2>1, DocumentsGrow DEF Tables
  <2> QED BY <1>4, <2>2 DEF RecordDocument, roster, SameRows
<1>5. CASE RecordVersion(w)
  <2>1. \E v \in versions : v.url = e.page.url /\ v.content = e.page.content
    BY <1>2 DEF Complete, VersionKnown
  <2>2. e.at \in Nat /\ e.next \in Nat \ {0} /\ (e.next = 1 \/ NumberTaken(e.page.url, e.next - 1))
    BY <1>1, <1>2, <1>5 DEF RecordVersion, At, WorkHolds, PageWork
  <2>3. Cardinality(versions') = Cardinality(versions)
    BY <1>1, <1>2, <1>5, <2>1, <2>2, VersionsGrow DEF Tables
  <2> QED BY <1>5, <2>3 DEF RecordVersion, roster, SameRows
<1>6. ASSUME e.pc \in InRecord
      PROVE  /\ RecordWork(e) /\ e.at \in Nat /\ rec = EntryAt(e.page, e.n)
             /\ DOMAIN Kept(rec) = 1..Len(Kept(rec)) /\ Len(Kept(rec)) \in Nat
             /\ DOMAIN Observed(rec) = 1..Len(Observed(rec)) /\ Len(Observed(rec)) \in Nat
             /\ \E unit, person, assignment, at :
                  /\ RecordDone(e.page, rec, e.organization, e.version, unit, person, assignment, at)
                  /\ e.pc # "unit" => unit = e.unit
                  /\ e.pc \in {"assignment", "email", "observe"} => person = e.person
  <2>1. RecordWork(e) /\ e.at \in Nat /\ e.page \in Pages /\ e.n \in DOMAIN e.page.records /\ rec = EntryAt(e.page, e.n)
    BY <1>1, <1>6, WorkerInRecord
  <2>2. \E version, unit, person, assignment, at :
              /\ RecordDone(e.page, rec, e.organization, version, unit, person, assignment, at)
              /\ version = e.version
              /\ e.pc # "unit" => unit = e.unit
              /\ e.pc \in {"assignment", "email", "observe"} => person = e.person
    BY <1>1, <1>2, <1>6, ReplayFindsRecord
  <2> QED BY <2>1, <2>2, EntryIsSafe
<1>7. CASE UpsertUnit(w)
  <2>1. e.pc = "unit" /\ e.pc \in InRecord
    BY <1>1, <1>7 DEF UpsertUnit, At, InRecord
  <2>2. \E id, at : UnitKnown(e.organization, Normalized[rec.department], id, at)
    BY <1>6, <2>1 DEF RecordWork, RecordDone, UnitDone
  <2>3. Cardinality(units') = Cardinality(units)
    BY <1>1, <1>2, <1>6, <1>7, <2>1, <2>2, UnitsGrow DEF Tables
  <2> QED BY <1>7, <2>3 DEF UpsertUnit, evidence, SameRows
<1>8. CASE UpsertPerson(w)
  <2>1. e.pc = "person" /\ e.pc \in InRecord
    BY <1>1, <1>8 DEF UpsertPerson, At, InRecord
  <2>2. \E id, at : PersonKnown(e.organization, Identity[rec.name], id, at)
    BY <1>6, <2>1 DEF RecordDone, PersonDone
  <2>3. Cardinality(people') = Cardinality(people)
    BY <1>1, <1>2, <1>6, <1>8, <2>1, <2>2, PeopleGrow DEF Tables
  <2> QED BY <1>8, <2>3 DEF UpsertPerson, evidence, SameRows
<1>9. CASE UpsertAssignment(w)
  <2>1. e.pc = "assignment" /\ e.pc \in InRecord
    BY <1>1, <1>9 DEF UpsertAssignment, At, InRecord
  <2>2. \E id, at : AssignmentKnown(e.person, e.organization, e.unit, Normalized[rec.title], id, at)
    BY <1>6, <2>1 DEF RecordDone, AssignmentDone
  <2>3. PICK title : title = Normalized[rec.title]
    OBVIOUS
  <2>4. title = Normalized[Record(w).title] /\ AssignmentsTable
    BY <2>3, <1>1, <1>2 DEF Tables
  <2>5. Cardinality(assignments') = Cardinality(assignments)
    BY <1>1, <1>6, <1>9, <2>1, <2>2, <2>3, <2>4, AssignmentsGrow
  <2> QED BY <1>9, <2>5 DEF UpsertAssignment, evidence, SameRows
<1>10. CASE UpsertEmail(w)
  <2>1. e.pc = "email" /\ e.pc \in InRecord /\ e.i <= Len(Kept(rec))
    BY <1>1, <1>10 DEF UpsertEmail, At, InRecord
  <2>2. e.i \in DOMAIN Kept(rec)
    BY <1>6, <2>1 DEF RecordWork
  <2>3. PICK address : address = Kept(rec)[e.i].address
    OBVIOUS
  <2>4. \E at : EmailKnown(e.person, e.organization, address, at)
    BY <1>6, <2>1, <2>2, <2>3 DEF RecordDone, EmailDone
  <2>5. address = Kept(Record(w))[e.i].address /\ EmailsTable
    BY <2>3, <1>1, <1>2 DEF Tables
  <2>6. Cardinality(emails') = Cardinality(emails)
    BY <1>1, <1>6, <1>10, <2>1, <2>4, <2>5, EmailsGrow
  <2> QED BY <1>10, <2>6 DEF UpsertEmail, evidence, SameRows
<1>11. CASE UpsertContact(w)
  <2>1. e.pc = "email" /\ e.pc \in InRecord
    BY <1>1, <1>11 DEF UpsertContact, At, InRecord
  <2>2. \E at : ContactDone(rec, e.organization, e.person, at)
    BY <1>6, <2>1 DEF RecordDone
  <2>3. Cardinality(contacts') = Cardinality(contacts)
    BY <1>1, <1>2, <1>6, <1>11, <2>1, <2>2, ContactsGrow DEF Tables
  <2> QED BY <1>11, <2>3 DEF UpsertContact, evidence, SameRows
<1>12. CASE Observe(w)
  <2>1. e.pc = "observe" /\ e.pc \in InRecord /\ e.i <= Len(Observed(rec))
    BY <1>1, <1>12 DEF Observe, At, InRecord
  <2>2. e.i \in DOMAIN Observed(rec)
    BY <1>6, <2>1 DEF RecordWork
  <2>3. \E person : FieldDone(e.page, rec, e.version, person, e.i)
    BY <1>6, <2>1, <2>2 DEF RecordDone
  <2>4. Cardinality(observations') = Cardinality(observations)
    BY <1>1, <1>2, <1>12, <2>3, ObservationsGrow DEF Tables
  <2> QED BY <1>12, <2>4 DEF Observe, roster, SameRows
<1> QED BY <1>3, <1>4, <1>5, <1>7, <1>8, <1>9, <1>10, <1>11, <1>12 DEF Write

(* "Running the same collection twice converges on the same rows": once a   *)
(* page was ingested to its end, no step of any attempt at that page for    *)
(* the same organizations adds a row to any table, whatever was ingested,   *)
(* failed or was under way in between.                                      *)
THEOREM ReplayConverges == Spec => ReplayAddsNothing
<1>1. ASSUME IngestionInv, Next, NEW w \in Workers,
             <<exec[w].page, exec[w].scope>> \in ingested.pages, exec'[w].at = exec[w].at, exec'[w] # exec[w]
      PROVE  Rows' = Rows
  <2>1. Complete(exec[w].page, exec[w].scope)
    BY <1>1 DEF IngestionInv, HistoryHolds
  <2>2. PICK v \in Workers : Fetch(v) \/ Write(v) \/ Fail(v)
    BY <1>1 DEF Next, LinkOrganization
  <2>3. v = w
    <3>1. \E f : exec' = [exec EXCEPT ![v] = f]
      BY <2>2 DEF Write, Fetch, Renew, RecordDocument, RecordVersion, UpsertUnit, UpsertPerson,
         UpsertAssignment, UpsertEmail, UpsertContact, Observe, NextRecord, Finish, Fail
    <3> QED BY <3>1, <1>1 DEF IngestionInv
  <2>4. ~Fetch(w)
    <3>1. ASSUME Fetch(w) PROVE FALSE
      <4>1. PICK p, f :
               /\ f = [Idle EXCEPT !.pc = IF p.records = <<>> THEN "document" ELSE "renew",
                                   !.page = p, !.at = now + 1, !.scope = links]
               /\ exec' = [exec EXCEPT ![w] = f]
        BY <3>1 DEF Fetch
      <4>2. f.at = now + 1
        BY <4>1 DEF Idle
      <4>3. exec'[w] = f
        BY <4>1, <1>1 DEF IngestionInv
      <4>4. exec[w].at <= now /\ now \in Nat /\ exec[w].at \in Nat
        BY <1>1 DEF IngestionInv, WorkHolds
      <4> QED BY <4>2, <4>3, <4>4, <1>1
    <3> QED BY <3>1
  <2>5. SameRows
    BY <1>1, <2>1, <2>2, <2>3, <2>4, ReplayAddsNoRow
  <2> QED BY <2>5 DEF SameRows, Rows
<1>2. IngestionInv /\ [Next]_vars =>
         [\A w \in Workers :
            /\ <<exec[w].page, exec[w].scope>> \in ingested.pages
            /\ exec'[w].at = exec[w].at /\ exec'[w] # exec[w]
            => Rows' = Rows]_vars
  BY <1>1
<1> QED BY <1>2, IngestionInvariant, PTL DEF Spec, ReplayAddsNothing

(* Guessing addresses and having them validated changes nothing that was    *)
(* ingested: with it the specification is still that of ingestion, and      *)
(* what is proved of the one holds of the other.                            *)
THEOREM InferenceLeavesIngestion == CandidatesSpec => Spec
<1>1. CandidatesInit => Init
  BY DEF CandidatesInit
<1>2. [CandidatesNext]_<<ingestionVars, candidateVars>> => [Next]_vars
  <2>1. Inference => UNCHANGED vars
    <3>1. ASSUME NEW x, StartGeneration(x) \/ StartValidation(x) PROVE UNCHANGED vars
      BY <3>1 DEF StartGeneration, StartValidation, Begin, ingestionVars
    <3>2. ASSUME NEW x, Learn(x) \/ SelectTargets(x) \/ NextDomain(x) \/ ApplyResult(x) \/ EndPass(x)
          PROVE  UNCHANGED vars
      BY <3>2 DEF Learn, SelectTargets, NextDomain, ApplyResult, EndPass, ingestionVars
    <3>3. ASSUME NEW x, NEW y, InsertCandidate(x, y) PROVE UNCHANGED vars
      BY <3>3 DEF InsertCandidate, ingestionVars
    <3>4. ASSUME NEW x, NEW y, NEW z, RecordResult(x, y, z) PROVE UNCHANGED vars
      BY <3>4 DEF RecordResult, ingestionVars
    <3> QED BY <3>1, <3>2, <3>3, <3>4 DEF Inference
  <2>2. UNCHANGED <<ingestionVars, candidateVars>> => UNCHANGED vars
    BY DEF ingestionVars
  <2> QED BY <2>1, <2>2 DEF CandidatesNext
<1> QED BY <1>1, <1>2, PTL DEF CandidatesSpec, Spec

----------------------------------------------------------------------------
(* Setting up a database: what a run has behind it is on record.            *)
SetupSpec == SetupInit /\ [][SetupNext]_setupVars

----------------------------------------------------------------------------
(* The inductive invariant.  Until something is undone beside it, what a    *)
(* run read of the record still holds; what it has behind it is on record.  *)
RunnerFields == {"pc", "job", "files", "known", "tx", "rows", "since"}
Begun(me) == me.pc \in {"reading", "running", "seeding", "done"}
Up(me) == me.job.command # "rollback"
OnRecord(m) == m.version \in DOMAIN recorded /\ recorded[m.version] = m.sum
FilesGood(me) ==
    /\ me.job \in SetupCommands /\ me.files \in Seq(ToSet(me.job.checkout))
    /\ \A i, j \in DOMAIN me.files : me.files[i].version = me.files[j].version => i = j
    /\ me.pc = "reading" /\ Up(me) => ToSet(me.files) = ToSet(me.job.checkout)
    /\ me.pc \in {"seeding", "done"} /\ Up(me) => me.files = <<>>
KnownGood(me) ==
    me.pc = "running" /\ me.since = history.undone =>
        \A v \in DOMAIN me.known : v \in DOMAIN recorded /\ recorded[v] = me.known[v]
BehindGood(me) ==
    me.pc \in {"running", "seeding", "done"} /\ Up(me) /\ me.since = history.undone =>
        \A m \in ToSet(me.job.checkout) : m \in ToSet(me.files) \/ OnRecord(m)
Undisturbed(me) ==
    ~history.crossed /\ me.pc = "running" =>
        /\ ~Up(me) => \A i \in DOMAIN me.files : me.files[i].version \in DOMAIN me.known => me.files[i].version \in DOMAIN recorded
        /\ me.tx # None => IF Up(me) THEN me.tx.changes \/ Head(me.files).version \in schema ELSE me.tx.changes
RowsGood(me) ==
    /\ me.pc = "seeding" => \A row \in SeedRows(me.job.packs) : row \in me.rows \/ IsSeeded(row)
    /\ me.pc = "done" /\ me.job.command = "setup" => \A row \in SeedRows(me.job.packs) : IsSeeded(row)
RunnerGood(me) ==
    /\ DOMAIN me = RunnerFields /\ me.since \in Nat /\ me.since <= history.undone
    /\ Begun(me) => FilesGood(me) /\ BehindGood(me) /\ RowsGood(me) /\ Undisturbed(me)
    /\ KnownGood(me) /\ (me.pc \in {"unstarted", "reading"} => me.tx = None)
SetupInv ==
    /\ history \in [undone : Nat, crossed : BOOLEAN]
    /\ ~history.crossed => schema = DOMAIN recorded
    /\ DOMAIN runners = Runners
    /\ \A r \in Runners : RunnerGood(runners[r])

----------------------------------------------------------------------------
(* What every step adds to that undoes nothing.                             *)
Adds ==
    /\ history' = history
    /\ \A v \in DOMAIN recorded : v \in DOMAIN recorded' /\ recorded'[v] = recorded[v]
    /\ schema \subseteq schema' /\ DOMAIN reference \subseteq DOMAIN reference'

LEMMA RunnerStays ==
    ASSUME Adds, NEW me, RunnerGood(me)
    PROVE  RunnerGood(me)'
<1>1. \A m : OnRecord(m) => OnRecord(m)'
    BY DEF Adds, OnRecord
<1>2. \A row : IsSeeded(row) => IsSeeded(row)'
    BY DEF Adds, IsSeeded
<1>3. KnownGood(me)'
    BY DEF RunnerGood, KnownGood, Adds
<1>4. Begun(me) => FilesGood(me)'
    BY DEF RunnerGood, FilesGood, Up
<1>5. Begun(me) => BehindGood(me)'
    BY <1>1 DEF RunnerGood, BehindGood, Adds, Up
<1>6. Begun(me) => RowsGood(me)'
    BY <1>2 DEF RunnerGood, RowsGood
<1>7. Begun(me) => Undisturbed(me)'
    BY DEF RunnerGood, Undisturbed, Adds, Up
<1> QED BY <1>3, <1>4, <1>5, <1>6, <1>7 DEF RunnerGood, Adds, Begun

LEMMA OneRuns ==
    ASSUME SetupInv, Adds, NEW r \in Runners, NEW me, Put(r, me), RunnerGood(me)',
           ~history.crossed => schema' = DOMAIN recorded'
    PROVE  SetupInv'
<1>1. DOMAIN runners' = Runners /\ runners'[r] = me /\ \A q \in Runners : q # r => runners'[q] = runners[q]
    BY DEF Put, SetupInv
<1>2. ASSUME NEW q \in Runners PROVE RunnerGood(runners[q])'
  <2>1. CASE q = r
      BY <1>1, <2>1
  <2>2. CASE q # r
    <3>1. RunnerGood(runners[q])
        BY DEF SetupInv
    <3>2. \A x : RunnerGood(x) => RunnerGood(x)'
        BY RunnerStays
    <3> QED BY <1>1, <2>2, <3>1, <3>2
  <2> QED BY <2>1, <2>2
<1> QED BY <1>1, <1>2 DEF SetupInv, Adds

LEMMA OnlyRunnersAdds ==
    ASSUME SetupInv, OnlyRunners
    PROVE  Adds /\ (~history.crossed => schema' = DOMAIN recorded') /\ \A me : RunnerGood(me) => RunnerGood(me)'
<1>1. Adds
    BY DEF OnlyRunners, Adds
<1> QED BY <1>1, RunnerStays DEF OnlyRunners, SetupInv

LEMMA GoneIsGood ==
    ASSUME SetupInv
    PROVE  RunnerGood(Unstarted) /\ RunnerGood(Gone)
BY DEF SetupInv, RunnerGood, Unstarted, Gone, RunnerFields, Begun, KnownGood

----------------------------------------------------------------------------
(* The files before a run.                                                  *)

LEMMA ReversedFiles ==
    ASSUME NEW S, NEW s \in Seq(S)
    PROVE  /\ Reverse(s) \in Seq(S)
           /\ \A i \in DOMAIN Reverse(s) : Len(s) - i + 1 \in DOMAIN s /\ Reverse(s)[i] = s[Len(s) - i + 1]
<1>1. Reverse(s) = [i \in 1..Len(s) |-> s[(Len(s) - i) + 1]]
    BY DEF Reverse
<1>2. \A i \in 1..Len(s) : (Len(s) - i) + 1 \in 1..Len(s) /\ s[(Len(s) - i) + 1] \in S
    OBVIOUS
<1>3. Reverse(s) \in [1..Len(s) -> S]
    BY <1>1, <1>2
<1>4. Reverse(s) \in Seq(S)
    BY <1>3
<1> QED BY <1>1, <1>2, <1>4

LEMMA TailFiles ==
    ASSUME NEW S, NEW s \in Seq(S), s # <<>>
    PROVE  /\ Tail(s) \in Seq(S) /\ Head(s) = s[1] /\ 1 \in DOMAIN s
           /\ \A i \in DOMAIN Tail(s) : i + 1 \in DOMAIN s /\ Tail(s)[i] = s[i + 1]
           /\ \A m \in ToSet(s) : m = Head(s) \/ m \in ToSet(Tail(s))
<1>1. /\ Tail(s) \in Seq(S) /\ Head(s) = s[1] /\ 1 \in DOMAIN s /\ Len(Tail(s)) = Len(s) - 1
      /\ \A i \in DOMAIN Tail(s) : i + 1 \in DOMAIN s /\ Tail(s)[i] = s[i + 1]
    OBVIOUS
<1>2. ASSUME NEW i \in DOMAIN s, i # 1 PROVE i - 1 \in DOMAIN Tail(s) /\ Tail(s)[i - 1] = s[i]
    BY <1>1, <1>2
<1>3. ASSUME NEW m \in ToSet(s) PROVE m = Head(s) \/ m \in ToSet(Tail(s))
  <2>1. PICK i \in DOMAIN s : m = s[i]
      BY <1>3 DEF ToSet
  <2>2. CASE i = 1
      BY <1>1, <2>1, <2>2
  <2>3. CASE i # 1
      BY <1>2, <2>1, <2>3 DEF ToSet
  <2> QED BY <2>2, <2>3
<1> QED BY <1>1, <1>3

LEMMA StartGood ==
    ASSUME SetupInv, NEW r \in Runners, NEW job \in SetupCommands, Start(r, job)
    PROVE  SetupInv'
<1> DEFINE files == IF job.command = "rollback" THEN Reverse(job.checkout) ELSE job.checkout
<1> PICK me : me = [Unstarted EXCEPT !.pc = "reading", !.job = job, !.files = files]
    OBVIOUS
<1>1. Put(r, me) /\ OnlyRunners
    BY DEF Start
<1>2. /\ job.checkout \in Seq(ToSet(job.checkout))
      /\ \A i, j \in DOMAIN job.checkout : job.checkout[i].version = job.checkout[j].version => i = j
    BY SetupAssumption DEF IsInjective
<1>3. /\ files \in Seq(ToSet(job.checkout))
      /\ \A i, j \in DOMAIN files : files[i].version = files[j].version => i = j
      /\ job.command # "rollback" => ToSet(files) = ToSet(job.checkout)
  <2>1. CASE job.command # "rollback"
      BY <1>2, <2>1
  <2>2. CASE job.command = "rollback"
    <3>1. /\ Reverse(job.checkout) \in Seq(ToSet(job.checkout))
          /\ \A i \in DOMAIN Reverse(job.checkout) : Len(job.checkout) - i + 1 \in DOMAIN job.checkout
                 /\ Reverse(job.checkout)[i] = job.checkout[Len(job.checkout) - i + 1]
        BY <1>2, ReversedFiles
    <3>2. Len(job.checkout) \in Nat /\ DOMAIN Reverse(job.checkout) \subseteq Nat
        BY <1>2, <3>1
    <3>3. ASSUME NEW i \in DOMAIN Reverse(job.checkout), NEW j \in DOMAIN Reverse(job.checkout),
                 Reverse(job.checkout)[i].version = Reverse(job.checkout)[j].version
          PROVE  i = j
      <4>1. Len(job.checkout) - i + 1 = Len(job.checkout) - j + 1
          BY <1>2, <3>1, <3>3
      <4> QED BY <3>2, <4>1
    <3> QED BY <2>2, <3>1, <3>3
  <2> QED BY <2>1, <2>2
<1> HIDE DEF files
<1>4. /\ DOMAIN me = RunnerFields /\ me.pc = "reading" /\ me.job = job /\ me.files = files /\ me.since = 0 /\ me.tx = None
    BY DEF Unstarted, RunnerFields
<1>5. RunnerGood(me)
  <2>1. FilesGood(me)
      BY <1>3, <1>4 DEF FilesGood, Up
  <2> QED BY <1>4, <2>1 DEF SetupInv, RunnerGood, BehindGood, RowsGood, Undisturbed, KnownGood, Begun
<1> QED BY <1>1, <1>5, OneRuns, OnlyRunnersAdds

LEMMA ReadGood ==
    ASSUME SetupInv, NEW r \in Runners, AppliedMigrations(r)
    PROVE  SetupInv'
<1> PICK me : me = [runners[r] EXCEPT !.pc = "running", !.known = recorded, !.since = history.undone]
    OBVIOUS
<1>1. Put(r, me) /\ OnlyRunners /\ runners[r].pc = "reading" /\ RunnerGood(runners[r])
    BY DEF AppliedMigrations, SetupInv
<1>2. /\ DOMAIN me = RunnerFields /\ me.pc = "running" /\ me.job = runners[r].job /\ me.files = runners[r].files
      /\ me.since = history.undone /\ me.tx = None /\ me.known = recorded
    BY <1>1 DEF RunnerGood, RunnerFields
<1>3. FilesGood(me) /\ BehindGood(me)
    BY <1>1, <1>2 DEF RunnerGood, FilesGood, BehindGood, Begun, Up
<1>4. RunnerGood(me)
    BY <1>2, <1>3 DEF SetupInv, RunnerGood, RowsGood, Undisturbed, KnownGood, Begun
<1> QED BY <1>1, <1>4, OneRuns, OnlyRunnersAdds

(* What a runner that leaves its first file behind is like.                 *)
LEMMA PastFileParts ==
    ASSUME SetupInv, NEW r \in Runners, runners[r].pc = "running", runners[r].files # <<>>,
           NEW me, me = PastFile(r)
    PROVE  /\ DOMAIN me = RunnerFields /\ me.pc = "running" /\ me.job = runners[r].job /\ me.since = runners[r].since
           /\ me.known = runners[r].known /\ me.tx = None /\ me.rows = runners[r].rows
           /\ me.files = Tail(runners[r].files)
           /\ FilesGood(me) /\ RunnerGood(runners[r]) /\ FilesGood(runners[r])
           /\ \A m \in ToSet(runners[r].files) : m = File(r) \/ m \in ToSet(me.files)
           /\ \A i \in DOMAIN me.files : i + 1 \in DOMAIN runners[r].files /\ me.files[i] = runners[r].files[i + 1]
                  /\ me.files[i].version # File(r).version
<1>1. RunnerGood(runners[r]) /\ FilesGood(runners[r]) /\ DOMAIN runners[r] = RunnerFields
    BY DEF SetupInv, RunnerGood, Begun
<1>2. /\ DOMAIN me = RunnerFields /\ me.pc = "running" /\ me.job = runners[r].job /\ me.since = runners[r].since
      /\ me.known = runners[r].known /\ me.tx = None /\ me.rows = runners[r].rows
      /\ me.files = Tail(runners[r].files)
    BY <1>1 DEF PastFile, RunnerFields
<1>3. runners[r].files \in Seq(ToSet(runners[r].job.checkout))
    BY <1>1 DEF FilesGood
<1>4. /\ me.files \in Seq(ToSet(runners[r].job.checkout)) /\ File(r) = runners[r].files[1] /\ 1 \in DOMAIN runners[r].files
      /\ \A i \in DOMAIN me.files : i + 1 \in DOMAIN runners[r].files /\ me.files[i] = runners[r].files[i + 1]
      /\ \A m \in ToSet(runners[r].files) : m = File(r) \/ m \in ToSet(me.files)
  <2> DEFINE S == ToSet(runners[r].job.checkout)
             s == runners[r].files
  <2>1. s \in Seq(S) /\ s # <<>>
      BY <1>3
  <2> HIDE DEF S, s
  <2>2. /\ Tail(s) \in Seq(S) /\ Head(s) = s[1] /\ 1 \in DOMAIN s
        /\ \A i \in DOMAIN Tail(s) : i + 1 \in DOMAIN s /\ Tail(s)[i] = s[i + 1]
        /\ \A m \in ToSet(s) : m = Head(s) \/ m \in ToSet(Tail(s))
      BY <2>1, TailFiles
  <2>3. me.files = Tail(s) /\ File(r) = Head(s) /\ s = runners[r].files /\ S = ToSet(runners[r].job.checkout)
      BY <1>2 DEF File, s, S
  <2> QED BY <2>2, <2>3
<1>5. DOMAIN me.files \subseteq Nat \ {0}
    BY <1>4
<1>6. \A i \in DOMAIN me.files : me.files[i].version # File(r).version
  <2> SUFFICES ASSUME NEW i \in DOMAIN me.files, me.files[i].version = File(r).version PROVE FALSE
      OBVIOUS
  <2>1. i + 1 = 1
      BY <1>1, <1>4 DEF FilesGood
  <2> QED BY <1>5, <2>1
<1>7. ASSUME NEW i \in DOMAIN me.files, NEW j \in DOMAIN me.files, me.files[i].version = me.files[j].version
      PROVE  i = j
  <2>1. i + 1 = j + 1
      BY <1>1, <1>4, <1>7 DEF FilesGood
  <2> QED BY <1>5, <2>1
<1>8. FilesGood(me)
    BY <1>1, <1>2, <1>4, <1>7 DEF FilesGood
<1> QED BY <1>1, <1>2, <1>4, <1>6, <1>8

LEMMA SkipGood ==
    ASSUME SetupInv, NEW r \in Runners, Skip(r) \/ PassBy(r)
    PROVE  SetupInv'
<1> PICK me : me = PastFile(r)
    OBVIOUS
<1>1. /\ Put(r, me) /\ OnlyRunners /\ runners[r].pc = "running" /\ runners[r].files # <<>> /\ runners[r].tx = None
      /\ Up(runners[r]) => IsKnown(r) /\ runners[r].known[File(r).version] = File(r).sum
    BY DEF Skip, PassBy, Upward, Downward, Up
<1>2. /\ DOMAIN me = RunnerFields /\ me.pc = "running" /\ me.job = runners[r].job /\ me.since = runners[r].since
      /\ me.known = runners[r].known /\ me.tx = None
      /\ FilesGood(me) /\ RunnerGood(runners[r])
      /\ \A m \in ToSet(runners[r].files) : m = File(r) \/ m \in ToSet(me.files)
      /\ \A i \in DOMAIN me.files : i + 1 \in DOMAIN runners[r].files /\ me.files[i] = runners[r].files[i + 1]
    BY <1>1, PastFileParts
<1>3. BehindGood(me)
    BY <1>1, <1>2 DEF RunnerGood, Begun, BehindGood, KnownGood, OnRecord, Up, IsKnown
<1>4. Undisturbed(me)
    BY <1>1, <1>2 DEF RunnerGood, Begun, Undisturbed, Up
<1>5. RunnerGood(me)
    BY <1>1, <1>2, <1>3, <1>4 DEF RunnerGood, KnownGood, RowsGood, Begun
<1> QED BY <1>1, <1>5, OneRuns, OnlyRunnersAdds

LEMMA RunUpGood ==
    ASSUME SetupInv, NEW r \in Runners, RunUp(r) \/ RunDown(r)
    PROVE  SetupInv'
<1> PICK changes : changes = IF Up(runners[r]) THEN File(r).version \notin schema ELSE File(r).version \in schema
    OBVIOUS
<1> PICK tx : tx = [file |-> File(r), changes |-> changes]
    OBVIOUS
<1> PICK me : me = [runners[r] EXCEPT !.tx = tx]
    OBVIOUS
<1>1. /\ Put(r, me) /\ OnlyRunners /\ runners[r].pc = "running" /\ runners[r].files # <<>>
      /\ ~Up(runners[r]) => IsKnown(r)
    BY DEF RunUp, RunDown, Open, SeenOutside, Upward, Downward, Up, OnlyRunners
<1>2. RunnerGood(runners[r]) /\ FilesGood(runners[r]) /\ DOMAIN runners[r] = RunnerFields
    BY <1>1 DEF SetupInv, RunnerGood, Begun
<1>3. /\ DOMAIN me = RunnerFields /\ me.pc = "running" /\ me.job = runners[r].job /\ me.since = runners[r].since
      /\ me.known = runners[r].known /\ me.rows = runners[r].rows /\ me.files = runners[r].files
      /\ me.tx.changes = IF Up(me) THEN File(r).version \notin schema ELSE File(r).version \in schema
  <2>1. /\ DOMAIN me = RunnerFields /\ me.pc = "running" /\ me.job = runners[r].job /\ me.since = runners[r].since
        /\ me.known = runners[r].known /\ me.rows = runners[r].rows /\ me.files = runners[r].files /\ me.tx = tx
      BY <1>1, <1>2 DEF RunnerFields
  <2>2. tx.changes = changes
      OBVIOUS
  <2> QED BY <2>1, <2>2 DEF Up
<1>4. FilesGood(me) /\ BehindGood(me) /\ KnownGood(me) /\ RowsGood(me)
    BY <1>1, <1>2, <1>3 DEF RunnerGood, Begun, FilesGood, BehindGood, KnownGood, RowsGood, Up
<1>5. File(r) = me.files[1] /\ Head(me.files) = File(r) /\ 1 \in DOMAIN me.files
    BY <1>1, <1>2, <1>3, TailFiles DEF File, FilesGood
<1>6. ASSUME ~history.crossed, ~Up(me)
      PROVE  /\ \A i \in DOMAIN me.files : me.files[i].version \in DOMAIN me.known => me.files[i].version \in DOMAIN recorded
             /\ me.tx.changes
  <2>1. \A i \in DOMAIN me.files : me.files[i].version \in DOMAIN me.known => me.files[i].version \in DOMAIN recorded
      BY <1>1, <1>2, <1>3, <1>6 DEF RunnerGood, Begun, Undisturbed, Up
  <2>2. File(r).version \in DOMAIN me.known
      BY <1>1, <1>3, <1>6 DEF IsKnown, Up
  <2>3. File(r).version \in DOMAIN recorded
      BY <1>5, <2>1, <2>2
  <2> QED BY <1>3, <1>6, <2>1, <2>3 DEF SetupInv
<1>7. Undisturbed(me)
    BY <1>3, <1>5, <1>6 DEF Undisturbed
<1>8. RunnerGood(me)
    BY <1>2, <1>3, <1>4, <1>7 DEF RunnerGood, Begun
<1> QED BY <1>1, <1>8, OneRuns, OnlyRunnersAdds

LEMMA CommitUpGood ==
    ASSUME SetupInv, NEW r \in Runners, CommitUp(r)
    PROVE  SetupInv'
<1> PICK me : me = PastFile(r)
    OBVIOUS
<1> DEFINE v == File(r).version
<1>1. /\ Put(r, me) /\ runners[r].pc = "running" /\ runners[r].files # <<>> /\ runners[r].tx # None /\ Up(runners[r])
      /\ v \notin DOMAIN recorded /\ recorded' = Assigned(recorded, v, File(r).sum)
      /\ schema' = IF runners[r].tx.changes THEN schema \cup {v} ELSE schema
      /\ reference' = reference /\ history' = history
    BY DEF CommitUp, Upward, Up
<1>2. /\ DOMAIN me = RunnerFields /\ me.pc = "running" /\ me.job = runners[r].job /\ me.since = runners[r].since
      /\ me.known = runners[r].known /\ me.tx = None
      /\ FilesGood(me) /\ RunnerGood(runners[r])
      /\ \A m \in ToSet(runners[r].files) : m = File(r) \/ m \in ToSet(me.files)
    BY <1>1, PastFileParts
<1>3. Adds /\ (\A m : m = File(r) => OnRecord(m)') /\ DOMAIN recorded' = DOMAIN recorded \cup {v}
  <2>1. /\ DOMAIN recorded' = DOMAIN recorded \cup {v} /\ recorded'[v] = File(r).sum
        /\ \A w \in DOMAIN recorded : recorded'[w] = recorded[w]
      BY <1>1 DEF Assigned
  <2>2. ASSUME NEW m, m = File(r) PROVE OnRecord(m)'
      BY <2>1, <2>2 DEF OnRecord
  <2>3. Adds
      BY <1>1, <2>1 DEF Adds
  <2>4. \A m : m = File(r) => OnRecord(m)'
      BY <2>2
  <2> QED BY <2>1, <2>3, <2>4
<1>4. ~history.crossed => schema' = DOMAIN recorded'
  <2> SUFFICES ASSUME ~history.crossed PROVE schema' = DOMAIN recorded'
      OBVIOUS
  <2>1. schema = DOMAIN recorded
      BY DEF SetupInv
  <2>2. runners[r].tx.changes \/ v \in schema
      BY <1>1, <1>2 DEF RunnerGood, Begun, Undisturbed, File
  <2> QED BY <1>1, <1>3, <2>1, <2>2
<1>5. \A m : OnRecord(m) => OnRecord(m)'
    BY <1>3 DEF Adds, OnRecord
<1>6. BehindGood(me)'
  <2>1. ASSUME me.since = history.undone, NEW m \in ToSet(me.job.checkout)
        PROVE  m \in ToSet(me.files) \/ OnRecord(m)'
    <3>1. m \in ToSet(runners[r].files) \/ OnRecord(m)
        BY <1>1, <1>2, <2>1 DEF RunnerGood, Begun, BehindGood, Up
    <3>2. CASE m = File(r)
        BY <1>3, <3>2
    <3> QED BY <1>2, <1>5, <3>1, <3>2
  <2> QED BY <1>1, <2>1 DEF BehindGood
<1>7. KnownGood(runners[r]) /\ Up(me)
    BY <1>1, <1>2 DEF RunnerGood, Up
<1>8. KnownGood(me)'
    BY <1>1, <1>2, <1>3, <1>7 DEF KnownGood, Adds
<1>9. Undisturbed(me)' /\ RowsGood(me)' /\ FilesGood(me)'
    BY <1>2, <1>7 DEF Undisturbed, RowsGood, FilesGood, Up
<1>10. RunnerGood(me)'
    BY <1>1, <1>2, <1>6, <1>8, <1>9 DEF RunnerGood, Begun
<1> QED BY <1>1, <1>3, <1>4, <1>10, OneRuns

(* An undoing: whoever else is at work is crossed, and what a run read      *)
(* before it counts for nothing.                                            *)
LEMMA CommitDownGood ==
    ASSUME SetupInv, NEW r \in Runners, CommitDown(r)
    PROVE  SetupInv'
<1> PICK me : me = PastFile(r)
    OBVIOUS
<1> PICK v : v = File(r).version
    OBVIOUS
<1>1. /\ Put(r, me) /\ runners[r].pc = "running" /\ runners[r].files # <<>> /\ runners[r].tx # None /\ ~Up(runners[r])
      /\ recorded' = [w \in DOMAIN recorded \ {v} |-> recorded[w]]
      /\ schema' = IF runners[r].tx.changes THEN schema \ {v} ELSE schema
      /\ history' = [undone |-> history.undone + 1, crossed |-> history.crossed \/ \E q \in Runners \ {r} : AtWork(q)]
      /\ reference' = reference
    BY DEF CommitDown, Downward, Up
<1>2. /\ DOMAIN me = RunnerFields /\ me.pc = "running" /\ me.job = runners[r].job /\ me.since = runners[r].since
      /\ me.known = runners[r].known /\ me.tx = None
      /\ FilesGood(me) /\ RunnerGood(runners[r])
      /\ \A i \in DOMAIN me.files : i + 1 \in DOMAIN runners[r].files /\ me.files[i] = runners[r].files[i + 1]
             /\ me.files[i].version # File(r).version
    BY <1>1, PastFileParts
<1>3. /\ history \in [undone : Nat, crossed : BOOLEAN]
      /\ history' \in [undone : Nat, crossed : BOOLEAN] /\ history'.undone = history.undone + 1
      /\ history'.crossed = (history.crossed \/ \E q \in Runners \ {r} : AtWork(q))
  <2>1. history \in [undone : Nat, crossed : BOOLEAN]
      BY DEF SetupInv
  <2>2. history'.undone = history.undone + 1 /\ DOMAIN history' = {"undone", "crossed"}
      BY <1>1
  <2>3. history'.crossed = (history.crossed \/ \E q \in Runners \ {r} : AtWork(q))
      BY <1>1
  <2>4. history.undone + 1 \in Nat /\ (history.crossed \/ \E q \in Runners \ {r} : AtWork(q)) \in BOOLEAN
      BY <2>1
  <2> QED BY <1>1, <2>1, <2>2, <2>3, <2>4
<1>4. ASSUME NEW x, RunnerGood(x) PROVE x.since # history'.undone /\ x.since \in Nat /\ x.since <= history'.undone
    BY <1>3, <1>4 DEF RunnerGood
<1>5. DOMAIN recorded' = DOMAIN recorded \ {v}
    BY <1>1
<1>6. ~history'.crossed => schema' = DOMAIN recorded'
  <2> SUFFICES ASSUME ~history'.crossed PROVE schema' = DOMAIN recorded'
      OBVIOUS
  <2>1. schema = DOMAIN recorded /\ runners[r].tx.changes
      BY <1>1, <1>2, <1>3 DEF SetupInv, RunnerGood, Begun, Undisturbed
  <2> QED BY <1>1, <1>5, <2>1
<1>7. RunnerGood(me)'
  <2>1. Undisturbed(me)'
    <3>1. ASSUME ~history'.crossed, NEW i \in DOMAIN me.files, me.files[i].version \in DOMAIN me.known
          PROVE  me.files[i].version \in DOMAIN recorded'
      <4>1. me.files[i].version \in DOMAIN recorded
          BY <1>1, <1>2, <1>3, <3>1 DEF RunnerGood, Begun, Undisturbed
      <4> QED BY <1>2, <1>5, <4>1
    <3> QED BY <1>1, <1>2, <3>1 DEF Undisturbed, Up
  <2>2. FilesGood(me)'
      BY <1>2 DEF FilesGood, Up
  <2>3. me.since # history'.undone /\ me.since \in Nat /\ me.since <= history'.undone
      BY <1>2, <1>4
  <2> QED BY <1>2, <2>1, <2>2, <2>3 DEF RunnerGood, Begun, BehindGood, KnownGood, RowsGood
<1>8. ASSUME NEW q \in Runners, q # r PROVE RunnerGood(runners[q])'
  <2> PICK it : it = runners[q]
      OBVIOUS
  <2>1. runners'[q] = it /\ RunnerGood(it)
      BY <1>1, <1>8 DEF Put, SetupInv
  <2>2. it.since # history'.undone /\ it.since \in Nat /\ it.since <= history'.undone
      BY <1>4, <2>1
  <2>3. ~history'.crossed => it.pc # "running"
      BY <1>3, <1>8 DEF AtWork
  <2>4. Begun(it) => FilesGood(it)'
      BY <2>1 DEF RunnerGood, FilesGood, Up
  <2>5. Begun(it) => RowsGood(it)'
      BY <1>1, <2>1 DEF RunnerGood, RowsGood, IsSeeded
  <2>6. RunnerGood(it)'
      BY <2>1, <2>2, <2>3, <2>4, <2>5 DEF RunnerGood, Begun, BehindGood, KnownGood, Undisturbed
  <2> QED BY <2>1, <2>6
<1>9. DOMAIN runners' = Runners /\ runners'[r] = me
    BY <1>1 DEF Put, SetupInv
<1> QED BY <1>3, <1>6, <1>7, <1>8, <1>9 DEF SetupInv

(* The end of the run of the files, and the rows after it.                  *)
LEMMA EndRunGood ==
    ASSUME SetupInv, NEW r \in Runners, EndRun(r)
    PROVE  SetupInv'
<1> PICK me : me = IF runners[r].job.command = "setup"
                   THEN [runners[r] EXCEPT !.pc = "seeding", !.rows = SeedRows(runners[r].job.packs)]
                   ELSE [runners[r] EXCEPT !.pc = "done", !.known = <<>>]
    OBVIOUS
<1>1. /\ Put(r, me) /\ OnlyRunners /\ runners[r].pc = "running" /\ runners[r].tx = None
      /\ Up(runners[r]) => runners[r].files = <<>>
    BY DEF EndRun, Downward, Up
<1>2. RunnerGood(runners[r]) /\ FilesGood(runners[r]) /\ BehindGood(runners[r]) /\ DOMAIN runners[r] = RunnerFields
    BY <1>1 DEF SetupInv, RunnerGood, Begun
<1>3. /\ DOMAIN me = RunnerFields /\ me.pc \in {"seeding", "done"} /\ me.job = runners[r].job /\ me.since = runners[r].since
      /\ me.tx = None /\ me.files = runners[r].files
      /\ me.job.command = "setup" => me.pc = "seeding" /\ me.rows = SeedRows(me.job.packs)
      /\ me.job.command # "setup" => me.pc = "done"
    BY <1>1, <1>2 DEF RunnerFields
<1>4. FilesGood(me)
    BY <1>1, <1>2, <1>3 DEF FilesGood, Up
<1>5. BehindGood(me) /\ RowsGood(me)
    BY <1>1, <1>2, <1>3 DEF BehindGood, RowsGood, Up
<1>6. RunnerGood(me)
    BY <1>2, <1>3, <1>4, <1>5 DEF RunnerGood, KnownGood, Undisturbed, Begun
<1> QED BY <1>1, <1>6, OneRuns, OnlyRunnersAdds

LEMMA UpsertGood ==
    ASSUME SetupInv, NEW r \in Runners, NEW next, UpsertRow(r, next)
    PROVE  SetupInv'
<1> PICK me : me = [runners[r] EXCEPT !.rows = @ \ {next}]
    OBVIOUS
<1>1. /\ Put(r, me) /\ runners[r].pc = "seeding"
      /\ reference' = Assigned(reference, <<next.kind, next.row.code>>, next.row)
      /\ schema' = schema /\ recorded' = recorded /\ history' = history
    BY DEF UpsertRow
<1>2. RunnerGood(runners[r]) /\ FilesGood(runners[r]) /\ BehindGood(runners[r]) /\ DOMAIN runners[r] = RunnerFields
    BY <1>1 DEF SetupInv, RunnerGood, Begun
<1>3. /\ DOMAIN me = RunnerFields /\ me.pc = "seeding" /\ me.job = runners[r].job /\ me.since = runners[r].since
      /\ me.tx = runners[r].tx /\ me.files = runners[r].files /\ me.rows = runners[r].rows \ {next}
    BY <1>1, <1>2 DEF RunnerFields
<1>4. DOMAIN reference' = DOMAIN reference \cup {<<next.kind, next.row.code>>}
    BY <1>1 DEF Assigned
<1>5. Adds
    BY <1>1, <1>4 DEF Adds
<1>6. IsSeeded(next)' /\ \A row : IsSeeded(row) => IsSeeded(row)'
    BY <1>4 DEF IsSeeded
<1>7. RowsGood(me)'
    BY <1>1, <1>2, <1>3, <1>6 DEF RunnerGood, Begun, RowsGood
<1>8. FilesGood(me)' /\ BehindGood(me)'
    BY <1>1, <1>2, <1>3 DEF FilesGood, BehindGood, OnRecord, Up
<1>9. RunnerGood(me)'
    BY <1>1, <1>2, <1>3, <1>7, <1>8 DEF RunnerGood, KnownGood, Undisturbed, Begun
<1>10. ~history.crossed => schema' = DOMAIN recorded'
    BY <1>1 DEF SetupInv
<1> QED BY <1>1, <1>5, <1>9, <1>10, OneRuns

LEMMA FinishGood ==
    ASSUME SetupInv, NEW r \in Runners, FinishSeeding(r)
    PROVE  SetupInv'
<1> PICK me : me = [runners[r] EXCEPT !.pc = "done", !.known = <<>>]
    OBVIOUS
<1>1. Put(r, me) /\ OnlyRunners /\ runners[r].pc = "seeding" /\ runners[r].rows = {}
    BY DEF FinishSeeding
<1>2. RunnerGood(runners[r]) /\ FilesGood(runners[r]) /\ DOMAIN runners[r] = RunnerFields
    BY <1>1 DEF SetupInv, RunnerGood, Begun
<1>3. /\ DOMAIN me = RunnerFields /\ me.pc = "done" /\ me.job = runners[r].job /\ me.since = runners[r].since
      /\ me.files = runners[r].files
    BY <1>1, <1>2 DEF RunnerFields
<1>4. FilesGood(me) /\ BehindGood(me) /\ RowsGood(me)
    BY <1>1, <1>2, <1>3 DEF RunnerGood, Begun, FilesGood, BehindGood, RowsGood, Up
<1>5. RunnerGood(me)
    BY <1>2, <1>3, <1>4 DEF RunnerGood, KnownGood, Undisturbed, Begun
<1> QED BY <1>1, <1>5, OneRuns, OnlyRunnersAdds

LEMMA DeathGood ==
    ASSUME SetupInv, NEW r \in Runners, Refuse(r) \/ Dies(r)
    PROVE  SetupInv'
<1> PICK me : me = Gone
    OBVIOUS
<1>1. Put(r, me) /\ OnlyRunners /\ RunnerGood(me)
    BY GoneIsGood DEF Refuse, Dies
<1> QED BY <1>1, OneRuns, OnlyRunnersAdds

(* What the versions on record are, and what a run that ended well finds;   *)
(* whoever else migrates, undoes or seeds, and wherever anybody died.       *)
THEOREM SetupsAreRecorded == SetupSpec => []SchemaIsRecorded
<1>1. SetupInit => SetupInv
  <2> SUFFICES ASSUME SetupInit PROVE SetupInv
      OBVIOUS
  <2>1. history.undone = 0 /\ history \in [undone : Nat, crossed : BOOLEAN]
      BY DEF SetupInit
  <2>2. RunnerGood(Unstarted)
      BY <2>1 DEF RunnerGood, Unstarted, RunnerFields, Begun, KnownGood
  <2> QED BY <2>1, <2>2 DEF SetupInit, SetupInv
<1>2. SetupInv /\ [SetupNext]_setupVars => SetupInv'
  <2> SUFFICES ASSUME SetupInv, [SetupNext]_setupVars PROVE SetupInv'
      OBVIOUS
  <2>1. CASE UNCHANGED setupVars
      BY <2>1 DEF setupVars, SetupInv, RunnerGood, FilesGood, BehindGood, KnownGood, RowsGood, Undisturbed, Begun, Up, OnRecord, IsSeeded
  <2>2. ASSUME NEW r \in Runners, NEW job \in SetupCommands, Start(r, job) PROVE SetupInv'
      BY <2>2, StartGood
  <2>3. ASSUME NEW r \in Runners, NEW next \in runners[r].rows, UpsertRow(r, next) PROVE SetupInv'
      BY <2>3, UpsertGood
  <2>4. ASSUME NEW r \in Runners,
               \/ AppliedMigrations(r) \/ Skip(r) \/ RunUp(r) \/ CommitUp(r) \/ PassBy(r) \/ RunDown(r)
               \/ CommitDown(r) \/ Refuse(r) \/ Dies(r) \/ EndRun(r) \/ FinishSeeding(r)
        PROVE  SetupInv'
      BY <2>4, ReadGood, SkipGood, RunUpGood, CommitUpGood, CommitDownGood, DeathGood, EndRunGood, FinishGood
  <2> QED BY <2>1, <2>2, <2>3, <2>4 DEF SetupNext
<1>3. SetupInv => SchemaIsRecorded
  <2> SUFFICES ASSUME SetupInv PROVE SchemaIsRecorded
      OBVIOUS
  <2>1. ASSUME NEW r \in Runners, runners[r].pc = "done", runners[r].job.command # "rollback", runners[r].since = history.undone
        PROVE  /\ \A m \in ToSet(runners[r].job.checkout) : OnRecord(m)
               /\ runners[r].job.command = "setup" => \A row \in SeedRows(runners[r].job.packs) : IsSeeded(row)
    <3>1. FilesGood(runners[r]) /\ BehindGood(runners[r]) /\ RowsGood(runners[r])
        BY <2>1 DEF SetupInv, RunnerGood, Begun
    <3>2. ToSet(runners[r].files) = {}
        BY <2>1, <3>1 DEF FilesGood, Up, ToSet
    <3> QED BY <2>1, <3>1, <3>2 DEF BehindGood, RowsGood, Up
  <2> QED BY <2>1 DEF SetupInv, SchemaIsRecorded, OnRecord
<1> QED BY <1>1, <1>2, <1>3, PTL DEF SetupSpec

----------------------------------------------------------------------------
(* Sector packs: an arrangement does not change another one's vocabulary.   *)
PacksSpec == PacksInit /\ [][PacksNext]_packVars

----------------------------------------------------------------------------
(* Choosing among the packs of an arrangement.                              *)

LEMMA Appended ==
    ASSUME NEW P, NEW s \in Seq(P), NEW x \in P
    PROVE  Append(s, x) \in Seq(P) /\ ToSet(Append(s, x)) = ToSet(s) \cup {x}
<1>1. Append(s, x) \in Seq(P) /\ Len(Append(s, x)) = Len(s) + 1 /\ Len(s) \in Nat
    OBVIOUS
<1>2. \A i \in 1..Len(s) : Append(s, x)[i] = s[i]
    OBVIOUS
<1>3. Append(s, x)[Len(s) + 1] = x
    OBVIOUS
<1>4. ToSet(s) = {s[i] : i \in 1..Len(s)} /\ ToSet(Append(s, x)) = {Append(s, x)[i] : i \in 1..(Len(s) + 1)}
    BY <1>1 DEF ToSet
<1> QED BY <1>1, <1>2, <1>3, <1>4

(* The packs of a set, one after the other.                                *)
Registering(f, a, those) ==
    /\ f[0] = <<>>
    /\ \A i \in 1..Len(a) : f[i] = (IF a[i] \in those THEN Append(f[i - 1], a[i]) ELSE f[i - 1])
    /\ Registered(a, those) = f[Len(a)]

LEMMA RegisteredBy ==
    ASSUME NEW P, NEW a \in Seq(P), NEW those
    PROVE  \E f \in [0..Len(a) -> Seq(P)] : Registering(f, a, those)
<1> DEFINE N == Len(a)
           start == <<>>
           U == Seq(P)
           Is(f) == f = [i \in 0..N |-> IF i = 0 THEN start ELSE (IF a[i] \in those THEN Append(f[i - 1], a[i]) ELSE f[i - 1])]
           next == [i \in 1..N |-> [r \in U |-> (IF a[i] \in those THEN Append(r, a[i]) ELSE r)]]
<1>1. Registered(a, those) = (CHOOSE f : Is(f))[N]
    BY DEF Registered
<1>2. N \in Nat /\ start \in U
    OBVIOUS
<1>3. \A i \in 1..N, r \in U : (IF a[i] \in those THEN Append(r, a[i]) ELSE r) \in U
    OBVIOUS
<1>4. next \in [1..N -> [U -> U]]
    BY <1>3
<1>5. \A i \in 1..N, r \in U : next[i][r] = (IF a[i] \in those THEN Append(r, a[i]) ELSE r)
    OBVIOUS
<1>6. \A i \in 0..N : i # 0 => i \in 1..N /\ i - 1 \in 0..N
    BY <1>2
<1> HIDE DEF next, U, N, start
<1>7. PICK g \in [0..N -> U] : Runs(g, N, start, next)
    BY <1>2, <1>4, Iteration
<1>8. Is(g)
  <2>1. \A i \in 0..N : (IF i = 0 THEN start ELSE next[i][g[i - 1]])
                        = (IF i = 0 THEN start ELSE (IF a[i] \in those THEN Append(g[i - 1], a[i]) ELSE g[i - 1]))
      BY <1>5, <1>6
  <2> QED BY <1>7, <2>1 DEF Runs
<1>9. PICK f : Is(f) /\ Registered(a, those) = f[N]
  <2> HIDE DEF Is
  <2> QED BY <1>1, <1>8
<1>10. f[0] = start /\ \A i \in 1..N : f[i] = (IF a[i] \in those THEN Append(f[i - 1], a[i]) ELSE f[i - 1])
  <2>1. f[0] = start
      BY <1>2, <1>9
  <2>2. ASSUME NEW i \in 1..N PROVE f[i] = (IF a[i] \in those THEN Append(f[i - 1], a[i]) ELSE f[i - 1])
    <3>1. i \in 0..N /\ i # 0
        BY <1>2
    <3>2. f[i] = IF i = 0 THEN start ELSE (IF a[i] \in those THEN Append(f[i - 1], a[i]) ELSE f[i - 1])
        BY <1>9, <3>1
    <3> QED BY <3>1, <3>2
  <2> QED BY <2>1, <2>2
<1> DEFINE S == {i \in 0..N : f[i] \in U}
<1>11. 0 \in S /\ \A i \in 1..N : i - 1 \in S => i \in S
  <2>1. \A i \in 1..N : i \in 0..N
      BY <1>2
  <2>2. 0 \in S
      BY <1>2, <1>10
  <2>3. ASSUME NEW i \in 1..N, i - 1 \in S PROVE i \in S
    <3>1. f[i - 1] \in U /\ f[i] = (IF a[i] \in those THEN Append(f[i - 1], a[i]) ELSE f[i - 1]) /\ i \in 0..N
        BY <1>10, <2>1, <2>3
    <3>2. (IF a[i] \in those THEN Append(f[i - 1], a[i]) ELSE f[i - 1]) \in U
        BY <1>3, <3>1
    <3> QED BY <3>1, <3>2
  <2> QED BY <2>2, <2>3
<1>12. \A i \in 0..N : i \in S
  <2> HIDE DEF S
  <2> QED BY <1>2, <1>11, UpTo
<1>13. f \in [0..N -> U]
    BY <1>9, <1>12
<1> QED BY <1>9, <1>10, <1>13 DEF Registering, U, N, start

LEMMA RegisteredAre ==
    ASSUME NEW P, NEW a \in Seq(P), NEW those
    PROVE  Registered(a, those) \in Seq(P) /\ ToSet(Registered(a, those)) = ToSet(a) \cap those
<1> DEFINE N == Len(a)
<1>1. PICK f \in [0..N -> Seq(P)] :
          /\ f[0] = <<>>
          /\ \A i \in 1..N : f[i] = IF a[i] \in those THEN Append(f[i - 1], a[i]) ELSE f[i - 1]
          /\ Registered(a, those) = f[N]
  <2>1. PICK f \in [0..N -> Seq(P)] : Registering(f, a, those)
      BY RegisteredBy
  <2> QED BY <2>1 DEF Registering
<1>2. N \in Nat /\ \A i \in 1..N : i \in 0..N /\ i - 1 \in 0..N /\ a[i] \in P
    OBVIOUS
<1>3. ToSet(a) = {a[j] : j \in 1..N}
    BY DEF ToSet
<1> HIDE DEF N
<1> DEFINE S == {i \in 0..N : ToSet(f[i]) = {a[j] : j \in 1..i} \cap those}
<1>4. 0 \in S
  <2>1. ToSet(f[0]) = {}
      BY <1>1 DEF ToSet
  <2> QED BY <1>2, <2>1
<1>5. ASSUME NEW i \in 1..N, i - 1 \in S PROVE i \in S
  <2>1. /\ f[i] = IF a[i] \in those THEN Append(f[i - 1], a[i]) ELSE f[i - 1]
        /\ f[i - 1] \in Seq(P) /\ a[i] \in P /\ i \in 0..N /\ i \in Nat /\ i - 1 \in Nat
      BY <1>1, <1>2
  <2>2. {a[j] : j \in 1..i} = {a[j] : j \in 1..(i - 1)} \cup {a[i]}
    <3>1. \A j : j \in 1..i <=> j \in 1..(i - 1) \/ j = i
        BY <2>1
    <3> QED BY <3>1
  <2>3. ToSet(f[i - 1]) = {a[j] : j \in 1..(i - 1)} \cap those
      BY <1>5
  <2>4. CASE a[i] \in those
    <3>1. ToSet(Append(f[i - 1], a[i])) = ToSet(f[i - 1]) \cup {a[i]}
        BY <2>1, Appended
    <3> QED BY <2>1, <2>2, <2>3, <2>4, <3>1
  <2>5. CASE a[i] \notin those
      BY <2>1, <2>2, <2>3, <2>5
  <2> QED BY <2>4, <2>5
<1>6. \A i \in 0..N : i \in S
  <2> HIDE DEF S
  <2> QED BY <1>2, <1>4, <1>5, UpTo
<1>7. N \in 0..N
    BY <1>2
<1> QED BY <1>1, <1>3, <1>6, <1>7

(* Where each pack of an arrangement stands among those registered.         *)
Places(k, a, S, b) ==
    /\ k[0] = 0 /\ k[Len(a)] = Len(b)
    /\ \A i \in 1..Len(a) : a[i] \in S => k[i] = k[i - 1] + 1 /\ b[k[i]] = a[i]
    /\ \A i \in 1..Len(a) : a[i] \notin S => k[i] = k[i - 1]

LEMMA RegisteredPlaces ==
    ASSUME NEW P, NEW a \in Seq(P), NEW S
    PROVE  \E k \in [0..Len(a) -> 0..Len(Registered(a, S))] : Places(k, a, S, Registered(a, S))
<1> DEFINE N == Len(a)
           b == Registered(a, S)
<1>1. PICK f \in [0..N -> Seq(P)] :
          /\ f[0] = <<>>
          /\ \A i \in 1..N : f[i] = IF a[i] \in S THEN Append(f[i - 1], a[i]) ELSE f[i - 1]
          /\ b = f[N]
  <2>1. PICK f \in [0..N -> Seq(P)] : Registering(f, a, S)
      BY RegisteredBy
  <2> QED BY <2>1 DEF Registering
<1>3. N \in Nat /\ \A i \in 1..N : i \in 0..N /\ i - 1 \in 0..N /\ a[i] \in P
    OBVIOUS
<1>4. b \in Seq(P)
    BY <1>1, <1>3
<1> HIDE DEF N, b
(* Every stage is a beginning of the last.                                  *)
<1>6. \A i \in 0..N : Len(f[i]) <= Len(b) /\ \A j \in 1..Len(f[i]) : b[j] = f[i][j]
  <2> DEFINE M == {i \in 0..N : \A k \in 0..i : Len(f[k]) <= Len(f[i]) /\ \A j \in 1..Len(f[k]) : f[k][j] = f[i][j]}
  <2>1. 0 \in M
      BY <1>3
  <2>2. ASSUME NEW i \in 1..N, i - 1 \in M PROVE i \in M
    <3>1. /\ f[i] = IF a[i] \in S THEN Append(f[i - 1], a[i]) ELSE f[i - 1]
          /\ f[i - 1] \in Seq(P) /\ a[i] \in P /\ i \in 0..N /\ i \in Nat
        BY <1>1, <1>3
    <3>2. Len(f[i - 1]) <= Len(f[i]) /\ \A j \in 1..Len(f[i - 1]) : f[i - 1][j] = f[i][j]
      <4>1. CASE f[i] = f[i - 1]
          BY <3>1, <4>1
      <4>2. CASE f[i] = Append(f[i - 1], a[i])
        <5>1. Len(Append(f[i - 1], a[i])) = Len(f[i - 1]) + 1 /\ Len(f[i - 1]) \in Nat
            BY <3>1
        <5> QED BY <3>1, <4>2, <5>1
      <4> QED BY <3>1, <4>1, <4>2
    <3>3. ASSUME NEW k \in 0..i PROVE Len(f[k]) <= Len(f[i]) /\ \A j \in 1..Len(f[k]) : f[k][j] = f[i][j]
      <4>1. CASE k = i
        <5>1. f[i] \in Seq(P)
            BY <3>1
        <5> QED BY <4>1, <5>1
      <4>2. CASE k # i
        <5>1. k \in 0..(i - 1) /\ k \in 0..N
            BY <1>3, <4>2
        <5>2. Len(f[k]) <= Len(f[i - 1]) /\ \A j \in 1..Len(f[k]) : f[k][j] = f[i - 1][j]
            BY <2>2, <5>1
        <5>3. f[k] \in Seq(P) /\ f[i] \in Seq(P) /\ f[i - 1] \in Seq(P)
            BY <1>3, <3>1, <5>1
        <5>4. Len(f[k]) \in Nat /\ Len(f[i]) \in Nat /\ Len(f[i - 1]) \in Nat
            BY <5>3
        <5> HIDE DEF M
        <5> QED BY <3>2, <5>2, <5>4
      <4> QED BY <4>1, <4>2
    <3> QED BY <3>1, <3>3
  <2>3. \A i \in 0..N : i \in M
    <3> HIDE DEF M
    <3> QED BY <1>3, <2>1, <2>2, UpTo
  <2>4. N \in 0..N /\ \A i \in 0..N : i \in 0..N
      BY <1>3
  <2>5. \A k \in 0..N : Len(f[k]) <= Len(f[N]) /\ \A j \in 1..Len(f[k]) : f[k][j] = f[N][j]
      BY <2>3, <2>4
  <2> HIDE DEF M
  <2> QED BY <1>1, <2>5
<1> DEFINE k == [i \in 0..N |-> Len(f[i])]
<1>7. k \in [0..N -> 0..Len(b)]
  <2>1. \A i \in 0..N : Len(f[i]) \in Nat /\ Len(b) \in Nat
      BY <1>1, <1>4
  <2> QED BY <1>6, <2>1
<1>8. k[0] = 0 /\ k[N] = Len(b)
    BY <1>1, <1>3
<1>9. ASSUME NEW i \in 1..N PROVE (a[i] \in S => k[i] = k[i - 1] + 1 /\ b[k[i]] = a[i]) /\ (a[i] \notin S => k[i] = k[i - 1])
  <2>1. /\ f[i] = IF a[i] \in S THEN Append(f[i - 1], a[i]) ELSE f[i - 1]
        /\ f[i - 1] \in Seq(P) /\ f[i] \in Seq(P) /\ a[i] \in P /\ i \in 0..N
        /\ k[i] = Len(f[i]) /\ k[i - 1] = Len(f[i - 1])
      BY <1>1, <1>3
  <2>2. CASE a[i] \notin S
      BY <2>1, <2>2
  <2>3. CASE a[i] \in S
    <3>1. f[i] = Append(f[i - 1], a[i]) /\ Len(f[i]) = Len(f[i - 1]) + 1 /\ f[i][Len(f[i])] = a[i] /\ Len(f[i - 1]) \in Nat
        BY <2>1, <2>3
    <3>2. b[Len(f[i])] = a[i]
      <4>1. Len(b) \in Nat
          BY <1>4
      <4>2. Len(f[i]) <= Len(b) /\ \A j \in 1..Len(f[i]) : b[j] = f[i][j]
          BY <1>6, <2>1
      <4>3. Len(f[i]) \in 1..Len(f[i])
          BY <3>1, <4>1, <4>2
      <4> QED BY <3>1, <4>2, <4>3
    <3> QED BY <2>1, <2>3, <3>1, <3>2
  <2> QED BY <2>2, <2>3
<1> HIDE DEF k
<1> QED BY <1>7, <1>8, <1>9 DEF Places, N, b

(* What is left out twice may be left out at once.                          *)
LEMMA RegisteredTwice ==
    ASSUME NEW P, NEW a \in Seq(P), NEW S, NEW T
    PROVE  Registered(Registered(a, S), T) = Registered(a, S \cap T)
<1> DEFINE N == Len(a)
           b == Registered(a, S)
<1>1. PICK k \in [0..N -> 0..Len(b)] :
          /\ k[0] = 0 /\ k[N] = Len(b)
          /\ \A i \in 1..N : a[i] \in S => k[i] = k[i - 1] + 1 /\ b[k[i]] = a[i]
          /\ \A i \in 1..N : a[i] \notin S => k[i] = k[i - 1]
  <2>1. PICK k \in [0..N -> 0..Len(b)] : Places(k, a, S, b)
      BY RegisteredPlaces
  <2> QED BY <2>1 DEF Places
<1>2. PICK g \in [0..N -> Seq(P)] :
          /\ g[0] = <<>>
          /\ \A i \in 1..N : g[i] = IF a[i] \in S \cap T THEN Append(g[i - 1], a[i]) ELSE g[i - 1]
          /\ Registered(a, S \cap T) = g[N]
  <2>1. PICK g \in [0..N -> Seq(P)] : Registering(g, a, S \cap T)
      BY RegisteredBy
  <2> QED BY <2>1 DEF Registering
<1>3. N \in Nat /\ \A i \in 1..N : i \in 0..N /\ i - 1 \in 0..N /\ a[i] \in P
    OBVIOUS
<1>4. b \in Seq(P)
    BY RegisteredAre
<1> HIDE DEF N, b
<1>5. PICK h \in [0..Len(b) -> Seq(P)] :
          /\ h[0] = <<>>
          /\ \A i \in 1..Len(b) : h[i] = IF b[i] \in T THEN Append(h[i - 1], b[i]) ELSE h[i - 1]
          /\ Registered(b, T) = h[Len(b)]
  <2>1. PICK h \in [0..Len(b) -> Seq(P)] : Registering(h, b, T)
      BY <1>4, RegisteredBy
  <2> QED BY <2>1 DEF Registering
<1> DEFINE Q == {i \in 0..N : h[k[i]] = g[i]}
<1>7. 0 \in Q
    BY <1>1, <1>2, <1>3, <1>5
<1>8. ASSUME NEW i \in 1..N, i - 1 \in Q PROVE i \in Q
  <2>1. /\ a[i] \in S => k[i] = k[i - 1] + 1 /\ b[k[i]] = a[i]
        /\ a[i] \notin S => k[i] = k[i - 1]
        /\ g[i] = IF a[i] \in S \cap T THEN Append(g[i - 1], a[i]) ELSE g[i - 1]
        /\ i \in 0..N /\ h[k[i - 1]] = g[i - 1]
        /\ k[i] \in 0..Len(b) /\ k[i - 1] \in 0..Len(b) /\ Len(b) \in Nat
    <3>1. i \in 0..N /\ i - 1 \in 0..N /\ Len(b) \in Nat
        BY <1>3, <1>4
    <3>2. k[i] \in 0..Len(b) /\ k[i - 1] \in 0..Len(b) /\ h[k[i - 1]] = g[i - 1]
        BY <1>1, <1>8, <3>1
    <3> QED BY <1>1, <1>2, <3>1, <3>2
  <2>2. CASE a[i] \notin S
      BY <2>1, <2>2
  <2>3. CASE a[i] \in S
    <3>1. k[i] \in 1..Len(b) /\ k[i] - 1 = k[i - 1] /\ b[k[i]] = a[i]
        BY <2>1, <2>3
    <3>3. h[k[i]] = IF b[k[i]] \in T THEN Append(h[k[i] - 1], b[k[i]]) ELSE h[k[i] - 1]
        BY <1>5, <3>1
    <3>4. g[i] = IF a[i] \in T THEN Append(g[i - 1], a[i]) ELSE g[i - 1]
        BY <2>1, <2>3
    <3>5. h[k[i]] = g[i]
        BY <2>1, <3>1, <3>3, <3>4
    <3> QED BY <2>1, <3>5
  <2> QED BY <2>2, <2>3
<1>9. \A i \in 0..N : i \in Q
  <2> HIDE DEF Q
  <2> QED BY <1>3, <1>7, <1>8, UpTo
<1>10. h[k[N]] = g[N]
    BY <1>3, <1>9
<1> QED BY <1>1, <1>2, <1>5, <1>10 DEF b

LEMMA RegisteredAlike ==
    ASSUME NEW P, NEW a \in Seq(P), NEW S, NEW T, ToSet(a) \cap S = ToSet(a) \cap T
    PROVE  Registered(a, S) = Registered(a, T)
<1>1. \A i \in 1..Len(a) : a[i] \in S <=> a[i] \in T
    BY DEF ToSet
<1> DEFINE N == Len(a)
<1>2. PICK f \in [0..N -> Seq(P)] :
          /\ f[0] = <<>>
          /\ \A i \in 1..N : f[i] = IF a[i] \in S THEN Append(f[i - 1], a[i]) ELSE f[i - 1]
          /\ Registered(a, S) = f[N]
  <2>1. PICK f \in [0..N -> Seq(P)] : Registering(f, a, S)
      BY RegisteredBy
  <2> QED BY <2>1 DEF Registering
<1>3. PICK g \in [0..N -> Seq(P)] :
          /\ g[0] = <<>>
          /\ \A i \in 1..N : g[i] = IF a[i] \in T THEN Append(g[i - 1], a[i]) ELSE g[i - 1]
          /\ Registered(a, T) = g[N]
  <2>1. PICK g \in [0..N -> Seq(P)] : Registering(g, a, T)
      BY RegisteredBy
  <2> QED BY <2>1 DEF Registering
<1>4. N \in Nat /\ \A i \in 1..N : i \in 0..N
    OBVIOUS
<1> HIDE DEF N
<1> DEFINE Q == {i \in 0..N : f[i] = g[i]}
<1>5. 0 \in Q
    BY <1>2, <1>3, <1>4
<1>6. ASSUME NEW i \in 1..N, i - 1 \in Q PROVE i \in Q
  <2>1. /\ f[i] = IF a[i] \in S THEN Append(f[i - 1], a[i]) ELSE f[i - 1]
        /\ g[i] = IF a[i] \in T THEN Append(g[i - 1], a[i]) ELSE g[i - 1]
        /\ f[i - 1] = g[i - 1] /\ i \in 0..N /\ (a[i] \in S <=> a[i] \in T)
      BY <1>1, <1>2, <1>3, <1>4, <1>6 DEF N
  <2>2. f[i] = g[i]
      BY <2>1
  <2> QED BY <2>1, <2>2
<1>7. \A i \in 0..N : i \in Q
  <2> HIDE DEF Q
  <2> QED BY <1>4, <1>5, <1>6, UpTo
<1> QED BY <1>2, <1>3, <1>4, <1>7

----------------------------------------------------------------------------
(* What the reference rows of an arrangement come to.                       *)

(* The rows of each pack over those before it.                             *)
Merging(f, a, kind) ==
    /\ f[0] = RowsByCode(Base.rows[kind])
    /\ \A i \in 1..Len(a) : f[i] = Over(RowsByCode(a[i].rows[kind]), f[i - 1])
    /\ Merged(a, kind) = f[Len(a)]

LEMMA MergedBy ==
    ASSUME NEW P, NEW a \in Seq(P), NEW kind, NEW U, RowsByCode(Base.rows[kind]) \in U,
           \A i \in 1..Len(a), r \in U : Over(RowsByCode(a[i].rows[kind]), r) \in U
    PROVE  \E f \in [0..Len(a) -> U] : Merging(f, a, kind)
<1> DEFINE N == Len(a)
           start == RowsByCode(Base.rows[kind])
           Is(f) == f = [i \in 0..N |-> IF i = 0 THEN start ELSE Over(RowsByCode(a[i].rows[kind]), f[i - 1])]
           next == [i \in 1..N |-> [r \in U |-> Over(RowsByCode(a[i].rows[kind]), r)]]
<1>1. Merged(a, kind) = (CHOOSE f : Is(f))[N]
    BY DEF Merged
<1>2. N \in Nat /\ start \in U
    OBVIOUS
<1>3. \A i \in 1..N, r \in U : Over(RowsByCode(a[i].rows[kind]), r) \in U
    OBVIOUS
<1>4. next \in [1..N -> [U -> U]]
    BY <1>3
<1>5. \A i \in 1..N, r \in U : next[i][r] = Over(RowsByCode(a[i].rows[kind]), r)
    OBVIOUS
<1>6. \A i \in 0..N : i # 0 => i \in 1..N /\ i - 1 \in 0..N
    BY <1>2
<1> HIDE DEF next, N, start
<1>7. PICK g \in [0..N -> U] : Runs(g, N, start, next)
    BY <1>2, <1>4, Iteration
<1>8. Is(g)
  <2>1. \A i \in 0..N : (IF i = 0 THEN start ELSE next[i][g[i - 1]])
                        = (IF i = 0 THEN start ELSE Over(RowsByCode(a[i].rows[kind]), g[i - 1]))
      BY <1>5, <1>6
  <2> QED BY <1>7, <2>1 DEF Runs
<1>9. PICK f : Is(f) /\ Merged(a, kind) = f[N]
  <2> HIDE DEF Is
  <2> QED BY <1>1, <1>8
<1>10. f[0] = start /\ \A i \in 1..N : f[i] = Over(RowsByCode(a[i].rows[kind]), f[i - 1])
  <2>1. f[0] = start
      BY <1>2, <1>9
  <2>2. ASSUME NEW i \in 1..N PROVE f[i] = Over(RowsByCode(a[i].rows[kind]), f[i - 1])
    <3>1. i \in 0..N /\ i # 0
        BY <1>2
    <3>2. f[i] = IF i = 0 THEN start ELSE Over(RowsByCode(a[i].rows[kind]), f[i - 1])
        BY <1>9, <3>1
    <3> QED BY <3>1, <3>2
  <2> QED BY <2>1, <2>2
<1> DEFINE S == {i \in 0..N : f[i] \in U}
<1>11. 0 \in S /\ \A i \in 1..N : i - 1 \in S => i \in S
  <2>1. \A i \in 1..N : i \in 0..N
      BY <1>2
  <2>2. 0 \in S
      BY <1>2, <1>10
  <2>3. ASSUME NEW i \in 1..N, i - 1 \in S PROVE i \in S
    <3>1. f[i - 1] \in U /\ f[i] = Over(RowsByCode(a[i].rows[kind]), f[i - 1]) /\ i \in 0..N
        BY <1>10, <2>1, <2>3
    <3>2. Over(RowsByCode(a[i].rows[kind]), f[i - 1]) \in U
        BY <1>3, <3>1
    <3> QED BY <3>1, <3>2
  <2> QED BY <2>2, <2>3
<1>12. \A i \in 0..N : i \in S
  <2> HIDE DEF S
  <2> QED BY <1>2, <1>11, UpTo
<1>13. f \in [0..N -> U]
    BY <1>9, <1>12
<1> QED BY <1>9, <1>10, <1>13 DEF Merging, N, start

(* Every code that the base or a pack defines has the row of the last pack  *)
(* that defines it, or the base's if no pack does.                          *)
Defines(pack, kind, code) == code \in DOMAIN RowsByCode(pack.rows[kind])
Row(pack, kind, code) == RowsByCode(pack.rows[kind])[code]
LastDefines(a, n, i, kind, code) ==
    i \in 1..n /\ Defines(a[i], kind, code) /\ \A j \in 1..n : Defines(a[j], kind, code) => j <= i
MergedTo(m, a, n, kind) ==
    /\ \A code : code \in DOMAIN m <=> Defines(Base, kind, code) \/ \E i \in 1..n : Defines(a[i], kind, code)
    /\ \A code \in DOMAIN m :
          \/ \E i : LastDefines(a, n, i, kind, code) /\ m[code] = Row(a[i], kind, code)
          \/ (\A i \in 1..n : ~Defines(a[i], kind, code)) /\ m[code] = Row(Base, kind, code)

LEMMA MergedStages ==
    ASSUME NEW P, NEW a \in Seq(P), NEW kind
    PROVE  \E U : \E f \in [0..Len(a) -> U] : Merging(f, a, kind)
<1> DEFINE packs2 == {Base} \cup P
           C == UNION {DOMAIN RowsByCode(x.rows[kind]) : x \in packs2}
           V == UNION {{RowsByCode(x.rows[kind])[c] : c \in DOMAIN RowsByCode(x.rows[kind])} : x \in packs2}
           U == UNION {[D -> V] : D \in SUBSET C}
<1>1. ASSUME NEW x \in packs2 PROVE RowsByCode(x.rows[kind]) \in U
  <2> DEFINE g == RowsByCode(x.rows[kind])
  <2>1. g = [c \in DOMAIN g |-> g[c]]
      BY DEF RowsByCode
  <2>2. DOMAIN g \in SUBSET C
      OBVIOUS
  <2>3. ASSUME NEW c \in DOMAIN g PROVE g[c] \in V
    <3>1. g[c] \in {RowsByCode(x.rows[kind])[d] : d \in DOMAIN RowsByCode(x.rows[kind])}
        OBVIOUS
    <3> HIDE DEF g
    <3> QED BY <3>1
  <2> HIDE DEF g, C, V
  <2>4. g \in [DOMAIN g -> V]
      BY <2>1, <2>3
  <2>5. g \in U
      BY <2>2, <2>4
  <2> QED BY <2>5 DEF g
<1>2. \A i \in 1..Len(a) : a[i] \in packs2
    OBVIOUS
<1>3. ASSUME NEW later \in U, NEW r \in U PROVE Over(later, r) \in U
  <2> HIDE DEF C, V
  <2>1. PICK D \in SUBSET C : later \in [D -> V]
      OBVIOUS
  <2>2. PICK E \in SUBSET C : r \in [E -> V]
      OBVIOUS
  <2>3. Over(later, r) \in [D \cup E -> V]
      BY <2>1, <2>2 DEF Over
  <2> QED BY <2>3
<1>4. Base \in packs2
    OBVIOUS
<1> HIDE DEF U, packs2
<1>5. RowsByCode(Base.rows[kind]) \in U /\ \A i \in 1..Len(a), r \in U : Over(RowsByCode(a[i].rows[kind]), r) \in U
    BY <1>1, <1>2, <1>3, <1>4
<1> QED BY <1>5, MergedBy

LEMMA MergedOf ==
    ASSUME NEW P, NEW a \in Seq(P), NEW kind
    PROVE  MergedTo(Merged(a, kind), a, Len(a), kind)
<1> DEFINE N == Len(a)
<1>1. PICK U : \E f \in [0..N -> U] : Merging(f, a, kind)
    BY MergedStages
<1>2. PICK f \in [0..N -> U] :
          /\ f[0] = RowsByCode(Base.rows[kind])
          /\ \A i \in 1..N : f[i] = Over(RowsByCode(a[i].rows[kind]), f[i - 1])
          /\ Merged(a, kind) = f[N]
    BY <1>1 DEF Merging
<1>3. N \in Nat
    OBVIOUS
<1> HIDE DEF N
<1> DEFINE S == {i \in 0..N : MergedTo(f[i], a, i, kind)}
<1>4. 0 \in S
  <2>1. \A j : j \notin 1..0
      OBVIOUS
  <2>2. MergedTo(f[0], a, 0, kind)
      BY <1>2, <2>1 DEF MergedTo, Defines, Row
  <2> QED BY <1>3, <2>2
<1>5. ASSUME NEW n \in 1..N, n - 1 \in S PROVE n \in S
  <2> DEFINE later == RowsByCode(a[n].rows[kind])
             before == f[n - 1]
  <2>1. n \in 0..N /\ n \in Nat /\ n \in 1..n /\ \A i : i \in 1..n <=> i \in 1..(n - 1) \/ i = n
      BY <1>3
  <2>2. MergedTo(before, a, n - 1, kind)
      BY <1>5
  <2>3. f[n] = Over(later, before)
      BY <1>2
  <2>4. DOMAIN f[n] = DOMAIN later \cup DOMAIN before
      BY <2>3 DEF Over
  <2>5. \A code \in DOMAIN f[n] : f[n][code] = IF code \in DOMAIN later THEN later[code] ELSE before[code]
      BY <2>3 DEF Over
  <2>6. \A code : Defines(a[n], kind, code) <=> code \in DOMAIN later
      BY DEF Defines
  <2>7. \A code : Row(a[n], kind, code) = later[code]
      BY DEF Row
  <2> HIDE DEF later, before
  <2>8. ASSUME NEW code
        PROVE  code \in DOMAIN f[n] <=> Defines(Base, kind, code) \/ \E i \in 1..n : Defines(a[i], kind, code)
      BY <2>1, <2>2, <2>4, <2>6 DEF MergedTo
  <2>9. ASSUME NEW code \in DOMAIN f[n]
        PROVE  \/ \E i : LastDefines(a, n, i, kind, code) /\ f[n][code] = Row(a[i], kind, code)
               \/ (\A i \in 1..n : ~Defines(a[i], kind, code)) /\ f[n][code] = Row(Base, kind, code)
    <3>1. CASE code \in DOMAIN later
      <4>1. LastDefines(a, n, n, kind, code)
          BY <2>1, <2>6, <3>1 DEF LastDefines
      <4> QED BY <2>5, <2>7, <3>1, <4>1
    <3>2. CASE code \notin DOMAIN later
      <4>1. code \in DOMAIN before /\ f[n][code] = before[code] /\ ~Defines(a[n], kind, code)
          BY <2>4, <2>5, <2>6, <3>2
      <4>2. \/ \E i : LastDefines(a, n - 1, i, kind, code) /\ before[code] = Row(a[i], kind, code)
            \/ (\A i \in 1..(n - 1) : ~Defines(a[i], kind, code)) /\ before[code] = Row(Base, kind, code)
          BY <2>2, <4>1 DEF MergedTo
      <4>3. \A i : LastDefines(a, n - 1, i, kind, code) => LastDefines(a, n, i, kind, code)
          BY <2>1, <4>1 DEF LastDefines
      <4> QED BY <2>1, <4>1, <4>2, <4>3
    <3> QED BY <3>1, <3>2
  <2>10. MergedTo(f[n], a, n, kind)
      BY <2>8, <2>9 DEF MergedTo
  <2> QED BY <2>1, <2>10
<1>6. \A i \in 0..N : i \in S
  <2> HIDE DEF S
  <2> QED BY <1>3, <1>4, <1>5, UpTo
<1>7. N \in 0..N
    BY <1>3
<1> QED BY <1>2, <1>6, <1>7 DEF N

(* A pack whose arrangement does not collide says so where it replaces a row *)
(* of the base or of a pack before it.                                      *)
LEMMA ReplacesOpenly ==
    ASSUME NEW a, NEW i \in DOMAIN a, NEW kind \in Kinds, NEW code, ~Collides(a), Defines(a[i], kind, code),
           Defines(Base, kind, code) \/ \E j \in 1..(i - 1) : Defines(a[j], kind, code)
    PROVE  code \in a[i].overrides
<1>1. PICK row \in ToSet(a[i].rows[kind]) : row.code = code
    BY DEF Defines, RowsByCode
<1>2. DefinedBefore(a, i, kind, code)
    BY DEF DefinedBefore, Defines
<1>3. ~Overwrites(a, i, kind, row.code)
    BY <1>1 DEF Collides
<1> QED BY <1>1, <1>2, <1>3 DEF Overwrites

(* Two arrangements of the same packs define every code alike that no two   *)
(* packs override.                                                          *)
LEMMA OrdersAlike ==
    ASSUME NEW P, NEW a \in Seq(P), NEW b \in Seq(P), ToSet(a) = ToSet(b), ~Collides(a), ~Collides(b),
           NEW kind \in Kinds
    PROVE  /\ DOMAIN Merged(a, kind) = DOMAIN Merged(b, kind)
           /\ \A code \in DOMAIN Merged(a, kind) : Merged(a, kind)[code] # Merged(b, kind)[code] =>
                 \E p, q \in ToSet(a) : p # q /\ code \in p.overrides \cap q.overrides
<1> DEFINE here == Merged(a, kind)
           there == Merged(b, kind)
<1>1. MergedTo(here, a, Len(a), kind) /\ MergedTo(there, b, Len(b), kind)
    BY MergedOf
<1> HIDE DEF here, there
<1>2. \A p : (\E i \in 1..Len(a) : p = a[i]) <=> (\E i \in 1..Len(b) : p = b[i])
  <2>1. ToSet(a) = {a[i] : i \in 1..Len(a)} /\ ToSet(b) = {b[i] : i \in 1..Len(b)}
      BY DEF ToSet
  <2> QED BY <2>1
<1>3. \A code : (\E i \in 1..Len(a) : Defines(a[i], kind, code)) <=> (\E i \in 1..Len(b) : Defines(b[i], kind, code))
    BY <1>2
<1>4. \A code : code \in DOMAIN here <=> code \in DOMAIN there
    BY <1>1, <1>3 DEF MergedTo
<1>5. DOMAIN here = DOMAIN there
    BY <1>4
<1>6. ASSUME NEW code \in DOMAIN here, here[code] # there[code]
      PROVE  \E p, q \in ToSet(a) : p # q /\ code \in p.overrides \cap q.overrides
  <2>1. \/ \E i : LastDefines(a, Len(a), i, kind, code) /\ here[code] = Row(a[i], kind, code)
        \/ (\A i \in 1..Len(a) : ~Defines(a[i], kind, code)) /\ here[code] = Row(Base, kind, code)
      BY <1>1 DEF MergedTo
  <2>2. \/ \E j : LastDefines(b, Len(b), j, kind, code) /\ there[code] = Row(b[j], kind, code)
        \/ (\A j \in 1..Len(b) : ~Defines(b[j], kind, code)) /\ there[code] = Row(Base, kind, code)
      BY <1>1, <1>5 DEF MergedTo
  <2>3. PICK i, j : /\ LastDefines(a, Len(a), i, kind, code) /\ here[code] = Row(a[i], kind, code)
                    /\ LastDefines(b, Len(b), j, kind, code) /\ there[code] = Row(b[j], kind, code)
      BY <1>3, <1>6, <2>1, <2>2 DEF LastDefines
  <2>4. /\ i \in 1..Len(a) /\ Defines(a[i], kind, code) /\ \A k \in 1..Len(a) : Defines(a[k], kind, code) => k <= i
        /\ j \in 1..Len(b) /\ Defines(b[j], kind, code) /\ \A k \in 1..Len(b) : Defines(b[k], kind, code) => k <= j
      BY <2>3 DEF LastDefines
  <2>5. a[i] # b[j]
      BY <1>6, <2>3
  <2>6. code \in a[i].overrides
    <3>1. PICK k \in 1..Len(a) : a[k] = b[j]
        BY <1>2, <2>4
    <3>2. k \in 1..(i - 1) /\ i \in DOMAIN a
        BY <2>4, <2>5, <3>1
    <3> QED BY <2>4, <3>1, <3>2, ReplacesOpenly
  <2>7. code \in b[j].overrides
    <3>1. PICK k \in 1..Len(b) : b[k] = a[i]
        BY <1>2, <2>4
    <3>2. k \in 1..(j - 1) /\ j \in DOMAIN b
        BY <2>4, <2>5, <3>1
    <3> QED BY <2>4, <3>1, <3>2, ReplacesOpenly
  <2>8. a[i] \in ToSet(a) /\ b[j] \in ToSet(a)
    <3>1. ToSet(a) = {a[k] : k \in 1..Len(a)} /\ ToSet(b) = {b[k] : k \in 1..Len(b)}
        BY DEF ToSet
    <3> QED BY <2>4, <3>1
  <2> QED BY <2>5, <2>6, <2>7, <2>8
<1> QED BY <1>5, <1>6 DEF here, there

(* Without a pack, a code has the same row, or the pack overrides it.       *)
LEMMA WithoutAlike ==
    ASSUME NEW P, NEW a \in Seq(P), ~Collides(a), NEW pack \in ToSet(a), NEW kind \in Kinds
    PROVE  LET here == Merged(a, kind)  there == Merged(Without(a, pack), kind) IN
           \A code \in DOMAIN there :
              code \in DOMAIN here /\ (here[code] # there[code] => code \in pack.overrides)
<1> DEFINE N == Len(a)
           b == Without(a, pack)
<1>1. PICK k \in [0..N -> 0..Len(b)] :
          /\ k[0] = 0 /\ k[N] = Len(b)
          /\ \A i \in 1..N : a[i] # pack => k[i] = k[i - 1] + 1 /\ b[k[i]] = a[i]
          /\ \A i \in 1..N : a[i] = pack => k[i] = k[i - 1]
  <2>1. PICK k \in [0..N -> 0..Len(b)] : Places(k, a, ToSet(a) \ {pack}, b)
      BY RegisteredPlaces DEF Without
  <2>2. \A i \in 1..N : a[i] \in ToSet(a) \ {pack} <=> a[i] # pack
      BY DEF ToSet
  <2> HIDE DEF b
  <2> QED BY <2>1, <2>2 DEF Places
<1>2. b \in Seq(P)
    BY RegisteredAre DEF Without
<1> HIDE DEF b
<1>3. PICK U : \E f \in [0..N -> U] : Merging(f, a, kind)
    BY MergedStages
<1>4. PICK f \in [0..N -> U] :
          /\ f[0] = RowsByCode(Base.rows[kind])
          /\ \A i \in 1..N : f[i] = Over(RowsByCode(a[i].rows[kind]), f[i - 1])
          /\ Merged(a, kind) = f[N]
    BY <1>3 DEF Merging
<1>5. PICK V : \E g \in [0..Len(b) -> V] : Merging(g, b, kind)
    BY <1>2, MergedStages
<1>6. PICK g \in [0..Len(b) -> V] :
          /\ g[0] = RowsByCode(Base.rows[kind])
          /\ \A i \in 1..Len(b) : g[i] = Over(RowsByCode(b[i].rows[kind]), g[i - 1])
          /\ Merged(b, kind) = g[Len(b)]
    BY <1>5 DEF Merging
<1>7. N \in Nat /\ Len(b) \in Nat /\ \A i \in 1..N : i \in 0..N /\ i - 1 \in 0..N
    BY <1>2
<1>8. DOMAIN a = 1..N
    OBVIOUS
<1> HIDE DEF N
<1> DEFINE Alike(here, there) == \A code \in DOMAIN there :
              code \in DOMAIN here /\ (here[code] # there[code] => code \in pack.overrides)
           S == {i \in 0..N : /\ Alike(f[i], g[k[i]])
                              /\ \A code \in DOMAIN f[i] :
                                    Defines(Base, kind, code) \/ \E j \in 1..i : Defines(a[j], kind, code)}
<1>9. 0 \in S
    BY <1>1, <1>4, <1>6, <1>7 DEF Defines
<1>10. ASSUME NEW i \in 1..N, i - 1 \in S PROVE i \in S
  <2> DEFINE later == RowsByCode(a[i].rows[kind])
             here == f[i - 1]
             there == g[k[i - 1]]
  <2>1. i \in 0..N /\ i - 1 \in 0..N /\ \A j : j \in 1..i <=> j \in 1..(i - 1) \/ j = i
      BY <1>7
  <2>2. f[i] = Over(later, here)
      BY <1>4
  <2>3. Alike(here, there)
      BY <1>10
  <2>4. \A code \in DOMAIN here : Defines(Base, kind, code) \/ \E j \in 1..(i - 1) : Defines(a[j], kind, code)
      BY <1>10
  <2>5. \A code : Defines(a[i], kind, code) <=> code \in DOMAIN later
      BY DEF Defines
  <2>6. \/ a[i] = pack /\ g[k[i]] = there
        \/ g[k[i]] = Over(later, there)
    <3>1. CASE a[i] = pack
        BY <1>1, <3>1
    <3>2. CASE a[i] # pack
      <4>1. k[i] = k[i - 1] + 1 /\ b[k[i]] = a[i] /\ k[i] \in 0..Len(b) /\ k[i - 1] \in 0..Len(b)
          BY <1>1, <2>1, <3>2
      <4>2. k[i] \in 1..Len(b) /\ k[i] - 1 = k[i - 1]
          BY <1>7, <4>1
      <4>3. g[k[i]] = Over(RowsByCode(b[k[i]].rows[kind]), g[k[i] - 1])
          BY <1>6, <4>2
      <4> QED BY <4>1, <4>2, <4>3
    <3> QED BY <3>1, <3>2
  <2>7. DOMAIN f[i] = DOMAIN later \cup DOMAIN here
      BY <2>2 DEF Over
  <2>8. \A code \in DOMAIN f[i] : f[i][code] = IF code \in DOMAIN later THEN later[code] ELSE here[code]
      BY <2>2 DEF Over
  <2> HIDE DEF later, here, there
  <2>9. \A code \in DOMAIN f[i] : Defines(Base, kind, code) \/ \E j \in 1..i : Defines(a[j], kind, code)
      BY <2>1, <2>4, <2>5, <2>7
  <2>10. Alike(f[i], g[k[i]])
    <3>1. CASE a[i] = pack /\ g[k[i]] = there
      <4>1. SUFFICES ASSUME NEW code \in DOMAIN there PROVE code \in DOMAIN f[i] /\ (f[i][code] # there[code] => code \in pack.overrides)
          BY <3>1
      <4>2. code \in DOMAIN here /\ (here[code] # there[code] => code \in pack.overrides)
          BY <2>3
      <4>3. CASE code \in DOMAIN later
        <5>1. code \in a[i].overrides
            BY <1>8, <2>4, <2>5, <4>2, <4>3, ReplacesOpenly
        <5> QED BY <2>7, <3>1, <4>2, <5>1
      <4>4. CASE code \notin DOMAIN later
          BY <2>7, <2>8, <4>2, <4>4
      <4> QED BY <4>3, <4>4
    <3>2. CASE g[k[i]] = Over(later, there)
      <4>1. DOMAIN g[k[i]] = DOMAIN later \cup DOMAIN there
          BY <3>2 DEF Over
      <4>2. \A code \in DOMAIN g[k[i]] : g[k[i]][code] = IF code \in DOMAIN later THEN later[code] ELSE there[code]
          BY <3>2 DEF Over
      <4> QED BY <2>3, <2>7, <2>8, <4>1, <4>2
    <3> QED BY <2>6, <3>1, <3>2
  <2> HIDE DEF Alike
  <2> QED BY <2>1, <2>9, <2>10
<1>11. \A i \in 0..N : i \in S
  <2> HIDE DEF S
  <2> QED BY <1>7, <1>9, <1>10, UpTo
<1>12. Alike(f[N], g[k[N]])
    BY <1>7, <1>11
<1> QED BY <1>1, <1>4, <1>6, <1>12 DEF b

----------------------------------------------------------------------------
(* The rules titles are read by.                                            *)
LEMMA Joined ==
    ASSUME NEW X, NEW s \in Seq(X), NEW t \in Seq(X)
    PROVE  s \o t \in Seq(X) /\ ToSet(s \o t) = ToSet(s) \cup ToSet(t)
<1>1. /\ s \o t \in Seq(X) /\ Len(s \o t) = Len(s) + Len(t)
      /\ \A i \in 1..(Len(s) + Len(t)) : (s \o t)[i] = IF i <= Len(s) THEN s[i] ELSE t[i - Len(s)]
    BY ConcatProperties
<1>2. Len(s) \in Nat /\ Len(t) \in Nat
    OBVIOUS
<1> DEFINE u == s \o t
<1> HIDE DEF u
<1>3. /\ u \in Seq(X) /\ Len(u) = Len(s) + Len(t)
      /\ \A i \in 1..(Len(s) + Len(t)) : u[i] = IF i <= Len(s) THEN s[i] ELSE t[i - Len(s)]
    BY <1>1 DEF u
<1>4. ToSet(u) = {u[i] : i \in 1..Len(u)} /\ ToSet(s) = {s[i] : i \in 1..Len(s)} /\ ToSet(t) = {t[i] : i \in 1..Len(t)}
    BY <1>3 DEF ToSet
<1>5. ASSUME NEW i \in 1..Len(u) PROVE u[i] \in ToSet(s) \cup ToSet(t)
  <2>1. CASE i <= Len(s)
      BY <1>2, <1>3, <1>4, <2>1
  <2>2. CASE ~(i <= Len(s))
    <3>1. i - Len(s) \in 1..Len(t) /\ u[i] = t[i - Len(s)]
        BY <1>2, <1>3, <2>2
    <3> QED BY <1>4, <3>1
  <2> QED BY <2>1, <2>2
<1>6. ASSUME NEW i \in 1..Len(s) PROVE s[i] \in ToSet(u)
  <2>1. i \in 1..Len(u) /\ u[i] = s[i]
      BY <1>2, <1>3
  <2> QED BY <1>4, <2>1
<1>7. ASSUME NEW i \in 1..Len(t) PROVE t[i] \in ToSet(u)
  <2>1. i + Len(s) \in 1..Len(u) /\ ~(i + Len(s) <= Len(s)) /\ (i + Len(s)) - Len(s) = i
      BY <1>2, <1>3
  <2>2. u[i + Len(s)] = t[(i + Len(s)) - Len(s)]
    <3> HIDE DEF u
    <3> DEFINE j == i + Len(s)
    <3>1. j \in 1..(Len(s) + Len(t)) /\ ~(j <= Len(s))
        BY <1>3, <2>1
    <3> HIDE DEF j
    <3>2. u[j] = t[j - Len(s)]
        BY <1>3, <3>1
    <3> QED BY <3>2 DEF j
  <2> QED BY <1>4, <2>1, <2>2
<1>8. ToSet(u) = ToSet(s) \cup ToSet(t)
    BY <1>4, <1>5, <1>6, <1>7
<1> QED BY <1>3, <1>8 DEF u

(* Flattening keeps every member of every sequence, and adds none.          *)
LEMMA FlattenedAre ==
    ASSUME NEW X, NEW seqs \in Seq(Seq(X))
    PROVE  FlattenSeq(seqs) \in Seq(X) /\ ToSet(FlattenSeq(seqs)) = UNION {ToSet(seqs[i]) : i \in 1..Len(seqs)}
<1> DEFINE N == Len(seqs)
           U == Seq(X)
           Is(f) == f = [i \in 1..N |-> IF i = 1 THEN seqs[i] ELSE f[i - 1] \o seqs[i]]
<1>1. N \in Nat /\ \A i \in 1..N : seqs[i] \in U
    OBVIOUS
<1>2. CASE N = 0
  <2>1. seqs = <<>> /\ FlattenSeq(seqs) = <<>>
      BY <1>2 DEF FlattenSeq
  <2>2. ToSet(<<>>) = {} /\ <<>> \in Seq(X) /\ \A i : i \notin 1..N
      BY <1>2 DEF ToSet
  <2> HIDE DEF N
  <2> QED BY <2>1, <2>2 DEF N
<1>3. CASE N # 0
  <2>1. FlattenSeq(seqs) = (CHOOSE f : Is(f))[N]
      BY <1>3 DEF FlattenSeq
  <2>2. \E f : Is(f)
    <3> DEFINE next == [i \in 1..N |-> [r \in U |-> r \o seqs[i]]]
    <3>1. \A i \in 1..N, r \in U : r \o seqs[i] \in U
        BY <1>1, ConcatProperties
    <3>2. next \in [1..N -> [U -> U]] /\ \A i \in 1..N, r \in U : next[i][r] = r \o seqs[i]
        BY <3>1
    <3>3. <<>> \in U
        OBVIOUS
    <3> HIDE DEF next, U, N
    <3>4. PICK g \in [0..N -> U] : Runs(g, N, <<>>, next)
        BY <1>1, <3>2, <3>3, Iteration
    <3>5. g = [i \in 0..N |-> IF i = 0 THEN <<>> ELSE next[i][g[i - 1]]]
        BY <3>4 DEF Runs
    <3> DEFINE f == [i \in 1..N |-> g[i]]
    <3>6. ASSUME NEW i \in 1..N PROVE f[i] = IF i = 1 THEN seqs[i] ELSE f[i - 1] \o seqs[i]
      <4>1. i \in 0..N /\ i # 0 /\ i - 1 \in 0..N /\ 0 \in 0..N
          BY <1>1
      <4>2. g[i] = g[i - 1] \o seqs[i] /\ g[0] = <<>>
          BY <3>2, <3>4, <3>5, <4>1
      <4>3. CASE i = 1
        <5>1. <<>> \o seqs[i] = seqs[i]
            BY <1>1, ConcatEmptySeq DEF U
        <5>2. i - 1 = 0
            BY <4>3
        <5> QED BY <4>2, <4>3, <5>1, <5>2
      <4>4. CASE i # 1
        <5>1. i - 1 \in 1..N
            BY <1>1, <4>4
        <5> QED BY <4>2, <4>4, <5>1
      <4> QED BY <4>3, <4>4
    <3>7. f = [i \in 1..N |-> f[i]]
        OBVIOUS
    <3> HIDE DEF f
    <3>8. Is(f)
        BY <3>6, <3>7
    <3> QED BY <3>8
  <2>3. PICK f : Is(f) /\ FlattenSeq(seqs) = f[N]
    <3> HIDE DEF Is
    <3> QED BY <2>1, <2>2
  <2>4. \A i \in 1..N : f[i] = IF i = 1 THEN seqs[i] ELSE f[i - 1] \o seqs[i]
      BY <2>3
  <2> HIDE DEF Is, N, U
  <2> DEFINE Whole(i) == f[i] \in U /\ ToSet(f[i]) = UNION {ToSet(seqs[j]) : j \in 1..i}
             S == {i \in 0..N : i = 0 \/ Whole(i)}
  <2>5. 0 \in S
      BY <1>1
  <2>6. ASSUME NEW i \in 1..N, i - 1 \in S PROVE i \in S
    <3>1. i \in 0..N /\ f[i] = (IF i = 1 THEN seqs[i] ELSE f[i - 1] \o seqs[i]) /\ seqs[i] \in U
        BY <1>1, <2>4
    <3>2. CASE i = 1
      <4>1. f[i] = seqs[i] /\ 1..i = {i}
          BY <3>1, <3>2
      <4> QED BY <3>1, <4>1
    <3>3. CASE i # 1
      <4>1. i - 1 # 0 /\ \A j : j \in 1..i <=> j \in 1..(i - 1) \/ j = i
          BY <3>3
      <4>2. Whole(i - 1)
          BY <2>6, <4>1
      <4>3. f[i - 1] \o seqs[i] \in U /\ ToSet(f[i - 1] \o seqs[i]) = ToSet(f[i - 1]) \cup ToSet(seqs[i])
          BY <3>1, <4>2, Joined DEF U
      <4>4. UNION {ToSet(seqs[j]) : j \in 1..i} = (UNION {ToSet(seqs[j]) : j \in 1..(i - 1)}) \cup ToSet(seqs[i])
          BY <4>1
      <4> QED BY <3>1, <3>3, <4>2, <4>3, <4>4
    <3> QED BY <3>2, <3>3
  <2>7. \A i \in 0..N : i \in S
    <3> HIDE DEF S
    <3> QED BY <1>1, <2>5, <2>6, UpTo
  <2>8. Whole(N)
    <3>1. N \in 0..N
        BY <1>1
    <3>2. N \in S
        BY <2>7, <3>1
    <3> HIDE DEF Whole
    <3> QED BY <1>3, <3>2
  <2> QED BY <2>3, <2>8 DEF N, U
<1> QED BY <1>2, <1>3

(* The rules of a pack, each with where it comes from.                      *)
Tagged(pack, key) == [j \in DOMAIN pack.rules |-> pack.rules[j] @@ ("source" :> key)]
Rules(those) == UNION {ToSet(Tagged(p, p.key)) : p \in those}

LEMMA TitleRulesAre ==
    ASSUME NEW P, NEW a \in Seq(P), \A p \in P : p.rules \in Seq(ToSet(p.rules)), Base.rules \in Seq(ToSet(Base.rules))
    PROVE  /\ \E X : TitleRules(a) \in Seq(X)
           /\ ToSet(TitleRules(a)) = Rules(ToSet(a)) \cup ToSet(Tagged(Base, "base"))
<1> DEFINE seqs == [i \in DOMAIN a |-> Tagged(a[i], a[i].key)]
           base == Tagged(Base, "base")
           X == Rules(P) \cup ToSet(base)
<1>1. TitleRules(a) = FlattenSeq(seqs) \o base
    BY DEF TitleRules, Tagged
<1>2. ASSUME NEW pack, NEW key, pack.rules \in Seq(ToSet(pack.rules)) PROVE Tagged(pack, key) \in Seq(ToSet(Tagged(pack, key)))
  <2> DEFINE t == Tagged(pack, key)
  <2>1. DOMAIN t = 1..Len(pack.rules) /\ Len(pack.rules) \in Nat /\ t = [j \in DOMAIN t |-> t[j]]
      BY <1>2 DEF Tagged
  <2> HIDE DEF t
  <2>2. \A j \in 1..Len(pack.rules) : t[j] \in ToSet(t)
      BY <2>1 DEF ToSet
  <2> DEFINE Y == ToSet(t)
             n == Len(pack.rules)
  <2>3. n \in Nat /\ t \in [1..n -> Y]
      BY <2>1, <2>2
  <2> HIDE DEF Y, n
  <2>4. t \in Seq(Y)
      BY <2>3
  <2> QED BY <2>4 DEF t, Y
<1>3. ASSUME NEW p \in P PROVE Tagged(p, p.key) \in Seq(X)
  <2>1. Tagged(p, p.key) \in Seq(ToSet(Tagged(p, p.key)))
      BY <1>2
  <2>2. ToSet(Tagged(p, p.key)) \subseteq X
      BY DEF Rules
  <2> QED BY <2>1, <2>2
<1>4. base \in Seq(X)
  <2>1. base \in Seq(ToSet(base))
      BY <1>2
  <2> HIDE DEF base
  <2> QED BY <2>1
<1>5. DOMAIN a = 1..Len(a) /\ Len(a) \in Nat /\ \A i \in 1..Len(a) : a[i] \in P
    OBVIOUS
<1>6. seqs \in Seq(Seq(X)) /\ Len(seqs) = Len(a) /\ \A i \in 1..Len(a) : seqs[i] = Tagged(a[i], a[i].key)
  <2> HIDE DEF X, base
  <2>1. \A i \in 1..Len(a) : Tagged(a[i], a[i].key) \in Seq(X)
      BY <1>3, <1>5
  <2>2. seqs \in [1..Len(a) -> Seq(X)]
      BY <1>5, <2>1
  <2> QED BY <1>5, <2>2
<1>7. ToSet(a) = {a[i] : i \in 1..Len(a)}
    BY <1>5 DEF ToSet
<1> HIDE DEF seqs, base, X
<1>8. FlattenSeq(seqs) \in Seq(X) /\ ToSet(FlattenSeq(seqs)) = UNION {ToSet(seqs[i]) : i \in 1..Len(seqs)}
    BY <1>6, FlattenedAre
<1>9. UNION {ToSet(seqs[i]) : i \in 1..Len(seqs)} = Rules(ToSet(a))
  <2>1. {ToSet(seqs[i]) : i \in 1..Len(seqs)} = {ToSet(Tagged(p, p.key)) : p \in ToSet(a)}
    <3>1. \A i \in 1..Len(seqs) : a[i] \in ToSet(a) /\ ToSet(seqs[i]) = ToSet(Tagged(a[i], a[i].key))
        BY <1>6, <1>7
    <3>2. \A p \in ToSet(a) : \E i \in 1..Len(seqs) : ToSet(seqs[i]) = ToSet(Tagged(p, p.key))
        BY <1>6, <1>7
    <3> QED BY <3>1, <3>2
  <2> QED BY <2>1 DEF Rules
<1>10. TitleRules(a) \in Seq(X) /\ ToSet(TitleRules(a)) = Rules(ToSet(a)) \cup ToSet(base)
    BY <1>1, <1>4, <1>8, <1>9, Joined
<1> QED BY <1>10 DEF base

(* A title is read by a rule that was composed, or by none.                 *)
LEMMA FirstOfIsThere ==
    ASSUME NEW X, NEW seq \in Seq(X), NEW words, FirstOf(seq, words) # None
    PROVE  FirstOf(seq, words) \in ToSet(seq)
<1> DEFINE hits == {i \in DOMAIN seq : seq[i].word \in ToSet(words)}
           first == CHOOSE i \in hits : \A j \in hits : i <= j
<1>1. FirstOf(seq, words) = IF hits = {} THEN None ELSE seq[first]
    BY DEF FirstOf
<1>2. hits \subseteq Nat /\ hits \subseteq 1..Len(seq)
    OBVIOUS
<1> HIDE DEF hits
<1>3. hits # {}
    BY <1>1
<1>4. first \in hits
    BY <1>2, <1>3, LeastNumber
<1> HIDE DEF first
<1>5. FirstOf(seq, words) = seq[first] /\ first \in 1..Len(seq)
    BY <1>1, <1>2, <1>3, <1>4
<1>6. ToSet(seq) = {seq[i] : i \in 1..Len(seq)}
    BY DEF ToSet
<1> QED BY <1>5, <1>6

(* Every role a title is given by the rules of some of the packs is a role  *)
(* the packs have.                                                          *)
RoleOf(title, reading) ==
    LET matched == FirstOf(reading.rules, Expanded(title, reading.abbreviations))
    IN IF title = <<>> THEN "unknown" ELSE IF matched = None THEN "other" ELSE matched.role

LEMMA RolesAreKnown ==
    ASSUME NEW P, NEW a \in Seq(P), \A p \in P : p.rules \in Seq(ToSet(p.rules)), Base.rules \in Seq(ToSet(Base.rules)),
           {"other", "unknown"} \subseteq {row.code : row \in ToSet(Base.rows["role"])},
           Coherent(a), NEW scope, NEW title
    PROVE  RoleOf(title, Composed(a, scope)) \in DOMAIN Merged(a, "role")
<1> DEFINE those == {pack \in ToSet(a) : ScopeMatches(pack, scope)}
           b == Registered(a, those)
           roles == DOMAIN Merged(a, "role")
           reading == Composed(a, scope)
<1>1. b \in Seq(P) /\ ToSet(b) = ToSet(a) \cap those
    BY RegisteredAre
<1>2. reading.rules = TitleRules(b)
    BY DEF Composed
<1>3. MergedTo(Merged(a, "role"), a, Len(a), "role")
    BY MergedOf
<1>4. {"other", "unknown"} \subseteq roles
  <2>1. Defines(Base, "role", "other") /\ Defines(Base, "role", "unknown")
      BY DEF Defines, RowsByCode
  <2> QED BY <1>3, <2>1 DEF MergedTo
<1>5. \A rule \in ToSet(TitleRules(a)) : rule.role \in roles
  <2>1. \A i \in DOMAIN TitleRules(a) : TitleRules(a)[i].role \in roles
      BY DEF Coherent
  <2> QED BY <2>1 DEF ToSet
<1> HIDE DEF b, roles, reading
<1>6. ToSet(TitleRules(b)) \subseteq ToSet(TitleRules(a))
  <2>1. /\ ToSet(TitleRules(a)) = Rules(ToSet(a)) \cup ToSet(Tagged(Base, "base"))
        /\ ToSet(TitleRules(b)) = Rules(ToSet(b)) \cup ToSet(Tagged(Base, "base"))
      BY <1>1, TitleRulesAre
  <2>2. Rules(ToSet(b)) \subseteq Rules(ToSet(a))
      BY <1>1 DEF Rules
  <2> QED BY <2>1, <2>2
<1>7. PICK X : TitleRules(b) \in Seq(X)
    BY <1>1, TitleRulesAre
<1>8. \A words : FirstOf(TitleRules(b), words) # None => FirstOf(TitleRules(b), words).role \in roles
    BY <1>5, <1>6, <1>7, FirstOfIsThere
<1> HIDE DEF those
<1>9. RoleOf(title, reading) \in roles
    BY <1>2, <1>4, <1>8 DEF RoleOf
<1> QED BY <1>9 DEF reading, roles

----------------------------------------------------------------------------
(* Reading as if a pack that does not cover the organization were absent.   *)
LEMMA ComposedWithout ==
    ASSUME NEW P, NEW a \in Seq(P), NEW pack \in ToSet(a), NEW scope, ~ScopeMatches(pack, scope)
    PROVE  Composed(Without(a, pack), scope) = Composed(a, scope)
<1> DEFINE b == Without(a, pack)
           S == {p \in ToSet(a) : ScopeMatches(p, scope)}
           T == {p \in ToSet(b) : ScopeMatches(p, scope)}
           rest == ToSet(a) \ {pack}
<1>1. ToSet(b) = ToSet(a) \cap rest
    BY RegisteredAre DEF Without
<1>2. Registered(b, T) = Registered(a, rest \cap T)
    BY RegisteredTwice DEF Without
<1>3. ToSet(a) \cap (rest \cap T) = ToSet(a) \cap S
    BY <1>1
<1>4. Registered(a, rest \cap T) = Registered(a, S)
    BY <1>3, RegisteredAlike
<1>5. Registered(b, T) = Registered(a, S)
    BY <1>2, <1>4
<1> HIDE DEF b
<1>6. Composed(b, scope) = Composed(a, scope)
    BY <1>5 DEF Composed
<1> QED BY <1>6 DEF b

LEMMA NotCoveredNotMatched ==
    ASSUME NEW pack, NEW scope, ~Covers(pack, scope)
    PROVE  ~ScopeMatches(pack, scope)
<1>1. PICK axis \in {<<pack.sectors, scope.sector>>, <<pack.levels, scope.level>>} : ~(axis[1] = None \/ axis[2] \in axis[1])
    BY DEF Covers
<1> QED BY <1>1 DEF ScopeMatches

(* What is read of a title but its family depends on the rules alone.       *)
LEMMA FamilyApart ==
    ASSUME NEW title, NEW reading, NEW here, NEW there
    PROVE  LET role == RoleOf(title, reading)
               read == NormalizeTitle(title, reading, here)
               alone == NormalizeTitle(title, reading, there)
           IN /\ read.role = role
              /\ [read EXCEPT !.family = alone.family] = alone
              /\ role \in DOMAIN here /\ role \in DOMAIN there /\ here[role] = there[role] => read = alone
<1> DEFINE key == Expanded(title, reading.abbreviations)
           matched == FirstOf(reading.rules, key)
           modifier == FirstOf(SeniorityModifiers, key)
           specialty == FirstOf(reading.specialties, title)
           role == RoleOf(title, reading)
           seniority == IF modifier # None THEN modifier.seniority
                        ELSE IF matched # None THEN matched.seniority ELSE "unknown"
           special == IF specialty = None THEN None ELSE specialty.word
           source == IF matched = None THEN None ELSE matched.source
           family(roles) == IF role \in DOMAIN roles THEN roles[role].family ELSE "unknown"
           reads(roles) == [title |-> key, role |-> role, family |-> family(roles), seniority |-> seniority,
                            specialty |-> special, source |-> source]
<1>1. \A roles : NormalizeTitle(title, reading, roles) = reads(roles)
    BY DEF NormalizeTitle, RoleOf
<1> HIDE DEF key, role, seniority, special, source
<1>2. role \in DOMAIN here /\ role \in DOMAIN there /\ here[role] = there[role] => family(here) = family(there)
    OBVIOUS
<1> HIDE DEF family
<1>3. /\ reads(here).role = role
      /\ [reads(here) EXCEPT !.family = reads(there).family] = reads(there)
      /\ family(here) = family(there) => reads(here) = reads(there)
    OBVIOUS
<1> HIDE DEF reads
<1> QED BY <1>1, <1>2, <1>3 DEF role

(* The packs of a release, what was answered of them, and what was given.   *)
PacksInv ==
    /\ packs \in Arrangements /\ Accepted(packs)
    /\ DOMAIN readings \subseteq OrganizationScopes
    /\ \A scope \in DOMAIN readings : readings[scope] = Composed(packs, scope)
    /\ \A scope \in OrganizationScopes :
          CacheKey(scope) \in DOMAIN scopedCache => scopedCache[CacheKey(scope)] = Composed(packs, scope)

LEMMA SameKeySameReading ==
    ASSUME NEW a, NEW s, NEW t, CacheKey(s) = CacheKey(t)
    PROVE  Composed(a, s) = Composed(a, t)
<1>1. s.sector = t.sector /\ s.level = t.level
    BY DEF CacheKey
<1>2. \A pack : ScopeMatches(pack, s) <=> ScopeMatches(pack, t)
    BY <1>1 DEF ScopeMatches
<1>3. {pack \in ToSet(a) : ScopeMatches(pack, s)} = {pack \in ToSet(a) : ScopeMatches(pack, t)}
    BY <1>2
<1> QED BY <1>3 DEF Composed

LEMMA PacksBegin == PacksInit => PacksInv
<1> SUFFICES ASSUME PacksInit PROVE PacksInv
    OBVIOUS
<1>1. packs \in Arrangements /\ Accepted(packs) /\ scopedCache = <<>> /\ readings = <<>>
    BY DEF PacksInit
<1>2. DOMAIN scopedCache = {} /\ DOMAIN readings = {}
    BY <1>1
<1> QED BY <1>1, <1>2 DEF PacksInv

LEMMA PacksStep == PacksInv /\ [PacksNext]_packVars => PacksInv'
<1> SUFFICES ASSUME PacksInv, [PacksNext]_packVars PROVE PacksInv'
    OBVIOUS
<1>1. CASE UNCHANGED packVars
    BY <1>1 DEF PacksInv, packVars, Accepted, Collides, Coherent, Composed
<1>2. ASSUME NEW scope \in OrganizationScopes, ForScope(scope) PROVE PacksInv'
  <2> DEFINE fresh == [key \in {CacheKey(scope)} |-> Composed(packs, scope)]
  <2>1. packs' = packs /\ scopedCache' = Over(scopedCache, fresh)
        /\ readings' = Over([asked \in {scope} |-> scopedCache'[CacheKey(scope)]], readings)
      BY <1>2 DEF ForScope
  <2>2. \A s \in OrganizationScopes : Composed(packs, s)' = Composed(packs, s)
      BY <2>1 DEF Composed
  <2>3. Accepted(packs)'
      BY <2>1 DEF PacksInv, Accepted, Collides, Coherent
  <2>4. ASSUME NEW s \in OrganizationScopes, CacheKey(s) \in DOMAIN scopedCache'
        PROVE  scopedCache'[CacheKey(s)] = Composed(packs, s)
    <3>1. DOMAIN scopedCache' = DOMAIN scopedCache \cup {CacheKey(scope)}
        BY <2>1 DEF Over
    <3>2. CASE CacheKey(s) \in DOMAIN scopedCache
        BY <2>1, <3>1, <3>2 DEF Over, PacksInv
    <3>3. CASE CacheKey(s) \notin DOMAIN scopedCache
      <4>1. CacheKey(s) = CacheKey(scope)
          BY <2>4, <3>1, <3>3
      <4>2. scopedCache'[CacheKey(s)] = Composed(packs, scope)
          BY <2>1, <2>4, <3>1, <3>3, <4>1 DEF Over
      <4> QED BY <4>1, <4>2, SameKeySameReading
    <3> QED BY <3>2, <3>3
  <2>5. CacheKey(scope) \in DOMAIN scopedCache'
      BY <2>1 DEF Over
  <2>6. scopedCache'[CacheKey(scope)] = Composed(packs, scope)
      BY <2>4, <2>5
  <2>7. DOMAIN readings' = {scope} \cup DOMAIN readings
      BY <2>1 DEF Over
  <2>8. ASSUME NEW s \in DOMAIN readings' PROVE readings'[s] = Composed(packs, s)
    <3>1. CASE s = scope
        BY <2>1, <2>6, <2>7, <3>1 DEF Over
    <3>2. CASE s # scope
        BY <2>1, <2>7, <3>2 DEF Over, PacksInv
    <3> QED BY <3>1, <3>2
  <2>9. DOMAIN readings' \subseteq OrganizationScopes
      BY <2>7 DEF PacksInv
  <2>10. \A s \in DOMAIN readings' : readings'[s] = Composed(packs, s)'
      BY <2>2, <2>8, <2>9
  <2>11. \A s \in OrganizationScopes : CacheKey(s)' \in DOMAIN scopedCache' => scopedCache'[CacheKey(s)'] = Composed(packs, s)'
      BY <2>2, <2>4 DEF CacheKey
  <2>12. packs' \in Arrangements
      BY <2>1 DEF PacksInv
  <2> HIDE DEF fresh
  <2> QED BY <2>3, <2>9, <2>10, <2>11, <2>12 DEF PacksInv
<1> QED BY <1>1, <1>2 DEF PacksNext

(* The arrangements of a set are all its members in some order.             *)
LEMMA AllArranged ==
    ASSUME NEW P, NEW a \in Seq(P), NEW order \in SetToSeqs(ToSet(a))
    PROVE  order \in Seq(P) /\ ToSet(order) = ToSet(a)
<1> DEFINE S == ToSet(a)
           D == 1..Cardinality(S)
<1>1. S = {a[i] : i \in 1..Len(a)} /\ S \subseteq P /\ Len(a) \in Nat
    BY DEF ToSet
<1>2. IsFiniteSet(S)
  <2>1. IsFiniteSet(1..Len(a))
      BY <1>1, FS_Interval
  <2>2. a \in Surjection(1..Len(a), S)
      BY <1>1 DEF Surjection
  <2> HIDE DEF S
  <2> QED BY <2>1, <2>2, FS_Surjection
<1> HIDE DEF S
<1>3. order \in [D -> S] /\ \A i, j \in D : i # j => order[i] # order[j]
    BY DEF SetToSeqs, S
<1>4. Cardinality(S) \in Nat /\ Cardinality(D) = Cardinality(S)
  <2>1. Cardinality(S) \in Nat
      BY <1>2, FS_CardinalityType
  <2> DEFINE n == Cardinality(S)
  <2>2. n \in Int /\ n >= 0 /\ 1 \in Int
      BY <2>1
  <2> HIDE DEF n
  <2>3. Cardinality(1..n) = IF 1 > n THEN 0 ELSE n - 1 + 1
      BY <2>2, FS_Interval
  <2>4. Cardinality(1..n) = n
      BY <2>2, <2>3
  <2> QED BY <2>1, <2>4 DEF n
<1>5. order \in Injection(D, S)
    BY <1>3 DEF Injection, IsInjective
<1>6. order \in Surjection(D, S)
    BY <1>2, <1>4, <1>5, FS_Injection
<1>7. \A s \in S : \E i \in D : order[i] = s
    BY <1>6 DEF Surjection
<1>8. DOMAIN order = D /\ ToSet(order) = {order[i] : i \in D}
    BY <1>3 DEF ToSet
<1>9. ToSet(order) = S
    BY <1>3, <1>7, <1>8
<1>10. order \in Seq(P)
  <2>1. order \in [1..Cardinality(S) -> P]
      BY <1>1, <1>3
  <2> DEFINE n == Cardinality(S)
  <2>2. n \in Nat /\ order \in [1..n -> P]
      BY <1>4, <2>1
  <2> HIDE DEF n
  <2> QED BY <2>2
<1> QED BY <1>9, <1>10 DEF S

LEMMA PacksApart == PacksAssumption /\ PacksInv => PacksDoNotInterfere
<1> SUFFICES ASSUME PacksAssumption, PacksInv PROVE PacksDoNotInterfere
    OBVIOUS
<1> DEFINE P == ToSet(packs)
<1>1. /\ packs \in Seq(P) /\ \A p \in P : p.rules \in Seq(ToSet(p.rules))
      /\ Base.rules \in Seq(ToSet(Base.rules))
      /\ {"other", "unknown"} \subseteq {row.code : row \in ToSet(Base.rows["role"])}
    BY DEF PacksAssumption, PacksInv
<1>2. ~Collides(packs) /\ Coherent(packs)
    BY DEF PacksInv, Accepted
<1>3. ASSUME NEW scope \in DOMAIN readings, NEW pack \in ToSet(packs), ~Covers(pack, scope), Accepted(Without(packs, pack))
      PROVE  ReadsAsWithout(pack, scope)
  <2> DEFINE others == Without(packs, pack)
             mine == readings[scope]
             theirs == Composed(others, scope)
             here == Merged(packs, "role")
             there == Merged(others, "role")
  <2>1. mine = Composed(packs, scope)
      BY DEF PacksInv
  <2>2. ~ScopeMatches(pack, scope)
      BY <1>3, NotCoveredNotMatched
  <2>3. theirs = Composed(packs, scope)
      BY <1>1, <2>2, ComposedWithout
  <2>4. others \in Seq(P) /\ Coherent(others)
    <3>1. others \in Seq(P)
        BY <1>1, RegisteredAre DEF Without
    <3> QED BY <1>3, <3>1 DEF Accepted
  <2>5. \A code \in DOMAIN there : code \in DOMAIN here /\ (here[code] # there[code] => code \in pack.overrides)
    <3>1. "role" \in Kinds
        BY DEF Kinds
    <3> QED BY <1>1, <1>2, <3>1, WithoutAlike
  <2>6. \A title : RoleOf(title, theirs) \in DOMAIN there
    <3> HIDE DEF others
    <3> QED BY <1>1, <2>4, RolesAreKnown
  <2>7. mine = theirs
      BY <2>1, <2>3
  <2> HIDE DEF mine, theirs, here, there, others
  <2>8. ASSUME NEW title \in Titles
        PROVE  LET read == NormalizeTitle(title, mine, here)
                   alone == NormalizeTitle(title, theirs, there)
               IN \/ read = alone
                  \/ read.role \in pack.overrides /\ [read EXCEPT !.family = alone.family] = alone
    <3> DEFINE role == RoleOf(title, theirs)
               read == NormalizeTitle(title, theirs, here)
               alone == NormalizeTitle(title, theirs, there)
    <3>1. /\ read.role = role /\ [read EXCEPT !.family = alone.family] = alone
          /\ role \in DOMAIN here /\ role \in DOMAIN there /\ here[role] = there[role] => read = alone
        BY FamilyApart
    <3>2. role \in DOMAIN here /\ role \in DOMAIN there /\ (here[role] # there[role] => role \in pack.overrides)
        BY <2>5, <2>6
    <3> HIDE DEF role, read, alone
    <3>3. read = alone \/ (read.role \in pack.overrides /\ [read EXCEPT !.family = alone.family] = alone)
        BY <3>1, <3>2
    <3> QED BY <2>7, <3>3 DEF read, alone
  <2> QED BY <2>7, <2>8 DEF ReadsAsWithout, mine, theirs, here, there, others
<1>4. ASSUME NEW order \in SetToSeqs(ToSet(packs)), Accepted(order) PROVE DefinesAlike(order)
  <2>1. order \in Seq(P) /\ ToSet(order) = ToSet(packs)
      BY <1>1, AllArranged
  <2>2. ~Collides(order)
      BY <1>4 DEF Accepted
  <2>3. ASSUME NEW kind \in Kinds
        PROVE  /\ DOMAIN Merged(packs, kind) = DOMAIN Merged(order, kind)
               /\ \A code \in DOMAIN Merged(packs, kind) : Merged(packs, kind)[code] # Merged(order, kind)[code] =>
                     \E p, q \in ToSet(packs) : p # q /\ code \in p.overrides \cap q.overrides
      BY <1>1, <1>2, <2>1, <2>2, OrdersAlike
  <2> QED BY <2>3 DEF DefinesAlike
<1> QED BY <1>3, <1>4 DEF PacksDoNotInterfere

(* Registering a pack changes nothing for the organizations it does not     *)
(* cover, whatever scopes were asked for before and in whatever order, and  *)
(* the order of registration decides nothing that two packs do not both     *)
(* override: the answers of the cache are those of the packs registered, a  *)
(* pack that does not match contributes no rule, abbreviation, word or hint *)
(* to a composition, and a row that differs with and without a pack, or in  *)
(* two orders, was replaced by a pack that says so.                         *)
THEOREM PacksStayApart == PacksSpec => []PacksDoNotInterfere
<1>1. PacksSpec => []PacksInv
    BY PacksBegin, PacksStep, PTL DEF PacksSpec
<1>2. PacksInv => PacksDoNotInterfere
    BY PacksAssumption, PacksApart
<1> QED BY <1>1, <1>2, PTL

----------------------------------------------------------------------------
(* The pages of a directory: nobody is lost between them.                   *)
PagesSpec == PagesInit /\ [][PagesNext]_pageVars

----------------------------------------------------------------------------
(* Records of people.                                                       *)
RecordFields == {"full_name_published", "title_published", "organization_published", "phone_published"}
RecordsOf(K, C, G, V, A) ==
    [key : K, confidence : C, profile : G, published : {p \in [RecordFields -> V] : p["full_name_published"] # None},
     emails : SUBSET A]
IsRecord(r) ==
    /\ r = [key |-> r.key, confidence |-> r.confidence, profile |-> r.profile, published |-> r.published,
            emails |-> r.emails]
    /\ r.published = [f \in RecordFields |-> r.published[f]] /\ r.published["full_name_published"] # None
AreRecords(s) == s \in Seq(ToSet(s)) /\ \A r \in ToSet(s) : IsRecord(r)
Within(r) == \A f \in RecordFields : r.published[f] = None \/ ScanForProhibitedData(f, r.published[f]) = {}

LEMMA OfOneSet ==
    ASSUME NEW s, AreRecords(s)
    PROVE  \E K, C, G, V, A : s \in Seq(RecordsOf(K, C, G, V, A))
<1> DEFINE T == ToSet(s)
           K == {r.key : r \in T}
           C == {r.confidence : r \in T}
           G == {r.profile : r \in T}
           V == UNION {{r.published[f] : f \in RecordFields} : r \in T}
           A == UNION {r.emails : r \in T}
<1>1. ASSUME NEW r \in T PROVE r \in RecordsOf(K, C, G, V, A)
  <2>1. IsRecord(r)
      BY DEF AreRecords
  <2>2. r.key \in K /\ r.confidence \in C /\ r.profile \in G /\ r.emails \in SUBSET A
      OBVIOUS
  <2>3. \A f \in RecordFields : r.published[f] \in V
      OBVIOUS
  <2> HIDE DEF K, C, G, V, A, T
  <2>4. r.published \in [RecordFields -> V] /\ r.published["full_name_published"] # None
      BY <2>1, <2>3 DEF IsRecord
  <2> QED BY <2>1, <2>2, <2>4 DEF IsRecord, RecordsOf
<1>2. s \in Seq(T)
    BY DEF AreRecords
<1> HIDE DEF K, C, G, V, A, T
<1>3. s \in Seq(RecordsOf(K, C, G, V, A))
  <2> DEFINE R == RecordsOf(K, C, G, V, A)
  <2>1. \A r \in T : r \in R
      BY <1>1
  <2> HIDE DEF R
  <2>2. s \in Seq(R)
      BY <1>2, <2>1
  <2> QED BY <2>2 DEF R
<1> QED BY <1>3

LEMMA RecordsAre ==
    ASSUME NEW K, NEW C, NEW G, NEW V, NEW A, NEW s \in Seq(RecordsOf(K, C, G, V, A))
    PROVE  AreRecords(s)
<1> DEFINE R == RecordsOf(K, C, G, V, A)
<1>1. \A r \in R : IsRecord(r)
    BY DEF RecordsOf, IsRecord
<1>2. s \in Seq(R)
    OBVIOUS
<1> HIDE DEF R
<1>3. ToSet(s) \subseteq R /\ DOMAIN s = 1..Len(s) /\ Len(s) \in Nat
    BY <1>2 DEF ToSet
<1>4. \A i \in 1..Len(s) : s[i] \in ToSet(s)
    BY <1>3 DEF ToSet
<1> DEFINE T == ToSet(s)
           n == Len(s)
<1>5. n \in Nat /\ s \in [1..n -> T]
    BY <1>2, <1>3, <1>4
<1> HIDE DEF T, n
<1>6. s \in Seq(T)
    BY <1>5
<1> QED BY <1>1, <1>3, <1>6 DEF AreRecords, T

(* Merging keeps the addresses of both, and of each field one of the values. *)
LEMMA MergedRecord ==
    ASSUME NEW K, NEW C, NEW G, NEW V, NEW A,
           NEW a \in RecordsOf(K, C, G, V, A), NEW b \in RecordsOf(K, C, G, V, A)
    PROVE  /\ MergeExtracted(a, b) \in RecordsOf(K, C, G, V, A)
           /\ MergeExtracted(a, b).emails = a.emails \cup b.emails
           /\ \A f \in RecordFields : MergeExtracted(a, b).published[f] \in {a.published[f], b.published[f]}
<1> DEFINE Joint(p, q) ==
               [key |-> p.key, confidence |-> p.confidence,
                published |-> [f \in DOMAIN p.published |->
                                  IF p.published[f] # None THEN p.published[f] ELSE q.published[f]],
                profile |-> IF p.profile # None THEN p.profile ELSE q.profile,
                emails |-> p.emails \cup q.emails]
<1>1. ASSUME NEW p \in RecordsOf(K, C, G, V, A), NEW q \in RecordsOf(K, C, G, V, A)
      PROVE  /\ Joint(p, q) \in RecordsOf(K, C, G, V, A)
             /\ Joint(p, q).emails = p.emails \cup q.emails
             /\ \A f \in RecordFields : Joint(p, q).published[f] \in {p.published[f], q.published[f]}
  <2> DEFINE both == [f \in RecordFields |-> IF p.published[f] # None THEN p.published[f] ELSE q.published[f]]
             profile == IF p.profile # None THEN p.profile ELSE q.profile
  <2>1. p = [key |-> p.key, confidence |-> p.confidence, profile |-> p.profile, published |-> p.published,
             emails |-> p.emails]
      BY DEF RecordsOf
  <2>2. p.published \in [RecordFields -> V] /\ q.published \in [RecordFields -> V] /\ p.profile \in G /\ q.profile \in G
        /\ p.emails \in SUBSET A /\ q.emails \in SUBSET A /\ p.key \in K /\ p.confidence \in C
        /\ p.published["full_name_published"] # None
      BY DEF RecordsOf
  <2>3. both \in [RecordFields -> V] /\ profile \in G /\ both["full_name_published"] # None
      BY <2>2 DEF RecordFields
  <2>4. Joint(p, q) = [key |-> p.key, confidence |-> p.confidence, profile |-> profile, published |-> both,
                       emails |-> p.emails \cup q.emails]
    <3> DEFINE mine == [f \in DOMAIN p.published |-> IF p.published[f] # None THEN p.published[f] ELSE q.published[f]]
    <3>1. mine = both
        BY <2>2
    <3>2. Joint(p, q) = [key |-> p.key, confidence |-> p.confidence, published |-> mine, profile |-> profile,
                         emails |-> p.emails \cup q.emails]
        OBVIOUS
    <3> HIDE DEF mine, both, profile, Joint
    <3> QED BY <3>1, <3>2
  <2>5. \A f \in RecordFields : both[f] \in {p.published[f], q.published[f]}
      OBVIOUS
  <2> HIDE DEF both, profile, Joint
  <2> QED BY <2>2, <2>3, <2>4, <2>5 DEF RecordsOf
<1>2. MergeExtracted(a, b) = IF a.confidence >= b.confidence THEN Joint(a, b) ELSE Joint(b, a)
    BY DEF MergeExtracted
<1> HIDE DEF Joint
<1> QED BY <1>1, <1>2

(* A record put among those kept joins the first of its identity, or comes  *)
(* last.                                                                    *)
Keeps(before, after) == \A r \in ToSet(before) : \E k \in ToSet(after) : r.emails \subseteq k.emails

LEMMA IntoKeeps ==
    ASSUME NEW K, NEW C, NEW G, NEW V, NEW A, NEW kept \in Seq(RecordsOf(K, C, G, V, A)),
           NEW record \in RecordsOf(K, C, G, V, A), NEW rule
    PROVE  /\ Into(kept, record, rule) \in Seq(RecordsOf(K, C, G, V, A))
           /\ Keeps(kept, Into(kept, record, rule))
           /\ \E k \in ToSet(Into(kept, record, rule)) : record.emails \subseteq k.emails
           /\ Within(record) /\ (\A r \in ToSet(kept) : Within(r)) => \A k \in ToSet(Into(kept, record, rule)) : Within(k)
<1> DEFINE R == RecordsOf(K, C, G, V, A)
           same == {i \in DOMAIN kept : IdentityBy(rule, kept[i]) = IdentityBy(rule, record)}
           into == Into(kept, record, rule)
           merged == MergeExtracted(kept[Min(same)], record)
<1>1. into = IF same = {} THEN Append(kept, record) ELSE [kept EXCEPT ![Min(same)] = merged]
    BY DEF Into
<1>2. kept \in Seq(R) /\ record \in R
    OBVIOUS
<1>3. same \subseteq 1..Len(kept) /\ same \subseteq Nat
    OBVIOUS
<1>4. Len(kept) \in Nat /\ ToSet(kept) = {kept[i] : i \in 1..Len(kept)}
    BY DEF ToSet
<1>5. CASE same = {}
  <2>1. Append(kept, record) \in Seq(R) /\ ToSet(Append(kept, record)) = ToSet(kept) \cup {record}
    <3> HIDE DEF R, same, into, merged
    <3>1. Append(kept, record) \in Seq(R) /\ Len(Append(kept, record)) = Len(kept) + 1
        BY <1>2
    <3>2. \A i \in 1..Len(kept) : Append(kept, record)[i] = kept[i]
        BY <1>2
    <3>3. Append(kept, record)[Len(kept) + 1] = record
        BY <1>2
    <3>4. ToSet(Append(kept, record)) = {Append(kept, record)[i] : i \in 1..(Len(kept) + 1)}
        BY <3>1 DEF ToSet
    <3> QED BY <1>4, <3>1, <3>2, <3>3, <3>4
  <2> HIDE DEF R, same, into, merged
  <2> QED BY <1>1, <1>5, <2>1 DEF Keeps, R, into
<1>6. CASE same # {}
  <2> HIDE DEF R, same, into, merged
  <2>1. Min(same) \in same
    <3>1. \E m \in same : \A i \in same : m <= i
        BY <1>3, <1>6, LeastNumber
    <3> QED BY <3>1 DEF Min
  <2> DEFINE m == Min(same)
  <2>2. m \in 1..Len(kept)
      BY <1>3, <2>1
  <2> HIDE DEF m
  <2>3. kept[m] \in R /\ merged = MergeExtracted(kept[m], record)
      BY <1>2, <2>2 DEF m, merged
  <2>4. /\ merged \in R /\ merged.emails = kept[m].emails \cup record.emails
        /\ \A f \in RecordFields : merged.published[f] \in {kept[m].published[f], record.published[f]}
      BY <1>2, <2>3, MergedRecord DEF R
  <2>5. into = [kept EXCEPT ![m] = merged]
      BY <1>1, <1>6 DEF m
  <2>6. into \in Seq(R) /\ Len(into) = Len(kept) /\ into[m] = merged
        /\ \A i \in 1..Len(kept) : i # m => into[i] = kept[i]
      BY <1>2, <2>2, <2>4, <2>5
  <2>7. ToSet(into) = {into[i] : i \in 1..Len(kept)}
      BY <2>6 DEF ToSet
  <2>8. merged \in ToSet(into)
      BY <2>2, <2>6, <2>7
  <2>9. Keeps(kept, into)
    <3>1. ASSUME NEW i \in 1..Len(kept) PROVE \E k \in ToSet(into) : kept[i].emails \subseteq k.emails
      <4>1. CASE i = m
          BY <2>4, <2>8, <4>1
      <4>2. CASE i # m
          BY <2>6, <2>7, <4>2
      <4> QED BY <4>1, <4>2
    <3> QED BY <1>4, <3>1 DEF Keeps
  <2>10. \E k \in ToSet(into) : record.emails \subseteq k.emails
      BY <2>4, <2>8
  <2>11. ASSUME Within(record), \A r \in ToSet(kept) : Within(r) PROVE \A k \in ToSet(into) : Within(k)
    <3>1. Within(kept[m])
        BY <1>4, <2>2, <2>11
    <3>2. Within(merged)
        BY <2>4, <2>11, <3>1 DEF Within
    <3>3. \A i \in 1..Len(kept) : i # m => Within(into[i])
        BY <1>4, <2>6, <2>11
    <3> QED BY <2>6, <2>7, <3>2, <3>3
  <2> QED BY <2>6, <2>9, <2>10, <2>11 DEF R, into
<1> QED BY <1>5, <1>6

(* Records put among those kept, one after the other.                      *)
Collapsing(f, s, rule) ==
    /\ f[0] = <<>>
    /\ \A i \in 1..Len(s) : f[i] = Into(f[i - 1], s[i], rule)
    /\ CollapseBy(rule, s) = f[Len(s)]

LEMMA CollapsedBy ==
    ASSUME NEW R, NEW s \in Seq(R), NEW rule,
           \A kept \in Seq(R), record \in R : Into(kept, record, rule) \in Seq(R)
    PROVE  \E f \in [0..Len(s) -> Seq(R)] : Collapsing(f, s, rule)
<1> DEFINE N == Len(s)
           start == <<>>
           U == Seq(R)
           Is(f) == f = [i \in 0..N |-> IF i = 0 THEN start ELSE Into(f[i - 1], s[i], rule)]
           next == [i \in 1..N |-> [r \in U |-> Into(r, s[i], rule)]]
<1>1. CollapseBy(rule, s) = (CHOOSE f : Is(f))[N]
    BY DEF CollapseBy
<1>2. N \in Nat /\ start \in U
    OBVIOUS
<1>3. \A i \in 1..N, r \in U : Into(r, s[i], rule) \in U
    OBVIOUS
<1>4. next \in [1..N -> [U -> U]]
    BY <1>3
<1>5. \A i \in 1..N, r \in U : next[i][r] = Into(r, s[i], rule)
    OBVIOUS
<1>6. \A i \in 0..N : i # 0 => i \in 1..N /\ i - 1 \in 0..N
    BY <1>2
<1> HIDE DEF next, U, N, start
<1>7. PICK g \in [0..N -> U] : Runs(g, N, start, next)
    BY <1>2, <1>4, Iteration
<1>8. Is(g)
  <2>1. \A i \in 0..N : (IF i = 0 THEN start ELSE next[i][g[i - 1]])
                        = (IF i = 0 THEN start ELSE Into(g[i - 1], s[i], rule))
      BY <1>5, <1>6
  <2> QED BY <1>7, <2>1 DEF Runs
<1>9. PICK f : Is(f) /\ CollapseBy(rule, s) = f[N]
  <2> HIDE DEF Is
  <2> QED BY <1>1, <1>8
<1>10. f[0] = start /\ \A i \in 1..N : f[i] = Into(f[i - 1], s[i], rule)
  <2>1. f[0] = start
      BY <1>2, <1>9
  <2>2. ASSUME NEW i \in 1..N PROVE f[i] = Into(f[i - 1], s[i], rule)
    <3>1. i \in 0..N /\ i # 0
        BY <1>2
    <3>2. f[i] = IF i = 0 THEN start ELSE Into(f[i - 1], s[i], rule)
        BY <1>9, <3>1
    <3> QED BY <3>1, <3>2
  <2> QED BY <2>1, <2>2
<1> DEFINE S == {i \in 0..N : f[i] \in U}
<1>11. 0 \in S /\ \A i \in 1..N : i - 1 \in S => i \in S
  <2>1. \A i \in 1..N : i \in 0..N
      BY <1>2
  <2>2. 0 \in S
      BY <1>2, <1>10
  <2>3. ASSUME NEW i \in 1..N, i - 1 \in S PROVE i \in S
    <3>1. f[i - 1] \in U /\ f[i] = Into(f[i - 1], s[i], rule) /\ i \in 0..N
        BY <1>10, <2>1, <2>3
    <3>2. Into(f[i - 1], s[i], rule) \in U
        BY <1>3, <3>1
    <3> QED BY <3>1, <3>2
  <2> QED BY <2>2, <2>3
<1>12. \A i \in 0..N : i \in S
  <2> HIDE DEF S
  <2> QED BY <1>2, <1>11, UpTo
<1>13. f \in [0..N -> U]
    BY <1>9, <1>12
<1> QED BY <1>9, <1>10, <1>13 DEF Collapsing, U, N, start

LEMMA CollapseKeeps ==
    ASSUME NEW s, AreRecords(s), NEW rule
    PROVE  /\ AreRecords(CollapseBy(rule, s)) /\ Keeps(s, CollapseBy(rule, s))
           /\ (\A r \in ToSet(s) : Within(r)) => \A k \in ToSet(CollapseBy(rule, s)) : Within(k)
<1>1. PICK K, C, G, V, A : s \in Seq(RecordsOf(K, C, G, V, A))
    BY OfOneSet
<1> DEFINE R == RecordsOf(K, C, G, V, A)
           N == Len(s)
           t == CollapseBy(rule, s)
<1>2. \A kept \in Seq(R), record \in R :
          /\ Into(kept, record, rule) \in Seq(R)
          /\ Keeps(kept, Into(kept, record, rule))
          /\ \E k \in ToSet(Into(kept, record, rule)) : record.emails \subseteq k.emails
          /\ Within(record) /\ (\A r \in ToSet(kept) : Within(r)) => \A k \in ToSet(Into(kept, record, rule)) : Within(k)
    BY IntoKeeps
<1>3. s \in Seq(R) /\ N \in Nat /\ DOMAIN s = 1..N
    BY <1>1
<1> HIDE DEF R
<1>4. PICK f \in [0..N -> Seq(R)] :
          /\ f[0] = <<>>
          /\ \A i \in 1..N : f[i] = Into(f[i - 1], s[i], rule)
          /\ t = f[N]
  <2>1. PICK f \in [0..N -> Seq(R)] : Collapsing(f, s, rule)
      BY <1>2, <1>3, CollapsedBy
  <2> QED BY <2>1 DEF Collapsing
<1>5. \A i \in 1..N : i \in 0..N /\ i - 1 \in 0..N /\ s[i] \in R
    BY <1>3
<1>6. ToSet(s) = {s[i] : i \in 1..N}
    BY <1>3 DEF ToSet
<1>11. t \in Seq(R)
    BY <1>3, <1>4
<1> HIDE DEF N, t
<1> DEFINE Holds(i) ==
               /\ \A j \in 1..i : \E k \in ToSet(f[i]) : s[j].emails \subseteq k.emails
               /\ (\A j \in 1..i : Within(s[j])) => \A k \in ToSet(f[i]) : Within(k)
           S == {i \in 0..N : Holds(i)}
<1>7. 0 \in S
  <2>1. ToSet(f[0]) = {} /\ \A j : j \notin 1..0
      BY <1>4 DEF ToSet
  <2> QED BY <1>3, <2>1
<1>8. ASSUME NEW i \in 1..N, i - 1 \in S PROVE i \in S
  <2>1. /\ f[i] = Into(f[i - 1], s[i], rule) /\ f[i - 1] \in Seq(R) /\ s[i] \in R /\ i \in 0..N
        /\ \A j : j \in 1..i <=> j \in 1..(i - 1) \/ j = i
    <3>1. i \in 0..N /\ i - 1 \in 0..N /\ s[i] \in R
        BY <1>5
    <3>2. \A j : j \in 1..i <=> j \in 1..(i - 1) \/ j = i
        BY <1>3
    <3>3. f[i - 1] \in Seq(R) /\ f[i] = Into(f[i - 1], s[i], rule)
        BY <1>4, <3>1
    <3> QED BY <3>1, <3>2, <3>3
  <2>2. /\ Keeps(f[i - 1], f[i])
        /\ \E k \in ToSet(f[i]) : s[i].emails \subseteq k.emails
        /\ Within(s[i]) /\ (\A r \in ToSet(f[i - 1]) : Within(r)) => \A k \in ToSet(f[i]) : Within(k)
    <3> DEFINE kept == f[i - 1]
               record == s[i]
    <3>1. kept \in Seq(R) /\ record \in R /\ f[i] = Into(kept, record, rule)
        BY <2>1
    <3> HIDE DEF kept, record
    <3>2. /\ Keeps(kept, Into(kept, record, rule))
          /\ \E k \in ToSet(Into(kept, record, rule)) : record.emails \subseteq k.emails
          /\ Within(record) /\ (\A r \in ToSet(kept) : Within(r)) => \A k \in ToSet(Into(kept, record, rule)) : Within(k)
        BY <1>2, <3>1, Zenon
    <3>3. /\ Keeps(kept, f[i])
          /\ \E k \in ToSet(f[i]) : record.emails \subseteq k.emails
          /\ Within(record) /\ (\A r \in ToSet(kept) : Within(r)) => \A k \in ToSet(f[i]) : Within(k)
        BY <3>1, <3>2, Zenon
    <3> QED BY <3>3 DEF kept, record
  <2>3. Holds(i - 1)
      BY <1>8
  <2>4. \A j \in 1..i : \E k \in ToSet(f[i]) : s[j].emails \subseteq k.emails
    <3>1. ASSUME NEW j \in 1..(i - 1) PROVE \E k \in ToSet(f[i]) : s[j].emails \subseteq k.emails
      <4>1. PICK r \in ToSet(f[i - 1]) : s[j].emails \subseteq r.emails
          BY <2>3
      <4>2. PICK k \in ToSet(f[i]) : r.emails \subseteq k.emails
          BY <2>2, <4>1 DEF Keeps
      <4> QED BY <4>1, <4>2
    <3> QED BY <2>1, <2>2, <3>1
  <2>5. ASSUME \A j \in 1..i : Within(s[j]) PROVE \A k \in ToSet(f[i]) : Within(k)
      BY <2>1, <2>2, <2>3, <2>5
  <2> QED BY <2>1, <2>4, <2>5
<1>9. \A i \in 0..N : i \in S
  <2> HIDE DEF S
  <2> QED BY <1>3, <1>7, <1>8, UpTo
<1>10. Holds(N)
  <2>1. N \in 0..N
      BY <1>3
  <2>2. N \in S
    <3> HIDE DEF S
    <3> QED BY <1>9, <2>1
  <2> HIDE DEF Holds
  <2> QED BY <2>2
<1>12. AreRecords(t)
    BY <1>11, RecordsAre DEF R
<1>13. Keeps(s, t)
    BY <1>4, <1>6, <1>10 DEF Keeps
<1>14. (\A r \in ToSet(s) : Within(r)) => \A k \in ToSet(t) : Within(k)
    BY <1>4, <1>6, <1>10
<1> QED BY <1>12, <1>13, <1>14 DEF t

LEMMA DedupeKeeps ==
    ASSUME NEW s, AreRecords(s)
    PROVE  /\ AreRecords(DedupeExtractedRecords(s)) /\ Keeps(s, DedupeExtractedRecords(s))
           /\ (\A r \in ToSet(s) : Within(r)) => \A k \in ToSet(DedupeExtractedRecords(s)) : Within(k)
<1> DEFINE t == CollapseBy("recordKey", s)
           u == CollapseBy("softKey", t)
<1>1. /\ AreRecords(t) /\ Keeps(s, t)
      /\ (\A r \in ToSet(s) : Within(r)) => \A k \in ToSet(t) : Within(k)
    BY CollapseKeeps
<1> HIDE DEF t
<1>2. /\ AreRecords(u) /\ Keeps(t, u)
      /\ (\A r \in ToSet(t) : Within(r)) => \A k \in ToSet(u) : Within(k)
    BY <1>1, CollapseKeeps
<1>3. DedupeExtractedRecords(s) = u
    BY DEF DedupeExtractedRecords, t
<1> HIDE DEF u
<1>4. Keeps(s, u)
  <2>1. ASSUME NEW r \in ToSet(s) PROVE \E k \in ToSet(u) : r.emails \subseteq k.emails
    <3>1. PICK h \in ToSet(t) : r.emails \subseteq h.emails
        BY <1>1 DEF Keeps
    <3>2. PICK k \in ToSet(u) : h.emails \subseteq k.emails
        BY <1>2 DEF Keeps
    <3> QED BY <3>1, <3>2
  <2> QED BY <2>1 DEF Keeps
<1> QED BY <1>1, <1>2, <1>3, <1>4

----------------------------------------------------------------------------
(* What a page shows: of entries these records were made, one for each that *)
(* has a name, with its addresses.                                          *)
Covered(records, entries) ==
    /\ AreRecords(records)
    /\ \A e \in entries : e.name # None => \E r \in ToSet(records) : r.emails = ToSet(e.emails)
    /\ records # <<>> => \E e \in entries : e.name # None

LEMMA RecordsJoin ==
    ASSUME NEW s, NEW t, AreRecords(s), AreRecords(t)
    PROVE  AreRecords(s \o t) /\ ToSet(s \o t) = ToSet(s) \cup ToSet(t)
<1> DEFINE X == ToSet(s) \cup ToSet(t)
           Y == ToSet(s)
           Z == ToSet(t)
           u == s \o t
<1>1. s \in Seq(Y) /\ t \in Seq(Z) /\ X = Y \cup Z
    BY DEF AreRecords
<1> HIDE DEF X, Y, Z, u
<1>2. s \in Seq(X) /\ t \in Seq(X)
    BY <1>1
<1>3. u \in Seq(X) /\ ToSet(u) = X
    BY <1>2, Joined DEF u, X
<1>4. \A r \in X : IsRecord(r)
    BY DEF X, AreRecords
<1>5. AreRecords(u) /\ ToSet(u) = X
    BY <1>3, <1>4 DEF AreRecords
<1> QED BY <1>5 DEF u, X

LEMMA CoveredNone == ASSUME NEW E, \A e \in E : e.name = None PROVE Covered(<<>>, E)
<1>1. ToSet(<<>>) = {} /\ <<>> \in Seq({})
    BY DEF ToSet
<1> QED BY <1>1 DEF Covered, AreRecords

LEMMA CoveredJoin ==
    ASSUME NEW s, NEW t, NEW E, NEW F, Covered(s, E), Covered(t, F)
    PROVE  Covered(s \o t, E \cup F)
<1>1. AreRecords(s) /\ AreRecords(t)
    BY DEF Covered
<1>2. AreRecords(s \o t) /\ ToSet(s \o t) = ToSet(s) \cup ToSet(t)
    BY <1>1, RecordsJoin
<1>3. s \o t # <<>> => s # <<>> \/ t # <<>>
  <2>1. s = <<>> /\ t = <<>> => s \o t = <<>>
      OBVIOUS
  <2> QED BY <2>1
<1> DEFINE u == s \o t
<1> HIDE DEF u
<1> QED BY <1>1, <1>2, <1>3 DEF Covered, u

(* What was made of each part, one after the other, was made of them all.   *)
LEMMA CoveredEach ==
    ASSUME NEW n \in Nat, NEW seqs, NEW E, DOMAIN seqs = 1..n, seqs = [i \in 1..n |-> seqs[i]],
           \A i \in 1..n : Covered(seqs[i], E[i])
    PROVE  Covered(FlattenSeq(seqs), UNION {E[i] : i \in 1..n})
<1> DEFINE X == UNION {ToSet(seqs[i]) : i \in 1..n}
           flat == FlattenSeq(seqs)
<1>1. \A i \in 1..n : seqs[i] \in Seq(X)
  <2>1. ASSUME NEW i \in 1..n PROVE seqs[i] \in Seq(X)
    <3> DEFINE Y == ToSet(seqs[i])
    <3>1. seqs[i] \in Seq(Y) /\ Y \subseteq X
        BY DEF Covered, AreRecords
    <3> HIDE DEF X, Y
    <3> QED BY <3>1
  <2> QED BY <2>1
<1>2. seqs \in Seq(Seq(X)) /\ Len(seqs) = n
  <2> DEFINE Z == Seq(X)
  <2>1. seqs \in [1..n -> Z]
      BY <1>1
  <2> HIDE DEF Z
  <2>2. seqs \in Seq(Z) /\ Len(seqs) = n
      BY <2>1
  <2> QED BY <2>2 DEF Z
<1> HIDE DEF flat
<1>3. flat \in Seq(X) /\ ToSet(flat) = X
    BY <1>2, FlattenedAre DEF flat
<1>4. \A r \in X : IsRecord(r)
    BY DEF Covered, AreRecords
<1>5. AreRecords(flat)
    BY <1>3, <1>4 DEF AreRecords
<1>6. ASSUME NEW i \in 1..n, NEW e \in E[i], e.name # None PROVE \E r \in ToSet(flat) : r.emails = ToSet(e.emails)
    BY <1>3, <1>6 DEF Covered
<1>7. ASSUME flat # <<>> PROVE \E e \in UNION {E[i] : i \in 1..n} : e.name # None
  <2>1. PICK r \in X : TRUE
    <3>1. Len(flat) # 0 /\ Len(flat) \in Nat
      <4> HIDE DEF X
      <4> QED BY <1>3, <1>7
    <3>2. 1 \in DOMAIN flat
      <4> HIDE DEF X
      <4> QED BY <1>3, <3>1
    <3>3. flat[1] \in ToSet(flat)
        BY <3>2 DEF ToSet
    <3> QED BY <1>3, <3>3
  <2>2. PICK i \in 1..n : r \in ToSet(seqs[i])
      OBVIOUS
  <2>3. seqs[i] # <<>>
    <3>1. ToSet(<<>>) = {}
        BY DEF ToSet
    <3> QED BY <2>2, <3>1
  <2> QED BY <2>3 DEF Covered
<1> HIDE DEF X
<1>8. Covered(flat, UNION {E[i] : i \in 1..n})
    BY <1>5, <1>6, <1>7 DEF Covered
<1> QED BY <1>8 DEF flat

LEMMA CoveredOne ==
    ASSUME NEW e, NEW key, NEW confidence
    PROVE  Covered(BuildPersonRecord(e, key, confidence), {e})
<1>1. CASE e.name = None
  <2>1. BuildPersonRecord(e, key, confidence) = <<>>
      BY <1>1 DEF BuildPersonRecord
  <2> QED BY <1>1, <2>1, CoveredNone
<1>2. CASE e.name # None
  <2> DEFINE r == [key |-> key, confidence |-> confidence, profile |-> e.profile,
                   published |-> [full_name_published |-> e.name, title_published |-> e.title,
                                  organization_published |-> e.organization, phone_published |-> e.phone],
                   emails |-> ToSet(e.emails)]
  <2>1. BuildPersonRecord(e, key, confidence) = <<r>>
      BY <1>2 DEF BuildPersonRecord
  <2>2. IsRecord(r)
      BY <1>2 DEF IsRecord, RecordFields
  <2>3. r.emails = ToSet(e.emails)
      OBVIOUS
  <2> HIDE DEF r
  <2>4. ToSet(<<r>>) = {r} /\ <<r>> \in Seq({r}) /\ <<r>> # <<>>
      BY DEF ToSet
  <2> QED BY <1>2, <2>1, <2>2, <2>3, <2>4 DEF Covered, AreRecords
<1> QED BY <1>1, <1>2

(* One record of each entry of a sequence.                                  *)
LEMMA CoveredAll ==
    ASSUME NEW s, s \in Seq(ToSet(s)), NEW seqs, seqs = [i \in DOMAIN s |-> seqs[i]],
           \A i \in DOMAIN s : Covered(seqs[i], {s[i]})
    PROVE  Covered(FlattenSeq(seqs), ToSet(s))
<1> DEFINE n == Len(s)
           E == [i \in 1..n |-> {s[i]}]
<1>1. n \in Nat /\ DOMAIN s = 1..n
    OBVIOUS
<1>2. ToSet(s) = UNION {E[i] : i \in 1..n}
    BY <1>1 DEF ToSet
<1>3. \A i \in 1..n : Covered(seqs[i], E[i])
    BY <1>1
<1>4. DOMAIN seqs = 1..n /\ seqs = [i \in 1..n |-> seqs[i]]
    BY <1>1
<1> HIDE DEF n, E
<1>5. Covered(FlattenSeq(seqs), UNION {E[i] : i \in 1..n})
    BY <1>1, <1>3, <1>4, CoveredEach
<1> QED BY <1>2, <1>5

LEMMA StructuredCovered == ASSUME NEW page, IsPage(page) PROVE Covered(ExtractStructured(page), ToSet(page.structured))
<1> DEFINE s == page.structured
           seqs == [i \in DOMAIN s |-> BuildPersonRecord(s[i], <<"structured", AddressOr(s[i], i)>>, 95)]
<1>1. s \in Seq(ToSet(s))
    BY DEF IsPage
<1>2. ExtractStructured(page) = FlattenSeq(seqs)
    BY DEF ExtractStructured
<1>3. \A i \in DOMAIN s : Covered(seqs[i], {s[i]})
    BY CoveredOne
<1>4. seqs = [i \in DOMAIN s |-> seqs[i]]
    OBVIOUS
<1> HIDE DEF s, seqs
<1>5. Covered(FlattenSeq(seqs), ToSet(s))
    BY <1>1, <1>3, <1>4, CoveredAll
<1> QED BY <1>2, <1>5 DEF s

LEMMA MailtosCovered == ASSUME NEW page, IsPage(page) PROVE Covered(ExtractFromMailtoLinks(page), ToSet(page.mailtos))
<1> DEFINE s == page.mailtos
           seqs == [i \in DOMAIN s |-> BuildPersonRecord(s[i], <<"mailto", s[i].emails, i>>, 45)]
<1>1. s \in Seq(ToSet(s))
    BY DEF IsPage
<1>2. ExtractFromMailtoLinks(page) = FlattenSeq(seqs)
    BY DEF ExtractFromMailtoLinks
<1>3. \A i \in DOMAIN s : Covered(seqs[i], {s[i]})
    BY CoveredOne
<1>4. seqs = [i \in DOMAIN s |-> seqs[i]]
    OBVIOUS
<1> HIDE DEF s, seqs
<1>5. Covered(FlattenSeq(seqs), ToSet(s))
    BY <1>1, <1>3, <1>4, CoveredAll
<1> QED BY <1>2, <1>5 DEF s

LEMMA TableCovered == ASSUME NEW table, NEW t, table.rows \in Seq(ToSet(table.rows)) PROVE Covered(FromTable(table, t), ToSet(table.rows))
<1> DEFINE s == table.rows
           seqs == [i \in DOMAIN s |-> BuildPersonRecord(table.rows[i], <<"table", t, i, table.rows[i].name>>, table.score)]
<1>1. FromTable(table, t) = FlattenSeq(seqs)
    BY DEF FromTable
<1>2. \A i \in DOMAIN s : Covered(seqs[i], {s[i]})
    BY CoveredOne
<1>3. seqs = [i \in DOMAIN s |-> seqs[i]] /\ s \in Seq(ToSet(s))
    OBVIOUS
<1> HIDE DEF s, seqs
<1>4. Covered(FlattenSeq(seqs), ToSet(s))
    BY <1>2, <1>3, CoveredAll
<1> QED BY <1>1, <1>4 DEF s

LEMMA ListCovered == ASSUME NEW list, NEW l, list \in Seq(ToSet(list)) PROVE Covered(FromDefinitionList(list, l), ToSet(list))
<1> DEFINE s == list
           seqs == [i \in DOMAIN s |-> BuildPersonRecord(list[i], <<"dl", l, i, list[i].name>>, 70)]
<1>1. FromDefinitionList(list, l) = FlattenSeq(seqs)
    BY DEF FromDefinitionList
<1>2. \A i \in DOMAIN s : Covered(seqs[i], {s[i]})
    BY CoveredOne
<1>3. seqs = [i \in DOMAIN s |-> seqs[i]] /\ s \in Seq(ToSet(s))
    OBVIOUS
<1> HIDE DEF s, seqs
<1>4. Covered(FlattenSeq(seqs), ToSet(s))
    BY <1>2, <1>3, CoveredAll
<1> QED BY <1>1, <1>4 DEF s

LEMMA TablesCovered ==
    ASSUME NEW page, IsPage(page)
    PROVE  Covered(ExtractFromTables(page), UNION {ToSet(table.rows) : table \in {t \in ToSet(page.tables) : t.score >= 50}})
<1> DEFINE s == page.tables
           n == Len(s)
           seqs == [i \in DOMAIN s |-> IF s[i].score >= 50 THEN FromTable(s[i], i) ELSE <<>>]
           E == [i \in 1..n |-> IF s[i].score >= 50 THEN ToSet(s[i].rows) ELSE {}]
<1>1. s \in Seq(ToSet(s))
    BY DEF IsPage
<1>2. ExtractFromTables(page) = FlattenSeq(seqs)
    BY DEF ExtractFromTables
<1>3. n \in Nat /\ DOMAIN s = 1..n /\ ToSet(s) = {s[i] : i \in 1..n}
    BY <1>1 DEF ToSet
<1>4. ASSUME NEW i \in 1..n PROVE Covered(seqs[i], E[i])
  <2>1. s[i] \in ToSet(s)
      BY <1>3
  <2>2. s[i].rows \in Seq(ToSet(s[i].rows))
      BY <2>1 DEF IsPage
  <2>3. CASE s[i].score >= 50
    <3>1. Covered(FromTable(s[i], i), ToSet(s[i].rows))
        BY <2>2, TableCovered
    <3> QED BY <1>3, <2>3, <3>1
  <2>4. CASE ~(s[i].score >= 50)
    <3>1. seqs[i] = <<>> /\ E[i] = {}
        BY <1>3, <2>4
    <3> QED BY <3>1, CoveredNone
  <2> QED BY <2>3, <2>4
<1>5. DOMAIN seqs = 1..n /\ seqs = [i \in 1..n |-> seqs[i]]
    BY <1>3
<1>6. UNION {E[i] : i \in 1..n} = UNION {ToSet(table.rows) : table \in {t \in ToSet(page.tables) : t.score >= 50}}
  <2>1. ASSUME NEW e PROVE e \in UNION {E[i] : i \in 1..n} <=> e \in UNION {ToSet(table.rows) : table \in {t \in ToSet(page.tables) : t.score >= 50}}
    <3>1. e \in UNION {E[i] : i \in 1..n} <=> \E i \in 1..n : (s[i].score >= 50) /\ e \in ToSet(s[i].rows)
        OBVIOUS
    <3>2. e \in UNION {ToSet(table.rows) : table \in {t \in ToSet(page.tables) : t.score >= 50}} <=> \E x \in ToSet(s) : (x.score >= 50) /\ e \in ToSet(x.rows)
        OBVIOUS
    <3> HIDE DEF E, seqs
    <3> QED BY <1>3, <3>1, <3>2
  <2> QED BY <2>1
<1> HIDE DEF s, n, seqs, E
<1>7. Covered(FlattenSeq(seqs), UNION {E[i] : i \in 1..n})
    BY <1>3, <1>4, <1>5, CoveredEach
<1> QED BY <1>2, <1>6, <1>7

LEMMA ListsCovered ==
    ASSUME NEW page, IsPage(page)
    PROVE  Covered(ExtractFromDefinitionLists(page), UNION {ToSet(list) : list \in {l \in ToSet(page.lists) : Len(l) >= 2}})
<1> DEFINE s == page.lists
           n == Len(s)
           seqs == [i \in DOMAIN s |-> IF Len(s[i]) >= 2 THEN FromDefinitionList(s[i], i) ELSE <<>>]
           E == [i \in 1..n |-> IF Len(s[i]) >= 2 THEN ToSet(s[i]) ELSE {}]
<1>1. s \in Seq(ToSet(s))
    BY DEF IsPage
<1>2. ExtractFromDefinitionLists(page) = FlattenSeq(seqs)
    BY DEF ExtractFromDefinitionLists
<1>3. n \in Nat /\ DOMAIN s = 1..n /\ ToSet(s) = {s[i] : i \in 1..n}
    BY <1>1 DEF ToSet
<1>4. ASSUME NEW i \in 1..n PROVE Covered(seqs[i], E[i])
  <2>1. s[i] \in ToSet(s)
      BY <1>3
  <2>2. s[i] \in Seq(ToSet(s[i]))
      BY <2>1 DEF IsPage
  <2>3. CASE Len(s[i]) >= 2
    <3>1. Covered(FromDefinitionList(s[i], i), ToSet(s[i]))
        BY <2>2, ListCovered
    <3> QED BY <1>3, <2>3, <3>1
  <2>4. CASE ~(Len(s[i]) >= 2)
    <3>1. seqs[i] = <<>> /\ E[i] = {}
        BY <1>3, <2>4
    <3> QED BY <3>1, CoveredNone
  <2> QED BY <2>3, <2>4
<1>5. DOMAIN seqs = 1..n /\ seqs = [i \in 1..n |-> seqs[i]]
    BY <1>3
<1>6. UNION {E[i] : i \in 1..n} = UNION {ToSet(list) : list \in {l \in ToSet(page.lists) : Len(l) >= 2}}
  <2>1. ASSUME NEW e PROVE e \in UNION {E[i] : i \in 1..n} <=> e \in UNION {ToSet(list) : list \in {l \in ToSet(page.lists) : Len(l) >= 2}}
    <3>1. e \in UNION {E[i] : i \in 1..n} <=> \E i \in 1..n : (Len(s[i]) >= 2) /\ e \in ToSet(s[i])
        OBVIOUS
    <3>2. e \in UNION {ToSet(list) : list \in {l \in ToSet(page.lists) : Len(l) >= 2}} <=> \E x \in ToSet(s) : (Len(x) >= 2) /\ e \in ToSet(x)
        OBVIOUS
    <3> HIDE DEF E, seqs
    <3> QED BY <1>3, <3>1, <3>2
  <2> QED BY <2>1
<1> HIDE DEF s, n, seqs, E
<1>7. Covered(FlattenSeq(seqs), UNION {E[i] : i \in 1..n})
    BY <1>3, <1>4, <1>5, CoveredEach
<1> QED BY <1>2, <1>6, <1>7

(* Of cards, the first group that has a person in it.                       *)
LEMMA GroupCovered ==
    ASSUME NEW group, group \in Seq(ToSet(group))
    PROVE  Covered(FromCardGroup(group), {card \in ToSet(group) : IsPerson(card)})
<1> DEFINE n == Len(group)
           seqs == [i \in DOMAIN group |->
                       IF IsPerson(group[i])
                       THEN BuildPersonRecord(group[i], <<"card", group[i].name, i>>, IF HasContact(group[i]) THEN 80 ELSE 60)
                       ELSE <<>>]
           E == [i \in 1..n |-> IF IsPerson(group[i]) THEN {group[i]} ELSE {}]
<1>1. n \in Nat /\ DOMAIN group = 1..n /\ ToSet(group) = {group[i] : i \in 1..n}
    BY DEF ToSet
<1>2. FromCardGroup(group) = FlattenSeq(seqs)
    BY DEF FromCardGroup
<1>3. ASSUME NEW i \in 1..n PROVE Covered(seqs[i], E[i])
  <2>1. CASE IsPerson(group[i])
    <3>1. Covered(BuildPersonRecord(group[i], <<"card", group[i].name, i>>, IF HasContact(group[i]) THEN 80 ELSE 60),
                  {group[i]})
        BY CoveredOne
    <3> QED BY <1>1, <2>1, <3>1
  <2>2. CASE ~IsPerson(group[i])
    <3>1. seqs[i] = <<>> /\ E[i] = {}
        BY <1>1, <2>2
    <3> QED BY <3>1, CoveredNone
  <2> QED BY <2>1, <2>2
<1>4. DOMAIN seqs = 1..n /\ seqs = [i \in 1..n |-> seqs[i]]
    BY <1>1
<1>5. UNION {E[i] : i \in 1..n} = {card \in ToSet(group) : IsPerson(card)}
  <2>1. ASSUME NEW e PROVE e \in UNION {E[i] : i \in 1..n} <=> e \in {card \in ToSet(group) : IsPerson(card)}
    <3>1. e \in UNION {E[i] : i \in 1..n} <=> \E i \in 1..n : IsPerson(group[i]) /\ e = group[i]
        OBVIOUS
    <3> HIDE DEF E, seqs
    <3> QED BY <1>1, <3>1
  <2> QED BY <2>1
<1> HIDE DEF n, seqs, E
<1>6. n \in Nat /\ \A i \in 1..n : Covered(seqs[i], E[i])
    BY <1>1, <1>3
<1>7. Covered(FlattenSeq(seqs), UNION {E[i] : i \in 1..n})
    BY <1>4, <1>6, CoveredEach, SMTT(30)
<1> QED BY <1>2, <1>5, <1>7

LEMMA CardsCovered == ASSUME NEW page, IsPage(page) PROVE Covered(ExtractFromCards(page), Roster(page))
<1> DEFINE cards == page.cards
           found == [g \in DOMAIN cards |-> IF Len(cards[g]) >= 3 THEN FromCardGroup(cards[g]) ELSE <<>>]
           rosters == {g \in DOMAIN found : found[g] # <<>>}
           shown == {g \in DOMAIN cards :
                        Len(cards[g]) >= 3 /\ \E card \in ToSet(cards[g]) : IsPerson(card) /\ card.name # None}
<1>1. ExtractFromCards(page) = IF rosters = {} THEN <<>> ELSE found[Min(rosters)]
    BY DEF ExtractFromCards
<1>2. Roster(page) = IF shown = {} THEN {} ELSE {card \in ToSet(cards[Min(shown)]) : IsPerson(card)}
    BY DEF Roster
<1>3. cards \in Seq(ToSet(cards)) /\ \A g \in DOMAIN cards : cards[g] \in Seq(ToSet(cards[g]))
  <2>1. cards \in Seq(ToSet(cards))
      BY DEF IsPage
  <2>2. \A g \in DOMAIN cards : cards[g] \in ToSet(cards)
      BY DEF ToSet
  <2> QED BY <2>1, <2>2 DEF IsPage
<1>4. \A g \in DOMAIN cards : Covered(FromCardGroup(cards[g]), {card \in ToSet(cards[g]) : IsPerson(card)})
    BY <1>3, GroupCovered
<1>5. rosters = shown
  <2>1. ASSUME NEW g \in DOMAIN cards PROVE g \in rosters <=> g \in shown
    <3>1. Covered(FromCardGroup(cards[g]), {card \in ToSet(cards[g]) : IsPerson(card)})
        BY <1>4
    <3>2. FromCardGroup(cards[g]) # <<>> <=> \E card \in ToSet(cards[g]) : IsPerson(card) /\ card.name # None
      <4>1. ToSet(<<>>) = {}
          BY DEF ToSet
      <4> QED BY <3>1, <4>1 DEF Covered
    <3> QED BY <3>2
  <2> HIDE DEF found
  <2>2. DOMAIN found = DOMAIN cards
      BY DEF found
  <2> QED BY <2>1, <2>2
<1>6. CASE shown = {}
    BY <1>1, <1>2, <1>5, <1>6, CoveredNone
<1>7. CASE shown # {}
  <2>1. shown \subseteq Nat /\ shown \subseteq DOMAIN cards
      BY <1>3
  <2>2. Min(shown) \in shown
    <3> HIDE DEF shown
    <3>1. \E m \in shown : \A i \in shown : m <= i
        BY <1>7, <2>1, LeastNumber
    <3> QED BY <3>1 DEF Min
  <2> DEFINE m == Min(shown)
  <2>3. m \in shown /\ ExtractFromCards(page) = found[m] /\ Roster(page) = {card \in ToSet(cards[m]) : IsPerson(card)}
      BY <1>1, <1>2, <1>5, <1>7, <2>2
  <2> HIDE DEF m
  <2>4. found[m] = FromCardGroup(cards[m]) /\ m \in DOMAIN cards
      BY <2>3
  <2> QED BY <1>4, <2>3, <2>4
<1> QED BY <1>6, <1>7

(* Every entry of a page that has a name is in a record of the page.        *)
LEMMA ExtractCovers ==
    ASSUME NEW page, IsPage(page)
    PROVE  /\ AreRecords(Extract(page))
           /\ \A e \in Entries(page) : e.name # None => \E r \in ToSet(Extract(page)) : ToSet(e.emails) \subseteq r.emails
<1>1. ASSUME NEW s, NEW E, Covered(s, E)
      PROVE  /\ AreRecords(DedupeExtractedRecords(s))
             /\ \A e \in E : e.name # None =>
                   \E r \in ToSet(DedupeExtractedRecords(s)) : ToSet(e.emails) \subseteq r.emails
  <2>1. AreRecords(DedupeExtractedRecords(s)) /\ Keeps(s, DedupeExtractedRecords(s))
      BY <1>1, DedupeKeeps DEF Covered
  <2> QED BY <1>1, <2>1 DEF Covered, Keeps
<1>2. CASE page.format = "json"
  <2> DEFINE s == page.items
             seqs == [i \in DOMAIN s |-> BuildPersonRecord(s[i], <<"json", AddressOr(s[i], i)>>, 92)]
  <2>1. s \in Seq(ToSet(s))
      BY DEF IsPage
  <2>2. \A i \in DOMAIN s : Covered(seqs[i], {s[i]})
      BY CoveredOne
  <2>3. seqs = [i \in DOMAIN s |-> seqs[i]]
      OBVIOUS
  <2>4. Extract(page) = DedupeExtractedRecords(FlattenSeq(seqs))
      BY <1>2 DEF Extract, ExtractJson
  <2>5. Entries(page) = ToSet(s)
      BY <1>2 DEF Entries
  <2> HIDE DEF s, seqs
  <2>6. Covered(FlattenSeq(seqs), ToSet(s))
      BY <2>1, <2>2, <2>3, CoveredAll
  <2> QED BY <1>1, <2>4, <2>5, <2>6
<1>3. CASE page.format # "json"
  <2> DEFINE marked == ExtractStructured(page) \o ExtractFromTables(page) \o ExtractFromCards(page)
                           \o ExtractFromDefinitionLists(page)
             mailtos == ExtractFromMailtoLinks(page)
             found == IF marked = <<>> THEN mailtos ELSE marked
  <2>1. Covered(marked, MarkedEntries(page))
    <3> DEFINE T == UNION {ToSet(table.rows) : table \in {x \in ToSet(page.tables) : x.score >= 50}}
               L == UNION {ToSet(list) : list \in {x \in ToSet(page.lists) : Len(x) >= 2}}
               S == ToSet(page.structured)
               one == ExtractStructured(page)
               two == ExtractFromTables(page)
               three == ExtractFromCards(page)
               four == ExtractFromDefinitionLists(page)
    <3>1. Covered(one, S) /\ Covered(two, T) /\ Covered(three, Roster(page)) /\ Covered(four, L)
        BY StructuredCovered, TablesCovered, CardsCovered, ListsCovered
    <3>2. MarkedEntries(page) = ((S \cup T) \cup Roster(page)) \cup L
      <4>1. \A e : e \in MarkedEntries(page) <=> e \in S \/ e \in T \/ e \in Roster(page) \/ e \in L
          BY DEF MarkedEntries
      <4> HIDE DEF S, T, L
      <4> QED BY <4>1
    <3>3. marked = ((one \o two) \o three) \o four
        OBVIOUS
    <3> HIDE DEF T, L, S, one, two, three, four
    <3>4. Covered(one \o two, S \cup T)
        BY <3>1, CoveredJoin
    <3>5. Covered((one \o two) \o three, (S \cup T) \cup Roster(page))
        BY <3>1, <3>4, CoveredJoin
    <3>6. Covered(((one \o two) \o three) \o four, ((S \cup T) \cup Roster(page)) \cup L)
        BY <3>1, <3>5, CoveredJoin
    <3> QED BY <3>2, <3>3, <3>6
  <2>2. Covered(mailtos, ToSet(page.mailtos))
      BY MailtosCovered
  <2>3. Extract(page) = IF found = <<>> THEN ExtractProfileLinks(page) ELSE DedupeExtractedRecords(found)
      BY <1>3 DEF Extract, ExtractHtml
  <2>4. Entries(page) = IF \E entry \in MarkedEntries(page) : entry.name # None THEN MarkedEntries(page)
                        ELSE ToSet(page.mailtos)
      BY <1>3 DEF Entries
  <2> HIDE DEF marked, mailtos
  <2>5. ToSet(<<>>) = {}
      BY DEF ToSet
  <2>6. Covered(found, Entries(page))
    <3>1. CASE marked = <<>>
      <4>1. ~\E entry \in MarkedEntries(page) : entry.name # None
          BY <2>1, <2>5, <3>1 DEF Covered
      <4> QED BY <2>2, <2>4, <3>1, <4>1
    <3>2. CASE marked # <<>>
      <4>1. \E entry \in MarkedEntries(page) : entry.name # None
          BY <2>1, <3>2 DEF Covered
      <4> QED BY <2>1, <2>4, <3>2, <4>1
    <3> QED BY <3>1, <3>2
  <2> HIDE DEF found
  <2>7. CASE found # <<>>
      BY <1>1, <2>3, <2>6, <2>7
  <2>8. CASE found = <<>>
    <3>1. \A e \in Entries(page) : e.name = None
        BY <2>5, <2>6, <2>8 DEF Covered
    <3>2. AreRecords(ExtractProfileLinks(page))
      <4> DEFINE s == page.profiles
                 seqs == [i \in DOMAIN s |-> BuildPersonRecord(s[i], s[i].profile, 65)]
      <4>1. s \in Seq(ToSet(s))
          BY DEF IsPage
      <4>2. \A i \in DOMAIN s : Covered(seqs[i], {s[i]})
          BY CoveredOne
      <4>3. seqs = [i \in DOMAIN s |-> seqs[i]]
          OBVIOUS
      <4>4. ExtractProfileLinks(page) = IF ~page.announced THEN <<>> ELSE FlattenSeq(seqs)
          BY DEF ExtractProfileLinks
      <4> HIDE DEF s, seqs
      <4>5. Covered(FlattenSeq(seqs), ToSet(s))
          BY <4>1, <4>2, <4>3, CoveredAll
      <4>6. Covered(<<>>, {})
          BY CoveredNone
      <4> QED BY <4>4, <4>5, <4>6 DEF Covered
    <3> QED BY <2>3, <2>8, <3>1, <3>2
  <2> QED BY <2>7, <2>8
<1> QED BY <1>2, <1>3

(* A record whose name may be kept is kept, within the boundary.            *)
LEMMA SafeOf ==
    ASSUME NEW r, IsRecord(r)
    PROVE  /\ AreRecords(CheckpointSafe(r)) /\ \A k \in ToSet(CheckpointSafe(r)) : Within(k)
           /\ ScanForProhibitedData("full_name_published", r.published["full_name_published"]) = {} =>
                 \E k \in ToSet(CheckpointSafe(r)) : k.emails = r.emails
<1> DEFINE safe == ApplyDataBoundary(r.published)
           k == [key |-> <<safe, r.profile>>, confidence |-> r.confidence, profile |-> r.profile, published |-> safe,
                 emails |-> r.emails]
<1>1. safe = [f \in RecordFields |-> IF r.published[f] # None /\ ScanForProhibitedData(f, r.published[f]) # {} THEN None
                               ELSE r.published[f]]
  <2>1. DOMAIN r.published = RecordFields
      BY DEF IsRecord
  <2> QED BY <2>1 DEF ApplyDataBoundary
<1>2. CheckpointSafe(r) = IF safe["full_name_published"] = None THEN <<>> ELSE <<k>>
    BY DEF CheckpointSafe
<1>3. "full_name_published" \in RecordFields
    BY DEF RecordFields
<1>4. ScanForProhibitedData("full_name_published", r.published["full_name_published"]) = {} =>
          safe["full_name_published"] # None
    BY <1>1, <1>3 DEF IsRecord
<1>5. \A f \in RecordFields : safe[f] = None \/ ScanForProhibitedData(f, safe[f]) = {}
    BY <1>1
<1>6. safe = [f \in RecordFields |-> safe[f]]
    BY <1>1
<1> HIDE DEF safe
<1>7. /\ k = [key |-> k.key, confidence |-> k.confidence, profile |-> k.profile, published |-> k.published,
               emails |-> k.emails]
      /\ k.published = safe /\ k.emails = r.emails
    OBVIOUS
<1> HIDE DEF k
<1>8. CASE safe["full_name_published"] = None
  <2>1. ToSet(<<>>) = {} /\ <<>> \in Seq({})
      BY DEF ToSet
  <2> QED BY <1>2, <1>4, <1>8, <2>1 DEF AreRecords
<1>9. CASE safe["full_name_published"] # None
  <2>1. IsRecord(k) /\ Within(k) /\ k.emails = r.emails
      BY <1>5, <1>6, <1>7, <1>9 DEF IsRecord, Within
  <2>2. ToSet(<<k>>) = {k} /\ <<k>> \in Seq({k})
      BY DEF ToSet
  <2> QED BY <1>2, <1>9, <2>1, <2>2 DEF AreRecords
<1> QED BY <1>8, <1>9

LEMMA SafeRecordsAre ==
    ASSUME NEW s, AreRecords(s)
    PROVE  /\ AreRecords(SafeRecords(s)) /\ \A k \in ToSet(SafeRecords(s)) : Within(k)
           /\ \A r \in ToSet(s) :
                 ScanForProhibitedData("full_name_published", r.published["full_name_published"]) = {} =>
                    \E k \in ToSet(SafeRecords(s)) : k.emails = r.emails
<1> DEFINE n == Len(s)
           seqs == [i \in DOMAIN s |-> CheckpointSafe(s[i])]
           X == UNION {ToSet(seqs[i]) : i \in 1..n}
<1>1. n \in Nat /\ DOMAIN s = 1..n /\ ToSet(s) = {s[i] : i \in 1..n}
    BY DEF AreRecords, ToSet
<1>2. SafeRecords(s) = FlattenSeq(seqs)
    BY DEF SafeRecords
<1>3. \A i \in 1..n : IsRecord(s[i]) /\ seqs[i] = CheckpointSafe(s[i])
    BY <1>1 DEF AreRecords
<1>4. ASSUME NEW i \in 1..n
      PROVE  /\ AreRecords(seqs[i]) /\ \A k \in ToSet(seqs[i]) : Within(k)
             /\ ScanForProhibitedData("full_name_published", s[i].published["full_name_published"]) = {} =>
                   \E k \in ToSet(seqs[i]) : k.emails = s[i].emails
    BY <1>3, SafeOf
<1>5. seqs \in Seq(Seq(X)) /\ Len(seqs) = n
  <2>1. ASSUME NEW i \in 1..n PROVE seqs[i] \in Seq(X)
    <3> DEFINE Y == ToSet(seqs[i])
    <3>1. seqs[i] \in Seq(Y) /\ Y \subseteq X
        BY <1>4 DEF AreRecords
    <3> HIDE DEF X, Y
    <3> QED BY <3>1
  <2> DEFINE Z == Seq(X)
  <2>2. seqs \in [1..n -> Z] /\ n \in Nat
      BY <1>1, <2>1
  <2> HIDE DEF Z, n, seqs
  <2>3. seqs \in Seq(Z) /\ Len(seqs) = n
      BY <2>2
  <2> QED BY <2>3 DEF Z
<1> HIDE DEF seqs
<1>6. FlattenSeq(seqs) \in Seq(X) /\ ToSet(FlattenSeq(seqs)) = X
    BY <1>5, FlattenedAre
<1> DEFINE flat == FlattenSeq(seqs)
<1>7. flat \in Seq(ToSet(flat)) /\ ToSet(flat) = X
    BY <1>6
<1>8. \A k \in X : IsRecord(k) /\ Within(k)
    BY <1>4 DEF AreRecords
<1>9. ASSUME NEW r \in ToSet(s), ScanForProhibitedData("full_name_published", r.published["full_name_published"]) = {}
      PROVE  \E k \in X : k.emails = r.emails
    BY <1>1, <1>4, <1>9
<1> HIDE DEF X, flat
<1> QED BY <1>2, <1>7, <1>8, <1>9 DEF AreRecords, flat

(* What of a page is offered to the harvest.                                *)
LEMMA KeptAre ==
    ASSUME NEW page, IsPage(page)
    PROVE  /\ \A k \in ToSet(KeptOf(page)) : IsRecord(k) /\ Within(k)
           /\ \A e \in Entries(page) : e.name # None =>
                 \E r \in ToSet(Extract(page)) :
                    /\ ToSet(e.emails) \subseteq r.emails
                    /\ \/ ScanForProhibitedData("full_name_published", r.published["full_name_published"]) # {}
                       \/ \E k \in ToSet(KeptOf(page)) : r.emails \subseteq k.emails
<1> DEFINE extracted == Extract(page)
           safe == SafeRecords(extracted)
           kept == DedupeExtractedRecords(safe)
<1>1. /\ AreRecords(extracted)
      /\ \A e \in Entries(page) : e.name # None => \E r \in ToSet(extracted) : ToSet(e.emails) \subseteq r.emails
    BY ExtractCovers
<1> HIDE DEF extracted
<1>2. /\ AreRecords(safe) /\ \A k \in ToSet(safe) : Within(k)
      /\ \A r \in ToSet(extracted) :
            ScanForProhibitedData("full_name_published", r.published["full_name_published"]) = {} =>
               \E k \in ToSet(safe) : k.emails = r.emails
    BY <1>1, SafeRecordsAre
<1> HIDE DEF safe
<1>3. AreRecords(kept) /\ Keeps(safe, kept) /\ \A k \in ToSet(kept) : Within(k)
    BY <1>2, DedupeKeeps
<1>4. KeptOf(page) = kept
    BY DEF KeptOf, kept, safe, extracted
<1> HIDE DEF kept
<1>5. \A r \in ToSet(extracted) :
          \/ ScanForProhibitedData("full_name_published", r.published["full_name_published"]) # {}
          \/ \E k \in ToSet(kept) : r.emails \subseteq k.emails
  <2>1. \A k \in ToSet(safe) : \E h \in ToSet(kept) : k.emails \subseteq h.emails
      BY <1>3 DEF Keeps
  <2> QED BY <1>2, <2>1
<1>6. \A k \in ToSet(kept) : IsRecord(k)
    BY <1>3 DEF AreRecords
<1> QED BY <1>1, <1>3, <1>4, <1>5, <1>6 DEF extracted

----------------------------------------------------------------------------
(* Where the walk goes on.                                                  *)
ASequence(s) == s \in Seq(ToSet(s))

(* What came before is passed over.                                        *)
Distinguishing(f, s) ==
    /\ f[0] = <<>>
    /\ \A i \in 1..Len(s) : f[i] = (IF s[i] \in ToSet(f[i - 1]) THEN f[i - 1] ELSE Append(f[i - 1], s[i]))
    /\ Distinct(s) = f[Len(s)]

LEMMA DistinctBy ==
    ASSUME NEW X, NEW s \in Seq(X)
    PROVE  \E f \in [0..Len(s) -> Seq(X)] : Distinguishing(f, s)
<1> DEFINE N == Len(s)
           start == <<>>
           U == Seq(X)
           Is(f) == f = [i \in 0..N |-> IF i = 0 THEN start ELSE (IF s[i] \in ToSet(f[i - 1]) THEN f[i - 1] ELSE Append(f[i - 1], s[i]))]
           next == [i \in 1..N |-> [r \in U |-> (IF s[i] \in ToSet(r) THEN r ELSE Append(r, s[i]))]]
<1>1. Distinct(s) = (CHOOSE f : Is(f))[N]
    BY DEF Distinct
<1>2. N \in Nat /\ start \in U
    OBVIOUS
<1>3. \A i \in 1..N, r \in U : (IF s[i] \in ToSet(r) THEN r ELSE Append(r, s[i])) \in U
    OBVIOUS
<1>4. next \in [1..N -> [U -> U]]
    BY <1>3
<1>5. \A i \in 1..N, r \in U : next[i][r] = (IF s[i] \in ToSet(r) THEN r ELSE Append(r, s[i]))
    OBVIOUS
<1>6. \A i \in 0..N : i # 0 => i \in 1..N /\ i - 1 \in 0..N
    BY <1>2
<1> HIDE DEF next, U, N, start
<1>7. PICK g \in [0..N -> U] : Runs(g, N, start, next)
    BY <1>2, <1>4, Iteration
<1>8. Is(g)
  <2>1. \A i \in 0..N : (IF i = 0 THEN start ELSE next[i][g[i - 1]])
                        = (IF i = 0 THEN start ELSE (IF s[i] \in ToSet(g[i - 1]) THEN g[i - 1] ELSE Append(g[i - 1], s[i])))
      BY <1>5, <1>6
  <2> QED BY <1>7, <2>1 DEF Runs
<1>9. PICK f : Is(f) /\ Distinct(s) = f[N]
  <2> HIDE DEF Is
  <2> QED BY <1>1, <1>8
<1>10. f[0] = start /\ \A i \in 1..N : f[i] = (IF s[i] \in ToSet(f[i - 1]) THEN f[i - 1] ELSE Append(f[i - 1], s[i]))
  <2>1. f[0] = start
      BY <1>2, <1>9
  <2>2. ASSUME NEW i \in 1..N PROVE f[i] = (IF s[i] \in ToSet(f[i - 1]) THEN f[i - 1] ELSE Append(f[i - 1], s[i]))
    <3>1. i \in 0..N /\ i # 0
        BY <1>2
    <3>2. f[i] = IF i = 0 THEN start ELSE (IF s[i] \in ToSet(f[i - 1]) THEN f[i - 1] ELSE Append(f[i - 1], s[i]))
        BY <1>9, <3>1
    <3> QED BY <3>1, <3>2
  <2> QED BY <2>1, <2>2
<1> DEFINE S == {i \in 0..N : f[i] \in U}
<1>11. 0 \in S /\ \A i \in 1..N : i - 1 \in S => i \in S
  <2>1. \A i \in 1..N : i \in 0..N
      BY <1>2
  <2>2. 0 \in S
      BY <1>2, <1>10
  <2>3. ASSUME NEW i \in 1..N, i - 1 \in S PROVE i \in S
    <3>1. f[i - 1] \in U /\ f[i] = (IF s[i] \in ToSet(f[i - 1]) THEN f[i - 1] ELSE Append(f[i - 1], s[i])) /\ i \in 0..N
        BY <1>10, <2>1, <2>3
    <3>2. (IF s[i] \in ToSet(f[i - 1]) THEN f[i - 1] ELSE Append(f[i - 1], s[i])) \in U
        BY <1>3, <3>1
    <3> QED BY <3>1, <3>2
  <2> QED BY <2>2, <2>3
<1>12. \A i \in 0..N : i \in S
  <2> HIDE DEF S
  <2> QED BY <1>2, <1>11, UpTo
<1>13. f \in [0..N -> U]
    BY <1>9, <1>12
<1> QED BY <1>9, <1>10, <1>13 DEF Distinguishing, U, N, start

LEMMA SequenceOf ==
    ASSUME NEW X, NEW s \in Seq(X)
    PROVE  ASequence(s)
<1> DEFINE Y == ToSet(s)
           n == Len(s)
<1>1. n \in Nat /\ s \in [1..n -> Y]
    BY DEF ToSet
<1> HIDE DEF Y, n
<1>2. s \in Seq(Y)
    BY <1>1
<1> QED BY <1>2 DEF ASequence, Y

LEMMA RequestsAre ==
    ASSUME NEW urls, ASequence(urls), NEW kind
    PROVE  ASequence(Requests(kind, urls))
<1> DEFINE X == ToSet(urls)
           to == Distinct(urls)
           all == [i \in DOMAIN to |-> [kind |-> kind, url |-> to[i]]]
           R == {[kind |-> kind, url |-> x] : x \in X}
<1>1. urls \in Seq(X)
    BY DEF ASequence
<1> HIDE DEF X
<1>2. to \in Seq(X)
  <2>1. PICK f \in [0..Len(urls) -> Seq(X)] : Distinguishing(f, urls)
      BY <1>1, DistinctBy
  <2>2. Len(urls) \in Nat
      BY <1>1
  <2> QED BY <2>1, <2>2 DEF Distinguishing
<1> HIDE DEF to
<1> DEFINE n == Len(to)
<1>3. n \in Nat /\ DOMAIN to = 1..n /\ \A i \in 1..n : to[i] \in X
    BY <1>2
<1> HIDE DEF n
<1>4. all \in [1..n -> R]
    BY <1>3
<1> HIDE DEF all, R
<1>5. all \in Seq(R)
    BY <1>3, <1>4
<1>6. Requests(kind, urls) = all
    BY DEF Requests, to, all
<1> QED BY <1>5, <1>6, SequenceOf

LEMMA SequencesJoin ==
    ASSUME NEW s, NEW t, ASequence(s), ASequence(t)
    PROVE  ASequence(s \o t)
<1> DEFINE Y == ToSet(s)
           Z == ToSet(t)
           X == Y \cup Z
<1>1. s \in Seq(Y) /\ t \in Seq(Z) /\ Y \subseteq X /\ Z \subseteq X
    BY DEF ASequence
<1> HIDE DEF Y, Z, X
<1>2. s \in Seq(X) /\ t \in Seq(X)
    BY <1>1
<1>3. s \o t \in Seq(X)
    BY <1>2, ConcatProperties
<1> QED BY <1>3, SequenceOf

LEMMA NothingOrOne == ASequence(<<>>) /\ \A x : ASequence(<<x>>)
<1>1. <<>> \in Seq({})
    OBVIOUS
<1>2. ASSUME NEW x PROVE <<x>> \in Seq({x})
    OBVIOUS
<1> QED BY <1>1, <1>2, SequenceOf

LEMMA PaginationIs ==
    ASSUME NEW page, NEW url, IsPage(page)
    PROVE  ASequence(Pagination(page, url))
<1>1. \A kind, urls : ASequence(urls) => ASequence(Requests(kind, urls))
    BY RequestsAre
<1>2. \A kind, x : ASequence(Requests(kind, <<x>>))
    BY <1>1, NothingOrOne
<1>3. /\ ASequence(page.next) /\ ASequence(page.numbered) /\ ASequence(page.more)
      /\ ASequence(page.letters) /\ ASequence(page.selects)
    BY DEF IsPage, ASequence
<1>4. ASequence(Controls(page))
  <2> DEFINE s == Requests("next_link", IF page.relNext # None THEN <<page.relNext>> ELSE page.next)
             t == Requests("numbered", page.numbered)
             u == Requests("load_more", page.more)
  <2>1. ASequence(s)
    <3>1. ASequence(IF page.relNext # None THEN <<page.relNext>> ELSE page.next)
        BY <1>3, NothingOrOne
    <3> QED BY <1>1, <3>1
  <2>2. ASequence(t) /\ ASequence(u)
      BY <1>1, <1>3
  <2>3. Controls(page) = (s \o t) \o u
      BY DEF Controls
  <2> HIDE DEF s, t, u
  <2>4. ASequence(s \o t)
      BY <2>1, <2>2, SequencesJoin
  <2>5. ASequence((s \o t) \o u)
      BY <2>2, <2>4, SequencesJoin
  <2> QED BY <2>3, <2>5
<1>5. ASequence(GuessNextFromQuery(url))
    BY <1>2, NothingOrOne DEF GuessNextFromQuery
<1>6. ASequence(Filters(page))
    BY <1>1, <1>3 DEF Filters
<1>7. \A meta : ASequence(PaginationFrom(meta, url))
    BY <1>2, NothingOrOne DEF PaginationFrom
<1> QED BY <1>4, <1>5, <1>6, <1>7 DEF Pagination, DiscoverPaginationFrom

(* What is offered was asked for.                                           *)
LEMMA OfferedIsPaginated ==
    ASSUME NEW url
    PROVE  Offered(url) \subseteq {r.url : r \in ToSet(Pagination(directory.pages[url], url))}
<1> DEFINE page == directory.pages[url]
           requests == IF page.format = "json" THEN PaginationFrom(page.meta, url)
                       ELSE IF Controls(page) # <<>> THEN Controls(page)
                       ELSE IF GuessNextFromQuery(url) = <<>> THEN Filters(page) ELSE <<>>
<1>1. Offered(url) = {r.url : r \in ToSet(requests)}
    BY DEF Offered
<1>2. requests = Pagination(page, url) \/ requests = <<>>
    BY DEF Pagination, DiscoverPaginationFrom
<1>3. ToSet(<<>>) = {}
    BY DEF ToSet
<1> HIDE DEF requests, page
<1>4. Offered(url) \subseteq {r.url : r \in ToSet(Pagination(page, url))}
    BY <1>1, <1>2, <1>3
<1> QED BY <1>4 DEF page

----------------------------------------------------------------------------
(* What following the requests of a page changes of the walk.               *)
WalksOn(w, T) ==
    [queue : Seq(T), bodies : {w.bodies}, keys : {w.keys}, tokens : SUBSET T, fruitless : {w.fruitless},
     read : {w.read}, harvest : {w.harvest}, stops : SUBSET (w.stops \cup {"pagination_loop"}), open : BOOLEAN]
Goes(u, v) ==
    /\ u.tokens \subseteq v.tokens
    /\ ToSet(u.queue) \subseteq ToSet(v.queue)
    /\ v.open => u.open
    /\ \A t \in v.tokens : t \in u.tokens \/ t \in ToSet(v.queue)

(* A walk is a record of nine fields.                                       *)
PagerFields == {"queue", "bodies", "keys", "tokens", "fruitless", "read", "harvest", "stops", "open"}
IsWalk(v) == v = [f \in PagerFields |-> v[f]]

LEMMA WalkRecord ==
    ASSUME NEW v
    PROVE  IsWalk(v) <=>
               v = [queue |-> v.queue, bodies |-> v.bodies, keys |-> v.keys, tokens |-> v.tokens,
                    fruitless |-> v.fruitless, read |-> v.read, harvest |-> v.harvest, stops |-> v.stops,
                    open |-> v.open]
<1>1. ASSUME IsWalk(v)
      PROVE  v = [queue |-> v.queue, bodies |-> v.bodies, keys |-> v.keys, tokens |-> v.tokens,
                  fruitless |-> v.fruitless, read |-> v.read, harvest |-> v.harvest, stops |-> v.stops,
                  open |-> v.open]
    BY <1>1 DEF IsWalk, PagerFields
<1>2. ASSUME v = [queue |-> v.queue, bodies |-> v.bodies, keys |-> v.keys, tokens |-> v.tokens,
                  fruitless |-> v.fruitless, read |-> v.read, harvest |-> v.harvest, stops |-> v.stops,
                  open |-> v.open]
      PROVE  IsWalk(v)
    BY <1>2 DEF IsWalk, PagerFields
<1> QED BY <1>1, <1>2

LEMMA WalksOnAre ==
    ASSUME NEW w, NEW T, NEW v
    PROVE  v \in WalksOn(w, T) <=>
               /\ IsWalk(v)
               /\ v.queue \in Seq(T) /\ v.tokens \subseteq T /\ v.open \in BOOLEAN
               /\ v.bodies = w.bodies /\ v.keys = w.keys /\ v.fruitless = w.fruitless
               /\ v.read = w.read /\ v.harvest = w.harvest
               /\ v.stops \subseteq w.stops \cup {"pagination_loop"}
<1> DEFINE r == [queue |-> v.queue, bodies |-> v.bodies, keys |-> v.keys, tokens |-> v.tokens,
                 fruitless |-> v.fruitless, read |-> v.read, harvest |-> v.harvest, stops |-> v.stops,
                 open |-> v.open]
<1>1. IsWalk(v) <=> v = r
    BY WalkRecord
<1>2. v \in WalksOn(w, T) => v = r
    BY DEF WalksOn
<1>3. r \in WalksOn(w, T) <=>
          /\ v.queue \in Seq(T) /\ v.tokens \subseteq T /\ v.open \in BOOLEAN
          /\ v.bodies = w.bodies /\ v.keys = w.keys /\ v.fruitless = w.fruitless
          /\ v.read = w.read /\ v.harvest = w.harvest
          /\ v.stops \subseteq w.stops \cup {"pagination_loop"}
    BY DEF WalksOn
<1> HIDE DEF r
<1> QED BY <1>1, <1>2, <1>3

LEMMA ClaimGoes ==
    ASSUME NEW w, NEW T, NEW v \in WalksOn(w, T), NEW q, q.url \in T
    PROVE  /\ Claim(v, q) \in WalksOn(w, T)
           /\ Goes(v, Claim(v, q))
           /\ Claim(v, q).open => q.url \in Claim(v, q).tokens
<1> DEFINE c == Claim(v, q)
<1>1. /\ IsWalk(v)
      /\ v.queue \in Seq(T) /\ v.tokens \subseteq T /\ v.open \in BOOLEAN
      /\ v.bodies = w.bodies /\ v.keys = w.keys /\ v.fruitless = w.fruitless
      /\ v.read = w.read /\ v.harvest = w.harvest
      /\ v.stops \subseteq w.stops \cup {"pagination_loop"}
    BY WalksOnAre
<1>2. CASE ~v.open
  <2>1. c = v
      BY <1>2 DEF Claim
  <2> QED BY <1>2, <2>1 DEF Goes
<1>3. CASE v.open /\ q.url \notin v.tokens
  <2> DEFINE longer == Append(v.queue, q.url)
  <2>1. /\ IsWalk(c)
        /\ c.queue = longer /\ c.tokens = v.tokens \cup {q.url} /\ c.open = v.open
        /\ c.bodies = v.bodies /\ c.keys = v.keys /\ c.fruitless = v.fruitless
        /\ c.read = v.read /\ c.harvest = v.harvest /\ c.stops = v.stops
    <3>1. c = [v EXCEPT !.tokens = @ \cup {q.url}, !.queue = Append(@, q.url)]
        BY <1>3 DEF Claim
    <3> QED BY <1>1, <3>1 DEF IsWalk, PagerFields
  <2>2. longer \in Seq(T) /\ ToSet(v.queue) \subseteq ToSet(longer) /\ q.url \in ToSet(longer)
    <3>1. Len(v.queue) \in Nat /\ v.queue \in [1..Len(v.queue) -> T]
        BY <1>1
    <3>2. longer \in Seq(T) /\ Len(longer) = Len(v.queue) + 1
        BY <1>1
    <3>3. longer[Len(v.queue) + 1] = q.url /\ \A i \in 1..Len(v.queue) : longer[i] = v.queue[i]
        BY <1>1
    <3>4. DOMAIN longer = 1..(Len(v.queue) + 1)
        BY <3>2
    <3>5. \A i \in 1..Len(v.queue) : i \in DOMAIN longer
        BY <3>1, <3>4
    <3> HIDE DEF longer
    <3>6. ToSet(v.queue) \subseteq ToSet(longer)
        BY <3>1, <3>3, <3>5 DEF ToSet
    <3>7. Len(v.queue) + 1 \in DOMAIN longer
        BY <3>1, <3>4
    <3> QED BY <3>2, <3>3, <3>6, <3>7 DEF ToSet
  <2> HIDE DEF longer, c
  <2>3. c \in WalksOn(w, T)
      BY <1>1, <2>1, <2>2, WalksOnAre
  <2> QED BY <2>1, <2>2, <2>3 DEF Goes, c
<1>4. CASE v.open /\ q.url \in v.tokens /\ q.kind \in SequentialKinds
  <2>1. /\ IsWalk(c)
        /\ c.queue = v.queue /\ c.tokens = v.tokens /\ c.open = FALSE
        /\ c.bodies = v.bodies /\ c.keys = v.keys /\ c.fruitless = v.fruitless
        /\ c.read = v.read /\ c.harvest = v.harvest /\ c.stops = v.stops \cup {"pagination_loop"}
    <3>1. c = [v EXCEPT !.stops = @ \cup {"pagination_loop"}, !.open = FALSE]
        BY <1>4 DEF Claim
    <3> QED BY <1>1, <3>1 DEF IsWalk, PagerFields
  <2> HIDE DEF c
  <2>2. c \in WalksOn(w, T)
      BY <1>1, <2>1, WalksOnAre
  <2> QED BY <2>1, <2>2 DEF Goes, c
<1>5. CASE v.open /\ q.url \in v.tokens /\ q.kind \notin SequentialKinds
  <2>1. c = v
      BY <1>5 DEF Claim
  <2> QED BY <1>5, <2>1 DEF Goes
<1> QED BY <1>2, <1>3, <1>4, <1>5

(* The requests are claimed one after another.                              *)
Claiming(f, w, s) ==
    /\ f[0] = w
    /\ \A i \in 1..Len(s) : f[i] = Claim(f[i - 1], s[i])
    /\ Claimed(w, s) = f[Len(s)]

LEMMA ClaimedBy ==
    ASSUME NEW w, NEW T, w \in WalksOn(w, T), NEW R, \A q \in R : q.url \in T, NEW s \in Seq(R)
    PROVE  \E f \in [0..Len(s) -> WalksOn(w, T)] : Claiming(f, w, s)
<1> DEFINE N == Len(s)
           start == w
           U == WalksOn(w, T)
           Is(f) == f = [i \in 0..N |-> IF i = 0 THEN start ELSE Claim(f[i - 1], s[i])]
           next == [i \in 1..N |-> [r \in U |-> Claim(r, s[i])]]
<1>1. Claimed(w, s) = (CHOOSE f : Is(f))[N]
    BY DEF Claimed
<1>2. N \in Nat /\ start \in U
    OBVIOUS
<1>3. \A i \in 1..N, r \in U : Claim(r, s[i]) \in U
    BY ClaimGoes
<1>4. next \in [1..N -> [U -> U]]
    BY <1>3
<1>5. \A i \in 1..N, r \in U : next[i][r] = Claim(r, s[i])
    OBVIOUS
<1>6. \A i \in 0..N : i # 0 => i \in 1..N /\ i - 1 \in 0..N
    BY <1>2
<1> HIDE DEF next, U, N, start
<1>7. PICK g \in [0..N -> U] : Runs(g, N, start, next)
    BY <1>2, <1>4, Iteration
<1>8. Is(g)
  <2>1. \A i \in 0..N : (IF i = 0 THEN start ELSE next[i][g[i - 1]])
                        = (IF i = 0 THEN start ELSE Claim(g[i - 1], s[i]))
      BY <1>5, <1>6
  <2> QED BY <1>7, <2>1 DEF Runs
<1>9. PICK f : Is(f) /\ Claimed(w, s) = f[N]
  <2> HIDE DEF Is
  <2> QED BY <1>1, <1>8
<1>10. f[0] = start /\ \A i \in 1..N : f[i] = Claim(f[i - 1], s[i])
  <2>1. f[0] = start
      BY <1>2, <1>9
  <2>2. ASSUME NEW i \in 1..N PROVE f[i] = Claim(f[i - 1], s[i])
    <3>1. i \in 0..N /\ i # 0
        BY <1>2
    <3>2. f[i] = IF i = 0 THEN start ELSE Claim(f[i - 1], s[i])
        BY <1>9, <3>1
    <3> QED BY <3>1, <3>2
  <2> QED BY <2>1, <2>2
<1> DEFINE S == {i \in 0..N : f[i] \in U}
<1>11. 0 \in S /\ \A i \in 1..N : i - 1 \in S => i \in S
  <2>1. \A i \in 1..N : i \in 0..N
      BY <1>2
  <2>2. 0 \in S
      BY <1>2, <1>10
  <2>3. ASSUME NEW i \in 1..N, i - 1 \in S PROVE i \in S
    <3>1. f[i - 1] \in U /\ f[i] = Claim(f[i - 1], s[i]) /\ i \in 0..N
        BY <1>10, <2>1, <2>3
    <3>2. Claim(f[i - 1], s[i]) \in U
        BY <1>3, <3>1
    <3> QED BY <3>1, <3>2
  <2> QED BY <2>2, <2>3
<1>12. \A i \in 0..N : i \in S
  <2> HIDE DEF S
  <2> QED BY <1>2, <1>11, UpTo
<1>13. f \in [0..N -> U]
    BY <1>9, <1>12
<1> QED BY <1>9, <1>10, <1>13 DEF Claiming, U, N, start

LEMMA ClaimedGoes ==
    ASSUME NEW w, NEW T, w \in WalksOn(w, T), NEW R, \A q \in R : q.url \in T, NEW s \in Seq(R)
    PROVE  /\ Claimed(w, s) \in WalksOn(w, T)
           /\ Goes(w, Claimed(w, s))
           /\ Claimed(w, s).open => \A i \in 1..Len(s) : s[i].url \in Claimed(w, s).tokens
<1> DEFINE N == Len(s)
           U == WalksOn(w, T)
           Far(f, n) == /\ Goes(w, f[n])
                        /\ f[n].open => \A i \in 1..n : s[i].url \in f[n].tokens
<1>1. N \in Nat /\ \A i \in 1..N : s[i] \in R
    OBVIOUS
<1>2. PICK f \in [0..N -> U] : Claiming(f, w, s)
    BY ClaimedBy
<1>3. f[0] = w /\ (\A i \in 1..N : f[i] = Claim(f[i - 1], s[i])) /\ Claimed(w, s) = f[N]
    BY <1>2 DEF Claiming
<1>4. \A i \in 1..N : i - 1 \in 0..N
    BY <1>1
<1>5. \A i \in 0..N : f[i] \in U
    BY <1>2
<1> DEFINE S == {i \in 0..N : Far(f, i)}
<1> HIDE DEF N, U
<1>6. 0 \in S
  <2>1. Goes(w, w)
      BY DEF Goes
  <2>2. \A i \in 1..0 : FALSE
      OBVIOUS
  <2> QED BY <1>1, <1>3, <2>1, <2>2
<1>7. ASSUME NEW n \in 1..N, n - 1 \in S PROVE n \in S
  <2> DEFINE v == f[n - 1]
             c == f[n]
  <2>1. v \in U /\ s[n].url \in T /\ c = Claim(v, s[n])
      BY <1>1, <1>3, <1>4, <1>5
  <2>2. Goes(v, c) /\ (c.open => s[n].url \in c.tokens)
      BY <2>1, ClaimGoes DEF U
  <2>3. Goes(w, v) /\ (v.open => \A i \in 1..(n - 1) : s[i].url \in v.tokens)
      BY <1>7
  <2>4. \A i \in 1..n : i = n \/ i \in 1..(n - 1)
      BY <1>1
  <2>5. n \in 0..N
      BY <1>1
  <2> HIDE DEF v, c
  <2>6. Goes(w, c)
      BY <2>2, <2>3 DEF Goes
  <2>7. c.open => \A i \in 1..n : s[i].url \in c.tokens
      BY <2>2, <2>3, <2>4 DEF Goes
  <2> QED BY <2>5, <2>6, <2>7 DEF c
<1>8. \A i \in 0..N : i \in S
  <2> HIDE DEF S
  <2> QED BY <1>1, <1>6, <1>7, UpTo
<1>9. N \in 0..N
    BY <1>1
<1> QED BY <1>3, <1>5, <1>8, <1>9 DEF N, U

----------------------------------------------------------------------------
(* What holds all along a walk: while it is open, whatever was asked for is *)
(* waiting, read or not there, and whatever the pages read lead to was      *)
(* asked for; the keys are those of the harvest, whose records are of pages *)
(* read; and a record kept of a page read is in the harvest unless another  *)
(* page published its key first.                                            *)
WalkInv ==
    /\ directory \in Directories
    /\ IsWalk(pager) /\ ASequence(pager.queue) /\ pager.open \in BOOLEAN
    /\ pager.read \subseteq DOMAIN directory.pages
    /\ \A url \in pager.read : directory.pages[url].body \in pager.bodies
FrontierInv ==
    pager.open =>
        /\ \A t \in pager.tokens : t \in ToSet(pager.queue) \/ t \in pager.read \/ ~Reached(t)
        /\ \A url \in pager.read : \A r \in ToSet(Pagination(directory.pages[url], url)) : r.url \in pager.tokens
HarvestInv ==
    /\ pager.keys = {h.key : h \in pager.harvest}
    /\ \A h \in pager.harvest : \E url \in pager.read : h \in ToSet(KeptOf(directory.pages[url]))
    /\ \A url \in pager.read : \A k \in ToSet(KeptOf(directory.pages[url])) :
          k \in pager.harvest \/ FirstPublished(k, url)
PagesInv == WalkInv /\ FrontierInv /\ HarvestInv

(* The step that drops the asked page without reading it leaves the harvest *)
(* alone.                                                                   *)
LEMMA QueueEnds ==
    ASSUME NEW q, ASequence(q), q # <<>>
    PROVE  /\ ASequence(Tail(q)) /\ ToSet(Tail(q)) \subseteq ToSet(q)
           /\ \A t \in ToSet(q) : t = Head(q) \/ t \in ToSet(Tail(q))
<1> DEFINE T == ToSet(q)
           n == Len(q)
           rest == Tail(q)
<1>1. q \in Seq(T)
    BY DEF ASequence
<1>2. T = {q[i] : i \in DOMAIN q}
    BY DEF ToSet
<1> HIDE DEF T
<1>3. n \in Nat /\ n # 0 /\ DOMAIN q = 1..n
    BY <1>1
<1>4. rest \in Seq(T) /\ Len(rest) = n - 1 /\ \A i \in 1..(n - 1) : rest[i] = q[i + 1]
    BY <1>1, <1>3
<1>5. Head(q) = q[1]
    BY <1>1
<1> HIDE DEF rest, n
<1>6. DOMAIN rest = 1..(n - 1)
    BY <1>3, <1>4
<1>7. ASequence(rest)
    BY <1>4, SequenceOf
<1>8. ToSet(rest) = {q[i + 1] : i \in 1..(n - 1)}
    BY <1>4, <1>6 DEF ToSet
<1>9. ToSet(rest) \subseteq T
  <2>1. \A i \in 1..(n - 1) : i + 1 \in 1..n
      BY <1>3
  <2> QED BY <1>2, <1>3, <1>8, <2>1
<1>10. ASSUME NEW t \in T PROVE t = Head(q) \/ t \in ToSet(rest)
  <2>1. PICK i \in 1..n : t = q[i]
      BY <1>2, <1>3
  <2>2. CASE i = 1
      BY <1>5, <2>1, <2>2
  <2>3. CASE i # 1
    <3>1. i - 1 \in 1..(n - 1) /\ (i - 1) + 1 = i
        BY <1>3, <2>3
    <3>2. rest[i - 1] = q[i]
        BY <1>4, <3>1
    <3> QED BY <1>6, <2>1, <3>1, <3>2 DEF ToSet
  <2> QED BY <2>2, <2>3
<1> QED BY <1>7, <1>9, <1>10 DEF T, rest

LEMMA PagesStart == PagesInit => PagesInv
<1> SUFFICES ASSUME PagesInit PROVE PagesInv
    OBVIOUS
<1>1. directory \in Directories
      /\ pager = [queue |-> <<directory.seed>>, bodies |-> {}, keys |-> {}, tokens |-> {directory.seed},
                  fruitless |-> 0, read |-> {}, harvest |-> {}, stops |-> {}, open |-> TRUE]
    BY DEF PagesInit, StartOf
<1>2. IsWalk(pager)
    BY <1>1 DEF IsWalk, PagerFields
<1>3. /\ pager.queue = <<directory.seed>> /\ pager.tokens = {directory.seed} /\ pager.open = TRUE
      /\ pager.read = {} /\ pager.harvest = {} /\ pager.keys = {}
    BY <1>1
<1>4. ASequence(<<directory.seed>>) /\ directory.seed \in ToSet(<<directory.seed>>)
    BY NothingOrOne DEF ToSet
<1>5. WalkInv
    BY <1>1, <1>2, <1>3, <1>4 DEF WalkInv
<1>6. FrontierInv
    BY <1>3, <1>4 DEF FrontierInv
<1>7. HarvestInv
    BY <1>3 DEF HarvestInv
<1> QED BY <1>5, <1>6, <1>7 DEF PagesInv

(* A step that neither reads nor asks for a page leaves the harvest alone.  *)
LEMMA NothingRead ==
    ASSUME PagesInv, directory' = directory, pager.queue # <<>>,
           IsWalk(pager'), pager'.queue = Tail(pager.queue), pager'.open \in BOOLEAN,
           pager'.bodies = pager.bodies, pager'.keys = pager.keys, pager'.tokens = pager.tokens,
           pager'.read = pager.read, pager'.harvest = pager.harvest,
           pager'.open => pager.open /\ ~Reached(Asked)
    PROVE  PagesInv'
<1>1. /\ ASequence(Tail(pager.queue))
      /\ \A t \in ToSet(pager.queue) : t = Head(pager.queue) \/ t \in ToSet(Tail(pager.queue))
    BY QueueEnds DEF PagesInv, WalkInv
<1>2. WalkInv'
    BY <1>1 DEF PagesInv, WalkInv
<1>3. FrontierInv'
  <2> SUFFICES ASSUME pager'.open PROVE FrontierInv'
      BY DEF FrontierInv
  <2>1. /\ \A t \in pager.tokens : t \in ToSet(pager.queue) \/ t \in pager.read \/ ~Reached(t)
        /\ \A url \in pager.read : \A r \in ToSet(Pagination(directory.pages[url], url)) : r.url \in pager.tokens
      BY DEF PagesInv, FrontierInv
  <2>2. \A t : Reached(t)' <=> Reached(t)
      BY DEF Reached
  <2>3. \A t \in ToSet(pager.queue) : t \in ToSet(Tail(pager.queue)) \/ ~Reached(t)
      BY <1>1 DEF Asked
  <2>4. \A t \in pager'.tokens : t \in ToSet(pager'.queue) \/ t \in pager'.read \/ ~Reached(t)'
      BY <2>1, <2>2, <2>3
  <2>5. \A url \in pager'.read : \A r \in ToSet(Pagination(directory'.pages[url], url)) : r.url \in pager'.tokens
      BY <2>1
  <2> QED BY <2>4, <2>5 DEF FrontierInv, Reached
<1>4. HarvestInv'
  <2>1. \A k, url : FirstPublished(k, url)' <=> FirstPublished(k, url)
      BY DEF FirstPublished
  <2> QED BY <2>1 DEF PagesInv, HarvestInv
<1> QED BY <1>2, <1>3, <1>4 DEF PagesInv

LEMMA MissingKeeps == ASSUME PagesInv, MissingPage PROVE PagesInv'
<1>1. /\ pager.open /\ pager.queue # <<>> /\ ~Reached(Asked) /\ directory' = directory
      /\ pager' = [[pager EXCEPT !.queue = Tail(@)] EXCEPT !.stops = @ \cup {"unreachable"}]
    BY DEF MissingPage, Reading_, Dropped
<1>2. IsWalk(pager) /\ pager.open \in BOOLEAN
    BY DEF PagesInv, WalkInv
<1>3. PICK me : me = pager
    OBVIOUS
<1>4. PICK mid : mid = [me EXCEPT !.queue = Tail(@)]
    OBVIOUS
<1>5. PICK c : c = [mid EXCEPT !.stops = @ \cup {"unreachable"}]
    OBVIOUS
<1>6. IsWalk(mid) /\ mid.queue = Tail(me.queue) /\ \A f \in PagerFields \ {"queue"} : mid[f] = me[f]
  <2>1. IsWalk(me)
      BY <1>2, <1>3
  <2> QED BY <1>4, <2>1 DEF IsWalk, PagerFields
<1>7. IsWalk(c) /\ \A f \in PagerFields \ {"stops"} : c[f] = mid[f]
    BY <1>5, <1>6 DEF IsWalk, PagerFields
<1>8. /\ IsWalk(c) /\ c.queue = Tail(me.queue) /\ c.open = me.open /\ c.bodies = me.bodies /\ c.keys = me.keys
      /\ c.tokens = me.tokens /\ c.read = me.read /\ c.harvest = me.harvest
    BY <1>6, <1>7 DEF PagerFields
<1>9. pager' = c
    BY <1>1, <1>3, <1>4, <1>5
<1> QED BY <1>1, <1>2, <1>3, <1>8, <1>9, NothingRead

LEMMA RepeatedKeeps == ASSUME PagesInv, RepeatedBody PROVE PagesInv'
<1>1. /\ pager.open /\ pager.queue # <<>> /\ directory' = directory
      /\ pager' = [[pager EXCEPT !.queue = Tail(@)] EXCEPT !.stops = @ \cup {"duplicate_content"}, !.open = FALSE]
    BY DEF RepeatedBody, Reading_, Dropped
<1>2. IsWalk(pager)
    BY DEF PagesInv, WalkInv
<1>3. PICK me : me = pager
    OBVIOUS
<1>4. PICK mid : mid = [me EXCEPT !.queue = Tail(@)]
    OBVIOUS
<1>5. PICK c : c = [mid EXCEPT !.stops = @ \cup {"duplicate_content"}, !.open = FALSE]
    OBVIOUS
<1>6. IsWalk(mid) /\ mid.queue = Tail(me.queue) /\ \A f \in PagerFields \ {"queue"} : mid[f] = me[f]
  <2>1. IsWalk(me)
      BY <1>2, <1>3
  <2> QED BY <1>4, <2>1 DEF IsWalk, PagerFields
<1>7. IsWalk(c) /\ c.open = FALSE /\ \A f \in PagerFields \ {"stops", "open"} : c[f] = mid[f]
    BY <1>5, <1>6 DEF IsWalk, PagerFields
<1>8. /\ IsWalk(c) /\ c.queue = Tail(me.queue) /\ c.open = FALSE /\ c.bodies = me.bodies /\ c.keys = me.keys
      /\ c.tokens = me.tokens /\ c.read = me.read /\ c.harvest = me.harvest
    BY <1>6, <1>7 DEF PagerFields
<1>9. pager' = c
    BY <1>1, <1>3, <1>4, <1>5
<1> QED BY <1>1, <1>3, <1>8, <1>9, NothingRead

(* What reading a page adds.                                                *)
Seen(v, body, asked) ==
    [[v EXCEPT !.queue = Tail(@)] EXCEPT !.bodies = @ \cup {body}, !.read = @ \cup {asked}]
AddsTo(after, v, body, asked, new) ==
    /\ IsWalk(after) /\ after.queue = Tail(v.queue) /\ after.tokens = v.tokens /\ after.open = v.open
    /\ after.bodies = v.bodies \cup {body} /\ after.read = v.read \cup {asked}
    /\ after.keys = v.keys \cup {r.key : r \in new} /\ after.harvest = v.harvest \cup new

LEMMA ReadingAdds ==
    ASSUME NEW v, IsWalk(v), NEW body, NEW asked, NEW records
    PROVE  AddsTo(AfterExtraction(Seen(v, body, asked), records), v, body, asked,
                {r \in ToSet(records) : r.key \notin v.keys})
<1> DEFINE seen == Seen(v, body, asked)
           new == {r \in ToSet(records) : r.key \notin v.keys}
           after == AfterExtraction(seen, records)
<1>1. PICK mid : mid = [v EXCEPT !.queue = Tail(@)]
    OBVIOUS
<1>2. IsWalk(mid) /\ mid.queue = Tail(v.queue) /\ \A f \in PagerFields \ {"queue"} : mid[f] = v[f]
    BY <1>1 DEF IsWalk, PagerFields
<1>3. seen = [mid EXCEPT !.bodies = @ \cup {body}, !.read = @ \cup {asked}]
    BY <1>1 DEF Seen
<1> HIDE DEF seen
<1>4. /\ IsWalk(seen) /\ seen.bodies = mid.bodies \cup {body} /\ seen.read = mid.read \cup {asked}
      /\ \A f \in PagerFields \ {"bodies", "read"} : seen[f] = mid[f]
    BY <1>2, <1>3 DEF IsWalk, PagerFields
<1>5. seen.keys = v.keys
    BY <1>2, <1>4 DEF PagerFields
<1>6. PICK counted, stopped :
          after = [seen EXCEPT !.keys = @ \cup {r.key : r \in new}, !.harvest = @ \cup new,
                               !.fruitless = counted, !.stops = stopped]
  <2> DEFINE counted == IF new = {} THEN seen.fruitless + 1 ELSE 0
             stopped == seen.stops
                 \cup (IF records = <<>> /\ seen.read = {Asked} THEN {"empty_success"} ELSE {})
                 \cup (IF new = {} /\ seen.fruitless + 1 >= MaxFruitless THEN {"no_progress"} ELSE {})
  <2>1. after = [seen EXCEPT !.keys = @ \cup {r.key : r \in new}, !.harvest = @ \cup new,
                             !.fruitless = counted, !.stops = stopped]
      BY <1>5 DEF AfterExtraction
  <2> HIDE DEF counted, stopped
  <2> QED BY <2>1
<1> HIDE DEF after, new
<1>7. /\ IsWalk(after) /\ after.keys = seen.keys \cup {r.key : r \in new} /\ after.harvest = seen.harvest \cup new
      /\ \A f \in PagerFields \ {"keys", "harvest", "fruitless", "stops"} : after[f] = seen[f]
    BY <1>4, <1>6 DEF IsWalk, PagerFields
<1>8. /\ IsWalk(after) /\ after.queue = Tail(v.queue) /\ after.tokens = v.tokens /\ after.open = v.open
      /\ after.bodies = v.bodies \cup {body} /\ after.read = v.read \cup {asked}
      /\ after.keys = v.keys \cup {r.key : r \in new} /\ after.harvest = v.harvest \cup new
    BY <1>2, <1>4, <1>7 DEF PagerFields
<1> QED BY <1>8 DEF AddsTo, after, new, seen

(* Going on from there.                                                     *)
LEMMA GoingOn ==
    ASSUME NEW v, IsWalk(v), ASequence(v.queue), v.open \in BOOLEAN, NEW requests, ASequence(requests)
    PROVE  LET w == Claimed(v, requests) IN
           /\ IsWalk(w) /\ ASequence(w.queue) /\ w.open \in BOOLEAN /\ Goes(v, w)
           /\ w.bodies = v.bodies /\ w.keys = v.keys /\ w.read = v.read /\ w.harvest = v.harvest
           /\ w.open => \A r \in ToSet(requests) : r.url \in w.tokens
<1> DEFINE R == ToSet(requests)
           Q == ToSet(v.queue)
           T == Q \cup v.tokens \cup {r.url : r \in R}
           w == Claimed(v, requests)
<1>1. requests \in Seq(R) /\ v.queue \in Seq(Q)
    BY DEF ASequence
<1>2. Q \subseteq T /\ v.tokens \subseteq T /\ \A r \in R : r.url \in T
    OBVIOUS
<1>3. \A r \in R : \E i \in 1..Len(requests) : r = requests[i]
  <2>1. R = {requests[i] : i \in DOMAIN requests}
      BY DEF ToSet
  <2> HIDE DEF R
  <2>2. DOMAIN requests = 1..Len(requests)
      BY <1>1
  <2> QED BY <2>1, <2>2
<1> HIDE DEF R, Q, T
<1>4. v.queue \in Seq(T)
    BY <1>1, <1>2
<1>5. v \in WalksOn(v, T)
    BY <1>2, <1>4, WalksOnAre
<1>6. /\ w \in WalksOn(v, T) /\ Goes(v, w)
      /\ w.open => \A i \in 1..Len(requests) : requests[i].url \in w.tokens
    BY <1>1, <1>2, <1>5, ClaimedGoes
<1> HIDE DEF w
<1>7. /\ IsWalk(w) /\ w.queue \in Seq(T) /\ w.open \in BOOLEAN
      /\ w.bodies = v.bodies /\ w.keys = v.keys /\ w.read = v.read /\ w.harvest = v.harvest
    BY <1>6, WalksOnAre
<1>8. ASequence(w.queue)
    BY <1>7, SequenceOf
<1> QED BY <1>3, <1>6, <1>7, <1>8 DEF w, R

LEMMA ReadingKeeps == ASSUME PagesInv, PagesAssumption, ReadListing PROVE PagesInv'
<1> DEFINE page == directory.pages[Asked]
           kept == ToSet(KeptOf(page))
           new == {r \in kept : r.key \notin pager.keys}
           requests == Pagination(page, Asked)
<1>1. /\ pager.open /\ pager.queue # <<>> /\ Asked \in DOMAIN directory.pages /\ directory' = directory
      /\ page.body \notin pager.bodies
    BY DEF ReadListing, Reading_, Reached, AskedPage
<1>2. PICK seen, after :
          /\ seen = [[pager EXCEPT !.queue = Tail(@)] EXCEPT !.bodies = @ \cup {page.body}, !.read = @ \cup {Asked}]
          /\ after = AfterExtraction(seen, KeptOf(page))
          /\ pager' = IF after.stops \cap {"empty_success", "no_progress"} # {} THEN [after EXCEPT !.open = FALSE]
                      ELSE Claimed(after, requests)
    BY DEF ReadListing, Dropped, AskedPage
<1>3. /\ IsWalk(pager) /\ ASequence(pager.queue) /\ pager.open \in BOOLEAN
      /\ directory \in Directories /\ IsPage(page)
    BY <1>1, PagesAssumption DEF PagesInv, WalkInv
<1>4. /\ IsWalk(after) /\ after.queue = Tail(pager.queue) /\ after.tokens = pager.tokens /\ after.open = pager.open
      /\ after.bodies = pager.bodies \cup {page.body} /\ after.read = pager.read \cup {Asked}
      /\ after.keys = pager.keys \cup {r.key : r \in new} /\ after.harvest = pager.harvest \cup new
  <2>1. seen = Seen(pager, page.body, Asked)
      BY <1>2 DEF Seen
  <2>2. AddsTo(after, pager, page.body, Asked, new)
      BY <1>2, <1>3, <2>1, ReadingAdds
  <2> QED BY <2>2 DEF AddsTo
<1>5. /\ ASequence(Tail(pager.queue))
      /\ \A t \in ToSet(pager.queue) : t = Asked \/ t \in ToSet(Tail(pager.queue))
    BY <1>1, <1>3, QueueEnds DEF Asked
<1>6. ASequence(requests)
    BY <1>3, PaginationIs
<1> HIDE DEF requests
<1>7. /\ IsWalk(pager') /\ ASequence(pager'.queue) /\ pager'.open \in BOOLEAN
      /\ pager'.bodies = after.bodies /\ pager'.keys = after.keys
      /\ pager'.read = after.read /\ pager'.harvest = after.harvest
      /\ pager'.open => Goes(after, pager') /\ \A r \in ToSet(requests) : r.url \in pager'.tokens
  <2>1. CASE after.stops \cap {"empty_success", "no_progress"} # {}
    <3>1. PICK c : c = [after EXCEPT !.open = FALSE]
        OBVIOUS
    <3>2. IsWalk(c) /\ c.open = FALSE /\ \A f \in PagerFields \ {"open"} : c[f] = after[f]
        BY <1>4, <3>1 DEF IsWalk, PagerFields
    <3>3. /\ c.queue = after.queue /\ c.bodies = after.bodies /\ c.keys = after.keys /\ c.read = after.read
          /\ c.harvest = after.harvest
        BY <3>2 DEF PagerFields
    <3>4. pager' = c
        BY <1>2, <2>1, <3>1
    <3> QED BY <1>4, <1>5, <3>2, <3>3, <3>4
  <2>2. CASE after.stops \cap {"empty_success", "no_progress"} = {}
    <3>1. PICK c : c = Claimed(after, requests)
        OBVIOUS
    <3>2. pager' = c
        BY <1>2, <2>2, <3>1
    <3>3. ASequence(after.queue) /\ after.open \in BOOLEAN
        BY <1>3, <1>4, <1>5
    <3>4. /\ IsWalk(c) /\ ASequence(c.queue) /\ c.open \in BOOLEAN /\ Goes(after, c)
          /\ c.bodies = after.bodies /\ c.keys = after.keys /\ c.read = after.read /\ c.harvest = after.harvest
          /\ c.open => \A r \in ToSet(requests) : r.url \in c.tokens
        BY <1>4, <1>6, <3>1, <3>3, GoingOn
    <3> QED BY <3>2, <3>4
  <2> QED BY <2>1, <2>2
<1>8. Asked \notin pager.read
    BY <1>1 DEF PagesInv, WalkInv
<1>9. PICK asked : asked = Asked
    OBVIOUS
<1>10. WalkInv'
  <2>1. pager'.read = pager.read \cup {Asked} /\ pager'.bodies = pager.bodies \cup {page.body}
      BY <1>4, <1>7
  <2> QED BY <1>1, <1>7, <2>1 DEF PagesInv, WalkInv
<1>11. FrontierInv'
  <2> SUFFICES ASSUME pager'.open PROVE FrontierInv'
      BY DEF FrontierInv
  <2>1. /\ after.tokens \subseteq pager'.tokens /\ ToSet(after.queue) \subseteq ToSet(pager'.queue)
        /\ \A t \in pager'.tokens : t \in after.tokens \/ t \in ToSet(pager'.queue)
        /\ \A r \in ToSet(requests) : r.url \in pager'.tokens
      BY <1>7 DEF Goes
  <2>2. /\ \A t \in pager.tokens : t \in ToSet(pager.queue) \/ t \in pager.read \/ ~Reached(t)
        /\ \A url \in pager.read : \A r \in ToSet(Pagination(directory.pages[url], url)) : r.url \in pager.tokens
      BY <1>1 DEF PagesInv, FrontierInv
  <2>3. \A t : Reached(t)' <=> Reached(t)
      BY <1>1 DEF Reached
  <2>4. \A t \in pager'.tokens : t \in ToSet(pager'.queue) \/ t \in pager'.read \/ ~Reached(t)'
    <3>1. ASSUME NEW t \in pager'.tokens PROVE t \in ToSet(pager'.queue) \/ t \in pager'.read \/ ~Reached(t)'
      <4>1. CASE t \in pager.tokens
        <5>1. t \in ToSet(pager.queue) \/ t \in pager.read \/ ~Reached(t)
            BY <2>2, <4>1
        <5>2. t \in ToSet(pager.queue) => t = Asked \/ t \in ToSet(pager'.queue)
            BY <1>4, <1>5, <2>1
        <5>3. pager'.read = pager.read \cup {Asked}
            BY <1>4, <1>7
        <5> QED BY <2>3, <5>1, <5>2, <5>3
      <4>2. CASE t \notin pager.tokens
          BY <1>4, <2>1, <4>2
      <4> QED BY <4>1, <4>2
    <3> QED BY <3>1
  <2>5. ASSUME NEW url \in pager'.read, NEW r \in ToSet(Pagination(directory'.pages[url], url))
        PROVE  r.url \in pager'.tokens
    <3>1. url = Asked \/ url \in pager.read
        BY <1>4, <1>7
    <3>2. CASE url = Asked
      <4>1. r \in ToSet(requests)
          BY <1>1, <2>5, <3>2 DEF requests
      <4> QED BY <2>1, <4>1
    <3>3. CASE url \in pager.read
      <4>1. r \in ToSet(Pagination(directory.pages[url], url))
          BY <1>1, <2>5
      <4>2. r.url \in pager.tokens
          BY <2>2, <3>3, <4>1
      <4> QED BY <1>4, <2>1, <4>2
    <3> QED BY <3>1, <3>2, <3>3
  <2> QED BY <2>4, <2>5 DEF FrontierInv, Reached
<1>12. HarvestInv'
  <2>1. /\ pager'.read = pager.read \cup {Asked} /\ pager'.harvest = pager.harvest \cup new
        /\ pager'.keys = pager.keys \cup {r.key : r \in new}
      BY <1>4, <1>7
  <2>2. /\ pager.keys = {h.key : h \in pager.harvest}
        /\ \A h \in pager.harvest : \E url \in pager.read : h \in ToSet(KeptOf(directory.pages[url]))
        /\ \A url \in pager.read : \A k \in ToSet(KeptOf(directory.pages[url])) :
              k \in pager.harvest \/ FirstPublished(k, url)
      BY DEF PagesInv, HarvestInv
  <2> HIDE DEF new
  <2>3. pager'.keys = {h.key : h \in pager'.harvest}
      BY <2>1, <2>2
  <2>4. \A h \in new : h \in kept
      BY DEF new
  <2>5. \A h \in pager'.harvest : \E url \in pager'.read : h \in ToSet(KeptOf(directory'.pages[url]))
      BY <1>1, <2>1, <2>2, <2>4
  <2>6. ASSUME NEW url \in pager'.read, NEW k \in ToSet(KeptOf(directory'.pages[url]))
        PROVE  k \in pager'.harvest \/ FirstPublished(k, url)'
    <3>1. CASE url \in pager.read
      <4>1. k \in pager.harvest \/ FirstPublished(k, url)
          BY <1>1, <2>2, <2>6, <3>1
      <4>2. FirstPublished(k, url) => FirstPublished(k, url)'
          BY <1>1, <2>1 DEF FirstPublished
      <4> QED BY <2>1, <4>1, <4>2
    <3>2. CASE url = Asked
      <4>1. k \in kept
          BY <1>1, <2>6, <3>2
      <4>2. CASE k.key \notin pager.keys
          BY <2>1, <4>1, <4>2 DEF new
      <4>3. CASE k.key \in pager.keys
        <5>1. PICK h \in pager.harvest : h.key = k.key
            BY <2>2, <4>3
        <5>2. PICK other \in pager.read : h \in ToSet(KeptOf(directory.pages[other]))
            BY <2>2, <5>1
        <5>3. other # url /\ other \in pager'.read /\ h \in pager'.harvest
            BY <1>8, <2>1, <3>2, <5>2
        <5>4. h \in ToSet(KeptOf(directory'.pages[other]))
            BY <1>1, <5>2
        <5> QED BY <5>1, <5>3, <5>4 DEF FirstPublished
      <4> QED BY <4>2, <4>3
    <3> QED BY <2>1, <3>1, <3>2
  <2> QED BY <2>3, <2>5, <2>6 DEF HarvestInv
<1> QED BY <1>10, <1>11, <1>12 DEF PagesInv

LEMMA PagesKeep == PagesAssumption /\ PagesInv /\ [PagesNext]_pageVars => PagesInv'
<1> SUFFICES ASSUME PagesAssumption, PagesInv, [PagesNext]_pageVars PROVE PagesInv'
    OBVIOUS
<1>1. CASE MissingPage
    BY <1>1, MissingKeeps
<1>2. CASE RepeatedBody
    BY <1>2, RepeatedKeeps
<1>3. CASE ReadListing
    BY <1>3, ReadingKeeps
<1>4. CASE UNCHANGED pageVars
    BY <1>4 DEF pageVars, PagesInv, WalkInv, FrontierInv, HarvestInv, FirstPublished, Reached
<1> QED BY <1>1, <1>2, <1>3, <1>4 DEF PagesNext

(* What is within the boundary is what the boundary leaves of it.           *)
LEMMA WithinIsSafe ==
    ASSUME NEW r, IsRecord(r), Within(r)
    PROVE  r.published = ApplyDataBoundary(r.published)
<1> DEFINE p == r.published
<1>1. p = [f \in RecordFields |-> p[f]] /\ \A f \in RecordFields : p[f] = None \/ ScanForProhibitedData(f, p[f]) = {}
    BY DEF IsRecord, Within
<1> HIDE DEF p
<1>2. DOMAIN p = RecordFields
    BY <1>1
<1>3. \A f \in RecordFields : (IF p[f] # None /\ ScanForProhibitedData(f, p[f]) # {} THEN None ELSE p[f]) = p[f]
    BY <1>1
<1>4. ApplyDataBoundary(p) = [f \in RecordFields |-> p[f]]
    BY <1>2, <1>3 DEF ApplyDataBoundary
<1> QED BY <1>1, <1>4 DEF p

LEMMA HarvestIsWhole == PagesAssumption /\ PagesInv => EveryAddressIsHarvested
<1> SUFFICES ASSUME PagesAssumption, PagesInv PROVE EveryAddressIsHarvested
    OBVIOUS
<1>1. \A url \in pager.read : IsPage(directory.pages[url])
    BY DEF PagesAssumption, PagesInv, WalkInv
<1>2. ASSUME pager.queue = <<>>, pager.open, NEW url \in pager.read, NEW next \in Offered(url)
      PROVE  next \in pager.read \/ ~Reached(next)
  <2>1. next \in {r.url : r \in ToSet(Pagination(directory.pages[url], url))}
      BY <1>2, OfferedIsPaginated
  <2>2. next \in pager.tokens
      BY <1>2, <2>1 DEF PagesInv, FrontierInv
  <2>3. next \notin ToSet(pager.queue)
      BY <1>2 DEF ToSet
  <2> QED BY <1>2, <2>2, <2>3 DEF PagesInv, FrontierInv
<1>3. ASSUME NEW url \in pager.read PROVE AddressesAreKept(url)
  <2> DEFINE page == directory.pages[url]
  <2>1. ASSUME NEW entry \in Entries(page), entry.name # None
        PROVE  \E r \in ToSet(Extract(page)) :
                  /\ ToSet(entry.emails) \subseteq r.emails
                  /\ \/ ScanForProhibitedData("full_name_published", r.published["full_name_published"]) # {}
                     \/ \E k \in ToSet(KeptOf(page)) :
                           r.emails \subseteq k.emails /\ (k \in pager.harvest \/ FirstPublished(k, url))
    <3>1. PICK r \in ToSet(Extract(page)) :
              /\ ToSet(entry.emails) \subseteq r.emails
              /\ \/ ScanForProhibitedData("full_name_published", r.published["full_name_published"]) # {}
                 \/ \E k \in ToSet(KeptOf(page)) : r.emails \subseteq k.emails
        BY <1>1, <1>3, <2>1, KeptAre
    <3>2. \A k \in ToSet(KeptOf(page)) : k \in pager.harvest \/ FirstPublished(k, url)
        BY <1>3 DEF PagesInv, HarvestInv
    <3> HIDE DEF page
    <3> QED BY <3>1, <3>2
  <2> QED BY <2>1 DEF AddressesAreKept
<1>4. ASSUME NEW r \in pager.harvest PROVE r.published = ApplyDataBoundary(r.published)
  <2>1. PICK url \in pager.read : r \in ToSet(KeptOf(directory.pages[url]))
      BY <1>4 DEF PagesInv, HarvestInv
  <2>2. IsRecord(r) /\ Within(r)
      BY <1>1, <2>1, KeptAre
  <2> QED BY <2>2, WithinIsSafe
<1> QED BY <1>2, <1>3, <1>4 DEF EveryAddressIsHarvested

(* Nobody is lost between the pages: whatever guard ended it or did not,    *)
(* every walk over every website whose pages are sequences of entries has   *)
(* in its harvest the addresses the entries of the pages it read give under *)
(* a name, but for the two exceptions the property names; nothing in the    *)
(* harvest is beyond the data boundary; and a walk that no guard ended has  *)
(* asked for every page that was offered (engine.ts, extract.ts, dedup.ts,  *)
(* pagination.ts).                                                          *)
THEOREM NobodyIsLost == PagesSpec => []EveryAddressIsHarvested
<1>1. PagesInit => PagesInv
    BY PagesStart
<1>2. PagesInv /\ [PagesNext]_pageVars => PagesInv'
    BY PagesAssumption, PagesKeep
<1>3. PagesInv => EveryAddressIsHarvested
    BY PagesAssumption, HarvestIsWhole
<1> QED BY <1>1, <1>2, <1>3, PTL DEF PagesSpec
=============================================================================
