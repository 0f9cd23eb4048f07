------------------------ MODULE PeopleReleaseProofs ------------------------
(* What leaves the platform is accounted for, for every set of clients,     *)
(* deliveries, entries and rows: the audit trail is one chain, it tells of  *)
(* what happened, and a complaint is decided once.                          *)
EXTENDS PeopleRelease, FiniteSetTheorems, SequenceTheorems, TLAPS

----------------------------------------------------------------------------
(* The inductive invariants.                                                *)

TaskFields == {"pc", "on", "event", "prev", "seq", "answer"}
WorkFields == {"format", "asOf", "page", "cursor", "seenKeys", "queried", "released"}
Shaped ==
    /\ DOMAIN task = Clients /\ \A c \in Clients : DOMAIN task[c] = TaskFields
    /\ DOMAIN work = Exporters /\ \A x \in Exporters : DOMAIN work[x] = WorkFields
    /\ DOMAIN exports = Exporters /\ \A x \in Exporters : DOMAIN exports[x] = {"status", "count", "checked"}
    /\ DOMAIN file = Exporters /\ DOMAIN complaints = Keys /\ DOMAIN rowLock = Keys

(* The transactions that hold the audit lock.                               *)
Holding == {"revoked", "appended", "decide"}
IsLast(n) ==
    IF trail = {} THEN n = 0
    ELSE \E e \in trail : e.seq = n /\ \A f \in trail : f.seq <= n

(* A transaction that appends has the lock, the last number drawn and the   *)
(* last event committed; the trail has an end, and every link is in it.     *)
AuditInv ==
    /\ nextSeq \in Nat \ {0}
    /\ \E n \in Nat : IsLast(n)
    /\ \A e \in trail : e.seq \in Nat \ {0} /\ e.seq < nextSeq
    /\ \A c \in Clients : task[c].pc \in Holding =>
          /\ auditLock = c
          /\ task[c].seq = nextSeq - 1 /\ nextSeq > 1 /\ task[c].prev \in Nat /\ IsLast(task[c].prev)
          /\ \A e \in trail : e.seq < task[c].seq
    /\ ChainVerifies

(* Whoever revokes an entry does so alone, before it is revoked; an event   *)
(* of a revocation is the only one of an entry that is revoked.             *)
Revoking == {"revoking", "revoked"}
RevokedEvents(e) == {t \in trail : t.action = "suppression.revoked" /\ t.subject = e}
RevokeInv ==
    /\ revoked \subseteq entries
    /\ \A o \in Clients : task[o].pc \in Revoking => task[o].on \in entries \ revoked
    /\ \A o, p \in Clients :
          task[o].pc \in Revoking /\ task[p].pc \in Revoking /\ task[o].on = task[p].on => o = p
    /\ \A o \in Clients : task[o].pc \in Revoking => o \in Operators
    /\ \A t \in trail : t.action = "suppression.revoked" => t.subject \in revoked
    /\ \A e \in revoked : \E t : RevokedEvents(e) = {t}

(* The event a client carries is true when it is carried; an export that    *)
(* is counted is not written to again.                                      *)
Carries(c, event) ==
    \/ c \in Operators /\ \E e \in entries : event = <<"suppression.added", e>>
    \/ /\ c \in Exporters /\ event = <<"export.completed", c>>
       /\ exports[c].checked /\ exports[c].status = "completed"
    \/ c \in Exporters /\ event = <<"export.failed", c>>
Counted == {"append", "appended", "failing", "done", "dead"}
CompletedOnTrail(x) == \E t \in trail : t.action = "export.completed" /\ t.subject = x
ExportInv ==
    /\ \A c \in Clients : task[c].pc \in {"append", "appended"} => Carries(c, task[c].event)
    /\ \A x \in Exporters : exports[x].checked => task[x].pc \in Counted /\ exports[x].count = Cardinality(file[x])
    /\ \A t \in trail : t.action = "suppression.added" => t.subject \in entries
    /\ \A t \in trail : t.action = "export.completed" => t.subject \in Exporters /\ exports[t.subject].checked
    /\ \A x \in Exporters : work[x].released =>
          task[x].pc = "done" /\ exports[x].status = "completed" /\ CompletedOnTrail(x)

(* A complaint is worked on by who has its row, while it is unresolved; its *)
(* entries and the event of its receipt are there once it is resolved, and  *)
(* not before.                                                              *)
Handling == {"lookup", "resolve", "received", "decide", "caught"}
Deciding == {"received", "decide"}
Decided(k) == ~Unresolved(complaints[k]) /\ complaints[k] # Absent
Received(k) == {t \in trail : t.action = "complaint.received" /\ t.subject = k}
Own(k) == {e \in entries : e.by = k}
Persons(k) == {e \in Own(k) : e.scope = "person"}
Told(k) ==
    /\ IF Decided(k) THEN \E t : Received(k) = {t} ELSE Received(k) = {} /\ Own(k) = {}
    /\ IF complaints[k].resolution = "suppressed"
       THEN Decided(k) /\ \E e : Persons(k) = {e} ELSE Persons(k) = {}
    /\ Own(k) # {} => complaints[k].entry \in Own(k)
ComplaintInv ==
    /\ \A i \in Clients : task[i].pc \in Handling =>
          i \in Intakes /\ task[i].on \in Deliveries /\ complaints[KeyOf(i)] # Absent
    /\ \A i \in Clients : task[i].pc \in Deciding => rowLock[KeyOf(i)] = i /\ Unresolved(complaints[KeyOf(i)])
    /\ \A k \in Keys : Told(k)

----------------------------------------------------------------------------
(* The audit chain.                                                         *)

(* The last event is the one audit_event_append reads.                      *)
LEMMA LastSeqIsLast ==
    ASSUME AuditInv
    PROVE  LastSeq \in Nat /\ IsLast(LastSeq)
<1>1. CASE trail = {}
  BY <1>1 DEF LastSeq, IsLast
<1>2. CASE trail # {}
  <2>1. PICK n \in Nat : \E e \in trail : e.seq = n /\ \A f \in trail : f.seq <= n
    BY <1>2 DEF AuditInv, IsLast
  <2>2. LastSeq \in {e.seq : e \in trail} /\ \A e \in trail : e.seq <= LastSeq
    <3> DEFINE seqs == {e.seq : e \in trail}
    <3>1. \E m \in seqs : \A e \in trail : e.seq <= m
      BY <2>1
    <3>2. LastSeq = CHOOSE m \in seqs : \A e \in trail : e.seq <= m
      BY <1>2 DEF LastSeq
    <3> HIDE DEF seqs
    <3>3. LastSeq \in seqs /\ \A e \in trail : e.seq <= LastSeq
      BY <3>1, <3>2
    <3> QED BY <3>3 DEF seqs
  <2>3. PICK e \in trail : e.seq = LastSeq
    BY <2>2
  <2> QED BY <1>2, <2>2, <2>3 DEF IsLast, AuditInv
<1> QED BY <1>1, <1>2

(* Numbers and links of the events a transaction appends: each follows the  *)
(* one before, the first the last event of the trail.                       *)
NewEvent(c, events, i) ==
    [seq |-> IF i = 1 THEN task[c].seq ELSE nextSeq + i - 2,
     prev |-> IF i = 1 THEN task[c].prev ELSE IF i = 2 THEN task[c].seq ELSE nextSeq + i - 3,
     action |-> events[i][1], subject |-> events[i][2]]

(* The events a transaction appends, one after the other, behind the chain *)
(* head it read.                                                           *)
LEMMA NewEventFacts ==
    ASSUME AuditInv, NEW c \in Clients, task[c].pc \in Holding,
           NEW events, NEW n \in Nat \ {0}, DOMAIN events = 1..n
    PROVE  /\ Appended(c, events) = trail \cup {NewEvent(c, events, i) : i \in 1..n}
           /\ \A i \in 1..n :
                 /\ NewEvent(c, events, i).seq = nextSeq + i - 2
                 /\ NewEvent(c, events, i).prev = IF i = 1 THEN task[c].prev ELSE nextSeq + i - 3
                 /\ NewEvent(c, events, i).action = events[i][1]
                 /\ NewEvent(c, events, i).subject = events[i][2]
<1>1. Appended(c, events) = trail \cup {NewEvent(c, events, i) : i \in 1..n}
  BY DEF Appended, NewEvent
<1>2. task[c].seq = nextSeq - 1 /\ nextSeq \in Nat \ {0}
  BY DEF AuditInv
<1> QED BY <1>1, <1>2 DEF NewEvent

(* Who does not append and does not come to hold the lock leaves the chain  *)
(* as it is.                                                                *)
LEMMA AuditKept ==
    ASSUME AuditInv, NEW c \in Clients, UNCHANGED <<trail, nextSeq>>,
           \A d \in Clients \ {c} : task'[d] = task[d],
           task'[c].pc \notin Holding,
           auditLock' = auditLock \/ auditLock' = (IF auditLock = c THEN None ELSE auditLock)
    PROVE  AuditInv'
<1>1. ASSUME NEW d \in Clients, task'[d].pc \in Holding
      PROVE  d # c /\ task[d].pc \in Holding /\ auditLock' = d /\ task'[d] = task[d]
  BY <1>1 DEF AuditInv
<1> QED BY <1>1 DEF AuditInv, IsLast, ChainVerifies

(* Taking the lock reads the end of the trail and draws a number.           *)
LEMMA AuditBegun ==
    ASSUME Shaped, AuditInv, NEW c \in Clients, NEW pc, BeginAppend(c, pc), UNCHANGED trail
    PROVE  /\ AuditInv'
           /\ \A d \in Clients \ {c} : task'[d] = task[d]
           /\ task'[c].pc = pc /\ task'[c].on = task[c].on /\ task'[c].event = task[c].event
<1>1. /\ \A d \in Clients \ {c} : task'[d] = task[d]
      /\ task'[c].pc = pc /\ task'[c].on = task[c].on /\ task'[c].event = task[c].event
      /\ task'[c].prev = LastSeq /\ task'[c].seq = nextSeq
      /\ auditLock = None /\ auditLock' = c /\ nextSeq' = nextSeq + 1
  BY DEF Shaped, BeginAppend, AuditLockFree, TaskFields
<1>2. \A d \in Clients : task[d].pc \notin Holding
  BY <1>1, ClientAssumption DEF AuditInv
<1>3. LastSeq \in Nat /\ IsLast(LastSeq) /\ nextSeq \in Nat \ {0}
  BY LastSeqIsLast DEF AuditInv
<1> QED BY <1>1, <1>2, <1>3 DEF AuditInv, IsLast, ChainVerifies

(* Committing appends a run of events that continues the chain.             *)
LEMMA AuditCommitted ==
    ASSUME AuditInv, NEW c \in Clients, task[c].pc \in Holding,
           NEW events, NEW n \in Nat \ {0}, DOMAIN events = 1..n, Len(events) = n, CommitAppend(c, events),
           \A d \in Clients \ {c} : task'[d] = task[d],
           task'[c].pc \notin Holding
    PROVE  AuditInv'
<1> DEFINE new == {NewEvent(c, events, i) : i \in 1..n}
<1>1. /\ trail' = trail \cup new /\ nextSeq' = nextSeq + n - 1
      /\ auditLock' = IF auditLock = c THEN None ELSE auditLock
  BY NewEventFacts DEF CommitAppend
<1>2. /\ task[c].prev \in Nat /\ IsLast(task[c].prev) /\ nextSeq \in Nat \ {0}
      /\ \A e \in trail : e.seq \in Nat \ {0} /\ e.seq < nextSeq - 1
      /\ auditLock = c /\ task[c].seq = nextSeq - 1 /\ nextSeq > 1
      /\ ChainVerifies
  BY DEF AuditInv
<1>3. \A i \in 1..n : /\ NewEvent(c, events, i).seq = nextSeq + i - 2
                      /\ NewEvent(c, events, i).prev = IF i = 1 THEN task[c].prev ELSE nextSeq + i - 3
  BY NewEventFacts
<1>4. \A d \in Clients : task'[d].pc \notin Holding
  BY <1>2 DEF AuditInv
<1>5. \A e \in trail' : e.seq \in Nat \ {0} /\ e.seq < nextSeq'
  <2>1. ASSUME NEW e \in trail PROVE e.seq \in Nat \ {0} /\ e.seq < nextSeq'
    BY <1>1, <1>2
  <2>2. ASSUME NEW i \in 1..n
        PROVE  NewEvent(c, events, i).seq \in Nat \ {0} /\ NewEvent(c, events, i).seq < nextSeq'
    BY <1>1, <1>2, <1>3
  <2> QED BY <1>1, <2>1, <2>2
<1>6. \E m \in Nat : IsLast(m)'
  <2> DEFINE last == NewEvent(c, events, n)
  <2>1. last \in trail' /\ last.seq = nextSeq + n - 2 /\ last.seq \in Nat
    BY <1>1, <1>2, <1>3
  <2>2. \A f \in trail' : f.seq <= last.seq
    BY <1>1, <1>2, <1>5, <2>1
  <2> HIDE DEF last
  <2> QED BY <2>1, <2>2 DEF IsLast
<1>7. \A e, f \in trail' : e.seq = f.seq => e = f
  <2>1. ASSUME NEW e \in trail, NEW f \in new PROVE e.seq # f.seq
    BY <1>2, <1>3
  <2>2. ASSUME NEW i \in 1..n, NEW j \in 1..n, NewEvent(c, events, i).seq = NewEvent(c, events, j).seq
        PROVE  NewEvent(c, events, i) = NewEvent(c, events, j)
    <3>1. i = j
      BY <1>2, <1>3, <2>2
    <3> QED BY <3>1
  <2> QED BY <1>1, <1>2, <2>1, <2>2 DEF ChainVerifies
<1>8. ASSUME NEW e \in trail'
      PROVE  LET before == {f \in trail' : f.seq < e.seq} IN
             IF before = {} THEN e.prev = 0
             ELSE \E f \in before : f.seq = e.prev /\ \A g \in before : g.seq <= f.seq
  <2> DEFINE before == {f \in trail' : f.seq < e.seq}
  <2>1. CASE e \in trail
    <3>1. before = {f \in trail : f.seq < e.seq}
      BY <1>1, <1>2, <1>3, <2>1
    <3> QED BY <1>2, <2>1, <3>1 DEF ChainVerifies
  <2>2. CASE e \in new
    <3>1. PICK i \in 1..n : e = NewEvent(c, events, i)
      BY <2>2
    <3>2. e.seq = nextSeq + i - 2
      BY <1>3, <3>1
    <3>3. CASE i = 1
      <4>1. before = trail
        BY <1>1, <1>2, <1>3, <3>2, <3>3
      <4>2. e.prev = task[c].prev
        BY <1>3, <3>1, <3>3
      <4> QED BY <1>2, <4>1, <4>2 DEF IsLast
    <3>4. CASE i # 1
      <4> DEFINE f == NewEvent(c, events, i - 1)
      <4>1. f \in new /\ f.seq = nextSeq + i - 3 /\ e.prev = nextSeq + i - 3
        <5>1. i - 1 \in 1..n
          BY <3>4
        <5> QED BY <1>2, <1>3, <3>1, <3>4, <5>1
      <4>2. f \in before
        BY <1>1, <1>2, <3>2, <4>1
      <4>3. \A g \in before : g.seq <= f.seq
        <5> SUFFICES ASSUME NEW g \in before PROVE g.seq <= nextSeq + i - 3
          BY <4>1
        <5>1. CASE g \in trail
          BY <1>2, <3>4, <5>1
        <5>2. CASE g \in new
          BY <1>2, <1>3, <3>2, <5>2
        <5> QED BY <1>1, <5>1, <5>2
      <4> HIDE DEF f
      <4> QED BY <4>1, <4>2, <4>3
    <3> QED BY <3>3, <3>4
  <2> QED BY <1>1, <2>1, <2>2
<1>9. ChainVerifies'
  BY <1>7, <1>8 DEF ChainVerifies
<1>10. nextSeq' \in Nat \ {0}
  BY <1>1, <1>2
<1> QED BY <1>4, <1>5, <1>6, <1>9, <1>10 DEF AuditInv

----------------------------------------------------------------------------
(* What resolving a complaint decides.                                      *)

(* A transaction's events, put together of a first one and two others that  *)
(* may be missing.                                                          *)
PutTogether(z, a, s, t) ==
    /\ DOMAIN z = 1..(1 + Len(s) + Len(t)) /\ Len(z) = 1 + Len(s) + Len(t)
    /\ z[1] = a
    /\ \A i \in DOMAIN z : i # 1 => \/ \E j \in 1..Len(s) : z[i] = s[j]
                                    \/ \E j \in 1..Len(t) : z[i] = t[j]

(* A first event with two sequences of events behind it.                   *)
LEMMA EventsPutTogether ==
    ASSUME NEW S, NEW a \in S, NEW s \in Seq(S), NEW t \in Seq(S)
    PROVE  PutTogether(<<a>> \o s \o t, a, s, t)
<1> DEFINE y == <<a>> \o s
           z == y \o t
<1>1. /\ y \in Seq(S) /\ Len(y) = 1 + Len(s) /\ y[1] = a /\ Len(s) \in Nat
      /\ \A i \in 2..(1 + Len(s)) : y[i] = s[i - 1]
  OBVIOUS
<1> HIDE DEF y
<1>5. /\ z \in Seq(S) /\ Len(z) = Len(y) + Len(t) /\ Len(t) \in Nat
      /\ \A i \in 1..Len(y) : z[i] = y[i]
      /\ \A i \in 1..Len(t) : z[Len(y) + i] = t[i]
      /\ DOMAIN z = 1..(Len(y) + Len(t))
  BY <1>1
<1> HIDE DEF z
<1>3. ASSUME NEW i \in DOMAIN z, i # 1
      PROVE  \/ \E j \in 1..Len(s) : z[i] = s[j]
             \/ \E j \in 1..Len(t) : z[i] = t[j]
  <2>1. CASE i <= 1 + Len(s)
    <3>1. i - 1 \in 1..Len(s) /\ z[i] = s[i - 1]
      BY <1>1, <1>5, <1>3, <2>1
    <3> QED BY <3>1
  <2>2. CASE i > 1 + Len(s)
    <3>1. i - Len(y) \in 1..Len(t) /\ i = Len(y) + (i - Len(y))
      BY <1>1, <1>5, <1>3, <2>2
    <3>2. z[i] = t[i - Len(y)]
      BY <1>5, <3>1
    <3> QED BY <3>1, <3>2
  <2> QED BY <1>1, <1>5, <2>1, <2>2
<1>4. z[1] = a
  BY <1>1, <1>5
<1>6. PutTogether(z, a, s, t)
  BY <1>1, <1>3, <1>4, <1>5 DEF PutTogether
<1> QED BY <1>6 DEF z, y

(* One event says the complaint was received; entries it adds are its own,  *)
(* announced, and of a person exactly if people matched one; and the row is *)
(* resolved and names one of the entries, if there are any.                 *)
LEMMA DecisionFacts ==
    ASSUME NEW d \in Deliveries
    PROVE  LET x == Decision(d) IN
           /\ \E n \in 1..3 : DOMAIN x.events = 1..n /\ Len(x.events) = n
           /\ x.events[1] = <<"complaint.received", d.key>>
           /\ \A i \in DOMAIN x.events : i # 1 =>
                 \/ x.events[i][1] = "complaint.needs_review"
                 \/ x.events[i][1] = "suppression.added" /\ x.events[i][2] \in x.entries
           /\ \A e \in x.entries : e.by = d.key
           /\ ~Unresolved(x.row) /\ x.row # Absent
           /\ x.entries # {} => x.row.entry \in x.entries
           /\ IF x.row.resolution = "suppressed"
              THEN \E e : {f \in x.entries : f.scope = "person"} = {e}
              ELSE {f \in x.entries : f.scope = "person"} = {}
<1> DEFINE mail == Entry("email", d.value, d.key)
           contact == IF d.type = "email" THEN {mail} ELSE {}
           people == Matches(d)
           received == <<"complaint.received", d.key>>
           review == <<"complaint.needs_review", d.key>>
           added(set) == IF set = {} THEN <<>> ELSE <<<<"suppression.added", CHOOSE e \in set : TRUE>>>>
           reason == IF Cardinality(people) > 1 THEN "multiple_matching_people"
                     ELSE IF d.type \in {"email", "phone"} THEN "no_matching_person"
                     ELSE "unsupported_contact_type"
           chosen == IF contact = {} THEN None ELSE CHOOSE e \in contact : TRUE
           named == Entry("person", CHOOSE p \in people : TRUE, d.key)
           first == added(contact)
           second == added({named})
           x == Decision(d)
           S == {received, review, <<"suppression.added", mail>>, <<"suppression.added", named>>}
<1>1. mail.by = d.key /\ mail.scope = "email" /\ named.by = d.key /\ named.scope = "person"
  BY DEF Entry
<1> HIDE DEF mail, named, people
<1>2. /\ contact \subseteq {mail}
      /\ contact # {} => contact = {mail} /\ chosen = mail
  OBVIOUS
<1>3. /\ first \in Seq(S) /\ Len(first) \in {0, 1}
      /\ \A j \in 1..Len(first) :
            first[j] = <<"suppression.added", mail>> /\ mail \in contact
  OBVIOUS
<1>4. /\ second \in Seq(S) /\ Len(second) = 1
      /\ \A j \in 1..Len(second) : second[j] = <<"suppression.added", named>>
  OBVIOUS
<1>5. /\ <<review>> \in Seq(S) /\ Len(<<review>>) = 1
      /\ \A j \in 1..Len(<<review>>) : <<review>>[j] = <<"complaint.needs_review", d.key>>
      /\ received \in S
  OBVIOUS
<1>6. (CHOOSE e \in {named} : TRUE) = named
  OBVIOUS
<1>7. reason # "suppression_failed"
  OBVIOUS
<1> HIDE DEF reason, chosen, S, first, second, contact
<1>8. CASE ~d.suppress
  <2>1. Decision(d) = [entries |-> {}, events |-> <<received>>,
             row |-> Complaint("dismissed", "operator_recorded_without_suppression", None)]
    BY <1>8 DEF Decision
  <2>2. /\ x.entries = {} /\ x.events = <<received>>
        /\ x.row = Complaint("dismissed", "operator_recorded_without_suppression", None)
    BY <2>1
  <2>3. DOMAIN x.events = 1..1 /\ Len(x.events) = 1 /\ x.events[1] = received
    BY <2>2
  <2> HIDE DEF x
  <2> QED BY <2>2, <2>3 DEF Complaint, Absent, Unresolved, x
<1>9. CASE d.suppress /\ Cardinality(people) = 1
  <2> DEFINE z == <<received>> \o first \o second
  <2>1. Decision(d) = [entries |-> contact \cup {named}, events |-> z,
                       row |-> Complaint("suppressed", None, named)]
    BY <1>6, <1>9 DEF Decision, contact, mail, people, first, second, named
  <2>2. /\ DOMAIN z = 1..(1 + Len(first) + 1) /\ Len(z) = 1 + Len(first) + 1
        /\ z[1] = received
        /\ \A i \in DOMAIN z : i # 1 => \/ \E j \in 1..Len(first) : z[i] = first[j]
                                        \/ \E j \in 1..Len(second) : z[i] = second[j]
    <3>1. PutTogether(z, received, first, second)
      BY <1>3, <1>4, <1>5, EventsPutTogether
    <3> HIDE DEF z
    <3> QED BY <1>4, <3>1 DEF PutTogether
  <2> HIDE DEF z
  <2>3. \E n \in 1..3 : DOMAIN z = 1..n /\ Len(z) = n
    BY <1>3, <2>2
  <2>4. ASSUME NEW i \in DOMAIN z, i # 1
        PROVE  z[i][1] = "suppression.added" /\ z[i][2] \in contact \cup {named}
    <3>1. CASE \E j \in 1..Len(first) : z[i] = first[j]
      BY <1>3, <3>1
    <3>2. CASE \E j \in 1..Len(second) : z[i] = second[j]
      BY <1>4, <3>2
    <3> QED BY <2>2, <2>4, <3>1, <3>2
  <2>5. {f \in contact \cup {named} : f.scope = "person"} = {named}
    BY <1>1, <1>2
  <2>6. \A e \in contact \cup {named} : e.by = d.key
    BY <1>1, <1>2
  <2>7. LET row == Complaint("suppressed", None, named) IN
        ~Unresolved(row) /\ row # Absent /\ row.entry = named /\ row.resolution = "suppressed"
    BY NoneAssumption DEF Complaint, Absent, Unresolved
  <2>8. x.entries = contact \cup {named} /\ x.events = z /\ x.row = Complaint("suppressed", None, named)
    BY <2>1
  <2> HIDE DEF x
  <2> QED BY <2>2, <2>3, <2>4, <2>5, <2>6, <2>7, <2>8 DEF x
<1>10. CASE d.suppress /\ Cardinality(people) # 1
  <2> DEFINE z == <<received>> \o first \o <<review>>
  <2>1. Decision(d) = [entries |-> contact, events |-> z,
                       row |-> Complaint("needs_review", reason, chosen)]
    BY <1>10 DEF Decision, contact, mail, people, first, reason, chosen
  <2>2. /\ DOMAIN z = 1..(1 + Len(first) + 1) /\ Len(z) = 1 + Len(first) + 1
        /\ z[1] = received
        /\ \A i \in DOMAIN z : i # 1 => \/ \E j \in 1..Len(first) : z[i] = first[j]
                                        \/ \E j \in 1..Len(<<review>>) : z[i] = <<review>>[j]
    <3>1. PutTogether(z, received, first, <<review>>)
      BY <1>3, <1>5, EventsPutTogether
    <3> HIDE DEF z
    <3> QED BY <1>5, <3>1 DEF PutTogether
  <2> HIDE DEF z
  <2>3. \E n \in 1..3 : DOMAIN z = 1..n /\ Len(z) = n
    BY <1>3, <2>2
  <2>4. \A i \in DOMAIN z : i # 1 => \/ z[i][1] = "complaint.needs_review"
                                     \/ z[i][1] = "suppression.added" /\ z[i][2] \in contact
    BY <1>3, <1>5, <2>2
  <2>5. {f \in contact : f.scope = "person"} = {}
    BY <1>1, <1>2
  <2>6. (\A e \in contact : e.by = d.key) /\ (contact # {} => chosen \in contact)
    BY <1>1, <1>2
  <2>7. LET row == Complaint("needs_review", reason, chosen) IN
        ~Unresolved(row) /\ row # Absent /\ row.entry = chosen /\ row.resolution = "needs_review"
    BY <1>7 DEF Complaint, Absent, Unresolved
  <2>8. x.entries = contact /\ x.events = z /\ x.row = Complaint("needs_review", reason, chosen)
    BY <2>1
  <2> HIDE DEF x
  <2> QED BY <2>2, <2>3, <2>4, <2>5, <2>6, <2>7, <2>8 DEF x
<1> QED BY <1>8, <1>9, <1>10

----------------------------------------------------------------------------
(* One step of one client.                                                  *)

(* Rows and locals keep their columns.                                      *)
LEMMA ShapeKept ==
    ASSUME Shaped, NEW c \in Clients, Begin(c) \/ Step(c) \/ Trouble(c)
    PROVE  Shaped'
<1> USE DEF Shaped, TaskFields, WorkFields, Clients
<1>1. ASSUME NEW pc, BeginAppend(c, pc) PROVE DOMAIN task' = Clients /\ \A d \in Clients : DOMAIN task'[d] = TaskFields
  BY <1>1 DEF BeginAppend
<1>2. ASSUME NEW pc, Goto(c, pc) PROVE DOMAIN task' = Clients /\ \A d \in Clients : DOMAIN task'[d] = TaskFields
  BY <1>2 DEF Goto
<1>3. CASE AppendAudit(c) \/ RevokeAppend(c) \/ ReceivedAppend(c)
  BY <1>1, <1>3 DEF AppendAudit, RevokeAppend, ReceivedAppend, tables
<1>4. CASE AppendDone(c) \/ AppendAnswerLost(c)
  BY <1>2, <1>4 DEF AppendDone, AppendAnswerLost, Appending, tables
<1>5. CASE CommitRevoke(c)
  BY <1>2, <1>5 DEF CommitRevoke, exporting
<1>6. CASE LookUp(c)
  BY <1>6 DEF LookUp, tables, Answered
<1>7. CASE LockComplaint(c)
  BY <1>2, <1>7 DEF LockComplaint, tables, Answered
<1>8. CASE Resolve(c)
  BY <1>2, <1>8 DEF Resolve, exporting, Answered
<1>9. CASE MarkFailed(c)
  BY <1>9 DEF MarkFailed, exporting, Answered
<1>10. CASE Die(c) \/ ResolutionFails(c) \/ ExportFails(c)
  BY <1>2, <1>10 DEF Die, ResolutionFails, ExportFails, Unlock, tables
<1>11. CASE InsertEntry(c) \/ BeginRevoke(c)
  BY <1>11 DEF InsertEntry, BeginRevoke, exporting, tables
<1>12. CASE Receive(c)
  BY <1>12 DEF Receive, exporting
<1>13. CASE c \in Exporters /\ Start(c)
  BY <1>2, <1>13 DEF Start, NewWork
<1>14. CASE c \in Exporters /\ Query(c)
  BY <1>2, <1>14 DEF Query, tables
<1>15. CASE c \in Exporters /\ Write(c)
  BY <1>2, <1>15 DEF Write, tables
<1>16. CASE c \in Exporters /\ Complete(c)
  BY <1>16 DEF Complete
<1>17. CASE c \in Exporters /\ Fail(c)
  BY <1>17 DEF Fail
<1> QED
  BY <1>3, <1>4, <1>5, <1>6, <1>7, <1>8, <1>9, <1>10, <1>11, <1>12, <1>13, <1>14, <1>15, <1>16, <1>17
     DEF Begin, Step, Trouble

(* The chain stays a chain.                                                 *)
LEMMA AuditStep ==
    ASSUME Shaped, AuditInv, ComplaintInv, NEW c \in Clients, Begin(c) \/ Step(c) \/ Trouble(c)
    PROVE  AuditInv'
<1> USE DEF Shaped, TaskFields, Holding, audit
<1> DEFINE Others == \A d \in Clients \ {c} : task'[d] = task[d]
<1>1. ASSUME NEW pc, Goto(c, pc) PROVE Others /\ task'[c].pc = pc
  BY <1>1 DEF Goto
<1>2. ASSUME NEW complaint, task' = Answered(c, complaint) PROVE Others /\ task'[c].pc = "done"
  BY <1>2 DEF Answered
<1>3. CASE AppendAudit(c) \/ RevokeAppend(c) \/ ReceivedAppend(c)
  <2>1. UNCHANGED trail
    BY <1>3 DEF AppendAudit, RevokeAppend, ReceivedAppend
  <2> QED BY <1>3, <2>1, AuditBegun DEF AppendAudit, RevokeAppend, ReceivedAppend
<1>4. ASSUME NEW event, CommitAppend(c, <<event>>), task[c].pc \in Holding, Others, task'[c].pc \notin Holding
      PROVE  AuditInv'
  <2> DEFINE events == <<event>>
  <2>1. PICK n \in Nat \ {0} : DOMAIN events = 1..n /\ Len(events) = n
    <3>1. DOMAIN events = 1..1 /\ Len(events) = 1 /\ 1 \in Nat \ {0}
      OBVIOUS
    <3> QED BY <3>1
  <2> HIDE DEF events
  <2>2. CommitAppend(c, events)
    BY <1>4 DEF events
  <2> QED BY <1>4, <2>1, <2>2, AuditCommitted
<1>5. CASE AppendDone(c) \/ AppendAnswerLost(c)
  BY <1>1, <1>4, <1>5 DEF AppendDone, AppendAnswerLost, Appending, At
<1>6. CASE CommitRevoke(c)
  BY <1>1, <1>4, <1>6 DEF CommitRevoke, At
<1>7. CASE c \in Intakes /\ Resolve(c) /\ task[c].on \in Deliveries
  <2> DEFINE events == Decision(task[c].on).events
  <2>1. PICK n \in 1..3 : DOMAIN events = 1..n /\ Len(events) = n
    BY <1>7, DecisionFacts
  <2>2. CommitAppend(c, events) /\ task[c].pc \in Holding /\ Others /\ task'[c].pc \notin Holding
    BY <1>1, <1>2, <1>7 DEF Resolve, At
  <2> HIDE DEF events
  <2> QED BY <2>1, <2>2, AuditCommitted
<1>8. ASSUME Others, task'[c].pc \notin Holding, UNCHANGED audit
      PROVE  AuditInv'
  BY <1>8, AuditKept
<1>9. CASE LookUp(c)
  BY <1>2, <1>8, <1>9 DEF LookUp
<1>10. CASE LockComplaint(c)
  BY <1>1, <1>2, <1>8, <1>10 DEF LockComplaint
<1>11. CASE MarkFailed(c)
  BY <1>2, <1>8, <1>11 DEF MarkFailed
<1>12. CASE Die(c) \/ ResolutionFails(c) \/ ExportFails(c)
  <2>1. Others /\ task'[c].pc \notin Holding
    BY <1>1, <1>12 DEF Die, ResolutionFails, ExportFails
  <2> QED BY <1>12, <2>1, AuditKept DEF Die, ResolutionFails, ExportFails, Unlock
<1>13. CASE InsertEntry(c) \/ BeginRevoke(c) \/ Receive(c)
  BY <1>8, <1>13 DEF InsertEntry, BeginRevoke, Receive
<1>14. CASE Start(c) \/ Query(c) \/ Write(c)
  <2>1. /\ \E pc \in {"query", "write", "complete"} : Goto(c, pc)
        /\ UNCHANGED audit
    BY <1>14 DEF Start, Query, Write
  <2> QED BY <1>1, <1>8, <2>1
<1>15. CASE Complete(c) \/ Fail(c)
  BY <1>8, <1>15 DEF Complete, Fail
<1>16. Resolve(c) => c \in Intakes /\ task[c].on \in Deliveries
  BY DEF ComplaintInv, Resolve, At, Handling
<1> QED
  BY <1>3, <1>5, <1>6, <1>7, <1>16, <1>9, <1>10, <1>11, <1>12, <1>13, <1>14, <1>15 DEF Begin, Step, Trouble

(* What a commit leaves on the trail: the one event of a statement of its   *)
(* own, or the receipt of a complaint and what was decided on it.           *)
LEMMA OneEventAppended ==
    ASSUME AuditInv, NEW c \in Clients, task[c].pc \in Holding, NEW event, CommitAppend(c, <<event>>)
    PROVE  \E t : trail' = trail \cup {t} /\ t.action = event[1] /\ t.subject = event[2]
<1> DEFINE events == <<event>>
           t == NewEvent(c, events, 1)
<1>1. DOMAIN events = 1..1 /\ events[1] = event /\ 1 \in Nat \ {0}
  OBVIOUS
<1>2. trail' = trail \cup {NewEvent(c, events, i) : i \in 1..1} /\ t.action = event[1] /\ t.subject = event[2]
  <2>1. trail' = Appended(c, events)
    BY DEF CommitAppend
  <2>2. PICK n \in Nat \ {0} : n = 1
    OBVIOUS
  <2>3. DOMAIN events = 1..n
    BY <1>1, <2>2
  <2>4. events[1] = event
    BY <1>1
  <2> HIDE DEF events
  <2>5. /\ Appended(c, events) = trail \cup {NewEvent(c, events, i) : i \in 1..n}
        /\ \A i \in 1..n : NewEvent(c, events, i).action = events[i][1] /\ NewEvent(c, events, i).subject = events[i][2]
    BY <2>3, NewEventFacts
  <2> QED BY <2>1, <2>2, <2>4, <2>5
<1> HIDE DEF t
<1>3. trail' = trail \cup {t}
  BY <1>2 DEF t
<1> QED BY <1>2, <1>3

DecisionOnTrail(c, old, new) ==
    \E r : /\ r \in new /\ r.action = "complaint.received" /\ r.subject = KeyOf(c)
           /\ \A t \in new \ (old \cup {r}) :
                 \/ t.action = "complaint.needs_review"
                 \/ t.action = "suppression.added" /\ t.subject \in Decision(task[c].on).entries

(* A resolved complaint leaves its decision on the trail.                  *)
LEMMA DecisionAppended ==
    ASSUME AuditInv, NEW c \in Clients, task[c].on \in Deliveries, Resolve(c)
    PROVE  trail \subseteq trail' /\ DecisionOnTrail(c, trail, trail')
<1> DEFINE x == Decision(task[c].on)
           events == x.events
           r == NewEvent(c, events, 1)
<1>1. PICK n \in 1..3 : DOMAIN events = 1..n /\ Len(events) = n
  BY DecisionFacts
<1>2. /\ events[1] = <<"complaint.received", KeyOf(c)>>
      /\ \A i \in DOMAIN events : i # 1 => \/ events[i][1] = "complaint.needs_review"
                                           \/ events[i][1] = "suppression.added" /\ events[i][2] \in x.entries
  BY DecisionFacts DEF KeyOf
<1>3. trail' = Appended(c, events) /\ task[c].pc \in Holding /\ n \in Nat \ {0}
  BY DEF Resolve, CommitAppend, At, Holding
<1> HIDE DEF x, events
<1>4. /\ trail' = trail \cup {NewEvent(c, events, i) : i \in 1..n}
      /\ \A i \in 1..n : /\ NewEvent(c, events, i).action = events[i][1]
                         /\ NewEvent(c, events, i).subject = events[i][2]
  <2>1. PICK m \in Nat \ {0} : m = n
    BY <1>3
  <2>2. DOMAIN events = 1..m
    BY <1>1, <2>1
  <2>3. /\ Appended(c, events) = trail \cup {NewEvent(c, events, i) : i \in 1..m}
        /\ \A i \in 1..m : NewEvent(c, events, i).action = events[i][1] /\ NewEvent(c, events, i).subject = events[i][2]
    BY <1>3, <2>2, NewEventFacts
  <2> QED BY <1>3, <2>1, <2>3
<1>5. r \in trail' /\ r.action = "complaint.received" /\ r.subject = KeyOf(c)
  BY <1>2, <1>4
<1>6. ASSUME NEW t \in trail', t \notin trail, t # r
      PROVE  \/ t.action = "complaint.needs_review"
             \/ t.action = "suppression.added" /\ t.subject \in x.entries
  <2>1. PICK i \in 1..n : t = NewEvent(c, events, i)
    BY <1>4, <1>6
  <2>2. i # 1
    BY <1>6, <2>1
  <2> HIDE DEF r
  <2> QED BY <1>1, <1>2, <1>4, <2>1, <2>2
<1> HIDE DEF r
<1> QED BY <1>4, <1>5, <1>6 DEF DecisionOnTrail, x

(* Whoever does not revoke leaves the revocations as they are.              *)
LEMMA RevokeKept ==
    ASSUME RevokeInv, NEW c \in Clients, \A d \in Clients \ {c} : task'[d] = task[d],
           task'[c].pc \notin Revoking, UNCHANGED revoked, entries \subseteq entries', trail \subseteq trail',
           \A t \in trail' \ trail : t.action # "suppression.revoked"
    PROVE  RevokeInv'
<1>1. \A e : RevokedEvents(e)' = RevokedEvents(e)
  BY DEF RevokedEvents
<1> HIDE DEF RevokedEvents
<1> QED BY <1>1 DEF RevokeInv

(* The steps of a client keep what revocation stands for.                  *)
LEMMA RevokeStep ==
    ASSUME Shaped, AuditInv, RevokeInv, ExportInv, ComplaintInv,
           NEW c \in Clients, Begin(c) \/ Step(c) \/ Trouble(c)
    PROVE  RevokeInv'
<1> USE DEF Shaped, TaskFields
<1> DEFINE Others == \A d \in Clients \ {c} : task'[d] = task[d]
<1>1. ASSUME NEW pc, Goto(c, pc) PROVE Others /\ task'[c].pc = pc /\ task'[c].on = task[c].on
  BY <1>1 DEF Goto
<1>2. ASSUME NEW complaint, task' = Answered(c, complaint) PROVE Others /\ task'[c].pc = "done"
  BY <1>2 DEF Answered
<1>3. ASSUME NEW pc, BeginAppend(c, pc) PROVE Others /\ task'[c].pc = pc /\ task'[c].on = task[c].on
  BY <1>3 DEF BeginAppend
<1>4. ASSUME Others, task'[c].pc \notin Revoking, UNCHANGED <<revoked, entries, trail>>
      PROVE  RevokeInv'
  BY <1>4, RevokeKept
<1>5. CASE AppendAudit(c) \/ ReceivedAppend(c)
  BY <1>3, <1>4, <1>5 DEF AppendAudit, ReceivedAppend, tables, Revoking
<1>6. CASE RevokeAppend(c)
  <2>1. /\ Others /\ task[c].pc = "revoking" /\ task'[c].pc = "revoked" /\ task'[c].on = task[c].on
        /\ UNCHANGED <<revoked, entries, trail>>
    BY <1>3, <1>6 DEF RevokeAppend, At, tables
  <2>2. \A d \in Clients : task'[d].on = task[d].on /\ (task'[d].pc \in Revoking <=> task[d].pc \in Revoking)
    BY <2>1 DEF Revoking
  <2>3. \A f : RevokedEvents(f)' = RevokedEvents(f)
    BY <2>1 DEF RevokedEvents
  <2>4. /\ \A o, p \in Clients :
               task'[o].pc \in Revoking /\ task'[p].pc \in Revoking /\ task'[o].on = task'[p].on => o = p
        /\ \A o \in Clients : task'[o].pc \in Revoking => task'[o].on \in entries \ revoked /\ o \in Operators
    BY <2>2 DEF RevokeInv
  <2> HIDE DEF Others
  <2> QED BY <2>1, <2>3, <2>4 DEF RevokeInv
<1>7. CASE AppendDone(c) \/ AppendAnswerLost(c)
  <2>1. Others /\ task'[c].pc \notin Revoking /\ UNCHANGED <<revoked, entries>>
    BY <1>1, <1>7 DEF AppendDone, AppendAnswerLost, Appending, tables, Revoking
  <2>2. task[c].pc \in Holding /\ task[c].pc = "appended" /\ CommitAppend(c, <<task[c].event>>)
    BY <1>7 DEF AppendDone, AppendAnswerLost, Appending, At, Holding
  <2>3. task[c].event[1] # "suppression.revoked"
    BY <2>2 DEF ExportInv, Carries
  <2>4. PICK t : trail' = trail \cup {t} /\ t.action = task[c].event[1]
    BY <2>2, OneEventAppended
  <2> QED BY <2>1, <2>3, <2>4, RevokeKept
<1>8. CASE CommitRevoke(c)
  <2> PICK e : e = task[c].on
    OBVIOUS
  <2>1. Others /\ task'[c].pc = "done" /\ task[c].pc = "revoked" /\ UNCHANGED entries
    BY <1>1, <1>8 DEF CommitRevoke, At
  <2>2. revoked' = revoked \cup {e} /\ e \in entries \ revoked
    BY <1>8, <2>1 DEF CommitRevoke, RevokeInv, Revoking
  <2>3. PICK t : trail' = trail \cup {t} /\ t.action = "suppression.revoked" /\ t.subject = e
    <3>1. task[c].pc \in Holding /\ CommitAppend(c, <<<<"suppression.revoked", e>>>>)
      BY <1>8, <2>1 DEF CommitRevoke, Holding
    <3> DEFINE event == <<"suppression.revoked", e>>
    <3>2. event[1] = "suppression.revoked" /\ event[2] = e
      OBVIOUS
    <3> HIDE DEF event
    <3>3. CommitAppend(c, <<event>>)
      BY <3>1 DEF event
    <3> QED BY <3>1, <3>2, <3>3, OneEventAppended
  <2>4. RevokedEvents(e)' = {t}
    <3>1. \A u \in trail : u.action = "suppression.revoked" => u.subject # e
      BY <2>2 DEF RevokeInv
    <3> QED BY <2>3, <3>1 DEF RevokedEvents
  <2>5. \A f : f # e => RevokedEvents(f)' = RevokedEvents(f)
    BY <2>3 DEF RevokedEvents
  <2>6. \A f \in revoked' : \E u : RevokedEvents(f)' = {u}
    <3> SUFFICES ASSUME NEW f \in revoked' PROVE \E u : RevokedEvents(f)' = {u}
      OBVIOUS
    <3>1. CASE f = e
      BY <2>4, <3>1
    <3>2. CASE f # e
      <4>1. PICK u : RevokedEvents(f) = {u}
        BY <2>2, <3>2 DEF RevokeInv
      <4> QED BY <2>5, <3>2, <4>1
    <3> QED BY <3>1, <3>2
  <2>7. \A o \in Clients : task'[o].pc \in Revoking => o # c /\ task[o].pc \in Revoking /\ task'[o] = task[o] /\ task[o].on # e
    BY <2>1 DEF RevokeInv, Revoking
  <2> QED BY <2>1, <2>2, <2>3, <2>6, <2>7 DEF RevokeInv
<1>9. CASE Resolve(c)
  <2>1. task[c].on \in Deliveries
    BY <1>9 DEF ComplaintInv, Resolve, At, Handling
  <2>2. Others /\ task'[c].pc \notin Revoking /\ UNCHANGED revoked /\ entries \subseteq entries'
    BY <1>1, <1>2, <1>9 DEF Resolve, Revoking
  <2>3. trail \subseteq trail' /\ DecisionOnTrail(c, trail, trail')
    BY <1>9, <2>1, DecisionAppended
  <2>4. \A t \in trail' \ trail : t.action # "suppression.revoked"
    BY <2>3 DEF DecisionOnTrail
  <2> QED BY <2>2, <2>3, <2>4, RevokeKept
<1>10. CASE LookUp(c) \/ LockComplaint(c)
  BY <1>1, <1>2, <1>4, <1>10 DEF LookUp, LockComplaint, tables, audit, Revoking
<1>11. CASE MarkFailed(c)
  BY <1>2, <1>4, <1>11 DEF MarkFailed, audit, Revoking
<1>12. CASE Die(c) \/ ResolutionFails(c) \/ ExportFails(c)
  BY <1>1, <1>4, <1>12 DEF Die, ResolutionFails, ExportFails, tables, Revoking
<1>13. CASE InsertEntry(c)
  <2>1. Others /\ task'[c].pc \notin Revoking /\ UNCHANGED <<revoked, trail>> /\ entries \subseteq entries'
    BY <1>13 DEF InsertEntry, audit, Revoking
  <2> QED BY <2>1, RevokeKept
<1>14. CASE c \in Operators /\ BeginRevoke(c)
  <2>1. PICK e \in entries \ revoked : Revocable(e) /\ task' = [task EXCEPT ![c].pc = "revoking", ![c].on = e]
    BY <1>14 DEF BeginRevoke, Active
  <2>2. Others /\ task'[c].pc = "revoking" /\ task'[c].on = e
    BY <2>1
  <2>3. \A p \in Clients : task[p].pc \in Revoking => task[p].on # e
    BY <2>1 DEF Revocable, Revoking, RevokeInv
  <2>4. UNCHANGED <<revoked, entries, trail>>
    BY <1>14 DEF BeginRevoke, tables, audit
  <2>5. \A f : RevokedEvents(f)' = RevokedEvents(f)
    BY <2>4 DEF RevokedEvents
  <2>6. \A o \in Clients : task'[o].pc \in Revoking =>
             (o = c /\ task'[o].on = e) \/ (o # c /\ task'[o] = task[o] /\ task[o].pc \in Revoking /\ task[o].on # e)
    BY <2>2, <2>3
  <2>7. /\ \A o, p \in Clients :
               task'[o].pc \in Revoking /\ task'[p].pc \in Revoking /\ task'[o].on = task'[p].on => o = p
        /\ \A o \in Clients : task'[o].pc \in Revoking => task'[o].on \in entries \ revoked /\ o \in Operators
    BY <1>14, <2>6 DEF RevokeInv
  <2> QED BY <2>4, <2>5, <2>7 DEF RevokeInv
<1>15. CASE Receive(c)
  BY <1>4, <1>15 DEF Receive, audit, Revoking
<1>16. CASE Start(c) \/ Query(c) \/ Write(c)
  <2>1. /\ \E pc \in {"query", "write", "complete"} : Goto(c, pc)
        /\ UNCHANGED <<revoked, entries, trail>>
    BY <1>16 DEF Start, Query, Write, tables, audit
  <2> QED BY <1>1, <1>4, <2>1 DEF Revoking
<1>17. CASE Complete(c) \/ Fail(c)
  BY <1>4, <1>17 DEF Complete, Fail, audit, Revoking
<1> QED
  BY <1>5, <1>6, <1>7, <1>8, <1>9, <1>10, <1>11, <1>12, <1>13, <1>14, <1>15, <1>16, <1>17
     DEF Begin, Step, Trouble

(* Whoever is not an exporter at work leaves the exports as they are: he    *)
(* carries no event, and what he adds to the trail is a decision.           *)
LEMMA ExportKept ==
    ASSUME ExportInv, NEW c \in Clients, \A d \in Clients \ {c} : task'[d] = task[d],
           task'[c].pc \notin {"append", "appended"},
           c \in Exporters => (exports[c].checked => task'[c].pc \in Counted) /\ ~work[c].released,
           UNCHANGED <<exports, work, file>>, entries \subseteq entries', trail \subseteq trail',
           \A t \in trail' \ trail : /\ t.action # "export.completed"
                                     /\ t.action = "suppression.added" => t.subject \in entries'
    PROVE  ExportInv'
<1>1. \A d \in Clients : \A event : Carries(d, event) => Carries(d, event)'
  BY DEF Carries
<1>2. \A x \in Exporters : CompletedOnTrail(x) => CompletedOnTrail(x)'
  BY DEF CompletedOnTrail
<1>3. \A d \in Clients : task'[d].pc \in {"append", "appended"} => Carries(d, task[d].event)'
  BY <1>1 DEF ExportInv
<1>4. \A x \in Exporters : exports'[x].checked => task'[x].pc \in Counted /\ exports'[x].count = Cardinality(file'[x])
  BY DEF ExportInv, Clients
<1>5. \A x \in Exporters : work'[x].released =>
          task'[x].pc = "done" /\ exports'[x].status = "completed" /\ CompletedOnTrail(x)'
  BY <1>2 DEF ExportInv, Clients
<1> QED BY <1>3, <1>4, <1>5 DEF ExportInv

(* The steps of a client keep what exports stand for.                      *)
LEMMA ExportStep ==
    ASSUME Shaped, AuditInv, ExportInv, ComplaintInv, RevokeInv,
           NEW c \in Clients, Begin(c) \/ Step(c) \/ Trouble(c)
    PROVE  ExportInv'
<1> USE DEF Shaped, TaskFields, WorkFields
<1> DEFINE Others == \A d \in Clients \ {c} : task'[d] = task[d]
           Idling == c \in Exporters => ~work[c].released
<1>1. ASSUME NEW pc, Goto(c, pc) PROVE Others /\ task'[c].pc = pc /\ task'[c].event = task[c].event
  BY <1>1 DEF Goto
<1>2. ASSUME NEW complaint, task' = Answered(c, complaint) PROVE Others /\ task'[c].pc = "done"
  BY <1>2 DEF Answered
<1>3. ASSUME NEW pc, BeginAppend(c, pc) PROVE Others /\ task'[c].pc = pc /\ task'[c].event = task[c].event
  BY <1>3 DEF BeginAppend
<1>4. ASSUME Others, task'[c].pc \notin {"append", "appended"}, c \notin Exporters,
             UNCHANGED <<exports, work, file, entries, trail>>
      PROVE  ExportInv'
  BY <1>4, ExportKept
<1>5. task[c].pc # "done" => Idling
  BY DEF ExportInv
<1>6. \A i \in Intakes \cup Operators : i \notin Exporters
  BY ClientAssumption
<1>7. CASE AppendAudit(c)
  <2>1. /\ Others /\ task[c].pc = "append" /\ task'[c].pc = "appended" /\ task'[c].event = task[c].event
        /\ UNCHANGED <<entries, exports, work, file, trail>>
    BY <1>3, <1>7 DEF AppendAudit, At, tables
  <2>2. \A d, event : Carries(d, event)' <=> Carries(d, event)
    BY <2>1 DEF Carries
  <2>3. \A x : CompletedOnTrail(x)' <=> CompletedOnTrail(x)
    BY <2>1 DEF CompletedOnTrail
  <2>4. \A d \in Clients : task'[d].pc \in {"append", "appended"} => Carries(d, task[d].event)'
    BY <2>1, <2>2 DEF ExportInv
  <2>5. \A x \in Exporters : exports'[x].checked => task'[x].pc \in Counted /\ exports'[x].count = Cardinality(file'[x])
    BY <2>1 DEF ExportInv, Clients, Counted
  <2>6. \A x \in Exporters : work'[x].released =>
            task'[x].pc = "done" /\ exports'[x].status = "completed" /\ CompletedOnTrail(x)'
    BY <1>5, <2>1, <2>3 DEF ExportInv, Clients
  <2> QED BY <2>1, <2>4, <2>5, <2>6 DEF ExportInv
<1>8. CASE c \in Operators /\ RevokeAppend(c)
  BY <1>3, <1>4, <1>6, <1>8 DEF RevokeAppend, tables
<1>9. CASE c \in Operators /\ CommitRevoke(c)
  <2>1. Others /\ task'[c].pc = "done" /\ UNCHANGED <<exports, work, file, entries>>
    BY <1>1, <1>9 DEF CommitRevoke, exporting
  <2> DEFINE event == <<"suppression.revoked", task[c].on>>
  <2>2. event[1] = "suppression.revoked"
    OBVIOUS
  <2>3. task[c].pc \in Holding /\ CommitAppend(c, <<event>>)
    BY <1>9 DEF CommitRevoke, Holding, At
  <2> HIDE DEF event
  <2>4. PICK t : trail' = trail \cup {t} /\ t.action = "suppression.revoked"
    BY <2>2, <2>3, OneEventAppended
  <2> QED BY <1>6, <1>9, <2>1, <2>4, ExportKept
<1>10. CASE c \in Intakes /\ (LookUp(c) \/ LockComplaint(c))
  BY <1>1, <1>2, <1>4, <1>6, <1>10 DEF LookUp, LockComplaint, tables, audit
<1>11. CASE c \in Intakes /\ ReceivedAppend(c)
  BY <1>3, <1>4, <1>6, <1>11 DEF ReceivedAppend, tables
<1>12. CASE c \in Intakes /\ MarkFailed(c)
  BY <1>2, <1>4, <1>6, <1>12 DEF MarkFailed, audit, exporting
<1>13. CASE c \in Intakes /\ Resolve(c)
  <2>1. task[c].on \in Deliveries
    BY <1>13 DEF ComplaintInv, Resolve, At, Handling
  <2>2. /\ Others /\ task'[c].pc \in {"done", "caught"} /\ UNCHANGED <<exports, work, file>>
        /\ entries' = entries \cup Decision(task[c].on).entries
    BY <1>1, <1>2, <1>13 DEF Resolve, exporting
  <2>3. trail \subseteq trail' /\ DecisionOnTrail(c, trail, trail')
    BY <1>13, <2>1, DecisionAppended
  <2>4. \A t \in trail' \ trail : /\ t.action # "export.completed"
                                  /\ t.action = "suppression.added" => t.subject \in entries'
    BY <2>2, <2>3 DEF DecisionOnTrail
  <2> QED BY <1>6, <1>13, <2>2, <2>3, <2>4, ExportKept
<1>14. CASE Die(c) \/ (c \in Intakes /\ ResolutionFails(c)) \/ (c \in Exporters /\ ExportFails(c))
  <2>1. /\ Others /\ task'[c].pc \in {"dead", "caught", "failing"} /\ task[c].pc # "done"
        /\ c \in Exporters => task'[c].pc \in {"dead", "failing"}
        /\ UNCHANGED <<entries, exports, work, file, trail>>
    BY <1>1, <1>6, <1>14 DEF Die, ResolutionFails, ExportFails, tables
  <2> QED BY <1>5, <2>1, ExportKept DEF Counted
<1>15. CASE c \in Operators /\ InsertEntry(c)
  <2>1. PICK e : /\ entries' = entries \cup {e} /\ Others /\ task'[c].pc = "append"
                 /\ task'[c].event = <<"suppression.added", e>>
    BY <1>15 DEF InsertEntry
  <2>2. UNCHANGED <<exports, work, file, trail>>
    BY <1>15 DEF InsertEntry, audit, exporting
  <2>3. \A d \in Clients : \A event : Carries(d, event) => Carries(d, event)'
    BY <2>1, <2>2 DEF Carries
  <2>4. Carries(c, task[c].event)'
    BY <1>15, <2>1 DEF Carries
  <2>5. \A x : CompletedOnTrail(x)' <=> CompletedOnTrail(x)
    BY <2>2 DEF CompletedOnTrail
  <2>6. \A d \in Clients : task'[d].pc \in {"append", "appended"} => Carries(d, task[d].event)'
    BY <2>1, <2>3, <2>4 DEF ExportInv
  <2>7. \A x \in Exporters : task'[x] = task[x]
    BY <1>6, <1>15, <2>1 DEF Clients
  <2> QED BY <2>1, <2>2, <2>5, <2>6, <2>7 DEF ExportInv
<1>16. CASE c \in Operators /\ BeginRevoke(c)
  BY <1>4, <1>6, <1>16 DEF BeginRevoke, tables, audit
<1>17. CASE c \in Intakes /\ Receive(c)
  BY <1>4, <1>6, <1>17 DEF Receive, audit, exporting
<1>18. CASE c \in Exporters /\ Start(c)
  <2>1. /\ Others /\ task'[c].pc = "query" /\ task[c].pc = "idle" /\ UNCHANGED <<entries, file, trail>>
        /\ exports' = [exports EXCEPT ![c].status = "building"]
        /\ \E format \in Formats : work' = [work EXCEPT ![c] = [NewWork EXCEPT !.format = format, !.asOf = Active]]
    BY <1>1, <1>18 DEF Start, audit, At
  <2>2. /\ ~exports[c].checked /\ ~exports'[c].checked /\ ~work'[c].released
        /\ \A x \in Exporters \ {c} : exports'[x] = exports[x] /\ work'[x] = work[x]
        /\ \A x \in Exporters : exports'[x].checked <=> exports[x].checked
    BY <1>18, <2>1 DEF ExportInv, NewWork, Counted
  <2>3. \A d \in Clients \ {c} : \A event : Carries(d, event) => Carries(d, event)'
    BY <2>1, <2>2 DEF Carries
  <2>4. \A x : CompletedOnTrail(x)' <=> CompletedOnTrail(x)
    BY <2>1 DEF CompletedOnTrail
  <2>5. \A d \in Clients : task'[d].pc \in {"append", "appended"} => Carries(d, task[d].event)'
    BY <2>1, <2>3 DEF ExportInv
  <2>6. \A x \in Exporters : exports'[x].checked => task'[x].pc \in Counted /\ exports'[x].count = Cardinality(file'[x])
    BY <2>1, <2>2 DEF ExportInv, Clients
  <2>7. \A x \in Exporters : work'[x].released =>
            task'[x].pc = "done" /\ exports'[x].status = "completed" /\ CompletedOnTrail(x)'
    BY <2>1, <2>2, <2>4 DEF ExportInv, Clients
  <2> QED BY <2>1, <2>2, <2>5, <2>6, <2>7 DEF ExportInv
<1>19. CASE c \in Exporters /\ Query(c)
  <2>1. /\ Others /\ task'[c].pc = "write" /\ task[c].pc = "query"
        /\ UNCHANGED <<entries, exports, file, trail>>
        /\ \A x \in Exporters : work'[x].released <=> work[x].released
    BY <1>1, <1>19 DEF Query, tables, audit, At
  <2>2. \A d, event : Carries(d, event)' <=> Carries(d, event)
    BY <2>1 DEF Carries
  <2>3. \A x : CompletedOnTrail(x)' <=> CompletedOnTrail(x)
    BY <2>1 DEF CompletedOnTrail
  <2>4. \A d \in Clients : task'[d].pc \in {"append", "appended"} => Carries(d, task[d].event)'
    BY <2>1, <2>2 DEF ExportInv
  <2>5. \A x \in Exporters : exports'[x].checked => task'[x].pc \in Counted /\ exports'[x].count = Cardinality(file'[x])
    BY <2>1 DEF ExportInv, Clients, Counted
  <2>6. \A x \in Exporters : work'[x].released =>
            task'[x].pc = "done" /\ exports'[x].status = "completed" /\ CompletedOnTrail(x)'
    BY <1>5, <2>1, <2>3 DEF ExportInv, Clients
  <2> QED BY <2>1, <2>4, <2>5, <2>6 DEF ExportInv
<1>20. CASE c \in Exporters /\ Write(c)
  <2>1. /\ Others /\ task'[c].pc \in {"query", "complete"} /\ task[c].pc = "write"
        /\ UNCHANGED <<entries, exports, trail>>
        /\ \A x \in Exporters : work'[x].released <=> work[x].released
        /\ \A x \in Exporters \ {c} : file'[x] = file[x]
    BY <1>1, <1>20 DEF Write, tables, audit, At
  <2>2. \A d, event : Carries(d, event)' <=> Carries(d, event)
    BY <2>1 DEF Carries
  <2>3. \A x : CompletedOnTrail(x)' <=> CompletedOnTrail(x)
    BY <2>1 DEF CompletedOnTrail
  <2>4. \A d \in Clients : task'[d].pc \in {"append", "appended"} => Carries(d, task[d].event)'
    BY <2>1, <2>2 DEF ExportInv
  <2>5. \A x \in Exporters : exports'[x].checked => task'[x].pc \in Counted /\ exports'[x].count = Cardinality(file'[x])
    BY <2>1 DEF ExportInv, Clients, Counted
  <2>6. \A x \in Exporters : work'[x].released =>
            task'[x].pc = "done" /\ exports'[x].status = "completed" /\ CompletedOnTrail(x)'
    BY <1>5, <2>1, <2>3 DEF ExportInv, Clients
  <2> QED BY <2>1, <2>4, <2>5, <2>6 DEF ExportInv
<1>21. CASE c \in Exporters /\ Complete(c)
  <2>1. /\ Others /\ task'[c].pc = "append" /\ task[c].pc = "complete"
        /\ task'[c].event = <<"export.completed", c>>
        /\ UNCHANGED <<entries, work, file, trail>>
        /\ exports'[c].checked /\ exports'[c].status = "completed" /\ exports'[c].count = Cardinality(file[c])
        /\ \A x \in Exporters \ {c} : exports'[x] = exports[x]
    BY <1>21 DEF Complete, audit, At
  <2>2. \A d \in Clients \ {c} : \A event : Carries(d, event) => Carries(d, event)'
    BY <2>1 DEF Carries
  <2>3. Carries(c, task[c].event)'
    BY <1>21, <2>1 DEF Carries
  <2>4. \A x : CompletedOnTrail(x)' <=> CompletedOnTrail(x)
    BY <2>1 DEF CompletedOnTrail
  <2>5. \A d \in Clients : task'[d].pc \in {"append", "appended"} => Carries(d, task[d].event)'
    BY <2>1, <2>2, <2>3 DEF ExportInv
  <2>6. \A x \in Exporters : exports'[x].checked => task'[x].pc \in Counted /\ exports'[x].count = Cardinality(file'[x])
    BY <2>1 DEF ExportInv, Clients, Counted
  <2>7. \A x \in Exporters : work'[x].released =>
            task'[x].pc = "done" /\ exports'[x].status = "completed" /\ CompletedOnTrail(x)'
    BY <1>5, <2>1, <2>4 DEF ExportInv, Clients
  <2>8. \A t \in trail' : t.action = "export.completed" => t.subject \in Exporters /\ exports'[t.subject].checked
    BY <2>1 DEF ExportInv
  <2> QED BY <2>1, <2>5, <2>6, <2>7, <2>8 DEF ExportInv
<1>22. CASE c \in Exporters /\ Fail(c)
  <2>1. /\ Others /\ task'[c].pc \in {"append", "done"} /\ task[c].pc = "failing"
        /\ task'[c].pc = "append" => task'[c].event = <<"export.failed", c>>
        /\ UNCHANGED <<entries, work, file, trail>>
        /\ \A x \in Exporters : (exports'[x].checked <=> exports[x].checked) /\ exports'[x].count = exports[x].count
        /\ \A x \in Exporters \ {c} : exports'[x] = exports[x]
    BY <1>22 DEF Fail, audit, At
  <2>2. \A d \in Clients \ {c} : \A event : Carries(d, event) => Carries(d, event)'
    BY <2>1 DEF Carries
  <2>3. task'[c].pc = "append" => Carries(c, task[c].event)'
    BY <1>22, <2>1 DEF Carries
  <2>4. \A x : CompletedOnTrail(x)' <=> CompletedOnTrail(x)
    BY <2>1 DEF CompletedOnTrail
  <2>5. \A d \in Clients : task'[d].pc \in {"append", "appended"} => Carries(d, task[d].event)'
    BY <2>1, <2>2, <2>3 DEF ExportInv
  <2>6. \A x \in Exporters : exports'[x].checked => task'[x].pc \in Counted /\ exports'[x].count = Cardinality(file'[x])
    BY <2>1 DEF ExportInv, Clients, Counted
  <2>7. \A x \in Exporters : work'[x].released =>
            task'[x].pc = "done" /\ exports'[x].status = "completed" /\ CompletedOnTrail(x)'
    BY <1>5, <2>1, <2>4 DEF ExportInv, Clients
  <2> QED BY <2>1, <2>5, <2>6, <2>7 DEF ExportInv
<1>23. CASE AppendDone(c) \/ AppendAnswerLost(c)
  <2>1. /\ Others /\ task'[c].pc \in {"done", "failing"} /\ task[c].pc = "appended"
        /\ CommitAppend(c, <<task[c].event>>) /\ UNCHANGED <<entries, exports, file>>
        /\ \A x \in Exporters \ {c} : work'[x] = work[x]
        /\ c \in Exporters /\ work'[c].released => task'[c].pc = "done" /\ task[c].event = <<"export.completed", c>>
    <3>1. CASE AppendDone(c)
      BY <1>1, <1>5, <3>1 DEF AppendDone, Appending, tables, At
    <3>2. CASE AppendAnswerLost(c)
      BY <1>1, <1>5, <3>2 DEF AppendAnswerLost, Appending, tables, At
    <3> QED BY <1>23, <3>1, <3>2
  <2>2. PICK t : trail' = trail \cup {t} /\ t.action = task[c].event[1] /\ t.subject = task[c].event[2]
    BY <2>1, OneEventAppended DEF Holding
  <2>3. Carries(c, task[c].event)
    BY <2>1 DEF ExportInv
  <2>4. \A d, event : Carries(d, event)' <=> Carries(d, event)
    BY <2>1 DEF Carries
  <2>5. \A x \in Exporters : CompletedOnTrail(x) => CompletedOnTrail(x)'
    BY <2>2 DEF CompletedOnTrail
  <2>6. \A d \in Clients : task'[d].pc \in {"append", "appended"} => Carries(d, task[d].event)'
    BY <2>1, <2>4 DEF ExportInv
  <2>7. \A x \in Exporters : exports'[x].checked => task'[x].pc \in Counted /\ exports'[x].count = Cardinality(file'[x])
    BY <2>1 DEF ExportInv, Clients, Counted
  <2>8. /\ t.action = "suppression.added" => t.subject \in entries
        /\ t.action = "export.completed" =>
              t.subject = c /\ c \in Exporters /\ exports[c].checked /\ exports[c].status = "completed"
    BY <2>2, <2>3 DEF Carries
  <2>9. ASSUME c \in Exporters, work'[c].released
        PROVE  task'[c].pc = "done" /\ exports'[c].status = "completed" /\ CompletedOnTrail(c)'
    <3>1. t.action = "export.completed" /\ t.subject = c
      BY <2>1, <2>2, <2>9
    <3> QED BY <2>1, <2>2, <2>8, <2>9, <3>1 DEF CompletedOnTrail
  <2>10. \A x \in Exporters : work'[x].released =>
            task'[x].pc = "done" /\ exports'[x].status = "completed" /\ CompletedOnTrail(x)'
    BY <2>1, <2>5, <2>9 DEF ExportInv, Clients
  <2>11. \A u \in trail' : /\ u.action = "suppression.added" => u.subject \in entries
                           /\ u.action = "export.completed" => u.subject \in Exporters /\ exports[u.subject].checked
    BY <2>2, <2>8 DEF ExportInv
  <2> HIDE DEF Others
  <2> QED BY <2>1, <2>6, <2>7, <2>10, <2>11 DEF ExportInv
<1> QED
  BY <1>7, <1>8, <1>9, <1>10, <1>11, <1>12, <1>13, <1>14, <1>15, <1>16, <1>17, <1>18, <1>19, <1>20,
     <1>21, <1>22, <1>23 DEF Begin, Step, Trouble

(* Whoever does not resolve a complaint leaves it resolved or unresolved.   *)
StaysUnresolved(k) ==
    ~Decided(k) /\ complaints'[k] # Absent /\ Unresolved(complaints'[k]) /\ complaints'[k].resolution # "suppressed"

(* A client's step keeps the complaints in order, when it moves only its   *)
(* own task, decides only what it locked and takes no decision back.       *)
LEMMA ComplaintKept ==
    ASSUME ComplaintInv, NEW c \in Clients, \A d \in Clients \ {c} : task'[d] = task[d],
           task'[c].pc \in Handling =>
              c \in Intakes /\ task'[c].on \in Deliveries /\ complaints'[task'[c].on.key] # Absent,
           task'[c].pc \in Deciding => rowLock'[task'[c].on.key] = c /\ Unresolved(complaints'[task'[c].on.key]),
           \A k \in Keys : complaints'[k] = complaints[k] \/ StaysUnresolved(k),
           \A i \in Clients \ {c}, k \in Keys : rowLock[k] = i => rowLock'[k] = i,
           \A k \in Keys : Own(k)' = Own(k) /\ Received(k)' = Received(k)
    PROVE  ComplaintInv'
<1>1. ASSUME NEW k \in Keys PROVE Told(k)'
  <2>1. Persons(k)' = Persons(k)
    BY DEF Persons
  <2>2. Told(k)
    BY DEF ComplaintInv
  <2>3. CASE complaints'[k] = complaints[k]
    <3>1. Decided(k)' <=> Decided(k)
      BY <2>3 DEF Decided
    <3>2. Own(k)' = Own(k) /\ Received(k)' = Received(k)
      OBVIOUS
    <3> QED BY <2>1, <2>2, <2>3, <3>1, <3>2 DEF Told
  <2>4. CASE StaysUnresolved(k)
    <3>1. ~Decided(k)' /\ ~Decided(k) /\ complaints'[k].resolution # "suppressed"
      BY <2>4 DEF Decided, StaysUnresolved
    <3>2. Received(k)' = {} /\ Own(k)' = {}
      BY <2>2, <3>1 DEF Told
    <3>3. Persons(k)' = {}
      BY <3>2 DEF Persons
    <3> QED BY <3>1, <3>2, <3>3 DEF Told
  <2> QED BY <2>3, <2>4
<1>2. ASSUME NEW i \in Clients, task'[i].pc \in Handling
      PROVE  i \in Intakes /\ task'[i].on \in Deliveries /\ complaints'[task'[i].on.key] # Absent
  <2>1. CASE i = c
    BY <1>2, <2>1
  <2>2. CASE i # c
    <3>1. i \in Intakes /\ task'[i].on \in Deliveries /\ complaints[task'[i].on.key] # Absent
      BY <1>2, <2>2 DEF ComplaintInv, KeyOf
    <3>2. task'[i].on.key \in Keys
      BY <3>1 DEF Keys
    <3> QED BY <3>1, <3>2 DEF StaysUnresolved
  <2> QED BY <2>1, <2>2
<1>3. ASSUME NEW i \in Clients, task'[i].pc \in Deciding
      PROVE  rowLock'[task'[i].on.key] = i /\ Unresolved(complaints'[task'[i].on.key])
  <2>1. CASE i = c
    BY <1>3, <2>1
  <2>2. CASE i # c
    <3>1. rowLock[task'[i].on.key] = i /\ Unresolved(complaints[task'[i].on.key])
      BY <1>3, <2>2 DEF ComplaintInv, KeyOf
    <3>2. task'[i].on.key \in Keys
      BY <1>2, <1>3 DEF Keys, Handling, Deciding
    <3> QED BY <2>2, <3>1, <3>2 DEF StaysUnresolved
  <2> QED BY <2>1, <2>2
<1> QED BY <1>1, <1>2, <1>3 DEF ComplaintInv, KeyOf

(* The steps of a client keep what complaints stand for.                   *)
LEMMA ComplaintStep ==
    ASSUME Shaped, AuditInv, ExportInv, ComplaintInv,
           NEW c \in Clients, Begin(c) \/ Step(c) \/ Trouble(c)
    PROVE  ComplaintInv'
<1> USE DEF Shaped, TaskFields
<1> DEFINE Others == \A d \in Clients \ {c} : task'[d] = task[d]
           Locks == \A i \in Clients \ {c}, k \in Keys : rowLock[k] = i => rowLock'[k] = i
<1>1. ASSUME NEW pc, Goto(c, pc) PROVE Others /\ task'[c].pc = pc /\ task'[c].on = task[c].on
  BY <1>1 DEF Goto
<1>2. ASSUME NEW complaint, task' = Answered(c, complaint) PROVE Others /\ task'[c].pc = "done"
  BY <1>2 DEF Answered
<1>3. ASSUME NEW pc, BeginAppend(c, pc) PROVE Others /\ task'[c].pc = pc /\ task'[c].on = task[c].on
  BY <1>3 DEF BeginAppend
<1>4. ASSUME UNCHANGED <<entries, trail>> PROVE \A k \in Keys : Own(k)' = Own(k) /\ Received(k)' = Received(k)
  BY <1>4 DEF Own, Received
<1>5. ASSUME Others, task'[c].pc \notin Handling, UNCHANGED <<complaints, entries, trail>>, Locks
      PROVE  ComplaintInv'
  BY <1>4, <1>5, ComplaintKept DEF Handling, Deciding
<1>6. CASE AppendAudit(c) \/ RevokeAppend(c)
  BY <1>3, <1>5, <1>6 DEF AppendAudit, RevokeAppend, tables, Handling
<1>7. ASSUME NEW t, trail' = trail \cup {t}, t.action # "complaint.received",
             Others, task'[c].pc \notin Handling, UNCHANGED <<complaints, entries, rowLock>>
      PROVE  ComplaintInv'
  <2>1. \A k \in Keys : Own(k)' = Own(k) /\ Received(k)' = Received(k)
    BY <1>7 DEF Own, Received
  <2> QED BY <1>7, <2>1, ComplaintKept DEF Handling, Deciding
<1>8. CASE AppendDone(c) \/ AppendAnswerLost(c)
  <2>1. /\ Others /\ task'[c].pc \notin Handling /\ UNCHANGED <<complaints, entries, rowLock>>
        /\ task[c].pc = "appended" /\ CommitAppend(c, <<task[c].event>>)
    BY <1>1, <1>8 DEF AppendDone, AppendAnswerLost, Appending, tables, Handling, At
  <2>2. task[c].event[1] # "complaint.received"
    BY <2>1 DEF ExportInv, Carries
  <2>3. PICK t : trail' = trail \cup {t} /\ t.action = task[c].event[1]
    BY <2>1, OneEventAppended DEF Holding
  <2> QED BY <1>7, <2>1, <2>2, <2>3
<1>9. CASE CommitRevoke(c)
  <2> DEFINE event == <<"suppression.revoked", task[c].on>>
  <2>1. event[1] = "suppression.revoked"
    OBVIOUS
  <2>2. /\ Others /\ task'[c].pc \notin Handling /\ UNCHANGED <<complaints, entries, rowLock>>
        /\ task[c].pc \in Holding /\ CommitAppend(c, <<event>>)
    BY <1>1, <1>9 DEF CommitRevoke, Handling, At, Holding
  <2> HIDE DEF event
  <2>3. PICK t : trail' = trail \cup {t} /\ t.action = "suppression.revoked"
    BY <2>1, <2>2, OneEventAppended
  <2> QED BY <1>7, <2>2, <2>3
<1>10. CASE LookUp(c)
  <2>1. /\ Others /\ task[c].pc = "lookup" /\ UNCHANGED <<complaints, entries, trail, rowLock>>
        /\ task'[c].pc = "done" \/ (task'[c].pc = "resolve" /\ task'[c].on = task[c].on)
    BY <1>2, <1>10 DEF LookUp, tables, audit, At
  <2>2. task[c].pc \in Handling
    BY <2>1 DEF Handling
  <2> QED BY <1>4, <2>1, <2>2, ComplaintKept DEF ComplaintInv, KeyOf, Handling, Deciding
<1>11. CASE LockComplaint(c)
  <2>1. /\ Others /\ task[c].pc = "resolve" /\ UNCHANGED <<complaints, entries, trail>>
        /\ \/ task'[c].pc = "done" /\ UNCHANGED rowLock
           \/ /\ task'[c].pc = "received" /\ task'[c].on = task[c].on /\ Unresolved(complaints[KeyOf(c)])
              /\ rowLock[KeyOf(c)] = None /\ rowLock' = [rowLock EXCEPT ![KeyOf(c)] = c]
    BY <1>1, <1>2, <1>11 DEF LockComplaint, tables, audit, At, Recheck
  <2>2. task[c].on \in Deliveries /\ KeyOf(c) \in Keys /\ c \in Intakes /\ complaints[KeyOf(c)] # Absent
    BY <2>1 DEF ComplaintInv, Handling, KeyOf, Keys
  <2>3. CASE task'[c].pc = "done"
    BY <1>5, <2>1, <2>3 DEF Handling
  <2>4. CASE task'[c].pc = "received"
    <3>1. Locks /\ rowLock'[KeyOf(c)] = c
      BY <2>1, <2>2, <2>4, ClientAssumption
    <3> QED BY <1>4, <2>1, <2>2, <2>4, <3>1, ComplaintKept DEF KeyOf
  <2> QED BY <2>1, <2>3, <2>4
<1>12. CASE ReceivedAppend(c)
  <2>1. /\ Others /\ task[c].pc = "received" /\ task'[c].on = task[c].on
        /\ UNCHANGED <<complaints, entries, trail, rowLock>>
    BY <1>3, <1>12 DEF ReceivedAppend, tables, At
  <2>2. /\ c \in Intakes /\ task'[c].on \in Deliveries /\ complaints'[task'[c].on.key] # Absent
        /\ rowLock'[task'[c].on.key] = c /\ Unresolved(complaints'[task'[c].on.key])
    BY <2>1 DEF ComplaintInv, Handling, Deciding, KeyOf
  <2> QED BY <1>4, <2>1, <2>2, ComplaintKept
<1>13. CASE MarkFailed(c)
  <2> DEFINE failed == Complaint("needs_review", "suppression_failed", None)
  <2>1. /\ Others /\ task'[c].pc = "done" /\ task[c].pc = "caught" /\ UNCHANGED <<entries, trail, rowLock>>
        /\ \/ UNCHANGED complaints
           \/ /\ StillPending(complaints[KeyOf(c)])
              /\ complaints' = [complaints EXCEPT ![KeyOf(c)] = failed]
    BY <1>2, <1>13 DEF MarkFailed, audit, At
  <2>2. KeyOf(c) \in Keys
    BY <2>1 DEF ComplaintInv, Handling, KeyOf, Keys
  <2>3. failed # Absent /\ Unresolved(failed) /\ failed.resolution # "suppressed"
    BY DEF Complaint, Absent, Unresolved
  <2>4. \A k \in Keys : complaints'[k] = complaints[k] \/ StaysUnresolved(k)
    <3> HIDE DEF failed
    <3> QED BY <2>1, <2>2, <2>3 DEF StaysUnresolved, StillPending, Decided, Unresolved
  <2> QED BY <1>4, <2>1, <2>4, ComplaintKept DEF Handling, Deciding
<1>14. CASE Die(c) \/ ResolutionFails(c) \/ ExportFails(c)
  <2>1. /\ Others /\ task'[c].pc \notin Deciding /\ task'[c].on = task[c].on /\ UNCHANGED <<complaints, entries, trail>>
        /\ task'[c].pc \in Handling => task[c].pc \in Handling
    BY <1>1, <1>14 DEF Die, ResolutionFails, ExportFails, tables, Handling, Deciding
  <2>2. Locks
    BY <1>14 DEF Die, ResolutionFails, ExportFails, Unlock
  <2>3. task'[c].pc \in Handling =>
           c \in Intakes /\ task'[c].on \in Deliveries /\ complaints'[task'[c].on.key] # Absent
    BY <2>1 DEF ComplaintInv, KeyOf
  <2> QED BY <1>4, <2>1, <2>2, <2>3, ComplaintKept
<1>15. CASE InsertEntry(c)
  <2>1. PICK e \in Catalogue : entries' = entries \cup {e}
    BY <1>15 DEF InsertEntry
  <2>2. /\ Others /\ task'[c].pc \notin Handling /\ UNCHANGED <<complaints, rowLock, trail>>
    BY <1>15 DEF InsertEntry, audit, Handling
  <2>3. \A k \in Keys : Own(k)' = Own(k) /\ Received(k)' = Received(k)
    BY <2>1, <2>2, CatalogueAssumption DEF Own, Received
  <2> QED BY <2>2, <2>3, ComplaintKept DEF Handling, Deciding
<1>16. CASE BeginRevoke(c)
  BY <1>5, <1>16 DEF BeginRevoke, tables, audit, Handling
<1>17. CASE c \in Intakes /\ Receive(c)
  <2> DEFINE pending == Complaint("pending", None, None)
  <2>1. PICK d \in Deliveries :
           /\ complaints' = IF complaints[d.key] = Absent
                            THEN [complaints EXCEPT ![d.key] = pending] ELSE complaints
           /\ task' = [task EXCEPT ![c].pc = IF complaints[d.key] = Absent THEN "resolve" ELSE "lookup", ![c].on = d]
    BY <1>17 DEF Receive
  <2>2. pending # Absent /\ Unresolved(pending) /\ pending.resolution # "suppressed"
    BY DEF Complaint, Absent, Unresolved
  <2> HIDE DEF pending
  <2>3. d.key \in Keys
    BY DEF Keys
  <2>4. task'[c].on = d /\ Others /\ task'[c].pc \in {"resolve", "lookup"} /\ UNCHANGED <<entries, rowLock, trail>>
    BY <1>17, <2>1 DEF Receive, audit
  <2>5. CASE complaints[d.key] = Absent
    <3>1. complaints' = [complaints EXCEPT ![d.key] = pending]
      BY <2>1, <2>5
    <3>2. complaints'[d.key] = pending /\ StaysUnresolved(d.key)
      BY <2>2, <2>3, <2>5, <3>1 DEF StaysUnresolved, Decided
    <3>3. \A k \in Keys : complaints'[k] = complaints[k] \/ StaysUnresolved(k)
      BY <3>1, <3>2
    <3> QED BY <1>4, <1>17, <2>2, <2>4, <3>2, <3>3, ComplaintKept DEF Deciding
  <2>6. CASE complaints[d.key] # Absent
    BY <1>4, <1>17, <2>1, <2>4, <2>6, ComplaintKept DEF Deciding
  <2> QED BY <2>5, <2>6
<1>18. CASE Start(c) \/ Query(c) \/ Write(c)
  <2>1. /\ \E pc \in {"query", "write", "complete"} : Goto(c, pc)
        /\ UNCHANGED <<complaints, entries, trail, rowLock>>
    BY <1>18 DEF Start, Query, Write, tables, audit
  <2> QED BY <1>1, <1>5, <2>1 DEF Handling
<1>19. CASE Complete(c) \/ Fail(c)
  BY <1>5, <1>19 DEF Complete, Fail, audit, Handling
<1>20. CASE Resolve(c)
  <2> PICK d : d = task[c].on
    OBVIOUS
  <2> PICK key : key = KeyOf(c)
    OBVIOUS
  <2> DEFINE x == Decision(d)
  <2>1. /\ task[c].pc = "decide" /\ entries' = entries \cup x.entries
        /\ complaints' = [complaints EXCEPT ![key] = x.row]
        /\ rowLock' = [rowLock EXCEPT ![key] = None]
        /\ Others /\ task'[c].pc \in {"done", "caught"}
        /\ task'[c].pc = "caught" => task'[c].on = d
    BY <1>1, <1>2, <1>20 DEF Resolve, At
  <2>2. /\ c \in Intakes /\ d \in Deliveries /\ key = d.key /\ key \in Keys
        /\ rowLock[key] = c /\ Unresolved(complaints[key]) /\ Told(key)
    BY <2>1 DEF ComplaintInv, Handling, Deciding, KeyOf, Keys
  <2>3. trail \subseteq trail' /\ DecisionOnTrail(c, trail, trail')
    BY <1>20, <2>2, DecisionAppended
  <2>4. PICK r \in trail' : /\ r.action = "complaint.received" /\ r.subject = key
                            /\ \A t \in trail' \ (trail \cup {r}) : t.action # "complaint.received"
    BY <2>3 DEF DecisionOnTrail
  <2>5. /\ \A e \in x.entries : e.by = key
        /\ ~Unresolved(x.row) /\ x.row # Absent
        /\ x.entries # {} => x.row.entry \in x.entries
        /\ IF x.row.resolution = "suppressed"
           THEN \E e : {f \in x.entries : f.scope = "person"} = {e}
           ELSE {f \in x.entries : f.scope = "person"} = {}
    BY <2>2, DecisionFacts
  <2> HIDE DEF x
  <2>6. Received(key) = {} /\ Own(key) = {}
    BY <2>2 DEF Told, Decided
  <2>7. Received(key)' = {r} /\ Own(key)' = x.entries
    BY <2>1, <2>3, <2>4, <2>5, <2>6 DEF Received, Own
  <2>8. Persons(key)' = {f \in x.entries : f.scope = "person"}
    BY <2>7 DEF Persons
  <2>9. complaints'[key] = x.row /\ Decided(key)'
    BY <2>1, <2>2, <2>5 DEF Decided
  <2>10. Told(key)'
    BY <2>5, <2>7, <2>8, <2>9 DEF Told
  <2>11. ASSUME NEW k \in Keys, k # key
         PROVE  Told(k)' /\ complaints'[k] = complaints[k] /\ rowLock'[k] = rowLock[k]
    <3>1. complaints'[k] = complaints[k] /\ rowLock'[k] = rowLock[k]
      BY <2>1, <2>11
    <3>2. Received(k)' = Received(k) /\ Own(k)' = Own(k)
      BY <2>1, <2>3, <2>4, <2>5, <2>11 DEF Received, Own
    <3>3. Persons(k)' = Persons(k) /\ (Decided(k)' <=> Decided(k)) /\ Told(k)
      BY <3>1, <3>2 DEF Persons, Decided, ComplaintInv
    <3> QED BY <3>1, <3>2, <3>3 DEF Told
  <2>12. ASSUME NEW i \in Clients, task'[i].pc \in Handling
         PROVE  i \in Intakes /\ task'[i].on \in Deliveries /\ complaints'[task'[i].on.key] # Absent
    <3>1. CASE i = c
      BY <2>1, <2>2, <2>5, <2>9, <2>12, <3>1 DEF Handling
    <3>2. CASE i # c
      <4>1. i \in Intakes /\ task'[i].on \in Deliveries /\ complaints[task'[i].on.key] # Absent
        BY <2>1, <2>12, <3>2 DEF ComplaintInv, KeyOf
      <4>2. task'[i].on.key \in Keys
        BY <4>1 DEF Keys
      <4> QED BY <2>5, <2>9, <2>11, <4>1, <4>2
    <3> QED BY <3>1, <3>2
  <2>13. ASSUME NEW i \in Clients, task'[i].pc \in Deciding
         PROVE  rowLock'[task'[i].on.key] = i /\ Unresolved(complaints'[task'[i].on.key])
    <3>1. i # c
      BY <2>1, <2>13 DEF Deciding
    <3>2. rowLock[task'[i].on.key] = i /\ Unresolved(complaints[task'[i].on.key])
      BY <2>1, <2>13, <3>1 DEF ComplaintInv, KeyOf
    <3>3. task'[i].on.key \in Keys
      BY <2>12, <2>13 DEF Keys, Handling, Deciding
    <3> QED BY <2>2, <2>11, <3>1, <3>2, <3>3
  <2> QED BY <2>10, <2>11, <2>12, <2>13 DEF ComplaintInv, KeyOf
<1> QED
  BY <1>6, <1>8, <1>9, <1>10, <1>11, <1>12, <1>13, <1>14, <1>15, <1>16, <1>17, <1>18, <1>19, <1>20
     DEF Begin, Step, Trouble

----------------------------------------------------------------------------
(* What reaches a file.                                                     *)

(* What the query or the re-check is bound to see.                          *)
Asked(e, queried, row) == e \in queried \/ Recheckable(e, row)

(* The query leaves a row what it is, its channels filtered and its         *)
(* ancestry added.                                                          *)
LEMMA SelectedFields ==
    ASSUME NEW active, NEW row \in Rows
    PROVE  LET s == Selected(active, row) IN
           /\ DOMAIN s = RowFields
           /\ s.assignment = row.assignment /\ s.person = row.person /\ s.organization = row.organization
           /\ s.jurisdiction = row.jurisdiction /\ s.level = row.level /\ s.area = row.area
           /\ s.source = row.source
           /\ s.ancestors = Upwards(Contains, MaxDepth, row.organization) \ {row.organization}
           /\ \A m \in s.emails : m \in row.emails /\ ~SqlSource(active, m.source)
           /\ \A f \in s.phones : ~SqlSource(active, f.source)
BY RowAssumption DEF Selected, RowFields

(* The re-check keeps the addresses and phones the index does not hold.     *)
LEMMA RecheckedFields ==
    ASSUME NEW active, NEW s, DOMAIN s = RowFields
    PROVE  LET r == Rechecked(active, s, Purpose)
               subject == Subject(s, Purpose)
           IN /\ r.assignment = s.assignment /\ r.person = s.person /\ r.organization = s.organization
              /\ r.jurisdiction = s.jurisdiction /\ r.level = s.level /\ r.area = s.area
              /\ r.source = s.source
              /\ \A m \in r.emails : /\ m \in s.emails
                                     /\ ~IsSuppressed(active, [subject EXCEPT !.email = m.address, !.source = m.source])
              /\ \A f \in r.phones : f \in s.phones
              /\ \A a \in {r.published, r.candidate} \ {None} : ~IsSuppressed(active, [subject EXCEPT !.email = a])
BY DEF Rechecked, RowFields

(* An address the index lets through is named by no entry.                  *)
LEMMA AddressPasses ==
    ASSUME NEW active, NEW e \in active, NEW s, NEW address, NEW source, address # None,
           ~IsSuppressed(active, [Subject(s, Purpose) EXCEPT !.email = address, !.source = source])
    PROVE  /\ ~(e.scope = "email" /\ e.key = address)
           /\ ~(e.scope = "domain" /\ (e.key = DomainOf[address] \/ <<DomainOf[address], e.key>> \in Subdomain))
BY DEF IsSuppressed, IndexHit, Subject

(* Neither the query nor the re-check lets through what an entry names: the *)
(* record is asked about in both, the areas around a place and the          *)
(* documents of the channels in the query, each address in the re-check.    *)
LEMMA RenderedKeepsOut ==
    ASSUME NEW queried, NEW active, NEW row \in Rows, NEW phoneOnly,
           ~SqlRecord(queried, row, Purpose),
           ~IsSuppressed(active, Subject(Selected(queried, row), Purpose)),
           NEW e \in active,
           Asked(e, queried, Rechecked(active, Selected(queried, row), Purpose))
    PROVE  ~Concerns(e, Rechecked(active, Selected(queried, row), Purpose))
<1> DEFINE s == Selected(queried, row)
           r == Rechecked(active, s, Purpose)
           subject == Subject(s, Purpose)
<1>1. /\ DOMAIN s = RowFields
      /\ s.assignment = row.assignment /\ s.person = row.person /\ s.organization = row.organization
      /\ s.jurisdiction = row.jurisdiction /\ s.level = row.level /\ s.area = row.area
      /\ s.source = row.source
      /\ s.ancestors = Upwards(Contains, MaxDepth, row.organization) \ {row.organization}
      /\ \A m \in s.emails : m \in row.emails /\ ~SqlSource(queried, m.source)
      /\ \A f \in s.phones : ~SqlSource(queried, f.source)
  BY SelectedFields
<1> HIDE DEF s
<1>2. /\ r.assignment = s.assignment /\ r.person = s.person /\ r.organization = s.organization
      /\ r.jurisdiction = s.jurisdiction /\ r.level = s.level /\ r.area = s.area
      /\ r.source = s.source
      /\ \A m \in r.emails : /\ m \in s.emails
                             /\ ~IsSuppressed(active, [subject EXCEPT !.email = m.address, !.source = m.source])
      /\ \A f \in r.phones : f \in s.phones
      /\ \A a \in {r.published, r.candidate} \ {None} : ~IsSuppressed(active, [subject EXCEPT !.email = a])
  BY <1>1, RecheckedFields
<1> HIDE DEF r
<1>3. ~IndexHit(e, subject)
  BY DEF IsSuppressed, s
<1>4. /\ subject.person = row.person /\ subject.organization = row.organization
      /\ subject.jurisdiction = row.jurisdiction /\ subject.level = row.level
      /\ subject.source = row.source /\ subject.purpose = Purpose
      /\ subject.ancestors = Upwards(Contains, MaxDepth, row.organization) \ {row.organization}
  BY <1>1 DEF Subject
<1>5. /\ e.scope # "global"
      /\ ~(e.scope = "person" /\ e.key = r.person)
      /\ ~(e.scope = "organization" /\ e.key = r.organization)
      /\ ~(e.scope = "jurisdiction" /\ e.key = r.jurisdiction)
      /\ ~(e.scope = "government_level" /\ e.key = r.level)
      /\ ~(e.scope = "export_purpose" /\ e.key = Purpose)
  BY <1>1, <1>2, <1>3, <1>4 DEF IndexHit
<1>6. ~(e.scope = "organization_subtree" /\ e.key \in SelfAndAbove(Contains, r.organization))
  <2>1. e.scope = "organization_subtree" => e.key \notin {row.organization} \cup Upwards(Contains, MaxDepth, row.organization)
    BY <1>3, <1>4 DEF IndexHit
  <2>2. CASE e \in queried
    BY <1>1, <1>2, <2>2 DEF SqlRecord, SuppressedSubtree
  <2>3. CASE Recheckable(e, r)
    BY <1>1, <1>2, <2>1, <2>3 DEF Recheckable
  <2>4. e \in queried \/ Recheckable(e, r)
    BY DEF Asked, r, s
  <2> QED BY <2>2, <2>3, <2>4
<1>7. ~(e.scope = "geographic_area" /\ r.area # None /\ e.key \in SelfAndAbove(AreaTree, r.area))
  <2>1. e.scope = "geographic_area" => e \in queried
    BY DEF Asked, Recheckable
  <2> QED BY <1>1, <1>2, <2>1 DEF SqlRecord, SuppressedArea
<1>8. ~(e.scope = "source" /\ (e.key = r.source \/ \E m \in r.emails \cup r.phones : m.source = e.key))
  <2>1. ASSUME e.scope = "source" PROVE SqlSource(queried, e.key)
    BY <2>1 DEF Asked, Recheckable, SqlSource
  <2>2. ~SqlSource(queried, row.source)
    BY DEF SqlRecord
  <2>3. \A m \in r.emails \cup r.phones : ~SqlSource(queried, m.source)
    BY <1>1, <1>2
  <2> QED BY <1>1, <1>2, <2>1, <2>2, <2>3
<1>9. ASSUME NEW a \in Addresses(r)
      PROVE  /\ ~(e.scope = "email" /\ e.key = a)
             /\ ~(e.scope = "domain" /\ (e.key = DomainOf[a] \/ <<DomainOf[a], e.key>> \in Subdomain))
  <2>1. ASSUME NEW m \in r.emails, a = m.address
        PROVE  /\ ~(e.scope = "email" /\ e.key = a)
               /\ ~(e.scope = "domain" /\ (e.key = DomainOf[a] \/ <<DomainOf[a], e.key>> \in Subdomain))
    <3>1. a # None
      BY <1>1, <1>2, <2>1, RowAssumption
    <3> QED BY <1>2, <2>1, <3>1, AddressPasses
  <2>2. ASSUME a \in {r.published, r.candidate} \ {None}
        PROVE  /\ ~(e.scope = "email" /\ e.key = a)
               /\ ~(e.scope = "domain" /\ (e.key = DomainOf[a] \/ <<DomainOf[a], e.key>> \in Subdomain))
    BY <1>2, <2>2 DEF IsSuppressed, IndexHit, Subject
  <2> QED BY <2>1, <2>2 DEF Addresses
<1> QED BY <1>5, <1>6, <1>7, <1>8, <1>9 DEF Concerns, r, s

(* The rows of a page come from the query of the entries noted with it.     *)
FromQuery(s, queried) ==
    \E row \in Rows : ~SqlRecord(queried, row, Purpose) /\ s = Selected(queried, row)
FromRecheck(r, active, queried) ==
    \E row \in Rows : LET s == Selected(queried, row) IN
        /\ ~SqlRecord(queried, row, Purpose)
        /\ ~IsSuppressed(active, Subject(s, Purpose))
        /\ r = Rechecked(active, s, Purpose)

(* A line keeps out whom the entries it was checked against name.           *)
KeepsOut(row, queried, active) ==
    \A e \in active : Asked(e, queried, row) => ~Concerns(e, row)

(* Rendering passes rows on, and no rows but those.                         *)
LEMMA RenderedRows ==
    ASSUME NEW active, NEW queried, NEW page, \A s \in page : FromQuery(s, queried)
    PROVE  \A r \in Rendered(active, page, Purpose) : FromRecheck(r, active, queried)
BY DEF Rendered, FromQuery, FromRecheck

(* A rechecked row is a row of the export, under its own number, with some  *)
(* of its emails.                                                           *)
LEMMA RecheckedRow ==
    ASSUME NEW active, NEW queried, NEW r, FromRecheck(r, active, queried)
    PROVE  /\ DOMAIN r = RowFields /\ r.assignment \in Nat
           /\ \A m \in r.emails : m.id \in Nat
           /\ \A m, n \in r.emails : m.id = n.id => m = n
           /\ KeepsOut(r, queried, active)
<1>1. PICK row \in Rows : LET s == Selected(queried, row) IN
          /\ ~SqlRecord(queried, row, Purpose)
          /\ ~IsSuppressed(active, Subject(s, Purpose))
          /\ r = Rechecked(active, s, Purpose)
  BY DEF FromRecheck
<1> DEFINE s == Selected(queried, row)
<1>2. DOMAIN s = RowFields /\ s.assignment = row.assignment /\ \A m \in s.emails : m \in row.emails
  BY SelectedFields
<1>3. KeepsOut(r, queried, active)
  BY <1>1, RenderedKeepsOut DEF KeepsOut
<1> HIDE DEF s
<1>4. r = Rechecked(active, s, Purpose)
  BY <1>1 DEF s
<1>5. r.assignment = s.assignment /\ \A m \in r.emails : m \in s.emails
  BY <1>2, <1>4, RecheckedFields
<1>6. DOMAIN r = RowFields
  BY <1>2, <1>4 DEF Rechecked
<1> QED BY <1>2, <1>3, <1>5, <1>6, RowAssumption

(* Two rechecked rows of one number are the same.                           *)
LEMMA RowsAreTold ==
    ASSUME NEW active, NEW queried, NEW q, NEW r, FromRecheck(q, active, queried),
           FromRecheck(r, active, queried), q.assignment = r.assignment
    PROVE  q = r
<1>1. PICK a \in Rows : q = Rechecked(active, Selected(queried, a), Purpose)
  BY DEF FromRecheck
<1>2. PICK b \in Rows : r = Rechecked(active, Selected(queried, b), Purpose)
  BY DEF FromRecheck
<1>3. \A row \in Rows : Rechecked(active, Selected(queried, row), Purpose).assignment = row.assignment
  <2> SUFFICES ASSUME NEW row \in Rows
               PROVE  Rechecked(active, Selected(queried, row), Purpose).assignment = row.assignment
    OBVIOUS
  <2> DEFINE s == Selected(queried, row)
  <2>1. DOMAIN s = RowFields /\ s.assignment = row.assignment
    BY SelectedFields
  <2> HIDE DEF s
  <2>2. Rechecked(active, s, Purpose).assignment = s.assignment
    BY <2>1, RecheckedFields
  <2> QED BY <2>1, <2>2 DEF s
<1>4. a.assignment = b.assignment
  BY <1>1, <1>2, <1>3
<1>5. a = b
  BY <1>4, RowAssumption
<1> QED BY <1>1, <1>2, <1>5

(* A line of one address says no more than its row.                         *)
LEMMA OneLineFields ==
    ASSUME NEW r, DOMAIN r = RowFields, NEW m \in r.emails
    PROVE  /\ OneLine(r, m).organization = r.organization /\ OneLine(r, m).emails = {m}
           /\ \A e : Concerns(e, OneLine(r, m)) => Concerns(e, r)
<1> DEFINE l == OneLine(r, m)
<1>1. /\ l.person = r.person /\ l.organization = r.organization /\ l.jurisdiction = r.jurisdiction
      /\ l.level = r.level /\ l.area = r.area /\ l.source = r.source
      /\ l.emails = {m} /\ l.published = None /\ l.candidate = None /\ l.phones = {}
  BY DEF OneLine, RowFields
<1> HIDE DEF l
<1>2. Addresses(l) \subseteq Addresses(r) /\ l.emails \cup l.phones \subseteq r.emails \cup r.phones
  BY <1>1 DEF Addresses
<1>3. ASSUME NEW e, Concerns(e, l) PROVE Concerns(e, r)
  BY <1>1, <1>2, <1>3 DEF Concerns
<1> QED BY <1>1, <1>3 DEF l

(* What the lines of a chunk are: whole rows, or one address of a row each; *)
(* in the contact format their keys are new to the file, kept for the pages *)
(* that follow, and no two lines share one.                                 *)
ContactKey(line, m) == <<line.organization, m.address>>
ContactLines(lines, before, after) ==
    /\ before \subseteq after
    /\ \A l \in lines : \A m \in l.emails : ContactKey(l, m) \in after \ before
    /\ \A k, l \in lines : \A m \in k.emails, n \in l.emails : ContactKey(k, m) = ContactKey(l, n) => k = l

(* Every line keeps out whom its row keeps out.                             *)
LEMMA LinesKeepOut ==
    ASSUME NEW active, NEW queried, NEW rows, NEW format, NEW seenKeys,
           \A r \in rows : FromRecheck(r, active, queried)
    PROVE  \A l \in Lines(format, rows, seenKeys).lines : KeepsOut(l, queried, active)
<1> SUFFICES ASSUME NEW l \in Lines(format, rows, seenKeys).lines PROVE KeepsOut(l, queried, active)
  OBVIOUS
<1>1. PICK r \in rows : l = r \/ \E m \in r.emails : l = OneLine(r, m)
  BY DEF Lines
<1>2. DOMAIN r = RowFields /\ KeepsOut(r, queried, active)
  BY RecheckedRow
<1> QED BY <1>1, <1>2, OneLineFields DEF KeepsOut, Asked, Recheckable

(* The first place of a key is the only one that becomes a line.            *)
LEMMA LinesAreContacts ==
    ASSUME NEW active, NEW queried, NEW rows, NEW seenKeys,
           \A r \in rows : FromRecheck(r, active, queried)
    PROVE  LET written == Lines("contacts", rows, seenKeys) IN
           ContactLines(written.lines, seenKeys, written.seenKeys)
<1> DEFINE places == UNION {{<<row, m>> : m \in row.emails} : row \in rows}
           key(p) == <<p[1].organization, p[2].address>>
           earlier(q, p) == \/ q[1].assignment < p[1].assignment
                            \/ q[1].assignment = p[1].assignment /\ q[2].id < p[2].id
           new == {p \in places : /\ key(p) \notin seenKeys
                                  /\ ~\E q \in places : key(q) = key(p) /\ earlier(q, p)}
           written == Lines("contacts", rows, seenKeys)
<1>1. /\ written.lines = {OneLine(p[1], p[2]) : p \in new}
      /\ written.seenKeys = seenKeys \cup {key(p) : p \in places}
  BY DEF Lines, LineKey
<1>2. ASSUME NEW p \in places
      PROVE  /\ p = <<p[1], p[2]>> /\ p[1] \in rows /\ p[2] \in p[1].emails
             /\ p[1].assignment \in Nat /\ p[2].id \in Nat
             /\ OneLine(p[1], p[2]).organization = p[1].organization /\ OneLine(p[1], p[2]).emails = {p[2]}
  <2>1. p = <<p[1], p[2]>> /\ p[1] \in rows /\ p[2] \in p[1].emails
    BY <1>2
  <2>2. DOMAIN p[1] = RowFields /\ p[1].assignment \in Nat /\ p[2].id \in Nat
    BY <2>1, RecheckedRow
  <2> QED BY <2>1, <2>2, OneLineFields
<1>3. ASSUME NEW p \in new, NEW q \in new, key(p) = key(q) PROVE p = q
  <2>1. p \in places /\ q \in places /\ ~earlier(q, p) /\ ~earlier(p, q)
    BY <1>3
  <2> HIDE DEF new
  <2>2. p[1].assignment = q[1].assignment /\ p[2].id = q[2].id
    BY <1>2, <2>1
  <2> HIDE DEF places
  <2>3. p[1] = q[1]
    BY <1>2, <2>1, <2>2, RowsAreTold
  <2>4. p[2] = q[2]
    BY <1>2, <2>1, <2>2, <2>3, RecheckedRow
  <2> QED BY <1>2, <2>1, <2>3, <2>4
<1>4. \A p \in new : p \in places /\ key(p) \notin seenKeys
  OBVIOUS
<1> HIDE DEF places, new, written
<1>5. ASSUME NEW l \in written.lines, NEW m \in l.emails
      PROVE  \E p \in new : l = OneLine(p[1], p[2]) /\ ContactKey(l, m) = key(p)
  <2>1. PICK p \in new : l = OneLine(p[1], p[2])
    BY <1>1, <1>5
  <2>2. l.organization = p[1].organization /\ l.emails = {p[2]}
    BY <1>2, <1>4, <2>1
  <2> QED BY <1>5, <2>1, <2>2 DEF ContactKey
<1>6. \A l \in written.lines : \A m \in l.emails : ContactKey(l, m) \in written.seenKeys \ seenKeys
  BY <1>1, <1>4, <1>5
<1>7. ASSUME NEW k \in written.lines, NEW l \in written.lines, NEW m \in k.emails, NEW n \in l.emails,
             ContactKey(k, m) = ContactKey(l, n)
      PROVE  k = l
  <2>1. PICK p \in new : k = OneLine(p[1], p[2]) /\ ContactKey(k, m) = key(p)
    BY <1>5, <1>7
  <2>2. PICK q \in new : l = OneLine(q[1], q[2]) /\ ContactKey(l, n) = key(q)
    BY <1>5, <1>7
  <2>3. p = q
    BY <1>3, <1>7, <2>1, <2>2
  <2> QED BY <2>1, <2>2, <2>3
<1>8. seenKeys \subseteq written.seenKeys
  BY <1>1
<1>9. ContactLines(written.lines, seenKeys, written.seenKeys)
  BY <1>6, <1>7, <1>8 DEF ContactLines
<1> QED BY <1>9 DEF written

(* A page is what the query it notes selected; the lines of a file keep out *)
(* whom they were checked for; and the keys of a contact file are all seen. *)
SeenOnce(lines, seenKeys) ==
    \A a, b \in lines : \A m \in a.row.emails, n \in b.row.emails :
        /\ ContactKey(a.row, m) \in seenKeys
        /\ ContactKey(a.row, m) = ContactKey(b.row, n) => a = b
FileInv ==
    \A x \in Exporters :
        /\ \A s \in work[x].page : FromQuery(s, work[x].queried)
        /\ \A line \in file[x] : KeepsOut(line.row, line.queried, line.checked)
        /\ work[x].format = "contacts" => SeenOnce(file[x], work[x].seenKeys)
        /\ task[x].pc = "idle" => file[x] = {}

(* A chunk of a file, with one entry for each line of its page.             *)
ChunkOf(lines, chunk) ==
    /\ \A c \in chunk : c.row \in lines
    /\ \A c, d \in chunk : c.row = d.row => c = d

(* The chunk a write adds continues a contact file: its keys are new to it. *)
LEMMA ChunkContinues ==
    ASSUME NEW old, NEW chunk, NEW lines, NEW before, NEW after,
           ContactLines(lines, before, after), ChunkOf(lines, chunk),
           SeenOnce(old, before)
    PROVE  SeenOnce(old \cup chunk, after)
<1> SUFFICES ASSUME NEW a \in old \cup chunk, NEW b \in old \cup chunk, NEW m \in a.row.emails, NEW n \in b.row.emails
             PROVE  ContactKey(a.row, m) \in after /\ (ContactKey(a.row, m) = ContactKey(b.row, n) => a = b)
  BY DEF SeenOnce
<1>1. ASSUME NEW c \in chunk, NEW o \in c.row.emails
      PROVE  c.row \in lines /\ ContactKey(c.row, o) \in after \ before
  BY <1>1 DEF ContactLines, ChunkOf
<1>2. ASSUME NEW c \in old, NEW o \in c.row.emails PROVE ContactKey(c.row, o) \in before /\ before \subseteq after
  BY <1>2 DEF ContactLines, SeenOnce
<1>3. CASE a \in old /\ b \in old
  BY <1>2, <1>3 DEF SeenOnce
<1>4. CASE a \in old /\ b \in chunk
  BY <1>1, <1>2, <1>4
<1>5. CASE a \in chunk /\ b \in old
  BY <1>1, <1>2, <1>5
<1>6. CASE a \in chunk /\ b \in chunk
  BY <1>1, <1>6 DEF ContactLines, ChunkOf
<1> QED BY <1>3, <1>4, <1>5, <1>6

(* Every step keeps what the files hold.                                    *)
LEMMA FileStep ==
    ASSUME Shaped, FileInv, NEW c \in Clients, Begin(c) \/ Step(c) \/ Trouble(c)
    PROVE  FileInv'
<1>1. /\ \A d \in Clients \ {c} : task'[d] = task[d]
      /\ task'[c].pc # "idle"
  <2> DEFINE Moved == /\ \A d \in Clients \ {c} : task'[d] = task[d]
                      /\ task'[c].pc # "idle"
  <2>1. ASSUME NEW pc, pc # "idle", Goto(c, pc) PROVE Moved
    BY <2>1 DEF Goto, Shaped, TaskFields
  <2>2. ASSUME NEW pc, pc # "idle", BeginAppend(c, pc) PROVE Moved
    BY <2>2 DEF BeginAppend, Shaped, TaskFields
  <2>3. ASSUME NEW complaint, task' = Answered(c, complaint) PROVE Moved
    BY <2>3 DEF Answered, Shaped, TaskFields
  <2>4. CASE AppendAudit(c) \/ RevokeAppend(c) \/ ReceivedAppend(c)
    BY <2>2, <2>4 DEF AppendAudit, RevokeAppend, ReceivedAppend
  <2>5. CASE LookUp(c) \/ LockComplaint(c) \/ Resolve(c) \/ MarkFailed(c)
    BY <2>1, <2>3, <2>5 DEF LookUp, LockComplaint, Resolve, MarkFailed, Shaped, TaskFields
  <2>6. CASE AppendDone(c) \/ AppendAnswerLost(c) \/ CommitRevoke(c) \/ Die(c) \/ ResolutionFails(c) \/ ExportFails(c)
    BY <2>1, <2>6 DEF AppendDone, AppendAnswerLost, CommitRevoke, Die, ResolutionFails, ExportFails
  <2>7. CASE Query(c) \/ Start(c)
    BY <2>1, <2>7 DEF Query, Start
  <2>8. CASE Write(c)
    <3>1. Goto(c, "query") \/ Goto(c, "complete")
      BY <2>8 DEF Write
    <3> QED BY <2>1, <3>1
  <2>9. CASE Complete(c) \/ Fail(c)
    BY <2>9 DEF Complete, Fail, Shaped, TaskFields
  <2>10. CASE InsertEntry(c) \/ BeginRevoke(c) \/ Receive(c)
    BY <2>10 DEF InsertEntry, BeginRevoke, Receive, Shaped, TaskFields
  <2> HIDE DEF Moved
  <2>11. CASE Begin(c)
    BY <2>7, <2>10, <2>11 DEF Begin
  <2>12. CASE Step(c)
    BY <2>4, <2>5, <2>6, <2>7, <2>8, <2>9, <2>12 DEF Step
  <2>13. CASE Trouble(c)
    BY <2>6, <2>13 DEF Trouble
  <2> QED BY <2>11, <2>12, <2>13 DEF Moved
<1> USE DEF Shaped, TaskFields, WorkFields
<1>2. ASSUME UNCHANGED file,
             \A x \in Exporters : work'[x] = work[x] \/ work'[x] = [work[x] EXCEPT !.released = TRUE]
      PROVE  FileInv'
  <2>1. \A x \in Exporters : /\ work'[x].page = work[x].page /\ work'[x].queried = work[x].queried
                             /\ work'[x].format = work[x].format /\ work'[x].seenKeys = work[x].seenKeys
    BY <1>2
  <2>2. \A x \in Exporters : task'[x].pc = "idle" => task[x].pc = "idle"
    BY <1>1 DEF Clients
  <2> QED BY <1>2, <2>1, <2>2 DEF FileInv
<1>3. CASE c \in Exporters /\ Start(c)
  <2>1. PICK format : work' = [work EXCEPT ![c] = [NewWork EXCEPT !.format = format, !.asOf = Active]]
    BY <1>3 DEF Start
  <2>2. UNCHANGED file /\ file[c] = {} /\ work'[c].page = {} /\ \A x \in Exporters \ {c} : work'[x] = work[x]
    BY <1>3, <2>1 DEF Start, At, FileInv, NewWork
  <2>3. \A x \in Exporters : task'[x].pc = "idle" => task[x].pc = "idle"
    BY <1>1 DEF Clients
  <2>4. SeenOnce(file'[c], work'[c].seenKeys)
    BY <2>2 DEF SeenOnce
  <2> QED BY <2>2, <2>3, <2>4 DEF FileInv
<1>4. CASE c \in Exporters /\ Query(c)
  <2>1. /\ UNCHANGED file /\ \A x \in Exporters \ {c} : work'[x] = work[x]
        /\ work'[c].format = work[c].format /\ work'[c].seenKeys = work[c].seenKeys
    BY <1>4 DEF Query
  <2>2. /\ work'[c].page = {Selected(Applied(c), row) : row \in Page(c)}
        /\ work'[c].queried = Applied(c)
    BY <1>4 DEF Query
  <2>3. \A row \in Page(c) : row \in Rows /\ ~SqlRecord(Applied(c), row, Purpose)
    BY DEF Page, Exportable
  <2>4. \A s \in work'[c].page : FromQuery(s, work'[c].queried)
    <3> PICK applied : applied = Applied(c)
      OBVIOUS
    <3> QED BY <2>2, <2>3 DEF FromQuery
  <2>5. \A x \in Exporters : task'[x].pc = "idle" => task[x].pc = "idle"
    BY <1>1 DEF Clients
  <2> QED BY <2>1, <2>4, <2>5 DEF FileInv
<1>5. CASE c \in Exporters /\ Write(c)
  <2> DEFINE active == Active
             w == work[c]
             rows == Rendered(active, w.page, Purpose)
             rendered == Lines(w.format, rows, w.seenKeys)
             line(row) == [row |-> row, queried |-> w.queried, checked |-> active]
             chunk == {line(row) : row \in rendered.lines}
  <2>1. /\ file' = [file EXCEPT ![c] = @ \cup chunk]
        /\ \A x \in Exporters \ {c} : work'[x] = work[x]
        /\ work'[c].format = w.format /\ work'[c].seenKeys = rendered.seenKeys /\ work'[c].page = {}
    BY <1>5 DEF Write, Consulted
  <2>2. \A r \in rows : FromRecheck(r, active, w.queried)
    <3>1. \A s \in w.page : FromQuery(s, w.queried)
      BY <1>5 DEF FileInv
    <3> HIDE DEF active, w
    <3> QED BY <3>1, RenderedRows
  <2>3. \A l \in rendered.lines : KeepsOut(l, w.queried, active)
    <3> HIDE DEF active, w, rows
    <3> QED BY <2>2, LinesKeepOut
  <2>4. w.format = "contacts" => ContactLines(rendered.lines, w.seenKeys, rendered.seenKeys)
    <3> HIDE DEF active, w, rows
    <3> QED BY <2>2, LinesAreContacts
  <2>5. file'[c] = file[c] \cup chunk
    BY <1>5, <2>1
  <2> HIDE DEF rendered
  <2>6. \A l \in file'[c] : KeepsOut(l.row, l.queried, l.checked)
    <3>1. \A l \in file[c] : KeepsOut(l.row, l.queried, l.checked)
      BY <1>5 DEF FileInv
    <3>2. \A l \in chunk : l.row \in rendered.lines /\ l.queried = w.queried /\ l.checked = active
      OBVIOUS
    <3> HIDE DEF chunk, active
    <3> QED BY <2>3, <2>5, <3>1, <3>2
  <2>7. w.format = "contacts" => SeenOnce(file'[c], rendered.seenKeys)
    <3>1. w.format = "contacts" => SeenOnce(file[c], w.seenKeys)
      BY <1>5 DEF FileInv
    <3>2. ChunkOf(rendered.lines, chunk)
      BY DEF ChunkOf
    <3> HIDE DEF chunk, w
    <3> QED BY <2>4, <2>5, <3>1, <3>2, ChunkContinues
  <2>8. \A x \in Exporters \ {c} : file'[x] = file[x]
    BY <2>1
  <2>9. \A x \in Exporters : task'[x].pc = "idle" => task[x].pc = "idle" /\ x # c
    BY <1>1 DEF Clients
  <2> HIDE DEF chunk
  <2> QED BY <2>1, <2>6, <2>7, <2>8, <2>9 DEF FileInv
<1>6. CASE AppendDone(c) \/ AppendAnswerLost(c)
  <2>1. UNCHANGED file /\ (work' = work \/ work' = [work EXCEPT ![c].released = TRUE])
    BY <1>6 DEF AppendDone, AppendAnswerLost, Appending
  <2>2. \A x \in Exporters : work'[x] = work[x] \/ work'[x] = [work[x] EXCEPT !.released = TRUE]
    BY <2>1
  <2> QED BY <1>2, <2>1, <2>2
<1>7. CASE /\ ~(c \in Exporters /\ (Start(c) \/ Query(c) \/ Write(c)))
           /\ ~(AppendDone(c) \/ AppendAnswerLost(c))
  <2>1. UNCHANGED <<file, work>>
    BY <1>7 DEF Begin, Step, Trouble, AppendAudit, RevokeAppend, CommitRevoke, LookUp, LockComplaint,
                ReceivedAppend, Resolve, MarkFailed, Complete, Fail, InsertEntry, BeginRevoke, Receive,
                Die, ResolutionFails, ExportFails, exporting
  <2> QED BY <1>2, <2>1
<1> QED BY <1>3, <1>4, <1>5, <1>6, <1>7

----------------------------------------------------------------------------
(* The theorems.                                                            *)

ReleaseInv == Shaped /\ AuditInv /\ RevokeInv /\ ExportInv /\ ComplaintInv

(* The invariant holds of the empty registry.                              *)
LEMMA ReleaseInit == Init => ReleaseInv
<1> SUFFICES ASSUME Init PROVE ReleaseInv
  OBVIOUS
<1>1. Shaped
  BY DEF Init, Shaped, Idle, NewWork, TaskFields, WorkFields
<1>2. /\ trail = {} /\ entries = {} /\ revoked = {} /\ nextSeq = 1
      /\ \A c \in Clients : task[c].pc = "idle"
      /\ \A x \in Exporters : ~exports[x].checked /\ ~work[x].released
      /\ \A k \in Keys : complaints[k] = Absent
  BY DEF Init, Idle, NewWork
<1>3. AuditInv
  BY <1>2 DEF AuditInv, IsLast, ChainVerifies, Holding
<1>4. RevokeInv
  BY <1>2 DEF RevokeInv, RevokedEvents, Revoking
<1>5. ExportInv
  BY <1>2 DEF ExportInv
<1>6. \A k \in Keys : ~Decided(k) /\ Received(k) = {} /\ Own(k) = {} /\ Persons(k) = {}
  BY <1>2 DEF Decided, Received, Own, Persons
<1>7. \A k \in Keys : Told(k)
  BY <1>2, <1>6 DEF Told, Absent
<1>8. ComplaintInv
  BY <1>2, <1>7 DEF ComplaintInv, Handling, Deciding
<1> QED BY <1>1, <1>3, <1>4, <1>5, <1>8 DEF ReleaseInv

(* Every step keeps the release invariant.                                 *)
LEMMA ReleaseStep == ReleaseInv /\ [Next]_vars => ReleaseInv'
<1> SUFFICES ASSUME ReleaseInv, [Next]_vars PROVE ReleaseInv'
  OBVIOUS
<1>1. CASE UNCHANGED vars
  <2>1. Shaped'
    BY <1>1 DEF vars, ReleaseInv, Shaped
  <2>2. AuditInv'
    BY <1>1 DEF vars, ReleaseInv, AuditInv, IsLast, ChainVerifies
  <2>3. RevokeInv'
    BY <1>1 DEF vars, ReleaseInv, RevokeInv, RevokedEvents
  <2>4. ExportInv'
    BY <1>1 DEF vars, ReleaseInv, ExportInv, Carries, CompletedOnTrail
  <2>5. ComplaintInv'
    BY <1>1 DEF vars, ReleaseInv, ComplaintInv, KeyOf, Told, Decided, Received, Own, Persons
  <2> QED BY <2>1, <2>2, <2>3, <2>4, <2>5 DEF ReleaseInv
<1>2. ASSUME NEW c \in Clients, Begin(c) \/ Step(c) \/ Trouble(c) PROVE ReleaseInv'
  <2>1. Shaped /\ AuditInv /\ RevokeInv /\ ExportInv /\ ComplaintInv
    BY DEF ReleaseInv
  <2> QED BY <1>2, <2>1, ShapeKept, AuditStep, RevokeStep, ExportStep, ComplaintStep DEF ReleaseInv
<1> QED BY <1>1, <1>2 DEF Next

(* The release invariant holds always.                                     *)
LEMMA ReleaseInvariant == Spec => []ReleaseInv
BY ReleaseInit, ReleaseStep, PTL DEF Spec

(* Whatever transactions append, abort or die while they hold the lock, the *)
(* trail reads as one chain by its numbers.                                 *)
THEOREM ChainIsOne == Spec => []ChainVerifies
<1>1. ReleaseInv => ChainVerifies
  BY DEF ReleaseInv, AuditInv
<1> QED BY <1>1, ReleaseInvariant, PTL

(* One event per revocation and none without it, counted exports hold what  *)
(* the event says, and a build is released only with its event.             *)
THEOREM TrailIsTrue == Spec => []TrailTellsTheTruth
<1>1. ReleaseInv => TrailTellsTheTruth
  <2> SUFFICES ASSUME ReleaseInv PROVE TrailTellsTheTruth
    OBVIOUS
  <2>1. ASSUME NEW e \in entries
        PROVE  Cardinality({t \in trail : t.action = "suppression.revoked" /\ t.subject = e}) =
                  IF e \in revoked THEN 1 ELSE 0
    <3>1. CASE e \in revoked
      <4>1. PICK t : RevokedEvents(e) = {t}
        BY <3>1 DEF ReleaseInv, RevokeInv
      <4> QED BY <3>1, <4>1, FS_Singleton DEF RevokedEvents
    <3>2. CASE e \notin revoked
      <4>1. {t \in trail : t.action = "suppression.revoked" /\ t.subject = e} = {}
        BY <3>2 DEF ReleaseInv, RevokeInv
      <4> QED BY <3>2, <4>1, FS_EmptySet
    <3> QED BY <3>1, <3>2
  <2>2. \A t \in trail : t.action = "suppression.added" => t.subject \in entries
    BY DEF ReleaseInv, ExportInv
  <2>3. \A t \in trail : t.action = "export.completed" =>
          exports[t.subject].checked /\ exports[t.subject].count = Cardinality(file[t.subject])
    BY DEF ReleaseInv, ExportInv
  <2>4. \A x \in Builds : work[x].released =>
          exports[x].status = "completed" /\ \E t \in trail : t.action = "export.completed" /\ t.subject = x
    BY DEF ReleaseInv, ExportInv, CompletedOnTrail, Exporters
  <2> QED BY <2>1, <2>2, <2>3, <2>4 DEF TrailTellsTheTruth
<1> QED BY <1>1, ReleaseInvariant, PTL

(* However often a delivery is repeated, raced or cut short, its complaint  *)
(* is decided in one transaction, once.                                     *)
THEOREM ComplaintDecidedOnce == Spec => []ComplaintSuppressesOnce
<1>1. ReleaseInv => ComplaintSuppressesOnce
  <2> SUFFICES ASSUME ReleaseInv, NEW k \in Keys
               PROVE  /\ Cardinality(Received(k)) = IF Decided(k) THEN 1 ELSE 0
                      /\ Cardinality(Persons(k)) = IF complaints[k].resolution = "suppressed" THEN 1 ELSE 0
                      /\ Own(k) # {} => Decided(k) /\ complaints[k].entry \in Own(k)
    BY DEF ComplaintSuppressesOnce, Received, Persons, Own, Decided
  <2>1. Told(k)
    BY DEF ReleaseInv, ComplaintInv
  <2>2. Cardinality(Received(k)) = IF Decided(k) THEN 1 ELSE 0
    BY <2>1, FS_Singleton, FS_EmptySet DEF Told
  <2>3. Cardinality(Persons(k)) = IF complaints[k].resolution = "suppressed" THEN 1 ELSE 0
    BY <2>1, FS_Singleton, FS_EmptySet DEF Told
  <2>4. Own(k) # {} => Decided(k) /\ complaints[k].entry \in Own(k)
    BY <2>1 DEF Told
  <2> QED BY <2>2, <2>3, <2>4
<1> QED BY <1>1, ReleaseInvariant, PTL

(* The invariant of the files holds of no files.                            *)
LEMMA FileInit == Init => FileInv
<1> SUFFICES ASSUME Init, NEW x \in Exporters
             PROVE  /\ work[x].page = {} /\ file[x] = {}
                    /\ SeenOnce(file[x], work[x].seenKeys)
  BY DEF FileInv
<1>1. work[x].page = {} /\ file[x] = {}
  BY DEF Init, NewWork
<1> QED BY <1>1 DEF SeenOnce

(* Stuttering changes no file.                                              *)
LEMMA FileStutter == FileInv /\ UNCHANGED vars => FileInv'
BY DEF FileInv, vars

(* The invariant of the files holds always.                                 *)
LEMMA FileInvariant == Spec => [](Shaped /\ FileInv)
<1>1. Init => Shaped /\ FileInv
  BY ReleaseInit, FileInit DEF ReleaseInv
<1>2. (Shaped /\ FileInv) /\ [Next]_vars => (Shaped /\ FileInv)'
  <2> SUFFICES ASSUME Shaped, FileInv, [Next]_vars PROVE Shaped' /\ FileInv'
    OBVIOUS
  <2>1. CASE UNCHANGED vars
    BY <2>1, FileStutter DEF vars, Shaped
  <2>2. ASSUME NEW c \in Clients, Begin(c) \/ Step(c) \/ Trouble(c) PROVE Shaped' /\ FileInv'
    BY <2>2, ShapeKept, FileStep
  <2> QED BY <2>1, <2>2 DEF Next
<1> QED BY <1>1, <1>2, PTL DEF Spec

(* Whom an entry names that the query applied is not on the page, whatever  *)
(* the entry's scope; whom an entry names that came between the query and   *)
(* the write is not on it either, unless it names an area, a document or a  *)
(* body further above the employer than the query's ancestry goes.          *)
THEOREM OptOutsAreKept == Spec => []OptOutsReachTheFile
<1>1. Shaped /\ FileInv => OptOutsReachTheFile
  BY DEF FileInv, OptOutsReachTheFile, WrittenLines, KeepsOut, Asked
<1> QED BY <1>1, FileInvariant, PTL

(* An address is in a contact file once for its organization, whichever     *)
(* pages, rows and documents published it.                                  *)
THEOREM ContactsAreWrittenOnce == Spec => []ContactsAppearOnce
<1>1. Shaped /\ FileInv => ContactsAppearOnce
  <2> SUFFICES ASSUME FileInv, NEW x \in Exporters, work[x].format = "contacts",
                      NEW a \in file[x], NEW b \in file[x], a # b, a.row.organization = b.row.organization,
                      NEW m \in a.row.emails, NEW n \in b.row.emails
               PROVE  m.address # n.address
    BY DEF ContactsAppearOnce
  <2>1. SeenOnce(file[x], work[x].seenKeys)
    BY DEF FileInv
  <2>2. ContactKey(a.row, m) # ContactKey(b.row, n)
    BY <2>1 DEF SeenOnce
  <2> QED BY <2>2 DEF ContactKey
<1> QED BY <1>1, FileInvariant, PTL
=============================================================================
