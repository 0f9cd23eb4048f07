--------------------------- MODULE PeopleRelease ---------------------------
(* What leaves the platform, and on whose word: exports, the suppression    *)
(* entries that keep people out of them, the complaints that create such    *)
(* entries, and the audit trail of all three.                               *)
(*                                                                          *)
(* Clients share one database.  A step is one statement, or the part of a   *)
(* transaction between two locks it waits for.  Any statement may fail, its *)
(* answer may be lost after it committed, and a client may die anywhere.    *)
EXTENDS Suppression, Sequences

CONSTANTS
    Rows,        \* the assignments an export's filters select
    PageSize,    \* rows of one page of a streamed export (2000 in the code)
    Purpose,     \* the purpose every export declares
    Catalogue,   \* suppression entries an operator may add
    Deliveries,  \* complaints that may arrive: [key, type, value, person, suppress]
    Owners,      \* [published contact value -> people it is published for]
    Intakes, Operators, Streams, Builds   \* clients, each doing one piece of work

Exporters == Streams \cup Builds
Clients == Intakes \cup Operators \cup Exporters
Keys == {d.key : d \in Deliveries}
Formats == {"full", "contacts", "staff_directory"}

ASSUME ClientAssumption ==
    /\ Intakes \cap Operators = {} /\ Streams \cap Builds = {}
    /\ (Intakes \cup Operators) \cap Exporters = {}
    /\ None \notin Clients
ASSUME NoneAssumption == None # "suppression_failed"
ASSUME CatalogueAssumption == \A e \in Catalogue : e.by \notin Keys
RowFields == {"assignment", "person", "organization", "jurisdiction", "level", "area", "source", "ancestors",
              "emails", "published", "phones", "candidate", "candidateWithheld"}
ASSUME RowAssumption ==
    /\ \A row, other \in Rows : row.assignment = other.assignment => row = other
    /\ \A row \in Rows :
          /\ DOMAIN row = RowFields /\ row.assignment \in Nat
          /\ \A m \in row.emails : m.id \in Nat /\ m.address # None
          /\ \A m, n \in row.emails : m.id = n.id => m = n
ASSUME PageAssumption == PageSize \in Nat \ {0}

VARIABLES
    entries,     \* suppression_entries: every row ever inserted
    revoked,     \* those with a revoked_at
    complaints,  \* [key -> the complaint's row]
    exports,     \* [exporter -> its row of exports]
    trail,       \* audit_events that are committed
    nextSeq,     \* audit_event_sequence
    auditLock,   \* who holds the advisory lock of audit_event_append
    rowLock,     \* [key -> who holds the complaint's row]
    task,        \* [client -> where it stands]
    work,        \* [exporter -> the locals of streamPeopleExport and buildPeopleExport]
    file         \* [exporter -> the lines rendered so far, each of another row or address]

vars == <<entries, revoked, complaints, exports, trail, nextSeq, auditLock, rowLock, task, work, file>>
tables == <<entries, revoked, complaints, exports>>
audit == <<trail, nextSeq, auditLock>>
exporting == <<exports, work, file>>

Absent == [resolution |-> "absent", reason |-> None, entry |-> None]
Complaint(resolution, reason, entry) ==
    [resolution |-> resolution, reason |-> reason, entry |-> entry]

(* pc, the delivery or entry at hand, the audit event being appended, the   *)
(* previous event read for it, and the answer the caller got.               *)
Idle == [pc |-> "idle", on |-> None, event |-> None, prev |-> 0, seq |-> 0, answer |-> None]

NewWork == [format |-> None, asOf |-> {}, page |-> {}, cursor |-> 0, seenKeys |-> {},
            queried |-> {}, released |-> FALSE]

Init ==
    /\ entries = {} /\ revoked = {} /\ trail = {} /\ nextSeq = 1
    /\ complaints = [k \in Keys |-> Absent]
    /\ exports = [x \in Exporters |-> [status |-> "absent", count |-> 0, checked |-> FALSE]]
    /\ auditLock = None /\ rowLock = [k \in Keys |-> None]
    /\ task = [c \in Clients |-> Idle]
    /\ work = [x \in Exporters |-> NewWork]
    /\ file = [x \in Exporters |-> {}]

At(c, pc) == task[c].pc = pc
Goto(c, pc) == task' = [task EXCEPT ![c].pc = pc]
Active == entries \ revoked

----------------------------------------------------------------------------
(* The audit trail.  audit_event_append takes a lock that is held until the *)
(* transaction ends, reads the last event and draws a number; the event is  *)
(* visible when the transaction commits.  Events are told by their numbers, *)
(* which stand for their hashes too.                                        *)

LastSeq == IF trail = {} THEN 0 ELSE CHOOSE n \in {e.seq : e \in trail} : \A e \in trail : e.seq <= n

SlipAuditLockFree == TRUE
AuditLockFree == auditLock = None

BeginAppend(c, pc) ==
    /\ AuditLockFree
    /\ auditLock' = c
    /\ task' = [task EXCEPT ![c].pc = pc, ![c].prev = LastSeq, ![c].seq = nextSeq]
    /\ nextSeq' = nextSeq + 1

(* A transaction's events, the first of which was begun above.  Further     *)
(* ones draw the numbers that follow, the lock being held.                  *)
Appended(c, events) ==
    trail \cup {[seq    |-> IF i = 1 THEN task[c].seq ELSE nextSeq + i - 2,
                 prev   |-> IF i = 1 THEN task[c].prev
                            ELSE IF i = 2 THEN task[c].seq ELSE nextSeq + i - 3,
                 action |-> events[i][1], subject |-> events[i][2]] : i \in DOMAIN events}

CommitAppend(c, events) ==
    /\ trail' = Appended(c, events)
    /\ nextSeq' = nextSeq + Len(events) - 1
    /\ auditLock' = IF auditLock = c THEN None ELSE auditLock

----------------------------------------------------------------------------
(* Operators: addSuppression outside a transaction, and revokeSuppression.  *)

InsertEntry(o) ==
    /\ At(o, "idle")
    /\ \E e \in Catalogue \ entries :
          /\ entries' = entries \cup {e}
          /\ task' = [task EXCEPT ![o].pc = "append", ![o].event = <<"suppression.added", e>>]
    /\ UNCHANGED <<revoked, complaints, rowLock, audit, exporting>>

(* Only a row nobody is revoking: the update waits for the row and then     *)
(* finds its revoked_at set.                                                *)
SlipRevocable(e) == TRUE
Revocable(e) == \A p \in Operators : ~(task[p].pc \in {"revoking", "revoked"} /\ task[p].on = e)

(* The update of the row fires the trigger, which waits for the audit lock  *)
(* while the row is locked.                                                 *)
BeginRevoke(o) ==
    /\ At(o, "idle")
    /\ \E e \in Active :
          /\ Revocable(e)
          /\ task' = [task EXCEPT ![o].pc = "revoking", ![o].on = e]
    /\ UNCHANGED <<tables, work, file, rowLock, audit>>

RevokeAppend(o) ==
    /\ At(o, "revoking")
    /\ BeginAppend(o, "revoked")
    /\ UNCHANGED <<tables, work, file, rowLock, trail>>

CommitRevoke(o) ==
    /\ At(o, "revoked")
    /\ revoked' = revoked \cup {task[o].on}
    /\ CommitAppend(o, <<<<"suppression.revoked", task[o].on>>>>)
    /\ Goto(o, "done")
    /\ UNCHANGED <<entries, complaints, rowLock, exporting>>

(* appendAudit as a statement of its own: the event a client carries.       *)
AppendAudit(c) ==
    /\ At(c, "append")
    /\ BeginAppend(c, "appended")
    /\ UNCHANGED <<tables, work, file, rowLock, trail>>

----------------------------------------------------------------------------
(* recordComplaint.                                                         *)

Receive(i) ==
    /\ At(i, "idle")
    /\ \E d \in Deliveries :
          LET new == complaints[d.key] = Absent IN
          /\ complaints' = IF new THEN [complaints EXCEPT ![d.key] = Complaint("pending", None, None)]
                           ELSE complaints
          /\ task' = [task EXCEPT ![i].pc = IF new THEN "resolve" ELSE "lookup", ![i].on = d]
    /\ UNCHANGED <<entries, revoked, rowLock, audit, exporting>>

KeyOf(i) == task[i].on.key
Unresolved(complaint) == complaint.reason = "suppression_failed" \/ complaint.resolution = "pending"
Answered(i, complaint) == [task EXCEPT ![i].pc = "done", ![i].answer = complaint.resolution]

(* A delivery whose key is known: answered, unless it is still to resolve.  *)
LookUp(i) ==
    /\ At(i, "lookup")
    /\ LET existing == complaints[KeyOf(i)] IN
       task' = IF Unresolved(existing) THEN [task EXCEPT ![i].pc = "resolve"]
               ELSE Answered(i, existing)
    /\ UNCHANGED <<tables, work, file, rowLock, audit>>

SlipRecheck(complaint) == TRUE
Recheck(complaint) == Unresolved(complaint)

LockComplaint(i) ==
    /\ At(i, "resolve")
    /\ rowLock[KeyOf(i)] = None
    /\ LET locked == complaints[KeyOf(i)] IN
       IF Recheck(locked)
       THEN /\ rowLock' = [rowLock EXCEPT ![KeyOf(i)] = i]
            /\ Goto(i, "received")
       ELSE /\ task' = Answered(i, locked)
            /\ UNCHANGED rowLock
    /\ UNCHANGED <<tables, work, file, audit>>

ReceivedAppend(i) ==
    /\ At(i, "received")
    /\ BeginAppend(i, "decide")
    /\ UNCHANGED <<tables, work, file, rowLock, trail>>

(* resolvePeople: an exact match of a published address or work phone, at   *)
(* most two people looked at; an operator may have named the person.        *)
Matches(d) ==
    IF d.person # None THEN {d.person}
    ELSE IF d.type \in {"email", "phone"} /\ d.value \in DOMAIN Owners THEN Owners[d.value]
    ELSE {}

Entry(scope, key, by) ==
    [scope |-> scope, key |-> key, marked |-> FALSE, by |-> by]

(* What the transaction decides: entries, the complaint's columns, events.  *)
Decision(d) ==
    LET contact == IF d.type = "email" THEN {Entry("email", d.value, d.key)} ELSE {}
        people == Matches(d)
        received == <<"complaint.received", d.key>>
        added(set) == IF set = {} THEN <<>>
                      ELSE <<<<"suppression.added", CHOOSE e \in set : TRUE>>>>
    IN IF ~d.suppress
       THEN [entries |-> {}, events |-> <<received>>,
             row |-> Complaint("dismissed", "operator_recorded_without_suppression", None)]
       ELSE IF Cardinality(people) = 1
       THEN LET person == {Entry("person", CHOOSE p \in people : TRUE, d.key)} IN
            [entries |-> contact \cup person,
             events |-> <<received>> \o added(contact) \o added(person),
             row |-> Complaint("suppressed", None, CHOOSE e \in person : TRUE)]
       ELSE [entries |-> contact,
             events |-> <<received>> \o added(contact) \o <<<<"complaint.needs_review", d.key>>>>,
             row |-> Complaint("needs_review",
                               IF Cardinality(people) > 1 THEN "multiple_matching_people"
                               ELSE IF d.type \in {"email", "phone"} THEN "no_matching_person"
                               ELSE "unsupported_contact_type",
                               IF contact = {} THEN None ELSE CHOOSE e \in contact : TRUE)]

(* The commit, whose answer may be lost.                                    *)
Resolve(i) ==
    /\ At(i, "decide")
    /\ LET decision == Decision(task[i].on) IN
       /\ entries' = entries \cup decision.entries
       /\ complaints' = [complaints EXCEPT ![KeyOf(i)] = decision.row]
       /\ CommitAppend(i, decision.events)
       /\ task' = Answered(i, decision.row) \/ Goto(i, "caught")
    /\ rowLock' = [rowLock EXCEPT ![KeyOf(i)] = None]
    /\ UNCHANGED <<revoked, exporting>>

(* Nothing of the transaction stays; its locks and drawn number are gone.   *)
SlipUnlock(c) ==
    /\ auditLock' = IF auditLock = c THEN None ELSE auditLock
    /\ UNCHANGED rowLock
Unlock(c) ==
    /\ auditLock' = IF auditLock = c THEN None ELSE auditLock
    /\ rowLock' = [k \in Keys |-> IF rowLock[k] = c THEN None ELSE rowLock[k]]

ResolutionFails(i) ==
    /\ task[i].pc \in {"resolve", "received", "decide"}
    /\ Unlock(i)
    /\ Goto(i, "caught")
    /\ UNCHANGED <<tables, work, file, trail, nextSeq>>

(* The catch block: the update waits for the row and sees who resolved it.  *)
StillPending(complaint) == complaint.resolution = "pending"

MarkFailed(i) ==
    /\ At(i, "caught")
    /\ rowLock[KeyOf(i)] = None
    /\ LET key == KeyOf(i)
           failed == Complaint("needs_review", "suppression_failed", None)
       IN IF StillPending(complaints[key])
          THEN /\ complaints' = [complaints EXCEPT ![key] = failed]
               /\ task' = Answered(i, failed)
          ELSE /\ task' = Answered(i, complaints[key])
               /\ UNCHANGED complaints
    /\ UNCHANGED <<entries, revoked, rowLock, audit, exporting>>

----------------------------------------------------------------------------
(* Exports.                                                                 *)

Start(x) ==
    /\ At(x, "idle")
    /\ \E format \in Formats :
          work' = [work EXCEPT ![x] = [NewWork EXCEPT !.format = format, !.asOf = Active]]
    /\ exports' = [exports EXCEPT ![x].status = "building"]
    /\ Goto(x, "query")
    /\ UNCHANGED <<entries, revoked, complaints, file, rowLock, audit>>

(* The entries the query applies.  A stream evaluates them at the time of   *)
(* each page, a build at the time of the request.                           *)
Applied(x) == IF x \in Streams THEN Active ELSE Active \cap work[x].asOf

(* Only a stream passes includePhoneOnly by default, and only a stream      *)
(* pages, by the assignments' ids.                                          *)
Page(x) ==
    LET after == {row \in Rows : row.assignment > work[x].cursor}
        all == {row \in after : Exportable(Applied(x), row, Purpose, x \in Streams)}
        before(row) == {r \in all : r.assignment < row.assignment}
    IN {row \in all : x \in Streams => Cardinality(before(row)) < PageSize}

Query(x) ==
    /\ At(x, "query")
    /\ work' = [work EXCEPT ![x].page = {Selected(Applied(x), row) : row \in Page(x)},
                            ![x].queried = Applied(x)]
    /\ Goto(x, "write")
    /\ UNCHANGED <<tables, file, rowLock, audit>>

(* The addresses of a rendered row that a format publishes: all of it, or   *)
(* one line per address the file does not yet have.                         *)
SlipLineKey(format, row, email) == <<row.person, row.organization, email.address>>
LineKey(format, row, email) ==
    IF format = "contacts" THEN <<row.organization, email.address>>
    ELSE <<row.person, row.organization, email.address>>

OneLine(row, email) == [row EXCEPT !.emails = {email}, !.published = None,
                                   !.candidate = None, !.phones = {}]

(* The first place that has a key gets the line: rows are taken in order,   *)
(* and the emails of a row in theirs.  A build's order is taken to be a     *)
(* stream's.                                                                *)
Lines(format, rows, seenKeys) ==
    LET places == UNION {{<<row, m>> : m \in row.emails} : row \in rows}
        key(p) == LineKey(format, p[1], p[2])
        earlier(q, p) == \/ q[1].assignment < p[1].assignment
                         \/ q[1].assignment = p[1].assignment /\ q[2].id < p[2].id
        new == {p \in places : /\ key(p) \notin seenKeys
                               /\ ~\E q \in places : key(q) = key(p) /\ earlier(q, p)}
    IN IF format = "full" THEN [lines |-> rows, seenKeys |-> seenKeys]
       ELSE [lines |-> {OneLine(p[1], p[2]) : p \in new},
             seenKeys |-> seenKeys \cup {key(p) : p \in places}]

SlipConsulted(x) == work[x].queried
Consulted(x) == Active

(* The entries are read again, the rows rendered under them, and a stream's *)
(* chunk goes to the client.                                                *)
Write(x) ==
    /\ At(x, "write")
    /\ LET active == Consulted(x)
           w == work[x]
           rendered == Lines(w.format, Rendered(active, w.page, Purpose), w.seenKeys)
           line(row) == [row |-> row, queried |-> w.queried, checked |-> Active]
           more == x \in Streams /\ Cardinality(w.page) = PageSize
           last == CHOOSE n \in {row.assignment : row \in w.page} : \A row \in w.page : row.assignment <= n
       IN /\ file' = [file EXCEPT ![x] = @ \cup {line(row) : row \in rendered.lines}]
          /\ work' = [work EXCEPT ![x].seenKeys = rendered.seenKeys, ![x].page = {},
                                  ![x].queried = {},
                                  ![x].cursor = IF more THEN last ELSE @]
          /\ Goto(x, IF more THEN "query" ELSE "complete")
    /\ UNCHANGED <<tables, rowLock, audit>>

Complete(x) ==
    /\ At(x, "complete")
    /\ exports' = [exports EXCEPT ![x] = [status |-> "completed", count |-> Cardinality(file[x]), checked |-> TRUE]]
    /\ task' = [task EXCEPT ![x].pc = "append", ![x].event = <<"export.completed", x>>]
    /\ UNCHANGED <<entries, revoked, complaints, work, file, rowLock, audit>>

ExportFails(x) ==
    /\ task[x].pc \in {"query", "write", "complete", "append", "appended"}
    /\ task[x].event # <<"export.failed", x>>
    /\ Unlock(x)
    /\ Goto(x, "failing")
    /\ UNCHANGED <<tables, work, file, trail, nextSeq>>

Fail(x) ==
    /\ At(x, "failing")
    /\ exports' = [exports EXCEPT ![x].status = "failed"]
    /\ task' = IF x \in Builds
               THEN [task EXCEPT ![x].pc = "append", ![x].event = <<"export.failed", x>>]
               ELSE [task EXCEPT ![x].pc = "done"]
    /\ UNCHANGED <<entries, revoked, complaints, work, file, rowLock, audit>>

(* The event is committed.  A build hands its file over only now, and not   *)
(* when the answer was lost.                                                *)
Appending(c) ==
    /\ At(c, "appended")
    /\ CommitAppend(c, <<task[c].event>>)
    /\ UNCHANGED <<tables, file, rowLock>>

AppendDone(c) ==
    /\ Appending(c)
    /\ Goto(c, "done")
    /\ work' = IF task[c].event = <<"export.completed", c>>
               THEN [work EXCEPT ![c].released = TRUE] ELSE work

AppendAnswerLost(x) ==
    /\ x \in Exporters /\ task[x].event = <<"export.completed", x>>
    /\ Appending(x)
    /\ Goto(x, "failing")
    /\ UNCHANGED work

----------------------------------------------------------------------------
(* A client dies, or a statement outside any try block fails under it.      *)
Die(c) ==
    /\ task[c].pc \notin {"idle", "done", "dead"}
    /\ Unlock(c)
    /\ Goto(c, "dead")
    /\ UNCHANGED <<tables, work, file, trail, nextSeq>>

Step(c) ==
    \/ AppendAudit(c) \/ AppendDone(c)
    \/ c \in Operators /\ (RevokeAppend(c) \/ CommitRevoke(c))
    \/ c \in Intakes /\ (LookUp(c) \/ LockComplaint(c) \/ ReceivedAppend(c) \/ Resolve(c) \/ MarkFailed(c))
    \/ c \in Exporters /\ (Query(c) \/ Write(c) \/ Complete(c) \/ Fail(c))

Begin(c) ==
    \/ c \in Operators /\ (InsertEntry(c) \/ BeginRevoke(c))
    \/ c \in Intakes /\ Receive(c)
    \/ c \in Exporters /\ Start(c)

Trouble(c) ==
    \/ Die(c) \/ AppendAnswerLost(c)
    \/ c \in Intakes /\ ResolutionFails(c)
    \/ c \in Exporters /\ ExportFails(c)

Next == \E c \in Clients : Begin(c) \/ Step(c) \/ Trouble(c)

Spec == Init /\ [][Next]_vars

(* A client that is not dead goes on: its statements return or fail, and    *)
(* nobody holds a lock except inside a transaction.                         *)
FairSpec == Spec /\ \A c \in Clients : WF_vars(Step(c))
----------------------------------------------------------------------------
(* Properties.                                                              *)

Addresses(row) ==
    {m.address : m \in row.emails} \cup ({row.published, row.candidate} \ {None})

(* What an entry says, independently of both formulations: the person, the  *)
(* employer or a body above it, the place or an area around it, the         *)
(* document, the use, or an address of the line.                            *)
Concerns(e, row) ==
    \/ e.scope = "global"
    \/ e.scope = "person"               /\ e.key = row.person
    \/ e.scope = "organization"         /\ e.key = row.organization
    \/ e.scope = "organization_subtree" /\ e.key \in SelfAndAbove(Contains, row.organization)
    \/ e.scope = "jurisdiction"         /\ e.key = row.jurisdiction
    \/ e.scope = "government_level"     /\ e.key = row.level
    \/ e.scope = "geographic_area"      /\ row.area # None /\ e.key \in SelfAndAbove(AreaTree, row.area)
    \/ e.scope = "export_purpose"       /\ e.key = Purpose
    \/ e.scope = "source" /\ \/ e.key = row.source
                             \/ \E m \in row.emails \cup row.phones : m.source = e.key
    \/ e.scope = "email"  /\ e.key \in Addresses(row)
    \/ e.scope = "domain" /\ \E a \in Addresses(row) : e.key = DomainOf[a] \/ <<DomainOf[a], e.key>> \in Subdomain

WrittenLines == UNION {file[x] : x \in Exporters}

TypeOK ==
    /\ revoked \subseteq entries
    /\ \A k \in Keys :
          /\ complaints[k].resolution \in {"absent", "pending", "suppressed", "needs_review", "dismissed"}
          /\ complaints[k].entry \in entries \cup {None}
          /\ rowLock[k] \in Intakes \cup {None}
    /\ \A x \in Exporters : exports[x].status \in {"absent", "building", "completed", "failed"}
    /\ auditLock \in Clients \cup {None}
    /\ \A e \in trail : e.seq \in 1..(nextSeq - 1) /\ e.prev \in 0..(nextSeq - 1)

(* An opt-out that was on record when a page was rendered keeps its people  *)
(* out of it, whether it arrived before the query or between the query and  *)
(* the write, and by whatever entry: an operator's or a complaint's.  Three *)
(* kinds of entry count only when the query saw them (Recheckable): the     *)
(* re-check does not know the areas around a place (LateAreasCount), asks   *)
(* about the preferred address without the document that published it, and  *)
(* knows no more bodies above an employer than the query returned.          *)
Recheckable(e, row) ==
    /\ e.scope \notin {"geographic_area", "source"}
    /\ e.scope = "organization_subtree" =>
           e.key \in {row.organization} \cup Upwards(Contains, MaxDepth, row.organization)

OptOutsReachTheFile ==
    \A line \in WrittenLines : \A e \in line.checked :
        e \in line.queried \/ Recheckable(e, line.row) => ~Concerns(e, line.row)

(* "Every export re-checks immediately before writing, so an opt-out        *)
(* recorded a second earlier still takes effect", for the areas of which    *)
(* "a state-level entry also withholds duty locations in its counties"      *)
(* (docs/SECURITY.md).                                                      *)
LateAreasCount ==
    \A line \in WrittenLines : \A e \in line.checked :
        e.scope = "geographic_area" => ~Concerns(e, line.row)

(* "Repeated assignments do not repeat the same email within an             *)
(* organization, including across download chunks": the keys already seen   *)
(* travel from page to page.                                                *)
ContactsAppearOnce ==
    \A x \in Exporters : work[x].format = "contacts" =>
        \A a, b \in file[x] : a # b /\ a.row.organization = b.row.organization =>
            \A m \in a.row.emails, n \in b.row.emails : m.address # n.address

(* A delivery repeated, raced, failed half way or cut short by a crash      *)
(* leaves one complaint, its entries and its events from one transaction:   *)
(* all of them once it is resolved, none before; what was decided is not    *)
(* decided again by a late attempt or undone by a late failure.             *)
ComplaintSuppressesOnce ==
    \A k \in Keys :
        LET own == {e \in entries : e.by = k}
            events(action) == {e \in trail : e.action = action /\ e.subject = k}
            decided == ~Unresolved(complaints[k]) /\ complaints[k] # Absent
        IN /\ Cardinality(events("complaint.received")) = IF decided THEN 1 ELSE 0
           /\ Cardinality({e \in own : e.scope = "person"}) =
                  IF complaints[k].resolution = "suppressed" THEN 1 ELSE 0
           /\ own # {} => decided /\ complaints[k].entry \in own

(* The chain verifies: read by their numbers, every event names the one     *)
(* before it.  Appends of several transactions, of the revocation trigger   *)
(* and of aborted transactions meet here.                                   *)
ChainVerifies ==
    /\ \A e, f \in trail : e.seq = f.seq => e = f
    /\ \A e \in trail : LET before == {f \in trail : f.seq < e.seq} IN
          IF before = {} THEN e.prev = 0 ELSE \E f \in before : f.seq = e.prev /\ \A g \in before : g.seq <= f.seq

(* The trail tells of what happened: one event per revocation, none without *)
(* it, and a completed export is on it with what its file holds, a build    *)
(* being handed over only then.                                             *)
TrailTellsTheTruth ==
    /\ \A e \in entries : Cardinality({t \in trail : t.action = "suppression.revoked" /\ t.subject = e}) =
                            IF e \in revoked THEN 1 ELSE 0
    /\ \A t \in trail : t.action = "suppression.added" => t.subject \in entries
    /\ \A t \in trail : t.action = "export.completed" =>
          exports[t.subject].checked /\ exports[t.subject].count = Cardinality(file[t.subject])
    /\ \A x \in Builds : work[x].released =>
          exports[x].status = "completed" /\ \E t \in trail : t.action = "export.completed" /\ t.subject = x

(* Row locks, the audit lock and the locks a trigger takes under an update  *)
(* never make clients wait for each other for ever.                         *)
WorkEnds == \A c \in Clients : ~At(c, "idle") ~> task[c].pc \in {"done", "dead"}

============================================================================
