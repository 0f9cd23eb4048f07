----------------------------- MODULE Ingestion -----------------------------
(* How a page's people get into the database, and what proves them.         *)
(*                                                                          *)
(* Workers run ingestRun over a page each.  No transaction spans a page or  *)
(* even a person: every statement commits on its own, and another worker,   *)
(* a failure or a death may come between any two.  A page is then ingested  *)
(* again, by the next attempt or by a later collection.                     *)
EXTENDS Absence, Naturals, FiniteSets, Sequences

CONSTANTS
    Pages,          \* what urls may answer: [url, content, records]
    Organizations, OrganizationName,   \* [organization -> the name its records are matched by]
    Home,           \* the organization a job was claimed for
    Identity,       \* [published name -> what personIdentityKey keeps of it]
    Length,         \* [published name -> its length]
    Normalized,     \* [published title, department or phone -> its normal form, or None]
    Workers,
    Fetches         \* bound: pages fetched in all

ASSUME FetchAssumption == Fetches \in Nat
(* What an adapter returns for a page: its records, each with every field.  *)
Fields == {"name", "title", "department", "organization", "phone"}
ASSUME PageAssumption ==
    \A p \in Pages :
        /\ p.records \in Seq({p.records[n] : n \in DOMAIN p.records})
        /\ \A n \in DOMAIN p.records :
              LET rec == p.records[n] IN
              /\ DOMAIN rec = Fields \cup {"key", "label", "private", "emails"}
              /\ rec.private \subseteq Fields
              /\ rec.emails \in Seq({rec.emails[i] : i \in DOMAIN rec.emails})

ASSUME HomeAssumption == Home \in Organizations /\ None \notin Organizations

VARIABLES
    links,         \* crawl_target_organizations of the crawled target
    documents, versions,             \* source_documents, source_document_versions
    units, people, assignments,      \* organizational_units, people, employment_assignments
    emails, contacts, observations,  \* email_addresses, contact_points, source_observations
    exec,          \* [worker -> where its ingestRun stands]
    now,           \* time, which passes from fetch to fetch
    ingested       \* history: records taken in to the end, and pages

evidence == <<documents, versions, observations>>
roster == <<units, people, assignments, emails, contacts>>
vars == <<links, evidence, roster, exec, now, ingested>>

----------------------------------------------------------------------------
(* A record as an adapter read it: [key, name, title, department,           *)
(* organization, phone, label, private, emails].  label says that the name  *)
(* is made of organization words, private names the fields the data         *)
(* boundary catches.                                                        *)
Safe(rec) == [f \in DOMAIN rec |-> IF f \in rec.private THEN None ELSE rec[f]]

(* classifyEmail.  An address: [address, personal, valid, plain, inbox,     *)
(* named]; one that looks like a shared inbox is the person's own when it   *)
(* carries the name, which an organization's label is not.                  *)
Classification(rec, m) ==
    IF ~m.valid THEN "invalid"
    ELSE IF m.inbox /\ (rec.label \/ ~m.named) THEN "general_inbox"
    ELSE IF m.plain THEN "published" ELSE "decoded_published"

(* The addresses that are not a person's own, in their order.               *)
Kept(rec) ==
    LET own == {i \in DOMAIN rec.emails : ~rec.emails[i].personal}
    IN [n \in 1..Cardinality(own) |->
           rec.emails[CHOOSE i \in own : Cardinality({j \in own : j <= i}) = n]]

(* What is observed of a record: one row per published field, and per       *)
(* address that was kept.                                                   *)
Observed(rec) ==
    LET field(class, name, value, normal) ==
            IF value = None THEN <<>>
            ELSE <<[class |-> class, field |-> name, raw |-> value, normal |-> normal]>>
        kept == Kept(rec)
    IN field("employment", "full_name_published", rec.name, rec.name)
       \o field("employment", "title_published", rec.title, Normalized[rec.title])
       \o field("employment", "department_published", rec.department, Normalized[rec.department])
       \o field("organization", "organization_published", rec.organization, rec.organization)
       \o field("contact", "phone_published", rec.phone, Normalized[rec.phone])
       \o [i \in DOMAIN kept |-> [class |-> "contact", field |-> kept[i].address,
                                  raw |-> kept[i].address, normal |-> kept[i].address]]

(* The organization of a record: the job's, unless several share the site;  *)
(* then the one whose name it publishes, or none.                           *)
Context(scope, rec) ==
    LET matched == {o \in scope : OrganizationName[o] = rec.organization} IN
    IF Cardinality(scope) <= 1 THEN Home
    ELSE IF Cardinality(matched) = 1 THEN CHOOSE o \in matched : TRUE ELSE None

----------------------------------------------------------------------------
(* insert ... on conflict (key) do update.                                  *)
Upsert(rows, key(_), new, merged(_)) ==
    LET old == {r \in rows : key(r) = key(new)} IN
    IF old = {} THEN rows \cup {new} ELSE (rows \ old) \cup {merged(r) : r \in old}
Stored(rows, key(_), new) == CHOOSE r \in rows : key(r) = key(new)

SlipWidened(old, at) == [old EXCEPT !.last = at]
Widened(old, at) ==
    [old EXCEPT !.first = IF at < @ THEN at ELSE @, !.last = IF at > @ THEN at ELSE @]
SeenLast(old, at) == [old EXCEPT !.last = IF at > @ THEN at ELSE @]

Idle == [pc |-> "idle", page |-> None, at |-> 0, scope |-> {}, n |-> 1, version |-> 0, next |-> 0,
         organization |-> None, unit |-> None, person |-> None, assignment |-> None, i |-> 1]

Init ==
    /\ links = {Home}
    /\ documents = {} /\ versions = {} /\ units = {} /\ people = {} /\ assignments = {}
    /\ emails = {} /\ contacts = {} /\ observations = {}
    /\ exec = [w \in Workers |-> Idle]
    /\ now = 0
    /\ ingested = [records |-> {}, pages |-> {}]

At(w, pc) == exec[w].pc = pc
Page(w) == exec[w].page
Record(w) == Safe(Page(w).records[exec[w].n])

(* The document row is the url's; its versions are what it said.            *)
VersionsOf(url) == {v \in versions : v.url = url}

(* A record that is not ingested is passed over; the next one begins with   *)
(* the lease.                                                               *)
PassOver(e) == [e EXCEPT !.pc = "renew", !.n = @ + 1]
Enter(e, rec) ==
    IF e.organization = None \/ rec.name = None THEN PassOver(e)
    ELSE [e EXCEPT !.pc = IF rec.department = None THEN "person" ELSE "unit",
                   !.unit = None, !.i = 1]

(* A worker has fetched a page.  The organizations of the target were read  *)
(* before; a page without records is recorded as a document.                *)
Fetch(w) ==
    /\ exec[w].pc \in {"idle", "conflict"}
    /\ now < Fetches
    /\ \E p \in Pages :
          exec' = [exec EXCEPT ![w] = [Idle EXCEPT !.pc = IF p.records = <<>> THEN "document" ELSE "renew",
                                                   !.page = p, !.at = now + 1, !.scope = links]]
    /\ now' = now + 1
    /\ UNCHANGED <<links, evidence, roster, ingested>>

(* assertActive and resolveContext before every record.  The context is     *)
(* that of the record as it was read, before the data boundary.  An         *)
(* unmatched record leaves its document only.                               *)
Renew(w) ==
    /\ At(w, "renew")
    /\ exec[w].n <= Len(Page(w).records)
    /\ LET e == [exec[w] EXCEPT !.organization = Context(exec[w].scope, Page(w).records[exec[w].n])] IN
       exec' = [exec EXCEPT ![w] = IF e.version = 0 THEN [e EXCEPT !.pc = "document"]
                                   ELSE Enter(e, Record(w))]
    /\ UNCHANGED <<links, evidence, roster, now, ingested>>

(* The document is touched; then the insert of its version begins.  It       *)
(* computes max(version) + 1 over what it sees when it starts, and others   *)
(* commit before it ends.                                                   *)
RecordDocument(w) ==
    /\ At(w, "document")
    /\ LET key(d) == d.url
           new == [url |-> Page(w).url, first |-> exec[w].at, last |-> exec[w].at]
           merged(d) == SeenLast(d, exec[w].at)
       IN documents' = Upsert(documents, key, new, merged)
    /\ exec' = [exec EXCEPT ![w].pc = "version",
                            ![w].next = Cardinality(VersionsOf(Page(w).url)) + 1]
    /\ UNCHANGED <<links, versions, observations, roster, now, ingested>>

SlipNumberTaken(url, number) == FALSE
NumberTaken(url, number) == \E v \in versions : v.url = url /\ v.number = number

RecordVersion(w) ==
    /\ At(w, "version")
    /\ LET page == Page(w)
           e == exec[w]
           key(v) == <<v.url, v.content>>
           new == [url |-> page.url, content |-> page.content, number |-> e.next,
                   first |-> e.at, last |-> e.at]
           known == \E v \in versions : key(v) = key(new)
           merged(v) == SeenLast(v, e.at)
           got == [e EXCEPT !.version = Stored(versions', key, new).number]
       IN IF ~known /\ NumberTaken(page.url, e.next)
          THEN exec' = [exec EXCEPT ![w] = Idle] /\ UNCHANGED versions
          ELSE /\ versions' = Upsert(versions, key, new, merged)
               /\ exec' = [exec EXCEPT ![w] = IF page.records = <<>> THEN [got EXCEPT !.pc = "renew"]
                                              ELSE Enter(got, Record(w))]
    /\ UNCHANGED <<links, documents, observations, roster, now, ingested>>

UpsertUnit(w) ==
    /\ At(w, "unit")
    /\ LET key(u) == <<u.organization, u.name>>
           new == [id |-> Cardinality(units) + 1, organization |-> exec[w].organization,
                   name |-> Normalized[Record(w).department],
                   first |-> exec[w].at, last |-> exec[w].at]
           merged(u) == SeenLast(u, exec[w].at)
       IN /\ units' = Upsert(units, key, new, merged)
          /\ exec' = [exec EXCEPT ![w].pc = "person", ![w].unit = Stored(units', key, new).id]
    /\ UNCHANGED <<links, evidence, people, assignments, emails, contacts, now, ingested>>

UpsertPerson(w) ==
    /\ At(w, "person")
    /\ LET key(p) == <<p.organization, p.identity>>
           new == [id |-> Cardinality(people) + 1, organization |-> exec[w].organization,
                   identity |-> Identity[Record(w).name], name |-> Record(w).name,
                   first |-> exec[w].at, last |-> exec[w].at]
           merged(p) == [Widened(p, exec[w].at) EXCEPT !.name = IF Length[new.name] > Length[@] THEN new.name ELSE @]
       IN /\ people' = Upsert(people, key, new, merged)
          /\ exec' = [exec EXCEPT ![w].pc = "assignment", ![w].person = Stored(people', key, new).id]
    /\ UNCHANGED <<links, evidence, units, assignments, emails, contacts, now, ingested>>

(* The key has NULLS NOT DISTINCT: no unit and no title are equal to none.  *)
SlipAssignmentKey(a) == IF None \in {a.unit, a.title} THEN <<a.id>> ELSE <<a.person, a.organization, a.unit, a.title>>
AssignmentKey(a) == <<a.person, a.organization, a.unit, a.title>>

UpsertAssignment(w) ==
    /\ At(w, "assignment")
    /\ LET e == exec[w]
           new == [id |-> Cardinality(assignments) + 1, person |-> e.person, organization |-> e.organization,
                   unit |-> e.unit, title |-> Normalized[Record(w).title], published |-> Record(w).title,
                   first |-> e.at, last |-> e.at]
           merged(a) == [Widened(a, e.at) EXCEPT !.published = IF new.published = None THEN @ ELSE new.published]
       IN /\ assignments' = Upsert(assignments, AssignmentKey, new, merged)
          /\ exec' = [exec EXCEPT ![w].pc = "email", ![w].i = 1,
                                  ![w].assignment = Stored(assignments', AssignmentKey, new).id]
    /\ UNCHANGED <<links, evidence, units, people, emails, contacts, now, ingested>>

(* Plain publication replaces what is stored; nothing replaces it.          *)
SlipReplaced(stored, incoming) == incoming
Replaced(stored, incoming) == IF incoming = "published" THEN incoming ELSE stored

UpsertEmail(w) ==
    /\ At(w, "email") /\ exec[w].i <= Len(Kept(Record(w)))
    /\ LET e == exec[w]
           m == Kept(Record(w))[e.i]
           key(r) == <<r.person, r.organization, r.address>>
           new == [person |-> e.person, organization |-> e.organization, address |-> m.address,
                   assignment |-> e.assignment, class |-> Classification(Record(w), m),
                   first |-> e.at, last |-> e.at]
           merged(r) == [Widened(r, e.at) EXCEPT !.class = Replaced(@, new.class),
                                                 !.assignment = e.assignment]
       IN emails' = Upsert(emails, key, new, merged)
    /\ exec' = [exec EXCEPT ![w].i = @ + 1]
    /\ UNCHANGED <<links, evidence, units, people, assignments, contacts, now, ingested>>

(* A published phone that does not normalize is observed and no contact.    *)
Number(rec) == IF rec.phone = None THEN None ELSE Normalized[rec.phone]

UpsertContact(w) ==
    /\ At(w, "email") /\ exec[w].i > Len(Kept(Record(w)))
    /\ LET e == exec[w]
           key(r) == <<r.person, r.organization, r.number>>
           new == [person |-> e.person, organization |-> e.organization,
                   number |-> Number(Record(w)), first |-> e.at, last |-> e.at]
           merged(r) == SeenLast(r, e.at)
       IN contacts' = IF new.number = None THEN contacts ELSE Upsert(contacts, key, new, merged)
    /\ exec' = [exec EXCEPT ![w].pc = "observe", ![w].i = 1]
    /\ UNCHANGED <<links, evidence, units, people, assignments, emails, now, ingested>>

(* insert ... on conflict do nothing: a row that is there must say the      *)
(* same, of the same person, or the statement is an error.                  *)
SlipSameObservation(old, new) == TRUE
SameObservation(old, new) == old = new

Observe(w) ==
    /\ At(w, "observe") /\ exec[w].i <= Len(Observed(Record(w)))
    /\ LET e == exec[w]
           o == Observed(Record(w))[e.i]
           key(r) == <<r.url, r.version, r.key, r.field>>
           new == [url |-> Page(w).url, version |-> e.version, key |-> Record(w).key, field |-> o.field,
                   class |-> o.class, person |-> e.person, raw |-> o.raw, normal |-> o.normal]
           old == {r \in observations : key(r) = key(new)}
       IN IF \A r \in old : SameObservation(r, new)
          THEN /\ observations' = IF old = {} THEN observations \cup {new} ELSE observations
               /\ exec' = [exec EXCEPT ![w].i = @ + 1]
          ELSE exec' = [exec EXCEPT ![w] = [Idle EXCEPT !.pc = "conflict"]] /\ UNCHANGED observations
    /\ UNCHANGED <<links, documents, versions, roster, now, ingested>>

NextRecord(w) ==
    /\ At(w, "observe") /\ exec[w].i > Len(Observed(Record(w)))
    /\ ingested' = [ingested EXCEPT !.records = @ \cup
                       {[page |-> Page(w), n |-> exec[w].n, version |-> exec[w].version, at |-> exec[w].at,
                         person |-> exec[w].person, assignment |-> exec[w].assignment]}]
    /\ exec' = [exec EXCEPT ![w] = PassOver(exec[w])]
    /\ UNCHANGED <<links, evidence, roster, now>>

Finish(w) ==
    /\ At(w, "renew")
    /\ exec[w].n > Len(Page(w).records)
    /\ ingested' = [ingested EXCEPT !.pages = @ \cup {<<Page(w), exec[w].scope>>}]
    /\ exec' = [exec EXCEPT ![w] = Idle]
    /\ UNCHANGED <<links, evidence, roster, now>>

(* A statement fails, the lease is lost, or the worker dies.                *)
Fail(w) ==
    /\ exec[w].pc \notin {"idle", "conflict"}
    /\ exec' = [exec EXCEPT ![w] = Idle]
    /\ UNCHANGED <<links, evidence, roster, now, ingested>>

(* recordTarget links the target to another organization.                   *)
LinkOrganization ==
    /\ \E o \in Organizations \ links : links' = links \cup {o}
    /\ UNCHANGED <<evidence, roster, exec, now, ingested>>

Write(w) ==
    \/ Renew(w) \/ RecordDocument(w) \/ RecordVersion(w) \/ UpsertUnit(w)
    \/ UpsertPerson(w) \/ UpsertAssignment(w) \/ UpsertEmail(w) \/ UpsertContact(w) \/ Observe(w)
    \/ NextRecord(w) \/ Finish(w)

Next == LinkOrganization \/ \E w \in Workers : Fetch(w) \/ Write(w) \/ Fail(w)

Spec == Init /\ [][Next]_vars
----------------------------------------------------------------------------
(* Properties.                                                              *)

Rows == [d |-> Cardinality(documents), v |-> Cardinality(versions), u |-> Cardinality(units),
         p |-> Cardinality(people), a |-> Cardinality(assignments), e |-> Cardinality(emails),
         c |-> Cardinality(contacts), o |-> Cardinality(observations)]

(* "running the same collection twice converges on the same rows instead of *)
(* accumulating duplicates": once a page was ingested to its end, no        *)
(* attempt at the same page for the same organizations adds a row, whether  *)
(* it runs afterwards or was under way, and whatever pages, versions and    *)
(* failed attempts came between.                                            *)
ReplayAddsNothing ==
    [][\A w \in Workers :
          /\ <<exec[w].page, exec[w].scope>> \in ingested.pages
          /\ exec'[w].at = exec[w].at /\ exec'[w] # exec[w]
          => Rows' = Rows]_vars

(* A record that was taken in stays proved: every field it published, and   *)
(* every address kept of it, has its observation in the very version that   *)
(* has this content, about the person who holds the address, whoever else   *)
(* ingested the page or a person of the same name.                          *)
EvidenceStands ==
    \A d \in ingested.records :
        LET rec == Safe(d.page.records[d.n]) IN
        /\ \E v \in versions : v.url = d.page.url /\ v.number = d.version /\ v.content = d.page.content
        /\ \A i \in DOMAIN Observed(rec) :
              \E o \in observations :
                 /\ o.url = d.page.url /\ o.version = d.version /\ o.key = rec.key
                 /\ o.person = d.person /\ o.field = Observed(rec)[i].field /\ o.raw = Observed(rec)[i].raw
        /\ \A i \in DOMAIN Kept(rec) :
              \E m \in emails : m.person = d.person /\ m.address = Kept(rec)[i].address
        /\ \E a \in assignments : a.id = d.assignment /\ a.person = d.person

(* Versions of a document are numbered from one without a gap or a double,  *)
(* each with a content of its own, although two workers may compute the     *)
(* same number.                                                             *)
VersionsNumbered ==
    \A d \in documents :
        LET own == VersionsOf(d.url) IN
        /\ {v.number : v \in own} = 1..Cardinality(own)
        /\ Cardinality({v.content : v \in own}) = Cardinality(own)

(* "`first_seen_at` only moves earlier and `last_seen_at` only moves later":*)
(* the window of a person, an assignment and an address covers every fetch  *)
(* it was ingested from, in whatever order the fetches were written.  Of a  *)
(* document, a version, a unit and a contact point this is so at the late   *)
(* end only: their upserts leave first_seen_at at the fetch that was        *)
(* written first, which need not be the earliest.                           *)
WindowsCover ==
    \A d \in ingested.records :
        LET rec == Safe(d.page.records[d.n])
            covers(r) == r.first <= d.at /\ d.at <= r.last
            reaches(r) == d.at <= r.last
            own == {a \in assignments : a.id = d.assignment}
        IN /\ \A p \in people : p.id = d.person => covers(p)
           /\ \A a \in own : covers(a)
           /\ \A m \in emails : m.person = d.person /\ (\E i \in DOMAIN Kept(rec) : Kept(rec)[i].address = m.address)
                                => covers(m)
           /\ \A x \in documents : x.url = d.page.url => reaches(x)
           /\ \A v \in versions : v.url = d.page.url /\ v.number = d.version => reaches(v)
           /\ \A a \in own, u \in units :
                 rec.department # None /\ u.organization = a.organization /\ u.name = Normalized[rec.department]
                 => reaches(u)
           /\ \A a \in own, c \in contacts :
                 Number(rec) # None /\ <<c.person, c.organization, c.number>> = <<d.person, a.organization, Number(rec)>>
                 => reaches(c)

(* "The email insert never downgrades a stored classification": an address  *)
(* that was published in plain text stays so, and neither evidence nor an   *)
(* address is ever taken back.                                              *)
PublishedStays ==
    [][/\ \A m \in emails : \E n \in emails' :
             /\ <<n.person, n.organization, n.address>> = <<m.person, m.organization, m.address>>
             /\ n.class \in {m.class, "published"}
       /\ observations \subseteq observations'
       /\ \A v \in versions : \E u \in versions' :
             [u EXCEPT !.last = 0] = [v EXCEPT !.last = 0] /\ u.last >= v.last]_vars
============================================================================
