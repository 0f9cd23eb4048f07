------------------------ MODULE OrganizationIdentity ------------------------
(* Which organization a source record is about, and which organization is   *)
(* part of which.                                                           *)
(*                                                                          *)
(* An upsert runs in one READ COMMITTED transaction: it takes an advisory   *)
(* lock for every fingerprint the record could resolve by, looks for owners *)
(* of its evidence, then inserts or refreshes.  Others commit between the   *)
(* look and the write, the bulk import of the spine among them, which takes *)
(* another lock.  The writes of a transaction are one step, its commit.     *)
(*                                                                          *)
(* Operators named Slip... are plausible bugs that the properties catch.    *)
EXTENDS Absence, Naturals, FiniteSets, Sequences

CONSTANTS
    Records,    \* source records: see Fingerprint
    Edges,      \* relationships sources publish: [parent, child, subtree, from, to]
    Existing,   \* what earlier imports may have left: sequences of rows with official identifiers
    Writers,
    Upserts,    \* bound: organization upserts in all
    Relations,  \* bound: relationship upserts in all
    Forever     \* a date after every other: effective_to is null

ASSUME BoundAssumption == Upserts \in Nat /\ Relations \in Nat /\ Forever \in Nat
ASSUME RecordAssumption ==
    \A rec \in Records :
        DOMAIN rec = {"identifier", "source", "parent", "domain", "jurisdiction", "name",
                      "class", "level", "document", "website", "at"}
ASSUME EdgeAssumption ==
    \A e \in Edges :
        /\ DOMAIN e = {"parent", "child", "subtree", "from", "to"}
        /\ e.from \in Nat /\ e.to \in Nat

(* An organization the bulk import made has the fingerprint of its first    *)
(* official identifier; the unique index keeps them apart.                  *)
RowFields == {"fingerprint", "review", "class", "level", "jurisdiction", "name", "website", "seen"}
ASSUME ExistingAssumption ==
    \A table \in Existing :
        /\ table \in Seq({table[o] : o \in DOMAIN table})
        /\ \A o \in DOMAIN table :
              /\ DOMAIN table[o] = RowFields
              /\ table[o].fingerprint = <<"oid", table[o].fingerprint[2]>>
              /\ \A p \in DOMAIN table : table[p].fingerprint = table[o].fingerprint => p = o

VARIABLES
    organizations,  \* sequence of rows; an organization is its index
    identifiers,    \* external_identifiers: [key, owner]
    evidence,       \* organization_identity_evidence that resolution reads: [key, owner]
    relationships,  \* organization_relationships
    exec,           \* [writer -> its open transaction]
    count           \* calls so far

identityVars == <<organizations, identifiers, evidence, relationships, exec, count>>

----------------------------------------------------------------------------
(* A record: [identifier, source, parent, domain, jurisdiction, name,       *)
(* class, level, document, website, at]; identifier and source are          *)
(* <<system, value>>, with the issuing state part of the system and a third *)
(* component where the value is spelled in another way (case, spaces);      *)
(* class stands for type and sector, names and domains are normalized.      *)

(* resolveIdentity: the strongest tier the record has evidence for.         *)
Fingerprint(rec) ==
    IF rec.identifier # None THEN <<"oid", rec.identifier>>
    ELSE IF rec.source # None THEN <<"sid", rec.source>>
    ELSE IF rec.parent # None
         THEN <<"psn", <<rec.jurisdiction, rec.parent, rec.class, rec.name>>>>
    ELSE IF rec.domain # None /\ rec.jurisdiction # None
         THEN <<"dsn", <<rec.jurisdiction, rec.domain, rec.class, rec.name>>>>
    ELSE <<"amb", <<rec.document, rec.class, rec.name>>>>

Tiers == <<"amb", "dsn", "psn", "sid", "oid">>
Rank(fingerprint) == CHOOSE i \in DOMAIN Tiers : Tiers[i] = fingerprint[1]
NeedsReview(fingerprint) == fingerprint[1] = "amb"

Candidates(rec) ==
    {Fingerprint(rec), Fingerprint([rec EXCEPT !.identifier = None])}
    \cup IF rec.source = None THEN {}
         ELSE {Fingerprint([rec EXCEPT !.identifier = None, !.source = None])}

Stronger(stored, incoming) == IF Rank(incoming) > Rank(stored) THEN incoming ELSE stored

----------------------------------------------------------------------------
(* Owners, as committed.  Identifiers and fingerprints are compared as they *)
(* are spelled, recorded evidence is compared after its normalization.      *)

Normalized(key) ==
    IF key[1] \in {"oid", "sid", "source"} THEN <<key[1], key[2][1], key[2][2]>> ELSE key

IdentifierOwner(key) == {i.owner : i \in {j \in identifiers : j.key = key}}
EvidenceOwner(key) == {e.owner : e \in {f \in evidence : Normalized(f.key) = Normalized(key)}}
FingerprintOwner(fingerprint) ==
    {o \in DOMAIN organizations : organizations[o].fingerprint = fingerprint}

Owners(rec) ==
    (IF rec.identifier = None THEN {} ELSE IdentifierOwner(rec.identifier))
    \cup (IF rec.source = None THEN {} ELSE EvidenceOwner(<<"source", rec.source>>))
    \cup UNION {FingerprintOwner(f) \cup EvidenceOwner(f) : f \in Candidates(rec)}

----------------------------------------------------------------------------
Free == [pc |-> "free"]

IdentityInit ==
    /\ organizations \in Existing
    /\ identifiers = {[key |-> organizations[o].fingerprint[2], owner |-> o] : o \in DOMAIN organizations}
    /\ evidence = {} /\ relationships = {}
    /\ exec = [w \in Writers |-> Free]
    /\ count = [upserts |-> 0, relations |-> 0]

(* The advisory locks of an upsert, one for each fingerprint as spelled; a  *)
(* transaction takes them in one order.                                     *)
SlipLockSet(rec) == {Fingerprint(rec)}
LockSet(rec) == Candidates(rec)
Held(w) == IF exec[w].pc \in {"begun", "resolved"} THEN LockSet(exec[w].rec) ELSE {}

BeginUpsert(w, rec) ==
    /\ exec[w] = Free /\ count.upserts < Upserts
    /\ \A v \in Writers \ {w} : LockSet(rec) \cap Held(v) = {}
    /\ exec' = [exec EXCEPT ![w] = [pc |-> "begun", rec |-> rec]]
    /\ count' = [count EXCEPT !.upserts = @ + 1]
    /\ UNCHANGED <<organizations, identifiers, evidence, relationships>>

(* More than one owner is a conflict and ends the call.  The row of the     *)
(* owner is read without a lock on it.                                      *)
Resolve(w) ==
    /\ exec[w].pc = "begun"
    /\ LET owners == Owners(exec[w].rec) IN
       exec' = [exec EXCEPT ![w] =
          IF Cardinality(owners) > 1 THEN Free
          ELSE [pc |-> "resolved", rec |-> @.rec, owners |-> owners,
                stored |-> {organizations[o].fingerprint : o \in owners}]]
    /\ UNCHANGED <<organizations, identifiers, evidence, relationships, count>>

Inserted(rec) ==
    [fingerprint |-> Fingerprint(rec), review |-> NeedsReview(Fingerprint(rec)), class |-> rec.class, level |-> rec.level,
     jurisdiction |-> rec.jurisdiction, name |-> rec.name, website |-> rec.website, seen |-> rec.at]

(* A record of no weaker evidence than the stored one brings its values, a  *)
(* name only when it is not older.  Which is weaker, and the identity that  *)
(* is written, follow from the fingerprint as it was read.                  *)
Coalesced(value, otherwise) == IF value = None THEN otherwise ELSE value
Refreshed(row, stored, rec) ==
    LET identity == Stronger(stored, Fingerprint(rec))
        values == IF Rank(Fingerprint(rec)) < Rank(stored) THEN row
                  ELSE [row EXCEPT !.class = rec.class, !.level = rec.level,
                                   !.jurisdiction = Coalesced(rec.jurisdiction, @),
                                   !.website = Coalesced(rec.website, @),
                                   !.name = IF rec.at >= row.seen THEN rec.name ELSE @]
    IN [values EXCEPT !.seen = IF rec.at > @ THEN rec.at ELSE @,
                      !.fingerprint = identity, !.review = NeedsReview(identity)]

Recorded(rec, o) ==
    LET keys == Candidates(rec) \cup IF rec.source = None THEN {} ELSE {<<"source", rec.source>>}
    IN {[key |-> k, owner |-> o] : k \in keys}

(* The unique indexes: a fingerprint names one organization, an identifier  *)
(* one owner; an organization has one identifier of a system.               *)
FingerprintTaken(fingerprint, o) == FingerprintOwner(fingerprint) \ {o} # {}
IdentifierRefused(rec, o) ==
    /\ rec.identifier # None
    /\ \/ \E i \in identifiers : i.owner = o /\ i.key[1] = rec.identifier[1] /\ i.key # rec.identifier
       \/ IdentifierOwner(rec.identifier) \ {o} # {}

Upserted(rec, o, row, kept) ==
    /\ ~FingerprintTaken(row.fingerprint, o) /\ ~IdentifierRefused(rec, o)
    /\ organizations' = IF o > Len(organizations) THEN Append(organizations, row)
                        ELSE [organizations EXCEPT ![o] = row]
    /\ identifiers' = identifiers \cup
          (IF rec.identifier = None THEN {} ELSE {[key |-> rec.identifier, owner |-> o]})
    /\ evidence' = evidence \cup Recorded(rec, o) \cup kept

(* A reviewer of a website (OrganizationSpine) holds the row of its         *)
(* organization: whoever updates it or locks it waits.                      *)
SlipRowFree(o) == TRUE
RowFree(o) == \A w \in Writers : exec[w].pc = "verifying" => exec[w].candidate.organization # o

CommitUpsert(w) ==
    /\ exec[w].pc = "resolved"
    /\ LET rec == exec[w].rec IN
       IF exec[w].owners = {} THEN Upserted(rec, Len(organizations) + 1, Inserted(rec), {})
       ELSE \E o \in exec[w].owners, stored \in exec[w].stored :
               /\ RowFree(o)
               /\ Upserted(rec, o, Refreshed(organizations[o], stored, rec), {[key |-> stored, owner |-> o]})
    /\ exec' = [exec EXCEPT ![w] = Free]
    /\ UNCHANGED <<relationships, count>>

(* A conflict, a broken connection or a death takes everything back.        *)
Rollback(w) ==
    /\ exec[w] # Free
    /\ exec' = [exec EXCEPT ![w] = Free]
    /\ UNCHANGED <<organizations, identifiers, evidence, relationships, count>>

----------------------------------------------------------------------------
(* Relationships.  Windows include both their ends.                         *)

Overlap(e, w) ==
    [from |-> IF e.from > w.from THEN e.from ELSE w.from, to |-> IF e.to < w.to THEN e.to ELSE w.to]
Nonempty(w) == w.from <= w.to

(* organization_relationships_reject_cycle: the paths down from the child   *)
(* while the windows along them still have a day in common with the edge,   *)
(* as pairs of an organization and the common window.                       *)
Paths(rels, edge) ==
    LET contained == {r \in rels : r.subtree}
        below(n) == {[at |-> r.child, window |-> Overlap(r, n.window)] :
                        r \in {s \in contained : s.parent = n.at /\ Nonempty(Overlap(s, n.window))}}
        step[i \in 0..Cardinality(rels)] ==
            IF i = 0 THEN {[at |-> edge.child, window |-> [from |-> edge.from, to |-> edge.to]]}
            ELSE step[i - 1] \cup UNION {below(n) : n \in step[i - 1]}
    IN step[Cardinality(rels)]
ClosesCycle(rels, edge) ==
    edge.subtree /\ \E n \in Paths(rels, edge) : n.at = edge.parent

SameEdge(r, e) ==
    r.parent = e.parent /\ r.child = e.child /\ r.subtree = e.subtree /\ r.from = e.from
Others(rels, e) == {r \in rels : ~SameEdge(r, e)}

(* on conflict do update: an open end may be closed, a closed one stays.    *)
Merged(rels, e) ==
    LET old == rels \ Others(rels, e) IN
    IF old = {} THEN e
    ELSE [e EXCEPT !.to = IF \E r \in old : r.to # Forever THEN (CHOOSE r \in old : TRUE).to ELSE @]

(* The trigger fires for the row as inserted and, when its key exists, for  *)
(* the row as updated.                                                      *)
Refused(rels, e) ==
    \/ e.parent = e.child \/ e.to < e.from
    \/ ClosesCycle(rels, e)
    \/ Others(rels, e) # rels /\ ClosesCycle(Others(rels, e), Merged(rels, e))

(* Writers of relationships exclude one another by one advisory lock, which *)
(* upsertRelationship and the trigger take.                                 *)
SlipRelationLockFree == TRUE
RelationLockFree == \A v \in Writers : exec[v].pc # "relating"

BeginRelationship(w, e) ==
    /\ exec[w] = Free /\ count.relations < Relations
    /\ {e.parent, e.child} \subseteq DOMAIN organizations
    /\ RelationLockFree
    /\ exec' = [exec EXCEPT ![w] = IF Refused(relationships, e) THEN Free ELSE [pc |-> "relating", edge |-> e]]
    /\ count' = [count EXCEPT !.relations = @ + 1]
    /\ UNCHANGED <<organizations, identifiers, evidence, relationships>>

CommitRelationship(w) ==
    /\ exec[w].pc = "relating"
    /\ LET e == exec[w].edge IN
       relationships' = Others(relationships, e) \cup {Merged(relationships, e)}
    /\ exec' = [exec EXCEPT ![w] = Free]
    /\ UNCHANGED <<organizations, identifiers, evidence, count>>

(* ancestorsOf and descendantsOf on a date.                                 *)
InEffect(date) ==
    {<<r.parent, r.child>> : r \in {s \in relationships : s.subtree /\ s.from <= date /\ date <= s.to}}
Descendants(date, depth, o) ==
    LET reached[i \in 0..depth] ==
            IF i = 0 THEN {o}
            ELSE {edge[2] : edge \in {f \in InEffect(date) : f[1] \in reached[i - 1]}}
    IN UNION {reached[i] : i \in 1..depth}

IdentityNext ==
    \E w \in Writers :
       \/ \E rec \in Records : BeginUpsert(w, rec)
       \/ Resolve(w) \/ CommitUpsert(w) \/ Rollback(w)
       \/ \E e \in Edges : BeginRelationship(w, e)
       \/ CommitRelationship(w)

----------------------------------------------------------------------------
(* Properties.                                                              *)

(* "Names change; identifiers do not": one organization per piece of        *)
(* evidence as it is spelled.  What identifies an organization, as its      *)
(* identifier, as its canonical fingerprint or as recorded evidence, never  *)
(* points to two of them, whichever two collections saw the body first,     *)
(* with whatever parts of the evidence, in whatever spellings beside each   *)
(* other, and whatever the bulk import adds at the same time.  (Two         *)
(* spellings of one value have two locks, and may come to two owners.)      *)
EvidenceHasOneOwner ==
    /\ \A e, f \in evidence : e.key = f.key => e.owner = f.owner
    /\ \A o \in DOMAIN organizations :
          LET key == organizations[o].fingerprint IN
          FingerprintOwner(key) = {o} /\ \A e \in evidence : e.key = key => e.owner = o
    /\ \A i \in identifiers :
          /\ FingerprintOwner(<<"oid", i.key>>) \subseteq {i.owner}
          /\ \A e \in evidence : e.key = <<"oid", i.key>> => e.owner = i.owner

(* "Containment must remain a directed acyclic graph" (migration 0013): on  *)
(* no date is an organization below itself, whoever publishes the edges and *)
(* in whatever order their windows open and close.                          *)
HierarchyAcyclic ==
    \A date \in {r.from : r \in relationships} \cup {r.to : r \in relationships} :
        \A o \in DOMAIN organizations :
            o \notin Descendants(date, Cardinality(relationships), o)
============================================================================
