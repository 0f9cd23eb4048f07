---------------------------- MODULE Suppression ----------------------------
(* Who is kept out of an export.                                            *)
(*                                                                          *)
(* The question is decided twice, in two languages: by the SQL of           *)
(* queries.ts when rows are read, and by the SuppressionIndex of            *)
(* suppression.ts just before a file is written.  This module states both   *)
(* decisions and the rendering that applies the second, over the same       *)
(* entries and rows, so that they can be compared and composed.             *)
EXTENDS Naturals, FiniteSets

CONSTANTS
    Contains,   \* <<parent, child>>: organization relationships in effect whose type implies a subtree
    AreaTree,   \* <<parent, child>> of geographic_areas
    DomainOf,   \* [address -> its mail domain]
    Subdomain,  \* <<d, e>>: the mail domain d ends with "." followed by e
    MaxDepth,   \* bound of the ancestry the query returns with a row (12 in the code)
    None        \* an absent column

ASSUME DepthAssumption == MaxDepth \in Nat
ASSUME RelationAssumption ==
    IsFiniteSet(Contains) /\ IsFiniteSet(AreaTree) /\ IsFiniteSet(Subdomain)

(* Everything reached from x in at most n steps to a parent, x included.    *)
Upwards(tree, n, x) ==
    LET reached[i \in 0..n] ==
            IF i = 0 THEN {x}
            ELSE reached[i - 1] \cup {edge[1] : edge \in {t \in tree : t[2] \in reached[i - 1]}}
    IN reached[n]

(* The recursive CTEs without a depth bound stop when nothing new is found. *)
SelfAndAbove(tree, x) == Upwards(tree, Cardinality(tree), x)

(* A row carries the published emails, each with its id, its rank in the    *)
(* order of preference, the document of its own row (stored) and the one    *)
(* that published it last (source), the one preferred (published), the work *)
(* phones and an inferred candidate.                                        *)
Preferred(emails) ==
    IF emails = {} THEN None
    ELSE (CHOOSE m \in emails : \A other \in emails : m.rank <= other.rank).address

----------------------------------------------------------------------------
(* The SQL decision, over the entries in force.  Both formulations read     *)
(* effective_at and expires_at alike, and here neither is modelled: to an   *)
(* export an entry not yet effective is one not yet inserted, and one that  *)
(* expired is one revoked.                                                  *)

SuppressedSubtree(active, organization) ==
    \E e \in active :
        /\ e.scope = "organization_subtree"
        /\ e.key \in SelfAndAbove(Contains, organization)

SuppressedArea(active, area) ==
    /\ area # None
    /\ \E e \in active : e.scope = "geographic_area" /\ e.key \in SelfAndAbove(AreaTree, area)

SqlSource(active, document) == \E e \in active : e.scope = "source" /\ e.key = document

SqlRecord(active, row, purpose) ==
    \/ SuppressedSubtree(active, row.organization)
    \/ SuppressedArea(active, row.area)
    \/ SqlSource(active, row.source)
    \/ \E e \in active :
          \/ e.scope = "global"
          \/ e.scope = "person"           /\ e.key = row.person
          \/ e.scope = "organization"     /\ e.key = row.organization
          \/ e.scope = "jurisdiction"     /\ e.key = row.jurisdiction
          \/ e.scope = "government_level" /\ e.key = row.level
          \/ e.scope = "export_purpose"   /\ e.key = purpose

(* The stored value of a domain entry is compared as it is: one that was    *)
(* entered with a leading @ (marked) matches nothing here.                  *)
SqlAddress(active, address) ==
    \E e \in active :
        \/ e.scope = "email" /\ e.key = address
        \/ /\ e.scope = "domain" /\ ~e.marked
           /\ e.key = DomainOf[address] \/ <<DomainOf[address], e.key>> \in Subdomain

(* The row as the query returns it: channels filtered, ancestry bounded.    *)
(* The list asks about the document that published an address last, the     *)
(* preferred address about the one its row names.                           *)
Selected(active, row) ==
    LET withheld(c) == c # None /\ SqlAddress(active, c)
        allowed == {m \in row.emails : ~SqlAddress(active, m.address)}
    IN [row EXCEPT
           !.emails = {m \in allowed : ~SqlSource(active, m.source)},
           !.published = Preferred({m \in allowed : ~SqlSource(active, m.stored)}),
           !.phones = {f \in row.phones : ~SqlSource(active, f.source)},
           !.candidate = IF withheld(row.candidate) THEN None ELSE row.candidate,
           !.ancestors = Upwards(Contains, MaxDepth, row.organization) \ {row.organization},
           !.candidateWithheld = row.candidate # None /\ withheld(row.candidate)]

(* exportPeopleCsv: the channels a row still has.                           *)
HasChannel(row) ==
    row.published # None \/ row.candidate # None \/ row.emails # {} \/ row.phones # {}

(* queryExportableRows: not suppressed as a record, some channel published  *)
(* by the source, some channel left.                                        *)
Exportable(active, row, purpose, phoneOnly) ==
    /\ ~SqlRecord(active, row, purpose)
    /\ row.emails # {} \/ (phoneOnly /\ row.phones # {})
    /\ LET selected == Selected(active, row) IN
       \/ selected.published # None \/ selected.candidate # None
       \/ phoneOnly /\ selected.phones # {}

----------------------------------------------------------------------------
(* The decision of the index, over the same entries.                        *)

Subject(row, purpose) ==
    [email |-> None, person |-> row.person, organization |-> row.organization,
     ancestors |-> row.ancestors, jurisdiction |-> row.jurisdiction, level |-> row.level,
     areas |-> IF row.area = None THEN {} ELSE {row.area},
     source |-> row.source, purpose |-> purpose]

IndexHit(e, s) ==
    \/ e.scope = "global"
    \/ e.scope = "email" /\ s.email # None /\ e.key = s.email
    \/ /\ e.scope = "domain" /\ s.email # None
       /\ e.key = DomainOf[s.email] \/ <<DomainOf[s.email], e.key>> \in Subdomain
    \/ e.scope = "person"               /\ e.key = s.person
    \/ e.scope = "organization"         /\ e.key = s.organization
    \/ e.scope = "organization_subtree" /\ e.key \in {s.organization} \cup s.ancestors
    \/ e.scope = "jurisdiction"         /\ e.key = s.jurisdiction
    \/ e.scope = "government_level"     /\ e.key = s.level
    \/ e.scope = "geographic_area"      /\ e.key \in s.areas
    \/ e.scope = "source"               /\ e.key = s.source
    \/ e.scope = "export_purpose"       /\ e.key = s.purpose

IsSuppressed(active, subject) == \E e \in active : IndexHit(e, subject)

(* exportPeopleCsv, first pass: a row is dropped, or keeps the channels the *)
(* index lets through.  The preferred address is checked with the document  *)
(* of the assignment, the listed ones each with its own.                    *)
Rechecked(active, row, purpose) ==
    LET subject == Subject(row, purpose)
        held(s) == IsSuppressed(active, s)
        unlessHeld(address) ==
            IF address # None /\ held([subject EXCEPT !.email = address]) THEN None ELSE address
        allowed(m) == ~held([subject EXCEPT !.email = m.address, !.source = m.source])
    IN [row EXCEPT
           !.published = unlessHeld(row.published),
           !.emails = {m \in row.emails : allowed(m)},
           !.phones = {f \in row.phones : ~held([subject EXCEPT !.source = f.source])},
           !.candidate = unlessHeld(row.candidate)]

Rendered(active, rows, purpose) ==
    LET kept == {row \in rows : ~IsSuppressed(active, Subject(row, purpose))}
    IN  {row \in {Rechecked(active, r, purpose) : r \in kept} : HasChannel(row)}

(* withheldCandidateCount: withheld by the query, or by the re-check from a *)
(* row that stays.                                                          *)
WithheldCandidates(active, rows, purpose) ==
    LET blankedNow(row) ==
            /\ row.candidate # None
            /\ ~IsSuppressed(active, Subject(row, purpose))
            /\ Rechecked(active, row, purpose).candidate = None
            /\ HasChannel(Rechecked(active, row, purpose))
    IN Cardinality({row \in rows : row.candidateWithheld \/ blankedNow(row)})
============================================================================
