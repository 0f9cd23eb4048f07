------------------------- MODULE OrganizationSpine -------------------------
(* The bulk import of official registers (the spine), beside the collection *)
(* that upserts single organizations, and the review of websites.           *)
(*                                                                          *)
(* The import command stages whole files and makes organizations of what is *)
(* ready; preparing a roster makes organizations of the held rows of its    *)
(* states and sources too.  Each canonicalization is one transaction.       *)
EXTENDS OrganizationIdentity, SequencesExt

CONSTANTS
    Files,     \* what a file says: sets of [source, key, version, identifiers, parents, class,
               \*   level, reason, jurisdiction, website, name, from, status]
    Scope,     \* the rows a roster is prepared of: {[source, key]}
    Websites,  \* urls that may be proposed for an organization
    Stagings   \* bound: files staged in all

ASSUME StagingAssumption == Stagings \in Nat
ASSUME WebsiteAssumption == None \notin Websites /\ None \notin Nat

(* What a row may say of itself is a constraint of the table; a version is  *)
(* the hash of the file, which says one thing of a key.                     *)
Key(data) == <<data.source, data.key, data.version>>
ASSUME FileAssumption ==
    /\ \A file \in Files : IsFiniteSet(file)
    /\ \A data \in UNION Files :
          /\ DOMAIN data = {"source", "key", "version", "identifiers", "parents", "class", "level",
                            "reason", "jurisdiction", "website", "name", "from", "status"}
          /\ data.identifiers \in Seq(ToSet(data.identifiers)) /\ data.from \in Nat
          /\ data.status \in {"ready_to_import", "classification_hold", "overlay_hold", "reconciliation_hold"}
          /\ data.status = "ready_to_import" => data.identifiers # <<>>
          /\ \A other \in UNION Files : Key(other) = Key(data) => other = data

VARIABLES
    rows,        \* organization_spine_records: [data, status, organization]
    importing,   \* the transaction of canonicalizeReady
    staged,      \* number of stagings so far
    candidates   \* organization_website_candidates: [organization, url, status]

spineVars == <<rows, importing, staged, candidates>>
vars == <<identityVars, spineVars>>

NoImport == [pc |-> "none"]

Init ==
    /\ IdentityInit
    /\ rows = {} /\ candidates = {} /\ importing = NoImport /\ staged = 0

Sources == {data.source : data \in UNION Files}

----------------------------------------------------------------------------
(* stage: one row per source, key and document version; an imported row     *)
(* stays imported.                                                          *)
Staged(data) ==
    LET old == {r \in rows : Key(r.data) = Key(data)} IN
    IF old = {} THEN [data |-> data, status |-> data.status, organization |-> None]
    ELSE LET r == CHOOSE x \in old : TRUE
         IN [r EXCEPT !.data = data, !.status = IF @ = "imported" THEN @ ELSE data.status]

(* Rows an open canonicalization has selected are locked.                   *)
Selecting == IF importing = NoImport THEN {} ELSE importing.keys
Stage(file) ==
    /\ staged < Stagings
    /\ \A data \in file : Key(data) \notin Selecting
    /\ rows' = {r \in rows : \A data \in file : Key(data) # Key(r.data)} \cup {Staged(data) : data \in file}
    /\ staged' = staged + 1
    /\ UNCHANGED <<identityVars, importing, candidates>>

----------------------------------------------------------------------------
(* canonicalizeReady.  A row that matches organizations by its identifiers  *)
(* must match one, with the classification it has; the import command gives *)
(* up at a conflict, a roster holds the row.                                *)
Ready(r, scoped) ==
    /\ r.organization = None
    /\ \/ r.status = "ready_to_import" /\ ~scoped
       \/ /\ scoped /\ [source |-> r.data.source, key |-> r.data.key] \in Scope
          /\ r.status \in {"ready_to_import", "classification_hold"}
          /\ r.data.class # None /\ r.data.identifiers # <<>>

Matches(r) == UNION {IdentifierOwner(i) : i \in ToSet(r.data.identifiers)}
Misclassified(r) ==
    \E o \in Matches(r) :
        \/ organizations[o].class # r.data.class
        \/ None \notin {organizations[o].level, r.data.level} /\ organizations[o].level # r.data.level
        \/ /\ organizations[o].jurisdiction # None /\ r.data.jurisdiction # None
           /\ organizations[o].jurisdiction # r.data.jurisdiction
Conflicting(r) == Cardinality(Matches(r)) > 1 \/ Misclassified(r)

(* The part before anything is inserted.                                    *)
Match(scoped) ==
    /\ importing = NoImport
    /\ LET selected == {r \in rows : Ready(r, scoped)}
           held == {r \in selected : Conflicting(r)}
       IN /\ selected # {}
          /\ scoped \/ held = {}
          /\ importing' = [pc |-> "matched", keys |-> {Key(r.data) : r \in selected},
                           held |-> {Key(r.data) : r \in held},
                           matched |-> [k \in {Key(r.data) : r \in selected \ held} |->
                                           Matches(CHOOSE r \in selected : Key(r.data) = k)]]
    /\ UNCHANGED <<identityVars, rows, staged, candidates>>

FirstFingerprint(data) == <<"oid", data.identifiers[1]>>

(* The rows being made organizations, and the organization of each: the one *)
(* whose fingerprint is the row's first identifier, else the one matched,   *)
(* else a new one; new ones are numbered in some order.                     *)
Imported == {r \in rows : Key(r.data) \in DOMAIN importing.matched}
Unmatched(r) ==
    importing.matched[Key(r.data)] = {} /\ FingerprintOwner(FirstFingerprint(r.data)) = {}
Linked(fresh) ==
    [r \in Imported |->
        LET owner == FingerprintOwner(FirstFingerprint(r.data)) \cup
                     (IF FingerprintOwner(FirstFingerprint(r.data)) # {} THEN {}
                      ELSE importing.matched[Key(r.data)])
        IN IF owner = {} THEN Len(organizations) + (CHOOSE i \in DOMAIN fresh : fresh[i] = r)
           ELSE CHOOSE o \in owner : TRUE]

Claims(link) ==
    UNION {{[key |-> i, owner |-> link[r]] : i \in ToSet(r.data.identifiers)} : r \in Imported}

(* An identifier another organization has, or two rows of one statement     *)
(* writing the same row, abort the transaction.                             *)
SlipClaimRefused(link) == \E r \in Imported : ~IsInjective(r.data.identifiers)
ClaimRefused(link) ==
    \/ \E c \in Claims(link) : IdentifierOwner(c.key) \ {c.owner} # {}
    \/ \E r, s \in Imported :
          r # s /\ ToSet(r.data.identifiers) \cap ToSet(s.data.identifiers) # {}
    \/ \E r \in Imported : ~IsInjective(r.data.identifiers)

NewOrganization(data) ==
    [fingerprint |-> FirstFingerprint(data), review |-> FALSE, class |-> data.class, level |-> data.level,
     jurisdiction |-> data.jurisdiction, name |-> data.name, website |-> data.website, seen |-> data.from]
(* What an organization lacks comes from the rows linked to it.             *)
Filled(row, linked) ==
    LET from(data) ==
            [row EXCEPT !.website = Coalesced(@, data.website),
                        !.jurisdiction = Coalesced(@, data.jurisdiction),
                        !.seen = IF data.from > @ THEN data.from ELSE @]
    IN IF linked = {} THEN row ELSE from((CHOOSE r \in linked : TRUE).data)

(* A row that a person still has to classify keeps its hold, though it has  *)
(* an organization now.                                                     *)
StatusOf(data) ==
    IF data.level = None \/ data.reason THEN "classification_hold" ELSE "imported"

Canonicalize ==
    /\ importing.pc = "matched"
    /\ LET fresh == SetToSeq({r \in Imported : Unmatched(r)})
           link == Linked(fresh)
           grown == organizations \o [i \in DOMAIN fresh |-> NewOrganization(fresh[i].data)]
           heldNow == {r \in rows : Key(r.data) \in importing.held}
       IN /\ ~ClaimRefused(link) /\ \A r \in Imported : RowFree(link[r])
          /\ organizations' = [o \in DOMAIN grown |-> Filled(grown[o], {r \in Imported : link[r] = o})]
          /\ identifiers' = identifiers \cup Claims(link)
          /\ rows' = (rows \ (Imported \cup heldNow))
                     \cup {[r EXCEPT !.organization = link[r], !.status = StatusOf(r.data)] : r \in Imported}
                     \cup {[r EXCEPT !.organization = None, !.status = "reconciliation_hold",
                                     !.data.reason = TRUE] : r \in heldNow}
    /\ importing' = NoImport
    /\ UNCHANGED <<evidence, relationships, exec, count, staged, candidates>>

AbortImport ==
    /\ importing # NoImport
    /\ importing' = NoImport
    /\ UNCHANGED <<identityVars, rows, staged, candidates>>

----------------------------------------------------------------------------
(* materializeRelationships: the published parents of every linked row of   *)
(* some sources, or none of them.                                           *)
ParentsOf(r) == UNION {IdentifierOwner(p) : p \in r.data.parents}
PartOf(r) ==
    [parent |-> CHOOSE p \in ParentsOf(r) : TRUE, child |-> r.organization,
     subtree |-> TRUE, from |-> r.data.from, to |-> Forever]

(* Rows are inserted one after another, each checked against those before;  *)
(* an edge that exists is left as it is.                                    *)
Observed(state, e) ==
    IF Refused(state.rels, e) THEN [state EXCEPT !.ok = FALSE]
    ELSE [state EXCEPT !.rels = IF Others(@, e) = @ THEN @ \cup {e} ELSE @]

MaterializeRelationships(sources) ==
    LET linked == {r \in rows : r.organization # None /\ r.data.source \in sources}
        placed == {r \in linked : ParentsOf(r) \ {r.organization} # {}}
        edges == SetToSeq({PartOf(r) : r \in placed})
        after[i \in 0..Len(edges)] ==
            IF i = 0 THEN [ok |-> TRUE, rels |-> relationships] ELSE Observed(after[i - 1], edges[i])
    IN /\ RelationLockFree
       /\ \A r \in linked : Cardinality(ParentsOf(r)) <= 1
       /\ \A r, s \in placed : PartOf(r) = PartOf(s) => r = s
       /\ after[Len(edges)].ok
       /\ relationships' = after[Len(edges)].rels
       /\ UNCHANGED <<organizations, identifiers, evidence, exec, count, spineVars>>

----------------------------------------------------------------------------
(* Websites.  A candidate is recorded, then a person verifies or rejects    *)
(* it.  To verify is a transaction of several statements: it locks and      *)
(* tests the candidate, then the organization, and writes what it read.     *)
MissingWebsite == {o \in DOMAIN organizations : organizations[o].website = None}

RecordCandidate(o, url) ==
    /\ o \in DOMAIN organizations
    /\ \A c \in candidates : c.organization # o \/ c.url # url
    /\ candidates' = candidates \cup {[organization |-> o, url |-> url, status |-> "proposed"]}
    /\ UNCHANGED <<identityVars, rows, importing, staged>>

CandidateFree(c) == \A w \in Writers : exec[w].pc \in {"reviewing", "verifying"} => exec[w].candidate # c
Review(c, status) == candidates' = (candidates \ {c}) \cup {[c EXCEPT !.status = status]}

LockCandidate(w, c) ==
    /\ exec[w] = Free /\ CandidateFree(c) /\ c.status = "proposed"
    /\ exec' = [exec EXCEPT ![w] = [pc |-> "reviewing", candidate |-> c]]
    /\ UNCHANGED <<organizations, identifiers, evidence, relationships, count, spineVars>>

NoWebsiteYet(o) == organizations[o].website = None
LockOrganization(w) ==
    /\ exec[w].pc = "reviewing" /\ RowFree(exec[w].candidate.organization)
    /\ exec' = [exec EXCEPT ![w] =
          IF NoWebsiteYet(@.candidate.organization) THEN [pc |-> "verifying", candidate |-> @.candidate] ELSE Free]
    /\ UNCHANGED <<organizations, identifiers, evidence, relationships, count, spineVars>>

VerifyCandidate(w) ==
    /\ exec[w].pc = "verifying"
    /\ LET c == exec[w].candidate IN
       /\ Review(c, "verified")
       /\ organizations' = [organizations EXCEPT ![c.organization].website = c.url]
    /\ exec' = [exec EXCEPT ![w] = Free]
    /\ UNCHANGED <<identifiers, evidence, relationships, count, rows, importing, staged>>

(* One statement, which waits for the row.                                  *)
RejectCandidate(c) ==
    /\ c.status = "proposed" /\ CandidateFree(c)
    /\ Review(c, "rejected")
    /\ UNCHANGED <<identityVars, rows, importing, staged>>

Next ==
    \/ IdentityNext /\ UNCHANGED spineVars
    \/ \E file \in Files : Stage(file)
    \/ \E scoped \in BOOLEAN : Match(scoped)
    \/ Canonicalize \/ AbortImport
    \/ \E sources \in {Sources} \cup {{source} : source \in Sources} : MaterializeRelationships(sources)
    \/ \E o \in DOMAIN organizations, url \in Websites : RecordCandidate(o, url)
    \/ \E w \in Writers, c \in candidates : LockCandidate(w, c)
    \/ \E w \in Writers : LockOrganization(w) \/ VerifyCandidate(w)
    \/ \E c \in candidates : RejectCandidate(c)

Spec == Init /\ [][Next]_vars
----------------------------------------------------------------------------
(* Properties.                                                              *)

(* "It resolves all published identifiers, not only the first one, and      *)
(* fails when exact identifiers point at conflicting organizations": a row  *)
(* that counts as imported has an organization that owns each of its        *)
(* identifiers, and a row held for reconciliation has none, whatever was    *)
(* collected, staged or prepared meanwhile.                                 *)
ImportedMeansLinked ==
    \A r \in rows :
        /\ r.status = "imported" =>
              \A i \in ToSet(r.data.identifiers) : IdentifierOwner(i) = {r.organization}
        /\ r.organization # None =>
              \A i \in ToSet(r.data.identifiers) : IdentifierOwner(i) = {r.organization}
        /\ r.status = "reconciliation_hold" => r.organization = None

(* A person verifies at most one website of an organization, and only one   *)
(* that had none: two people who review two candidates of it at the same    *)
(* time do not both succeed, whatever imports and collections write between *)
(* their statements, and a verified organization keeps having a website.    *)
OneVerifiedWebsite ==
    LET verified == {c \in candidates : c.status = "verified"} IN
    \A c \in verified :
        /\ organizations[c.organization].website # None
        /\ \A d \in verified : d.organization = c.organization => d = c
============================================================================
