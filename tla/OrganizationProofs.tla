------------------------- MODULE OrganizationProofs -------------------------
(* What is recorded of organizations stays true of them, for every set of   *)
(* records, files, writers and earlier imports: evidence has one owner, an  *)
(* imported row has the organization its identifiers name, a person         *)
(* verifies one website of an organization, and containment is acyclic:     *)
(* what the trigger walks is enough to refuse any edge that would close a   *)
(* cycle on some day.                                                       *)
EXTENDS OrganizationSpine, Induction, FiniteSetTheorems, SequenceTheorems, TLAPS

----------------------------------------------------------------------------
(* The inductive invariants.                                                *)

IsTable(table) ==
    /\ table \in Seq({table[o] : o \in DOMAIN table})
    /\ \A o \in DOMAIN table : DOMAIN table[o] = RowFields
IsOwnership(e) == e = [key |-> e.key, owner |-> e.owner] /\ e.owner \in DOMAIN organizations
Shaped ==
    /\ IsTable(organizations)
    /\ \A e \in identifiers \cup evidence : IsOwnership(e)
    /\ DOMAIN exec = Writers
    /\ \A w \in Writers :
          /\ exec[w].pc \in {"free", "begun", "resolved", "relating", "reviewing", "verifying"}
          /\ exec[w].pc = "free" => exec[w] = Free
          /\ exec[w].pc \in {"begun", "resolved"} => exec[w].rec \in Records

(* A key names an organization as recorded evidence or as its fingerprint.  *)
Evident(key, o) == [key |-> key, owner |-> o] \in evidence
Names(key, o) == Evident(key, o) \/ (o \in DOMAIN organizations /\ organizations[o].fingerprint = key)
Kept(kept, key, o) == [key |-> key, owner |-> o] \in kept
Claimed(identifier, o) == [key |-> identifier, owner |-> o] \in identifiers

OneName == \A key, a, b : Names(key, a) /\ Names(key, b) => a = b
OneClaim == \A i, a, b : Claimed(i, a) /\ Claimed(i, b) => a = b
OfficialKeys == \A i, o : Names(<<"oid", i>>, o) => Claimed(i, o)
SourcesNameNobody == \A o \in DOMAIN organizations : \A x : organizations[o].fingerprint # <<"source", x>>

(* An upsert excludes others from its evidence until it ends; what it has   *)
(* resolved is still so, but for the official identifier, which the import  *)
(* claims without a lock; the fingerprint it read is one the organization   *)
(* has or has left as evidence.                                             *)
Keys(rec) == Candidates(rec) \cup IF rec.source = None THEN {} ELSE {<<"source", rec.source>>}
LocksExclude == \A v, w \in Writers : v # w => Held(v) \cap Held(w) = {}
Known(w) ==
    /\ exec[w].owners \subseteq DOMAIN organizations
    /\ \A a, b \in exec[w].owners : a = b
    /\ \A key \in Keys(exec[w].rec) : \A o :
          Names(key, o) => o \in exec[w].owners \/ key = <<"oid", exec[w].rec.identifier>>
    /\ \A o \in exec[w].owners, s \in exec[w].stored :
          /\ \A x : s # <<"source", x>>
          /\ \/ s = organizations[o].fingerprint
             \/ Evident(s, o) /\ Evident(organizations[o].fingerprint, o)
ResolvedIsKnown == \A w \in Writers : exec[w].pc = "resolved" => Known(w)

IdentityInv ==
    Shaped /\ OneName /\ OneClaim /\ OfficialKeys /\ SourcesNameNobody /\ LocksExclude /\ ResolvedIsKnown

(* A staged row says what its file said; held ones were given a reason.     *)
SaysTheFile(r) ==
    \E data \in UNION Files : r.data = data \/ r.data = [data EXCEPT !.reason = TRUE]
RowShape(r) ==
    /\ DOMAIN r = {"data", "status", "organization"}
    /\ SaysTheFile(r)
Selected(r) == Ready(r, TRUE) \/ Ready(r, FALSE)
LinkHolds(r) ==
    /\ r.organization # None => \A i \in ToSet(r.data.identifiers) : Claimed(i, r.organization)
    /\ r.status = "imported" => r.organization # None
    /\ r.status = "reconciliation_hold" => r.organization = None
    /\ r.data.status = "reconciliation_hold" => r.status = "reconciliation_hold"
    /\ r.status = "ready_to_import" => r.data.identifiers # <<>>
RowsInv ==
    /\ IsFiniteSet(rows)
    /\ \A r \in rows : RowShape(r) /\ LinkHolds(r)
    /\ \A r, s \in rows : Key(r.data) = Key(s.data) => r = s

(* The rows of an open import are locked as it selected them.               *)
ImportInv ==
    /\ importing.pc \in {"none", "matched"}
    /\ importing.pc = "none" => importing = NoImport
    /\ importing.pc = "matched" =>
          /\ importing # NoImport
          /\ importing.held \subseteq importing.keys /\ DOMAIN importing.matched \subseteq importing.keys
          /\ importing.held \cap DOMAIN importing.matched = {}
          /\ \A k \in DOMAIN importing.matched :
                /\ importing.matched[k] \subseteq DOMAIN organizations
                /\ \A a, b \in importing.matched[k] : a = b
          /\ \A r \in rows : Key(r.data) \in importing.keys => Selected(r)

(* A verified website is one the organization has not lost.                 *)
WebsiteInv ==
    /\ \A c \in candidates :
          /\ DOMAIN c = {"organization", "url", "status"}
          /\ c.organization \in DOMAIN organizations /\ c.url \in Websites
    /\ OneVerifiedWebsite

(* What a reviewer has locked is as it was read: a proposed candidate, an   *)
(* organization without a website; nobody else has it locked.               *)
ReviewOpen(w) == exec[w].pc \in {"reviewing", "verifying"}
Verifying(w) == exec[w].pc = "verifying"
ReviewInv ==
    /\ \A w \in Writers : ReviewOpen(w) => exec[w].candidate \in candidates /\ exec[w].candidate.status = "proposed"
    /\ \A v, w \in Writers : ReviewOpen(v) /\ ReviewOpen(w) /\ exec[v].candidate = exec[w].candidate => v = w
    /\ \A w \in Writers : Verifying(w) => organizations[exec[w].candidate.organization].website = None
    /\ \A v, w \in Writers :
          Verifying(v) /\ Verifying(w) /\ exec[v].candidate.organization = exec[w].candidate.organization => v = w

OrganizationInv == IdentityInv /\ RowsInv /\ ImportInv /\ WebsiteInv /\ ReviewInv
----------------------------------------------------------------------------
(* Evidence.                                                                *)

(* What the keys of a record are: its fingerprint is one, an official one   *)
(* is of its identifier, and its source has a fingerprint of its own.       *)
LEMMA KeyFacts ==
    ASSUME NEW rec \in Records
    PROVE  /\ Fingerprint(rec) \in Candidates(rec)
           /\ \A i : <<"oid", i>> \in Keys(rec) => rec.identifier # None /\ i = rec.identifier
           /\ \A x : <<"source", x>> \notin Candidates(rec)
           /\ \A x : <<"source", x>> \in Keys(rec) => rec.source # None /\ x = rec.source
           /\ rec.source # None => <<"sid", rec.source>> \in Candidates(rec)
<1> DEFINE unidentified == [rec EXCEPT !.identifier = None]
           unsourced == [rec EXCEPT !.identifier = None, !.source = None]
<1>1. unidentified.identifier = None /\ unidentified.source = rec.source
    BY RecordAssumption
<1>2. unsourced.identifier = None /\ unsourced.source = None
    BY RecordAssumption
<1>3. ASSUME NEW r PROVE
         /\ \A x : Fingerprint(r) # <<"source", x>>
         /\ \A i : Fingerprint(r) = <<"oid", i>> => r.identifier # None /\ i = r.identifier
         /\ r.identifier = None /\ r.source # None => Fingerprint(r) = <<"sid", r.source>>
    BY DEF Fingerprint
<1>4. Candidates(rec) = {Fingerprint(rec), Fingerprint(unidentified)}
                        \cup IF rec.source = None THEN {} ELSE {Fingerprint(unsourced)}
    BY DEF Candidates
<1> HIDE DEF unidentified, unsourced
<1>5. \A i : <<"oid", i>> \in Candidates(rec) => rec.identifier # None /\ i = rec.identifier
    BY <1>1, <1>2, <1>3, <1>4
<1>6. rec.source # None => Fingerprint(unidentified) = <<"sid", rec.source>>
    BY <1>1, <1>3
<1>7. \A x : <<"source", x>> \notin Candidates(rec)
    BY <1>3, <1>4
<1> QED BY <1>4, <1>5, <1>6, <1>7 DEF Keys

(* A sequence is one of its own elements.                                   *)
LEMMA OwnElements ==
    ASSUME NEW S, NEW s \in Seq(S)
    PROVE  s \in Seq({s[i] : i \in DOMAIN s})
<1>1. PICK n \in Nat : s \in [1..n -> S]
    BY SeqDef
<1>2. s \in [1..n -> {s[i] : i \in DOMAIN s}]
    BY <1>1
<1> QED BY <1>2, SeqDef

(* A table is numbered from one and stays one when a row is added to it or  *)
(* takes another's place.                                                   *)
LEMMA TableFacts ==
    ASSUME NEW table, IsTable(table)
    PROVE  Len(table) \in Nat /\ DOMAIN table = 1..Len(table)
BY LenProperties DEF IsTable

(* A row appended to a table leaves the others in their places.            *)
LEMMA TableAppended ==
    ASSUME NEW table, IsTable(table), NEW row, DOMAIN row = RowFields
    PROVE  /\ IsTable(Append(table, row))
           /\ DOMAIN Append(table, row) = 1..(Len(table) + 1)
           /\ \A i \in DOMAIN table : Append(table, row)[i] = table[i]
           /\ Append(table, row)[Len(table) + 1] = row
<1> DEFINE S == {table[o] : o \in DOMAIN table} \cup {row}
           longer == Append(table, row)
<1>1. table \in Seq(S)
    BY SeqMonotonic DEF IsTable
<1>2. Len(table) \in Nat /\ DOMAIN table = 1..Len(table)
    BY TableFacts
<1>3. longer \in Seq(S) /\ Len(longer) = Len(table) + 1 /\ DOMAIN longer = 1..Len(longer)
    BY <1>1, AppendProperties, LenProperties
<1>4. /\ \A i \in DOMAIN table : longer[i] = table[i]
      /\ longer[Len(table) + 1] = row
    BY <1>1, <1>2, AppendProperties
<1>5. longer \in Seq({longer[i] : i \in DOMAIN longer})
    BY <1>3, OwnElements
<1> HIDE DEF S, longer
<1>6. \A o \in DOMAIN longer : DOMAIN longer[o] = RowFields
    BY <1>2, <1>3, <1>4 DEF IsTable
<1>7. IsTable(longer)
    BY <1>5, <1>6 DEF IsTable
<1> QED BY <1>2, <1>3, <1>4, <1>7 DEF longer

(* A row updated in its place leaves the others alone.                     *)
LEMMA TableUpdated ==
    ASSUME NEW table, IsTable(table), NEW o \in DOMAIN table, NEW row, DOMAIN row = RowFields
    PROVE  /\ IsTable([table EXCEPT ![o] = row])
           /\ DOMAIN [table EXCEPT ![o] = row] = DOMAIN table
           /\ \A i \in DOMAIN table : [table EXCEPT ![o] = row][i] = IF i = o THEN row ELSE table[i]
<1> DEFINE S == {table[i] : i \in DOMAIN table} \cup {row}
           other == [table EXCEPT ![o] = row]
<1>1. table \in Seq(S)
    BY SeqMonotonic DEF IsTable
<1>2. Len(table) \in Nat /\ DOMAIN table = 1..Len(table)
    BY TableFacts
<1>3. other \in Seq(S)
    BY <1>1, <1>2, ExceptSeq
<1>4. DOMAIN other = DOMAIN table /\ \A i \in DOMAIN table : other[i] = IF i = o THEN row ELSE table[i]
    OBVIOUS
<1> HIDE DEF S, other
<1>5. other \in Seq({other[i] : i \in DOMAIN other})
    BY <1>3, OwnElements
<1>6. IsTable(other)
    BY <1>4, <1>5 DEF IsTable
<1> QED BY <1>4, <1>6 DEF other

(* What a commit places: in the one organization it resolved, or in a new   *)
(* one, with a fingerprint that is left as evidence.                        *)
Placing(w, o, row, kept) ==
    /\ \A a \in exec[w].owners : a = o
    /\ \/ o \in exec[w].owners /\ \E s \in exec[w].stored : kept = {[key |-> s, owner |-> o]}
       \/ o = Len(organizations) + 1 /\ exec[w].owners = {} /\ kept = {}
    /\ row.fingerprint = Fingerprint(exec[w].rec) \/ Kept(kept, row.fingerprint, o)
    /\ DOMAIN row = RowFields
    /\ o \in exec[w].owners /\ organizations[o].website # None => row.website # None
    /\ o \in exec[w].owners => RowFree(o)

(* A committed upsert places its row: a new one at the end, or one brought *)
(* up to date.                                                             *)
LEMMA CommitPlaces ==
    ASSUME IdentityInv, NEW w \in Writers, CommitUpsert(w)
    PROVE  \E o, row, kept : Upserted(exec[w].rec, o, row, kept) /\ Placing(w, o, row, kept)
<1> DEFINE rec == exec[w].rec
<1>1. Known(w)
    BY DEF IdentityInv, ResolvedIsKnown, CommitUpsert
<1>2. CASE exec[w].owners = {}
  <2> DEFINE row == Inserted(rec)
  <2>1. Upserted(rec, Len(organizations) + 1, row, {})
      BY <1>2 DEF CommitUpsert
  <2>2. row.fingerprint = Fingerprint(rec) /\ DOMAIN row = RowFields
      BY DEF Inserted, RowFields
  <2> HIDE DEF row
  <2>3. Placing(w, Len(organizations) + 1, row, {})
      BY <1>2, <2>2 DEF Placing
  <2> QED BY <2>1, <2>3
<1>3. CASE exec[w].owners # {}
  <2>1. PICK o \in exec[w].owners, stored \in exec[w].stored :
            /\ RowFree(o)
            /\ Upserted(rec, o, Refreshed(organizations[o], stored, rec), {[key |-> stored, owner |-> o]})
      BY <1>3 DEF CommitUpsert
  <2> DEFINE row == Refreshed(organizations[o], stored, rec)
  <2>2. o \in DOMAIN organizations /\ DOMAIN organizations[o] = RowFields
      BY <1>1 DEF IdentityInv, Shaped, IsTable, Known
  <2>3. DOMAIN row = RowFields
      BY <2>2 DEF Refreshed, RowFields
  <2>4. row.fingerprint = stored \/ row.fingerprint = Fingerprint(rec)
      BY <2>2 DEF Refreshed, RowFields, Stronger
  <2>5. organizations[o].website # None => row.website # None
      BY <2>2 DEF Refreshed, RowFields, Coalesced
  <2> HIDE DEF row
  <2>6. Placing(w, o, row, {[key |-> stored, owner |-> o]})
      BY <1>1, <2>1, <2>3, <2>4, <2>5 DEF Placing, Known, Kept
  <2> QED BY <2>1, <2>6 DEF row
<1> QED BY <1>2, <1>3

(* What an upsert changes.                                                  *)
UpsertFacts(w, o, row, kept) ==
    /\ IsTable(organizations') /\ DOMAIN organizations' = DOMAIN organizations \cup {o}
    /\ \A b \in DOMAIN organizations \ {o} : organizations'[b] = organizations[b]
    /\ organizations'[o] = row
    /\ identifiers' = identifiers \cup
          (IF exec[w].rec.identifier = None THEN {} ELSE {[key |-> exec[w].rec.identifier, owner |-> o]})
    /\ evidence' = evidence \cup {[key |-> k, owner |-> o] : k \in Keys(exec[w].rec)} \cup kept
    /\ \A b : Claimed(exec[w].rec.identifier, b) /\ exec[w].rec.identifier # None => b = o
    /\ \A key \in Keys(exec[w].rec) : \A b : Names(key, b) => b = o
    /\ \A e \in kept : e = [key |-> e.key, owner |-> o]
    /\ \A key, b : Kept(kept, key, b) => b = o /\ Names(key, b) /\ \A x : key # <<"source", x>>
    /\ \A key, b : Names(key, b)' =>
          Names(key, b) \/ (b = o /\ (key \in Keys(exec[w].rec) \/ Kept(kept, key, o)))

(* Who is named after an upsert: whoever was, and the organization it       *)
(* placed by the keys of its record and by what it kept; those keys named   *)
(* nobody else before.                                                      *)
LEMMA UpsertNames ==
    ASSUME IdentityInv, NEW w \in Writers, exec[w].pc = "resolved",
           NEW o, NEW row, NEW kept, Upserted(exec[w].rec, o, row, kept), Placing(w, o, row, kept)
    PROVE  UpsertFacts(w, o, row, kept)
<1> DEFINE rec == exec[w].rec
<1>1. Known(w) /\ rec \in Records /\ IsTable(organizations)
    BY DEF IdentityInv, ResolvedIsKnown, Shaped
<1>2. Len(organizations) \in Nat /\ DOMAIN organizations = 1..Len(organizations)
    BY <1>1, TableFacts
<1>3. o \in DOMAIN organizations \/ o = Len(organizations) + 1
    BY <1>1 DEF Placing, Known
<1>4. DOMAIN row = RowFields
    BY DEF Placing
<1>5. /\ IsTable(organizations') /\ DOMAIN organizations' = DOMAIN organizations \cup {o}
      /\ \A b \in DOMAIN organizations \ {o} : organizations'[b] = organizations[b]
      /\ organizations'[o] = row
  <2>0. organizations' = IF o > Len(organizations) THEN Append(organizations, row)
                         ELSE [organizations EXCEPT ![o] = row]
      BY DEF Upserted
  <2>1. CASE o \in DOMAIN organizations
    <3>1. ~(o > Len(organizations))
        BY <1>2, <2>1
    <3>2. organizations' = [organizations EXCEPT ![o] = row]
        BY <2>0, <3>1
    <3>3. DOMAIN organizations \cup {o} = DOMAIN organizations
        BY <2>1
    <3>4. /\ IsTable([organizations EXCEPT ![o] = row])
          /\ DOMAIN [organizations EXCEPT ![o] = row] = DOMAIN organizations
          /\ \A i \in DOMAIN organizations :
                [organizations EXCEPT ![o] = row][i] = IF i = o THEN row ELSE organizations[i]
        BY <1>1, <1>4, <2>1, TableUpdated
    <3> QED BY <2>1, <3>2, <3>3, <3>4
  <2>2. CASE o = Len(organizations) + 1
    <3>1. o > Len(organizations)
        BY <1>2, <2>2
    <3>2. organizations' = Append(organizations, row)
        BY <2>0, <3>1
    <3> QED BY <1>1, <1>2, <1>4, <2>2, <3>2, TableAppended
  <2> QED BY <1>3, <2>1, <2>2
<1>6. identifiers' = identifiers \cup
          (IF rec.identifier = None THEN {} ELSE {[key |-> rec.identifier, owner |-> o]})
    BY DEF Upserted
<1>7. evidence' = evidence \cup {[key |-> k, owner |-> o] : k \in Keys(rec)} \cup kept
    BY DEF Upserted, Recorded, Keys
<1>8. ASSUME rec.identifier # None, NEW b, Claimed(rec.identifier, b) PROVE b = o
  <2>1. IdentifierOwner(rec.identifier) \ {o} = {}
      BY <1>8 DEF Upserted, IdentifierRefused
  <2>2. b \in IdentifierOwner(rec.identifier)
      BY <1>8 DEF IdentifierOwner, Claimed
  <2> QED BY <2>1, <2>2
<1>9. ASSUME NEW key \in Keys(rec), NEW b, Names(key, b) PROVE b = o
  <2>1. CASE b \in exec[w].owners
      BY <2>1 DEF Placing
  <2>2. CASE key = <<"oid", rec.identifier>>
    <3>1. rec.identifier # None
        BY <1>1, <1>9, <2>2, KeyFacts
    <3>2. Claimed(rec.identifier, b)
        BY <1>9, <2>2 DEF IdentityInv, OfficialKeys
    <3> QED BY <1>8, <3>1, <3>2
  <2> QED BY <1>1, <1>9, <2>1, <2>2 DEF Known
<1>10. ASSUME NEW e \in kept
       PROVE  Names(e.key, o) /\ e = [key |-> e.key, owner |-> o] /\ \A x : e.key # <<"source", x>>
  <2>1. PICK s \in exec[w].stored : e = [key |-> s, owner |-> o] /\ o \in exec[w].owners
      BY DEF Placing
  <2>2. o \in DOMAIN organizations
      BY <1>1, <2>1 DEF Known
  <2> QED BY <1>1, <2>1, <2>2 DEF Known, Names
<1>12. \A key, b : Kept(kept, key, b) => b = o /\ Names(key, b) /\ \A x : key # <<"source", x>>
  <2>1. ASSUME NEW key, NEW b, Kept(kept, key, b) PROVE b = o /\ Names(key, b) /\ \A x : key # <<"source", x>>
    <3>1. PICK e \in kept : e = [key |-> key, owner |-> b]
        BY <2>1 DEF Kept
    <3>2. e.key = key /\ e.owner = b
        BY <3>1
    <3>3. e.owner = o
        BY <1>10
    <3> QED BY <1>10, <3>2, <3>3
  <2> QED BY <2>1
<1>11. ASSUME NEW key, NEW b, Names(key, b)'
       PROVE  Names(key, b) \/ (b = o /\ (key \in Keys(rec) \/ Kept(kept, key, o)))
  <2>1. CASE Evident(key, b)'
    <3>1. CASE Evident(key, b)
        BY <3>1 DEF Names
    <3>2. CASE Kept(kept, key, b)
        BY <1>12, <3>2
    <3>3. CASE [key |-> key, owner |-> b] \in {[key |-> k, owner |-> o] : k \in Keys(rec)}
        BY <3>3
    <3> QED BY <1>7, <2>1, <3>1, <3>2, <3>3 DEF Evident, Kept
  <2>2. CASE b \in DOMAIN organizations' /\ organizations'[b].fingerprint = key
    <3>1. CASE b = o
        BY <1>1, <1>5, <2>2, <3>1, KeyFacts DEF Placing, Keys
    <3>2. CASE b # o
        BY <1>5, <2>2, <3>2 DEF Names
    <3> QED BY <3>1, <3>2
  <2> QED BY <1>11, <2>1, <2>2 DEF Names
<1> QED BY <1>5, <1>6, <1>7, <1>8, <1>9, <1>10, <1>11, <1>12 DEF UpsertFacts

(* Locks are held by who holds them: a writer that ends lets go of its own. *)
LEMMA LocksReleased ==
    ASSUME LocksExclude, NEW w \in Writers, DOMAIN exec = Writers, exec' = [exec EXCEPT ![w] = Free]
    PROVE  LocksExclude'
<1>1. \A v \in Writers \ {w} : exec'[v] = exec[v]
    OBVIOUS
<1>2. exec'[w].pc = "free"
    BY DEF Free
<1>3. Held(w)' = {}
    BY <1>2 DEF Held
<1>4. \A v \in Writers \ {w} : Held(v)' = Held(v)
    BY <1>1 DEF Held
<1> QED BY <1>3, <1>4 DEF LocksExclude

(* A commit keeps the invariant: the keys of its record were locked, and    *)
(* what it kept named the organization already.                             *)
LEMMA UpsertKeeps ==
    ASSUME IdentityInv, NEW w \in Writers, exec[w].pc = "resolved",
           NEW o, NEW row, NEW kept, Upserted(exec[w].rec, o, row, kept), Placing(w, o, row, kept),
           exec' = [exec EXCEPT ![w] = Free]
    PROVE  IdentityInv'
<1> DEFINE rec == exec[w].rec
<1>0. UpsertFacts(w, o, row, kept)
    BY UpsertNames
<1>1. /\ IsTable(organizations') /\ DOMAIN organizations' = DOMAIN organizations \cup {o}
      /\ \A b \in DOMAIN organizations \ {o} : organizations'[b] = organizations[b]
      /\ organizations'[o] = row
    BY <1>0 DEF UpsertFacts
<1>2. identifiers' = identifiers \cup
          (IF rec.identifier = None THEN {} ELSE {[key |-> rec.identifier, owner |-> o]})
    BY <1>0 DEF UpsertFacts
<1>3. evidence' = evidence \cup {[key |-> k, owner |-> o] : k \in Keys(rec)} \cup kept
    BY <1>0 DEF UpsertFacts
<1>4. \A b : Claimed(rec.identifier, b) /\ rec.identifier # None => b = o
    BY <1>0 DEF UpsertFacts
<1>5. \A key \in Keys(rec) : \A b : Names(key, b) => b = o
    BY <1>0 DEF UpsertFacts
<1>6. \A key, b : Kept(kept, key, b) => b = o /\ Names(key, b) /\ \A x : key # <<"source", x>>
    BY <1>0 DEF UpsertFacts
<1>7. \A key, b : Names(key, b)' =>
          Names(key, b) \/ (b = o /\ (key \in Keys(rec) \/ Kept(kept, key, o)))
    BY <1>0 DEF UpsertFacts
<1>8. rec \in Records /\ Known(w)
    BY DEF IdentityInv, Shaped, ResolvedIsKnown
<1>9. DOMAIN exec = Writers /\ exec'[w] = Free /\ \A v \in Writers \ {w} : exec'[v] = exec[v]
    BY DEF IdentityInv, Shaped
<1>a. \A key \in Keys(rec) : Evident(key, o)'
    BY <1>3 DEF Evident
<1>b. \A key, b : Evident(key, b) => Evident(key, b)'
    BY <1>3 DEF Evident
<1>c. \A key, b : Kept(kept, key, b) => Evident(key, b)'
    BY <1>3 DEF Evident, Kept
<1>d. \A e \in kept : e = [key |-> e.key, owner |-> o]
    BY <1>0 DEF UpsertFacts
<1> HIDE DEF rec
<1>10. Shaped'
  <2>1. ASSUME NEW e \in (identifiers \cup evidence)' PROVE IsOwnership(e)'
    <3>1. CASE e \in identifiers \cup evidence
        BY <1>1, <3>1 DEF IdentityInv, Shaped, IsOwnership
    <3>2. CASE \E k : e = [key |-> k, owner |-> o]
        BY <1>1, <3>2 DEF IsOwnership
    <3>3. e \in kept => \E k : e = [key |-> k, owner |-> o]
        BY <1>d
    <3> QED BY <1>2, <1>3, <2>1, <3>1, <3>2, <3>3
  <2>2. DOMAIN exec' = Writers
      BY <1>9
  <2>3. ASSUME NEW v \in Writers
        PROVE  /\ exec'[v].pc \in {"free", "begun", "resolved", "relating", "reviewing", "verifying"}
               /\ exec'[v].pc = "free" => exec'[v] = Free
               /\ exec'[v].pc \in {"begun", "resolved"} => exec'[v].rec \in Records
      BY <1>9 DEF IdentityInv, Shaped, Free
  <2> QED BY <1>1, <2>1, <2>2, <2>3 DEF Shaped
<1>11. OneName'
  <2>1. ASSUME NEW k, NEW a, NEW b, Names(k, a)', Names(k, b)' PROVE a = b
    <3>1. \A c, d : Names(k, c) /\ Names(k, d) => c = d
        BY DEF IdentityInv, OneName
    <3>2. CASE k \in Keys(rec)
      <4>1. \A c : Names(k, c) => c = o
          BY <1>5, <3>2
      <4>2. a = o
          BY <1>7, <2>1, <4>1
      <4>3. b = o
          BY <1>7, <2>1, <4>1
      <4> QED BY <4>2, <4>3
    <3>3. CASE Kept(kept, k, o)
      <4>1. Names(k, o)
          BY <1>6, <3>3
      <4> QED BY <1>7, <2>1, <3>1, <4>1
    <3> QED BY <1>7, <2>1, <3>1, <3>2, <3>3
  <2> QED BY <2>1 DEF OneName
<1>12. OneClaim'
    BY <1>2, <1>4 DEF IdentityInv, OneClaim, Claimed
<1>13. OfficialKeys'
  <2>1. ASSUME NEW i, NEW b, Names(<<"oid", i>>, b)' PROVE Claimed(i, b)'
    <3>1. CASE Names(<<"oid", i>>, b)
      <4>1. Claimed(i, b)
          BY <3>1 DEF IdentityInv, OfficialKeys
      <4> QED BY <1>2, <4>1 DEF Claimed
    <3>2. CASE b = o /\ <<"oid", i>> \in Keys(rec)
      <4>1. rec.identifier # None /\ i = rec.identifier
          BY <1>8, <3>2, KeyFacts
      <4> QED BY <1>2, <3>2, <4>1 DEF Claimed
    <3>3. CASE b = o /\ Kept(kept, <<"oid", i>>, o)
        BY <1>6, <3>1, <3>3
    <3> QED BY <1>7, <2>1, <3>1, <3>2, <3>3
  <2> QED BY <2>1 DEF OfficialKeys
<1>14. SourcesNameNobody'
  <2>1. ASSUME NEW b \in DOMAIN organizations' PROVE \A x : organizations'[b].fingerprint # <<"source", x>>
    <3>1. CASE b # o
        BY <1>1, <2>1, <3>1 DEF IdentityInv, SourcesNameNobody
    <3>2. CASE b = o /\ row.fingerprint = Fingerprint(rec)
        BY <1>1, <1>8, <3>2, KeyFacts
    <3>3. CASE b = o /\ Kept(kept, row.fingerprint, o)
        BY <1>1, <1>6, <3>3
    <3> QED BY <3>1, <3>2, <3>3 DEF Placing, rec
  <2> QED BY <2>1 DEF SourcesNameNobody
<1>15. LocksExclude'
    BY <1>9, LocksReleased DEF IdentityInv
<1>16. ResolvedIsKnown'
  <2> SUFFICES ASSUME NEW v \in Writers, exec'[v].pc = "resolved" PROVE Known(v)'
      BY DEF ResolvedIsKnown
  <2>1. v # w /\ exec'[v] = exec[v]
      BY <1>9 DEF Free
  <2>2. Known(v) /\ exec[v].rec \in Records
      BY <2>1 DEF IdentityInv, ResolvedIsKnown, Shaped
  <2>3. Candidates(rec) \cap Candidates(exec[v].rec) = {}
      BY <2>1 DEF IdentityInv, LocksExclude, Held, LockSet, rec
  <2>4. Keys(rec) \cap Keys(exec[v].rec) = {}
    <3> SUFFICES ASSUME NEW k \in Keys(rec), k \in Keys(exec[v].rec) PROVE FALSE
        OBVIOUS
    <3>1. CASE k \in Candidates(rec)
        BY <1>8, <2>2, <2>3, <3>1, KeyFacts DEF Keys
    <3>2. CASE k \notin Candidates(rec)
      <4>1. rec.source # None /\ k = <<"source", rec.source>>
          BY <3>2 DEF Keys
      <4>2. exec[v].rec.source = rec.source
          BY <2>2, <4>1, KeyFacts
      <4>3. <<"sid", rec.source>> \in Candidates(rec) /\ <<"sid", rec.source>> \in Candidates(exec[v].rec)
          BY <1>8, <2>2, <4>1, <4>2, KeyFacts
      <4> QED BY <2>3, <4>3
    <3> QED BY <3>1, <3>2
  <2>5. ASSUME NEW key \in Keys(exec[v].rec), NEW b, Names(key, b)'
        PROVE  b \in exec[v].owners \/ key = <<"oid", exec[v].rec.identifier>>
    <3>1. CASE Kept(kept, key, o) /\ b = o
      <4>1. Names(key, b)
          BY <1>6, <3>1
      <4> QED BY <2>2, <2>5, <4>1 DEF Known
    <3>2. CASE Names(key, b)
        BY <2>2, <2>5, <3>2 DEF Known
    <3>3. key \notin Keys(rec)
        BY <2>4, <2>5
    <3> QED BY <1>7, <2>5, <3>1, <3>2, <3>3
  <2>6. ASSUME NEW b \in exec[v].owners, NEW s \in exec[v].stored
        PROVE  s = organizations'[b].fingerprint \/ (Evident(s, b)' /\ Evident(organizations[b].fingerprint, b)')
    <3>1. b \in DOMAIN organizations /\ (s = organizations[b].fingerprint
             \/ (Evident(s, b) /\ Evident(organizations[b].fingerprint, b)))
        BY <2>2, <2>6 DEF Known
    <3>2. CASE b # o
        BY <1>1, <1>b, <3>1, <3>2
    <3>3. CASE b = o
      <4>1. Evident(row.fingerprint, o)'
          BY <1>8, <1>a, <1>c, KeyFacts DEF Placing, Keys, rec
      <4>2. o \in exec[w].owners
          BY <1>1, <3>1, <3>3, TableFacts DEF Placing, IdentityInv, Shaped
      <4>3. PICK t \in exec[w].stored : kept = {[key |-> t, owner |-> o]}
          BY <4>2 DEF Placing
      <4>4. PICK f : f = organizations[o].fingerprint
          OBVIOUS
      <4>5. t = f \/ Evident(f, o)
          BY <1>8, <4>2, <4>3, <4>4 DEF Known
      <4>6. Evident(f, o)'
          BY <1>b, <1>c, <4>3, <4>5 DEF Kept
      <4>7. Evident(s, o)'
          BY <1>b, <3>1, <3>3, <4>4, <4>6
      <4> QED BY <1>1, <3>3, <4>1, <4>7
    <3> QED BY <3>2, <3>3
  <2>7. /\ exec[v].owners \subseteq DOMAIN organizations'
        /\ \A a, b \in exec[v].owners : a = b
        /\ \A s \in exec[v].stored : \A b \in exec[v].owners : \A x : s # <<"source", x>>
      BY <1>1, <2>2 DEF Known
  <2> QED BY <2>1, <2>5, <2>6, <2>7 DEF Known
<1> QED BY <1>10, <1>11, <1>12, <1>13, <1>14, <1>15, <1>16 DEF IdentityInv

(* A step of one writer that commits nothing.                               *)
LEMMA WriterStep ==
    ASSUME IdentityInv, NEW w \in Writers, NEW x, exec' = [exec EXCEPT ![w] = x],
           UNCHANGED <<organizations, identifiers, evidence>>,
           x.pc \in {"free", "begun", "resolved", "relating", "reviewing", "verifying"}, x.pc = "free" => x = Free,
           x.pc \in {"begun", "resolved"} =>
               x.rec \in Records /\ \A v \in Writers \ {w} : LockSet(x.rec) \cap Held(v) = {},
           x.pc = "resolved" => Known(w)'
    PROVE  IdentityInv'
<1>1. DOMAIN exec = Writers
    BY DEF IdentityInv, Shaped
<1>2. DOMAIN exec' = Writers /\ exec'[w] = x /\ \A v \in Writers \ {w} : exec'[v] = exec[v]
    BY <1>1
<1>3. Shaped'
    BY <1>2 DEF IdentityInv, Shaped, IsOwnership
<1>4. OneName' /\ OneClaim' /\ OfficialKeys' /\ SourcesNameNobody'
    BY DEF IdentityInv, OneName, OneClaim, OfficialKeys, SourcesNameNobody, Names, Claimed, Evident
<1>5. LocksExclude'
  <2>1. \A v \in Writers \ {w} : Held(v)' = Held(v)
      BY <1>2 DEF Held
  <2>2. Held(w)' = IF x.pc \in {"begun", "resolved"} THEN LockSet(x.rec) ELSE {}
      BY <1>2 DEF Held
  <2>3. \A v \in Writers \ {w} : Held(w)' \cap Held(v)' = {}
      BY <2>1, <2>2
  <2> QED BY <2>1, <2>3 DEF IdentityInv, LocksExclude
<1>6. ResolvedIsKnown'
  <2> SUFFICES ASSUME NEW v \in Writers, exec'[v].pc = "resolved" PROVE Known(v)'
      BY DEF ResolvedIsKnown
  <2>1. CASE v = w
      BY <1>2, <2>1
  <2>2. CASE v # w
    <3>1. Known(v) /\ exec'[v] = exec[v]
        BY <1>2, <2>2 DEF IdentityInv, ResolvedIsKnown
    <3> QED BY <3>1 DEF Known, Names, Evident
  <2> QED BY <2>1, <2>2
<1> QED BY <1>3, <1>4, <1>5, <1>6 DEF IdentityInv

(* A finite set that does not have more than one element has at most one.   *)
LEMMA AtMostOne ==
    ASSUME NEW S, IsFiniteSet(S), ~(Cardinality(S) > 1)
    PROVE  \A a, b \in S : a = b
<1>1. Cardinality(S) \in Nat
    BY FS_CardinalityType
<1>2. Cardinality(S) = 0 \/ Cardinality(S) = 1
    BY <1>1
<1> QED BY <1>2, FS_EmptySet, FS_Singleton

(* Any set of organizations is finite.                                     *)
LEMMA OwnersFinite ==
    ASSUME Shaped, NEW S, S \subseteq DOMAIN organizations
    PROVE  IsFiniteSet(S)
<1>1. IsFiniteSet(DOMAIN organizations)
    BY TableFacts, FS_Interval DEF Shaped
<1> QED BY <1>1, FS_Subset

(* Resolution finds everybody whom the keys of the record name.             *)
LEMMA OwnersFound ==
    ASSUME Shaped, SourcesNameNobody, NEW rec \in Records
    PROVE  /\ Owners(rec) \subseteq DOMAIN organizations
           /\ \A k \in Keys(rec) : \A o : Names(k, o) => o \in Owners(rec)
<1>1. \A i, o : Claimed(i, o) <=> o \in IdentifierOwner(i)
    BY DEF Claimed, IdentifierOwner, Shaped, IsOwnership
<1>2. \A k, o : Evident(k, o) => o \in EvidenceOwner(k)
    BY DEF Evident, EvidenceOwner
<1>3. \A k, o : o \in FingerprintOwner(k) <=> o \in DOMAIN organizations /\ organizations[o].fingerprint = k
    BY DEF FingerprintOwner
<1>4. \A i, o : o \in IdentifierOwner(i) => o \in DOMAIN organizations
    BY DEF IdentifierOwner, Shaped, IsOwnership
<1>5. \A k, o : o \in EvidenceOwner(k) => o \in DOMAIN organizations
    BY DEF EvidenceOwner, Shaped, IsOwnership
<1>6. Owners(rec) \subseteq DOMAIN organizations
    BY <1>3, <1>4, <1>5 DEF Owners
<1>7. ASSUME NEW k \in Keys(rec), NEW o, Names(k, o) PROVE o \in Owners(rec)
  <2>1. CASE k \in Candidates(rec)
    <3>1. o \in FingerprintOwner(k) \cup EvidenceOwner(k)
        BY <1>2, <1>3, <1>7 DEF Names
    <3> QED BY <2>1, <3>1 DEF Owners
  <2>2. CASE k \notin Candidates(rec)
    <3>1. rec.source # None /\ k = <<"source", rec.source>>
        BY <2>2 DEF Keys
    <3>2. Evident(k, o)
        BY <1>7, <3>1 DEF Names, SourcesNameNobody
    <3>3. o \in EvidenceOwner(<<"source", rec.source>>)
        BY <1>2, <3>1, <3>2
    <3> QED BY <3>1, <3>3 DEF Owners
  <2> QED BY <2>1, <2>2
<1> QED BY <1>6, <1>7

(* A writer takes a record up; no row changes.                             *)
LEMMA BeginKeeps ==
    ASSUME IdentityInv, NEW w \in Writers, NEW rec \in Records, BeginUpsert(w, rec)
    PROVE  IdentityInv'
<1> DEFINE x == [pc |-> "begun", rec |-> rec]
<1>1. x.pc = "begun" /\ x.rec = rec
    OBVIOUS
<1>2. exec' = [exec EXCEPT ![w] = x] /\ UNCHANGED <<organizations, identifiers, evidence>>
    BY DEF BeginUpsert
<1>3. \A v \in Writers \ {w} : LockSet(rec) \cap Held(v) = {}
    BY DEF BeginUpsert
<1> HIDE DEF x
<1> QED BY <1>1, <1>2, <1>3, WriterStep

(* A writer resolves the organization of its record; no row changes.       *)
LEMMA ResolveKeeps ==
    ASSUME IdentityInv, NEW w \in Writers, Resolve(w)
    PROVE  IdentityInv'
<1> DEFINE rec == exec[w].rec
           x == IF Cardinality(Owners(rec)) > 1 THEN Free
                ELSE [pc |-> "resolved", rec |-> rec, owners |-> Owners(rec),
                      stored |-> {organizations[o].fingerprint : o \in Owners(rec)}]
<1>1. exec[w].pc = "begun" /\ rec \in Records /\ DOMAIN exec = Writers
    BY DEF IdentityInv, Shaped, Resolve
<1>2. exec' = [exec EXCEPT ![w] = x] /\ UNCHANGED <<organizations, identifiers, evidence>>
    BY <1>1 DEF Resolve
<1>3. exec'[w] = x
    BY <1>1, <1>2
<1>4. x = Free \/ (~(Cardinality(Owners(rec)) > 1) /\ x.pc = "resolved" /\ x.rec = rec /\ x.owners = Owners(rec)
                     /\ x.stored = {organizations[o].fingerprint : o \in Owners(rec)})
    OBVIOUS
<1> HIDE DEF x
<1>5. \A v \in Writers \ {w} : LockSet(rec) \cap Held(v) = {}
    BY <1>1 DEF IdentityInv, LocksExclude, Held
<1>6. x.pc = "resolved" => Known(w)'
  <2> SUFFICES ASSUME x.pc = "resolved" PROVE Known(w)'
      OBVIOUS
  <2>1. /\ ~(Cardinality(Owners(rec)) > 1) /\ x.rec = rec /\ x.owners = Owners(rec)
        /\ x.stored = {organizations[o].fingerprint : o \in Owners(rec)}
      BY <1>4 DEF Free
  <2>2. /\ Owners(rec) \subseteq DOMAIN organizations
        /\ \A k \in Keys(rec) : \A o : Names(k, o) => o \in Owners(rec)
      BY <1>1, OwnersFound DEF IdentityInv
  <2>3. \A a, b \in Owners(rec) : a = b
      BY <2>1, <2>2, OwnersFinite, AtMostOne DEF IdentityInv
  <2>4. \A k \in Keys(rec) : \A o : Names(k, o)' => o \in Owners(rec)
      BY <1>2, <2>2 DEF Names, Evident
  <2>5. \A o \in Owners(rec), s \in x.stored : s = organizations[o].fingerprint /\ \A y : s # <<"source", y>>
      BY <2>1, <2>2, <2>3 DEF IdentityInv, SourcesNameNobody
  <2> QED BY <1>2, <1>3, <2>1, <2>2, <2>3, <2>4, <2>5 DEF Known
<1>7. x.pc \in {"free", "begun", "resolved", "relating", "reviewing", "verifying"} /\ (x.pc = "free" => x = Free)
    BY <1>4 DEF Free
<1>8. x.pc \in {"begun", "resolved"} => x.rec = rec
    BY <1>4 DEF Free
<1> QED BY <1>1, <1>2, <1>5, <1>6, <1>7, <1>8, WriterStep

(* A writer that ends or rolls back holds nothing.                         *)
LEMMA WriterFrees ==
    ASSUME IdentityInv, NEW w \in Writers, exec' = [exec EXCEPT ![w] = Free],
           UNCHANGED <<organizations, identifiers, evidence>>
    PROVE  IdentityInv'
<1>1. Free.pc = "free"
    BY DEF Free
<1> QED BY <1>1, WriterStep

(* Relationships touch neither organizations nor identifiers.              *)
LEMMA RelationshipKeeps ==
    ASSUME IdentityInv, NEW w \in Writers,
           (\E e \in Edges : BeginRelationship(w, e)) \/ CommitRelationship(w)
    PROVE  IdentityInv' /\ UNCHANGED <<organizations, identifiers>>
<1>1. CASE CommitRelationship(w)
    BY <1>1, WriterFrees DEF CommitRelationship
<1>2. ASSUME NEW e \in Edges, BeginRelationship(w, e) PROVE IdentityInv' /\ UNCHANGED <<organizations, identifiers>>
  <2>1. CASE Refused(relationships, e)
      BY <1>2, <2>1, WriterFrees DEF BeginRelationship
  <2>2. CASE ~Refused(relationships, e)
    <3> DEFINE x == [pc |-> "relating", edge |-> e]
    <3>1. exec' = [exec EXCEPT ![w] = x] /\ UNCHANGED <<organizations, identifiers, evidence>>
        BY <1>2, <2>2 DEF BeginRelationship
    <3>2. x.pc = "relating"
        OBVIOUS
    <3> HIDE DEF x
    <3> QED BY <3>1, <3>2, WriterStep
  <2> QED BY <2>1, <2>2
<1> QED BY <1>1, <1>2

(* Nothing recorded of an organization is taken back: it stays, with the    *)
(* identifiers it claims and with a website when it has one.                *)
Grows ==
    /\ DOMAIN organizations \subseteq DOMAIN organizations' /\ identifiers \subseteq identifiers'
    /\ \A o \in DOMAIN organizations : organizations[o].website # None => organizations'[o].website # None

(* Whoever upserts and whoever relates, evidence keeps its one owner.       *)
LEMMA IdentityStep ==
    ASSUME IdentityInv, IdentityNext
    PROVE  IdentityInv' /\ Grows
<1> SUFFICES ASSUME NEW w \in Writers,
                    \/ \E rec \in Records : BeginUpsert(w, rec)
                    \/ Resolve(w) \/ CommitUpsert(w) \/ Rollback(w)
                    \/ \E e \in Edges : BeginRelationship(w, e)
                    \/ CommitRelationship(w)
             PROVE  IdentityInv' /\ Grows
    BY DEF IdentityNext
<1>1. UNCHANGED <<organizations, identifiers>> => Grows
    BY DEF Grows
<1>2. ASSUME NEW rec \in Records, BeginUpsert(w, rec) PROVE IdentityInv' /\ Grows
    BY <1>1, <1>2, BeginKeeps DEF BeginUpsert
<1>3. CASE Resolve(w)
    BY <1>1, <1>3, ResolveKeeps DEF Resolve
<1>4. CASE Rollback(w)
    BY <1>1, <1>4, WriterFrees DEF Rollback
<1>5. CASE (\E e \in Edges : BeginRelationship(w, e)) \/ CommitRelationship(w)
    BY <1>1, <1>5, RelationshipKeeps
<1>6. CASE CommitUpsert(w)
  <2>1. exec[w].pc = "resolved" /\ exec' = [exec EXCEPT ![w] = Free]
      BY <1>6 DEF CommitUpsert
  <2>2. PICK o, row, kept : Upserted(exec[w].rec, o, row, kept) /\ Placing(w, o, row, kept)
      BY <1>6, CommitPlaces
  <2>3. IdentityInv'
      BY <2>1, <2>2, UpsertKeeps
  <2>4. UpsertFacts(w, o, row, kept)
      BY <2>1, <2>2, UpsertNames
  <2>5. o \in DOMAIN organizations => o \in exec[w].owners
      BY <2>2, TableFacts DEF Placing, IdentityInv, Shaped
  <2>6. Grows
      BY <2>2, <2>4, <2>5 DEF Grows, UpsertFacts, Placing
  <2> QED BY <2>3, <2>6
<1> QED BY <1>2, <1>3, <1>4, <1>5, <1>6

----------------------------------------------------------------------------
(* The spine.                                                               *)

(* What a growing registry leaves true of staged rows, of an open import    *)
(* and of websites.                                                         *)
LEMMA GrowthKeeps ==
    ASSUME Grows, UNCHANGED spineVars
    PROVE  /\ RowsInv => RowsInv'
           /\ ImportInv => ImportInv'
           /\ WebsiteInv => WebsiteInv'
<1>1. rows' = rows /\ importing' = importing /\ candidates' = candidates
    BY DEF spineVars
<1>2. RowsInv => RowsInv'
  <2>1. ASSUME NEW r, LinkHolds(r) PROVE LinkHolds(r)'
      BY <2>1 DEF LinkHolds, Claimed, Grows
  <2>2. ASSUME NEW r, RowShape(r) PROVE RowShape(r)'
      BY <2>2 DEF RowShape, SaysTheFile
  <2> QED BY <1>1, <2>1, <2>2 DEF RowsInv
<1>3. ImportInv => ImportInv'
  <2>1. ASSUME NEW r, Selected(r) PROVE Selected(r)'
      BY <2>1 DEF Selected, Ready
  <2> QED BY <1>1, <2>1 DEF ImportInv, Grows
<1>4. WebsiteInv => WebsiteInv'
    BY <1>1 DEF WebsiteInv, OneVerifiedWebsite, Grows
<1> QED BY <1>2, <1>3, <1>4

(* A row of a file says what every row of its key and version says.         *)
LEMMA SameFileRow ==
    ASSUME NEW r, SaysTheFile(r), NEW data \in UNION Files, Key(data) = Key(r.data)
    PROVE  r.data.identifiers = data.identifiers /\ r.data.status = data.status
<1>1. PICK other \in UNION Files : r.data = other \/ r.data = [other EXCEPT !.reason = TRUE]
    BY DEF SaysTheFile
<1>2. r.data.identifiers = other.identifiers /\ r.data.status = other.status /\ Key(r.data) = Key(other)
    BY <1>1, FileAssumption DEF Key
<1>3. other = data
    BY <1>2, FileAssumption
<1> QED BY <1>2, <1>3

(* The image of a finite set is finite.                                     *)
LEMMA ImageFinite ==
    ASSUME NEW S, IsFiniteSet(S), NEW f, f = [x \in S |-> f[x]]
    PROVE  IsFiniteSet({f[x] : x \in S})
<1> DEFINE T == {f[x] : x \in S}
<1>1. f \in Surjection(S, T)
    BY DEF Surjection
<1> HIDE DEF T
<1>2. IsFiniteSet(T)
    BY <1>1, FS_Surjection
<1> QED BY <1>2 DEF T

(* Staging: a row that has an organization keeps it, with the identifiers   *)
(* of the same version.                                                     *)
LEMMA StagedRow ==
    ASSUME RowsInv, NEW data \in UNION Files
    PROVE  RowShape(Staged(data)) /\ LinkHolds(Staged(data)) /\ Staged(data).data = data
<1> DEFINE old == {r \in rows : Key(r.data) = Key(data)}
<1>0. /\ data.status \in {"ready_to_import", "classification_hold", "overlay_hold", "reconciliation_hold"}
      /\ data.status = "ready_to_import" => data.identifiers # <<>>
    BY FileAssumption
<1>1. CASE old = {}
  <2>1. Staged(data) = [data |-> data, status |-> data.status, organization |-> None]
      BY <1>1 DEF Staged
  <2> QED BY <1>0, <2>1 DEF RowShape, SaysTheFile, LinkHolds
<1>2. CASE old # {}
  <2> DEFINE r == CHOOSE x \in old : TRUE
  <2>1. r \in rows /\ Key(r.data) = Key(data)
      BY <1>2
  <2>2. Staged(data) = [r EXCEPT !.data = data, !.status = IF @ = "imported" THEN @ ELSE data.status]
      BY <1>2 DEF Staged
  <2> HIDE DEF r, old
  <2>3. DOMAIN r = {"data", "status", "organization"} /\ SaysTheFile(r) /\ LinkHolds(r)
      BY <2>1 DEF RowsInv, RowShape
  <2>4. /\ Staged(data).data = data /\ Staged(data).organization = r.organization
        /\ Staged(data).status = IF r.status = "imported" THEN r.status ELSE data.status
        /\ DOMAIN Staged(data) = DOMAIN r
      BY <2>2, <2>3
  <2>5. r.data.identifiers = data.identifiers /\ r.data.status = data.status
      BY <2>1, <2>3, SameFileRow
  <2>6. LinkHolds(Staged(data))
      BY <1>0, <2>3, <2>4, <2>5 DEF LinkHolds
  <2> QED BY <2>3, <2>4, <2>6 DEF RowShape, SaysTheFile
<1> QED BY <1>1, <1>2

(* Staging a file fills the import rows only.                              *)
LEMMA StageKeeps ==
    ASSUME RowsInv, ImportInv, NEW file \in Files, Stage(file)
    PROVE  RowsInv' /\ ImportInv'
<1> DEFINE stay == {r \in rows : \A data \in file : Key(data) # Key(r.data)}
           fresh == {Staged(data) : data \in file}
<1>1. rows' = stay \cup fresh /\ UNCHANGED <<identityVars, importing>>
    BY DEF Stage
<1>2. \A data \in file : data \in UNION Files
    OBVIOUS
<1>3. \A data \in file : RowShape(Staged(data)) /\ LinkHolds(Staged(data)) /\ Staged(data).data = data
    BY <1>2, StagedRow
<1>4. IsFiniteSet(fresh)
  <2> DEFINE f == [data \in file |-> Staged(data)]
  <2>1. IsFiniteSet(file)
      BY FileAssumption
  <2>2. f = [data \in file |-> f[data]]
      OBVIOUS
  <2>3. fresh = {f[data] : data \in file}
      OBVIOUS
  <2> HIDE DEF f, fresh
  <2> QED BY <2>1, <2>2, <2>3, ImageFinite
<1>5. IsFiniteSet(rows')
  <2>1. IsFiniteSet(stay)
      BY FS_Subset DEF RowsInv
  <2> HIDE DEF stay, fresh
  <2> QED BY <1>1, <1>4, <2>1, FS_Union
<1>6. ASSUME NEW r \in rows' PROVE RowShape(r)' /\ LinkHolds(r)'
  <2>1. RowShape(r) /\ LinkHolds(r)
      BY <1>1, <1>3, <1>6 DEF RowsInv
  <2> QED BY <1>1, <2>1 DEF RowShape, SaysTheFile, LinkHolds, Claimed, identityVars
<1>7. ASSUME NEW r \in rows', NEW s \in rows', Key(r.data) = Key(s.data) PROVE r = s
  <2>1. CASE r \in stay /\ s \in stay
      BY <1>7, <2>1 DEF RowsInv
  <2>2. CASE r \in fresh /\ s \in fresh
    <3>1. PICK c \in file, d \in file : r = Staged(c) /\ s = Staged(d)
        BY <2>2
    <3>2. Key(c) = Key(d)
        BY <1>3, <1>7, <3>1
    <3>3. c = d
        BY <1>2, <3>2, FileAssumption
    <3> QED BY <3>1, <3>3
  <2>3. ASSUME NEW p \in stay, NEW q \in fresh PROVE Key(p.data) # Key(q.data)
      BY <1>3, <2>3
  <2> QED BY <1>1, <1>7, <2>1, <2>2, <2>3
<1>8. ASSUME importing.pc = "matched", NEW r \in rows', Key(r.data) \in importing.keys PROVE Selected(r)'
  <2>1. \A data \in file : Key(data) \notin importing.keys
      BY <1>8 DEF Stage, Selecting, ImportInv
  <2>2. r \in rows
      BY <1>1, <1>3, <1>8, <2>1
  <2> QED BY <1>8, <2>2 DEF ImportInv, Selected, Ready
<1>9. ImportInv'
    BY <1>1, <1>8 DEF ImportInv, identityVars
<1> QED BY <1>5, <1>6, <1>7, <1>9 DEF RowsInv

(* Matching: a row that is kept matches at most one organization.           *)
LEMMA MatchKeeps ==
    ASSUME IdentityInv, RowsInv, NEW scoped \in BOOLEAN, Match(scoped)
    PROVE  ImportInv'
<1> DEFINE selected == {r \in rows : Ready(r, scoped)}
           held == {r \in selected : Conflicting(r)}
           Picked(k) == CHOOSE r \in selected : Key(r.data) = k
           matched == [k \in {Key(r.data) : r \in selected \ held} |-> Matches(Picked(k))]
           x == [pc |-> "matched", keys |-> {Key(r.data) : r \in selected},
                 held |-> {Key(r.data) : r \in held}, matched |-> matched]
<1>1. importing' = x /\ UNCHANGED <<identityVars, rows>>
    BY DEF Match
<1>2. /\ x.pc = "matched" /\ x.keys = {Key(r.data) : r \in selected}
      /\ x.held = {Key(r.data) : r \in held} /\ x.matched = matched
      /\ DOMAIN matched = {Key(r.data) : r \in selected \ held}
      /\ \A k \in DOMAIN matched : matched[k] = Matches(Picked(k))
    OBVIOUS
<1>3. \A r, s \in rows : Key(r.data) = Key(s.data) => r = s
    BY DEF RowsInv
<1>4. \A r \in selected : r \in rows /\ Ready(r, scoped)
    OBVIOUS
<1>5. \A r \in held : r \in selected /\ Conflicting(r)
    OBVIOUS
<1>6. \A r \in selected \ held : ~Conflicting(r)
    OBVIOUS
<1>7. ASSUME NEW r \in selected PROVE Picked(Key(r.data)) = r
    BY <1>3, <1>4, <1>7
<1> HIDE DEF selected, held, matched, x, Picked
<1>8. ASSUME NEW k \in DOMAIN matched
      PROVE  matched[k] \subseteq DOMAIN organizations /\ \A a, b \in matched[k] : a = b
  <2>1. PICK r \in selected \ held : k = Key(r.data)
      BY <1>2, <1>8
  <2>2. matched[k] = Matches(r)
      BY <1>2, <1>7, <1>8, <2>1
  <2>3. Matches(r) \subseteq DOMAIN organizations
      BY DEF Matches, IdentifierOwner, IdentityInv, Shaped, IsOwnership
  <2>4. ~(Cardinality(Matches(r)) > 1)
      BY <1>6, <2>1 DEF Conflicting
  <2>5. IsFiniteSet(Matches(r))
      BY <2>3, OwnersFinite DEF IdentityInv
  <2> QED BY <2>2, <2>3, <2>4, <2>5, AtMostOne
<1>9. x.held \subseteq x.keys /\ DOMAIN matched \subseteq x.keys /\ x.held \cap DOMAIN matched = {}
  <2>1. x.held \subseteq x.keys
      BY <1>2, <1>5
  <2>2. DOMAIN matched \subseteq x.keys
      BY <1>2
  <2>3. ASSUME NEW k \in x.held, k \in DOMAIN matched PROVE FALSE
    <3>1. PICK r \in held : k = Key(r.data)
        BY <1>2, <2>3
    <3>2. PICK s \in selected \ held : k = Key(s.data)
        BY <1>2, <2>3
    <3>3. r = s
        BY <1>3, <1>4, <1>5, <3>1, <3>2
    <3> QED BY <3>1, <3>2, <3>3
  <2> QED BY <2>1, <2>2, <2>3
<1>10. ASSUME NEW r \in rows, Key(r.data) \in x.keys PROVE Selected(r)'
  <2>1. PICK s \in selected : Key(r.data) = Key(s.data)
      BY <1>2, <1>10
  <2>2. Ready(r, scoped)
      BY <1>3, <1>4, <2>1
  <2>3. scoped = TRUE \/ scoped = FALSE
      OBVIOUS
  <2>4. Selected(r)
      BY <2>2, <2>3 DEF Selected
  <2> QED BY <2>4 DEF Selected, Ready
<1>11. x # NoImport /\ x.pc # "none"
    BY <1>2 DEF NoImport
<1> QED BY <1>1, <1>2, <1>8, <1>9, <1>10, <1>11 DEF ImportInv, identityVars

(* A finite set as a sequence: every element has one place.                 *)
LEMMA SetInOrder ==
    ASSUME NEW S, IsFiniteSet(S)
    PROVE  \E n \in Nat : /\ SetToSeq(S) \in [1..n -> S]
                          /\ \A x \in S : \E i \in 1..n : SetToSeq(S)[i] = x
                          /\ \A i, j \in 1..n : SetToSeq(S)[i] = SetToSeq(S)[j] => i = j
<1> DEFINE n == Cardinality(S)
<1>1. n \in Nat /\ ExistsBijection(1..n, S)
    BY FS_CardinalityType
<1>2. \E f \in [1..n -> S] : IsInjective(f)
    BY <1>1 DEF ExistsBijection, Bijection, Injection
<1>3. SetToSeq(S) \in [1..n -> S] /\ IsInjective(SetToSeq(S))
    BY <1>2 DEF SetToSeq
<1>4. Cardinality(1..n) = n
    BY <1>1, FS_Interval
<1>5. SetToSeq(S) \in Injection(1..n, S)
    BY <1>3 DEF Injection
<1>6. SetToSeq(S) \in Surjection(1..n, S)
    BY <1>4, <1>5, FS_Injection
<1> HIDE DEF n
<1>7. \A x \in S : \E i \in 1..n : SetToSeq(S)[i] = x
    BY <1>6 DEF Surjection
<1>8. DOMAIN SetToSeq(S) = 1..n
    BY <1>3
<1>9. \A i, j \in 1..n : SetToSeq(S)[i] = SetToSeq(S)[j] => i = j
    BY <1>3, <1>8 DEF IsInjective
<1> QED BY <1>1, <1>3, <1>7, <1>9

(* Rows that are numbered from one make a table.                            *)
LEMMA NumberedTable ==
    ASSUME NEW m \in Nat, NEW f, f = [i \in 1..m |-> f[i]], \A i \in 1..m : DOMAIN f[i] = RowFields
    PROVE  IsTable(f)
<1> DEFINE T == {f[i] : i \in DOMAIN f}
<1>1. f \in [1..m -> T] /\ DOMAIN f = 1..m
    OBVIOUS
<1> HIDE DEF T
<1>2. f \in Seq(T)
    BY <1>1, SeqDef
<1> QED BY <1>1, <1>2 DEF IsTable, T

(* The organizations of the rows of an import: those they match, and one    *)
(* new organization for each row that matches none.                         *)
Fresh == SetToSeq({r \in Imported : Unmatched(r)})
Link == Linked(Fresh)
NewName(k, b) ==
    \E i \in DOMAIN Fresh : b = Len(organizations) + i /\ k = FirstFingerprint(Fresh[i].data)
FreshFacts(n) ==
    /\ n \in Nat /\ DOMAIN Fresh = 1..n
    /\ \A i \in 1..n : Fresh[i] \in Imported /\ Link[Fresh[i]] = Len(organizations) + i
    /\ \A r \in Imported : Link[r] \in DOMAIN organizations \cup {Len(organizations) + i : i \in 1..n}

(* The import links each of its rows to a stored organization.             *)
LEMMA ImportLinks ==
    ASSUME IdentityInv, RowsInv, ImportInv, importing.pc = "matched"
    PROVE  \E n \in Nat : FreshFacts(n)
<1> DEFINE F == {r \in Imported : Unmatched(r)}
<1>1. Imported \subseteq rows /\ \A r \in Imported : Key(r.data) \in DOMAIN importing.matched
    BY DEF Imported
<1>2. IsFiniteSet(F)
    BY <1>1, FS_Subset DEF RowsInv
<1>3. PICK n \in Nat : /\ Fresh \in [1..n -> F]
                       /\ \A x \in F : \E i \in 1..n : Fresh[i] = x
                       /\ \A i, j \in 1..n : Fresh[i] = Fresh[j] => i = j
    BY <1>2, SetInOrder DEF Fresh
<1>4. DOMAIN Fresh = 1..n /\ \A i \in 1..n : Fresh[i] \in F
    BY <1>3
<1>5. \A i \in 1..n : (CHOOSE j \in DOMAIN Fresh : Fresh[j] = Fresh[i]) = i
    BY <1>3, <1>4
<1>6. Link = [r \in Imported |->
          LET owner == FingerprintOwner(FirstFingerprint(r.data)) \cup
                       (IF FingerprintOwner(FirstFingerprint(r.data)) # {} THEN {}
                        ELSE importing.matched[Key(r.data)])
          IN IF owner = {} THEN Len(organizations) + (CHOOSE i \in DOMAIN Fresh : Fresh[i] = r)
             ELSE CHOOSE o \in owner : TRUE]
    BY DEF Link, Linked
<1>7. ASSUME NEW r \in Imported
      PROVE  /\ Unmatched(r) => Link[r] = Len(organizations) + (CHOOSE i \in DOMAIN Fresh : Fresh[i] = r)
             /\ ~Unmatched(r) => Link[r] \in FingerprintOwner(FirstFingerprint(r.data))
                                             \cup importing.matched[Key(r.data)]
    BY <1>6 DEF Unmatched
<1>8. \A i \in 1..n : Fresh[i] \in Imported /\ Unmatched(Fresh[i])
    BY <1>4
<1> HIDE DEF F
<1>9. ASSUME NEW i \in 1..n PROVE Link[Fresh[i]] = Len(organizations) + i
  <2>1. PICK r \in Imported : r = Fresh[i] /\ Unmatched(r)
      BY <1>8
  <2>2. (CHOOSE j \in DOMAIN Fresh : Fresh[j] = r) = i
      BY <1>5, <2>1
  <2>3. Link[r] = Len(organizations) + i
      BY <1>7, <2>1, <2>2
  <2> QED BY <2>1, <2>3
<1>10. ASSUME NEW r \in Imported
       PROVE  Link[r] \in DOMAIN organizations \cup {Len(organizations) + i : i \in 1..n}
  <2>1. CASE Unmatched(r)
    <3>1. PICK i \in 1..n : Fresh[i] = r
        BY <1>3, <2>1 DEF F
    <3> QED BY <1>9, <3>1
  <2>2. CASE ~Unmatched(r)
    <3>1. FingerprintOwner(FirstFingerprint(r.data)) \subseteq DOMAIN organizations
        BY DEF FingerprintOwner
    <3>2. importing.matched[Key(r.data)] \subseteq DOMAIN organizations
        BY <1>1 DEF ImportInv
    <3> QED BY <1>7, <2>2, <3>1, <3>2
  <2> QED BY <2>1, <2>2
<1> QED BY <1>4, <1>8, <1>9, <1>10 DEF FreshFacts

(* A row that is linked has a first identifier.                             *)
LEMMA ImportedRow ==
    ASSUME RowsInv, ImportInv, importing.pc = "matched", NEW r \in Imported
    PROVE  /\ r \in rows /\ Selected(r) /\ RowShape(r) /\ LinkHolds(r)
           /\ r.data.identifiers[1] \in ToSet(r.data.identifiers)
<1>1. r \in rows /\ Key(r.data) \in importing.keys
    BY DEF Imported, ImportInv
<1>2. Selected(r) /\ RowShape(r) /\ LinkHolds(r)
    BY <1>1 DEF ImportInv, RowsInv
<1>3. PICK data \in UNION Files : r.data = data \/ r.data = [data EXCEPT !.reason = TRUE]
    BY <1>2 DEF RowShape, SaysTheFile
<1>4. r.data.identifiers = data.identifiers /\ r.data.status = data.status
    BY <1>3, FileAssumption
<1>5. data.identifiers \in Seq(ToSet(data.identifiers))
    BY FileAssumption
<1>6. r.data.identifiers # <<>>
    BY <1>2 DEF Selected, Ready, LinkHolds
<1>7. 1 \in DOMAIN data.identifiers
    BY <1>4, <1>5, <1>6, EmptySeq, LenProperties
<1>8. r.data.identifiers[1] \in ToSet(r.data.identifiers)
    BY <1>4, <1>7 DEF ToSet
<1> QED BY <1>1, <1>2, <1>8

(* What a canonicalization changes.                                         *)
Named(r, i) == i \in ToSet(r.data.identifiers)
ImportFacts(n) ==
    /\ FreshFacts(n)
    /\ IsTable(organizations') /\ DOMAIN organizations' = DOMAIN organizations \cup {Len(organizations) + i : i \in 1..n}
    /\ \A o \in DOMAIN organizations :
          /\ organizations'[o].fingerprint = organizations[o].fingerprint
          /\ organizations[o].website # None => organizations'[o].website # None
          /\ ~RowFree(o) => organizations'[o] = organizations[o]
    /\ \A i \in 1..n : organizations'[Len(organizations) + i].fingerprint = FirstFingerprint(Fresh[i].data)
    /\ \A e \in identifiers' : e \in identifiers \/ \E r \in Imported : \E i : e = [key |-> i, owner |-> Link[r]]
    /\ \A i, b : Claimed(i, b)' <=> Claimed(i, b) \/ \E r \in Imported : Named(r, i) /\ b = Link[r]
    /\ \A r \in Imported : \A i, b : Named(r, i) /\ Claimed(i, b) => b = Link[r]
    /\ \A r, s \in Imported : \A i : Named(r, i) /\ Named(s, i) => r = s

(* Filling a row in keeps its fingerprint and the website it had.          *)
LEMMA FilledFacts ==
    ASSUME NEW row, DOMAIN row = RowFields, NEW linked
    PROVE  /\ DOMAIN Filled(row, linked) = RowFields
           /\ Filled(row, linked).fingerprint = row.fingerprint
           /\ row.website # None => Filled(row, linked).website # None
           /\ linked = {} => Filled(row, linked) = row
<1> DEFINE data == (CHOOSE r \in linked : TRUE).data
<1>1. CASE linked = {}
    BY <1>1 DEF Filled
<1>2. CASE linked # {}
  <2>1. Filled(row, linked) =
            [row EXCEPT !.website = Coalesced(@, data.website), !.jurisdiction = Coalesced(@, data.jurisdiction),
                        !.seen = IF data.from > @ THEN data.from ELSE @]
      BY <1>2 DEF Filled
  <2> HIDE DEF data
  <2> QED BY <1>2, <2>1 DEF RowFields, Coalesced
<1> QED BY <1>1, <1>2

(* What canonicalization writes, row by row.                               *)
LEMMA CanonicalizeFacts ==
    ASSUME IdentityInv, RowsInv, ImportInv, Canonicalize
    PROVE  \E n \in Nat : ImportFacts(n)
<1> DEFINE extra == [i \in DOMAIN Fresh |-> NewOrganization(Fresh[i].data)]
           grown == organizations \o extra
           LinkedTo(o) == {r \in Imported : Link[r] = o}
<1>1. /\ importing.pc = "matched" /\ ~ClaimRefused(Link) /\ identifiers' = identifiers \cup Claims(Link)
      /\ \A r \in Imported : RowFree(Link[r])
    BY DEF Canonicalize, Fresh, Link
<1>2. organizations' = [o \in DOMAIN grown |-> Filled(grown[o], LinkedTo(o))]
    BY DEF Canonicalize, Fresh, Link
<1>3. PICK n \in Nat : FreshFacts(n)
    BY <1>1, ImportLinks
<1>4. IsTable(organizations) /\ Len(organizations) \in Nat /\ DOMAIN organizations = 1..Len(organizations)
    BY TableFacts DEF IdentityInv, Shaped
<1>5. /\ DOMAIN grown = 1..(Len(organizations) + n)
      /\ \A o \in DOMAIN organizations : grown[o] = organizations[o]
      /\ \A i \in 1..n : grown[Len(organizations) + i] = NewOrganization(Fresh[i].data)
  <2> DEFINE T == {organizations[o] : o \in DOMAIN organizations}
             U == {extra[i] : i \in 1..n}
  <2>1. DOMAIN extra = 1..n /\ \A i \in 1..n : extra[i] = NewOrganization(Fresh[i].data)
      BY <1>3 DEF FreshFacts
  <2>2. extra \in [1..n -> U]
      BY <2>1
  <2>3. organizations \in Seq(T)
      BY <1>4 DEF IsTable
  <2> HIDE DEF T, U, extra
  <2>4. extra \in Seq(U)
      BY <2>2, SeqDef
  <2>5. organizations \in Seq(T \cup U) /\ extra \in Seq(T \cup U)
      BY <2>3, <2>4, SeqMonotonic
  <2>6. Len(extra) = n
      BY <2>1, <2>4, LenProperties
  <2>7. /\ grown \in Seq(T \cup U) /\ Len(grown) = Len(organizations) + n
        /\ \A i \in 1..(Len(organizations) + n) :
              grown[i] = IF i <= Len(organizations) THEN organizations[i] ELSE extra[i - Len(organizations)]
      BY <2>5, <2>6, ConcatProperties
  <2>8. DOMAIN grown = 1..(Len(organizations) + n)
      BY <2>7, LenProperties
  <2> HIDE DEF grown
  <2>9. ASSUME NEW o \in DOMAIN organizations PROVE grown[o] = organizations[o]
      BY <1>4, <2>7
  <2>10. ASSUME NEW i \in 1..n PROVE grown[Len(organizations) + i] = extra[i]
      BY <1>4, <2>7
  <2> QED BY <2>1, <2>8, <2>9, <2>10
<1>e. \A o : ~RowFree(o) => LinkedTo(o) = {}
    BY <1>1
<1> HIDE DEF extra, grown, LinkedTo
<1>6. DOMAIN organizations' = 1..(Len(organizations) + n)
    BY <1>2, <1>5
<1>7. 1..(Len(organizations) + n) = DOMAIN organizations \cup {Len(organizations) + i : i \in 1..n}
  <2>1. ASSUME NEW o \in 1..(Len(organizations) + n), o \notin 1..Len(organizations)
        PROVE  o \in {Len(organizations) + i : i \in 1..n}
    <3>1. o - Len(organizations) \in 1..n /\ o = Len(organizations) + (o - Len(organizations))
        BY <1>4, <2>1
    <3> QED BY <3>1
  <2>2. ASSUME NEW i \in 1..n PROVE Len(organizations) + i \in 1..(Len(organizations) + n)
      BY <1>4
  <2>3. DOMAIN organizations \subseteq 1..(Len(organizations) + n)
      BY <1>4
  <2> QED BY <1>4, <2>1, <2>2, <2>3
<1>f. \A data : /\ DOMAIN NewOrganization(data) = RowFields
                /\ NewOrganization(data).fingerprint = FirstFingerprint(data)
    BY DEF NewOrganization, RowFields
<1>8. ASSUME NEW o \in DOMAIN grown PROVE DOMAIN grown[o] = RowFields
  <2>1. CASE o \in DOMAIN organizations
      BY <1>4, <1>5, <2>1 DEF IsTable
  <2>2. CASE o \notin DOMAIN organizations
    <3>1. PICK i \in 1..n : o = Len(organizations) + i
        BY <1>5, <1>7, <2>2
    <3> QED BY <1>5, <1>f, <3>1
  <2> QED BY <2>1, <2>2
<1>9. \A o \in DOMAIN grown :
        /\ DOMAIN organizations'[o] = RowFields
        /\ organizations'[o].fingerprint = grown[o].fingerprint
        /\ grown[o].website # None => organizations'[o].website # None
        /\ LinkedTo(o) = {} => organizations'[o] = grown[o]
    BY <1>2, <1>8, FilledFacts
<1>10. IsTable(organizations')
  <2>1. Len(organizations) + n \in Nat
      BY <1>4
  <2>2. organizations' = [i \in 1..(Len(organizations) + n) |-> organizations'[i]]
      BY <1>2, <1>5
  <2> QED BY <1>5, <1>9, <2>1, <2>2, NumberedTable
<1>11. \A o \in DOMAIN organizations :
          /\ organizations'[o].fingerprint = organizations[o].fingerprint
          /\ organizations[o].website # None => organizations'[o].website # None
          /\ ~RowFree(o) => organizations'[o] = organizations[o]
    BY <1>5, <1>7, <1>9, <1>e
<1>12. ASSUME NEW i \in 1..n
       PROVE  organizations'[Len(organizations) + i].fingerprint = FirstFingerprint(Fresh[i].data)
  <2>1. Len(organizations) + i \in DOMAIN grown
      BY <1>5, <1>7
  <2> QED BY <1>5, <1>9, <1>f, <2>1
<1>13. \A e : e \in Claims(Link) <=> \E r \in Imported : \E i : Named(r, i) /\ e = [key |-> i, owner |-> Link[r]]
    BY DEF Claims, Named
<1>14. \A i, b : Claimed(i, b)' <=> Claimed(i, b) \/ \E r \in Imported : Named(r, i) /\ b = Link[r]
  <2>1. ASSUME NEW i, NEW b
        PROVE  Claimed(i, b)' <=> Claimed(i, b) \/ \E r \in Imported : Named(r, i) /\ b = Link[r]
    <3>1. PICK c : c = [key |-> i, owner |-> b]
        OBVIOUS
    <3>2. c \in Claims(Link) <=> \E r \in Imported : Named(r, i) /\ b = Link[r]
        BY <1>13, <3>1
    <3>3. Claimed(i, b)' <=> c \in identifiers'
        BY <3>1 DEF Claimed
    <3>4. Claimed(i, b) <=> c \in identifiers
        BY <3>1 DEF Claimed
    <3> QED BY <1>1, <3>2, <3>3, <3>4
  <2> QED BY <2>1
<1>15. ASSUME NEW r \in Imported, NEW i, NEW b, Named(r, i), Claimed(i, b) PROVE b = Link[r]
  <2>1. PICK c : c = [key |-> i, owner |-> Link[r]]
      OBVIOUS
  <2>2. c \in Claims(Link)
      BY <1>13, <1>15, <2>1
  <2>3. IdentifierOwner(c.key) \ {c.owner} = {}
      BY <1>1, <2>2 DEF ClaimRefused
  <2>4. b \in IdentifierOwner(i)
      BY <1>15 DEF IdentifierOwner, Claimed
  <2> QED BY <2>1, <2>3, <2>4
<1>16. ASSUME NEW r \in Imported, NEW s \in Imported, NEW i, Named(r, i), Named(s, i) PROVE r = s
    BY <1>1, <1>16 DEF ClaimRefused, Named
<1>17. \A e \in identifiers' : e \in identifiers \/ \E r \in Imported : \E i : e = [key |-> i, owner |-> Link[r]]
    BY <1>1, <1>13
<1> QED BY <1>3, <1>6, <1>7, <1>10, <1>11, <1>12, <1>14, <1>15, <1>16, <1>17 DEF ImportFacts

(* A new organization has a name that its claim explains, and nobody else   *)
(* claims it: evidence keeps its one owner.                                 *)
LEMMA CanonicalizeKeepsIdentity ==
    ASSUME IdentityInv, RowsInv, ImportInv, Canonicalize
    PROVE  IdentityInv' /\ Grows
<1>1. PICK n \in Nat : ImportFacts(n)
    BY CanonicalizeFacts
<1>2. importing.pc = "matched" /\ evidence' = evidence /\ exec' = exec
    BY DEF Canonicalize
<1>3. Len(organizations) \in Nat /\ DOMAIN organizations = 1..Len(organizations) /\ IsTable(organizations)
    BY TableFacts DEF IdentityInv, Shaped
<1>4. /\ n \in Nat /\ DOMAIN Fresh = 1..n
      /\ \A i \in 1..n : Fresh[i] \in Imported /\ Link[Fresh[i]] = Len(organizations) + i
      /\ \A r \in Imported : Link[r] \in DOMAIN organizations'
    BY <1>1 DEF ImportFacts, FreshFacts
<1>5. identifiers \subseteq identifiers'
    BY DEF Canonicalize
<1>6. Grows
    BY <1>1, <1>5 DEF Grows, ImportFacts
<1>7. Shaped'
  <2>1. ASSUME NEW e \in (identifiers \cup evidence)' PROVE IsOwnership(e)'
    <3>1. CASE e \in identifiers \cup evidence
        BY <1>6, <3>1 DEF IdentityInv, Shaped, IsOwnership, Grows
    <3>2. CASE \E r \in Imported : \E i : e = [key |-> i, owner |-> Link[r]]
        BY <1>4, <3>2 DEF IsOwnership
    <3> QED BY <1>1, <1>2, <2>1, <3>1, <3>2 DEF ImportFacts
  <2>2. IsTable(organizations')
      BY <1>1 DEF ImportFacts
  <2> QED BY <1>2, <2>1, <2>2 DEF Shaped, IdentityInv
<1>8. OneClaim'
  <2>1. \A i, a, b : Claimed(i, a) /\ Claimed(i, b) => a = b
      BY DEF IdentityInv, OneClaim
  <2>2. \A i, b : Claimed(i, b)' => Claimed(i, b) \/ \E r \in Imported : Named(r, i) /\ b = Link[r]
      BY <1>1 DEF ImportFacts
  <2>3. /\ \A r \in Imported : \A i, b : Named(r, i) /\ Claimed(i, b) => b = Link[r]
        /\ \A r, s \in Imported : \A i : Named(r, i) /\ Named(s, i) => r = s
      BY <1>1 DEF ImportFacts
  <2>4. ASSUME NEW i, NEW a, NEW b, Claimed(i, a)', Claimed(i, b)' PROVE a = b
    <3>1. CASE \E r \in Imported : Named(r, i) /\ a = Link[r]
        BY <2>2, <2>3, <2>4, <3>1
    <3>2. CASE Claimed(i, a)
        BY <2>1, <2>2, <2>3, <2>4, <3>2
    <3> QED BY <2>2, <2>4, <3>1, <3>2
  <2> QED BY <2>4 DEF OneClaim
<1>9. ASSUME NEW k, NEW b, NewName(k, b)
      PROVE  \E i : k = <<"oid", i>> /\ Claimed(i, b)'
  <2>1. PICK j \in 1..n : b = Len(organizations) + j /\ k = FirstFingerprint(Fresh[j].data)
      BY <1>4, <1>9 DEF NewName
  <2>2. PICK r \in Imported : r = Fresh[j]
      BY <1>4
  <2>3. PICK i : i = r.data.identifiers[1]
      OBVIOUS
  <2>4. Named(r, i)
      BY <1>2, <2>3, ImportedRow DEF Named
  <2>5. b = Link[r]
      BY <1>4, <2>1, <2>2
  <2>6. Claimed(i, b)'
      BY <1>1, <2>4, <2>5 DEF ImportFacts
  <2>7. k = <<"oid", i>>
      BY <2>1, <2>2, <2>3 DEF FirstFingerprint
  <2> QED BY <2>6, <2>7
<1>10. ASSUME NEW k, NEW b, Names(k, b)' PROVE Names(k, b) \/ NewName(k, b)
  <2>1. CASE Evident(k, b)'
      BY <1>2, <2>1 DEF Names, Evident
  <2>2. CASE b \in DOMAIN organizations' /\ organizations'[b].fingerprint = k
    <3>1. CASE b \in DOMAIN organizations
        BY <1>1, <2>2, <3>1 DEF Names, ImportFacts
    <3>2. CASE b \notin DOMAIN organizations
      <4>1. PICK i \in 1..n : b = Len(organizations) + i
          BY <1>1, <2>2, <3>2 DEF ImportFacts
      <4>2. k = FirstFingerprint(Fresh[i].data)
          BY <1>1, <2>2, <4>1 DEF ImportFacts
      <4> QED BY <1>4, <4>1, <4>2 DEF NewName
    <3> QED BY <3>1, <3>2
  <2> QED BY <1>10, <2>1, <2>2 DEF Names
<1>11. OfficialKeys'
  <2>1. ASSUME NEW i, NEW b, Names(<<"oid", i>>, b)' PROVE Claimed(i, b)'
    <3>1. CASE Names(<<"oid", i>>, b)
      <4>1. Claimed(i, b)
          BY <3>1 DEF IdentityInv, OfficialKeys
      <4> QED BY <1>5, <4>1 DEF Claimed
    <3>2. CASE NewName(<<"oid", i>>, b)
        BY <1>9, <3>2
    <3> QED BY <1>10, <2>1, <3>1, <3>2
  <2> QED BY <2>1 DEF OfficialKeys
<1>12. OneName'
  <2>1. \A k, a, b : Names(k, a) /\ Names(k, b) => a = b
      BY DEF IdentityInv, OneName
  <2>2. ASSUME NEW k, NEW a, NEW b, Names(k, a)', Names(k, b)', NewName(k, a) PROVE a = b
    <3>1. PICK i : k = <<"oid", i>> /\ Claimed(i, a)'
        BY <1>9, <2>2
    <3>2. Claimed(i, b)'
        BY <1>11, <2>2, <3>1 DEF OfficialKeys
    <3> QED BY <1>8, <3>1, <3>2 DEF OneClaim
  <2>3. ASSUME NEW k, NEW a, NEW b, Names(k, a)', Names(k, b)' PROVE a = b
      BY <1>10, <2>1, <2>2, <2>3
  <2> QED BY <2>3 DEF OneName
<1>13. SourcesNameNobody'
  <2>1. ASSUME NEW b \in DOMAIN organizations', NEW x, organizations'[b].fingerprint = <<"source", x>> PROVE FALSE
    <3>1. CASE b \in DOMAIN organizations
        BY <1>1, <2>1, <3>1 DEF IdentityInv, SourcesNameNobody, ImportFacts
    <3>2. CASE b \notin DOMAIN organizations
      <4>1. PICK i \in 1..n : b = Len(organizations) + i
          BY <1>1, <2>1, <3>2 DEF ImportFacts
      <4>2. organizations'[b].fingerprint = FirstFingerprint(Fresh[i].data)
          BY <1>1, <4>1 DEF ImportFacts
      <4>3. \A data : FirstFingerprint(data) # <<"source", x>>
          BY DEF FirstFingerprint
      <4> QED BY <2>1, <4>2, <4>3
    <3> QED BY <3>1, <3>2
  <2> QED BY <2>1 DEF SourcesNameNobody
<1>14. LocksExclude'
    BY <1>2 DEF IdentityInv, LocksExclude, Held
<1>15. ResolvedIsKnown'
  <2> SUFFICES ASSUME NEW v \in Writers, exec'[v].pc = "resolved" PROVE Known(v)'
      BY DEF ResolvedIsKnown
  <2>1. exec'[v] = exec[v] /\ Known(v) /\ exec[v].rec \in Records
      BY <1>2 DEF IdentityInv, ResolvedIsKnown, Shaped
  <2>2. ASSUME NEW k \in Keys(exec[v].rec), NEW b, Names(k, b)'
        PROVE  b \in exec[v].owners \/ k = <<"oid", exec[v].rec.identifier>>
    <3>1. CASE Names(k, b)
        BY <2>1, <2>2, <3>1 DEF Known
    <3>2. CASE NewName(k, b)
      <4>1. PICK i : k = <<"oid", i>>
          BY <1>9, <3>2
      <4>2. <<"oid", i>> \in Keys(exec[v].rec)
          BY <2>2, <4>1
      <4>3. i = exec[v].rec.identifier
          BY <2>1, <4>2, KeyFacts
      <4> QED BY <4>1, <4>3
    <3> QED BY <1>10, <2>2, <3>1, <3>2
  <2>3. ASSUME NEW o \in exec[v].owners PROVE organizations'[o].fingerprint = organizations[o].fingerprint
      BY <1>1, <2>1 DEF Known, ImportFacts
  <2>4. \A k, o : Evident(k, o)' <=> Evident(k, o)
      BY <1>2 DEF Evident
  <2>5. exec[v].owners \subseteq DOMAIN organizations'
      BY <1>6, <2>1 DEF Grows, Known
  <2>6. ASSUME NEW o \in exec[v].owners, NEW s \in exec[v].stored
        PROVE  /\ \A x : s # <<"source", x>>
               /\ s = organizations'[o].fingerprint \/ (Evident(s, o)' /\ Evident(organizations[o].fingerprint, o)')
      BY <2>1, <2>3, <2>4 DEF Known
  <2>7. \A a, b \in exec[v].owners : a = b
      BY <2>1 DEF Known
  <2> QED BY <2>1, <2>2, <2>5, <2>6, <2>7 DEF Known
<1> QED BY <1>6, <1>7, <1>8, <1>11, <1>12, <1>13, <1>14, <1>15 DEF IdentityInv

(* The rows after a canonicalization: those imported have the organization  *)
(* that claims each of their identifiers, those held have none.             *)
After(r) ==
    IF r \in Imported THEN [r EXCEPT !.organization = Link[r], !.status = StatusOf(r.data)]
    ELSE IF Key(r.data) \in importing.held
         THEN [r EXCEPT !.organization = None, !.status = "reconciliation_hold", !.data.reason = TRUE]
         ELSE r

(* Canonicalization keeps the tables and the import rows in order.         *)
LEMMA CanonicalizeKeepsRows ==
    ASSUME IdentityInv, RowsInv, ImportInv, Canonicalize
    PROVE  RowsInv' /\ ImportInv'
<1>1. PICK n \in Nat : ImportFacts(n)
    BY CanonicalizeFacts
<1>2. importing.pc = "matched" /\ importing' = NoImport /\ identifiers \subseteq identifiers'
    BY DEF Canonicalize
<1>3. \A r \in Imported : r \in rows /\ Key(r.data) \notin importing.held
    BY <1>2 DEF Imported, ImportInv
<1>4. rows' = {After(r) : r \in rows}
  <2> DEFINE heldNow == {r \in rows : Key(r.data) \in importing.held}
  <2>1. rows' = (rows \ (Imported \cup heldNow))
                \cup {[r EXCEPT !.organization = Link[r], !.status = StatusOf(r.data)] : r \in Imported}
                \cup {[r EXCEPT !.organization = None, !.status = "reconciliation_hold",
                                !.data.reason = TRUE] : r \in heldNow}
      BY DEF Canonicalize, Fresh, Link
  <2>2. \A r \in rows \ (Imported \cup heldNow) : After(r) = r
      BY DEF After
  <2>3. \A r \in Imported : After(r) = [r EXCEPT !.organization = Link[r], !.status = StatusOf(r.data)]
      BY DEF After
  <2>4. \A r \in heldNow : /\ After(r) = [r EXCEPT !.organization = None, !.status = "reconciliation_hold",
                                                   !.data.reason = TRUE]
                           /\ r \in rows
      BY <1>3 DEF After
  <2> HIDE DEF heldNow
  <2>5. rows' \subseteq {After(r) : r \in rows}
      BY <1>3, <2>1, <2>2, <2>3, <2>4
  <2>6. ASSUME NEW r \in rows PROVE After(r) \in rows'
    <3>1. CASE r \in Imported
        BY <2>1, <2>3, <3>1
    <3>2. CASE r \in heldNow
        BY <2>1, <2>4, <3>2
    <3>3. CASE r \notin Imported \cup heldNow
        BY <2>1, <2>2, <3>3
    <3> QED BY <3>1, <3>2, <3>3
  <2> QED BY <2>5, <2>6
<1>5. ASSUME NEW r \in rows
      PROVE  /\ RowShape(After(r)) /\ Key(After(r).data) = Key(r.data)
             /\ \A s : s = After(r) => LinkHolds(s)'
  <2>0. PICK s : s = After(r)
      OBVIOUS
  <2>1. RowShape(r) /\ LinkHolds(r)
      BY DEF RowsInv
  <2>2. PICK data \in UNION Files : r.data = data \/ r.data = [data EXCEPT !.reason = TRUE]
      BY <2>1 DEF RowShape, SaysTheFile
  <2>3. CASE r \in Imported
    <3>1. /\ DOMAIN After(r) = DOMAIN r /\ After(r).data = r.data
          /\ After(r).organization = Link[r] /\ After(r).status = StatusOf(r.data)
        BY <2>1, <2>3 DEF After, RowShape
    <3>2. Link[r] # None
      <4>1. Link[r] \in DOMAIN organizations'
          BY <1>1, <2>3 DEF ImportFacts, FreshFacts
      <4>2. DOMAIN organizations' \subseteq Nat
        <5>1. IsTable(organizations')
            BY <1>1 DEF ImportFacts
        <5> QED BY <5>1, TableFacts
      <4> QED BY <4>1, <4>2, WebsiteAssumption
    <3>0. PICK l : l = Link[r]
        OBVIOUS
    <3>3. \A i \in ToSet(r.data.identifiers) : Claimed(i, l)'
        BY <1>1, <2>3, <3>0 DEF ImportFacts, Named
    <3>4. StatusOf(r.data) \in {"imported", "classification_hold"}
        BY DEF StatusOf
    <3>5. r.data.status # "reconciliation_hold"
        BY <1>2, <2>1, <2>3, ImportedRow DEF Selected, Ready, LinkHolds
    <3>6. LinkHolds(s)'
        BY <2>0, <3>0, <3>1, <3>2, <3>3, <3>4, <3>5 DEF LinkHolds
    <3> QED BY <2>0, <2>1, <3>1, <3>6 DEF RowShape, SaysTheFile
  <2>4. CASE r \notin Imported /\ Key(r.data) \in importing.held
    <3>1. After(r) = [r EXCEPT !.organization = None, !.status = "reconciliation_hold", !.data.reason = TRUE]
        BY <2>4 DEF After
    <3>2. /\ DOMAIN After(r) = DOMAIN r /\ After(r).data = [r.data EXCEPT !.reason = TRUE]
          /\ After(r).organization = None /\ After(r).status = "reconciliation_hold"
        BY <2>1, <3>1 DEF RowShape
    <3>3. After(r).data = [data EXCEPT !.reason = TRUE] /\ Key(After(r).data) = Key(r.data)
        BY <2>2, <3>2, FileAssumption DEF Key
    <3>4. LinkHolds(s)'
        BY <2>0, <3>2 DEF LinkHolds
    <3> QED BY <2>0, <2>1, <3>2, <3>3, <3>4 DEF RowShape, SaysTheFile
  <2>5. CASE r \notin Imported /\ Key(r.data) \notin importing.held
    <3>1. After(r) = r
        BY <2>5 DEF After
    <3>2. LinkHolds(r)'
        BY <1>2, <2>1 DEF LinkHolds, Claimed
    <3>3. s = r
        BY <2>0, <3>1
    <3>4. LinkHolds(s)'
        BY <3>2, <3>3
    <3> QED BY <2>0, <2>1, <3>1, <3>4
  <2> QED BY <2>3, <2>4, <2>5
<1>6. IsFiniteSet(rows')
  <2> DEFINE f == [r \in rows |-> After(r)]
  <2>1. f = [r \in rows |-> f[r]] /\ {After(r) : r \in rows} = {f[r] : r \in rows}
      OBVIOUS
  <2> HIDE DEF f
  <2> QED BY <1>4, <2>1, ImageFinite DEF RowsInv
<1>7. ASSUME NEW r \in rows' PROVE RowShape(r)' /\ LinkHolds(r)'
  <2>1. PICK s \in rows : r = After(s)
      BY <1>4, <1>7
  <2>2. RowShape(r) /\ LinkHolds(r)'
      BY <1>5, <2>1
  <2> QED BY <2>2 DEF RowShape, SaysTheFile
<1>8. ASSUME NEW p \in rows', NEW q \in rows', Key(p.data) = Key(q.data) PROVE p = q
  <2>1. PICK r \in rows, s \in rows : p = After(r) /\ q = After(s)
      BY <1>4, <1>8
  <2>2. Key(r.data) = Key(s.data)
      BY <1>5, <1>8, <2>1
  <2> QED BY <2>1, <2>2 DEF RowsInv
<1>9. ImportInv'
    BY <1>2 DEF ImportInv, NoImport
<1> QED BY <1>6, <1>7, <1>8, <1>9 DEF RowsInv

----------------------------------------------------------------------------
(* Websites.                                                                *)

(* A website given to an organization changes no name.                      *)
LEMMA WebsiteGiven ==
    ASSUME IdentityInv, NEW o \in DOMAIN organizations, NEW url, url # None,
           organizations' = [organizations EXCEPT ![o].website = url],
           NEW w \in Writers, exec' = [exec EXCEPT ![w] = Free], UNCHANGED <<identifiers, evidence>>
    PROVE  /\ IdentityInv' /\ Grows /\ organizations'[o].website = url
           /\ \A i \in DOMAIN organizations \ {o} : organizations'[i] = organizations[i]
<1> DEFINE row == [organizations[o] EXCEPT !.website = url]
<1>1. IsTable(organizations) /\ DOMAIN organizations[o] = RowFields
    BY DEF IdentityInv, Shaped, IsTable
<1>2. /\ DOMAIN row = RowFields /\ row.website = url /\ row.fingerprint = organizations[o].fingerprint
    BY <1>1 DEF RowFields
<1>3. organizations' = [organizations EXCEPT ![o] = row]
    OBVIOUS
<1> HIDE DEF row
<1>4. /\ IsTable(organizations') /\ DOMAIN organizations' = DOMAIN organizations
      /\ \A i \in DOMAIN organizations : organizations'[i] = IF i = o THEN row ELSE organizations[i]
  <2>1. /\ IsTable([organizations EXCEPT ![o] = row])
        /\ DOMAIN [organizations EXCEPT ![o] = row] = DOMAIN organizations
        /\ \A i \in DOMAIN organizations :
              [organizations EXCEPT ![o] = row][i] = IF i = o THEN row ELSE organizations[i]
      BY <1>1, <1>2, TableUpdated
  <2> QED BY <1>3, <2>1
<1>5. \A i \in DOMAIN organizations : organizations'[i].fingerprint = organizations[i].fingerprint
    BY <1>2, <1>4
<1>6. \A k, b : Evident(k, b)' <=> Evident(k, b)
    BY DEF Evident
<1>7. \A k, b : Names(k, b)' <=> Names(k, b)
    BY <1>4, <1>5, <1>6 DEF Names
<1>f. DOMAIN exec' = Writers /\ exec'[w] = Free /\ Free.pc = "free" /\ \A v \in Writers \ {w} : exec'[v] = exec[v]
    BY DEF IdentityInv, Shaped, Free
<1>8. Shaped'
  <2>1. ASSUME NEW v \in Writers
        PROVE  /\ exec'[v].pc \in {"free", "begun", "resolved", "relating", "reviewing", "verifying"}
               /\ exec'[v].pc = "free" => exec'[v] = Free
               /\ exec'[v].pc \in {"begun", "resolved"} => exec'[v].rec \in Records
      BY <1>f DEF IdentityInv, Shaped
  <2> QED BY <1>4, <1>f, <2>1 DEF IdentityInv, Shaped, IsOwnership
<1>9. OneName' /\ OneClaim' /\ OfficialKeys' /\ SourcesNameNobody'
    BY <1>4, <1>5, <1>7 DEF IdentityInv, OneName, OneClaim, OfficialKeys, SourcesNameNobody, Claimed
<1>l. LocksExclude'
    BY LocksReleased DEF IdentityInv, Shaped
<1>10. ResolvedIsKnown'
  <2> SUFFICES ASSUME NEW v \in Writers, exec'[v].pc = "resolved" PROVE Known(v)'
      BY DEF ResolvedIsKnown
  <2>1. Known(v) /\ exec'[v] = exec[v]
      BY <1>f DEF IdentityInv, ResolvedIsKnown
  <2>2. ASSUME NEW b \in exec[v].owners, NEW s \in exec[v].stored
        PROVE  s = organizations'[b].fingerprint \/ (Evident(s, b)' /\ Evident(organizations[b].fingerprint, b)')
      BY <1>5, <1>6, <2>1 DEF Known
  <2> QED BY <1>4, <1>7, <2>1, <2>2 DEF Known
<1>11. Grows
    BY <1>2, <1>4 DEF Grows
<1>12. organizations'[o].website = url
    BY <1>2, <1>4
<1> QED BY <1>4, <1>8, <1>9, <1>l, <1>10, <1>11, <1>12 DEF IdentityInv

(* What reviewers have locked stays as they read it when their candidates   *)
(* stay, nobody else locks one, and no row they hold is written.            *)
LEMMA ReviewsStand ==
    ASSUME ReviewInv, candidates \subseteq candidates',
           \A w \in Writers : ReviewOpen(w)' => exec'[w] = exec[w],
           \A w \in Writers : Verifying(w) =>
               organizations'[exec[w].candidate.organization].website
                   = organizations[exec[w].candidate.organization].website
    PROVE  ReviewInv'
<1>1. \A w \in Writers : ReviewOpen(w)' => ReviewOpen(w)
    BY DEF ReviewOpen
<1>2. \A w \in Writers : Verifying(w)' => Verifying(w) /\ exec'[w] = exec[w]
    BY DEF ReviewOpen, Verifying
<1>3. ASSUME NEW w \in Writers, ReviewOpen(w)'
      PROVE  exec'[w].candidate \in candidates' /\ exec'[w].candidate.status = "proposed"
    BY <1>1, <1>3 DEF ReviewInv
<1>4. ASSUME NEW v \in Writers, NEW w \in Writers, ReviewOpen(v)', ReviewOpen(w)', exec'[v].candidate = exec'[w].candidate
      PROVE  v = w
    BY <1>1, <1>4 DEF ReviewInv
<1>5. ASSUME NEW w \in Writers, Verifying(w)' PROVE organizations'[exec'[w].candidate.organization].website = None
    BY <1>2, <1>5 DEF ReviewInv
<1>6. ASSUME NEW v \in Writers, NEW w \in Writers, Verifying(v)', Verifying(w)',
             exec'[v].candidate.organization = exec'[w].candidate.organization
      PROVE  v = w
    BY <1>2, <1>6 DEF ReviewInv
<1> QED BY <1>3, <1>4, <1>5, <1>6 DEF ReviewInv

(* A writer that does not review disturbs no review.                        *)
LEMMA WriterLeavesReviews ==
    ASSUME OrganizationInv, NEW w \in Writers, NEW x, exec' = [exec EXCEPT ![w] = x],
           x.pc \notin {"reviewing", "verifying"}, candidates \subseteq candidates',
           \A v \in Writers : Verifying(v) =>
               organizations'[exec[v].candidate.organization].website
                   = organizations[exec[v].candidate.organization].website
    PROVE  ReviewInv'
<1>1. DOMAIN exec = Writers
    BY DEF OrganizationInv, IdentityInv, Shaped
<1>2. \A v \in Writers : ReviewOpen(v)' => exec'[v] = exec[v]
    BY <1>1 DEF ReviewOpen
<1> QED BY <1>2, ReviewsStand DEF OrganizationInv

(* Upserts wait for the rows that reviewers hold.                           *)
LEMMA IdentityLeavesReviews ==
    ASSUME OrganizationInv, IdentityNext, UNCHANGED spineVars
    PROVE  ReviewInv'
<1> SUFFICES ASSUME NEW w \in Writers,
                    \/ \E rec \in Records : BeginUpsert(w, rec)
                    \/ Resolve(w) \/ CommitUpsert(w) \/ Rollback(w)
                    \/ \E e \in Edges : BeginRelationship(w, e)
                    \/ CommitRelationship(w)
             PROVE  ReviewInv'
    BY DEF IdentityNext
<1>0. candidates' = candidates /\ DOMAIN exec = Writers
    BY DEF spineVars, OrganizationInv, IdentityInv, Shaped
<1>1. ASSUME NEW x, exec' = [exec EXCEPT ![w] = x], x.pc \notin {"reviewing", "verifying"}, UNCHANGED organizations
      PROVE  ReviewInv'
    BY <1>0, <1>1, WriterLeavesReviews
<1>2. ASSUME NEW rec \in Records, BeginUpsert(w, rec) PROVE ReviewInv'
    BY <1>1, <1>2 DEF BeginUpsert
<1>3. CASE Resolve(w)
  <2> DEFINE owners == Owners(exec[w].rec)
             x == IF Cardinality(owners) > 1 THEN Free
                  ELSE [pc |-> "resolved", rec |-> exec[w].rec, owners |-> owners,
                        stored |-> {organizations[o].fingerprint : o \in owners}]
  <2>1. exec' = [exec EXCEPT ![w] = x] /\ UNCHANGED organizations
      BY <1>0, <1>3 DEF Resolve
  <2>2. x.pc \notin {"reviewing", "verifying"}
      BY DEF Free
  <2> HIDE DEF x
  <2> QED BY <1>1, <2>1, <2>2
<1>4. CASE Rollback(w) \/ CommitRelationship(w)
    BY <1>1, <1>4 DEF Rollback, CommitRelationship, Free
<1>5. ASSUME NEW e \in Edges, BeginRelationship(w, e) PROVE ReviewInv'
  <2>1. CASE Refused(relationships, e)
      BY <1>1, <1>5, <2>1 DEF BeginRelationship, Free
  <2>2. CASE ~Refused(relationships, e)
      BY <1>1, <1>5, <2>2 DEF BeginRelationship
  <2> QED BY <2>1, <2>2
<1>6. CASE CommitUpsert(w)
  <2>1. exec[w].pc = "resolved" /\ exec' = [exec EXCEPT ![w] = Free] /\ Free.pc = "free" /\ IdentityInv
      BY <1>6 DEF CommitUpsert, Free, OrganizationInv
  <2>2. PICK o, row, kept : Upserted(exec[w].rec, o, row, kept) /\ Placing(w, o, row, kept)
      BY <1>6, <2>1, CommitPlaces
  <2>3. UpsertFacts(w, o, row, kept)
      BY <2>1, <2>2, UpsertNames
  <2>4. o \in DOMAIN organizations => RowFree(o)
      BY <2>1, <2>2, TableFacts DEF Placing, IdentityInv, Shaped
  <2>5. ASSUME NEW v \in Writers, Verifying(v)
        PROVE  organizations'[exec[v].candidate.organization] = organizations[exec[v].candidate.organization]
    <3>1. exec[v].candidate \in candidates
        BY <2>5 DEF OrganizationInv, ReviewInv, ReviewOpen, Verifying
    <3>2. exec[v].candidate.organization \in DOMAIN organizations
        BY <3>1 DEF OrganizationInv, WebsiteInv
    <3>3. exec[v].candidate.organization # o
        BY <2>4, <2>5, <3>2 DEF RowFree, Verifying
    <3> QED BY <2>3, <3>2, <3>3 DEF UpsertFacts
  <2> QED BY <1>0, <2>1, <2>5, WriterLeavesReviews
<1> QED BY <1>2, <1>3, <1>4, <1>5, <1>6

(* So does the import.                                                      *)
LEMMA CanonicalizeLeavesReviews ==
    ASSUME OrganizationInv, Canonicalize
    PROVE  ReviewInv'
<1>1. PICK n \in Nat : ImportFacts(n)
    BY CanonicalizeFacts DEF OrganizationInv
<1>2. exec' = exec /\ candidates' = candidates
    BY DEF Canonicalize
<1>3. ASSUME NEW v \in Writers, Verifying(v)
      PROVE  organizations'[exec[v].candidate.organization] = organizations[exec[v].candidate.organization]
  <2>1. exec[v].candidate \in candidates
      BY <1>3 DEF OrganizationInv, ReviewInv, ReviewOpen, Verifying
  <2>2. exec[v].candidate.organization \in DOMAIN organizations
      BY <2>1 DEF OrganizationInv, WebsiteInv
  <2>3. ~RowFree(exec[v].candidate.organization)
      BY <1>3 DEF RowFree, Verifying
  <2> QED BY <1>1, <2>2, <2>3 DEF ImportFacts
<1> QED BY <1>2, <1>3, ReviewsStand DEF OrganizationInv

(* A reviewer that locks something: it was proposed, it had no website, and *)
(* nobody else held it.                                                     *)
LEMMA ReviewerLocks ==
    ASSUME OrganizationInv, NEW w \in Writers,
           (\E c \in candidates : LockCandidate(w, c)) \/ LockOrganization(w)
    PROVE  OrganizationInv'
<1>0. /\ DOMAIN exec = Writers /\ exec[w].pc # "verifying"
      /\ UNCHANGED <<organizations, identifiers, evidence, candidates>> /\ UNCHANGED spineVars
    BY DEF OrganizationInv, IdentityInv, Shaped, LockCandidate, LockOrganization, Free, spineVars
<1>1. PICK x :
          /\ exec' = [exec EXCEPT ![w] = x]
          /\ \/ x = Free
             \/ /\ x.candidate \in candidates /\ x.candidate.status = "proposed"
                /\ \A v \in Writers \ {w} : ReviewOpen(v) => exec[v].candidate # x.candidate
                /\ \/ x.pc = "reviewing"
                   \/ /\ x.pc = "verifying" /\ organizations[x.candidate.organization].website = None
                      /\ \A v \in Writers \ {w} :
                            Verifying(v) => exec[v].candidate.organization # x.candidate.organization
  <2>1. ASSUME NEW c \in candidates, LockCandidate(w, c)
        PROVE  /\ exec' = [exec EXCEPT ![w] = [pc |-> "reviewing", candidate |-> c]] /\ c.status = "proposed"
               /\ \A v \in Writers \ {w} : ReviewOpen(v) => exec[v].candidate # c
      BY <2>1 DEF LockCandidate, CandidateFree, ReviewOpen
  <2>2. CASE LockOrganization(w)
    <3> DEFINE x == IF NoWebsiteYet(exec[w].candidate.organization)
                    THEN [pc |-> "verifying", candidate |-> exec[w].candidate] ELSE Free
    <3>1. exec' = [exec EXCEPT ![w] = x]
        BY <1>0, <2>2 DEF LockOrganization
    <3>2. /\ exec[w].candidate \in candidates /\ exec[w].candidate.status = "proposed"
          /\ \A v \in Writers \ {w} : ReviewOpen(v) => exec[v].candidate # exec[w].candidate
        BY <2>2 DEF LockOrganization, OrganizationInv, ReviewInv, ReviewOpen
    <3>3. \A v \in Writers : Verifying(v) => exec[v].candidate.organization # exec[w].candidate.organization
        BY <2>2 DEF LockOrganization, RowFree, Verifying
    <3>4. x = Free \/ (/\ x.pc = "verifying" /\ x.candidate = exec[w].candidate
                       /\ organizations[exec[w].candidate.organization].website = None)
        BY DEF NoWebsiteYet
    <3> HIDE DEF x
    <3> QED BY <3>1, <3>2, <3>3, <3>4
  <2> QED BY <2>1, <2>2
<1>2. Free.pc = "free"
    BY DEF Free
<1>3. IdentityInv'
  <2>1. x.pc \in {"free", "reviewing", "verifying"} /\ (x.pc = "free" => x = Free)
      BY <1>1, <1>2
  <2> QED BY <1>0, <1>1, <2>1, WriterStep DEF OrganizationInv
<1>4. exec'[w] = x /\ \A v \in Writers \ {w} : exec'[v] = exec[v]
    BY <1>0, <1>1
<1>5. \A v \in Writers \ {w} : (ReviewOpen(v)' <=> ReviewOpen(v)) /\ (Verifying(v)' <=> Verifying(v))
    BY <1>4 DEF ReviewOpen, Verifying
<1>6. (ReviewOpen(w)' => x # Free) /\ (Verifying(w)' => x # Free /\ x.pc = "verifying")
    BY <1>2, <1>4 DEF ReviewOpen, Verifying
<1>7. ReviewInv'
  <2>1. ASSUME NEW v \in Writers, ReviewOpen(v)'
        PROVE  exec'[v].candidate \in candidates' /\ exec'[v].candidate.status = "proposed"
      BY <1>0, <1>1, <1>4, <1>5, <1>6, <2>1 DEF OrganizationInv, ReviewInv
  <2>2. ASSUME NEW v \in Writers \ {w}, ReviewOpen(v)', ReviewOpen(w)' PROVE exec'[v].candidate # exec'[w].candidate
      BY <1>1, <1>4, <1>5, <1>6, <2>2
  <2>3. ASSUME NEW u \in Writers, NEW v \in Writers, ReviewOpen(u)', ReviewOpen(v)',
               exec'[u].candidate = exec'[v].candidate
        PROVE  u = v
    <3>1. CASE u # w /\ v # w
        BY <1>4, <1>5, <2>3, <3>1 DEF OrganizationInv, ReviewInv
    <3> QED BY <2>2, <2>3, <3>1
  <2>4. ASSUME NEW v \in Writers, Verifying(v)' PROVE organizations'[exec'[v].candidate.organization].website = None
      BY <1>0, <1>1, <1>2, <1>4, <1>5, <1>6, <2>4 DEF OrganizationInv, ReviewInv
  <2>5. ASSUME NEW v \in Writers \ {w}, Verifying(v)', Verifying(w)'
        PROVE  exec'[v].candidate.organization # exec'[w].candidate.organization
      BY <1>1, <1>4, <1>5, <1>6, <2>5
  <2>6. ASSUME NEW u \in Writers, NEW v \in Writers, Verifying(u)', Verifying(v)',
               exec'[u].candidate.organization = exec'[v].candidate.organization
        PROVE  u = v
    <3>1. CASE u # w /\ v # w
        BY <1>4, <1>5, <2>6, <3>1 DEF OrganizationInv, ReviewInv
    <3> QED BY <2>5, <2>6, <3>1
  <2> QED BY <2>1, <2>3, <2>4, <2>6 DEF ReviewInv
<1>8. Grows
    BY <1>0 DEF Grows
<1> QED BY <1>0, <1>3, <1>7, <1>8, GrowthKeeps DEF OrganizationInv

(* The write of a reviewer: what was read is still so.                      *)
LEMMA ReviewerVerifies ==
    ASSUME OrganizationInv, NEW w \in Writers, VerifyCandidate(w)
    PROVE  OrganizationInv'
<1> PICK c : c = exec[w].candidate
    OBVIOUS
<1> DEFINE d == [c EXCEPT !.status = "verified"]
<1>0. DOMAIN exec = Writers /\ Verifying(w) /\ ReviewOpen(w)
    BY DEF OrganizationInv, IdentityInv, Shaped, VerifyCandidate, Verifying, ReviewOpen
<1>1. \A e \in candidates :
          /\ DOMAIN e = {"organization", "url", "status"}
          /\ e.organization \in DOMAIN organizations /\ e.url \in Websites
    BY DEF OrganizationInv, WebsiteInv
<1>2. /\ candidates' = (candidates \ {c}) \cup {d}
      /\ organizations' = [organizations EXCEPT ![c.organization].website = c.url]
      /\ exec' = [exec EXCEPT ![w] = Free] /\ UNCHANGED <<identifiers, evidence, rows, importing>>
    BY DEF VerifyCandidate, Review
<1>3. c \in candidates /\ organizations[c.organization].website = None
    BY <1>0 DEF OrganizationInv, ReviewInv
<1>4. d.status = "verified" /\ d.organization = c.organization /\ d.url = c.url /\ DOMAIN d = DOMAIN c
    BY <1>1, <1>3
<1> HIDE DEF d
<1>5. c.organization \in DOMAIN organizations /\ c.url # None
    BY <1>1, <1>3, WebsiteAssumption
<1>6. /\ IdentityInv' /\ Grows /\ organizations'[c.organization].website = c.url
      /\ \A i \in DOMAIN organizations \ {c.organization} : organizations'[i] = organizations[i]
    BY <1>2, <1>5, WebsiteGiven DEF OrganizationInv
<1>7. \A e \in candidates : e.status = "verified" =>
          organizations[e.organization].website # None /\ e.organization # c.organization
    BY <1>3 DEF OrganizationInv, WebsiteInv, OneVerifiedWebsite
<1>8. WebsiteInv'
  <2>1. ASSUME NEW e \in candidates', e.status = "verified" PROVE organizations'[e.organization].website # None
      BY <1>1, <1>2, <1>4, <1>5, <1>6, <1>7, <2>1 DEF Grows
  <2>2. ASSUME NEW e \in candidates', e.status = "verified", NEW f \in candidates', f.status = "verified",
               e.organization = f.organization
        PROVE  e = f
      BY <1>2, <1>4, <1>7, <2>2 DEF OrganizationInv, WebsiteInv, OneVerifiedWebsite
  <2>3. ASSUME NEW e \in candidates'
        PROVE  /\ DOMAIN e = {"organization", "url", "status"}
               /\ e.organization \in DOMAIN organizations' /\ e.url \in Websites
      BY <1>1, <1>2, <1>3, <1>4, <1>6, <2>3 DEF Grows
  <2> QED BY <2>1, <2>2, <2>3 DEF WebsiteInv, OneVerifiedWebsite
<1>9. RowsInv'
  <2>1. \A r : LinkHolds(r) => LinkHolds(r)'
      BY <1>2 DEF LinkHolds, Claimed
  <2>2. \A r : RowShape(r) => RowShape(r)'
      BY DEF RowShape, SaysTheFile
  <2> QED BY <1>2, <2>1, <2>2 DEF OrganizationInv, RowsInv
<1>10. ImportInv'
  <2>1. \A r : Selected(r) => Selected(r)'
      BY DEF Selected, Ready
  <2> QED BY <1>2, <1>6, <2>1 DEF OrganizationInv, ImportInv, Grows
<1>11. ReviewInv'
  <2>1. exec'[w].pc = "free" /\ \A v \in Writers \ {w} : exec'[v] = exec[v]
      BY <1>0, <1>2 DEF Free
  <2>2. ASSUME NEW v \in Writers, ReviewOpen(v)'
        PROVE  v # w /\ exec'[v] = exec[v] /\ ReviewOpen(v) /\ exec[v].candidate # c
      BY <1>0, <2>1, <2>2 DEF ReviewOpen, OrganizationInv, ReviewInv
  <2>3. ASSUME NEW v \in Writers, Verifying(v)'
        PROVE  v # w /\ exec'[v] = exec[v] /\ Verifying(v) /\ exec[v].candidate.organization # c.organization
      BY <1>0, <2>1, <2>3 DEF Verifying, OrganizationInv, ReviewInv
  <2>4. ASSUME NEW v \in Writers, ReviewOpen(v)'
        PROVE  exec'[v].candidate \in candidates' /\ exec'[v].candidate.status = "proposed"
      BY <1>2, <2>2, <2>4 DEF OrganizationInv, ReviewInv
  <2>5. ASSUME NEW v \in Writers, Verifying(v)' PROVE organizations'[exec'[v].candidate.organization].website = None
    <3>1. exec[v].candidate \in candidates
        BY <2>3, <2>5 DEF OrganizationInv, ReviewInv, ReviewOpen, Verifying
    <3>2. organizations[exec[v].candidate.organization].website = None
        BY <2>3, <2>5 DEF OrganizationInv, ReviewInv
    <3> QED BY <1>1, <1>6, <2>3, <2>5, <3>1, <3>2
  <2>6. ASSUME NEW u \in Writers, NEW v \in Writers, ReviewOpen(u)', ReviewOpen(v)',
               exec'[u].candidate = exec'[v].candidate
        PROVE  u = v
      BY <2>2, <2>6 DEF OrganizationInv, ReviewInv
  <2>7. ASSUME NEW u \in Writers, NEW v \in Writers, Verifying(u)', Verifying(v)',
               exec'[u].candidate.organization = exec'[v].candidate.organization
        PROVE  u = v
      BY <2>3, <2>7 DEF OrganizationInv, ReviewInv
  <2> QED BY <2>4, <2>5, <2>6, <2>7 DEF ReviewInv
<1> QED BY <1>6, <1>8, <1>9, <1>10, <1>11 DEF OrganizationInv

(* A review of a proposed website: one that is verified is the first.       *)
LEMMA WebsiteSteps ==
    ASSUME OrganizationInv,
           \/ \E o \in DOMAIN organizations, url \in Websites : RecordCandidate(o, url)
           \/ \E c \in candidates : RejectCandidate(c)
    PROVE  OrganizationInv'
<1>1. \A c \in candidates :
          /\ DOMAIN c = {"organization", "url", "status"}
          /\ c.organization \in DOMAIN organizations /\ c.url \in Websites
    BY DEF OrganizationInv, WebsiteInv
<1>2. ASSUME UNCHANGED identityVars, UNCHANGED <<rows, importing>>, WebsiteInv', ReviewInv' PROVE OrganizationInv'
  <2>1. IdentityInv'
      BY <1>2 DEF OrganizationInv, IdentityInv, Shaped, IsOwnership, OneName, OneClaim, OfficialKeys, SourcesNameNobody,
                  LocksExclude, Held, ResolvedIsKnown, Known, Names, Evident, Claimed, identityVars
  <2>2. RowsInv' /\ ImportInv'
      BY <1>2 DEF OrganizationInv, RowsInv, RowShape, SaysTheFile, LinkHolds, Claimed, ImportInv, Selected, Ready, identityVars
  <2> QED BY <1>2, <2>1, <2>2 DEF OrganizationInv
<1>3. ASSUME NEW o \in DOMAIN organizations, NEW url \in Websites, RecordCandidate(o, url) PROVE OrganizationInv'
  <2>1. candidates' = candidates \cup {[organization |-> o, url |-> url, status |-> "proposed"]}
        /\ UNCHANGED <<identityVars, rows, importing>>
      BY <1>3 DEF RecordCandidate
  <2>2. WebsiteInv'
      BY <1>1, <2>1 DEF OrganizationInv, WebsiteInv, OneVerifiedWebsite, identityVars
  <2>3. ReviewInv'
      BY <2>1, ReviewsStand DEF OrganizationInv, identityVars
  <2> QED BY <1>2, <2>1, <2>2, <2>3
<1>4. ASSUME NEW c \in candidates, RejectCandidate(c) PROVE OrganizationInv'
  <2> DEFINE d == [c EXCEPT !.status = "rejected"]
  <2>1. candidates' = (candidates \ {c}) \cup {d} /\ UNCHANGED <<identityVars, rows, importing>> /\ CandidateFree(c)
      BY <1>4 DEF RejectCandidate, Review
  <2>2. d.status = "rejected" /\ d.organization = c.organization /\ d.url = c.url /\ DOMAIN d = DOMAIN c
      BY <1>1
  <2> HIDE DEF d
  <2>3. WebsiteInv'
      BY <1>1, <2>1, <2>2 DEF OrganizationInv, WebsiteInv, OneVerifiedWebsite, identityVars
  <2>4. \A w \in Writers : ReviewOpen(w) => exec[w].candidate \in candidates'
      BY <2>1 DEF OrganizationInv, ReviewInv, CandidateFree, ReviewOpen
  <2>5. ReviewInv'
      BY <2>1, <2>4 DEF OrganizationInv, ReviewInv, ReviewOpen, Verifying, identityVars
  <2> QED BY <1>2, <2>1, <2>3, <2>5
<1> QED BY <1>3, <1>4

----------------------------------------------------------------------------
(* The specification.                                                       *)

(* The invariant holds of the empty registry.                              *)
LEMMA OrganizationInit == Init => OrganizationInv
<1> SUFFICES ASSUME Init PROVE OrganizationInv
    OBVIOUS
<1>1. /\ organizations \in Existing /\ evidence = {} /\ exec = [w \in Writers |-> Free]
      /\ identifiers = {[key |-> organizations[o].fingerprint[2], owner |-> o] : o \in DOMAIN organizations}
      /\ rows = {} /\ candidates = {} /\ importing = NoImport
    BY DEF Init, IdentityInit
<1>2. /\ IsTable(organizations)
      /\ \A o \in DOMAIN organizations :
            /\ organizations[o].fingerprint = <<"oid", organizations[o].fingerprint[2]>>
            /\ \A p \in DOMAIN organizations : organizations[p].fingerprint = organizations[o].fingerprint => p = o
    BY <1>1, ExistingAssumption DEF IsTable
<1>3. \A w \in Writers : exec[w] = Free /\ exec[w].pc = "free"
    BY <1>1 DEF Free
<1>4. Shaped
  <2>1. \A e \in identifiers \cup evidence : IsOwnership(e)
      BY <1>1 DEF IsOwnership
  <2> QED BY <1>1, <1>2, <1>3, <2>1 DEF Shaped
<1>5. \A k, o : Names(k, o) <=> o \in DOMAIN organizations /\ organizations[o].fingerprint = k
    BY <1>1 DEF Names, Evident
<1>6. OneName
    BY <1>2, <1>5 DEF OneName
<1>7. \A i, o : Claimed(i, o) <=> o \in DOMAIN organizations /\ organizations[o].fingerprint = <<"oid", i>>
  <2>1. ASSUME NEW i, NEW o PROVE Claimed(i, o) <=> o \in DOMAIN organizations /\ organizations[o].fingerprint[2] = i
      BY <1>1 DEF Claimed
  <2>2. ASSUME NEW i, NEW o \in DOMAIN organizations
        PROVE  organizations[o].fingerprint[2] = i <=> organizations[o].fingerprint = <<"oid", i>>
    <3>1. PICK f, j : f = organizations[o].fingerprint /\ j = organizations[o].fingerprint[2]
        OBVIOUS
    <3>2. f = <<"oid", j>>
        BY <1>2, <3>1
    <3> QED BY <3>1, <3>2
  <2> QED BY <2>1, <2>2
<1>8. OneClaim
    BY <1>2, <1>7 DEF OneClaim
<1>9. OfficialKeys
    BY <1>5, <1>7 DEF OfficialKeys
<1>10. SourcesNameNobody
  <2>1. ASSUME NEW o \in DOMAIN organizations, NEW x PROVE organizations[o].fingerprint # <<"source", x>>
    <3>1. PICK j : organizations[o].fingerprint = <<"oid", j>>
        BY <1>2
    <3> QED BY <3>1
  <2> QED BY <2>1 DEF SourcesNameNobody
<1>11. LocksExclude /\ ResolvedIsKnown
    BY <1>3 DEF LocksExclude, Held, ResolvedIsKnown
<1>12. RowsInv /\ ImportInv /\ WebsiteInv
    BY <1>1, FS_EmptySet DEF RowsInv, ImportInv, NoImport, WebsiteInv, OneVerifiedWebsite
<1>13. ReviewInv
    BY <1>3 DEF ReviewInv, ReviewOpen, Verifying
<1> QED BY <1>4, <1>6, <1>8, <1>9, <1>10, <1>11, <1>12, <1>13 DEF IdentityInv, OrganizationInv

(* Every step keeps the organization invariant.                            *)
LEMMA OrganizationStep == OrganizationInv /\ [Next]_vars => OrganizationInv'
<1> SUFFICES ASSUME OrganizationInv, [Next]_vars PROVE OrganizationInv'
    OBVIOUS
<1>0. IdentityInv /\ RowsInv /\ ImportInv /\ WebsiteInv /\ ReviewInv
    BY DEF OrganizationInv
<1>1. CASE IdentityNext /\ UNCHANGED spineVars
    BY <1>0, <1>1, IdentityStep, GrowthKeeps, IdentityLeavesReviews DEF OrganizationInv
<1>2. ASSUME UNCHANGED <<organizations, identifiers, evidence, exec>>
      PROVE  /\ IdentityInv' /\ Grows
             /\ candidates' = candidates => ReviewInv' /\ WebsiteInv'
  <2>1. IdentityInv'
      BY <1>0, <1>2 DEF IdentityInv, Shaped, IsOwnership, OneName, OneClaim, OfficialKeys, SourcesNameNobody,
                  LocksExclude, Held, ResolvedIsKnown, Known, Names, Evident, Claimed
  <2>2. candidates' = candidates => ReviewInv'
      BY <1>0, <1>2 DEF ReviewInv, ReviewOpen, Verifying
  <2>3. candidates' = candidates => WebsiteInv'
      BY <1>0, <1>2 DEF WebsiteInv, OneVerifiedWebsite
  <2> QED BY <1>2, <2>1, <2>2, <2>3 DEF Grows
<1>3. ASSUME NEW file \in Files, Stage(file) PROVE OrganizationInv'
  <2>1. UNCHANGED <<organizations, identifiers, evidence, exec, candidates>>
      BY <1>3 DEF Stage, identityVars
  <2> QED BY <1>0, <1>2, <1>3, <2>1, StageKeeps DEF OrganizationInv
<1>4. ASSUME NEW scoped \in BOOLEAN, Match(scoped) PROVE OrganizationInv'
  <2>1. UNCHANGED <<organizations, identifiers, evidence, exec, rows, candidates>>
      BY <1>4 DEF Match, identityVars
  <2>2. RowsInv'
      BY <1>0, <2>1 DEF RowsInv, RowShape, SaysTheFile, LinkHolds, Claimed
  <2> QED BY <1>0, <1>2, <1>4, <2>1, <2>2, MatchKeeps DEF OrganizationInv
<1>5. CASE Canonicalize
  <2>1. IdentityInv' /\ Grows /\ RowsInv' /\ ImportInv'
      BY <1>0, <1>5, CanonicalizeKeepsIdentity, CanonicalizeKeepsRows
  <2>2. candidates' = candidates
      BY <1>5 DEF Canonicalize
  <2>3. WebsiteInv'
      BY <1>0, <2>1, <2>2 DEF WebsiteInv, OneVerifiedWebsite, Grows
  <2>4. ReviewInv'
      BY <1>5, CanonicalizeLeavesReviews
  <2> QED BY <2>1, <2>3, <2>4 DEF OrganizationInv
<1>6. CASE AbortImport
  <2>1. UNCHANGED <<organizations, identifiers, evidence, exec, rows, candidates>> /\ importing' = NoImport
      BY <1>6 DEF AbortImport, identityVars
  <2>2. ImportInv'
      BY <2>1 DEF ImportInv, NoImport
  <2>3. RowsInv'
      BY <1>0, <2>1 DEF RowsInv, RowShape, SaysTheFile, LinkHolds, Claimed
  <2> QED BY <1>2, <2>1, <2>2, <2>3 DEF OrganizationInv
<1>7. ASSUME UNCHANGED <<organizations, identifiers, evidence, exec>>, UNCHANGED spineVars PROVE OrganizationInv'
  <2>1. candidates' = candidates
      BY <1>7 DEF spineVars
  <2> QED BY <1>0, <1>2, <1>7, <2>1, GrowthKeeps DEF OrganizationInv
<1>8. ASSUME NEW sources, MaterializeRelationships(sources) PROVE OrganizationInv'
    BY <1>7, <1>8 DEF MaterializeRelationships
<1>9. CASE \/ \E o \in DOMAIN organizations, url \in Websites : RecordCandidate(o, url)
           \/ \E c \in candidates : RejectCandidate(c)
    BY <1>9, WebsiteSteps
<1>10. ASSUME NEW w \in Writers, (\E c \in candidates : LockCandidate(w, c)) \/ LockOrganization(w)
       PROVE  OrganizationInv'
    BY <1>10, ReviewerLocks
<1>11. ASSUME NEW w \in Writers, VerifyCandidate(w) PROVE OrganizationInv'
    BY <1>11, ReviewerVerifies
<1>12. CASE UNCHANGED vars
    BY <1>7, <1>12 DEF vars, identityVars
<1> QED BY <1>1, <1>3, <1>4, <1>5, <1>6, <1>8, <1>9, <1>10, <1>11, <1>12 DEF Next

(* The organization invariant holds always.                                *)
LEMMA OrganizationInvariant == Spec => []OrganizationInv
BY OrganizationInit, OrganizationStep, PTL DEF Spec

(* Whichever collections, imports and reviews run side by side, and in      *)
(* whatever spellings, what identifies an organization as it is spelled     *)
(* never points to two of them.                                             *)
THEOREM EvidenceKeepsItsOwner == Spec => []EvidenceHasOneOwner
<1>1. OrganizationInv => EvidenceHasOneOwner
  <2> SUFFICES ASSUME IdentityInv PROVE EvidenceHasOneOwner
      BY DEF OrganizationInv
  <2>1. \A e \in evidence \cup identifiers : e = [key |-> e.key, owner |-> e.owner]
      BY DEF IdentityInv, Shaped, IsOwnership
  <2>2. \A k, a, b : Names(k, a) /\ Names(k, b) => a = b
      BY DEF IdentityInv, OneName
  <2>3. ASSUME NEW e \in evidence PROVE Names(e.key, e.owner)
      BY <2>1 DEF Names, Evident
  <2>4. ASSUME NEW o \in DOMAIN organizations PROVE Names(organizations[o].fingerprint, o)
      BY DEF Names
  <2>5. ASSUME NEW k, NEW o \in FingerprintOwner(k) PROVE Names(k, o)
      BY <2>4 DEF FingerprintOwner
  <2>6. ASSUME NEW o \in DOMAIN organizations
        PROVE  LET key == organizations[o].fingerprint IN
               FingerprintOwner(key) = {o} /\ \A e \in evidence : e.key = key => e.owner = o
    <3>1. o \in FingerprintOwner(organizations[o].fingerprint)
        BY DEF FingerprintOwner
    <3> QED BY <2>2, <2>3, <2>4, <2>5, <3>1
  <2>7. ASSUME NEW i \in identifiers
        PROVE  /\ FingerprintOwner(<<"oid", i.key>>) \subseteq {i.owner}
               /\ \A e \in evidence : e.key = <<"oid", i.key>> => e.owner = i.owner
    <3>1. Claimed(i.key, i.owner)
        BY <2>1 DEF Claimed
    <3>2. ASSUME NEW o, Names(<<"oid", i.key>>, o) PROVE o = i.owner
      <4>1. Claimed(i.key, o)
          BY <3>2 DEF IdentityInv, OfficialKeys
      <4> QED BY <3>1, <4>1 DEF IdentityInv, OneClaim
    <3> QED BY <2>3, <2>5, <3>2
  <2>8. \A e, f \in evidence : e.key = f.key => e.owner = f.owner
      BY <2>2, <2>3
  <2> QED BY <2>6, <2>7, <2>8 DEF EvidenceHasOneOwner
<1> QED BY <1>1, OrganizationInvariant, PTL

(* A row that counts as imported has the organization that owns each of its *)
(* identifiers, and a held one has none, whatever is staged, collected or   *)
(* prepared meanwhile.                                                      *)
THEOREM ImportedRowsAreLinked == Spec => []ImportedMeansLinked
<1>1. OrganizationInv => ImportedMeansLinked
  <2> SUFFICES ASSUME OrganizationInv, NEW r \in rows
               PROVE  /\ r.status = "imported" =>
                            \A i \in ToSet(r.data.identifiers) : IdentifierOwner(i) = {r.organization}
                      /\ r.organization # None =>
                            \A i \in ToSet(r.data.identifiers) : IdentifierOwner(i) = {r.organization}
                      /\ r.status = "reconciliation_hold" => r.organization = None
      BY DEF ImportedMeansLinked
  <2>1. LinkHolds(r) /\ OneClaim /\ Shaped
      BY DEF OrganizationInv, IdentityInv, RowsInv
  <2>2. \A i, o : Claimed(i, o) <=> o \in IdentifierOwner(i)
      BY <2>1 DEF Claimed, IdentifierOwner, Shaped, IsOwnership
  <2>3. ASSUME NEW i, Claimed(i, r.organization) PROVE IdentifierOwner(i) = {r.organization}
      BY <2>1, <2>2, <2>3 DEF OneClaim
  <2> QED BY <2>1, <2>3 DEF LinkHolds
<1> QED BY <1>1, OrganizationInvariant, PTL

(* No organization has two verified websites, and none that has one is ever *)
(* left without a website.                                                  *)
THEOREM VerifiedWebsiteStands == Spec => []OneVerifiedWebsite
<1>1. OrganizationInv => OneVerifiedWebsite
    BY DEF OrganizationInv, WebsiteInv
<1> QED BY <1>1, OrganizationInvariant, PTL

----------------------------------------------------------------------------
(* Loops.                                                                   *)

(* On day d the first is directly above the second; a set in which everyone *)
(* has someone of the set above is a loop, if the table is finite.          *)
Above(rels, d, x, y) ==
    \E r \in rels : r.subtree /\ r.from <= d /\ d <= r.to /\ r.parent = x /\ r.child = y
Looped(rels, d, S) == S # {} /\ \A y \in S : \E x \in S : Above(rels, d, x, y)
LoopFree(rels) == \A d \in Nat : \A S : ~Looped(rels, d, S)
Dated(rels) == \A r \in rels : r.from \in Nat /\ r.to \in Nat

(* Taking rows away closes no loop.                                         *)
LEMMA FewerLoopFree ==
    ASSUME NEW rels, LoopFree(rels), NEW less \in SUBSET rels
    PROVE  LoopFree(less)
<1>1. \A d, x, y : Above(less, d, x, y) => Above(rels, d, x, y)
    BY DEF Above
<1>2. \A d, S : Looped(less, d, S) => Looped(rels, d, S)
    BY <1>1 DEF Looped
<1> QED BY <1>2 DEF LoopFree

----------------------------------------------------------------------------
(* What the trigger walks.                                                  *)

Start(edge) == [at |-> edge.child, window |-> [from |-> edge.from, to |-> edge.to]]
Below(rels, n) ==
    {[at |-> r.child, window |-> Overlap(r, n.window)] :
        r \in {s \in {q \in rels : q.subtree} : s.parent = n.at /\ Nonempty(Overlap(s, n.window))}}
Walk(f, rels, edge) ==
    LET N == Cardinality(rels) IN
    /\ f[0] = {Start(edge)}
    /\ \A i \in 1..N : f[i] = f[i - 1] \cup UNION {Below(rels, n) : n \in f[i - 1]}
    /\ f[N] = Paths(rels, edge)
    /\ \A i \in 0..N : \A n \in f[i] : n.window.from \in Nat /\ n.window.to \in Nat

LEMMA PathsWalk ==
    ASSUME NEW rels, IsFiniteSet(rels), Dated(rels), NEW edge, edge.from \in Nat, edge.to \in Nat
    PROVE  \E f : Walk(f, rels, edge)
<1> DEFINE N == Cardinality(rels)
           contained == {r \in rels : r.subtree}
           below(n) == {[at |-> r.child, window |-> Overlap(r, n.window)] :
                           r \in {s \in contained : s.parent = n.at /\ Nonempty(Overlap(s, n.window))}}
           a == {[at |-> edge.child, window |-> [from |-> edge.from, to |-> edge.to]]}
           Is(f) == f = [i \in 0..N |-> IF i = 0 THEN a ELSE f[i - 1] \cup UNION {below(n) : n \in f[i - 1]}]
           A == {edge.child} \cup {r.child : r \in rels}
           W == [at : A, window : [from : Nat, to : Nat]]
           U == SUBSET W
           next == [i \in 1..N |-> [T \in U |-> T \cup UNION {below(n) : n \in T}]]
<1>1. N \in Nat
    BY FS_CardinalityType
<1>2. Paths(rels, edge) = (CHOOSE f : Is(f))[N]
    BY DEF Paths
<1>3. a \in U
    OBVIOUS
<1>4. ASSUME NEW T \in U PROVE T \cup UNION {below(n) : n \in T} \in U
  <2> SUFFICES ASSUME NEW n \in T, NEW m \in below(n) PROVE m \in W
      OBVIOUS
  <2>1. PICK r \in rels : m = [at |-> r.child, window |-> Overlap(r, n.window)]
      OBVIOUS
  <2>2. Overlap(r, n.window) \in [from : Nat, to : Nat]
    <3>1. n.window.from \in Nat /\ n.window.to \in Nat
        OBVIOUS
    <3> QED BY <3>1 DEF Overlap, Dated
  <2> QED BY <2>1, <2>2
<1>5. next \in [1..N -> [U -> U]]
    BY <1>4
<1>6. \A i \in 1..N, T \in U : next[i][T] = T \cup UNION {below(n) : n \in T}
    OBVIOUS
<1>7. \A n : below(n) = Below(rels, n)
    BY DEF Below
<1> HIDE DEF next, below, N
<1>8. PICK g \in [0..N -> U] : Runs(g, N, a, next)
  <2> HIDE DEF U, a
  <2> QED BY <1>1, <1>3, <1>5, Iteration
<1>9. ASSUME NEW i \in 1..N PROVE next[i][g[i - 1]] = g[i - 1] \cup UNION {below(n) : n \in g[i - 1]}
  <2>1. i - 1 \in 0..N
      BY <1>1
  <2>2. g[i - 1] \in U
      BY <2>1
  <2> HIDE DEF U
  <2> QED BY <1>6, <2>2
<1> HIDE DEF a, U
<1>10. Is(g)
  <2>1. \A i \in 0..N : i # 0 => i \in 1..N
      BY <1>1
  <2>2. \A i \in 0..N :
           (IF i = 0 THEN a ELSE next[i][g[i - 1]])
           = (IF i = 0 THEN a ELSE g[i - 1] \cup UNION {below(n) : n \in g[i - 1]})
      BY <1>9, <2>1
  <2> QED BY <1>8, <2>2 DEF Runs
<1> DEFINE f == CHOOSE h : Is(h)
<1>11. Is(f)
  <2> HIDE DEF Is
  <2> QED BY <1>10
<1>12. ASSUME NEW h, Is(h)
       PROVE  /\ h[0] = a
              /\ \A i \in 1..N : h[i] = h[i - 1] \cup UNION {below(n) : n \in h[i - 1]}
  <2> QED BY <1>1, <1>12
<1>13. ASSUME NEW h, Is(h) PROVE \A i \in 0..N : h[i] \in U
  <2> DEFINE S == {i \in Nat : i <= N => h[i] \in U}
  <2>1. 0 \in S
      BY <1>3, <1>12, <1>13
  <2>2. ASSUME NEW i \in Nat, i \in S PROVE i + 1 \in S
    <3> SUFFICES ASSUME i + 1 <= N PROVE h[i + 1] \in U
        OBVIOUS
    <3>1. h[i] \in U /\ i + 1 \in 1..N /\ (i + 1) - 1 = i
        BY <1>1, <2>2
    <3>2. h[i + 1] = h[i] \cup UNION {below(n) : n \in h[i]}
      <4>1. \A j \in 1..N : h[j] = h[j - 1] \cup UNION {below(n) : n \in h[j - 1]}
        <5> HIDE DEF Is
        <5> QED BY <1>12, <1>13
      <4> HIDE DEF Is, S
      <4>2. h[i + 1] = h[(i + 1) - 1] \cup UNION {below(n) : n \in h[(i + 1) - 1]}
          BY <3>1, <4>1
      <4> QED BY <3>1, <4>2
    <3> QED BY <1>4, <3>1, <3>2
  <2>3. Nat \subseteq S
    <3> HIDE DEF S
    <3> QED BY <2>1, <2>2, NaturalsByInduction
  <2> QED BY <1>1, <2>3
<1> HIDE DEF Is
<1>14. f[N] = Paths(rels, edge)
    BY <1>2
<1>15. \A i \in 0..N : f[i] \in U
    BY <1>11, <1>13
<1>16. \A i \in 0..N : \A n \in f[i] : n.window.from \in Nat /\ n.window.to \in Nat
  <2> SUFFICES ASSUME NEW i \in 0..N, NEW n \in f[i] PROVE n.window.from \in Nat /\ n.window.to \in Nat
      OBVIOUS
  <2>1. n \in W
      BY <1>15 DEF U
  <2> QED BY <2>1
<1>17. f[0] = a /\ \A i \in 1..N : f[i] = f[i - 1] \cup UNION {Below(rels, n) : n \in f[i - 1]}
  <2> HIDE DEF f
  <2>1. \A T : {below(n) : n \in T} = {Below(rels, n) : n \in T}
      BY <1>7
  <2> QED BY <1>11, <1>12, <2>1
<1>18. a = {Start(edge)}
    BY DEF a, Start
<1> HIDE DEF f
<1> QED BY <1>14, <1>16, <1>17, <1>18 DEF Walk, N

(* Everyone below the child of an edge on a day of its window is at the end *)
(* of a path that the trigger has walked: each round before the last meets  *)
(* a new child, and there are no more children than rows.                   *)
Alive(n, d) == n.window.from <= d /\ d <= n.window.to
Met(f, i, d) == {n.at : n \in {m \in f[i] : Alive(m, d)}}
Closed(rels, d, C) == \A x \in C : \A y : Above(rels, d, x, y) => y \in C

LEMMA MetGrows ==
    ASSUME NEW rels, IsFiniteSet(rels), Dated(rels), NEW edge, NEW f, Walk(f, rels, edge),
           NEW i \in 1..Cardinality(rels), NEW d \in Nat
    PROVE  \A y : y \in Met(f, i, d) <=>
                  y \in Met(f, i - 1, d) \/ \E x \in Met(f, i - 1, d) : Above(rels, d, x, y)
<1>1. i - 1 \in 0..Cardinality(rels)
    BY FS_CardinalityType
<1>2. f[i] = f[i - 1] \cup UNION {Below(rels, n) : n \in f[i - 1]}
    BY DEF Walk
<1>3. \A n \in f[i - 1] : n.window.from \in Nat /\ n.window.to \in Nat
    BY <1>1 DEF Walk
<1>4. ASSUME NEW n \in f[i - 1], NEW r \in rels
      PROVE  /\ Alive([at |-> r.child, window |-> Overlap(r, n.window)], d)
                   <=> r.from <= d /\ d <= r.to /\ Alive(n, d)
             /\ r.from <= d /\ d <= r.to /\ Alive(n, d) => Nonempty(Overlap(r, n.window))
  <2>1. r.from \in Nat /\ r.to \in Nat /\ n.window.from \in Nat /\ n.window.to \in Nat
      BY <1>3 DEF Dated
  <2> QED BY <2>1 DEF Alive, Overlap, Nonempty
<1>5. ASSUME NEW y, y \in Met(f, i, d), y \notin Met(f, i - 1, d)
      PROVE  \E x \in Met(f, i - 1, d) : Above(rels, d, x, y)
  <2>1. PICK m \in f[i] : Alive(m, d) /\ m.at = y
      BY <1>5 DEF Met
  <2>2. m \notin f[i - 1]
      BY <1>5, <2>1 DEF Met
  <2>3. PICK n \in f[i - 1] : m \in Below(rels, n)
      BY <1>2, <2>2
  <2>4. PICK r \in rels : r.subtree /\ r.parent = n.at /\ m = [at |-> r.child, window |-> Overlap(r, n.window)]
      BY <2>3 DEF Below
  <2>5. r.from <= d /\ d <= r.to /\ Alive(n, d)
      BY <1>4, <2>1, <2>4
  <2>6. n.at \in Met(f, i - 1, d)
      BY <2>5 DEF Met
  <2>7. Above(rels, d, n.at, y)
      BY <2>1, <2>4, <2>5 DEF Above
  <2> QED BY <2>6, <2>7
<1>6. ASSUME NEW x \in Met(f, i - 1, d), NEW y, Above(rels, d, x, y) PROVE y \in Met(f, i, d)
  <2>1. PICK n \in f[i - 1] : Alive(n, d) /\ n.at = x
      BY DEF Met
  <2>2. PICK r \in rels : r.subtree /\ r.from <= d /\ d <= r.to /\ r.parent = x /\ r.child = y
      BY <1>6 DEF Above
  <2> DEFINE m == [at |-> r.child, window |-> Overlap(r, n.window)]
  <2>3. Alive(m, d) /\ Nonempty(Overlap(r, n.window))
      BY <1>4, <2>1, <2>2
  <2>4. m \in Below(rels, n)
      BY <2>1, <2>2, <2>3 DEF Below
  <2>5. m \in f[i] /\ m.at = y
      BY <1>2, <2>2, <2>4
  <2> HIDE DEF m
  <2> QED BY <2>3, <2>5 DEF Met
<1>7. Met(f, i - 1, d) \subseteq Met(f, i, d)
    BY <1>2 DEF Met
<1> QED BY <1>5, <1>6, <1>7

(* The children of a finite table.                                          *)
Children(rels) == {r.child : r \in rels}
LEMMA FewChildren ==
    ASSUME NEW rels, IsFiniteSet(rels)
    PROVE  IsFiniteSet(Children(rels)) /\ Cardinality(Children(rels)) <= Cardinality(rels)
<1> DEFINE f == [r \in rels |-> r.child]
<1>1. f \in Surjection(rels, Children(rels))
    BY DEF Surjection, Children
<1> HIDE DEF f
<1> QED BY <1>1, FS_Surjection

LEMMA EveryoneIsMet ==
    ASSUME NEW rels, IsFiniteSet(rels), Dated(rels), NEW d \in Nat,
           NEW edge, edge.from \in Nat, edge.to \in Nat, edge.from <= d, d <= edge.to
    PROVE  \E C : /\ edge.child \in C /\ Closed(rels, d, C)
                  /\ \A x \in C : \E n \in Paths(rels, edge) : n.at = x
<1> DEFINE N == Cardinality(rels)
           H == Children(rels)
<1>1. N \in Nat /\ IsFiniteSet(H) /\ Cardinality(H) \in Nat /\ Cardinality(H) <= N
    BY FS_CardinalityType, FewChildren
<1>2. PICK f : Walk(f, rels, edge)
    BY PathsWalk
<1> DEFINE C(i) == Met(f, i, d)
           New(i) == C(i) \ {edge.child}
           P(i) == /\ edge.child \in C(i) /\ New(i) \subseteq H
                   /\ Closed(rels, d, C(i)) \/ i <= Cardinality(New(i))
           S == {i \in Nat : i <= N => P(i)}
<1>3. ASSUME NEW i \in Nat, New(i) \subseteq H
      PROVE IsFiniteSet(New(i)) /\ Cardinality(New(i)) \in Nat
    BY <1>1, <1>3, FS_Subset, FS_CardinalityType
<1>4. \A x, y : Above(rels, d, x, y) => y \in H
    BY DEF Above, Children
<1>5. 0 \in S
  <2>1. Alive(Start(edge), d) /\ Start(edge).at = edge.child
      BY DEF Alive, Start
  <2>2. C(0) = {edge.child}
      BY <1>2, <2>1 DEF Walk, Met
  <2> HIDE DEF C
  <2>3. New(0) = {}
      BY <2>2
  <2>4. 0 <= Cardinality(New(0))
      BY <2>3, FS_EmptySet
  <2> QED BY <2>2, <2>3, <2>4
<1>6. ASSUME NEW i \in Nat, i \in S PROVE i + 1 \in S
  <2> SUFFICES ASSUME i + 1 <= N PROVE P(i + 1)
      OBVIOUS
  <2>1. P(i) /\ i + 1 \in 1..N /\ (i + 1) - 1 = i
      BY <1>1, <1>6
  <2> HIDE DEF S
  <2>2. \A y : y \in C(i + 1) <=> y \in C(i) \/ \E x \in C(i) : Above(rels, d, x, y)
    <3>1. \A y : y \in Met(f, i + 1, d) <=>
                 y \in Met(f, (i + 1) - 1, d) \/ \E x \in Met(f, (i + 1) - 1, d) : Above(rels, d, x, y)
        BY <1>2, <2>1, MetGrows
    <3> QED BY <2>1, <3>1
  <2> HIDE DEF C
  <2>3. edge.child \in C(i + 1) /\ New(i + 1) \subseteq H
      BY <1>4, <2>1, <2>2
  <2>4. CASE Closed(rels, d, C(i))
    <3>1. C(i + 1) = C(i)
        BY <2>2, <2>4 DEF Closed
    <3> QED BY <2>3, <2>4, <3>1
  <2>5. CASE ~Closed(rels, d, C(i))
    <3>1. PICK x \in C(i) : \E y : Above(rels, d, x, y) /\ y \notin C(i)
        BY <2>5 DEF Closed
    <3> PICK y : Above(rels, d, x, y) /\ y \notin C(i)
        BY <3>1
    <3>2. y \in New(i + 1) /\ New(i) \cup {y} \subseteq New(i + 1) /\ y \notin New(i)
        BY <2>1, <2>2, <3>1
    <3>3. i <= Cardinality(New(i))
        BY <2>1, <2>5
    <3>4. /\ IsFiniteSet(New(i)) /\ Cardinality(New(i)) \in Nat
          /\ IsFiniteSet(New(i + 1)) /\ Cardinality(New(i + 1)) \in Nat
        BY <1>3, <2>1, <2>3
    <3> HIDE DEF New
    <3>5. Cardinality(New(i) \cup {y}) = Cardinality(New(i)) + 1
        BY <3>2, <3>4, FS_AddElement
    <3>6. Cardinality(New(i) \cup {y}) <= Cardinality(New(i + 1))
        BY <3>2, <3>4, FS_Subset
    <3>7. i + 1 <= Cardinality(New(i + 1))
        BY <3>3, <3>4, <3>5, <3>6
    <3> QED BY <2>3, <3>7
  <2> QED BY <2>4, <2>5
<1>7. P(N)
  <2>1. N \in S
    <3> HIDE DEF S
    <3> QED BY <1>1, <1>5, <1>6, NaturalsByInduction
  <2> QED BY <1>1, <2>1
<1>8. Closed(rels, d, C(N))
  <2>1. CASE N <= Cardinality(New(N))
    <3>1. New(N) \in SUBSET H /\ Cardinality(New(N)) \in Nat
        BY <1>1, <1>3, <1>7
    <3> HIDE DEF New
    <3>2. Cardinality(New(N)) <= Cardinality(H)
        BY <1>1, <3>1, FS_Subset
    <3>3. Cardinality(H) = Cardinality(New(N))
        BY <1>1, <2>1, <3>1, <3>2
    <3>4. New(N) = H
        BY <1>1, <3>1, <3>3, FS_Subset
    <3>5. H \subseteq C(N)
        BY <3>4 DEF New
    <3> QED BY <1>4, <3>5 DEF Closed
  <2> QED BY <1>7, <2>1
<1>9. \A x \in C(N) : \E n \in Paths(rels, edge) : n.at = x
    BY <1>2 DEF Walk, Met
<1> QED BY <1>7, <1>8, <1>9

(* An edge the trigger lets through closes no loop: a loop through it would *)
(* lead back to its parent from its child, and what is not below the child  *)
(* would be a loop already.                                                 *)
LEMMA EdgeKeepsLoopFree ==
    ASSUME NEW rels, IsFiniteSet(rels), Dated(rels), LoopFree(rels),
           NEW edge, edge.from \in Nat, edge.to \in Nat, ~ClosesCycle(rels, edge)
    PROVE  LoopFree(rels \cup {edge})
<1> SUFFICES ASSUME NEW d \in Nat, NEW S, Looped(rels \cup {edge}, d, S) PROVE FALSE
    BY DEF LoopFree
<1> DEFINE On == edge.subtree /\ edge.from <= d /\ d <= edge.to
<1>1. ASSUME NEW x, NEW y, Above(rels \cup {edge}, d, x, y), ~Above(rels, d, x, y)
      PROVE  On /\ x = edge.parent /\ y = edge.child
    BY <1>1 DEF Above
<1>2. CASE ~On
  <2>1. \A x, y : Above(rels \cup {edge}, d, x, y) => Above(rels, d, x, y)
      BY <1>1, <1>2
  <2>2. Looped(rels, d, S)
      BY <2>1 DEF Looped
  <2> QED BY <2>2 DEF LoopFree
<1>3. CASE On
  <2>1. PICK C : /\ edge.child \in C /\ Closed(rels, d, C)
                 /\ \A x \in C : \E n \in Paths(rels, edge) : n.at = x
      BY <1>3, EveryoneIsMet
  <2>2. edge.parent \notin C
      BY <1>3, <2>1 DEF ClosesCycle
  <2>3. ASSUME NEW y \in S \ C PROVE \E x \in S \ C : Above(rels, d, x, y)
    <3>1. PICK x \in S : Above(rels \cup {edge}, d, x, y)
        BY DEF Looped
    <3>2. Above(rels, d, x, y)
        BY <1>1, <2>1, <3>1
    <3>3. x \notin C
        BY <2>1, <3>2 DEF Closed
    <3> QED BY <3>2, <3>3
  <2>4. CASE S \ C # {}
    <3>1. Looped(rels, d, S \ C)
        BY <2>3, <2>4 DEF Looped
    <3> QED BY <3>1 DEF LoopFree
  <2>5. CASE S \ C = {}
    <3>1. edge.parent \notin S
        BY <2>2, <2>5
    <3>2. ASSUME NEW y \in S PROVE \E x \in S : Above(rels, d, x, y)
      <4>1. PICK x \in S : Above(rels \cup {edge}, d, x, y)
          BY DEF Looped
      <4> QED BY <1>1, <3>1, <4>1
    <3>3. Looped(rels, d, S)
        BY <3>2 DEF Looped
    <3> QED BY <3>3 DEF LoopFree
  <2> QED BY <2>4, <2>5
<1> QED BY <1>2, <1>3

----------------------------------------------------------------------------
(* Writing edges.                                                           *)

(* An upsert that was not refused leaves the table as it should be.         *)
Sound(rels) == IsFiniteSet(rels) /\ Dated(rels) /\ LoopFree(rels)
LEMMA UpsertKeepsSound ==
    ASSUME NEW rels, Sound(rels), NEW e \in Edges, ~Refused(rels, e)
    PROVE  Sound(Others(rels, e) \cup {Merged(rels, e)})
<1> DEFINE others == Others(rels, e)
           merged == Merged(rels, e)
           old == rels \ others
<1>1. others \in SUBSET rels /\ IsFiniteSet(others) /\ Dated(others)
  <2>1. others \in SUBSET rels
      BY DEF Others
  <2> QED BY <2>1, FS_Subset DEF Sound, Dated
<1>2. LoopFree(others)
  <2> HIDE DEF others
  <2> QED BY <1>1, FewerLoopFree DEF Sound
<1>3. e.from \in Nat /\ e.to \in Nat
    BY EdgeAssumption
<1>4. merged.from \in Nat /\ merged.to \in Nat
  <2>1. CASE old = {}
      BY <1>3, <2>1 DEF Merged
  <2>2. CASE old # {}
    <3>1. PICK r \in old : r = CHOOSE q \in old : TRUE
        BY <2>2
    <3>2. r.to \in Nat
        BY <3>1 DEF Sound, Dated
    <3> DEFINE end == IF \E q \in old : q.to # Forever THEN r.to ELSE e.to
    <3>3. merged = [e EXCEPT !.to = end]
        BY <2>2, <3>1 DEF Merged
    <3>4. end \in Nat
        BY <1>3, <3>2
    <3> HIDE DEF end, merged
    <3> QED BY <1>3, <3>3, <3>4, EdgeAssumption
  <2> QED BY <2>1, <2>2
<1>5. ~ClosesCycle(others, merged)
  <2>1. CASE old = {}
    <3>1. others = rels /\ merged = e
        BY <1>1, <2>1 DEF Merged
    <3> QED BY <3>1 DEF Refused
  <2>2. CASE old # {}
    <3>1. others # rels
        BY <2>2
    <3> QED BY <3>1 DEF Refused
  <2> QED BY <2>1, <2>2
<1> HIDE DEF others, merged
<1>6. LoopFree(others \cup {merged})
    BY <1>1, <1>2, <1>4, <1>5, EdgeKeepsLoopFree
<1>7. IsFiniteSet(others \cup {merged}) /\ Dated(others \cup {merged})
    BY <1>1, <1>4, FS_AddElement DEF Dated
<1> QED BY <1>6, <1>7 DEF Sound, others, merged

(* So does a materialized edge.                                             *)
LEMMA ObservedKeepsSound ==
    ASSUME NEW s, s = [ok |-> s.ok, rels |-> s.rels], Sound(s.rels),
           NEW e, e.from \in Nat, e.to \in Nat
    PROVE  LET t == Observed(s, e) IN t = [ok |-> t.ok, rels |-> t.rels] /\ Sound(t.rels)
<1>1. CASE Refused(s.rels, e)
  <2>1. Observed(s, e) = [ok |-> FALSE, rels |-> s.rels]
      BY <1>1 DEF Observed
  <2> QED BY <2>1
<1>2. CASE ~Refused(s.rels, e)
  <2> DEFINE rels == IF Others(s.rels, e) = s.rels THEN s.rels \cup {e} ELSE s.rels
  <2>1. Observed(s, e) = [ok |-> s.ok, rels |-> rels]
      BY <1>2 DEF Observed
  <2>2. ~ClosesCycle(s.rels, e)
      BY <1>2 DEF Refused
  <2>3. LoopFree(s.rels \cup {e})
      BY <2>2, EdgeKeepsLoopFree DEF Sound
  <2>4. Sound(s.rels \cup {e})
      BY <2>3, FS_AddElement DEF Sound, Dated
  <2>5. Sound(rels)
      BY <2>4
  <2> HIDE DEF rels
  <2> QED BY <2>1, <2>5
<1> QED BY <1>1, <1>2

(* And the materialization of a sequence of them.                           *)
Materialized(edges, rels) ==
    LET after[i \in 0..Len(edges)] ==
            IF i = 0 THEN [ok |-> TRUE, rels |-> rels] ELSE Observed(after[i - 1], edges[i])
    IN after[Len(edges)]

LEMMA MaterializedKeepsSound ==
    ASSUME NEW rels, Sound(rels), NEW edges, Len(edges) \in Nat,
           \A i \in 1..Len(edges) : edges[i].from \in Nat /\ edges[i].to \in Nat
    PROVE  Sound(Materialized(edges, rels).rels)
<1> DEFINE N == Len(edges)
           a == [ok |-> TRUE, rels |-> rels]
           Is(f) == f = [i \in 0..N |-> IF i = 0 THEN a ELSE Observed(f[i - 1], edges[i])]
           All == {edges[i] : i \in 1..N}
           U == [ok : {TRUE, FALSE}, rels : SUBSET (rels \cup All)]
           next == [i \in 1..N |-> [s \in U |-> Observed(s, edges[i])]]
           Good(s) == s = [ok |-> s.ok, rels |-> s.rels] /\ Sound(s.rels)
<1>1. Materialized(edges, rels) = (CHOOSE f : Is(f))[N]
    BY DEF Materialized
<1>2. a \in U
    OBVIOUS
<1>3. ASSUME NEW i \in 1..N, NEW s \in U PROVE Observed(s, edges[i]) \in U
  <2>1. edges[i] \in All
      OBVIOUS
  <2> DEFINE more == IF Others(s.rels, edges[i]) = s.rels THEN s.rels \cup {edges[i]} ELSE s.rels
  <2>2. Observed(s, edges[i]) = [s EXCEPT !.ok = FALSE] \/ Observed(s, edges[i]) = [s EXCEPT !.rels = more]
      BY DEF Observed
  <2> HIDE DEF All
  <2>3. more \in SUBSET (rels \cup All)
      BY <2>1
  <2> HIDE DEF more
  <2> QED BY <2>2, <2>3
<1>4. next \in [1..N -> [U -> U]]
    BY <1>3
<1>5. \A i \in 1..N, s \in U : next[i][s] = Observed(s, edges[i])
    OBVIOUS
<1> HIDE DEF next, U, N, a
<1>6. N \in Nat
    BY DEF N
<1>7. PICK g \in [0..N -> U] : Runs(g, N, a, next)
    BY <1>2, <1>4, <1>6, Iteration
<1>8. Is(g)
  <2>1. \A i \in 0..N : i # 0 => i \in 1..N /\ i - 1 \in 0..N
      BY <1>6
  <2>2. \A i \in 0..N : i # 0 => next[i][g[i - 1]] = Observed(g[i - 1], edges[i])
      BY <1>5, <2>1
  <2>3. \A i \in 0..N : (IF i = 0 THEN a ELSE next[i][g[i - 1]])
                        = (IF i = 0 THEN a ELSE Observed(g[i - 1], edges[i]))
      BY <2>2
  <2> QED BY <1>7, <2>3 DEF Runs
<1>9. PICK f : Is(f) /\ Materialized(edges, rels) = f[N]
  <2> HIDE DEF Is
  <2> QED BY <1>1, <1>8
<1> DEFINE S == {i \in Nat : i <= N => Good(f[i])}
<1>10. 0 \in S
  <2>1. f[0] = a
      BY <1>6, <1>9
  <2>2. Good(a)
      BY DEF a
  <2> QED BY <2>1, <2>2
<1>11. ASSUME NEW i \in Nat, i \in S PROVE i + 1 \in S
  <2> SUFFICES ASSUME i + 1 <= N PROVE Good(f[i + 1])
      OBVIOUS
  <2>1. Good(f[i]) /\ i + 1 \in 0..N /\ i + 1 \in 1..N /\ (i + 1) - 1 = i /\ i + 1 # 0
      BY <1>6, <1>11
  <2>2. f[i + 1] = Observed(f[(i + 1) - 1], edges[i + 1])
      BY <1>9, <2>1
  <2>3. edges[i + 1].from \in Nat /\ edges[i + 1].to \in Nat
      BY <2>1 DEF N
  <2>4. Good(Observed(f[i], edges[i + 1]))
      BY <2>1, <2>3, ObservedKeepsSound
  <2> QED BY <2>1, <2>2, <2>4
<1>12. N \in S
  <2> HIDE DEF S
  <2> QED BY <1>6, <1>10, <1>11, NaturalsByInduction
<1>13. Good(f[N])
    BY <1>6, <1>12
<1> QED BY <1>9, <1>13

----------------------------------------------------------------------------
(* The inductive invariant: the table is sound, and one writer at most has  *)
(* an edge to write, which the table as it is does not refuse.              *)
RelationOpen(w) == exec[w].pc = "relating"
HierarchyInv ==
    /\ Sound(relationships)
    /\ \A w \in Writers : RelationOpen(w) => exec[w].edge \in Edges /\ ~Refused(relationships, exec[w].edge)
    /\ \A v, w \in Writers : RelationOpen(v) /\ RelationOpen(w) => v = w

LEMMA HierarchyInit == Init => HierarchyInv
<1> SUFFICES ASSUME Init PROVE HierarchyInv
    OBVIOUS
<1>1. relationships = {} /\ \A w \in Writers : ~RelationOpen(w)
    BY DEF Init, IdentityInit, Free, RelationOpen
<1>2. \A d, x, y : ~Above({}, d, x, y)
    BY DEF Above
<1>3. LoopFree({})
    BY <1>2 DEF LoopFree, Looped
<1>4. Sound({})
    BY <1>3, FS_EmptySet DEF Sound, Dated
<1> QED BY <1>1, <1>4 DEF HierarchyInv

(* What is materialized is dated.                                           *)
LEMMA MaterializeStep ==
    ASSUME OrganizationInv, HierarchyInv, NEW sources, MaterializeRelationships(sources)
    PROVE  Sound(relationships')
<1> DEFINE linked == {r \in rows : r.organization # None /\ r.data.source \in sources}
           placed == {r \in linked : ParentsOf(r) \ {r.organization} # {}}
           published == {PartOf(r) : r \in placed}
           edges == SetToSeq(published)
<1>1. relationships' = Materialized(edges, relationships).rels
    BY DEF MaterializeRelationships, Materialized
<1>2. IsFiniteSet(published)
  <2>1. placed \in SUBSET rows /\ IsFiniteSet(rows)
      BY DEF OrganizationInv, RowsInv
  <2> HIDE DEF placed
  <2>2. IsFiniteSet(placed)
      BY <2>1, FS_Subset
  <2> DEFINE f == [r \in placed |-> PartOf(r)]
  <2>3. f = [r \in placed |-> f[r]] /\ published = {f[r] : r \in placed}
      OBVIOUS
  <2> HIDE DEF f, published
  <2> QED BY <2>2, <2>3, ImageFinite
<1>3. \A e \in published : e.from \in Nat /\ e.to \in Nat
  <2> SUFFICES ASSUME NEW r \in rows PROVE PartOf(r).from \in Nat /\ PartOf(r).to \in Nat
      OBVIOUS
  <2>1. PICK data \in UNION Files : r.data = data \/ r.data = [data EXCEPT !.reason = TRUE]
      BY DEF OrganizationInv, RowsInv, RowShape, SaysTheFile
  <2>2. data.from \in Nat
      BY FileAssumption
  <2>3. r.data.from \in Nat
      BY <2>1, <2>2, FileAssumption
  <2> QED BY <2>3, BoundAssumption DEF PartOf
<1> HIDE DEF published
<1>4. PICK n \in Nat : edges \in [1..n -> published]
    BY <1>2, SetInOrder
<1>5. Len(edges) = n
    BY <1>4
<1>6. Sound(relationships)
    BY DEF HierarchyInv
<1> HIDE DEF edges
<1>7. \A i \in 1..Len(edges) : edges[i].from \in Nat /\ edges[i].to \in Nat
    BY <1>3, <1>4, <1>5
<1> QED BY <1>1, <1>4, <1>5, <1>6, <1>7, MaterializedKeepsSound

LEMMA HierarchyStep ==
    ASSUME OrganizationInv, HierarchyInv, [Next]_vars
    PROVE  HierarchyInv'
<1>0. DOMAIN exec = Writers
    BY DEF OrganizationInv, IdentityInv, Shaped
<1>1. CASE UNCHANGED relationships /\ \A w \in Writers : RelationOpen(w)' => exec'[w] = exec[w]
  <2>1. \A w \in Writers : RelationOpen(w)' => RelationOpen(w)
      BY <1>1 DEF RelationOpen
  <2> QED BY <1>1, <2>1 DEF HierarchyInv
<1>2. ASSUME NEW w \in Writers, NEW x, exec' = [exec EXCEPT ![w] = x], x.pc # "relating", UNCHANGED relationships
      PROVE  HierarchyInv'
  <2>1. \A v \in Writers : RelationOpen(v)' => exec'[v] = exec[v]
      BY <1>0, <1>2 DEF RelationOpen
  <2> QED BY <1>1, <1>2, <2>1
<1>3. ASSUME NEW w \in Writers, NEW rec \in Records, BeginUpsert(w, rec) PROVE HierarchyInv'
  <2> DEFINE x == [pc |-> "begun", rec |-> rec]
  <2>1. exec' = [exec EXCEPT ![w] = x] /\ UNCHANGED relationships /\ x.pc # "relating"
      BY <1>3 DEF BeginUpsert
  <2> HIDE DEF x
  <2> QED BY <1>2, <2>1
<1>4. ASSUME NEW w \in Writers, Resolve(w) PROVE HierarchyInv'
  <2> DEFINE owners == Owners(exec[w].rec)
             x == IF Cardinality(owners) > 1 THEN Free
                  ELSE [pc |-> "resolved", rec |-> exec[w].rec, owners |-> owners,
                        stored |-> {organizations[o].fingerprint : o \in owners}]
  <2>1. exec' = [exec EXCEPT ![w] = x] /\ UNCHANGED relationships
      BY <1>0, <1>4 DEF Resolve
  <2>2. x.pc # "relating"
      BY DEF Free
  <2> HIDE DEF x
  <2> QED BY <1>2, <2>1, <2>2
<1>5. ASSUME NEW w \in Writers, CommitUpsert(w) \/ Rollback(w) PROVE HierarchyInv'
    BY <1>2, <1>5 DEF CommitUpsert, Rollback, Free
<1>6. ASSUME NEW w \in Writers, NEW e \in Edges, BeginRelationship(w, e) PROVE HierarchyInv'
  <2>1. CASE Refused(relationships, e)
    <3>1. exec' = [exec EXCEPT ![w] = Free] /\ UNCHANGED relationships
        BY <1>6, <2>1 DEF BeginRelationship
    <3>2. Free.pc # "relating"
        BY DEF Free
    <3> QED BY <1>2, <3>1, <3>2
  <2>2. CASE ~Refused(relationships, e)
    <3>1. /\ exec' = [exec EXCEPT ![w] = [pc |-> "relating", edge |-> e]]
          /\ UNCHANGED relationships /\ RelationLockFree
        BY <1>6, <2>2 DEF BeginRelationship
    <3>2. \A v \in Writers : ~RelationOpen(v)
        BY <3>1 DEF RelationLockFree, RelationOpen
    <3>3. \A v \in Writers : RelationOpen(v)' => v = w
        BY <1>0, <3>1, <3>2 DEF RelationOpen
    <3>4. exec'[w].edge = e
        BY <1>0, <3>1
    <3> QED BY <2>2, <3>1, <3>3, <3>4 DEF HierarchyInv
  <2> QED BY <2>1, <2>2
<1>7. ASSUME NEW w \in Writers, CommitRelationship(w) PROVE HierarchyInv'
  <2> PICK e : e = exec[w].edge
      OBVIOUS
  <2>1. RelationOpen(w) /\ e \in Edges /\ ~Refused(relationships, e) /\ Sound(relationships)
      BY <1>7 DEF HierarchyInv, CommitRelationship, RelationOpen
  <2>2. relationships' = Others(relationships, e) \cup {Merged(relationships, e)}
      BY <1>7 DEF CommitRelationship
  <2>3. Sound(relationships')
      BY <2>1, <2>2, UpsertKeepsSound
  <2>4. \A v \in Writers : ~RelationOpen(v)'
    <3>1. exec' = [exec EXCEPT ![w] = Free]
        BY <1>7 DEF CommitRelationship
    <3> QED BY <1>0, <2>1, <3>1 DEF RelationOpen, Free, HierarchyInv
  <2> QED BY <2>3, <2>4 DEF HierarchyInv
<1>8. ASSUME NEW sources, MaterializeRelationships(sources) PROVE HierarchyInv'
  <2>1. Sound(relationships') /\ exec' = exec /\ \A w \in Writers : ~RelationOpen(w)
      BY <1>8, MaterializeStep DEF MaterializeRelationships, RelationLockFree, RelationOpen
  <2> QED BY <2>1 DEF HierarchyInv, RelationOpen
<1>9. CASE UNCHANGED <<relationships, exec>>
    BY <1>1, <1>9
<1>10. ASSUME Canonicalize \/ AbortImport \/ UNCHANGED vars PROVE HierarchyInv'
    BY <1>9, <1>10 DEF Canonicalize, AbortImport, vars, identityVars
<1>11. ASSUME NEW file, Stage(file) PROVE HierarchyInv'
    BY <1>9, <1>11 DEF Stage, identityVars
<1>12. ASSUME NEW scoped, Match(scoped) PROVE HierarchyInv'
    BY <1>9, <1>12 DEF Match, identityVars
<1>13. ASSUME NEW o, NEW url, RecordCandidate(o, url) PROVE HierarchyInv'
    BY <1>9, <1>13 DEF RecordCandidate, identityVars
<1>14. ASSUME NEW c, RejectCandidate(c) PROVE HierarchyInv'
    BY <1>9, <1>14 DEF RejectCandidate, identityVars
<1>16. ASSUME NEW w \in Writers, NEW c, LockCandidate(w, c) PROVE HierarchyInv'
  <2> DEFINE x == [pc |-> "reviewing", candidate |-> c]
  <2>1. exec' = [exec EXCEPT ![w] = x] /\ UNCHANGED relationships /\ x.pc # "relating"
      BY <1>16 DEF LockCandidate
  <2> HIDE DEF x
  <2> QED BY <1>2, <2>1
<1>17. ASSUME NEW w \in Writers, LockOrganization(w) PROVE HierarchyInv'
  <2> DEFINE x == IF NoWebsiteYet(exec[w].candidate.organization)
                  THEN [pc |-> "verifying", candidate |-> exec[w].candidate] ELSE Free
  <2>1. exec' = [exec EXCEPT ![w] = x] /\ UNCHANGED relationships
      BY <1>0, <1>17 DEF LockOrganization
  <2>2. x.pc # "relating"
      BY DEF Free
  <2> HIDE DEF x
  <2> QED BY <1>2, <2>1, <2>2
<1>18. ASSUME NEW w \in Writers, VerifyCandidate(w) PROVE HierarchyInv'
  <2>1. exec' = [exec EXCEPT ![w] = Free] /\ UNCHANGED relationships
      BY <1>18 DEF VerifyCandidate
  <2>2. Free.pc # "relating"
      BY DEF Free
  <2> QED BY <1>2, <2>1, <2>2
<1>15. CASE IdentityNext
    BY <1>3, <1>4, <1>5, <1>6, <1>7, <1>15 DEF IdentityNext
<1> QED BY <1>8, <1>10, <1>11, <1>12, <1>13, <1>14, <1>15, <1>16, <1>17, <1>18 DEF Next

LEMMA HierarchyInvariant == Spec => []HierarchyInv
<1>1. OrganizationInv /\ HierarchyInv /\ [Next]_vars => HierarchyInv'
    BY HierarchyStep
<1> QED BY <1>1, HierarchyInit, OrganizationInvariant, PTL DEF Spec

----------------------------------------------------------------------------
(* On no day is an organization below itself, whoever publishes the edges,  *)
(* in whatever order their windows open and close, and whatever a register  *)
(* adds to them: the members of a path back to it would be a loop.          *)
THEOREM ContainmentHasNoCycle == Spec => []HierarchyAcyclic
<1>1. HierarchyInv => HierarchyAcyclic
  <2> SUFFICES ASSUME HierarchyInv,
                      NEW date \in {r.from : r \in relationships} \cup {r.to : r \in relationships},
                      NEW o, o \in Descendants(date, Cardinality(relationships), o)
               PROVE  FALSE
      BY DEF HierarchyAcyclic
  <2> DEFINE N == Cardinality(relationships)
             below(S) == {edge[2] : edge \in {f \in InEffect(date) : f[1] \in S}}
             Is(f) == f = [i \in 0..N |-> IF i = 0 THEN {o} ELSE below(f[i - 1])]
             U == SUBSET ({o} \cup {edge[2] : edge \in InEffect(date)})
             next == [i \in 1..N |-> [S \in U |-> below(S)]]
  <2>1. date \in Nat /\ N \in Nat /\ LoopFree(relationships)
      BY FS_CardinalityType DEF HierarchyInv, Sound, Dated
  <2>2. Descendants(date, N, o) = UNION {(CHOOSE f : Is(f))[i] : i \in 1..N}
      BY DEF Descendants
  <2>3. {o} \in U /\ next \in [1..N -> [U -> U]] /\ \A i \in 1..N, S \in U : next[i][S] = below(S)
      OBVIOUS
  <2>4. \A S : \A y \in below(S) : \E x \in S : Above(relationships, date, x, y)
      BY DEF InEffect, Above
  <2> HIDE DEF N, below, U, next
  <2>5. PICK g \in [0..N -> U] : Runs(g, N, {o}, next)
      BY <2>1, <2>3, Iteration
  <2>6. Is(g)
    <3>1. \A i \in 0..N : i # 0 => i \in 1..N /\ i - 1 \in 0..N
        BY <2>1
    <3>2. \A i \in 0..N : i # 0 => next[i][g[i - 1]] = below(g[i - 1])
        BY <2>3, <3>1
    <3>3. \A i \in 0..N : (IF i = 0 THEN {o} ELSE next[i][g[i - 1]])
                          = (IF i = 0 THEN {o} ELSE below(g[i - 1]))
        BY <3>2
    <3> QED BY <2>5, <3>3 DEF Runs
  <2>7. PICK f : Is(f) /\ f = CHOOSE h : Is(h)
    <3> HIDE DEF Is
    <3> QED BY <2>6
  <2>8. PICK k \in 1..N : o \in f[k]
      BY <2>2, <2>7 DEF N
  <2> DEFINE F == UNION {f[i] : i \in 1..k}
  <2>9. ASSUME NEW y \in F PROVE \E x \in F : Above(relationships, date, x, y)
    <3>1. PICK i \in 1..k : y \in f[i]
        OBVIOUS
    <3>2. f[i] = below(f[i - 1])
      <4>1. i \in 0..N /\ i # 0
          BY <2>1, <3>1
      <4> QED BY <2>7, <4>1
    <3>3. PICK x \in f[i - 1] : Above(relationships, date, x, y)
        BY <2>4, <3>1, <3>2
    <3>4. CASE i = 1
      <4>1. x = o
          BY <2>1, <2>7, <3>3, <3>4
      <4> QED BY <2>1, <2>8, <3>3, <4>1
    <3>5. CASE i # 1
      <4>1. i - 1 \in 1..k
          BY <2>1, <3>5
      <4> QED BY <3>3, <4>1
    <3> QED BY <3>4, <3>5
  <2>10. o \in F
      BY <2>1, <2>8
  <2> HIDE DEF F
  <2>11. Looped(relationships, date, F)
      BY <2>9, <2>10 DEF Looped
  <2> QED BY <2>1, <2>11 DEF LoopFree
<1> QED BY <1>1, HierarchyInvariant, PTL
=============================================================================
