----------------------------- MODULE SectorPacks -----------------------------
(* How the packs of the sectors are composed with the neutral base into one *)
(* taxonomy, and which part of it one organization's records are read with: *)
(* the rules, abbreviations and words of the packs whose scope covers the   *)
(* organization, in the order of their registration, then the base's.  A    *)
(* regular expression over titles is the word it looks for.                 *)
EXTENDS Absence, Naturals, FiniteSets, SequencesExt, TLC

CONSTANTS
    Base,                \* the neutral base, with the codes of levels and sectors
    Arrangements,        \* the sequences of packs a release may register
    OrganizationScopes,  \* [sector, level] of organizations, either may be None
    Titles,              \* published titles: sequences of words
    SeniorityModifiers   \* words that decide the seniority, first match first

(* The base has the roles a title is given that no rule names.             *)
ASSUME PacksAssumption ==
    /\ {"other", "unknown"} \subseteq {row.code : row \in ToSet(Base.rows["role"])}
    /\ Base.rules \in Seq(ToSet(Base.rules))
    /\ \A arrangement \in Arrangements :
          /\ arrangement \in Seq(ToSet(arrangement))
          /\ \A pack \in ToSet(arrangement) : pack.rules \in Seq(ToSet(pack.rules))

VARIABLES
    packs,        \* the packs of this release
    scopedCache,  \* [key of a scope -> what it was answered]
    readings      \* [scope -> what an organization's pipeline was given for it]

packVars == <<packs, scopedCache, readings>>

(* The reference rows packs add to.  The other axes are the base's alone.   *)
Kinds == {"type", "system", "area", "family", "role"}

----------------------------------------------------------------------------
(* Composition.                                                             *)

RowsByCode(rows) ==
    [code \in {row.code : row \in ToSet(rows)} |-> CHOOSE row \in ToSet(rows) : row.code = code]

(* A code that the base or an earlier pack defines may only be replaced by  *)
(* a pack that says so.                                                     *)
DefinedBefore(arrangement, i, kind, code) ==
    \E pack \in {Base} \cup {arrangement[k] : k \in 1..(i - 1)} : code \in DOMAIN RowsByCode(pack.rows[kind])
Overwrites(arrangement, i, kind, code) ==
    DefinedBefore(arrangement, i, kind, code) /\ code \notin arrangement[i].overrides

Collides(arrangement) ==
    \/ ~IsInjective(FlattenSeq([i \in DOMAIN arrangement |-> arrangement[i].presets]))
    \/ \E i \in DOMAIN arrangement : arrangement[i].axes # {}
    \/ \E i \in DOMAIN arrangement, kind \in Kinds :
          LET rows == arrangement[i].rows[kind] IN
          \/ Cardinality(DOMAIN RowsByCode(rows)) < Len(rows)
          \/ \E row \in ToSet(rows) : Overwrites(arrangement, i, kind, row.code)

Over(later, earlier) ==
    [code \in DOMAIN later \cup DOMAIN earlier |-> IF code \in DOMAIN later THEN later[code] ELSE earlier[code]]
Merged(arrangement, kind) ==
    LET merged[n \in 0..Len(arrangement)] ==
            IF n = 0 THEN RowsByCode(Base.rows[kind])
            ELSE Over(RowsByCode(arrangement[n].rows[kind]), merged[n - 1])
    IN merged[Len(arrangement)]

(* What a pack or the base contributes to reading, one after the other.     *)
Contributions(arrangement, field) ==
    FlattenSeq([i \in DOMAIN arrangement |-> arrangement[i][field]]) \o Base[field]
TitleRules(arrangement) ==
    FlattenSeq([i \in DOMAIN arrangement |->
        [j \in DOMAIN arrangement[i].rules |-> arrangement[i].rules[j] @@ ("source" :> arrangement[i].key)]])
    \o [j \in DOMAIN Base.rules |-> Base.rules[j] @@ ("source" :> "base")]

(* Words are added up; of a url hint the greater weight stands.             *)
ComposeVocabulary(arrangement) ==
    LET all == {Base} \cup ToSet(arrangement)
        patterns == UNION {DOMAIN pack.hints : pack \in all}
    IN [terms |-> UNION {pack.terms : pack \in all},
        hints |-> [p \in patterns |->
            LET weights == {pack.hints[p] : pack \in {x \in all : p \in DOMAIN x.hints}}
            IN CHOOSE w \in weights : \A v \in weights : v <= w]]

(* Every code that is referred to must exist.                               *)
Coherent(arrangement) ==
    LET known(codes, code) == code = None \/ code \in codes
        types == Merged(arrangement, "type")
        roles == Merged(arrangement, "role")
        rules == TitleRules(arrangement)
    IN /\ \A code \in DOMAIN types : known(Base.levels, types[code].level) /\ known(Base.sectors, types[code].sector)
       /\ \A i \in DOMAIN arrangement :
             /\ arrangement[i].sectors # None => arrangement[i].sectors \subseteq Base.sectors
             /\ arrangement[i].levels # None => arrangement[i].levels \subseteq Base.levels
       /\ \A code \in DOMAIN roles : roles[code].family \in DOMAIN Merged(arrangement, "family")
       /\ \A i \in DOMAIN rules : rules[i].role \in DOMAIN roles
Accepted(arrangement) == ~Collides(arrangement) /\ Coherent(arrangement)

----------------------------------------------------------------------------
(* Reading.                                                                 *)

(* Those packs of an arrangement, in their order.                           *)
Registered(arrangement, those) ==
    LET kept[n \in 0..Len(arrangement)] ==
            IF n = 0 THEN <<>>
            ELSE IF arrangement[n] \in those THEN Append(kept[n - 1], arrangement[n]) ELSE kept[n - 1]
    IN kept[Len(arrangement)]

(* Both dimensions must match; what an organization does not state matches  *)
(* a wildcard only.                                                         *)
ScopeMatches(pack, scope) ==
    /\ pack.sectors = None \/ (scope.sector # None /\ scope.sector \in pack.sectors)
    /\ pack.levels = None \/ (scope.level # None /\ scope.level \in pack.levels)

Composed(arrangement, scope) ==
    LET applicable == Registered(arrangement, {pack \in ToSet(arrangement) : ScopeMatches(pack, scope)})
    IN [packKeys |-> [i \in DOMAIN applicable |-> applicable[i].key],
        rules |-> TitleRules(applicable),
        abbreviations |-> Contributions(applicable, "abbreviations"),
        specialties |-> Contributions(applicable, "specialties"),
        vocabulary |-> ComposeVocabulary(applicable)]

SlipCacheKey(scope) == <<scope.level>>
CacheKey(scope) == <<scope.sector, scope.level>>

(* A taxonomy that collides or does not cohere throws, and nothing starts.  *)
PacksInit ==
    /\ packs \in {a \in Arrangements : Accepted(a)}
    /\ scopedCache = <<>> /\ readings = <<>>
ForScope(scope) ==
    /\ scopedCache' = Over(scopedCache, [key \in {CacheKey(scope)} |-> Composed(packs, scope)])
    /\ readings' = Over([asked \in {scope} |-> scopedCache'[CacheKey(scope)]], readings)
    /\ UNCHANGED packs

PacksNext == \E scope \in OrganizationScopes : ForScope(scope)

(* A title under such rules: abbreviations expand one after the other, the  *)
(* first rule that matches decides, a modifier overrides its seniority; a   *)
(* specialty is looked for in the title as published.                       *)
Expanded(title, abbreviations) ==
    FoldLeft(LAMBDA words, a : [i \in DOMAIN words |-> IF words[i] = a.short THEN a.long ELSE words[i]],
             title, abbreviations)
FirstOf(seq, words) ==
    LET hits == {i \in DOMAIN seq : seq[i].word \in ToSet(words)}
    IN IF hits = {} THEN None ELSE seq[CHOOSE i \in hits : \A j \in hits : i <= j]
NormalizeTitle(title, reading, roles) ==
    LET key == Expanded(title, reading.abbreviations)
        matched == FirstOf(reading.rules, key)
        modifier == FirstOf(SeniorityModifiers, key)
        specialty == FirstOf(reading.specialties, title)
        role == IF title = <<>> THEN "unknown" ELSE IF matched = None THEN "other" ELSE matched.role
    IN [title |-> key, role |-> role,
        family |-> IF role \in DOMAIN roles THEN roles[role].family ELSE "unknown",
        seniority |-> IF modifier # None THEN modifier.seniority
                      ELSE IF matched # None THEN matched.seniority ELSE "unknown",
        specialty |-> IF specialty = None THEN None ELSE specialty.word,
        source |-> IF matched = None THEN None ELSE matched.source]

----------------------------------------------------------------------------
(* "Registering a sector cannot alter behaviour for any other sector", and  *)
(* which pack wins does not depend on an argument list in another file:     *)
(* whatever was asked before, an organization reads titles, words and hints *)
(* as if a pack that does not cover it were not registered, except for the  *)
(* family of a role that pack overrides; and in another order the same      *)
(* packs are refused, or define every code alike that no two override.      *)
Covers(pack, scope) ==
    \A axis \in {<<pack.sectors, scope.sector>>, <<pack.levels, scope.level>>} :
        axis[1] = None \/ axis[2] \in axis[1]
Without(arrangement, pack) == Registered(arrangement, ToSet(arrangement) \ {pack})
ReadsAsWithout(pack, scope) ==
    LET others == Without(packs, pack)
        mine == readings[scope]
        theirs == Composed(others, scope)
    IN /\ mine.vocabulary = theirs.vocabulary /\ mine.packKeys = theirs.packKeys
       /\ \A title \in Titles :
             LET read == NormalizeTitle(title, mine, Merged(packs, "role"))
                 alone == NormalizeTitle(title, theirs, Merged(others, "role"))
             IN \/ read = alone
                \/ read.role \in pack.overrides /\ [read EXCEPT !.family = alone.family] = alone
DefinesAlike(order) ==
    \A kind \in Kinds : LET here == Merged(packs, kind)  there == Merged(order, kind) IN
        /\ DOMAIN here = DOMAIN there
        /\ \A code \in DOMAIN here : here[code] # there[code] =>
              \E p, q \in ToSet(packs) : p # q /\ code \in p.overrides \cap q.overrides
PacksDoNotInterfere ==
    /\ \A scope \in DOMAIN readings : \A pack \in ToSet(packs) :
          ~Covers(pack, scope) /\ Accepted(Without(packs, pack)) => ReadsAsWithout(pack, scope)
    /\ \A order \in SetToSeqs(ToSet(packs)) : Accepted(order) => DefinesAlike(order)
=============================================================================
