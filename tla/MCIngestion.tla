---------------------------- MODULE MCIngestion ----------------------------
(* A directory two schools may share: a teacher listed with and without a   *)
(* department, an office with a shared inbox, an address that is decoded on *)
(* one version of the page and plain on the other.  Another site lists a    *)
(* staff of three, whose addresses follow a pattern and are not all given.  *)
EXTENDS EmailCandidates, MCDatabaseSetup

Email(address, valid, plain, inbox, named, personal) ==
    [address |-> address, valid |-> valid, plain |-> plain, inbox |-> inbox, named |-> named,
     personal |-> personal]

Entry(key, name, title, department, organization, phone, label, private, list) ==
    [key |-> key, name |-> name, title |-> title, department |-> department,
     organization |-> organization, phone |-> phone, label |-> label, private |-> private,
     emails |-> list]

Ada(plain, title) ==
    Entry("k1", "Ada L. Byron", title, None, "South", None, FALSE, {},
          <<Email("ada@x", TRUE, plain, FALSE, TRUE, FALSE), Email("ada@gmail", TRUE, TRUE, FALSE, TRUE, TRUE)>>)
Office == Entry("k2", "Front Office", None, "Admin", "North", "555", TRUE, {},
                <<Email("office@x", TRUE, TRUE, TRUE, TRUE, FALSE)>>)
Hidden == Entry("k3", "SSN 1", None, None, "North", None, FALSE, {"name"}, <<>>)

SchoolPages ==
    {[url |-> "u", content |-> "c1", records |-> <<Ada(FALSE, None)>>],
     [url |-> "u", content |-> "c2", records |-> <<Ada(TRUE, None), Hidden>>]}
OfficePages == {[url |-> "v", content |-> "c3", records |-> <<Office>>],
                [url |-> "v", content |-> "c4", records |-> <<>>]}
Staff(key, name, list) == Entry(key, name, None, None, "North", None, FALSE, {}, list)
Unlisted == Entry("k6", "Bo Ray", None, None, "North", "unlisted", FALSE, {}, <<>>)
Own(address) == <<Email(address, TRUE, TRUE, FALSE, TRUE, FALSE)>>
StaffPages ==
    {[url |-> "s", content |-> "c5", records |->
        <<Staff("k4", "Ann Lee", Own("a.lee@x")), Staff("k5", "Al Lee", Own("a.lee@x")), Unlisted>>],
     [url |-> "s", content |-> "c6", records |-> <<Staff("k6", "Bo Ray", Own("b.ray@x"))>>]}
AllPages == SchoolPages \cup OfficePages \cup StaffPages

AnySite == [pages |-> OfficePages, fetches |-> 2, shared |-> Organizations, infers |-> FALSE]

(* Each behaviour has one url that changes between two contents; the        *)
(* school's is fetched three times by one organization, or twice by two;    *)
(* the staff is ingested by one worker while candidates are worked on.      *)
Sites == {[pages |-> SchoolPages, fetches |-> 3, shared |-> {Home}, infers |-> FALSE],
          [pages |-> SchoolPages, fetches |-> 2, shared |-> Organizations, infers |-> FALSE],
          AnySite,
          [pages |-> StaffPages, fetches |-> 2, shared |-> {Home}, infers |-> TRUE]}

VARIABLES site, stage
SiteNext == /\ IF site.infers THEN CandidatesNext ELSE Next /\ UNCHANGED candidateVars
            /\ links' \subseteq site.shared /\ now' <= site.fetches
            /\ \A w \in Workers : exec'[w].page \in site.pages \cup {None}
            /\ site.infers => Cardinality({w \in Workers : exec'[w] # Idle}) <= 1

(* Before anything is ingested a database is set up, and each pipeline is   *)
(* given the taxonomy of its organization.  A stage moves one of the three. *)
StageInit ==
    /\ CandidatesInit /\ SetupInit
    /\ \/ stage = "pages" /\ site \in Sites /\ PacksRest /\ embedded
       \/ stage = "packs" /\ site = AnySite /\ PacksInit /\ embedded
       \/ stage = "setup" /\ site = AnySite /\ PacksRest
StageNext ==
    /\ UNCHANGED <<site, stage>>
    /\ \/ stage = "pages" /\ SiteNext /\ UNCHANGED <<packVars, setupVars>>
       \/ stage = "packs" /\ PacksNext /\ UNCHANGED <<vars, candidateVars, setupVars>>
       \/ stage = "setup" /\ SetupNext /\ UNCHANGED <<vars, candidateVars, packVars>>
StageSpec == StageInit /\ [][StageNext]_<<vars, candidateVars, packVars, setupVars, site, stage>>
Sym == Permutations(Workers) \cup Permutations(Validators)

Names == ("north" :> "North") @@ ("south" :> "South")
Staffers == {"Ann Lee", "Al Lee", "Bo Ray"}
Identities == [n \in {"Ada L. Byron", "Ada Byron"} |-> "byron ada"] @@ ("Front Office" :> "office front")
              @@ [n \in Staffers |-> n]
Lengths == [n \in DOMAIN Identities |-> 8] @@ ("Ada L. Byron" :> 12)
ParsedNames ==
    ("Ann Lee" :> [first |-> <<"a", "n">>, middle |-> <<>>, last |-> <<"l", "e">>])
    @@ ("Al Lee" :> [first |-> <<"a", "l">>, middle |-> <<>>, last |-> <<"l", "e">>])
    @@ ("Bo Ray" :> [first |-> <<"b", "o">>, middle |-> <<>>, last |-> <<"r">>])
AddressParts == ("a.lee@x" :> [local |-> <<"a", ".", "l", "e">>, domain |-> "x"])
                @@ ("b.ray@x" :> [local |-> <<"b", ".", "r">>, domain |-> "x"])
LocalPatterns == <<<<"first", ".", "last">>, <<"f", ".", "last">>, <<"f", ".", "l">>, <<"f", "m", "last">>>>
Domains == [o \in Organizations |-> "x"]
Normals == ("unlisted" :> None) @@ [v \in {None, "Admin", "555"} |-> v]
============================================================================
