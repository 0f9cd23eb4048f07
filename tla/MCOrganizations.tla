-------------------------- MODULE MCOrganizations --------------------------
(* Four casts: two collections that see one school with different evidence  *)
(* in two spellings, an import beside a collection, two sources of the      *)
(* hierarchy, and the review of websites by two people.                     *)
EXTENDS OrganizationSpine, TLC

Record(identifier, source, parent, domain, website, at) ==
    [identifier |-> identifier, source |-> source, parent |-> parent, domain |-> domain,
     jurisdiction |-> IF domain = None THEN None ELSE "tx", name |-> "lincoln", class |-> "school",
     level |-> "local", document |-> "d", website |-> website, at |-> at]

Nces == <<"nces", 1>>
Tea == <<"tea:TX", 1>>
TeaTwo == <<"tea:TX", 2>>
RowA == <<"directory", "a">>
NcesSpelled == <<"nces", 1, "spaced">>
RowASpelled == <<"directory", "a", "upper case">>

Sightings ==
    {Record(Nces, RowA, None, None, "w", 2), Record(None, RowA, "district", None, None, 1),
     Record(None, None, "district", None, None, 2), Record(Tea, None, "district", None, None, 1),
     Record(TeaTwo, None, None, "dom", None, 1), Record(Nces, None, None, None, None, 1),
     Record(NcesSpelled, None, None, None, None, 2), Record(None, RowASpelled, None, None, None, 1)}

Row(source, key, version, list, parents, class, level, reason, status) ==
    [source |-> source, key |-> key, version |-> version, identifiers |-> list, parents |-> parents,
     class |-> class, level |-> level, reason |-> reason, jurisdiction |-> None, website |-> None,
     name |-> "lincoln", from |-> version, status |-> status]

School(version) == Row("ccd", "s", version, <<Nces, Tea>>, {TeaTwo}, "school", "local", FALSE, "ready_to_import")
Unsure == Row("askted", "t", 1, <<Tea, Nces>>, {}, "school", None, TRUE, "classification_hold")
District == Row("askted", "d", 1, <<TeaTwo>>, {Nces}, "district", "local", FALSE, "ready_to_import")
AllFiles == {{School(1)}, {School(2)}, {Unsure, District}}
RosterScope == {[source |-> "askted", key |-> "t"], [source |-> "ccd", key |-> "s"]}

Org(n) == [fingerprint |-> <<"oid", <<"gnis", n>>>>, review |-> FALSE, class |-> "city", level |-> "local",
           jurisdiction |-> None, name |-> n, website |-> None, seen |-> 1]
AllEdges ==
    {e \in [parent : 1..3, child : 1..3, subtree : BOOLEAN, from : 1..2, to : {1, 2, 9}] :
        /\ e.subtree \/ (e.parent = 1 /\ e.from = 1 /\ e.to = 9)
        /\ <<e.parent, e.child>> \in {<<1, 2>>, <<2, 3>>, <<3, 1>>, <<2, 1>>}}

NoCast == [records |-> {}, files |-> {}, edges |-> {}, websites |-> {}, existing |-> <<>>]
Casts ==
    {[NoCast EXCEPT !.records = Sightings],
     [NoCast EXCEPT !.records = {Record(Nces, RowA, None, None, None, 1), Record(None, RowA, None, None, None, 2)},
                    !.files = AllFiles],
     [NoCast EXCEPT !.edges = AllEdges, !.existing = <<Org(1), Org(2), Org(3)>>],
     [NoCast EXCEPT !.websites = {"w1", "w2"}, !.existing = <<Org(1), Org(2)>>,
                    !.records = {[Record(<<"gnis", 1>>, None, None, None, "w3", 2) EXCEPT !.class = "city"]}]}

AllRecords == UNION {c.records : c \in Casts}
AllExisting == {c.existing : c \in Casts}
AllWebsites == UNION {c.websites : c \in Casts}

VARIABLE cast
CastInit == cast \in Casts /\ Init /\ organizations = cast.existing
CastNext ==
    /\ Next
    /\ rows' # rows => \A r \in rows' \ rows : \E file \in cast.files : r.data \in file
    /\ \A w \in Writers :
          /\ exec'[w].pc = "begun" => exec'[w].rec \in cast.records
          /\ exec'[w].pc = "relating" => exec'[w].edge \in cast.edges
    /\ count'.relations = count.relations \/ cast.edges # {}
    /\ \A c \in candidates' : c.url \in cast.websites
    /\ UNCHANGED cast
CastSpec == CastInit /\ [][CastNext]_<<vars, cast>>
Sym == Permutations(Writers)
============================================================================
