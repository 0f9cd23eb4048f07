------------------------------ MODULE MCSources ------------------------------
(* What is recorded of organizations and their sources, in one run: the     *)
(* casts of MCOrganizations, a bundle of contacts, releases of official     *)
(* files, delimited files, the discovery of directories, the operators'     *)
(* decisions on them and the pages they have.  A stage moves one of them.   *)
EXTENDS MCOrganizations, LegacyContacts, SpineOrganizer, DiscoveryWalk, DelimitedFiles,
        MCOperatorConsole, MCDirectoryPages

(* Contacts: a blank line, a line that is refused between two that are      *)
(* accepted, a place that becomes ambiguous or changes its school; each row *)
(* on a page of its own.                                                    *)
Contact(who, place) ==
    [text |-> "row", who |-> who, defect |-> None, page |-> <<"www", who, "isd", "org">>, personal |-> FALSE,
     place |-> place, late |-> None]
TheManifest ==
    << <<Contact("ann", "p1"), [Contact("bob", "p2") EXCEPT !.defect = "email is invalid"], Contact("cy", "p2")>>,
       <<[Contact("", "p1") EXCEPT !.text = "blank"], Contact("dee", "p1")>> >>
TheExclusions == {[file |-> 1, line |-> 2, reason |-> "email is invalid"]}
Schools(one, two) == [p \in {"p1", "p2"} |-> IF p = "p1" THEN one ELSE two]
TheAllowed == {<<"isd", "org">>}
TheSpines == {Schools({"o1"}, {"o2"}), Schools({"o1"}, {"o2", "o3"}), Schools({"o1"}, {"o3"})}
TheCampuses == [o \in {"o1", "o2", "o3"} |-> IF o = "o1" THEN None ELSE <<"isd", "org">>]

(* Releases: the usual one; one whose district changed its website between  *)
(* rows; one that repeats a campus; one that has a sheet nobody may collect *)
(* and rows without an identifier; one that repeats an agency.              *)
Texas(district, districtSite, campus, campusSite) ==
    [district |-> district, districtSite |-> districtSite, districtNces |-> "L1",
     campus |-> campus, campusSite |-> campusSite, campusNces |-> campus, county |-> "travis"]
NcesRow(kind, id, url) == [kind |-> kind, id |-> id, lea |-> "L1", state |-> None, site |-> url, type |-> "1"]
CensusRow(sheet, id, unit, parent, url) == [sheet |-> sheet, id |-> id, unit |-> unit, parent |-> parent, site |-> url]
County(name) == [type |-> "county", name |-> name, state |-> "TX", outlying |-> FALSE]
Usual ==
    [texas |-> <<Texas("d1", "w1", "S1", ""), Texas("d1", "w1", "S2", "w2")>>,
     nces |-> <<NcesRow("lea", "L1", ""), NcesRow("school", "S1", None), NcesRow("school", "S2", None),
                NcesRow("school", None, None)>>,
     census |-> <<CensusRow("general_purpose", "c1", "1", None, "w3"), CensusRow("special_district", "c2", "4", "c1", None)>>,
     areas |-> <<County("travis"), County("hays")>>,
     usagov |-> <<[node |-> "7", name |-> "gsa", site |-> "w4"]>>,
     register |-> <<[id |-> "9", parent |-> None, site |-> None]>>]
Changed ==
    [Usual EXCEPT !.texas[1].districtSite = "w9", !.texas[2].districtSite = "w9",
                  !.areas[2] = [@ EXCEPT !.outlying = TRUE, !.type = "state"]]
Repeating == [Usual EXCEPT !.texas[2].campus = "S1"]
Foreign ==
    [Usual EXCEPT !.usagov = <<@[1], [@[1] EXCEPT !.node = None]>>, !.register = <<[@[1] EXCEPT !.id = None]>>,
                  !.census = @ \o <<CensusRow("public_pension_system", "c3", "1", None, None), CensusRow("public_pension_system", None, "1", None, None)>>]
Thrice == [Usual EXCEPT !.usagov = <<@[1], @[1], @[1]>>]
TheReleases == {Usual, Changed, Repeating, Foreign, Thrice}
Count(records_, websites_, missing_) == [records |-> records_, websites |-> websites_, missing |-> missing_]
TheInventory ==
    [s \in {"askted", "nces-lea", "nces-school", "general_purpose", "special_district", "register"} |->
        CASE s = "askted" -> Count(3, 2, 1) [] s = "nces-school" -> Count(2, 0, 2)
          [] s = "general_purpose" -> Count(1, 1, 0) [] OTHER -> Count(1, 0, 1)]

(* A website: a directory two links deep, a page robots.txt refuses, one    *)
(* that is gone, one that moved away, a nested site behind a challenge.  A  *)
(* second organization publishes the about page as its website.             *)
At(path, file) == [host |-> <<"www", "isd", "k12", "tx", "us">>, path |-> path, file |-> file]
Home == At(<<"">>, None)
Staff == At(<<"", "staff">>, None)
About == At(<<"", "about">>, None)
Away == [Home EXCEPT !.host = <<"other", "org">>]
Page(final, links) == [answer |-> "page", final |-> final, directory |-> final = Staff, links |-> links]
TheSite ==
    LET Empty_(url) == Page(url, <<>>)
        moved == At(<<"", "old">>, None)    secret == At(<<"", "secret">>, None)
        gone == At(<<"", "contact">>, None) north == At(<<"", "north">>, None)
        news == At(<<"", "news">>, None)    map == At(<<"">>, "xml")
    IN (Home :> Page(Home, <<Staff, secret, gone, news>>)) @@ (Staff :> Page(Staff, <<About>>))
       @@ (About :> Page(About, <<Staff, north, moved>>)) @@ (moved :> Page(Away, <<>>))
       @@ (gone :> [Empty_(gone) EXCEPT !.answer = "gone"]) @@ (north :> [Empty_(north) EXCEPT !.answer = "challenge"])
       @@ (secret :> Empty_(secret)) @@ (Away :> Empty_(Away)) @@ (map :> Empty_(map)) @@ (news :> Empty_(news))
TheOrganizations ==
    ("o1" :> [seed |-> Home, scope |-> [own |-> Home, others |-> {At(<<"", "north">>, None)}]])
    @@ ("o2" :> [seed |-> About, scope |-> None])
Line(field, value) == [field |-> field, value |-> value]
TheRobots ==
    (Home.host :> <<Line("user-agent", "*"), Line("disallow", <<"", "secret">>), Line("allow", <<"">>)>>)
    @@ (Away.host :> <<>>)
WalkPolicies == <<NewPolicy(None, Home.host, "permitted")>>
ThePolicies == {WalkPolicies, ConsolePolicies}
TheReviews == {NewPolicy({Staff}, <<>>, "prohibited"), NewPolicy(None, Home.host, "review_required")}

(* Files: every arrangement of a few characters, returns behind a closing   *)
(* quote, blank rows.                                                       *)
TheContents ==
    UNION {[1..n -> {Quote, Comma, NewLine, "a"}] : n \in 0..5} \cup
    {<<Quote, "a", Quote, Return>> \o end : end \in {<<Quote, Quote>>, <<Comma, Quote>>, <<NewLine, "a">>}} \cup
    {<<"a", Comma, "b", NewLine, "x", Comma, "y", Return, NewLine, Blank, NewLine, Comma, "y", NewLine, "x", Blank>>}

----------------------------------------------------------------------------
VARIABLE stage
Stages == {"records", "contacts", "release", "files", "zombies", "reviews", "shared", "console", "pages"}
WalkStages == {"zombies", "reviews", "shared"}
Resting(names) ==
    /\ "records" \in names => UNCHANGED <<vars, cast>>
    /\ "contacts" \in names => UNCHANGED legacyVars
    /\ "release" \in names => UNCHANGED organizerVars
    /\ "files" \in names => UNCHANGED fileVars
    /\ "pages" \in names => UNCHANGED pageVars
    /\ "console" \in names => UNCHANGED consoleVars
    /\ WalkStages \subseteq names => UNCHANGED <<job, walk, target, targetLinks, seen, reviews>>
    /\ WalkStages \cup {"console"} \subseteq names => UNCHANGED policies

SourcesInit ==
    /\ stage \in Stages
    /\ IF stage = "records" THEN CastInit ELSE cast = NoCast /\ Init /\ organizations = <<>>
    /\ LegacyInit /\ (stage # "contacts" => spine = CHOOSE s \in Spines : TRUE)
    /\ OrganizerInit /\ (stage # "release" => release = Usual)
    /\ FilesInit /\ (stage # "files" => content = <<>>)
    /\ WalkInit /\ ConsoleInit /\ policies = IF stage = "console" THEN ConsolePolicies ELSE WalkPolicies
    /\ IF stage = "pages" THEN PagesInit ELSE directory = Growing /\ pager = StartOf(Growing)

(* One process is enough where nobody loses a claim to somebody else.       *)
Alone == CHOOSE p \in Processes : TRUE
SourcesNext ==
    /\ UNCHANGED stage
    /\ \/ stage = "records" /\ CastNext /\ Resting(Stages \ {stage})
       \/ stage = "contacts" /\ LegacyNext /\ Resting(Stages \ {stage})
       \/ stage = "release" /\ OrganizerNext /\ Resting(Stages \ {stage})
       \/ stage = "files" /\ FilesNext /\ Resting(Stages \ {stage})
       \/ stage = "console" /\ ConsoleNext /\ Resting(Stages \ {stage})
       \/ stage = "pages" /\ PagesNext /\ Resting(Stages \ {stage})
       \/ /\ stage \in WalkStages /\ WalkNext /\ Resting(Stages \ WalkStages)
          /\ stage # "reviews" => UNCHANGED policies
          /\ stage # "zombies" => UNCHANGED walk[Alone]
          /\ stage # "shared" => UNCHANGED job["o2"]
SourcesSpec ==
    SourcesInit /\ [][SourcesNext]_<<vars, cast, legacyVars, organizerVars, fileVars, walkVars, consoleVars, pageVars, stage>>
SourcesSymmetry == Permutations(Writers) \cup Permutations(Processes) \cup Permutations(Operators)
=============================================================================
