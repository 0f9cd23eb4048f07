-------------------------- MODULE MCPeopleRelease --------------------------
(* A school in a district, in a county of a state: two of its people share  *)
(* an office address, one has an address of her own and a guessed one.      *)
EXTENDS PeopleRelease, TLC

CONSTANT Casts
VARIABLE cast   \* the clients that act in a behaviour

SchoolContains == {<<"district", "school">>}
SchoolAreas == {<<"state", "county">>}
SchoolDomains == ("office" :> "school.gov") @@ ("grace" :> "school.gov") @@ ("guess" :> "mail.org")
SchoolSubdomain == {<<"school.gov", "gov">>}

Person(n, name, emails, phones, candidate, source) ==
    [assignment |-> n, person |-> name, organization |-> "school", jurisdiction |-> "land",
     level |-> "local", area |-> "county", source |-> source, ancestors |-> {},
     emails |-> emails, published |-> None, phones |-> phones, candidate |-> candidate,
     candidateWithheld |-> FALSE]

Email(n, address, source) ==
    [id |-> n, rank |-> n, address |-> address, stored |-> source, source |-> source]
SeenAgain(email, source) == [email EXCEPT !.source = source]

SchoolRows ==
    {Person(1, "ada", {Email(1, "office", "page")}, {}, None, "index"),
     Person(2, "grace", {Email(2, "office", "index"), SeenAgain(Email(3, "grace", "index"), "page"),
                        Email(4, "grace", "page")},
            {[number |-> "555", source |-> "page"]}, "guess", "index")}

Opt(scope, key, marked) ==
    [scope |-> scope, key |-> key, marked |-> marked, by |-> "operator"]

SchoolCatalogue ==
    {Opt("organization_subtree", "district", FALSE), Opt("domain", "gov", TRUE),
     Opt("source", "page", FALSE), Opt("geographic_area", "county", FALSE)}
StateCatalogue == {Opt("geographic_area", "state", FALSE)}

Delivery(key, type, value, person, suppress) ==
    [key |-> key, type |-> type, value |-> value, person |-> person, suppress |-> suppress]

SchoolOwners == ("office" :> {"ada", "grace"}) @@ ("grace" :> {"grace"}) @@ ("555" :> {"grace"})

SchoolDeliveries ==
    {Delivery("mail", "email", "grace", None, TRUE), Delivery("call", "phone", "555", None, TRUE)}

OddDeliveries ==
    {Delivery("shared", "email", "office", None, TRUE), Delivery("letter", "postal", "box 1", None, TRUE),
     Delivery("note", "postal", "box 2", "ada", FALSE)}

AllDeliveries == SchoolDeliveries \cup OddDeliveries

AllCasts == {{"i1", "i2"}, {"i1", "o1"}, {"i1", "s1"}, {"o1", "o2", "o3"}, {"o1", "s1"}, {"o1", "b1"}}
LateCast == {{"o1", "s1"}}

CastInit == Init /\ cast \in Casts
CastNext == /\ \E c \in cast : Begin(c) \/ Step(c) \/ Trouble(c)
            /\ UNCHANGED cast
CastSpec == CastInit /\ [][CastNext]_<<vars, cast>> /\ \A c \in Clients : WF_vars(Step(c))
============================================================================
