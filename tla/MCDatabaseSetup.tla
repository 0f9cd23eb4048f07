--------------------------- MODULE MCDatabaseSetup ---------------------------
(* Three migrations in an older and a newer checkout, one edited after it   *)
(* was applied, one that can run twice, one without a way back; and packs   *)
(* that add, share, override and misname codes.                             *)
EXTENDS DatabaseSetup

NoRows == [kind \in Kinds |-> <<>>]
Empty(key) ==
    [key |-> key, sectors |-> None, levels |-> None, overrides |-> {}, axes |-> {}, presets |-> <<>>, rows |-> NoRows,
     rules |-> <<>>, abbreviations |-> <<>>, specialties |-> <<>>, terms |-> {}, hints |-> <<>>]
Type(code, level, sector) == [code |-> code, level |-> level, sector |-> sector, family |-> None]
Family(code) == [code |-> code, level |-> None, sector |-> None, family |-> None]
Role(code, family) == [Family(code) EXCEPT !.family = family]
TitleRule(word, role, seniority) == [word |-> word, role |-> role, seniority |-> seniority]
Short(short, long) == [short |-> short, long |-> long]

TheBase ==
    [levels |-> {"county", "federal"}, sectors |-> {"education", "police"},
     rows |-> [NoRows EXCEPT !["type"] = <<Type("agency", None, "police")>>, !["family"] = <<Family("staff"), Family("law")>>,
                             !["role"] = <<Role("other", "staff"), Role("unknown", "staff"), Role("officer", "law")>>],
     rules |-> <<TitleRule("officer", "officer", "staff"), TitleRule("deputy", "other", "director")>>,
     abbreviations |-> <<Short("dep", "deputy")>>, specialties |-> <<[word |-> "patrol"]>>,
     terms |-> {"staff"}, hints |-> ("/staff" :> 8)]
Education ==
    [Empty("education") EXCEPT !.sectors = {"education"},
        !.rows = [NoRows EXCEPT !["type"] = <<Type("school", None, "education")>>, !["family"] = <<Family("teaching")>>,
                                !["role"] = <<Role("teacher", "teaching")>>],
        !.rules = <<TitleRule("officer", "teacher", "staff")>>, !.abbreviations = <<Short("dep", "department")>>,
        !.terms = {"faculty"}, !.hints = ("/staff" :> 9) @@ ("/faculty" :> 7)]
Federal ==
    [Empty("federal") EXCEPT !.levels = {"federal"}, !.rows = [NoRows EXCEPT !["family"] = <<Family("grade")>>,
                                                                           !["role"] = <<Role("grade", "grade")>>],
        !.rules = <<TitleRule("officer", "grade", "senior")>>, !.specialties = <<[word |-> "dep"]>>, !.hints = ("/staff" :> 5)]
Local == [Empty("local") EXCEPT !.sectors = {"police"}, !.levels = {"county"}, !.rules = <<TitleRule("dep", "officer", "staff")>>]
Replacing(key, family) ==
    [Empty(key) EXCEPT !.sectors = {"police"}, !.overrides = {"officer"},
                       !.rows = [NoRows EXCEPT !["role"] = <<Role("officer", family)>>]]
Late == [Empty("late") EXCEPT !.overrides = {"teacher"}, !.rows = [NoRows EXCEPT !["role"] = <<Role("teacher", "staff")>>]]
Everywhere == [Empty("everywhere") EXCEPT !.rules = <<TitleRule("patrol", "officer", "lead")>>]
(* Refused: a code that is there, twice the same code, an axis, a preset    *)
(* twice, a role, a scope, a family and a level that do not exist.          *)
Faulty ==
    {[Education EXCEPT !.key = "again", !.presets = <<"schools">>],
     [Empty("twice") EXCEPT !.rows["family"] = <<Family("dup"), Family("dup")>>],
     [Empty("rogue") EXCEPT !.axes = {"governmentLevels"}],
     [Empty("presets") EXCEPT !.presets = <<"schools", "schools">>],
     [Empty("typo") EXCEPT !.rules = <<TitleRule("x", "techer", "staff")>>],
     [Empty("nowhere") EXCEPT !.sectors = {"weaving"}],
     [Empty("orphan") EXCEPT !.rows["role"] = <<Role("orphan", "none")>>],
     [Empty("atlantis") EXCEPT !.rows["type"] = <<Type("isle", "atlantis", None)>>]}

ThePacks == {Education, Federal, Local, Replacing("replacing", "staff"), Replacing("moving", "grade"),
             Late, Everywhere} \cup Faulty
TheArrangements == UNION {{a \in [1..n -> ThePacks] : IsInjective(a)} : n \in 0..3}
TheScopes ==
    {[sector |-> s, level |-> "county"] : s \in {"education", "police"}}
    \cup {[sector |-> s, level |-> "federal"] : s \in {None, "police"}}
TheTitles == {<<>>, <<"dep", "officer">>, <<"chief", "dep">>, <<"patrol">>, <<"chief", "patrol", "officer">>}
TheModifiers == <<[word |-> "chief", seniority |-> "executive"]>>

(* Checkouts.                                                               *)
Migration(version, sum, again, down) == [version |-> version, sum |-> sum, again |-> again, down |-> down]
Older == <<Migration(1, "a", FALSE, TRUE), Migration(2, "b", TRUE, TRUE)>>
Newer == <<Migration(1, "a", FALSE, TRUE), Migration(2, "b", TRUE, TRUE), Migration(3, "c", FALSE, FALSE)>>
Edited == <<Migration(1, "a", FALSE, TRUE), Migration(2, "x", TRUE, TRUE)>>
Command(command, checkout, to, arrangement) == [command |-> command, checkout |-> checkout, to |-> to, packs |-> arrangement]
TheCommands ==
    {Command("migrate", c, None, <<>>) : c \in {Older, Newer, Edited}}
    \cup {Command("rollback", Newer, None, <<>>), Command("rollback", Older, 2, <<>>)}
    \cup {Command("setup", Older, None, <<>>), Command("setup", Newer, None, <<Education>>)}

PacksRest == packs = <<>> /\ scopedCache = <<>> /\ readings = <<>>
=============================================================================
