-------------------------- MODULE MCOperatorConsole --------------------------
(* Two operators, three sources of two organizations: a site that has to be *)
(* reviewed, a site below it that is prohibited together with its parts,    *)
(* and one of somebody else.                                                *)
EXTENDS OperatorConsole

ConsoleUrl(host, path) == [host |-> host, path |-> path, file |-> None]
Isd == ConsoleUrl(<<"www", "isd", "org">>, <<"", "staff">>)
North == ConsoleUrl(<<"people", "north", "isd", "org">>, <<"">>)
City == ConsoleUrl(<<"city", "gov">>, <<"">>)
TheTargets == (Isd :> "o1") @@ (North :> "o1") @@ (City :> "o2")
TheForms == {<<>>, <<Isd.host, City.host>>, <<Isd.host>>, <<North.host>>}
ConsolePolicies == <<NewPolicy(None, <<"north", "isd", "org">>, "prohibited")>>
TheConsoleReviews ==
    {NewPolicy(None, Isd.host, "prohibited")}
TheRecords ==
    ("r1" :> [organization |-> "o2", fits |-> TRUE]) @@ ("r2" :> [organization |-> None, fits |-> FALSE])

ConsoleStart == ConsoleInit /\ policies = ConsolePolicies
ConsoleSymmetry == Permutations(Operators)
ConsoleSpec == ConsoleStart /\ [][ConsoleNext]_<<policies, consoleVars>>
=============================================================================
