------------------------------- MODULE MCPicker -------------------------------
(***************************************************************************)
(* Instances of Picker for TLC: a host that the office knows by the route  *)
(* which at home is the name of the host itself, so that what a row means  *)
(* depends on the configuration that is in force.                          *)
(***************************************************************************)
EXTENDS Picker, TLC

MCSpellings == {"me", "web", "Lan", "lan"}
MCFold == [s \in MCSpellings |-> IF s = "Lan" THEN "lan" ELSE s]
MCNameRank == [k \in MCSpellings \ {"Lan"} |->
    CASE k = "lan" -> 1 [] k = "me" -> 2 [] k = "web" -> 3]

Local == [id |-> "me", local |-> TRUE, aliases |-> {}, routes |-> <<>>]
RemoteHost(id, routes) == [id |-> id, local |-> FALSE, aliases |-> {}, routes |-> routes]
Office == <<Local, RemoteHost("web", <<"Lan">>)>>
Home == <<Local, RemoteHost("lan", <<"Lan">>)>>
MCConfigs == {Office, Home, NoMesh}

Used(k, at, n) == k :> [last |-> at, count |-> n]
MCHistories == {Used("me", 1, 1), Used("web", 1, 1) @@ Used("lan", 2, 1)}
===============================================================================
