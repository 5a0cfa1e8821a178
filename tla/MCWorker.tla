------------------------------- MODULE MCWorker -------------------------------
(***************************************************************************)
(* Instances of Worker for TLC: a host with two routes at the office and   *)
(* one at home, and a second host that is only known at home, by a route   *)
(* that belongs to the first one at the office.                            *)
(***************************************************************************)
EXTENDS Worker, TLC

CONSTANTS w1, w2, w3

MCSpellings == {"me", "web", "Lan", "lan", "vpn", "db"}
MCFold == [s \in MCSpellings |-> IF s = "Lan" THEN "lan" ELSE s]
MCNameRank == [k \in MCSpellings \ {"Lan"} |->
    CASE k = "db" -> 1 [] k = "lan" -> 2 [] k = "me" -> 3 [] k = "vpn" -> 4 [] k = "web" -> 5]

Local == [id |-> "me", local |-> TRUE, aliases |-> {}, routes |-> <<>>]
Remote(id, routes) == [id |-> id, local |-> FALSE, aliases |-> {}, routes |-> routes]
Office == [revision |-> "office", ttl |-> 2,
           hosts |-> <<Local, Remote("web", <<"Lan", "vpn">>)>>]
Home == [revision |-> "home", ttl |-> 2,
         hosts |-> <<Local, Remote("web", <<"vpn">>), Remote("db", <<"Lan">>)>>]
MCConfigs == {Office, Home}
MCOfficeOnly == {Office}
MCMeshes == {NoMesh, Office.hosts, Home.hosts}
MCOfficeMeshes == {NoMesh, Office.hosts}

Managed(name) == [managed |-> TRUE, name |-> name]
AdHoc(name) == [managed |-> FALSE, name |-> name]
MCTasks == {Managed("web"), Managed("db"), AdHoc("lan")}
MCFewTasks == {Managed("web"), AdHoc("lan")}

LanFailed == <<"web", "lan">> :>
    [status \in Statuses |-> IF status = "unreachable" THEN 1 ELSE Never]
NothingKnown == <<>>
MCLanFailed == {LanFailed}
MCNoHealth == {NothingKnown}

Used == Started(("lan" :> [last |-> 1, count |-> 1]) @@ ("web" :> [last |-> 1, count |-> 1]))
OnceUsed == Started("lan" :> [last |-> 1, count |-> 1])
WorkerSymmetry == Permutations(Workers)
===============================================================================
