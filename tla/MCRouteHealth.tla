---------------------------- MODULE MCRouteHealth -----------------------------
(***************************************************************************)
(* Instances of RouteHealthStore for TLC: one managed host with two routes *)
(* at the office and one at home, and a configuration that is refused.     *)
(***************************************************************************)
EXTENDS RouteHealthStore, TLC

CONSTANTS p1, p2

MCSpellings == {"me", "Web", "web", "vpn", "lan"}
MCFold == [s \in MCSpellings |-> IF s = "Web" THEN "web" ELSE s]

Local == [id |-> "me", local |-> TRUE, aliases |-> {"me"}, routes |-> <<>>]
Web(routes) == [id |-> "web", local |-> FALSE, aliases |-> {}, routes |-> routes]
MCUnparsable == [revision |-> "none", hosts |-> NoMesh, ttl |-> 1]
Office == [revision |-> "office", hosts |-> <<Local, Web(<<"lan", "Web">>)>>, ttl |-> 2]
Home == [revision |-> "home", hosts |-> <<Local, Web(<<"vpn">>)>>, ttl |-> 1]
MCConfigs == {Office, Home}
MCOfficeOrBroken == {Office, MCUnparsable}

Seen(host, route, status, at, revision) ==
    [host |-> host, route |-> route, status |-> status, at |-> at, revision |-> revision,
     wellFormed |-> TRUE]
MCReports ==
    {Seen("web", "lan", "unreachable", 1, "office"),
     Seen("Web", "lan", "reachable", 2, "office"),
     Seen("web", "lan", "unreachable", 2, "office"),
     Seen("web", "vpn", "unreachable", 1, "home")}
MCRefusedReports ==
    {[Seen("web", "lan", "reachable", 2, "office") EXCEPT !.wellFormed = FALSE],
     Seen("web", "lan", "unreachable", 9, "office"),
     Seen("me", "lan", "reachable", 1, "office"),
     Seen("web", "vpn", "reachable", 1, "office")}
MCAllReports == MCReports \cup MCRefusedReports
MCFaultyReports ==
    {Seen("web", "lan", "unreachable", 1, "office"),
     Seen("Web", "lan", "reachable", 2, "office"),
     Seen("web", "lan", "unreachable", 9, "office")}

Times(reachable, unreachable) ==
    [status \in Statuses |-> IF status = "reachable" THEN reachable ELSE unreachable]
Used == Intact((<<"web", "lan">> :> Times(0, 1)) @@ (<<"me", "vpn">> :> Times(Never, 0)))
MCInitialDocs == {Absent, Used}
MCFaultyDocs == {Absent, Used, Invalid}

ProcSymmetry == Permutations(Procs)
===============================================================================
