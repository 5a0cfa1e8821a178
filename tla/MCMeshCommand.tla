---------------------------- MODULE MCMeshCommand -----------------------------
(***************************************************************************)
(* Instances of MeshCommand for TLC: two authorities whose configurations  *)
(* agree or not, and reports of one route.                                 *)
(***************************************************************************)
EXTENDS MeshCommand, TLC

CONSTANTS c1, c2

MCSpellings == {"me", "web", "Lan", "lan", "vpn"}
MCFold == [s \in MCSpellings |-> IF s = "Lan" THEN "lan" ELSE s]

Local == [id |-> "me", local |-> TRUE, aliases |-> {}, routes |-> <<>>]
Web(routes) == [id |-> "web", local |-> FALSE, aliases |-> {}, routes |-> routes]
MCUnparsable == [revision |-> "none", hosts |-> NoMesh, ttl |-> 1]
Office == [revision |-> "office", hosts |-> <<Local, Web(<<"lan", "vpn">>)>>, ttl |-> 2]
Huge == [revision |-> "huge", hosts |-> <<Local, Web(<<"vpn">>)>>, ttl |-> 1]
MCConfigs == {Office, Huge, MCUnparsable}
MCOversized == {Huge}

Reported(status, at, revision) ==
    [kind |-> "report",
     of |-> [host |-> "web", route |-> "Lan", status |-> status, at |-> at,
             revision |-> revision, wellFormed |-> TRUE]]
MCReports == {Reported("reachable", 1, "office"), Reported("unreachable", 2, "office"),
              Reported("unreachable", 2, "huge")}
MCRequests == {List, Malformed} \cup MCReports

CommandSymmetry == Permutations(Commands)
===============================================================================
