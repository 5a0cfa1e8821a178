----------------------------- MODULE MCStateStore -----------------------------
(***************************************************************************)
(* Instances of StateStore for TLC: three remote spellings of which two    *)
(* belong to one managed host, so that rows merge; the name of the local   *)
(* host; a limit of two rows, so that the third is cut.                    *)
(***************************************************************************)
EXTENDS StateStore, TLC

CONSTANTS p1, p2

MCSpellings == {"me", "Web", "web", "vpn", "db"}
MCFold == [s \in MCSpellings |-> IF s = "Web" THEN "web" ELSE s]
MCNameRank == [k \in {"me", "web", "vpn", "db"} |->
    CASE k = "db" -> 1 [] k = "me" -> 2 [] k = "vpn" -> 3 [] k = "web" -> 4]

Local == [id |-> "me", local |-> TRUE, aliases |-> {"me"}, routes |-> <<>>]
WebHost == [id |-> "web", local |-> FALSE, aliases |-> {"Web"}, routes |-> <<"vpn", "web">>]
DbHost == [id |-> "db", local |-> FALSE, aliases |-> {}, routes |-> <<"vpn">>]

\* The configuration of today, and the one before the route moved from db.
Today == <<Local, WebHost>>
Yesterday == <<Local, DbHost>>
MCMeshes == {NoMesh, Today}
MCAllMeshes == {NoMesh, Today, Yesterday}

Row(last, count) == [last |-> last, count |-> count]
ForeignRows ==
    ("Web" :> Row(2, -1)) @@ ("web" :> Row(-1, 2)) @@ ("vpn" :> Row(1, 1)) @@ ("me" :> Row(1, 2))
Foreign == [format |-> "foreign", rows |-> ForeignRows]
Alien == [format |-> "alien", rows |-> ("db" :> Row(2, 3))]
Dms == [format |-> "foreign", rows |-> ("db" :> Row(1, 0)) @@ ("Web" :> Row(2, 1))]
Full == Canonical(("db" :> Row(2, 1)) @@ ("me" :> Row(2, 2)))

MCInitialDocs == {Absent, Foreign, Alien}
MCFaultyDocs == {Absent, Garbage, Full}
MCLegacyDocs == {Absent, Dms}
MCUsedBefore == {Absent, [format |-> "foreign", rows |-> ("db" :> Row(1, 1))]}

ProcSymmetry == Permutations(Procs)
===============================================================================
