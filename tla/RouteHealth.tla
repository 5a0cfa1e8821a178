----------------------------- MODULE RouteHealth ------------------------------
(***************************************************************************)
(* Route health as data (_legacy_mesh.py): when each route of a managed    *)
(* host was last seen reachable and last seen unreachable, how one more    *)
(* observation changes that, and the order in which routes are recommended.*)
(***************************************************************************)
EXTENDS MeshConfig

CONSTANT Skew    \* how far ahead of the clock an observation may be dated

ASSUME SkewAssumption == Skew \in Nat

Statuses == {"reachable", "unreachable"}

\* RouteHealth: a time per status; Never stands for None.
Never == -1
Healths == [Statuses -> Nat \cup {Never}]
NoHealth == [status \in Statuses |-> Never]

\* The dictionary of the file: a record per folded host id and folded route.
Routes == Keys \X Keys
IsHealth(rows) == DOMAIN rows \subseteq Routes /\ rows \in [DOMAIN rows -> Healths]

\* health.get(key, RouteHealth())
HealthOf(rows, key) == IF key \in DOMAIN rows THEN rows[key] ELSE NoHealth

\* RouteHealth.newest: the later time, Never where neither is known ...
NewestAt(h) ==
    IF h["reachable"] >= h["unreachable"] THEN h["reachable"] ELSE h["unreachable"]

\* ... and its status; of two equal times the reachable one is the first.
NewestIsFailure(h) == h["unreachable"] > h["reachable"]

\* The update of record.
Observe(rows, key, status, at) ==
    [k \in DOMAIN rows \cup {key} |->
        IF k = key THEN [HealthOf(rows, k) EXCEPT ![status] = at] ELSE rows[k]]

-------------------------------------------------------------------------------
\* A configuration: its revision, its hosts and how long a failure counts.
IsConfig(c) ==
    /\ c = [revision |-> c.revision, hosts |-> c.hosts, ttl |-> c.ttl]
    /\ ValidMesh(c.hosts)
    /\ c.ttl \in Nat \ {0}

\* (mutant) A failure counts until the route is seen reachable.
Demoted_Forever(c, h, now) == NewestIsFailure(h)

\* demoted: the newest observation is a failure, and a recent one.
Demoted(c, h, now) == NewestIsFailure(h) /\ now - NewestAt(h) < c.ttl

\* Does the m-th route of a host come before the n-th one?  Those that are demoted
\* come last, and otherwise the order is that of the file.
Precedes(demoted, m, n) ==
    \/ m \notin demoted /\ n \in demoted
    \/ (m \in demoted <=> n \in demoted) /\ m < n

\* A stable sort: the n-th route has as many before it as precede it.
Place(demoted, len, n) == Cardinality({m \in 1 .. len : Precedes(demoted, m, n)}) + 1

\* routes_for on a mesh with_health, for the i-th host.
RoutesFor(c, i, rows, now) ==
    LET host == c.hosts[i]
        len == Len(host.routes)
        demoted == {n \in 1 .. len :
            Demoted(c, HealthOf(rows, <<host.id, Fold[host.routes[n]]>>), now)}
    IN  [p \in 1 .. len |->
            host.routes[CHOOSE n \in 1 .. len : Place(demoted, len, n) = p]]

-------------------------------------------------------------------------------
\* An observation as report_route is given it.  One is well formed if its status
\* is known and its source and revision are tokens as they must be.
IsReport(r) ==
    r \in [host : Spellings, route : Spellings, status : Statuses, at : Nat,
           revision : {r.revision}, wellFormed : BOOLEAN]

\* (mutant) The record is that of the names as given.
RouteKey_Unfolded(r) == <<r.host, r.route>>

\* The record an observation belongs to.
RouteKey(r) == <<Fold[r.host], Fold[r.route]>>

\* Does the mesh have a remote host with that id?  An alias does not count.
NamesHost(mesh, r) ==
    LET i == HostById(mesh, r.host) IN i # 0 /\ ~mesh[i].local

NamesRoute(mesh, r) ==
    LET host == mesh[HostById(mesh, r.host)]
    IN  \E i \in DOMAIN host.routes : Fold[host.routes[i]] = Fold[r.route]

\* (mutant) The revision is not compared.
Verdict_AnyRevision(c, r, now) ==
    IF ~r.wellFormed THEN "invalid_input"
    ELSE IF ~NamesHost(c.hosts, r) THEN "unknown_host"
    ELSE IF ~NamesRoute(c.hosts, r) THEN "unknown_route"
    ELSE IF r.at > now + Skew THEN "invalid_input"
    ELSE "valid"

\* (mutant) The time of an observation is not compared with the clock.
Verdict_AnyTime(c, r, now) ==
    IF ~r.wellFormed THEN "invalid_input"
    ELSE IF c.revision # r.revision THEN "stale_mesh"
    ELSE IF ~NamesHost(c.hosts, r) THEN "unknown_host"
    ELSE IF ~NamesRoute(c.hosts, r) THEN "unknown_route"
    ELSE "valid"

\* report_route up to the call of record: the first check that fails.
Verdict(c, r, now) ==
    IF ~r.wellFormed THEN "invalid_input"
    ELSE IF r.revision # c.revision THEN "stale_mesh"
    ELSE IF ~NamesHost(c.hosts, r) THEN "unknown_host"
    ELSE IF ~NamesRoute(c.hosts, r) THEN "unknown_route"
    ELSE IF r.at > now + Skew THEN "invalid_input"
    ELSE "valid"

===============================================================================
