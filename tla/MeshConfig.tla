------------------------------ MODULE MeshConfig ------------------------------
(***************************************************************************)
(* The identity rules of a loaded Host Mesh configuration                  *)
(* (_legacy_mesh.py): which logical host an id, an alias or a route        *)
(* belongs to, and what load_config demands of a configuration so that the *)
(* question has one answer.                                                *)
(*                                                                         *)
(* A token is a member of Spellings, the finite set of SSH destinations    *)
(* that pass validation; str.casefold is the function Fold on them.        *)
(* Display names, the SSH policy and the file the configuration came from  *)
(* are left out: nothing here depends on them.                             *)
(***************************************************************************)
EXTENDS Integers, Sequences, FiniteSets

CONSTANTS Spellings,   \* every spelling of a destination that passes validation
          Fold         \* Fold[s] is s.casefold()

ASSUME FoldAssumption ==
    /\ IsFiniteSet(Spellings)
    /\ Fold \in [Spellings -> Spellings]
    /\ \A s \in Spellings : Fold[Fold[s]] = Fold[s]

\* The folded spellings: host ids and history keys are of this form.
Keys == {Fold[s] : s \in Spellings}

-------------------------------------------------------------------------------
\* class Host: the aliases and routes keep the spelling of the file.
Hosts == [id : Keys, local : BOOLEAN, aliases : SUBSET Spellings, routes : Seq(Spellings)]

\* MeshConfig.hosts: the local host first, the remote ones in the order of the
\* file.  A store or worker that was given no mesh holds the empty sequence.
NoMesh == <<>>

\* The casefolded values that stand for a host: its id, aliases and routes.
Identities(h) ==
    {h.id} \cup {Fold[a] : a \in h.aliases} \cup {Fold[h.routes[i]] : i \in DOMAIN h.routes}

\* _validate_identity_collisions: ids are unique, and no value belongs to two hosts.
CollisionFree(mesh) ==
    \A i, j \in DOMAIN mesh :
        i # j => /\ mesh[i].id # mesh[j].id
                 /\ Identities(mesh[i]) \cap Identities(mesh[j]) = {}

\* A value load_config returns: one local descriptor, first and without routes;
\* every remote host has a route; no identity is shared.
ValidMesh(mesh) ==
    /\ mesh \in Seq(Hosts)
    /\ Len(mesh) >= 1
    /\ \A i \in DOMAIN mesh : /\ mesh[i].local <=> i = 1
                              /\ mesh[i].routes = <<>> <=> i = 1
    /\ CollisionFree(mesh)

-------------------------------------------------------------------------------
\* The hosts that resolve_token finds for a token.
Matches(mesh, token) == {i \in DOMAIN mesh : Fold[token] \in Identities(mesh[i])}

\* resolve_token: the place of the only match, 0 for None.
ResolveToken(mesh, token) ==
    IF \E i \in DOMAIN mesh : Matches(mesh, token) = {i}
    THEN CHOOSE i \in DOMAIN mesh : Matches(mesh, token) = {i}
    ELSE 0

\* host_by_id: the place of the first host with that id, 0 for None.
HostById(mesh, id) ==
    LET named == {i \in DOMAIN mesh : mesh[i].id = Fold[id]}
    IN  IF named = {} THEN 0 ELSE CHOOSE i \in named : \A j \in named : i <= j

===============================================================================
