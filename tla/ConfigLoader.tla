----------------------------- MODULE ConfigLoader -----------------------------
(***************************************************************************)
(* load_config (_legacy_mesh.py): how a process gets its mesh from the     *)
(* configuration file and the names of the machine, and what it refuses.   *)
(*                                                                         *)
(* A value of the file is a spelling that passes _token, or Bad for any    *)
(* that does not, a missing one included.  A file that parses is TOML with *)
(* known keys and an integer as its schema; every other question that is   *)
(* not about identities (wrong types, displays, the SSH policy, unknown    *)
(* keys of a host) is one flag, plain, per table.  The file is edited and  *)
(* the machine renamed at any time, between the calls of one load too; a   *)
(* consumer keeps a mesh that an earlier process has listed.               *)
(***************************************************************************)
EXTENDS MeshConfig

CONSTANTS Identifiers,   \* the spellings that match HOST_ID_RE
          Localhost,     \* the id of a machine whose name is not an identifier
          Bad,           \* a value that _token refuses
          Omitted,       \* a local_id that is not given
          Files,         \* what the configuration file may be
          Names,         \* what gethostname and getfqdn may answer
          HostLimit      \* MAX_HOSTS, 128 in the program

Tokens == Spellings \cup {Bad}
IsEntry(h) ==
    /\ h = [plain |-> h.plain, id |-> h.id, aliases |-> h.aliases, routes |-> h.routes]
    /\ h.plain \in BOOLEAN /\ h.id \in Tokens
    /\ h.aliases \in Seq(Tokens) /\ h.routes \in Seq(Tokens)
IsFile(f) ==
    /\ f = [exists |-> f.exists, parses |-> f.parses, plain |-> f.plain, schema |-> f.schema,
            localId |-> f.localId, localAliases |-> f.localAliases, hosts |-> f.hosts]
    /\ {f.exists, f.parses, f.plain} \subseteq BOOLEAN /\ f.schema \in Nat
    /\ f.localId \in Tokens \cup {Omitted} /\ f.localAliases \in Seq(Tokens)
    /\ DOMAIN f.hosts = 1 .. Len(f.hosts) /\ Len(f.hosts) \in Nat
    /\ \A i \in DOMAIN f.hosts : IsEntry(f.hosts[i])

ASSUME LoaderAssumption ==
    /\ Identifiers \subseteq Spellings /\ Localhost \in Keys
    /\ Bad \notin Spellings /\ Omitted \notin Tokens
    /\ Files # {} /\ \A f \in Files : IsFile(f)
    /\ Names # {} /\ Names \subseteq [full : Tokens, short : Tokens]
    /\ HostLimit \in Nat \ {0}

VARIABLES file,      \* the configuration file
          names,     \* the names of the machine
          place,     \* where the loader is
          hostname,  \* the names it was given
          payload,   \* the file as it read it
          hosts,     \* the hosts it has made of it
          checked,   \* how many of them were compared
          values,    \* to whom each identity seen so far belongs
          listed     \* the mesh that a consumer keeps

worldVars == <<file, names, listed>>
loaderVars == <<place, hostname, payload, hosts, checked, values>>
configVars == <<worldVars, loaderVars>>

Places == {"idle", "look", "open", "head", "hosts", "check", "accepted",
           "invalid_config", "unsupported_schema"}
Nobody == [v \in {} |-> Localhost]

\* What the variables of a process hold while there is none.
AnyFile == CHOOSE f \in Files : TRUE
AnyName == CHOOSE given \in Names : TRUE

-------------------------------------------------------------------------------
\* _string_list: safe tokens, no two of which are equal when folded.
IsStringList(list) ==
    /\ \A i \in DOMAIN list : list[i] \in Spellings
    /\ \A i, j \in DOMAIN list : i # j => Fold[list[i]] # Fold[list[j]]
Listed(list) == {list[i] : i \in DOMAIN list}

\* _dedupe_aliases: the first spelling of each value.
DedupeAliases(list) ==
    {list[i] : i \in {j \in DOMAIN list : \A k \in 1 .. j - 1 : Fold[list[k]] # Fold[list[j]]}}

\* _safe_inferred_aliases: the names of the machine that are safe to show.
IfSafe(name) == IF name \in Spellings THEN <<name>> ELSE <<>>
SafeInferredAliases(given) == IfSafe(given.full) \o IfSafe(given.short)

\* The id of the machine where the file gives none.
InferredId(given) ==
    IF given.short \in Identifiers THEN Fold[given.short] ELSE Localhost

\* The local descriptor: its names are added to the aliases of the file.
LocalHost(id, aliases, given) ==
    LET all == DedupeAliases(aliases \o SafeInferredAliases(given))
    IN  [id |-> id, local |-> TRUE, aliases |-> IF all = {} THEN {id} ELSE all, routes |-> <<>>]

\* (mutant) The id keeps the spelling of the file.
RemoteHost_Spelled(entry) ==
    [id |-> entry.id, local |-> FALSE, aliases |-> Listed(entry.aliases), routes |-> entry.routes]

RemoteHost(entry) ==
    [id |-> Fold[entry.id], local |-> FALSE, aliases |-> Listed(entry.aliases),
     routes |-> entry.routes]

-------------------------------------------------------------------------------
Init ==
    /\ file \in Files /\ names \in Names /\ listed = NoMesh
    /\ place = "idle" /\ hostname = AnyName /\ payload = AnyFile
    /\ hosts = <<>> /\ checked = 0 /\ values = Nobody

\* A process asks for the names of the machine, then looks for the file.
Start ==
    /\ place = "idle"
    /\ place' = "look" /\ hostname' = names
    /\ UNCHANGED <<worldVars, payload, hosts, checked, values>>

\* The only fallback: there is no file.
NoFile ==
    /\ place = "look" /\ ~file.exists
    /\ place' = "accepted"
    /\ hosts' = <<LocalHost(InferredId(hostname), <<>>, hostname)>>
    /\ UNCHANGED <<worldVars, hostname, payload, checked, values>>

FileExists ==
    /\ place = "look" /\ file.exists
    /\ place' = "open"
    /\ UNCHANGED <<worldVars, hostname, payload, hosts, checked, values>>

\* It is read at once, if it is still there; _validate_top_level up to the schema.
ReadFile ==
    /\ place = "open"
    /\ place' = IF file.exists /\ file.parses THEN "head" ELSE "invalid_config"
    /\ payload' = file
    /\ UNCHANGED <<worldVars, hostname, hosts, checked, values>>

\* (mutant) A local id that is refused is inferred, as one that is omitted.
HeadIsValid_Lenient ==
    /\ payload.plain
    /\ IsStringList(payload.localAliases)
    /\ Len(payload.hosts) + 1 <= HostLimit

\* Everything before the list of hosts.
HeadIsValid ==
    /\ payload.plain
    /\ payload.localId \in Identifiers \cup {Omitted}
    /\ IsStringList(payload.localAliases)
    /\ Len(payload.hosts) + 1 <= HostLimit

ReadHead ==
    /\ place = "head"
    /\ place' = IF payload.schema # 1 THEN "unsupported_schema"
                ELSE IF HeadIsValid THEN "hosts" ELSE "invalid_config"
    /\ hosts' =
           IF place' = "hosts"
           THEN LET id == IF payload.localId \in Identifiers THEN Fold[payload.localId]
                          ELSE InferredId(hostname)
                IN  <<LocalHost(id, payload.localAliases, hostname)>>
           ELSE hosts
    /\ UNCHANGED <<worldVars, hostname, payload, checked, values>>

EntryIsValid(entry) ==
    /\ entry.plain /\ entry.id \in Identifiers
    /\ IsStringList(entry.aliases)
    /\ IsStringList(entry.routes) /\ entry.routes # <<>>

\* One pass of the loop over raw_hosts.
ReadHost ==
    /\ place = "hosts" /\ Len(hosts) <= Len(payload.hosts)
    /\ LET entry == payload.hosts[Len(hosts)]    \* the first of hosts is the local one
       IN  IF EntryIsValid(entry)
           THEN hosts' = Append(hosts, RemoteHost(entry)) /\ place' = place
           ELSE hosts' = hosts /\ place' = "invalid_config"
    /\ UNCHANGED <<worldVars, hostname, payload, checked, values>>

AllRead ==
    /\ place = "hosts" /\ Len(hosts) > Len(payload.hosts)
    /\ place' = "check"
    /\ UNCHANGED <<worldVars, hostname, payload, hosts, checked, values>>

\* (mutant) Two tables with one id pass for one host.
Collides_ById(host) ==
    \E v \in Identities(host) \cap DOMAIN values : values[v] # host.id

\* Is the id taken, or does another host own one of the values?
Collides(host) ==
    \/ \E i \in 1 .. checked : hosts[i].id = host.id
    \/ \E v \in Identities(host) \cap DOMAIN values : values[v] # host.id

\* One pass of the loop of _validate_identity_collisions.
CheckHost ==
    /\ place = "check" /\ checked < Len(hosts)
    /\ LET host == hosts[checked + 1]
       IN  IF Collides(host)
           THEN place' = "invalid_config" /\ UNCHANGED <<checked, values>>
           ELSE /\ place' = place /\ checked' = checked + 1
                /\ values' = [v \in DOMAIN values \cup Identities(host) |->
                                  IF v \in Identities(host) THEN host.id ELSE values[v]]
    /\ UNCHANGED <<worldVars, hostname, payload, hosts>>

AllChecked ==
    /\ place = "check" /\ checked = Len(hosts)
    /\ place' = "accepted"
    /\ UNCHANGED <<worldVars, hostname, payload, hosts, checked, values>>

\* The process ends; what it loaded may be listed to a consumer.
End ==
    /\ place \in {"accepted", "invalid_config", "unsupported_schema"}
    /\ place' = "idle"
    /\ listed' \in IF place = "accepted" THEN {listed, hosts} ELSE {listed}
    /\ hostname' = AnyName /\ payload' = AnyFile
    /\ hosts' = <<>> /\ checked' = 0 /\ values' = Nobody
    /\ UNCHANGED <<file, names>>

\* The user edits the file; the machine is renamed, or its resolver answers otherwise.
Edit == file' \in Files \ {file} /\ UNCHANGED <<names, listed, loaderVars>>
Rename == names' \in Names \ {names} /\ UNCHANGED <<file, listed, loaderVars>>

Load ==
    \/ Start \/ NoFile \/ FileExists \/ ReadFile \/ ReadHead \/ ReadHost \/ AllRead
    \/ CheckHost \/ AllChecked

Next == Load \/ End \/ Edit \/ Rename

Spec == Init /\ [][Next]_configVars

-------------------------------------------------------------------------------
\* Every variable keeps its type.
TypeOK ==
    /\ file \in Files /\ names \in Names
    /\ place \in Places
    /\ hostname \in Names /\ payload \in Files
    /\ hosts \in Seq(Hosts)
    /\ checked \in 0 .. Len(hosts)
    /\ DOMAIN values \subseteq Keys /\ values \in [DOMAIN values -> Keys]
    /\ listed = NoMesh \/ ValidMesh(listed)

\* What load_config returns has one answer to every question of identity
\* (docs/reference/host-mesh-v1.md:85-87), whatever the file and the machine's
\* names are: each rule is tested on its own table or against what came before.
AcceptedIsValid == place = "accepted" => ValidMesh(hosts)

\* The mesh that a file stands for, all tables at once.
Declared(f, given) ==
    <<LocalHost(IF f.localId = Omitted THEN InferredId(given) ELSE Fold[f.localId],
                f.localAliases, given)>>
    \o [i \in DOMAIN f.hosts |-> RemoteHost(f.hosts[i])]

\* A file that follows the rules of the contract, for a machine with these names.
WellFormed(f, given) ==
    /\ f.exists /\ f.parses /\ f.schema = 1 /\ f.plain
    /\ f.localId = Omitted \/ f.localId \in Identifiers
    /\ IsStringList(f.localAliases)
    /\ Len(f.hosts) < HostLimit
    /\ \A i \in DOMAIN f.hosts : EntryIsValid(f.hosts[i])
    /\ CollisionFree(Declared(f, given))

\* A file that is there is taken as a whole or refused, never in part and never for
\* an absent one (host-mesh-v1.md:89-93): it is accepted if it is well-formed, and
\* then every host is in the mesh as it was declared and in that order.
ReadsAsDeclared ==
    [][/\ place # "accepted" /\ place' = "accepted" =>
              \/ WellFormed(payload, hostname) /\ hosts = Declared(payload, hostname)
              \/ ~file.exists /\ Len(hosts') = 1
       /\ place' \in {"invalid_config", "unsupported_schema"} /\ place' # place =>
              ~WellFormed(payload', hostname)]_configVars

\* (mutant) Aliases are not part of the revision.
Revision_WithoutAliases(mesh) ==
    [i \in DOMAIN mesh |-> [id |-> mesh[i].id, routes |-> mesh[i].routes]]

\* _revision_payload, as far as it tells identities and routes apart: aliases count
\* folded, routes as they are spelled.
Revision(mesh) ==
    [i \in DOMAIN mesh |->
        [id |-> mesh[i].id, aliases |-> {Fold[a] : a \in mesh[i].aliases},
         routes |-> mesh[i].routes]]

\* A report under the revision of an earlier list means the same host and the same
\* routes to the process that takes it, though that loaded the file anew.
RevisionFixesMeaning ==
    place = "accepted" /\ listed # NoMesh /\ Revision(listed) = Revision(hosts) =>
        \A s \in Spellings :
            LET i == ResolveToken(listed, s)
            IN  /\ ResolveToken(hosts, s) = i
                /\ i # 0 => hosts[i].id = listed[i].id /\ hosts[i].routes = listed[i].routes

===============================================================================
