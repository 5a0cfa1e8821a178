----------------------------- MODULE LoaderProofs -----------------------------
(***************************************************************************)
(* Theorems about load_config, for any files, any names of the machine and *)
(* any edits while a process loads.                                        *)
(***************************************************************************)
EXTENDS ConfigLoader, SequenceTheorems, TLAPS

-------------------------------------------------------------------------------
(***************************************************************************)
(* What the loader knows at each place.                                    *)
(***************************************************************************)
\* The file it read has a valid head, and the first n of its tables are hosts.
HeadRead ==
    /\ payload.exists /\ payload.parses /\ payload.schema = 1 /\ HeadIsValid
    /\ Len(hosts) \in 1 .. Len(payload.hosts) + 1
    /\ hosts[1] = LocalHost(IF payload.localId = Omitted THEN InferredId(hostname)
                            ELSE Fold[payload.localId], payload.localAliases, hostname)
    /\ \A i \in 1 .. Len(hosts) - 1 :
          EntryIsValid(payload.hosts[i]) /\ hosts[i + 1] = RemoteHost(payload.hosts[i])

AllHeld == Len(hosts) = Len(payload.hosts) + 1

\* The hosts that were checked share nothing, and values says whose each identity is.
CheckedHold ==
    /\ \A v \in DOMAIN values : \E i \in 1 .. checked : v \in Identities(hosts[i])
    /\ \A i \in 1 .. checked : \A v \in Identities(hosts[i]) :
          v \in DOMAIN values /\ values[v] = hosts[i].id
    /\ \A i, j \in 1 .. checked :
          i # j => /\ hosts[i].id # hosts[j].id
                   /\ Identities(hosts[i]) \cap Identities(hosts[j]) = {}

Loading ==
    /\ place \notin {"accepted", "invalid_config", "unsupported_schema", "check"} =>
          checked = 0 /\ values = Nobody
    /\ place \in {"idle", "look", "open", "head"} => hosts = <<>>
    /\ place = "head" => payload.exists /\ payload.parses
    /\ place \in {"hosts", "check"} => HeadRead
    /\ place = "check" => AllHeld /\ CheckedHold

IInv == TypeOK /\ Loading /\ AcceptedIsValid

-------------------------------------------------------------------------------
\* The local descriptor is a host, whatever the names of the machine are.
LEMMA LocalHostType ==
    ASSUME NEW id \in Keys, NEW aliases \in Seq(Spellings), NEW given \in Names
    PROVE  /\ LocalHost(id, aliases, given) \in Hosts
           /\ LocalHost(id, aliases, given).local = TRUE
           /\ LocalHost(id, aliases, given).routes = <<>>
<1> DEFINE list == aliases \o SafeInferredAliases(given)
           all == DedupeAliases(list)
<1>1. IfSafe(given.full) \in Seq(Spellings) /\ IfSafe(given.short) \in Seq(Spellings)
  BY DEF IfSafe
<1>2. list \in Seq(Spellings)
  BY <1>1 DEF SafeInferredAliases
<1> HIDE DEF list
<1>3. all \subseteq Spellings
  BY <1>2 DEF DedupeAliases
<1>4. id \in Spellings
  BY FoldAssumption DEF Keys
<1>5. LocalHost(id, aliases, given) =
         [id |-> id, local |-> TRUE, aliases |-> IF all = {} THEN {id} ELSE all, routes |-> <<>>]
  BY DEF LocalHost, list
<1> HIDE DEF all
<1> QED
  BY <1>3, <1>4, <1>5 DEF Hosts

\* A table that is valid gives a host with a route.
LEMMA RemoteHostType ==
    ASSUME NEW entry, IsEntry(entry), EntryIsValid(entry)
    PROVE  /\ RemoteHost(entry) \in Hosts /\ RemoteHost(entry).local = FALSE
           /\ RemoteHost(entry).routes # <<>>
<1>1. entry.routes \in Seq(Spellings) /\ entry.routes # <<>>
  BY DEF IsEntry, EntryIsValid, IsStringList
<1>2. Listed(entry.aliases) \subseteq Spellings
  BY DEF IsEntry, EntryIsValid, IsStringList, Listed
<1>3. Fold[entry.id] \in Keys
  BY LoaderAssumption DEF EntryIsValid, Keys
<1> QED
  BY <1>1, <1>2, <1>3 DEF RemoteHost, Hosts

\* The identities of a host are keys.
LEMMA IdentitiesAreKeys ==
    ASSUME NEW h \in Hosts
    PROVE  Identities(h) \subseteq Keys /\ h.id \in Keys
<1>1. h.id \in Keys /\ h.aliases \subseteq Spellings /\ h.routes \in Seq(Spellings)
  BY DEF Hosts
<1>2. \A i \in DOMAIN h.routes : h.routes[i] \in Spellings
  BY <1>1
<1> QED
  BY <1>1, <1>2 DEF Identities, Keys

\* The id of the machine is a key.
LEMMA LocalIdType ==
    ASSUME NEW given \in Names
    PROVE  /\ InferredId(given) \in Keys
           /\ \A id \in Identifiers : Fold[id] \in Keys
  BY LoaderAssumption DEF InferredId, Keys

\* What was read so far is a list of hosts of which only the first is local.
LEMMA ReadType ==
    ASSUME IInv, HeadRead
    PROVE  /\ \A i \in DOMAIN hosts : /\ hosts[i] \in Hosts
                                      /\ hosts[i].local <=> i = 1
                                      /\ hosts[i].routes = <<>> <=> i = 1
<1>1. hosts \in Seq(Hosts) /\ hostname \in Names /\ IsFile(payload)
  BY LoaderAssumption DEF IInv, TypeOK
<1>2. hosts[1].local = TRUE /\ hosts[1].routes = <<>>
  BY DEF HeadRead, LocalHost
<1>3. ASSUME NEW i \in DOMAIN hosts, i # 1
      PROVE  hosts[i].local = FALSE /\ hosts[i].routes # <<>>
  <2>1. i - 1 \in 1 .. Len(hosts) - 1 /\ (i - 1) + 1 = i
    BY <1>1, <1>3
  <2>2. EntryIsValid(payload.hosts[i - 1]) /\ hosts[i] = RemoteHost(payload.hosts[i - 1])
    BY <2>1 DEF HeadRead
  <2> QED
    BY <2>2 DEF RemoteHost, EntryIsValid
<1>4. ASSUME NEW i \in DOMAIN hosts
      PROVE  /\ hosts[i] \in Hosts
             /\ hosts[i].local <=> i = 1
             /\ hosts[i].routes = <<>> <=> i = 1
  <2>1. hosts[i] \in Hosts
    BY <1>1
  <2>2. CASE i = 1
    <3>1. hosts[i].local = TRUE /\ hosts[i].routes = <<>>
      BY <1>2, <2>2
    <3> QED
      BY <2>1, <2>2, <3>1
  <2>3. CASE i # 1
    <3>1. hosts[i].local = FALSE /\ hosts[i].routes # <<>>
      BY <1>3, <2>3
    <3> QED
      BY <2>1, <2>3, <3>1
  <2> QED
    BY <2>2, <2>3
<1> QED
  BY <1>4

LEMMA InitIInv == Init => IInv
<1> SUFFICES ASSUME Init PROVE IInv
  OBVIOUS
<1>1. AnyName \in Names /\ AnyFile \in Files
  BY LoaderAssumption DEF AnyName, AnyFile
<1> QED
  BY <1>1 DEF Init, IInv, TypeOK, Loading, AcceptedIsValid, Places, Nobody, NoMesh

\* The first steps, up to the file.
LEMMA BeginKeeps == ASSUME IInv, Start \/ FileExists \/ ReadFile PROVE IInv'
<1>1. /\ place' \in {"look", "open", "head", "invalid_config"}
      /\ place' = "head" => payload'.exists /\ payload'.parses
      /\ hostname' \in Names /\ payload' \in Files
      /\ UNCHANGED <<file, names, listed, hosts, checked, values>>
      /\ hosts = <<>> /\ checked = 0 /\ values = Nobody
  BY DEF Start, FileExists, ReadFile, worldVars, IInv, TypeOK, Loading
<1>2. TypeOK'
  BY <1>1 DEF IInv, TypeOK, Places
<1> QED
  BY <1>1, <1>2 DEF IInv, Loading, AcceptedIsValid

\* Without a file the mesh is the local host.
LEMMA NoFileKeeps == ASSUME IInv, NoFile PROVE IInv'
<1> DEFINE me == LocalHost(InferredId(hostname), <<>>, hostname)
<1>1. /\ place' = "accepted" /\ hosts' = <<me>> /\ checked = 0 /\ values = Nobody
      /\ UNCHANGED <<file, names, listed, hostname, payload, checked, values>>
  BY DEF NoFile, worldVars, IInv, Loading
<1>2. me \in Hosts /\ me.local = TRUE /\ me.routes = <<>>
  <2>1. hostname \in Names /\ <<>> \in Seq(Spellings)
    BY DEF IInv, TypeOK
  <2> QED
    BY <2>1, LocalHostType, LocalIdType
<1> HIDE DEF me
<1>3. ValidMesh(hosts')
  BY <1>1, <1>2 DEF ValidMesh, CollisionFree
<1>4. TypeOK'
  BY <1>1, <1>3 DEF IInv, TypeOK, Places, ValidMesh, Nobody
<1> QED
  BY <1>1, <1>3, <1>4 DEF IInv, Loading, AcceptedIsValid

LEMMA ReadHeadKeeps == ASSUME IInv, ReadHead PROVE IInv'
<1>1. /\ place = "head" /\ place' \in {"hosts", "invalid_config", "unsupported_schema"}
      /\ UNCHANGED <<file, names, listed, hostname, payload, checked, values>>
      /\ hosts = <<>> /\ checked = 0 /\ values = Nobody
      /\ payload.exists /\ payload.parses /\ IsFile(payload) /\ hostname \in Names
  BY LoaderAssumption DEF ReadHead, worldVars, IInv, Loading, TypeOK
<1>2. CASE place' # "hosts"
  <2>1. hosts' = hosts
    BY <1>2 DEF ReadHead
  <2>2. TypeOK'
    BY <1>1, <2>1 DEF IInv, TypeOK, Places
  <2> QED
    BY <1>1, <1>2, <2>1, <2>2 DEF IInv, Loading, AcceptedIsValid
<1>3. CASE place' = "hosts"
  <2> DEFINE id == IF payload.localId = Omitted THEN InferredId(hostname) ELSE Fold[payload.localId]
             me == LocalHost(id, payload.localAliases, hostname)
  <2>1. payload.schema = 1 /\ HeadIsValid
    BY <1>3 DEF ReadHead
  <2>2. payload.localAliases \in Seq(Spellings)
    BY <1>1, <2>1 DEF HeadIsValid, IsFile, IsStringList
  <2>3. hosts' = <<me>> /\ id \in Keys
    <3>1. payload.localId \in Identifiers <=> payload.localId # Omitted
      BY <2>1, LoaderAssumption DEF HeadIsValid, Tokens
    <3> QED
      BY <1>1, <1>3, <2>1, <3>1, LocalIdType DEF ReadHead, HeadIsValid
  <2>4. me \in Hosts
    BY <1>1, <2>2, <2>3, LocalHostType
  <2>5. HeadIsValid' /\ Len(payload.hosts) \in Nat
    BY <1>1, <2>1 DEF HeadIsValid, IsFile
  <2>6. Len(hosts') = 1 /\ hosts'[1] = me /\ hosts' \in Seq(Hosts)
    BY <2>3, <2>4
  <2> HIDE DEF me
  <2>7. HeadRead'
    BY <1>1, <2>1, <2>5, <2>6 DEF HeadRead, me
  <2>8. TypeOK'
    BY <1>1, <1>3, <2>6 DEF IInv, TypeOK, Places
  <2> QED
    BY <1>1, <1>3, <2>7, <2>8 DEF IInv, Loading, AcceptedIsValid
<1> QED
  BY <1>2, <1>3

LEMMA ReadHostKeeps == ASSUME IInv, ReadHost \/ AllRead PROVE IInv'
<1>1. /\ place = "hosts" /\ place' \in {"hosts", "check", "invalid_config"}
      /\ UNCHANGED <<file, names, listed, hostname, payload, checked, values>>
      /\ checked = 0 /\ values = Nobody /\ HeadRead
      /\ hosts \in Seq(Hosts) /\ IsFile(payload) /\ Len(payload.hosts) \in Nat
  BY LoaderAssumption DEF ReadHost, AllRead, worldVars, IInv, Loading, TypeOK, IsFile
<1>2. CASE hosts' = hosts
  <2>1. place' = "check" => AllHeld
    BY <1>1 DEF ReadHost, AllRead, AllHeld, HeadRead
  <2>2. CheckedHold'
    BY <1>1 DEF CheckedHold, Nobody
  <2>3. TypeOK'
    BY <1>1, <1>2 DEF IInv, TypeOK, Places
  <2>4. HeadRead' /\ AllHeld' = AllHeld
    BY <1>1, <1>2 DEF HeadRead, HeadIsValid, AllHeld
  <2> QED
    BY <1>1, <1>2, <2>1, <2>2, <2>3, <2>4 DEF IInv, Loading, AcceptedIsValid
<1>3. CASE ReadHost /\ EntryIsValid(payload.hosts[Len(hosts)])
  <2> DEFINE n == Len(hosts)
             new == RemoteHost(payload.hosts[n])
  <2>1. /\ n <= Len(payload.hosts) /\ n \in 1 .. Len(payload.hosts)
        /\ hosts' = Append(hosts, new) /\ place' = "hosts"
    BY <1>1, <1>3 DEF ReadHost, HeadRead
  <2>2. new \in Hosts
    <3>1. IsEntry(payload.hosts[n])
      BY <1>1, <2>1 DEF IsFile
    <3> QED
      BY <1>3, <3>1, RemoteHostType
  <2> HIDE DEF new
  <2>3. /\ hosts' \in Seq(Hosts) /\ Len(hosts') = n + 1 /\ hosts'[n + 1] = new
        /\ \A i \in 1 .. n : hosts'[i] = hosts[i]
    BY <1>1, <2>1, <2>2
  <2>4. HeadRead'
    <3>1. hosts'[1] = hosts[1] /\ Len(hosts') \in 1 .. Len(payload.hosts) + 1
      BY <1>1, <2>1, <2>3
    <3>2. ASSUME NEW i \in 1 .. Len(hosts') - 1
          PROVE  EntryIsValid(payload.hosts[i]) /\ hosts'[i + 1] = RemoteHost(payload.hosts[i])
      <4>1. CASE i = n
        BY <1>3, <2>3, <4>1 DEF new
      <4>2. CASE i # n
        <5>1. i \in 1 .. n - 1 /\ i + 1 \in 1 .. n
          BY <2>1, <2>3, <4>2
        <5> QED
          BY <1>1, <2>3, <5>1 DEF HeadRead
      <4> QED
        BY <4>1, <4>2
    <3> QED
      BY <1>1, <3>1, <3>2 DEF HeadRead, HeadIsValid
  <2>5. TypeOK'
    BY <1>1, <2>1, <2>3 DEF IInv, TypeOK, Places
  <2> QED
    BY <1>1, <2>1, <2>4, <2>5 DEF IInv, Loading, AcceptedIsValid
<1> QED
  BY <1>2, <1>3 DEF ReadHost, AllRead

\* A host that does not collide shares nothing with the hosts that were checked.
LEMMA CheckKeeps == ASSUME IInv, CheckHost PROVE IInv'
<1> DEFINE host == hosts[checked + 1]
<1>1. /\ place = "check" /\ HeadRead /\ AllHeld /\ CheckedHold
      /\ UNCHANGED <<file, names, listed, hostname, payload, hosts>>
      /\ hosts \in Seq(Hosts) /\ checked \in Nat /\ checked + 1 \in 1 .. Len(hosts)
      /\ host \in Hosts
  BY DEF CheckHost, worldVars, IInv, Loading, TypeOK
<1>2. HeadRead' /\ AllHeld'
  BY <1>1 DEF HeadRead, HeadIsValid, AllHeld
<1>3. CASE Collides(host)
  <2>1. place' = "invalid_config" /\ UNCHANGED <<checked, values>>
    BY <1>3 DEF CheckHost
  <2>2. TypeOK'
    BY <1>1, <2>1 DEF IInv, TypeOK, Places
  <2> QED
    BY <1>1, <2>1, <2>2 DEF IInv, Loading, AcceptedIsValid
<1>4. CASE ~Collides(host)
  <2>1. /\ place' = "check" /\ checked' = checked + 1
        /\ values' = [v \in DOMAIN values \cup Identities(host) |->
                          IF v \in Identities(host) THEN host.id ELSE values[v]]
    BY <1>1, <1>4 DEF CheckHost
  <2>2. /\ \A i \in 1 .. checked : hosts[i].id # host.id
        /\ \A v \in Identities(host) \cap DOMAIN values : values[v] = host.id
    BY <1>4 DEF Collides
  <2>3. \A i \in 1 .. checked : Identities(hosts[i]) \cap Identities(host) = {}
    BY <1>1, <2>2 DEF CheckedHold
  <2>4. \A i \in 1 .. checked + 1 : i \in 1 .. checked \/ i = checked + 1
    BY <1>1
  <2>5. CheckedHold'
    <3>1. ASSUME NEW v \in DOMAIN values'
          PROVE  \E i \in 1 .. checked' : v \in Identities(hosts[i])
      <4>1. CASE v \in Identities(host)
        BY <1>1, <2>1, <4>1
      <4>2. CASE v \in DOMAIN values
        BY <1>1, <2>1, <4>2 DEF CheckedHold
      <4> QED
        BY <2>1, <4>1, <4>2
    <3>2. ASSUME NEW i \in 1 .. checked', NEW v \in Identities(hosts[i])
          PROVE  v \in DOMAIN values' /\ values'[v] = hosts[i].id
      <4>1. CASE i = checked + 1
        BY <2>1, <4>1
      <4>2. CASE i \in 1 .. checked
        <5>1. v \in DOMAIN values /\ values[v] = hosts[i].id /\ v \notin Identities(host)
          BY <1>1, <2>3, <4>2 DEF CheckedHold
        <5> QED
          BY <2>1, <5>1
      <4> QED
        BY <2>1, <2>4, <4>1, <4>2
    <3>3. ASSUME NEW i \in 1 .. checked', NEW j \in 1 .. checked', i # j
          PROVE  hosts[i].id # hosts[j].id /\ Identities(hosts[i]) \cap Identities(hosts[j]) = {}
      <4>1. CASE i \in 1 .. checked /\ j \in 1 .. checked
        BY <1>1, <3>3, <4>1 DEF CheckedHold
      <4>2. CASE i = checked + 1 /\ j \in 1 .. checked
        BY <2>2, <2>3, <4>2
      <4>3. CASE i \in 1 .. checked /\ j = checked + 1
        BY <2>2, <2>3, <4>3
      <4> QED
        BY <2>1, <2>4, <3>3, <4>1, <4>2, <4>3
    <3> QED
      BY <1>1, <3>1, <3>2, <3>3 DEF CheckedHold
  <2>6. TypeOK'
    <3>1. Identities(host) \subseteq Keys /\ host.id \in Keys
      BY <1>1, IdentitiesAreKeys
    <3>2. DOMAIN values' \subseteq Keys /\ values' \in [DOMAIN values' -> Keys]
      BY <2>1, <3>1 DEF IInv, TypeOK
    <3>3. checked' \in 0 .. Len(hosts)
      BY <1>1, <2>1
    <3> QED
      BY <1>1, <2>1, <3>2, <3>3 DEF IInv, TypeOK, Places
  <2> QED
    BY <1>1, <1>2, <2>1, <2>5, <2>6 DEF IInv, Loading, AcceptedIsValid
<1> QED
  BY <1>3, <1>4

\* When all hosts were checked the mesh is valid.
LEMMA AcceptKeeps == ASSUME IInv, AllChecked PROVE IInv'
<1>1. /\ place = "check" /\ place' = "accepted" /\ checked = Len(hosts)
      /\ UNCHANGED <<file, names, listed, hostname, payload, hosts, checked, values>>
      /\ HeadRead /\ AllHeld /\ CheckedHold /\ hosts \in Seq(Hosts)
  BY DEF AllChecked, worldVars, IInv, Loading, TypeOK
<1>2. CollisionFree(hosts)
  BY <1>1 DEF CollisionFree, CheckedHold
<1>3. ValidMesh(hosts)
  BY <1>1, <1>2, ReadType DEF ValidMesh, HeadRead
<1>4. TypeOK' /\ ValidMesh(hosts')
  BY <1>1, <1>3 DEF IInv, TypeOK, Places
<1> QED
  BY <1>1, <1>4 DEF IInv, Loading, AcceptedIsValid

LEMMA EndKeeps == ASSUME IInv, End PROVE IInv'
<1>1. AnyName \in Names /\ AnyFile \in Files
  BY LoaderAssumption DEF AnyName, AnyFile
<1>2. /\ place' = "idle" /\ hosts' = <<>> /\ checked' = 0 /\ values' = Nobody
      /\ hostname' = AnyName /\ payload' = AnyFile /\ UNCHANGED <<file, names>>
      /\ listed' = NoMesh \/ ValidMesh(listed')
  BY DEF End, IInv, TypeOK, AcceptedIsValid
<1> QED
  BY <1>1, <1>2 DEF IInv, TypeOK, Loading, AcceptedIsValid, Places, Nobody

LEMMA WorldKeeps == ASSUME IInv, Edit \/ Rename \/ UNCHANGED configVars PROVE IInv'
<1>1. /\ UNCHANGED <<listed, place, hostname, payload, hosts, checked, values>>
      /\ file' \in Files /\ names' \in Names
  BY DEF Edit, Rename, configVars, worldVars, loaderVars, IInv, TypeOK
<1>2. TypeOK'
  BY <1>1 DEF IInv, TypeOK
<1>3. HeadRead' = HeadRead /\ AllHeld' = AllHeld /\ CheckedHold' = CheckedHold
  BY <1>1 DEF HeadRead, HeadIsValid, AllHeld, CheckedHold
<1> QED
  BY <1>1, <1>2, <1>3 DEF IInv, Loading, AcceptedIsValid

\* The loader knows, at each place, what it has established about the file so far.
THEOREM Invariance == Spec => []IInv
<1>1. IInv /\ [Next]_configVars => IInv'
  BY BeginKeeps, NoFileKeeps, ReadHeadKeeps, ReadHostKeeps, CheckKeeps, AcceptKeeps, EndKeeps,
     WorldKeeps DEF Next, Load
<1> QED
  BY InitIInv, <1>1, PTL DEF Spec

\* Every file and every machine leave the loader with well-formed data.
THEOREM TypeCorrect == Spec => []TypeOK
<1>1. IInv => TypeOK
  BY DEF IInv
<1> QED
  BY Invariance, <1>1, PTL

\* A configuration that load_config returns is a valid mesh: what the proofs about
\* the history, the picker and the workers assume of one.
THEOREM LoadedMeshIsValid == Spec => []AcceptedIsValid
<1>1. IInv => AcceptedIsValid
  BY DEF IInv
<1> QED
  BY Invariance, <1>1, PTL

-------------------------------------------------------------------------------
\* All tables were read: the hosts are the ones that the file declares.
LEMMA HoldsDeclared ==
    ASSUME IInv, HeadRead, AllHeld
    PROVE  hosts = Declared(payload, hostname)
<1> DEFINE me == LocalHost(IF payload.localId = Omitted THEN InferredId(hostname)
                           ELSE Fold[payload.localId], payload.localAliases, hostname)
           rest == [i \in DOMAIN payload.hosts |-> RemoteHost(payload.hosts[i])]
           n == Len(payload.hosts)
<1>1. hosts \in Seq(Hosts) /\ DOMAIN payload.hosts = 1 .. n /\ n \in Nat
  BY LoaderAssumption DEF IInv, TypeOK, IsFile
<1>2. Len(hosts) = n + 1 /\ hosts[1] = me
  BY DEF HeadRead, AllHeld
<1>3. \A i \in 1 .. n : hosts[i + 1] = RemoteHost(payload.hosts[i])
  BY <1>1, <1>2 DEF HeadRead
<1>4. Declared(payload, hostname) = <<me>> \o rest
  BY DEF Declared
<1> HIDE DEF me
<1>5. hosts[1] \in Hosts /\ \A i \in 1 .. n : RemoteHost(payload.hosts[i]) \in Hosts
  <2>1. \A i \in 1 .. n + 1 : hosts[i] \in Hosts
    BY <1>1, <1>2
  <2>2. \A i \in 1 .. n : i + 1 \in 1 .. n + 1
    BY <1>1
  <2> QED
    BY <1>1, <1>3, <2>1, <2>2
<1>6. rest \in Seq(Hosts) /\ Len(rest) = n /\ \A i \in 1 .. n : rest[i] = hosts[i + 1]
  BY <1>1, <1>3, <1>5
<1> HIDE DEF rest
<1>7. <<me>> \in Seq(Hosts) /\ Len(<<me>>) = 1
  BY <1>2, <1>5
<1>8. <<me>> \o rest \in Seq(Hosts) /\ Len(<<me>> \o rest) = n + 1
  BY <1>1, <1>6, <1>7
<1>9. \A i \in 1 .. n + 1 : (<<me>> \o rest)[i] = hosts[i]
  <2> TAKE i \in 1 .. n + 1
  <2>1. CASE i = 1
    BY <1>2, <1>6, <1>7, <2>1
  <2>2. CASE i # 1
    <3>1. i - 1 \in 1 .. n /\ (i - 1) + 1 = i
      BY <1>1, <2>2
    <3>2. (<<me>> \o rest)[i] = rest[i - 1]
      BY <1>1, <1>6, <1>7, <3>1
    <3> QED
      BY <1>6, <3>1, <3>2
  <2> QED
    BY <2>1, <2>2
<1>10. hosts = <<me>> \o rest
  BY <1>1, <1>2, <1>8, <1>9, SeqEqual
<1> QED
  BY <1>4, <1>10

\* A host that collides with an earlier one belongs to no well-formed file.
LEMMA CollisionIsReal ==
    ASSUME IInv, place = "check", checked < Len(hosts), Collides(hosts[checked + 1])
    PROVE  ~CollisionFree(hosts)
<1>1. /\ CheckedHold /\ hosts \in Seq(Hosts) /\ checked \in 0 .. Len(hosts)
      /\ checked + 1 \in DOMAIN hosts /\ 1 .. checked \subseteq DOMAIN hosts
      /\ \A i \in 1 .. checked : i # checked + 1
  BY DEF IInv, Loading, TypeOK
<1>2. CASE \E i \in 1 .. checked : hosts[i].id = hosts[checked + 1].id
  BY <1>1, <1>2 DEF CollisionFree
<1>3. CASE \E v \in Identities(hosts[checked + 1]) \cap DOMAIN values :
              values[v] # hosts[checked + 1].id
  <2>1. PICK v \in Identities(hosts[checked + 1]) \cap DOMAIN values : TRUE
    BY <1>3
  <2>2. PICK i \in 1 .. checked : v \in Identities(hosts[i])
    BY <1>1, <2>1 DEF CheckedHold
  <2>3. Identities(hosts[i]) \cap Identities(hosts[checked + 1]) # {}
    BY <2>1, <2>2
  <2> QED
    BY <1>1, <2>2, <2>3 DEF CollisionFree
<1> QED
  BY <1>2, <1>3 DEF Collides

LEMMA StepReads ==
    ASSUME IInv, Next
    PROVE  /\ place # "accepted" /\ place' = "accepted" =>
                  \/ WellFormed(payload, hostname) /\ hosts = Declared(payload, hostname)
                  \/ ~file.exists /\ Len(hosts') = 1
           /\ place' \in {"invalid_config", "unsupported_schema"} /\ place' # place =>
                  ~WellFormed(payload', hostname)
<1>1. CASE NoFile
  BY <1>1 DEF NoFile
<1>2. CASE ReadFile
  BY <1>2 DEF ReadFile, WellFormed
<1>3. CASE ReadHead
  <2>1. Len(payload.hosts) \in Nat /\ HostLimit \in Nat
    BY LoaderAssumption DEF IInv, TypeOK, IsFile
  <2> QED
    BY <1>3, <2>1 DEF ReadHead, WellFormed, HeadIsValid, worldVars
<1>4. CASE ReadHost
  <2>1. /\ Len(hosts) \in 1 .. Len(payload.hosts) /\ DOMAIN payload.hosts = 1 .. Len(payload.hosts)
        /\ payload' = payload
    BY <1>4, LoaderAssumption DEF ReadHost, IInv, TypeOK, IsFile, Loading, HeadRead
  <2> QED
    BY <1>4, <2>1 DEF ReadHost, WellFormed
<1>5. CASE CheckHost
  <2>1. place = "check" /\ checked < Len(hosts) /\ payload' = payload /\ HeadRead /\ AllHeld
    BY <1>5 DEF CheckHost, IInv, Loading
  <2>2. Collides(hosts[checked + 1]) => ~WellFormed(payload, hostname)
    BY <2>1, HoldsDeclared, CollisionIsReal DEF WellFormed
  <2> QED
    BY <1>5, <2>1, <2>2 DEF CheckHost
<1>6. CASE AllChecked
  <2>1. /\ place = "check" /\ checked = Len(hosts) /\ place' = "accepted"
        /\ HeadRead /\ AllHeld /\ CheckedHold /\ hosts \in Seq(Hosts)
        /\ IsFile(payload) /\ Len(payload.hosts) \in Nat /\ HostLimit \in Nat
    BY <1>6, LoaderAssumption DEF AllChecked, IInv, Loading, TypeOK, IsFile
  <2>2. hosts = Declared(payload, hostname)
    BY <2>1, HoldsDeclared
  <2>3. CollisionFree(hosts)
    <3>1. DOMAIN hosts = 1 .. checked
      BY <2>1
    <3> QED
      BY <2>1, <3>1 DEF CollisionFree, CheckedHold
  <2>4. \A i \in DOMAIN payload.hosts : EntryIsValid(payload.hosts[i])
    BY <2>1 DEF HeadRead, AllHeld, IsFile
  <2>5. WellFormed(payload, hostname)
    BY <2>1, <2>2, <2>3, <2>4 DEF WellFormed, HeadRead, HeadIsValid
  <2> QED
    BY <2>1, <2>2, <2>5
<1>7. CASE Start \/ FileExists \/ AllRead \/ End
  BY <1>7 DEF Start, FileExists, AllRead, End
<1>8. CASE Edit \/ Rename
  BY <1>8 DEF Edit, Rename, loaderVars
<1> QED
  BY <1>1, <1>2, <1>3, <1>4, <1>5, <1>6, <1>7, <1>8 DEF Next, Load

\* load_config takes a file as a whole or refuses it, whenever the file and the names
\* of the machine change.
THEOREM FileIsReadWhole == Spec => ReadsAsDeclared
<1>1. IInv /\ [Next]_configVars =>
          [/\ place # "accepted" /\ place' = "accepted" =>
                  \/ WellFormed(payload, hostname) /\ hosts = Declared(payload, hostname)
                  \/ ~file.exists /\ Len(hosts') = 1
           /\ place' \in {"invalid_config", "unsupported_schema"} /\ place' # place =>
                  ~WellFormed(payload', hostname)]_configVars
  BY StepReads
<1> QED
  BY Invariance, <1>1, PTL DEF Spec, ReadsAsDeclared

-------------------------------------------------------------------------------
\* Two meshes of one revision resolve every destination alike.
LEMMA RevisionFixesIdentities ==
    ASSUME NEW a, a \in Seq(Hosts), NEW b, b \in Seq(Hosts), Revision(a) = Revision(b)
    PROVE  /\ DOMAIN a = DOMAIN b
           /\ \A i \in DOMAIN a : /\ a[i].id = b[i].id /\ a[i].routes = b[i].routes
                                  /\ Identities(a[i]) = Identities(b[i])
           /\ \A s \in Spellings : ResolveToken(a, s) = ResolveToken(b, s)
<1>1. DOMAIN a = DOMAIN b
  BY DEF Revision
<1>2. \A i \in DOMAIN a : /\ a[i].id = b[i].id /\ a[i].routes = b[i].routes
                          /\ {Fold[x] : x \in a[i].aliases} = {Fold[x] : x \in b[i].aliases}
  <2> TAKE i \in DOMAIN a
  <2>1. Revision(a)[i] = Revision(b)[i]
    OBVIOUS
  <2> QED
    BY <1>1, <2>1 DEF Revision
<1>3. \A i \in DOMAIN a : Identities(a[i]) = Identities(b[i])
  BY <1>2 DEF Identities
<1>4. \A s \in Spellings : Matches(a, s) = Matches(b, s)
  BY <1>1, <1>3 DEF Matches
<1> QED
  BY <1>1, <1>2, <1>3, <1>4 DEF ResolveToken

\* A report under the revision of an earlier list means the same host and routes to
\* the process that takes it.
THEOREM RevisionIsMeaning == Spec => []RevisionFixesMeaning
<1>1. ASSUME IInv PROVE RevisionFixesMeaning
  <2> SUFFICES ASSUME place = "accepted", listed # NoMesh, Revision(listed) = Revision(hosts),
                      NEW s \in Spellings
               PROVE  LET i == ResolveToken(listed, s)
                      IN  /\ ResolveToken(hosts, s) = i
                          /\ i # 0 => hosts[i].id = listed[i].id /\ hosts[i].routes = listed[i].routes
    BY DEF RevisionFixesMeaning
  <2>1. listed \in Seq(Hosts) /\ hosts \in Seq(Hosts)
    BY <1>1 DEF IInv, TypeOK, ValidMesh
  <2>2. ResolveToken(listed, s) \in DOMAIN listed \cup {0}
    BY DEF ResolveToken
  <2> QED
    BY <2>1, <2>2, RevisionFixesIdentities
<1> QED
  BY Invariance, <1>1, PTL
===============================================================================
