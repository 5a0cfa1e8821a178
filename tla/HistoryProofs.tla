---------------------------- MODULE HistoryProofs -----------------------------
(***************************************************************************)
(* Theorems about the identity rules of a mesh and about the merging of    *)
(* histories, for every set of spellings, every valid mesh and every limit.*)
(***************************************************************************)
EXTENDS HistoryData, FiniteSetTheorems, FunctionTheorems, WellFoundedInduction, TLAPS

-------------------------------------------------------------------------------
\* A value that stands for one host of a valid mesh resolves to that host:
\* resolve_token is never ambiguous on a configuration that load_config accepts.
THEOREM EveryIdentityResolves ==
    ASSUME NEW mesh, ValidMesh(mesh), NEW i \in DOMAIN mesh,
           NEW s, Fold[s] \in Identities(mesh[i])
    PROVE  ResolveToken(mesh, s) = i
<1>1. Matches(mesh, s) = {i}
  BY DEF Matches, ValidMesh, CollisionFree
<1> QED
  BY <1>1 DEF ResolveToken

\* No mesh resolves anything.
LEMMA NoMeshResolvesNothing ==
    ASSUME NEW s
    PROVE  ResolveToken(NoMesh, s) = 0
  BY DEF ResolveToken, NoMesh

\* A token resolves to a place of the mesh, or to none.
LEMMA ResolveTokenType ==
    ASSUME NEW mesh, NEW s
    PROVE  /\ ResolveToken(mesh, s) \in DOMAIN mesh \cup {0}
           /\ ResolveToken(mesh, s) # 0
                => Fold[s] \in Identities(mesh[ResolveToken(mesh, s)])
<1>1. CASE \E i \in DOMAIN mesh : Matches(mesh, s) = {i}
  <2> DEFINE r == ResolveToken(mesh, s)
  <2>1. r \in DOMAIN mesh /\ Matches(mesh, s) = {r}
    BY <1>1 DEF ResolveToken
  <2> QED
    BY <2>1 DEF Matches
<1>2. CASE ~ \E i \in DOMAIN mesh : Matches(mesh, s) = {i}
  BY <1>2 DEF ResolveToken
<1> QED
  BY <1>1, <1>2

\* Folding a spelling gives a key.
LEMMA FoldType ==
    ASSUME NEW s \in Spellings
    PROVE  Fold[s] \in Keys /\ Fold[s] \in Spellings /\ Fold[Fold[s]] = Fold[s]
  BY FoldAssumption DEF Keys

\* A key is its own folding.
LEMMA KeyIsFolded ==
    ASSUME NEW k \in Keys
    PROVE  k \in Spellings /\ Fold[k] = k
  BY FoldAssumption DEF Keys

\* What the validity of a mesh says of one host of it.
LEMMA MeshHost ==
    ASSUME NEW mesh, ValidMesh(mesh), NEW i \in DOMAIN mesh
    PROVE  mesh[i].id \in Keys /\ mesh[i].id \in Identities(mesh[i]) /\ i # 0
<1>1. mesh \in Seq(Hosts)
  BY DEF ValidMesh
<1>2. mesh[i] \in Hosts /\ i # 0
  BY <1>1
<1> QED
  BY <1>2 DEF Hosts, Identities

\* A history key is a key.
LEMMA HistoryKeyType ==
    ASSUME NEW mesh, mesh = NoMesh \/ ValidMesh(mesh), NEW s \in Spellings
    PROVE  HistoryKey(mesh, s) \in Keys
<1> DEFINE r == ResolveToken(mesh, Fold[s])
<1>1. Fold[s] \in Keys
  BY FoldType
<1>2. CASE r = 0
  BY <1>1, <1>2 DEF HistoryKey
<1>3. CASE r # 0
  <2>1. r \in DOMAIN mesh
    BY <1>3, ResolveTokenType
  <2>2. ValidMesh(mesh)
    BY <1>3, NoMeshResolvesNothing
  <2> QED
    BY <1>1, <2>1, <2>2, MeshHost DEF HistoryKey
<1> QED
  BY <1>2, <1>3

\* The key of a key is itself: a history that was folded under a mesh keeps its
\* keys when it is read again under that mesh.
THEOREM HistoryKeyIdempotent ==
    ASSUME NEW mesh, mesh = NoMesh \/ ValidMesh(mesh), NEW s \in Spellings
    PROVE  HistoryKey(mesh, HistoryKey(mesh, s)) = HistoryKey(mesh, s)
<1> DEFINE r == ResolveToken(mesh, Fold[s])
           k == HistoryKey(mesh, s)
<1>1. k \in Keys /\ Fold[k] = k
  BY HistoryKeyType, KeyIsFolded
<1>2. CASE r # 0 /\ ~mesh[r].local
  <2>1. r \in DOMAIN mesh /\ ValidMesh(mesh)
    BY <1>2, ResolveTokenType, NoMeshResolvesNothing
  <2>2. k = mesh[r].id
    BY <1>2 DEF HistoryKey
  <2>3. Fold[Fold[k]] \in Identities(mesh[r])
    BY <1>1, <2>1, <2>2, MeshHost
  <2>4. ResolveToken(mesh, Fold[k]) = r
    BY <2>1, <2>3, EveryIdentityResolves
  <2> QED
    BY <1>2, <2>2, <2>4 DEF HistoryKey
<1>3. CASE ~(r # 0 /\ ~mesh[r].local)
  <2>1. k = Fold[s]
    BY <1>3 DEF HistoryKey
  <2>2. Fold[k] = Fold[s]
    BY <1>1, <2>1
  <2> QED
    BY <1>3, <2>1, <2>2 DEF HistoryKey
<1> QED
  BY <1>2, <1>3

-------------------------------------------------------------------------------
\* A finite set has a member with the greatest value: otherwise take a smallest
\* nonempty subset without one and remove a member.
LEMMA GreatestValue ==
    ASSUME NEW S, IsFiniteSet(S), S # {},
           NEW f, \A s \in S : f[s] \in Int
    PROVE  \E s \in S : \A t \in S : f[t] <= f[s]
<1> DEFINE HasGreatest(A) == \E s \in A : \A t \in A : f[t] <= f[s]
           Lacking == {A \in SUBSET S : A # {} /\ ~HasGreatest(A)}
<1>1. SUFFICES ASSUME Lacking # {} PROVE FALSE
  OBVIOUS
<1>2. PICK A \in Lacking : \A B \in Lacking : ~(<<B, A>> \in StrictSubsetOrdering(S))
  <2>1. IsWellFoundedOn(StrictSubsetOrdering(S), SUBSET S)
    BY FS_StrictSubsetOrderingWellFounded, FS_FiniteSubsetsOfFinite
  <2>2. Lacking \subseteq SUBSET S
    OBVIOUS
  <2> HIDE DEF Lacking
  <2> QED
    BY <1>1, <2>1, <2>2, WFMin
<1>3. PICK x \in A : TRUE
  OBVIOUS
<1>4. A \ {x} \notin Lacking
  <2>1. <<A \ {x}, A>> \in StrictSubsetOrdering(S)
    BY <1>3 DEF StrictSubsetOrdering
  <2> QED
    BY <1>2, <2>1
<1>5. CASE A \ {x} = {}
  <2>1. \A t \in A : f[t] <= f[x]
    BY <1>3, <1>5
  <2> QED
    BY <1>3, <2>1
<1>6. CASE A \ {x} # {}
  <2>1. PICK y \in A \ {x} : \A t \in A \ {x} : f[t] <= f[y]
    BY <1>4, <1>6
  <2>2. f[x] \in Int /\ f[y] \in Int /\ \A t \in A : f[t] \in Int
    BY <1>3
  <2>3. CASE f[x] <= f[y]
    BY <2>1, <2>2, <2>3
  <2>4. CASE f[y] < f[x]
    <3>1. \A t \in A : f[t] <= f[x]
      BY <2>1, <2>2, <2>4
    <3> QED
      BY <1>3, <3>1
  <2> QED
    BY <2>2, <2>3, <2>4
<1> QED
  BY <1>5, <1>6

\* Every part of the rows of a file is finite.
LEMMA FiniteRows ==
    ASSUME NEW mesh, NEW rows, IsRows(rows), NEW k
    PROVE  IsFiniteSet(RowsOf(mesh, rows, k))
<1>1. RowsOf(mesh, rows, k) \in SUBSET Spellings
  BY DEF RowsOf, IsRows
<1> QED
  BY <1>1, FoldAssumption, FS_Subset

\* The greatest of the times of a host's rows is one of them.
LEMMA LatestOfRows ==
    ASSUME NEW mesh, NEW rows, IsRows(rows), NEW k, RowsOf(mesh, rows, k) # {}
    PROVE  LET times == {NonnegativeInt(rows[s].last) : s \in RowsOf(mesh, rows, k)}
           IN  /\ Latest(times) \in times /\ Latest(times) \in Nat
               /\ \A t \in times : t <= Latest(times)
<1> DEFINE R == RowsOf(mesh, rows, k)
           f == [s \in R |-> NonnegativeInt(rows[s].last)]
           times == {NonnegativeInt(rows[s].last) : s \in R}
<1>1. \A s \in R : f[s] \in Nat
  BY DEF RowsOf, IsRows, NonnegativeInt
<1>2. \E s \in R : \A t \in R : f[t] <= f[s]
  <2>1. IsFiniteSet(R) /\ R # {} /\ \A s \in R : f[s] \in Int
    BY <1>1, FiniteRows
  <2> HIDE DEF R, f
  <2> QED
    BY <2>1, GreatestValue
<1>3. \E t \in times : \A u \in times : u <= t
  BY <1>2
<1>4. times \subseteq Nat
  BY <1>1
<1> QED
  BY <1>3, <1>4 DEF Latest

\* The rows of a host stand for a positive number of connections.
LEMMA ConnectionsCount ==
    ASSUME NEW mesh, NEW rows, IsRows(rows), NEW k, RowsOf(mesh, rows, k) # {}
    PROVE  /\ IsFiniteSet(Connections(mesh, rows, k))
           /\ Cardinality(Connections(mesh, rows, k)) \in Nat \ {0}
<1> DEFINE R == RowsOf(mesh, rows, k)
           Of(s) == {s} \X (1 .. PositiveInt(rows[s].count))
           f == [s \in R |-> Of(s)]
           Parts == {Of(s) : s \in R}
<1>1. \A s \in R : PositiveInt(rows[s].count) \in Nat \ {0}
  BY DEF RowsOf, IsRows, PositiveInt
<1>2. \A T \in Parts : IsFiniteSet(T)
  <2>1. SUFFICES ASSUME NEW s \in R PROVE IsFiniteSet(Of(s))
    OBVIOUS
  <2>2. PositiveInt(rows[s].count) \in Int
    BY <1>1
  <2>3. IsFiniteSet({s})
    BY FS_Singleton
  <2>4. IsFiniteSet(1 .. PositiveInt(rows[s].count))
    BY <2>2, FS_Interval
  <2> QED
    BY <2>3, <2>4, FS_Product
<1>3. IsFiniteSet(Parts)
  <2>1. f \in Surjection(R, Parts)
    BY DEF Surjection
  <2> QED
    BY <2>1, FiniteRows, FS_Surjection
<1>4. IsFiniteSet(Connections(mesh, rows, k))
  <2>1. Connections(mesh, rows, k) = UNION Parts
    BY DEF Connections
  <2> QED
    BY <1>2, <1>3, <2>1, FS_UNION
<1>5. Connections(mesh, rows, k) # {}
  <2>1. PICK s \in R : TRUE
    OBVIOUS
  <2>2. <<s, 1>> \in Of(s)
    BY <1>1
  <2> QED
    BY <2>2 DEF Connections
<1> QED
  BY <1>4, <1>5, FS_CardinalityType, FS_EmptySet

\* Rows of any file merge into a history.
LEMMA MergeType ==
    ASSUME NEW mesh, mesh = NoMesh \/ ValidMesh(mesh), NEW rows, IsRows(rows)
    PROVE  IsHistory(Merge(mesh, rows))
<1> DEFINE K == {HistoryKey(mesh, s) : s \in DOMAIN rows}
<1>1. K \subseteq Keys
  BY HistoryKeyType DEF IsRows
<1>2. \A k \in K : RowsOf(mesh, rows, k) # {}
  BY DEF RowsOf
<1>3. \A k \in K : Merge(mesh, rows)[k] \in Entries
  BY <1>2, LatestOfRows, ConnectionsCount DEF Merge, Entries
<1>4. DOMAIN Merge(mesh, rows) = K
  BY DEF Merge
<1>5. Merge(mesh, rows) \in [K -> Entries]
  BY <1>3 DEF Merge
<1> QED
  BY <1>1, <1>4, <1>5 DEF IsHistory

\* A history can be written as the rows of a file.
LEMMA HistoryIsRows ==
    ASSUME NEW h, IsHistory(h)
    PROVE  IsRows(h)
<1>1. DOMAIN h \subseteq Spellings
  BY KeyIsFolded DEF IsHistory
<1>2. Entries \subseteq [last : Int, count : Int]
  BY DEF Entries
<1> QED
  BY <1>1, <1>2 DEF IsHistory, IsRows

\* The empty history is one.
LEMMA EmptyType == IsHistory(Empty) /\ IsRows(Empty)
  BY DEF IsHistory, IsRows, Empty

\* A trimmed history is a history.
LEMMA TrimType ==
    ASSUME NEW h, IsHistory(h)
    PROVE  IsHistory(Trim(h)) /\ DOMAIN Trim(h) = Kept(h) /\ Kept(h) \subseteq DOMAIN h
  BY DEF IsHistory, Trim, Kept

\* Reading rows gives a history.
LEMMA StateFromPayloadType ==
    ASSUME NEW mesh, mesh = NoMesh \/ ValidMesh(mesh), NEW rows, IsRows(rows)
    PROVE  IsHistory(StateFromPayload(mesh, rows))
  BY MergeType, TrimType DEF StateFromPayload

\* Recording a success gives a history.
LEMMA AddSuccessType ==
    ASSUME NEW h, IsHistory(h), NEW k \in Keys, NEW at \in Nat
    PROVE  IsHistory(AddSuccess(h, k, at))
<1> DEFINE g == [j \in DOMAIN h \cup {k} |-> IF j = k THEN Success(h, k, at) ELSE h[j]]
<1>1. Success(h, k, at) \in Entries
  BY DEF Success, IsHistory, Entries
<1>2. IsHistory(g)
  BY <1>1 DEF IsHistory
<1> QED
  BY <1>2, TrimType DEF AddSuccess

\* Forgetting a host leaves a history.
LEMMA WithoutType ==
    ASSUME NEW h, IsHistory(h), NEW k
    PROVE  IsHistory(Without(h, k))
  BY DEF IsHistory, Without

-------------------------------------------------------------------------------
\* Every connection of every row is one of exactly one host, and there are no others.
LEMMA ConnectionsArePartitioned ==
    ASSUME NEW mesh, NEW rows
    PROVE  /\ UNION {Connections(mesh, rows, k) : k \in DOMAIN Merge(mesh, rows)}
                = UNION {{s} \X (1 .. PositiveInt(rows[s].count)) : s \in DOMAIN rows}
           /\ \A j, k \in DOMAIN Merge(mesh, rows) :
                j # k => Connections(mesh, rows, j) \cap Connections(mesh, rows, k) = {}
<1> DEFINE Of(s) == {s} \X (1 .. PositiveInt(rows[s].count))
           K == DOMAIN Merge(mesh, rows)
<1>1. K = {HistoryKey(mesh, s) : s \in DOMAIN rows}
  BY DEF Merge
<1>2. \A k : Connections(mesh, rows, k) = UNION {Of(s) : s \in RowsOf(mesh, rows, k)}
  BY DEF Connections
<1>3. UNION {Connections(mesh, rows, k) : k \in K} = UNION {Of(s) : s \in DOMAIN rows}
  <2>1. ASSUME NEW k \in K, NEW c \in Connections(mesh, rows, k)
        PROVE  c \in UNION {Of(s) : s \in DOMAIN rows}
    BY <1>2, <2>1 DEF RowsOf
  <2>2. ASSUME NEW s \in DOMAIN rows, NEW c \in Of(s)
        PROVE  c \in UNION {Connections(mesh, rows, k) : k \in K}
    <3>1. HistoryKey(mesh, s) \in K /\ s \in RowsOf(mesh, rows, HistoryKey(mesh, s))
      BY <1>1 DEF RowsOf
    <3> QED
      BY <1>2, <2>2, <3>1
  <2> QED
    BY <2>1, <2>2
<1>4. ASSUME NEW j \in K, NEW k \in K, j # k
      PROVE  Connections(mesh, rows, j) \cap Connections(mesh, rows, k) = {}
  <2>1. RowsOf(mesh, rows, j) \cap RowsOf(mesh, rows, k) = {}
    BY <1>4 DEF RowsOf
  <2>2. \A s, t : s # t => Of(s) \cap Of(t) = {}
    OBVIOUS
  <2> QED
    BY <1>2, <2>1, <2>2
<1> QED
  BY <1>3, <1>4

-------------------------------------------------------------------------------
\* A history whose hosts are their own keys, and one that is within the limit.
OwnKeys(mesh, h) == \A k \in DOMAIN h : HistoryKey(mesh, k) = k
Within(h) == Kept(h) = DOMAIN h

\* Reading a history back under the mesh it was folded under changes nothing.
IsFolded(mesh, h) == StateFromPayload(mesh, h) = h

\* Merged rows are under keys that resolve to themselves.
LEMMA MergeOwnKeys ==
    ASSUME NEW mesh, NEW h, IsHistory(h), OwnKeys(mesh, h)
    PROVE  Merge(mesh, h) = h
<1>1. DOMAIN Merge(mesh, h) = DOMAIN h
  BY DEF Merge, OwnKeys
<1>2. ASSUME NEW k \in DOMAIN h PROVE Merge(mesh, h)[k] = h[k]
  <2>1. RowsOf(mesh, h, k) = {k}
    BY DEF RowsOf, OwnKeys
  <2>2. h[k] \in Entries /\ h[k].last \in Nat /\ h[k].count \in Nat \ {0}
    BY DEF IsHistory, Entries
  <2>3. {NonnegativeInt(h[s].last) : s \in RowsOf(mesh, h, k)} = {h[k].last}
    BY <2>1, <2>2 DEF NonnegativeInt
  <2>4. Latest({h[k].last}) = h[k].last
    BY <2>2 DEF Latest
  <2>5. Connections(mesh, h, k) = {k} \X (1 .. h[k].count)
    BY <2>1, <2>2 DEF Connections, PositiveInt
  <2>6. Cardinality(Connections(mesh, h, k)) = h[k].count
    <3> DEFINE n == h[k].count
    <3>1. IsFiniteSet({k}) /\ Cardinality({k}) = 1
      BY FS_Singleton
    <3>2. 1 \in Int /\ n \in Int /\ n >= 1
      BY <2>2
    <3> HIDE DEF n
    <3>3. IsFiniteSet(1 .. n) /\ Cardinality(1 .. n) = IF 1 > n THEN 0 ELSE n - 1 + 1
      BY <3>2, FS_Interval
    <3>4. Cardinality(1 .. n) = n
      BY <3>2, <3>3
    <3>5. Cardinality({k} \X (1 .. n)) = Cardinality({k}) * Cardinality(1 .. n)
      BY <3>1, <3>3, FS_Product
    <3>6. Cardinality({k} \X (1 .. n)) = n
      BY <3>1, <3>2, <3>4, <3>5
    <3> QED
      BY <2>5, <3>6 DEF n
  <2>7. Merge(mesh, h)[k] = [last |-> h[k].last, count |-> h[k].count]
    BY <1>1, <2>3, <2>4, <2>6 DEF Merge
  <2> QED
    BY <2>2, <2>7 DEF Entries
<1> QED
  BY <1>1, <1>2 DEF Merge, IsHistory

\* A history has finitely many rows.
LEMMA FiniteHistory ==
    ASSUME NEW h, IsHistory(h)
    PROVE  IsFiniteSet(DOMAIN h)
<1>1. DOMAIN h \in SUBSET Spellings
  BY HistoryIsRows DEF IsRows
<1> QED
  BY <1>1, FoldAssumption, FS_Subset

\* A part of a history that is within the limit is within it.
LEMMA PartIsWithin ==
    ASSUME NEW h, IsHistory(h), NEW D \in SUBSET Kept(h)
    PROVE  Within([k \in D |-> h[k]])
<1> DEFINE g == [k \in D |-> h[k]]
           Above(k) == {j \in DOMAIN h : Outranks(h, j, k)}
           AboveIn(k) == {j \in D : Outranks(g, j, k)}
<1>1. DOMAIN g = D /\ D \subseteq DOMAIN h
  BY DEF Kept
<1>2. ASSUME NEW k \in D PROVE Cardinality(AboveIn(k)) < MaxHosts
  <2>1. AboveIn(k) \subseteq Above(k)
    BY <1>1 DEF Outranks
  <2>2. IsFiniteSet(Above(k))
    <3>1. Above(k) \in SUBSET DOMAIN h
      OBVIOUS
    <3> QED
      BY <3>1, FiniteHistory, FS_Subset
  <2>3. Cardinality(AboveIn(k)) <= Cardinality(Above(k))
    BY <2>1, <2>2, FS_Subset
  <2>4. Cardinality(AboveIn(k)) \in Nat /\ Cardinality(Above(k)) \in Nat
    BY <2>1, <2>2, FS_Subset, FS_CardinalityType
  <2>5. Cardinality(Above(k)) < MaxHosts
    BY DEF Kept
  <2> QED
    BY <2>3, <2>4, <2>5, MaxHostsAssumption
<1> QED
  BY <1>1, <1>2 DEF Within, Kept

\* A trimmed history is within the limit.
LEMMA TrimIsWithin ==
    ASSUME NEW h, IsHistory(h)
    PROVE  Within(Trim(h))
  BY PartIsWithin DEF Trim

\* A history of own keys within the limit is read back as it is.
LEMMA OwnKeysFolded ==
    ASSUME NEW mesh, NEW h, IsHistory(h), OwnKeys(mesh, h), Within(h)
    PROVE  IsFolded(mesh, h)
<1>1. Trim(h) = h
  BY DEF Within, Trim, IsHistory
<1> QED
  BY <1>1, MergeOwnKeys DEF IsFolded, StateFromPayload

\* What a process reads under a mesh: its own keys, within the limit.
LEMMA ReadIsOwn ==
    ASSUME NEW mesh, mesh = NoMesh \/ ValidMesh(mesh), NEW rows, IsRows(rows)
    PROVE  LET h == StateFromPayload(mesh, rows)
           IN  IsHistory(h) /\ OwnKeys(mesh, h) /\ Within(h)
<1>1. OwnKeys(mesh, Merge(mesh, rows))
  BY HistoryKeyIdempotent DEF OwnKeys, Merge, IsRows
<1>2. IsHistory(Merge(mesh, rows))
  BY MergeType
<1>3. OwnKeys(mesh, Trim(Merge(mesh, rows)))
  BY <1>1, <1>2, TrimType DEF OwnKeys
<1> QED
  BY <1>2, <1>3, TrimIsWithin, TrimType DEF StateFromPayload

\* The empty history is any process's own.
LEMMA EmptyIsOwn ==
    ASSUME NEW mesh
    PROVE  IsHistory(Empty) /\ OwnKeys(mesh, Empty) /\ Within(Empty)
  BY EmptyType DEF OwnKeys, Within, Kept, Empty

\* A success recorded under a history key leaves a process its own history ...
LEMMA SuccessIsOwn ==
    ASSUME NEW mesh, mesh = NoMesh \/ ValidMesh(mesh),
           NEW h, IsHistory(h), OwnKeys(mesh, h),
           NEW s \in Spellings, NEW at \in Nat
    PROVE  LET g == AddSuccess(h, HistoryKey(mesh, s), at)
           IN  IsHistory(g) /\ OwnKeys(mesh, g) /\ Within(g)
<1> DEFINE k == HistoryKey(mesh, s)
           g == [j \in DOMAIN h \cup {k} |-> IF j = k THEN Success(h, k, at) ELSE h[j]]
<1>1. k \in Keys /\ HistoryKey(mesh, k) = k
  BY HistoryKeyType, HistoryKeyIdempotent
<1>2. Success(h, k, at) \in Entries
  BY DEF Success, IsHistory, Entries
<1>3. IsHistory(g)
  BY <1>1, <1>2 DEF IsHistory
<1>4. OwnKeys(mesh, g)
  BY <1>1 DEF OwnKeys
<1>5. OwnKeys(mesh, Trim(g))
  BY <1>3, <1>4, TrimType DEF OwnKeys
<1> HIDE DEF g
<1>6. IsHistory(Trim(g)) /\ Within(Trim(g))
  BY <1>3, TrimType, TrimIsWithin
<1> QED
  BY <1>5, <1>6 DEF AddSuccess, g

\* ... and so does forgetting a host.
LEMMA WithoutIsOwn ==
    ASSUME NEW mesh, NEW h, IsHistory(h), OwnKeys(mesh, h), Within(h), NEW k
    PROVE  LET g == Without(h, k)
           IN  IsHistory(g) /\ OwnKeys(mesh, g) /\ Within(g)
<1>1. DOMAIN h \ {k} \subseteq Kept(h)
  BY DEF Within
<1>2. Within(Without(h, k))
  BY <1>1, PartIsWithin DEF Without
<1> QED
  BY <1>2, WithoutType DEF Without, OwnKeys

\* A second load under the same mesh finds what the first one wrote.
THEOREM ReadingIsIdempotent ==
    ASSUME NEW mesh, mesh = NoMesh \/ ValidMesh(mesh), NEW rows, IsRows(rows)
    PROVE  StateFromPayload(mesh, StateFromPayload(mesh, rows))
             = StateFromPayload(mesh, rows)
  BY ReadIsOwn, OwnKeysFolded DEF IsFolded

-------------------------------------------------------------------------------
(***************************************************************************)
(* The limit.  sort_hosts orders the rows of a history totally, so cutting *)
(* keeps as many rows as the limit allows, and the newest ones.            *)
(***************************************************************************)
LEMMA OutranksOrders ==
    ASSUME NEW h, IsHistory(h), NEW i \in DOMAIN h, NEW j \in DOMAIN h, NEW k \in DOMAIN h
    PROVE  /\ ~Outranks(h, i, i)
           /\ i # j => Outranks(h, i, j) \/ Outranks(h, j, i)
           /\ Outranks(h, i, j) /\ Outranks(h, j, k) => Outranks(h, i, k)
<1>1. \A m \in DOMAIN h : h[m].last \in Nat /\ NameRank[m] \in Nat
  BY RankAssumption DEF IsHistory, Entries
<1>2. \A m, n \in DOMAIN h : NameRank[m] = NameRank[n] => m = n
  BY RankAssumption DEF IsHistory
<1> QED
  BY <1>1, <1>2 DEF Outranks

\* Some row of every nonempty part of a history comes last in it.
LEMMA LowestRow ==
    ASSUME NEW h, IsHistory(h), NEW D \in SUBSET DOMAIN h, D # {}
    PROVE  \E x \in D : \A j \in D \ {x} : Outranks(h, j, x)
<1> DEFINE HasLowest(A) == \E x \in A : \A j \in A \ {x} : Outranks(h, j, x)
           Lacking == {A \in SUBSET D : A # {} /\ ~HasLowest(A)}
<1>0. IsFiniteSet(D)
  BY FiniteHistory, FS_Subset
<1>1. SUFFICES ASSUME Lacking # {} PROVE FALSE
  OBVIOUS
<1>2. PICK A \in Lacking : \A B \in Lacking : ~(<<B, A>> \in StrictSubsetOrdering(D))
  <2>1. IsWellFoundedOn(StrictSubsetOrdering(D), SUBSET D)
    BY <1>0, FS_StrictSubsetOrderingWellFounded, FS_FiniteSubsetsOfFinite
  <2>2. Lacking \subseteq SUBSET D
    OBVIOUS
  <2> HIDE DEF Lacking
  <2> QED
    BY <1>1, <2>1, <2>2, WFMin
<1>3. PICK x \in A : TRUE
  OBVIOUS
<1>4. A \ {x} \notin Lacking
  <2>1. <<A \ {x}, A>> \in StrictSubsetOrdering(D)
    BY <1>3 DEF StrictSubsetOrdering
  <2> QED
    BY <1>2, <2>1
<1>5. A \ {x} # {}
  BY <1>3
<1>6. PICK y \in A \ {x} : \A j \in (A \ {x}) \ {y} : Outranks(h, j, y)
  BY <1>4, <1>5
<1>7. A \subseteq DOMAIN h
  OBVIOUS
<1> HIDE DEF Lacking
<1>8. CASE Outranks(h, x, y)
  <2>1. \A j \in A \ {y} : Outranks(h, j, y)
    BY <1>6, <1>8
  <2> QED
    BY <1>6, <2>1 DEF Lacking
<1>9. CASE Outranks(h, y, x)
  <2>1. \A j \in A \ {x} : Outranks(h, j, x)
    BY <1>3, <1>6, <1>7, <1>9, OutranksOrders
  <2> QED
    BY <1>3, <2>1 DEF Lacking
<1> QED
  BY <1>3, <1>6, <1>7, <1>8, <1>9, OutranksOrders

\* The rows of a part of a history that the limit keeps of that part.
Above(h, D, k) == {j \in D : Outranks(h, j, k)}
KeptOf(h, D) == {k \in D : Cardinality(Above(h, D, k)) < MaxHosts}

\* Finitely many rows come before a given one.
LEMMA AboveIsFinite ==
    ASSUME NEW h, IsHistory(h), NEW D \in SUBSET DOMAIN h, NEW k
    PROVE  /\ IsFiniteSet(D) /\ Cardinality(D) \in Nat
           /\ IsFiniteSet(Above(h, D, k)) /\ Cardinality(Above(h, D, k)) \in Nat
           /\ IsFiniteSet(KeptOf(h, D)) /\ Cardinality(KeptOf(h, D)) \in Nat
<1>1. IsFiniteSet(D)
  BY FiniteHistory, FS_Subset
<1>2. Above(h, D, k) \in SUBSET D /\ KeptOf(h, D) \in SUBSET D
  BY DEF Above, KeptOf
<1>3. IsFiniteSet(Above(h, D, k)) /\ IsFiniteSet(KeptOf(h, D))
  BY <1>1, <1>2, FS_Subset
<1> QED
  BY <1>1, <1>3, FS_CardinalityType

\* Trimming keeps no more rows than the limit ...
LEMMA KeepsNoMore ==
    ASSUME NEW h, IsHistory(h)
    PROVE  Cardinality(Kept(h)) <= MaxHosts
<1> DEFINE D == DOMAIN h
           K == Kept(h)
<1>0. K = KeptOf(h, D) /\ K \in SUBSET D /\ \A k \in K : Cardinality(Above(h, D, k)) < MaxHosts
  BY DEF Kept, KeptOf, Above
<1> HIDE DEF K
<1>1. IsFiniteSet(K) /\ Cardinality(K) \in Nat
  BY <1>0, AboveIsFinite
<1>2. CASE K = {}
  BY <1>2, FS_EmptySet, MaxHostsAssumption DEF K
<1>3. CASE K # {}
  <2>1. PICK x \in K : \A j \in K \ {x} : Outranks(h, j, x)
    BY <1>0, <1>3, LowestRow
  <2>2. K \ {x} \subseteq Above(h, D, x)
    BY <1>0, <2>1 DEF Above
  <2>3. IsFiniteSet(Above(h, D, x)) /\ Cardinality(Above(h, D, x)) \in Nat
    BY AboveIsFinite
  <2>4. Cardinality(K \ {x}) <= Cardinality(Above(h, D, x))
    BY <2>2, <2>3, FS_Subset
  <2>5. Cardinality(K \ {x}) = Cardinality(K) - 1
    BY <1>1, <2>1, FS_RemoveElement
  <2>6. Cardinality(Above(h, D, x)) < MaxHosts
    BY <1>0, <2>1
  <2> QED
    BY <1>1, <2>3, <2>4, <2>5, <2>6, MaxHostsAssumption DEF K
<1> QED
  BY <1>2, <1>3

\* ... and no fewer, if there are as many.
LEMMA KeepsNoFewer ==
    ASSUME NEW h, IsHistory(h), NEW D \in SUBSET DOMAIN h, Cardinality(D) >= MaxHosts
    PROVE  Cardinality(KeptOf(h, D)) >= MaxHosts
<1> DEFINE Short == {A \in SUBSET D : Cardinality(A) >= MaxHosts
                                        /\ ~(Cardinality(KeptOf(h, A)) >= MaxHosts)}
<1>0. IsFiniteSet(D)
  BY AboveIsFinite
<1>1. SUFFICES ASSUME Short # {} PROVE FALSE
  OBVIOUS
<1>2. PICK A \in Short : \A B \in Short : ~(<<B, A>> \in StrictSubsetOrdering(D))
  <2>1. IsWellFoundedOn(StrictSubsetOrdering(D), SUBSET D)
    BY <1>0, FS_StrictSubsetOrderingWellFounded, FS_FiniteSubsetsOfFinite
  <2>2. Short \subseteq SUBSET D
    OBVIOUS
  <2> HIDE DEF Short
  <2> QED
    BY <1>1, <2>1, <2>2, WFMin
<1>3. /\ A \in SUBSET DOMAIN h /\ A \in SUBSET D /\ Cardinality(A) >= MaxHosts
      /\ ~(Cardinality(KeptOf(h, A)) >= MaxHosts)
  OBVIOUS
<1>4. IsFiniteSet(A) /\ Cardinality(A) \in Nat /\ Cardinality(KeptOf(h, A)) \in Nat
  BY <1>3, AboveIsFinite
<1>5. A # {}
  BY <1>3, FS_EmptySet, MaxHostsAssumption
<1>6. PICK x \in A : \A j \in A \ {x} : Outranks(h, j, x)
  BY <1>3, <1>5, LowestRow
<1> DEFINE B == A \ {x}
<1>7. Cardinality(B) = Cardinality(A) - 1 /\ B \in SUBSET DOMAIN h
  BY <1>3, <1>4, <1>6, FS_RemoveElement
<1>8. CASE Cardinality(B) >= MaxHosts
  <2>1. B \notin Short
    <3>1. <<B, A>> \in StrictSubsetOrdering(D)
      BY <1>3, <1>6 DEF StrictSubsetOrdering
    <3> QED
      BY <1>2, <3>1
  <2>2. Cardinality(KeptOf(h, B)) >= MaxHosts
    BY <1>3, <1>8, <2>1
  <2>3. KeptOf(h, B) \subseteq KeptOf(h, A)
    <3>1. SUFFICES ASSUME NEW k \in KeptOf(h, B) PROVE k \in KeptOf(h, A)
      OBVIOUS
    <3>2. k \in B /\ Cardinality(Above(h, B, k)) < MaxHosts
      BY DEF KeptOf
    <3>3. ~Outranks(h, x, k)
      BY <1>3, <1>6, <3>2, OutranksOrders
    <3>4. Above(h, A, k) = Above(h, B, k)
      BY <3>3 DEF Above
    <3> QED
      BY <3>2, <3>4 DEF KeptOf
  <2>4. Cardinality(KeptOf(h, B)) <= Cardinality(KeptOf(h, A))
    BY <1>3, <2>3, AboveIsFinite, FS_Subset
  <2>5. Cardinality(KeptOf(h, B)) \in Nat
    BY <1>7, AboveIsFinite
  <2> QED
    BY <1>3, <1>4, <2>2, <2>4, <2>5, MaxHostsAssumption
<1>9. CASE ~(Cardinality(B) >= MaxHosts)
  <2>1. ASSUME NEW k \in A PROVE k \in KeptOf(h, A)
    <3>1. Above(h, A, k) \subseteq A \ {k}
      BY <1>3, <2>1, OutranksOrders DEF Above
    <3>2. IsFiniteSet(A \ {k}) /\ Cardinality(A \ {k}) = Cardinality(A) - 1
      BY <1>4, FS_RemoveElement
    <3>3. Cardinality(Above(h, A, k)) <= Cardinality(A \ {k})
      BY <3>1, <3>2, FS_Subset
    <3>4. Cardinality(Above(h, A, k)) \in Nat
      BY <1>3, AboveIsFinite
    <3>5. Cardinality(Above(h, A, k)) < MaxHosts
      BY <1>4, <1>7, <1>9, <3>2, <3>3, <3>4, MaxHostsAssumption
    <3> QED
      BY <3>5 DEF KeptOf
  <2>2. KeptOf(h, A) = A
    BY <2>1 DEF KeptOf
  <2> QED
    BY <1>3, <2>2
<1> QED
  BY <1>8, <1>9

\* Cutting a history leaves the limit of rows, or all of them if they are fewer,
\* and every row it keeps comes before every row it drops.
THEOREM TrimKeepsTheNewest ==
    ASSUME NEW h, IsHistory(h)
    PROVE  /\ Cardinality(DOMAIN Trim(h)) <= MaxHosts
           /\ Kept(h) # DOMAIN h => Cardinality(DOMAIN Trim(h)) = MaxHosts
           /\ \A j \in Kept(h), k \in DOMAIN h \ Kept(h) : Outranks(h, j, k)
<1> DEFINE D == DOMAIN h
<1>1. Kept(h) = KeptOf(h, D) /\ DOMAIN Trim(h) = Kept(h) /\ Kept(h) \subseteq D
  BY TrimType DEF Kept, KeptOf, Above
<1>2. ASSUME NEW j \in Kept(h), NEW k \in D \ Kept(h)
      PROVE  Outranks(h, j, k)
  <2>1. SUFFICES ASSUME Outranks(h, k, j) PROVE FALSE
    BY <1>1, OutranksOrders
  <2>2. Above(h, D, k) \subseteq Above(h, D, j)
    BY <1>1, <2>1, OutranksOrders DEF Above
  <2>3. Cardinality(Above(h, D, k)) <= Cardinality(Above(h, D, j))
    BY <2>2, AboveIsFinite, FS_Subset
  <2>4. /\ Cardinality(Above(h, D, k)) \in Nat /\ Cardinality(Above(h, D, j)) \in Nat
        /\ Cardinality(Above(h, D, j)) < MaxHosts
    BY <1>1, AboveIsFinite DEF KeptOf
  <2>5. Cardinality(Above(h, D, k)) < MaxHosts
    BY <2>3, <2>4, MaxHostsAssumption
  <2> QED
    BY <1>1, <2>5 DEF KeptOf
<1>3. ASSUME Kept(h) # D PROVE Cardinality(Kept(h)) = MaxHosts
  <2>1. PICK k \in D : k \notin Kept(h)
    BY <1>1, <1>3
  <2>2. Cardinality(Above(h, D, k)) >= MaxHosts
    BY <1>1, <2>1, AboveIsFinite, MaxHostsAssumption DEF KeptOf
  <2>3. Above(h, D, k) \subseteq D
    BY DEF Above
  <2>4. Cardinality(Above(h, D, k)) <= Cardinality(D)
    BY <2>3, AboveIsFinite, FS_Subset
  <2>5. Cardinality(D) >= MaxHosts
    BY <2>2, <2>4, AboveIsFinite, MaxHostsAssumption
  <2>6. Cardinality(Kept(h)) >= MaxHosts
    BY <1>1, <2>5, KeepsNoFewer
  <2> QED
    BY <1>1, <2>6, KeepsNoMore, AboveIsFinite, MaxHostsAssumption
<1> QED
  BY <1>1, <1>2, <1>3, KeepsNoMore

-------------------------------------------------------------------------------
\* No step on a history gives a host that stays an older time.
KeepsTimes(from, to) ==
    \A k \in DOMAIN from \cap DOMAIN to : to[k].last >= from[k].last

\* Reading rows under a mesh sets no time back ...
LEMMA ReadKeepsTimes ==
    ASSUME NEW mesh, mesh = NoMesh \/ ValidMesh(mesh), NEW rows, IsRows(rows)
    PROVE  KeepsTimes(rows, StateFromPayload(mesh, rows))
<1> DEFINE h == StateFromPayload(mesh, rows)
<1>1. SUFFICES ASSUME NEW k \in DOMAIN rows, k \in DOMAIN h
               PROVE  h[k].last >= rows[k].last
  BY DEF KeepsTimes
<1>2. HistoryKey(mesh, k) = k
  BY <1>1, ReadIsOwn DEF OwnKeys
<1>3. k \in RowsOf(mesh, rows, k)
  BY <1>2 DEF RowsOf
<1>4. h[k] = Merge(mesh, rows)[k] /\ k \in DOMAIN Merge(mesh, rows)
  BY <1>1, MergeType, TrimType DEF StateFromPayload, Trim
<1>5. h[k].last = Latest({NonnegativeInt(rows[s].last) : s \in RowsOf(mesh, rows, k)})
  BY <1>4 DEF Merge
<1>6. h[k].last \in Nat /\ NonnegativeInt(rows[k].last) <= h[k].last
  BY <1>3, <1>5, LatestOfRows
<1>7. rows[k].last \in Int
  BY DEF IsRows
<1> QED
  BY <1>6, <1>7 DEF NonnegativeInt

\* ... nor does recording a success ...
LEMMA SuccessKeepsTimes ==
    ASSUME NEW h, IsHistory(h), NEW k, NEW at \in Nat
    PROVE  KeepsTimes(h, AddSuccess(h, k, at))
<1> DEFINE g == [j \in DOMAIN h \cup {k} |-> IF j = k THEN Success(h, k, at) ELSE h[j]]
<1>1. \A j \in DOMAIN h : h[j].last \in Nat
  BY DEF IsHistory, Entries
<1>2. \A j \in DOMAIN h : g[j].last >= h[j].last
  BY <1>1 DEF Success
<1>3. \A j \in DOMAIN Trim(g) : j \in DOMAIN g /\ Trim(g)[j] = g[j]
  BY DEF Trim, Kept
<1> HIDE DEF g
<1> QED
  BY <1>2, <1>3 DEF KeepsTimes, AddSuccess, g

\* A host that the limit cut from the reading and that a success brings back
\* with an older time is cut again.
LEMMA ReadThenSuccessKeepsTimes ==
    ASSUME NEW mesh, mesh = NoMesh \/ ValidMesh(mesh), NEW rows, IsRows(rows),
           NEW k \in Keys, HistoryKey(mesh, k) = k, NEW at \in Nat
    PROVE  KeepsTimes(rows, AddSuccess(StateFromPayload(mesh, rows), k, at))
<1> DEFINE m == Merge(mesh, rows)
           read == StateFromPayload(mesh, rows)
           g == [j \in DOMAIN read \cup {k} |->
                   IF j = k THEN Success(read, k, at) ELSE read[j]]
<1>1. IsHistory(m) /\ IsHistory(read) /\ read = Trim(m)
  BY MergeType, StateFromPayloadType DEF StateFromPayload
<1>2. KeepsTimes(rows, read) /\ KeepsTimes(read, AddSuccess(read, k, at))
  BY <1>1, ReadKeepsTimes, SuccessKeepsTimes
<1>3. SUFFICES ASSUME NEW j \in DOMAIN rows, j \in DOMAIN AddSuccess(read, k, at)
               PROVE  AddSuccess(read, k, at)[j].last >= rows[j].last
  BY DEF KeepsTimes
<1>4. AddSuccess(read, k, at) = Trim(g) /\ IsHistory(g) /\ DOMAIN g = DOMAIN read \cup {k}
  <2>1. Success(read, k, at) \in Entries
    BY <1>1 DEF Success, IsHistory, Entries
  <2> QED
    BY <1>1, <2>1 DEF AddSuccess, IsHistory
<1>5. rows[j].last \in Int
  BY DEF IsRows
<1> HIDE DEF g, m
<1>6. j \in Kept(g) /\ AddSuccess(read, k, at)[j] = g[j] /\ g[j].last \in Nat
  BY <1>3, <1>4, TrimType DEF Trim, IsHistory, Entries
<1>7. CASE j \in DOMAIN read
  <2>1. read[j].last \in Nat
    BY <1>1, <1>7 DEF IsHistory, Entries
  <2>2. g[j].last >= read[j].last /\ read[j].last >= rows[j].last
    BY <1>2, <1>3, <1>6, <1>7 DEF KeepsTimes
  <2> QED
    BY <1>5, <1>6, <2>1, <2>2
<1>8. CASE j \notin DOMAIN read
  <2>1. j = k /\ g[k] = [last |-> at, count |-> 1]
    BY <1>4, <1>6, <1>8, TrimType DEF g, Success
  <2>2. j \in DOMAIN m
    BY <2>1 DEF m, Merge
  <2>3. m[j].last \in Nat /\ m[j].last >= rows[j].last
    <3>1. j \in RowsOf(mesh, rows, j)
      BY <2>1 DEF RowsOf
    <3>2. m[j].last = Latest({NonnegativeInt(rows[s].last) : s \in RowsOf(mesh, rows, j)})
      BY <2>2 DEF m, Merge
    <3>3. m[j].last \in Nat /\ NonnegativeInt(rows[j].last) <= m[j].last
      BY <3>1, <3>2, LatestOfRows
    <3> QED
      BY <1>5, <3>3 DEF NonnegativeInt
  <2>4. DOMAIN read = Kept(m) /\ j \in DOMAIN m \ Kept(m) /\ \A i \in Kept(m) : read[i] = m[i]
    BY <1>1, <1>8, <2>2, TrimType DEF Trim
  <2>5. SUFFICES ASSUME at < m[j].last PROVE FALSE
    BY <1>5, <1>6, <2>1, <2>3
  <2>6. ASSUME NEW i \in Kept(m) PROVE i \in Above(g, DOMAIN g, j)
    <3>1. Outranks(m, i, j) /\ i \in DOMAIN g /\ i # k
      BY <1>1, <1>4, <2>1, <2>4, TrimKeepsTheNewest
    <3>2. g[i] = m[i]
      BY <2>4, <3>1 DEF g
    <3>3. m[i].last \in Nat /\ m[i].last >= m[j].last
      BY <1>1, <2>2, <3>1, TrimType DEF Outranks, IsHistory, Entries
    <3>4. g[i].last > g[j].last
      BY <2>1, <2>3, <2>5, <3>2, <3>3
    <3> QED
      BY <3>1, <3>4 DEF Above, Outranks
  <2>7. Cardinality(Kept(m)) = MaxHosts
    BY <1>1, <2>4, TrimKeepsTheNewest
  <2>8. Cardinality(Kept(m)) <= Cardinality(Above(g, DOMAIN g, j))
    BY <1>4, <2>6, AboveIsFinite, FS_Subset
  <2>9. Cardinality(Above(g, DOMAIN g, j)) < MaxHosts
    BY <1>6 DEF Kept, Above
  <2> QED
    BY <1>4, <2>7, <2>8, <2>9, AboveIsFinite, MaxHostsAssumption
<1> QED
  BY <1>7, <1>8

\* Reading rows and forgetting a host sets no time back.
LEMMA ReadThenWithoutKeepsTimes ==
    ASSUME NEW mesh, mesh = NoMesh \/ ValidMesh(mesh), NEW rows, IsRows(rows), NEW k
    PROVE  KeepsTimes(rows, Without(StateFromPayload(mesh, rows), k))
<1>1. KeepsTimes(rows, StateFromPayload(mesh, rows))
  BY ReadKeepsTimes
<1> QED
  BY <1>1 DEF KeepsTimes, Without

-------------------------------------------------------------------------------
(***************************************************************************)
(* The usage that histories count: what merging, cutting, forgetting and a *)
(* success do to the sum of all counts.                                    *)
(***************************************************************************)
\* A connection is a host and a number.
LEMMA ConnectionIsPair ==
    ASSUME NEW h
    PROVE  /\ \A c \in ConnectionsIn(h) :
                  \E k \in DOMAIN h : \E i \in 1 .. h[k].count : c = <<k, i>>
           /\ \A k \in DOMAIN h : \A i \in 1 .. h[k].count : <<k, i>> \in ConnectionsIn(h)
  BY DEF ConnectionsIn

\* A history counts finitely many connections.
LEMMA TotalType ==
    ASSUME NEW h, IsHistory(h)
    PROVE  IsFiniteSet(ConnectionsIn(h)) /\ Total(h) \in Nat
<1> DEFINE Of(k) == {k} \X (1 .. h[k].count)
           Parts == {Of(k) : k \in DOMAIN h}
           f == [k \in DOMAIN h |-> Of(k)]
<1>1. ASSUME NEW k \in DOMAIN h PROVE IsFiniteSet(Of(k))
  <2>1. h[k].count \in Int
    BY DEF IsHistory, Entries
  <2>2. IsFiniteSet({k})
    BY FS_Singleton
  <2>3. IsFiniteSet(1 .. h[k].count)
    BY <2>1, FS_Interval
  <2> QED
    BY <2>2, <2>3, FS_Product
<1>2. IsFiniteSet(Parts)
  <2>1. f \in Surjection(DOMAIN h, Parts)
    BY DEF Surjection
  <2> QED
    BY <2>1, FiniteHistory, FS_Surjection
<1>3. IsFiniteSet(ConnectionsIn(h))
  <2>1. \A T \in Parts : IsFiniteSet(T)
    BY <1>1
  <2> QED
    BY <1>2, <2>1, FS_UNION DEF ConnectionsIn
<1> QED
  BY <1>3, FS_CardinalityType DEF Total

\* A part of a history does not count more.
LEMMA PartCountsNoMore ==
    ASSUME NEW h, IsHistory(h), NEW D \in SUBSET DOMAIN h
    PROVE  Total([k \in D |-> h[k]]) <= Total(h)
<1>1. ConnectionsIn([k \in D |-> h[k]]) \subseteq ConnectionsIn(h)
  BY DEF ConnectionsIn
<1> QED
  BY <1>1, TotalType, FS_Subset DEF Total

\* Cutting and forgetting can only lose connections.
LEMMA TrimCountsNoMore ==
    ASSUME NEW h, IsHistory(h)
    PROVE  Total(Trim(h)) <= Total(h)
  BY PartCountsNoMore DEF Trim, Kept

LEMMA WithoutCountsNoMore ==
    ASSUME NEW h, IsHistory(h), NEW k
    PROVE  Total(Without(h, k)) <= Total(h)
<1>1. DOMAIN h \ {k} \in SUBSET DOMAIN h
  OBVIOUS
<1> QED
  BY <1>1, PartCountsNoMore DEF Without

\* Before the list is cut, a success adds exactly one connection.
LEMMA OneMoreConnection ==
    ASSUME NEW h, IsHistory(h), NEW k \in Keys, NEW at \in Nat
    PROVE  LET g == [j \in DOMAIN h \cup {k} |-> IF j = k THEN Success(h, k, at) ELSE h[j]]
           IN  IsHistory(g) /\ Total(g) = Total(h) + 1
<1> DEFINE g == [j \in DOMAIN h \cup {k} |-> IF j = k THEN Success(h, k, at) ELSE h[j]]
           new == <<k, Success(h, k, at).count>>
<1>1. Success(h, k, at) \in Entries /\ \A j \in DOMAIN h : h[j] \in Entries
  BY DEF Success, IsHistory, Entries
<1>2. IsHistory(g)
  BY <1>1 DEF IsHistory
<1>3. /\ DOMAIN g = DOMAIN h \cup {k} /\ \A j \in DOMAIN h \ {k} : g[j] = h[j]
      /\ g[k].count = IF k \in DOMAIN h THEN h[k].count + 1 ELSE 1
      /\ new = <<k, g[k].count>>
  BY DEF Success
<1>4. /\ \A j \in DOMAIN h : h[j].count \in Nat /\ h[j].count >= 1
      /\ g[k].count \in Nat /\ g[k].count >= 1
  BY <1>1, <1>3 DEF Entries
<1> HIDE DEF g, new
<1>5. ConnectionsIn(g) \subseteq ConnectionsIn(h) \cup {new}
  <2>1. SUFFICES ASSUME NEW j \in DOMAIN g, NEW i \in 1 .. g[j].count
                 PROVE  <<j, i>> \in ConnectionsIn(h) \cup {new}
    BY ConnectionIsPair
  <2>2. CASE j = k
    <3>1. CASE k \in DOMAIN h
      <4>1. i \in 1 .. h[k].count \/ i = g[k].count
        BY <1>3, <1>4, <2>1, <2>2, <3>1
      <4> QED
        BY <1>3, <2>2, <3>1, <4>1, ConnectionIsPair
    <3>2. CASE k \notin DOMAIN h
      BY <1>3, <2>1, <2>2, <3>2
    <3> QED
      BY <3>1, <3>2
  <2>3. CASE j # k
    BY <1>3, <2>1, <2>3, ConnectionIsPair
  <2> QED
    BY <2>2, <2>3
<1>6. ConnectionsIn(h) \cup {new} \subseteq ConnectionsIn(g)
  <2>1. ASSUME NEW j \in DOMAIN h, NEW i \in 1 .. h[j].count
        PROVE  j \in DOMAIN g /\ i \in 1 .. g[j].count
    BY <1>3, <1>4
  <2>2. ConnectionsIn(h) \subseteq ConnectionsIn(g)
    BY <2>1, ConnectionIsPair
  <2>3. k \in DOMAIN g /\ g[k].count \in 1 .. g[k].count
    BY <1>3, <1>4
  <2> QED
    BY <1>3, <2>2, <2>3, ConnectionIsPair
<1>7. new \notin ConnectionsIn(h)
  <2>1. SUFFICES ASSUME new \in ConnectionsIn(h) PROVE FALSE
    OBVIOUS
  <2>2. k \in DOMAIN h /\ g[k].count \in 1 .. h[k].count
    BY <1>3, <2>1, ConnectionIsPair
  <2> QED
    BY <1>3, <1>4, <2>2
<1>8. Cardinality(ConnectionsIn(g)) = Cardinality(ConnectionsIn(h)) + 1
  BY <1>5, <1>6, <1>7, TotalType, FS_AddElement
<1> QED
  BY <1>2, <1>8 DEF Total, g

\* A success adds one connection, or the cut takes some away.
LEMMA SuccessCountsOne ==
    ASSUME NEW h, IsHistory(h), NEW k \in Keys, NEW at \in Nat
    PROVE  Total(AddSuccess(h, k, at)) <= Total(h) + 1
<1> DEFINE g == [j \in DOMAIN h \cup {k} |-> IF j = k THEN Success(h, k, at) ELSE h[j]]
<1>1. IsHistory(g) /\ Total(g) = Total(h) + 1 /\ AddSuccess(h, k, at) = Trim(g)
  BY OneMoreConnection DEF AddSuccess
<1> HIDE DEF g
<1> QED
  BY <1>1, TrimCountsNoMore

\* Where there is room for every row, nothing is cut ...
LEMMA NothingIsCut ==
    ASSUME NEW h, IsHistory(h), Cardinality(DOMAIN h) <= MaxHosts
    PROVE  Trim(h) = h
<1>1. Kept(h) \subseteq DOMAIN h /\ DOMAIN Trim(h) = Kept(h)
  BY DEF Kept, Trim
<1>2. IsFiniteSet(DOMAIN h) /\ Cardinality(DOMAIN h) \in Nat
  BY FiniteHistory, FS_CardinalityType
<1>3. Kept(h) = DOMAIN h
  <2>1. SUFFICES ASSUME Kept(h) # DOMAIN h PROVE FALSE
    OBVIOUS
  <2>2. Cardinality(Kept(h)) = MaxHosts
    BY <1>1, <2>1, TrimKeepsTheNewest
  <2>3. Cardinality(Kept(h)) # Cardinality(DOMAIN h)
    BY <1>1, <1>2, <2>1, FS_Subset, Zenon
  <2>4. Cardinality(Kept(h)) <= Cardinality(DOMAIN h) /\ Cardinality(Kept(h)) \in Nat
    BY <1>1, <1>2, FS_Subset, FS_CardinalityType
  <2> QED
    BY <1>2, <2>2, <2>3, <2>4, MaxHostsAssumption
<1> QED
  BY <1>3 DEF Trim, IsHistory

\* ... so that a success adds exactly one connection and at most one row ...
LEMMA SuccessCountsExactlyOne ==
    ASSUME NEW h, IsHistory(h), NEW k \in Keys, NEW at \in Nat, Cardinality(DOMAIN h) < MaxHosts
    PROVE  LET g == AddSuccess(h, k, at)
           IN  /\ IsHistory(g) /\ Total(g) = Total(h) + 1
               /\ Cardinality(DOMAIN g) <= Cardinality(DOMAIN h) + 1
<1> DEFINE g == [j \in DOMAIN h \cup {k} |-> IF j = k THEN Success(h, k, at) ELSE h[j]]
<1>1. IsHistory(g) /\ Total(g) = Total(h) + 1 /\ AddSuccess(h, k, at) = Trim(g)
  BY OneMoreConnection DEF AddSuccess
<1>2. IsFiniteSet(DOMAIN h) /\ Cardinality(DOMAIN h) \in Nat
  BY FiniteHistory, FS_CardinalityType
<1>3. Cardinality(DOMAIN g) <= Cardinality(DOMAIN h) + 1 /\ Cardinality(DOMAIN g) \in Nat
  BY <1>2, FS_AddElement
<1> HIDE DEF g
<1>4. Trim(g) = g
  BY <1>1, <1>2, <1>3, NothingIsCut, MaxHostsAssumption
<1> QED
  BY <1>1, <1>3, <1>4

\* What rows count as they are found in a file: each row at least one connection.
Counted(rows) == [s \in DOMAIN rows |-> [count |-> PositiveInt(rows[s].count)]]

\* Merging the rows of any file under whichever mesh neither loses nor doubles a
\* connection: each host has the count of its own rows together, and all of them
\* have the count of all rows.
THEOREM MergeConservesConnections ==
    ASSUME NEW m, m = NoMesh \/ ValidMesh(m), NEW h, IsRows(h)
    PROVE  /\ \A k \in DOMAIN Merge(m, h) :
                  Merge(m, h)[k].count = Total([s \in RowsOf(m, h, k) |-> Counted(h)[s]])
           /\ Total(Merge(m, h)) = Total(Counted(h))
<1> DEFINE g == Merge(m, h)
           K == DOMAIN g
           Conn(k) == Connections(m, h, k)
           b == [k \in K |-> CHOOSE f : f \in Bijection(1 .. g[k].count, Conn(k))]
           F == [c \in ConnectionsIn(g) |-> b[c[1]][c[2]]]
<1>1. IsHistory(g)
  BY MergeType
<1>2. ASSUME NEW k \in K PROVE b[k] \in Bijection(1 .. g[k].count, Conn(k))
  <2>1. RowsOf(m, h, k) # {} /\ g[k].count = Cardinality(Conn(k))
    BY DEF Merge, RowsOf
  <2>2. IsFiniteSet(Conn(k))
    BY <2>1, ConnectionsCount
  <2>3. ExistsBijection(1 .. g[k].count, Conn(k))
    BY <2>1, <2>2, FS_CardinalityType
  <2> HIDE DEF Conn
  <2> QED
    BY <2>3 DEF ExistsBijection
<1>3. /\ UNION {Conn(k) : k \in K} = ConnectionsIn(Counted(h))
      /\ \A j, k \in K : j # k => Conn(j) \cap Conn(k) = {}
  <2>1. ConnectionsIn(Counted(h)) = UNION {{s} \X (1 .. PositiveInt(h[s].count)) : s \in DOMAIN h}
    BY DEF ConnectionsIn, Counted
  <2> QED
    BY <2>1, ConnectionsArePartitioned
<1>0. ASSUME NEW k \in K
      PROVE  g[k].count = Total([s \in RowsOf(m, h, k) |-> Counted(h)[s]])
  <2> DEFINE R == RowsOf(m, h, k)
             own == [s \in R |-> Counted(h)[s]]
  <2>1. \A s \in R : own[s].count = PositiveInt(h[s].count)
    BY DEF RowsOf, Counted
  <2>2. ConnectionsIn(own) = Conn(k)
    BY <2>1 DEF ConnectionsIn, Connections
  <2> QED
    BY <2>2 DEF Total, Merge
<1> HIDE DEF g, b, Conn
<1>4. ASSUME NEW k \in K
       PROVE  /\ b[k] \in [1 .. g[k].count -> Conn(k)]
              /\ \A i, l \in 1 .. g[k].count : b[k][i] = b[k][l] => i = l
              /\ \A c \in Conn(k) : \E i \in 1 .. g[k].count : b[k][i] = c
  <2> DEFINE S == 1 .. g[k].count
             f == b[k]
  <2>1. f \in Bijection(S, Conn(k))
    BY <1>2
  <2> HIDE DEF S, f
  <2>2. f \in [S -> Conn(k)] /\ \A i, l \in S : f[i] = f[l] => i = l
    BY <2>1, Fun_BijectionProperties
  <2>3. \A c \in Conn(k) : \E i \in S : f[i] = c
    BY <2>1, Fun_BijectionProperties, Fun_SurjectionProperties
  <2> QED
    BY <2>2, <2>3 DEF S, f
<1>5. ASSUME NEW k \in K, NEW i \in 1 .. g[k].count
      PROVE  F[<<k, i>>] = b[k][i] /\ b[k][i] \in Conn(k)
  <2>1. <<k, i>> \in ConnectionsIn(g)
    BY ConnectionIsPair
  <2>2. b[k] \in [1 .. g[k].count -> Conn(k)]
    BY <1>4
  <2> QED
    BY <2>1, <2>2
<1>6. F \in [ConnectionsIn(g) -> ConnectionsIn(Counted(h))]
  <2>1. ASSUME NEW c \in ConnectionsIn(g) PROVE F[c] \in ConnectionsIn(Counted(h))
    <3>1. PICK k \in K : \E i \in 1 .. g[k].count : c = <<k, i>>
      BY ConnectionIsPair
    <3>2. PICK i \in 1 .. g[k].count : c = <<k, i>>
      BY <3>1
    <3> HIDE DEF F
    <3>3. F[c] \in Conn(k)
      BY <1>5, <3>2
    <3> QED
      BY <1>3, <3>3
  <2> QED
    BY <2>1
<1>7. ASSUME NEW c \in ConnectionsIn(g), NEW d \in ConnectionsIn(g), F[c] = F[d]
      PROVE  c = d
  <2>1. PICK j \in K : \E i \in 1 .. g[j].count : c = <<j, i>>
    BY ConnectionIsPair
  <2>2. PICK i \in 1 .. g[j].count : c = <<j, i>>
    BY <2>1
  <2>3. PICK k \in K : \E l \in 1 .. g[k].count : d = <<k, l>>
    BY ConnectionIsPair
  <2>4. PICK l \in 1 .. g[k].count : d = <<k, l>>
    BY <2>3
  <2> HIDE DEF F
  <2>5. b[j][i] = b[k][l] /\ b[j][i] \in Conn(j) /\ b[k][l] \in Conn(k)
    BY <1>5, <1>7, <2>2, <2>4
  <2>6. j = k
    BY <1>3, <2>5
  <2>7. i = l
    BY <1>4, <2>5, <2>6
  <2> QED
    BY <2>2, <2>4, <2>6, <2>7
<1>8. ASSUME NEW c \in ConnectionsIn(Counted(h)) PROVE \E d \in ConnectionsIn(g) : F[d] = c
  <2>1. PICK k \in K : c \in Conn(k)
    BY <1>3
  <2>2. PICK i \in 1 .. g[k].count : b[k][i] = c
    BY <1>4, <2>1
  <2>3. <<k, i>> \in ConnectionsIn(g)
    BY ConnectionIsPair
  <2> HIDE DEF F
  <2> QED
    BY <1>5, <2>2, <2>3
<1> HIDE DEF F
<1>9. F \in Bijection(ConnectionsIn(g), ConnectionsIn(Counted(h)))
  <2>1. F \in Injection(ConnectionsIn(g), ConnectionsIn(Counted(h)))
    BY <1>6, <1>7, Fun_IsInj
  <2>2. F \in Surjection(ConnectionsIn(g), ConnectionsIn(Counted(h)))
    BY <1>6, <1>8, Fun_IsSurj
  <2> QED
    BY <2>1, <2>2 DEF Bijection
<1>10. Cardinality(ConnectionsIn(g)) = Cardinality(ConnectionsIn(Counted(h)))
  BY <1>1, <1>9, TotalType, FS_Bijection DEF ExistsBijection
<1> QED
  BY <1>0, <1>10 DEF Total, g

\* Merging a history under whichever mesh leaves the sum of all counts as it is.
THEOREM MergeConservesUsage ==
    ASSUME NEW m, m = NoMesh \/ ValidMesh(m), NEW h, IsHistory(h)
    PROVE  Total(Merge(m, h)) = Total(h)
<1>1. \A s \in DOMAIN h : Counted(h)[s].count = h[s].count
  BY DEF Counted, IsHistory, Entries, PositiveInt
<1>2. ConnectionsIn(Counted(h)) = ConnectionsIn(h)
  BY <1>1 DEF ConnectionsIn, Counted
<1> QED
  BY <1>2, HistoryIsRows, MergeConservesConnections DEF Total

\* ... and reading rows under whichever mesh loses no connection and adds no row.
LEMMA ReadingCountsAll ==
    ASSUME NEW m, m = NoMesh \/ ValidMesh(m), NEW h, IsHistory(h), Cardinality(DOMAIN h) <= MaxHosts
    PROVE  LET read == StateFromPayload(m, h)
           IN  /\ IsHistory(read) /\ Total(read) = Total(h)
               /\ Cardinality(DOMAIN read) <= Cardinality(DOMAIN h)
<1> DEFINE g == Merge(m, h)
           f == [s \in DOMAIN h |-> HistoryKey(m, s)]
<1>1. IsHistory(g) /\ Total(g) = Total(h)
  BY HistoryIsRows, MergeType, MergeConservesUsage
<1>2. IsFiniteSet(DOMAIN h) /\ Cardinality(DOMAIN h) \in Nat
  BY FiniteHistory, FS_CardinalityType
<1>3. f \in Surjection(DOMAIN h, DOMAIN g)
  BY DEF Merge, Surjection
<1> HIDE DEF f
<1>4. Cardinality(DOMAIN g) <= Cardinality(DOMAIN h) /\ Cardinality(DOMAIN g) \in Nat
  BY <1>2, <1>3, FS_Surjection, FS_CardinalityType
<1> HIDE DEF g
<1>5. Trim(g) = g
  BY <1>1, <1>2, <1>4, NothingIsCut, MaxHostsAssumption
<1> QED
  BY <1>1, <1>4, <1>5 DEF StateFromPayload, g

===============================================================================
