----------------------------- MODULE PickerProofs -----------------------------
(***************************************************************************)
(* Theorems about the rows of the picker and about its callbacks, for any  *)
(* configurations, histories, windows and any changes between two steps.   *)
(***************************************************************************)
EXTENDS Picker, HistoryProofs

-------------------------------------------------------------------------------
IsRow(r) ==
    /\ r.key \in Keys /\ r.last \in Nat /\ r.count \in Nat
    /\ r.place \in Nat /\ r.managed \in BOOLEAN

\* Finitely many rows, each for another host.
IsRowSet(S) ==
    /\ IsFiniteSet(S)
    /\ \A r \in S : IsRow(r)
    /\ \A r, s \in S : r.key = s.key => r = s

\* The order of the rows is a total one.
LEMMA RowOrder ==
    ASSUME NEW S, IsRowSet(S), NEW q \in S, NEW r \in S, NEW s \in S
    PROVE  /\ ~RowPrecedes(r, r)
           /\ r # s => RowPrecedes(r, s) \/ RowPrecedes(s, r)
           /\ RowPrecedes(q, r) /\ RowPrecedes(r, s) => RowPrecedes(q, s)
<1>1. /\ Rank(q) \in 0 .. 2 /\ Rank(r) \in 0 .. 2 /\ Rank(s) \in 0 .. 2
      /\ q.last \in Nat /\ r.last \in Nat /\ s.last \in Nat
      /\ q.place \in Nat /\ r.place \in Nat /\ s.place \in Nat
      /\ NameRank[q.key] \in Nat /\ NameRank[r.key] \in Nat /\ NameRank[s.key] \in Nat
  BY RankAssumption DEF IsRowSet, IsRow, Rank
<1>2. r # s => NameRank[r.key] # NameRank[s.key]
  BY RankAssumption DEF IsRowSet, IsRow
<1> QED
  BY <1>1, <1>2 DEF RowPrecedes

\* How many rows come before a row.
Ahead(S, r) == Cardinality({q \in S : RowPrecedes(q, r)})

LEMMA AboveType ==
    ASSUME NEW S, IsRowSet(S), NEW r \in S
    PROVE  /\ Cardinality(S) \in Nat /\ Ahead(S, r) \in 0 .. Cardinality(S) - 1
           /\ IsFiniteSet({q \in S : RowPrecedes(q, r)})
<1>1. {q \in S : RowPrecedes(q, r)} \subseteq S \ {r}
  BY RowOrder
<1>2. /\ IsFiniteSet(S \ {r}) /\ Cardinality(S \ {r}) = Cardinality(S) - 1
      /\ Cardinality(S) \in Nat
  BY FS_RemoveElement, FS_CardinalityType DEF IsRowSet
<1> QED
  BY <1>1, <1>2, FS_Subset, FS_CardinalityType DEF Ahead

\* A row that comes before another one has fewer rows before it.
LEMMA AboveGrows ==
    ASSUME NEW S, IsRowSet(S), NEW r \in S, NEW s \in S, RowPrecedes(r, s)
    PROVE  Ahead(S, r) < Ahead(S, s)
<1> DEFINE A == {q \in S : RowPrecedes(q, r)}
           B == {q \in S : RowPrecedes(q, s)}
<1>1. A \subseteq B /\ r \in B /\ r \notin A
  BY RowOrder
<1>2. IsFiniteSet(B)
  BY AboveType
<1>3. Ahead(S, r) = Cardinality(A) /\ Ahead(S, s) = Cardinality(B)
  BY DEF Ahead
<1> HIDE DEF A, B
<1>4. A \subseteq B \ {r}
  BY <1>1
<1>5. IsFiniteSet(B \ {r}) /\ Cardinality(B \ {r}) = Cardinality(B) - 1 /\ Cardinality(B) \in Nat
  BY <1>1, <1>2, FS_RemoveElement, FS_CardinalityType
<1>6. Cardinality(A) <= Cardinality(B \ {r}) /\ Cardinality(A) \in Nat
  BY <1>4, <1>5, FS_Subset, FS_CardinalityType
<1> QED
  BY <1>3, <1>5, <1>6

\* Two rows have different numbers of rows before them.
LEMMA AboveDiffers ==
    ASSUME NEW S, IsRowSet(S), NEW r \in S, NEW s \in S, Ahead(S, r) = Ahead(S, s)
    PROVE  r = s
<1>1. Cardinality(S) \in Nat /\ Ahead(S, r) \in Int /\ Ahead(S, s) \in Int
  <2>1. Cardinality(S) \in Nat /\ Ahead(S, r) \in 0 .. Cardinality(S) - 1
    BY AboveType
  <2>2. Ahead(S, s) \in 0 .. Cardinality(S) - 1
    BY AboveType
  <2> QED
    BY <2>1, <2>2
<1> QED
  BY <1>1, RowOrder, AboveGrows

\* Every place of the list is that of a row.
LEMMA EveryPlaceHasRow ==
    ASSUME NEW S, IsRowSet(S), NEW n \in 0 .. Cardinality(S) - 1
    PROVE  \E r \in S : Ahead(S, r) = n
<1> DEFINE P == 0 .. Cardinality(S) - 1
           f == [r \in S |-> Ahead(S, r)]
<1>1. SUFFICES ASSUME \A r \in S : Ahead(S, r) # n PROVE FALSE
  OBVIOUS
<1>2. IsFiniteSet(S) /\ Cardinality(S) \in Nat
  BY FS_CardinalityType DEF IsRowSet
<1>3. f \in [S -> P \ {n}]
  BY <1>1, AboveType
<1>4. IsFiniteSet(P) /\ Cardinality(P) = Cardinality(S)
  BY <1>2, FS_Interval
<1>5. IsFiniteSet(P \ {n}) /\ Cardinality(P \ {n}) = Cardinality(S) - 1
  BY <1>4, FS_RemoveElement
<1>6. PICK r, s \in S : r # s /\ f[r] = f[s]
  <2>1. Cardinality(P \ {n}) < Cardinality(S)
    BY <1>2, <1>5
  <2> HIDE DEF f, P
  <2> QED
    BY <1>2, <1>3, <1>5, <2>1, FS_PigeonHole
<1>7. Ahead(S, r) = Ahead(S, s)
  BY <1>6
<1> QED
  BY <1>6, <1>7, AboveDiffers

\* Sorting lists every row once, each one before those that it precedes.
THEOREM SortingLists ==
    ASSUME NEW S, IsRowSet(S)
    PROVE  LET shown == SortRows(S)
           IN  /\ DOMAIN shown = 1 .. Cardinality(S) /\ Cardinality(S) \in Nat
               /\ shown \in Seq(S) /\ Len(shown) = Cardinality(S)
               /\ \A p \in DOMAIN shown : shown[p] \in S
               /\ \A r \in S : \E p \in DOMAIN shown : shown[p] = r
               /\ \A p, q \in DOMAIN shown : shown[p].key = shown[q].key => p = q
               /\ \A p, q \in DOMAIN shown : p < q => RowPrecedes(shown[p], shown[q])
<1> DEFINE n == Cardinality(S)
           shown == SortRows(S)
<1>1. n \in Nat
  BY FS_CardinalityType DEF IsRowSet
<1>2. shown = [p \in 1 .. n |-> CHOOSE r \in S : Ahead(S, r) = p - 1]
  BY DEF SortRows, Ahead
<1>3. ASSUME NEW p \in 1 .. n
      PROVE  shown[p] \in S /\ Ahead(S, shown[p]) = p - 1
  <2>1. \E r \in S : Ahead(S, r) = p - 1
    BY <1>1, EveryPlaceHasRow
  <2> QED
    BY <1>2, <2>1
<1>4. DOMAIN shown = 1 .. n /\ Len(shown) = n /\ shown \in Seq(S)
  <2>1. shown \in Seq(S)
    BY <1>1, <1>2, <1>3
  <2> QED
    BY <1>1, <1>2, <2>1
<1> HIDE DEF shown
<1>5. ASSUME NEW r \in S
      PROVE  \E p \in DOMAIN shown : shown[p] = r
  <2>1. Ahead(S, r) \in 0 .. n - 1
    BY AboveType
  <2>2. Ahead(S, r) + 1 \in 1 .. n
    BY <1>1, <2>1
  <2>3. shown[Ahead(S, r) + 1] \in S /\ Ahead(S, shown[Ahead(S, r) + 1]) = Ahead(S, r)
    BY <1>3, <2>1, <2>2
  <2>4. shown[Ahead(S, r) + 1] = r
    BY <2>3, AboveDiffers
  <2> QED
    BY <1>4, <2>2, <2>4
<1>6. ASSUME NEW p \in DOMAIN shown, NEW q \in DOMAIN shown, shown[p].key = shown[q].key
      PROVE  p = q
  <2>1. shown[p] = shown[q]
    BY <1>3, <1>4, <1>6 DEF IsRowSet
  <2> QED
    BY <1>1, <1>3, <1>4, <2>1
<1>7. ASSUME NEW p \in DOMAIN shown, NEW q \in DOMAIN shown, p < q
      PROVE  RowPrecedes(shown[p], shown[q])
  <2>1. Ahead(S, shown[p]) = p - 1 /\ Ahead(S, shown[q]) = q - 1
        /\ shown[p] \in S /\ shown[q] \in S /\ shown[p] # shown[q]
    BY <1>1, <1>3, <1>4, <1>7
  <2>2. RowPrecedes(shown[p], shown[q]) \/ RowPrecedes(shown[q], shown[p])
    BY <2>1, RowOrder
  <2>3. ~RowPrecedes(shown[q], shown[p])
    <3>1. SUFFICES ASSUME RowPrecedes(shown[q], shown[p]) PROVE FALSE
      OBVIOUS
    <3>2. q - 1 < p - 1
      BY <2>1, <3>1, AboveGrows
    <3> QED
      BY <1>1, <1>4, <1>7, <3>2
  <2> QED
    BY <2>2, <2>3
<1>8. \A p \in DOMAIN shown : shown[p] \in S
  BY <1>3, <1>4
<1> QED
  BY <1>1, <1>4, <1>5, <1>6, <1>7, <1>8 DEF shown

-------------------------------------------------------------------------------
\* A remote host has one place, and its id resolves to it.
LEMMA RemoteHostResolves ==
    ASSUME NEW hosts, ValidMesh(hosts), NEW i \in Remote(hosts)
    PROVE  /\ i \in DOMAIN hosts /\ i \in Nat /\ hosts[i].id \in Keys /\ ~hosts[i].local
           /\ Managed(hosts, hosts[i].id) /\ ResolveToken(hosts, hosts[i].id) = i
           /\ \A j \in Remote(hosts) : hosts[i].id = hosts[j].id => i = j
<1>1. i \in DOMAIN hosts /\ i \in Nat /\ i # 1 /\ i # 0
  BY DEF Remote, ValidMesh
<1>2. hosts[i].id \in Keys /\ Fold[hosts[i].id] \in Identities(hosts[i]) /\ ~hosts[i].local
  BY <1>1, MeshHost, KeyIsFolded DEF ValidMesh
<1>3. ResolveToken(hosts, hosts[i].id) = i
  BY <1>1, <1>2, EveryIdentityResolves
<1>4. \A j \in Remote(hosts) : hosts[i].id = hosts[j].id => i = j
  BY <1>1 DEF Remote, ValidMesh, CollisionFree
<1> QED
  BY <1>1, <1>2, <1>3, <1>4 DEF Managed

\* The rows are those of different hosts, whether the mesh or the history has
\* them, and a row that is not a host of the mesh belongs to none.
LEMMA RowsAreHosts ==
    ASSUME NEW hosts, ValidMesh(hosts), NEW h, IsHistory(h)
    PROVE  /\ IsRowSet(Rows(hosts, h))
           /\ \A r \in Rows(hosts, h) :
                 r.key \in Keys /\ (r.key \in RemoteIds(hosts) \/ ~Managed(hosts, r.key))
           /\ \A r, s \in Rows(hosts, h) :
                 r.managed /\ s.managed /\ r.place = s.place => r = s
<1> DEFINE usage == ManagedUsage(hosts, h)
           M == {ManagedRow(hosts, h, i) : i \in Remote(hosts)}
           K == {j \in DOMAIN h : ~Managed(hosts, j) /\ j \notin RemoteIds(hosts)}
           A == {AdHocRow(hosts, h, k) : k \in K}
<1>1. Rows(hosts, h) = M \cup A
  BY DEF Rows
<1>2. IsHistory(usage)
  <2>1. IsHistory([k \in {j \in DOMAIN h : Managed(hosts, j)} |-> h[k]])
    BY DEF IsHistory
  <2> QED
    BY <2>1, HistoryIsRows, MergeType DEF ManagedUsage
<1>3. ASSUME NEW r \in M
      PROVE  IsRow(r) /\ r.key \in RemoteIds(hosts)
  <2>1. PICK i \in Remote(hosts) : r = ManagedRow(hosts, h, i)
    OBVIOUS
  <2>2. i \in Nat /\ hosts[i].id \in Keys
    BY RemoteHostResolves
  <2>3. hosts[i].id \in DOMAIN usage =>
           usage[hosts[i].id].last \in Nat /\ usage[hosts[i].id].count \in Nat
    BY <1>2 DEF IsHistory, Entries
  <2> HIDE DEF usage
  <2>4. r = [key |-> hosts[i].id, managed |-> TRUE, place |-> i,
             last  |-> IF hosts[i].id \in DOMAIN usage THEN usage[hosts[i].id].last ELSE 0,
             count |-> IF hosts[i].id \in DOMAIN usage THEN usage[hosts[i].id].count ELSE 0]
    BY <2>1 DEF ManagedRow, usage
  <2> QED
    BY <2>2, <2>3, <2>4 DEF IsRow, RemoteIds
<1>4. ASSUME NEW r \in A
      PROVE  IsRow(r) /\ r.key \in K
  <2>1. PICK k \in K : r = AdHocRow(hosts, h, k)
    OBVIOUS
  <2>2. k \in Keys /\ h[k].last \in Nat /\ h[k].count \in Nat /\ Len(hosts) + 1 \in Nat
    BY DEF IsHistory, Entries, ValidMesh
  <2> QED
    BY <2>1, <2>2 DEF IsRow, AdHocRow
<1>5. ASSUME NEW r \in M \cup A, NEW s \in M \cup A, r.key = s.key
      PROVE  r = s
  <2>1. CASE r \in M /\ s \in M
    <3>1. PICK i \in Remote(hosts) : r = ManagedRow(hosts, h, i)
      BY <2>1
    <3>2. PICK j \in Remote(hosts) : s = ManagedRow(hosts, h, j)
      BY <2>1
    <3>3. r.key = hosts[i].id /\ s.key = hosts[j].id
      BY <3>1, <3>2 DEF ManagedRow
    <3> QED
      BY <1>5, <3>1, <3>2, <3>3, RemoteHostResolves
  <2>2. CASE r \in A /\ s \in A
    <3>1. PICK k \in K : r = AdHocRow(hosts, h, k)
      BY <2>2
    <3>2. PICK j \in K : s = AdHocRow(hosts, h, j)
      BY <2>2
    <3>3. r.key = k /\ s.key = j
      BY <3>1, <3>2 DEF AdHocRow
    <3> QED
      BY <1>5, <3>1, <3>2, <3>3
  <2> HIDE DEF M, A
  <2> QED
    BY <1>3, <1>4, <1>5, <2>1, <2>2
<1>10. ASSUME NEW r \in M \cup A, NEW s \in M \cup A, r.managed, s.managed, r.place = s.place
      PROVE  r = s
  <2>1. \A q \in A : ~q.managed
    BY DEF AdHocRow
  <2>2. r \in M /\ s \in M
    BY <1>10, <2>1
  <2>3. PICK i \in Remote(hosts) : r = ManagedRow(hosts, h, i)
    BY <2>2
  <2>4. PICK j \in Remote(hosts) : s = ManagedRow(hosts, h, j)
    BY <2>2
  <2>5. r.place = i /\ s.place = j
    BY <2>3, <2>4 DEF ManagedRow
  <2> QED
    BY <1>10, <2>3, <2>4, <2>5
<1> DEFINE R == Rows(hosts, h)
<1> HIDE DEF usage, M, A
<1>11. \A r, s \in R : r.managed /\ s.managed /\ r.place = s.place => r = s
  BY <1>1, <1>10
<1>6. \A r \in R : IsRow(r)
  BY <1>1, <1>3, <1>4
<1>7. \A r, s \in R : r.key = s.key => r = s
  BY <1>1, <1>5
<1> HIDE DEF R
<1>8. IsFiniteSet(R)
  <2> DEFINE f == [r \in R |-> r.key]
  <2>1. f \in Injection(R, Spellings)
    BY <1>6, <1>7, KeyIsFolded DEF IsRow, Injection, IsInjective
  <2> QED
    BY <2>1, FS_Injection, FoldAssumption
<1>9. \A r \in R : r.key \in Keys /\ (r.key \in RemoteIds(hosts) \/ ~Managed(hosts, r.key))
  BY <1>1, <1>3, <1>4, <1>6 DEF R, IsRow
<1> QED
  BY <1>6, <1>7, <1>8, <1>9, <1>11 DEF IsRowSet, R

\* A managed host counts what the history counts under its id, any other row what
\* the history counts under its key; and the history has no key without a row.
LEMMA RowsCount ==
    ASSUME NEW hosts, ValidMesh(hosts), NEW h, IsHistory(h), OwnKeys(hosts, h)
    PROVE  /\ \A r \in Rows(hosts, h) :
                 /\ r.key \in DOMAIN h \cup RemoteIds(hosts)
                 /\ r.count = IF r.key \in DOMAIN h THEN h[r.key].count ELSE 0
           /\ \A k \in DOMAIN h \cup RemoteIds(hosts) : \E r \in Rows(hosts, h) : r.key = k
<1> DEFINE own == [k \in {j \in DOMAIN h : Managed(hosts, j)} |-> h[k]]
           K == {j \in DOMAIN h : ~Managed(hosts, j) /\ j \notin RemoteIds(hosts)}
<1>1. ManagedUsage(hosts, h) = own
  <2>1. IsHistory(own) /\ OwnKeys(hosts, own)
    BY DEF IsHistory, OwnKeys
  <2> QED
    BY <2>1, MergeOwnKeys DEF ManagedUsage
<1>2. ASSUME NEW i \in Remote(hosts)
      PROVE  LET r == ManagedRow(hosts, h, i)
             IN  /\ r \in Rows(hosts, h) /\ r.key = hosts[i].id /\ r.key \in RemoteIds(hosts)
                 /\ r.count = IF r.key \in DOMAIN h THEN h[r.key].count ELSE 0
  <2>1. hosts[i].id \in DOMAIN own <=> hosts[i].id \in DOMAIN h
    BY RemoteHostResolves
  <2>2. hosts[i].id \in DOMAIN own => own[hosts[i].id] = h[hosts[i].id]
    OBVIOUS
  <2> HIDE DEF own
  <2> QED
    BY <1>1, <2>1, <2>2 DEF ManagedRow, Rows, RemoteIds
<1>3. ASSUME NEW k \in K
      PROVE  LET r == AdHocRow(hosts, h, k)
             IN  r \in Rows(hosts, h) /\ r.key = k /\ r.count = h[k].count
  BY DEF AdHocRow, Rows
<1>4. ASSUME NEW k \in DOMAIN h, Managed(hosts, k)
      PROVE  k \in RemoteIds(hosts)
  <2> DEFINE i == ResolveToken(hosts, k)
  <2>1. Fold[k] = k /\ HistoryKey(hosts, k) = k
    BY KeyIsFolded DEF IsHistory, OwnKeys
  <2>2. i \in DOMAIN hosts /\ ~hosts[i].local
    BY <1>4, ResolveTokenType DEF Managed
  <2>3. hosts[i].id = k
    BY <1>4, <2>1, <2>2 DEF HistoryKey, Managed
  <2> QED
    BY <2>2, <2>3 DEF RemoteIds, Remote, ValidMesh
<1>5. ASSUME NEW r \in Rows(hosts, h)
      PROVE  \/ \E i \in Remote(hosts) : r = ManagedRow(hosts, h, i)
             \/ \E k \in K : r = AdHocRow(hosts, h, k)
  BY DEF Rows
<1>6. ASSUME NEW r \in Rows(hosts, h)
      PROVE  /\ r.key \in DOMAIN h \cup RemoteIds(hosts)
             /\ r.count = IF r.key \in DOMAIN h THEN h[r.key].count ELSE 0
  BY <1>2, <1>3, <1>5
<1>7. ASSUME NEW k \in DOMAIN h \cup RemoteIds(hosts)
      PROVE  \E r \in Rows(hosts, h) : r.key = k
  <2>1. CASE k \in RemoteIds(hosts)
    BY <1>2, <2>1 DEF RemoteIds
  <2>2. CASE k \notin RemoteIds(hosts)
    BY <1>3, <1>4, <2>2
  <2> QED
    BY <2>1, <2>2
<1> QED
  BY <1>6, <1>7

\* A list that has a row for every key of a history, and no key twice, counts as
\* many connections as the history, if every row counts what its key does.
LEMMA SameTotal ==
    ASSUME NEW h, IsHistory(h), NEW shown,
           \A p, q \in DOMAIN shown : shown[p].key = shown[q].key => p = q,
           \A p \in DOMAIN shown :
               shown[p].count = IF shown[p].key \in DOMAIN h THEN h[shown[p].key].count ELSE 0,
           \A k \in DOMAIN h : \E p \in DOMAIN shown : shown[p].key = k
    PROVE  Total(shown) = Total(h)
<1> DEFINE C == ConnectionsIn(h)
           D == ConnectionsIn(shown)
           PlaceOf(k) == CHOOSE p \in DOMAIN shown : shown[p].key = k
           f == [c \in C |-> <<PlaceOf(c[1]), c[2]>>]
<1>1. IsFiniteSet(C)
  BY TotalType
<1>2. \A k \in DOMAIN h : PlaceOf(k) \in DOMAIN shown /\ shown[PlaceOf(k)].key = k
  OBVIOUS
<1> HIDE DEF PlaceOf
<1>3. ASSUME NEW c \in C
      PROVE  c[1] \in DOMAIN h /\ c[2] \in 1 .. h[c[1]].count /\ c = <<c[1], c[2]>>
  BY ConnectionIsPair
<1>4. ASSUME NEW d \in D
      PROVE  /\ d = <<d[1], d[2]>> /\ d[1] \in DOMAIN shown
             /\ shown[d[1]].key \in DOMAIN h /\ <<shown[d[1]].key, d[2]>> \in C
  <2>1. PICK p \in DOMAIN shown : \E n \in 1 .. shown[p].count : d = <<p, n>>
    BY ConnectionIsPair
  <2>2. PICK i \in 1 .. shown[p].count : d = <<p, i>>
    BY <2>1
  <2>3. shown[p].key \in DOMAIN h
    <3>1. SUFFICES ASSUME shown[p].key \notin DOMAIN h PROVE FALSE
      OBVIOUS
    <3>2. shown[p].count = 0
      BY <3>1
    <3> QED
      BY <2>2, <3>2
  <2>4. <<shown[p].key, i>> \in C
    BY <2>2, <2>3, ConnectionIsPair
  <2> QED
    BY <2>2, <2>3, <2>4
<1>5. ASSUME NEW c \in C PROVE f[c] \in D
  <2>1. /\ c[1] \in DOMAIN h /\ PlaceOf(c[1]) \in DOMAIN shown
        /\ c[2] \in 1 .. shown[PlaceOf(c[1])].count
    BY <1>2, <1>3
  <2> QED
    BY <2>1, ConnectionIsPair
<1>6. ASSUME NEW b \in C, NEW c \in C, f[b] = f[c] PROVE b = c
  <2>1. PlaceOf(b[1]) = PlaceOf(c[1]) /\ b[2] = c[2]
    BY <1>6
  <2>2. b[1] = c[1]
    BY <1>2, <1>3, <2>1
  <2> QED
    BY <1>3, <2>1, <2>2
<1>7. ASSUME NEW d \in D PROVE \E c \in C : f[c] = d
  <2> DEFINE c == <<shown[d[1]].key, d[2]>>
  <2>1. c \in C /\ c[1] = shown[d[1]].key /\ c[2] = d[2]
    BY <1>4
  <2>2. PlaceOf(c[1]) = d[1]
    BY <1>2, <1>4, <2>1
  <2>3. f[c] = d
    BY <1>4, <2>1, <2>2
  <2> QED
    BY <2>1, <2>3
<1>8. f \in Bijection(C, D)
  <2>1. f \in [C -> D]
    BY <1>5
  <2> HIDE DEF f
  <2> QED
    BY <1>6, <1>7, <2>1 DEF Bijection, Injection, IsInjective, Surjection
<1> QED
  BY <1>1, <1>8, FS_Bijection DEF ExistsBijection, Total

\* new-selection finds the only row with the key.
LEMMA SelectionFinds ==
    ASSUME NEW shown, \A p, q \in DOMAIN shown : shown[p].key = shown[q].key => p = q,
           DOMAIN shown \subseteq Nat \ {0},
           NEW info, \A j, k \in info : j = k
    PROVE  /\ NewSelection(shown, info) \in DOMAIN shown \cup {0}
           /\ \A p \in DOMAIN shown : shown[p].key \in info => NewSelection(shown, info) = p
<1> DEFINE places == {p \in DOMAIN shown : shown[p].key \in info}
<1>1. \A p, q \in places : p = q
  OBVIOUS
<1>2. CASE places = {}
  BY <1>2 DEF NewSelection
<1>3. CASE places # {}
  <2>1. PICK p \in places : TRUE
    BY <1>3
  <2>2. \E r \in places : \A q \in places : r <= q
    BY <1>1, <2>1
  <2>3. NewSelection(shown, info) \in places
    BY <1>3, <2>2 DEF NewSelection
  <2> QED
    BY <1>1, <2>3
<1> QED
  BY <1>2, <1>3

-------------------------------------------------------------------------------
(***************************************************************************)
(* What a callback can rely on.                                            *)
(***************************************************************************)
\* A key of the callback is the one that was highlighted, under the action that
\* the window still holds, since the window does not change while it waits.
Handed ==
    /\ place \notin Callbacks => press = NewWindow
    /\ press.retv = "initial" => press = NewWindow
    /\ press.retv # "initial" => press.data = data /\ press.info = Highlighted

\* How far the callback has come: with a valid configuration, on Enter under a
\* known action, and with a row that was found again.
Progress ==
    /\ place \in {"select", "act", "render"} => ValidMesh(mesh)
    /\ place \in {"select", "act"} => press.retv = "enter" /\ press.data \in Actions
    /\ place = "act" => \A k \in press.info : k \in RemoteIds(mesh) \/ ~Managed(mesh, k)

\* What Rofi lists are rows of different hosts.
Listed ==
    /\ DOMAIN rows = 1 .. Len(rows) /\ Len(rows) \in Nat
    /\ \A p \in DOMAIN rows : IsRow(rows[p])
    /\ \A p, q \in DOMAIN rows : rows[p].key = rows[q].key => p = q

IInv == TypeOK /\ Handed /\ Progress /\ Listed /\ NewestFirst

\* No window, no row.
LEMMA NothingListed ==
    ASSUME rows' = <<>>
    PROVE  Listed' /\ NewestFirst'
  BY DEF Listed, NewestFirst

LEMMA InitIInv == Init => IInv
<1> SUFFICES ASSUME Init PROVE IInv
  OBVIOUS
<1>1. IsHistory(history)
  BY PickerAssumption DEF Init
<1>2. TypeOK
  BY <1>1 DEF Init, TypeOK, Places, NewWindow, Keypresses, Actions
<1>3. Handed /\ Progress
  BY DEF Init, Handed, Progress, Callbacks, NewWindow
<1>4. Listed /\ NewestFirst
  BY DEF Init, Listed, NewestFirst
<1> QED
  BY <1>2, <1>3, <1>4 DEF IInv

\* At most one row is highlighted, and its key is a key.
LEMMA OneHighlighted ==
    ASSUME TypeOK
    PROVE  Highlighted \in SUBSET Keys /\ \A j, k \in Highlighted : j = k
  BY DEF TypeOK, Highlighted

\* The user and the file: the callback, if any, is not concerned.
LEMMA OpenKeeps == ASSUME IInv, Open PROVE IInv'
<1>1. TypeOK'
  BY DEF Open, callbackVars, IInv, TypeOK, Places, Callbacks
<1>2. press = NewWindow /\ place' = "load" /\ UNCHANGED <<rows, cursor, data, press, mesh>>
  BY DEF Open, callbackVars, IInv, Handed, Callbacks
<1>3. Handed' /\ Progress'
  BY <1>2 DEF Handed, Progress, Callbacks, NewWindow
<1> QED
  BY <1>1, <1>2, <1>3 DEF IInv, Listed, NewestFirst

LEMMA MoveKeeps == ASSUME IInv, Move \/ Upgrade PROVE IInv'
<1>1. /\ place = "shown" /\ cursor' \in Nat \ {0} /\ data' \in Actions \cup {"alien"}
      /\ UNCHANGED <<history, config, place, rows, delim, press, mesh, label, started>>
  <2>1. DOMAIN rows \subseteq Nat \ {0} /\ cursor \in Nat \ {0} /\ data \in Actions \cup {"alien"}
    BY DEF IInv, Listed, TypeOK
  <2> QED
    BY <2>1 DEF Move, Upgrade, callbackVars
<1>2. TypeOK'
  BY <1>1 DEF IInv, TypeOK
<1>3. Handed' /\ Progress'
  <2>1. press = NewWindow
    BY <1>1 DEF IInv, Handed, Callbacks
  <2> QED
    BY <1>1, <2>1 DEF Handed, Progress, NewWindow
<1> QED
  BY <1>1, <1>2, <1>3 DEF IInv, Listed, NewestFirst

LEMMA PressKeeps == ASSUME IInv, Press PROVE IInv'
<1>1. PICK retv \in Keypresses \ {"initial"} :
         press' = [retv |-> retv, data |-> data, info |-> Highlighted]
  BY DEF Press
<1>2. place' = "load" /\ UNCHANGED <<history, config, rows, cursor, data, delim, mesh, label, started>>
  BY DEF Press
<1>3. TypeOK'
  BY <1>1, <1>2, OneHighlighted DEF IInv, TypeOK, Places, Callbacks
<1>4. Handed' /\ Progress'
  <2>1. Highlighted' = Highlighted
    BY <1>2 DEF Highlighted
  <2> QED
    BY <1>1, <1>2, <2>1 DEF Handed, Progress, Callbacks
<1> QED
  BY <1>2, <1>3, <1>4 DEF IInv, Listed, NewestFirst

\* Rofi ends the window.
LEMMA CloseKeeps ==
    ASSUME IInv, Close, IsHistory(history'), UNCHANGED config,
           \A t \in started' : t \in [managed : BOOLEAN, name : Keys]
    PROVE  IInv'
<1>1. /\ place' = "closed" /\ rows' = <<>> /\ cursor' = 1 /\ data' = "connect" /\ delim' = "LF"
      /\ press' = NewWindow /\ mesh' = NoMesh /\ label' = "connect"
  BY DEF Close, Return
<1>2. TypeOK'
  BY <1>1 DEF IInv, TypeOK, Places, NewWindow, Keypresses, Actions
<1>3. Handed' /\ Progress'
  BY <1>1 DEF Handed, Progress, Callbacks, NewWindow
<1> QED
  BY <1>1, <1>2, <1>3, NothingListed DEF IInv

LEMMA EnvironmentKeeps == ASSUME IInv, Edit \/ Others PROVE IInv'
<1>1. config' \in Configs /\ UNCHANGED <<windowVars, callbackVars, started>>
  BY DEF Edit, Others, IInv, TypeOK
<1>2. IsHistory(history')
  <2>1. CASE Edit
    BY <2>1 DEF Edit, IInv, TypeOK
  <2>2. CASE Others
    <3>1. PICK hosts \in Configs :
             LET read == StateFromPayload(hosts, history)
             IN  \/ history' = read
                 \/ \E k \in DOMAIN read : history' = Without(read, k)
                 \/ \E s \in Keys, at \in Times :
                       history' = AddSuccess(read, HistoryKey(hosts, s), at)
      BY <2>2 DEF Others
    <3> DEFINE read == StateFromPayload(hosts, history)
    <3>2. (hosts = NoMesh \/ ValidMesh(hosts)) /\ IsRows(history)
      BY PickerAssumption, HistoryIsRows DEF IInv, TypeOK
    <3>3. IsHistory(read)
      BY <3>2, StateFromPayloadType
    <3> HIDE DEF read
    <3>4. \A s \in Keys : HistoryKey(hosts, s) \in Keys
      BY <3>2, HistoryKeyType, KeyIsFolded
    <3>5. CASE history' = read
      BY <3>3, <3>5
    <3>6. CASE \E k \in DOMAIN read : history' = Without(read, k)
      BY <3>3, <3>6, WithoutType
    <3>7. CASE \E s \in Keys, at \in Times : history' = AddSuccess(read, HistoryKey(hosts, s), at)
      BY <3>3, <3>4, <3>7, AddSuccessType, PickerAssumption
    <3> QED
      BY <3>1, <3>5, <3>6, <3>7 DEF read
  <2> QED
    BY <2>1, <2>2
<1>3. UNCHANGED <<place, rows, cursor, data, delim, press, mesh, label, started>>
  BY <1>1 DEF windowVars, callbackVars
<1>4. TypeOK'
  BY <1>1, <1>2, <1>3 DEF IInv, TypeOK
<1>5. Handed' /\ Progress'
  BY <1>3 DEF IInv, Handed, Progress, Highlighted
<1> QED
  BY <1>3, <1>4, <1>5 DEF IInv, Listed, NewestFirst

\* What a callback reads is a history.
LEMMA LoadedType ==
    ASSUME TypeOK, ValidMesh(mesh)
    PROVE  IsHistory(Loaded)
  BY StateFromPayloadType, HistoryIsRows DEF TypeOK, Loaded

\* A callback that goes on leaves the window alone: what it was handed still holds.
LEMMA GoesOn ==
    ASSUME IInv, place \in Callbacks, place' \in Callbacks,
           UNCHANGED <<config, rows, cursor, data, delim, press, started>>,
           IsHistory(history'), mesh' \in Configs \cup {NoMesh}, label' \in Actions
    PROVE  TypeOK' /\ Handed' /\ Listed' /\ NewestFirst'
<1>1. TypeOK'
  BY DEF IInv, TypeOK, Places
<1>2. Handed'
  BY DEF IInv, Handed, Highlighted
<1> QED
  BY <1>1, <1>2 DEF IInv, Listed, NewestFirst

LEMMA LoadKeeps == ASSUME IInv, LoadMesh PROVE IInv'
<1>1. /\ place \in Callbacks /\ place' \in {"select", "render"}
      /\ UNCHANGED <<config, rows, cursor, data, delim, press, started, history>>
      /\ mesh' = config /\ config # NoMesh /\ label' \in Actions
      /\ place' = "select" => press.retv = "enter" /\ press.data \in Actions
  BY DEF LoadMesh, Dispatch, Callbacks, Cycle, Continued, Actions
<1>2. ValidMesh(mesh') /\ mesh' \in Configs /\ IsHistory(history')
  BY <1>1, PickerAssumption DEF IInv, TypeOK
<1>3. TypeOK' /\ Handed' /\ Listed' /\ NewestFirst'
  BY <1>1, <1>2, GoesOn DEF Callbacks
<1>4. Progress'
  BY <1>1, <1>2 DEF Progress
<1> QED
  BY <1>3, <1>4 DEF IInv

LEMMA RefuseKeeps == ASSUME IInv, RefuseMesh PROVE IInv'
<1>1. /\ place' \in {"shown", "garbled"} /\ rows' = <<>>
      /\ press' = NewWindow /\ mesh' = NoMesh /\ label' = "connect"
      /\ UNCHANGED <<history, config, cursor, data, delim, started>>
  BY DEF RefuseMesh, Return
<1>2. TypeOK'
  BY <1>1 DEF IInv, TypeOK, Places, NewWindow, Keypresses, Actions
<1>3. Handed' /\ Progress'
  BY <1>1 DEF Handed, Progress, Callbacks, NewWindow
<1> QED
  BY <1>1, <1>2, <1>3, NothingListed DEF IInv

LEMMA SelectKeeps == ASSUME IInv, Select PROVE IInv'
<1>1. /\ place = "select" /\ place' \in {"act", "render"} /\ history' = Loaded
      /\ place' = "act" => press.info \subseteq KeysOf(Rows(mesh, Loaded))
      /\ UNCHANGED <<config, rows, cursor, data, delim, press, mesh, label, started>>
  BY DEF Select, Readings, callbackVars
<1>2. ValidMesh(mesh) /\ IsHistory(Loaded) /\ press.retv = "enter" /\ press.data \in Actions
  BY <1>1, LoadedType DEF IInv, Progress
<1>3. TypeOK' /\ Handed' /\ Listed' /\ NewestFirst'
  <2>1. mesh' \in Configs \cup {NoMesh} /\ label' \in Actions
    BY <1>1 DEF IInv, TypeOK
  <2> QED
    BY <1>1, <1>2, <2>1, GoesOn DEF Callbacks
<1>4. place' = "act" => \A k \in press.info : k \in RemoteIds(mesh) \/ ~Managed(mesh, k)
  BY <1>1, <1>2, RowsAreHosts DEF KeysOf
<1>5. Progress'
  <2>1. RemoteIds(mesh)' = RemoteIds(mesh) /\ \A k : Managed(mesh, k)' = Managed(mesh, k)
    BY <1>1
  <2> QED
    BY <1>1, <1>2, <1>4, <2>1 DEF Progress
<1> QED
  BY <1>3, <1>5 DEF IInv

\* The task of a row that was found again names that very row.
LEMMA TaskIsRow ==
    ASSUME IInv, place = "act", NEW key \in press.info
    PROVE  /\ TaskFor(key).name = key /\ key \in Keys
           /\ TaskFor(key) \in [managed : BOOLEAN, name : Keys]
           /\ TaskFor(key).managed <=> key \in RemoteIds(mesh)
           /\ HistoryKey(mesh, TaskFor(key).name) = key
           /\ {key} = Highlighted
<1>1. /\ ValidMesh(mesh) /\ press.retv = "enter" /\ press.data \in Actions
      /\ press.info = Highlighted /\ (key \in RemoteIds(mesh) \/ ~Managed(mesh, key))
  BY DEF IInv, Progress, Handed
<1>2. key \in Keys /\ {key} = Highlighted /\ Fold[key] = key
  BY <1>1, OneHighlighted, KeyIsFolded DEF IInv
<1>3. CASE key \in RemoteIds(mesh)
  <2>1. PICK i \in Remote(mesh) : mesh[i].id = key
    BY <1>3 DEF RemoteIds
  <2>2. Managed(mesh, key) /\ ResolveToken(mesh, key) = i /\ ~mesh[i].local /\ i # 0
    BY <1>1, <2>1, RemoteHostResolves DEF Managed
  <2> QED
    BY <1>2, <1>3, <2>1, <2>2 DEF TaskFor, HistoryKey
<1>4. CASE key \notin RemoteIds(mesh)
  BY <1>1, <1>2, <1>4 DEF TaskFor, HistoryKey, Managed
<1> QED
  BY <1>2, <1>3, <1>4

LEMMA ConnectKeeps == ASSUME IInv, Connect PROVE IInv'
<1>1. PICK key \in press.info : started' = {TaskFor(key)}
  BY DEF Connect
<1>2. TaskFor(key) \in [managed : BOOLEAN, name : Keys]
  BY <1>1, TaskIsRow DEF Connect
<1>3. IsHistory(history') /\ UNCHANGED config /\ Close
  BY DEF Connect, IInv, TypeOK
<1> QED
  BY <1>1, <1>2, <1>3, CloseKeeps

\* An action that is over, done or not, shows the list again.
LEMMA ActedKeeps ==
    ASSUME IInv, NotLaunched \/ LaunchFails \/ Forget \/ ForgetFails
    PROVE  IInv'
<1>1. /\ place = "act" /\ place' = "render"
      /\ UNCHANGED <<config, rows, cursor, data, delim, press, mesh, started>>
      /\ label' \in Actions
  BY DEF NotLaunched, LaunchFails, Forget, ForgetFails, callbackVars, IInv, TypeOK, Actions
<1>2. ValidMesh(mesh) /\ IsHistory(Loaded) /\ mesh \in Configs \cup {NoMesh}
  BY <1>1, LoadedType DEF IInv, Progress, TypeOK
<1>3. IsHistory(history')
  <2>1. CASE UNCHANGED history
    BY <2>1 DEF IInv, TypeOK
  <2>2. CASE \E key \in press.info : history' = Without(Loaded, HistoryKey(mesh, TaskFor(key).name))
    BY <2>2, <1>2, WithoutType
  <2> QED
    BY <2>1, <2>2 DEF NotLaunched, LaunchFails, Forget, ForgetFails, Readings
<1>4. TypeOK' /\ Handed' /\ Listed' /\ NewestFirst'
  BY <1>1, <1>2, <1>3, GoesOn DEF Callbacks
<1>5. Progress'
  BY <1>1, <1>2 DEF Progress
<1> QED
  BY <1>4, <1>5 DEF IInv

\* The rows that a callback shows, and where its cursor ends up.
LEMMA RenderShows ==
    ASSUME IInv, Render
    PROVE  /\ Listed' /\ NewestFirst' /\ cursor' \in Nat \ {0}
           /\ press.retv # "initial" =>
                 \A p \in DOMAIN rows' : rows'[p].key \in press.info => cursor' = p
<1> DEFINE S == Rows(mesh, Loaded)
<1>1. rows' = SortRows(S) /\ cursor' = NewCursor(rows')
  BY DEF Render, Readings
<1>2. IsRowSet(S) /\ \A r, s \in S : r.managed /\ s.managed /\ r.place = s.place => r = s
  <2>1. ValidMesh(mesh)
    BY DEF Render, IInv, Progress
  <2> QED
    BY <2>1, LoadedType, RowsAreHosts DEF IInv
<1> HIDE DEF S
<1>3. /\ DOMAIN rows' = 1 .. Len(rows') /\ Len(rows') \in Nat
      /\ \A p \in DOMAIN rows' : rows'[p] \in S
      /\ \A p, q \in DOMAIN rows' : rows'[p].key = rows'[q].key => p = q
      /\ \A p, q \in DOMAIN rows' : p < q => RowPrecedes(rows'[p], rows'[q])
  BY <1>1, <1>2, SortingLists
<1>4. Listed'
  BY <1>2, <1>3 DEF Listed, IsRowSet
<1>5. NewestFirst'
  <2>1. SUFFICES ASSUME NEW p \in DOMAIN rows', NEW q \in DOMAIN rows', p < q
                 PROVE  /\ rows'[p].last >= rows'[q].last
                        /\ rows'[p].last = rows'[q].last /\ rows'[p].managed /\ rows'[q].managed =>
                              rows'[p].place < rows'[q].place
    BY DEF NewestFirst
  <2>2. RowPrecedes(rows'[p], rows'[q]) /\ IsRow(rows'[p]) /\ IsRow(rows'[q])
        /\ ~(rows'[p].managed /\ rows'[q].managed /\ rows'[p].place = rows'[q].place)
    BY <1>2, <1>3, <2>1 DEF IsRowSet
  <2> DEFINE r == rows'[p]
             s == rows'[q]
  <2>3. /\ RowPrecedes(r, s) /\ IsRow(r) /\ IsRow(s)
        /\ ~(r.managed /\ s.managed /\ r.place = s.place)
    BY <2>2
  <2> HIDE DEF r, s
  <2>4. r.last >= s.last
    BY <2>3 DEF RowPrecedes, Rank, IsRow
  <2>5. r.last = s.last /\ r.managed /\ s.managed => r.place < s.place
    BY <2>3 DEF RowPrecedes, Rank, IsRow
  <2> QED
    BY <2>4, <2>5 DEF r, s
<1>6. press.retv # "initial" => \A j, k \in press.info : j = k
  BY OneHighlighted DEF IInv, Handed
<1>7. DOMAIN rows' \subseteq Nat \ {0}
  BY <1>3
<1>8. press.retv # "initial" =>
         /\ NewSelection(rows', press.info) \in DOMAIN rows' \cup {0}
         /\ \A p \in DOMAIN rows' :
               rows'[p].key \in press.info => NewSelection(rows', press.info) = p
  BY <1>3, <1>6, <1>7, SelectionFinds
<1>9. cursor' \in Nat \ {0}
  <2>1. cursor \in Nat \ {0} /\ (rows' # <<>> => Len(rows') # 0)
    <3>1. rows' \in Seq(S)
      BY <1>1, <1>2, SortingLists
    <3> QED
      BY <3>1 DEF IInv, TypeOK
  <2> QED
    BY <1>1, <1>3, <1>7, <1>8, <2>1 DEF NewCursor
<1>10. press.retv # "initial" =>
          \A p \in DOMAIN rows' : rows'[p].key \in press.info => cursor' = p
  BY <1>1, <1>3, <1>7, <1>8 DEF NewCursor
<1> QED
  BY <1>4, <1>5, <1>9, <1>10

LEMMA RenderKeeps == ASSUME IInv, Render PROVE IInv'
<1>1. /\ place' \in {"shown", "garbled"} /\ data' = label /\ history' = Loaded
      /\ delim' \in {"TAB", delim} /\ UNCHANGED <<config, started>>
      /\ press' = NewWindow /\ mesh' = NoMesh /\ label' = "connect"
  BY DEF Render, Return, Readings
<1>2. IsHistory(history') /\ cursor' \in Nat \ {0} /\ Listed' /\ NewestFirst'
  BY <1>1, LoadedType, RenderShows DEF IInv, Progress, Render
<1>3. TypeOK'
  BY <1>1, <1>2 DEF IInv, TypeOK, Places, NewWindow, Keypresses, Actions, Listed, IsRow
<1>4. Handed' /\ Progress'
  BY <1>1 DEF Handed, Progress, Callbacks, NewWindow
<1> QED
  BY <1>2, <1>3, <1>4 DEF IInv

LEMMA EndKeeps == ASSUME IInv, Escape \/ Dies PROVE IInv'
<1>1. Close /\ IsHistory(history') /\ UNCHANGED <<config, started>>
  BY DEF Escape, Dies, IInv, TypeOK
<1> QED
  BY <1>1, CloseKeeps DEF IInv, TypeOK

LEMMA StutterKeeps == ASSUME IInv, UNCHANGED pickerVars PROVE IInv'
<1>1. UNCHANGED <<history, config, place, rows, cursor, data, delim, press, mesh, label, started>>
  BY DEF pickerVars, windowVars, callbackVars
<1>2. TypeOK'
  BY <1>1 DEF IInv, TypeOK
<1>3. Handed' /\ Progress'
  BY <1>1 DEF IInv, Handed, Progress, Highlighted
<1> QED
  BY <1>1, <1>2, <1>3 DEF IInv, Listed, NewestFirst

\* In every state the list is sorted, and a callback works on the row the user saw.
THEOREM Invariance == Spec => []IInv
<1>1. IInv /\ [Next]_pickerVars => IInv'
  BY OpenKeeps, MoveKeeps, PressKeeps, EndKeeps, LoadKeeps, RefuseKeeps, SelectKeeps, ConnectKeeps,
     ActedKeeps, RenderKeeps, EnvironmentKeeps, StutterKeeps DEF Next, User, Callback, Errors
<1> QED
  BY InitIInv, <1>1, PTL DEF Spec

\* Whatever the user presses and whoever changes the files, the state of the
\* window and of the callback is well formed.
THEOREM TypeCorrect == Spec => []TypeOK
<1>1. IInv => TypeOK
  BY DEF IInv
<1> QED
  BY Invariance, <1>1, PTL

\* The list is always in the documented order.
THEOREM ListIsSorted == Spec => []NewestFirst
<1>1. IInv => NewestFirst
  BY DEF IInv
<1> QED
  BY Invariance, <1>1, PTL

\* What a callback lists accounts for the history it loaded: a row for every host
\* of the mesh and of the history, none twice, and every connection counted once,
\* however the hosts were named when they were recorded (_rows of protocol.py).
THEOREM ListAccountsForHistory == Spec => RowsAccountForHistory
<1>1. IInv /\ [Next]_pickerVars =>
         [place = "render" /\ place' # "closed" /\ place' # "render"
             => AccountsForHistory]_pickerVars
  <2>1. SUFFICES ASSUME IInv, Next, place = "render", place' # "closed", place' # "render"
                 PROVE  AccountsForHistory
    OBVIOUS
  <2>2. Render
    BY <2>1 DEF Next, User, Callback, Errors, Open, Move, Press, Escape, Upgrade, LoadMesh,
       RefuseMesh, Select, Connect, NotLaunched, LaunchFails, Forget, ForgetFails, Dies, Edit,
       Others, Close, windowVars
  <2> DEFINE S == Rows(mesh, Loaded)
  <2>3. history' = Loaded /\ rows' = SortRows(S)
    BY <2>2 DEF Render, Readings
  <2>4. ValidMesh(mesh) /\ IsHistory(Loaded) /\ OwnKeys(mesh, Loaded)
    BY <2>1, HistoryIsRows, ReadIsOwn DEF IInv, Progress, TypeOK, Loaded
  <2>5. IsRowSet(S)
    BY <2>4, RowsAreHosts
  <2>6. /\ \A r \in S : /\ r.key \in DOMAIN Loaded \cup RemoteIds(mesh)
                        /\ r.count = IF r.key \in DOMAIN Loaded THEN Loaded[r.key].count ELSE 0
        /\ \A k \in DOMAIN Loaded \cup RemoteIds(mesh) : \E r \in S : r.key = k
    BY <2>4, RowsCount
  <2> HIDE DEF S
  <2>7. /\ \A p \in DOMAIN rows' : rows'[p] \in S
        /\ \A r \in S : \E p \in DOMAIN rows' : rows'[p] = r
        /\ \A p, q \in DOMAIN rows' : rows'[p].key = rows'[q].key => p = q
    BY <2>3, <2>5, SortingLists
  <2>8. \A p \in DOMAIN rows' :
           rows'[p].count = IF rows'[p].key \in DOMAIN Loaded THEN Loaded[rows'[p].key].count ELSE 0
    BY <2>6, <2>7
  <2>9. \A k \in DOMAIN Loaded \cup RemoteIds(mesh) : \E p \in DOMAIN rows' : rows'[p].key = k
    BY <2>6, <2>7
  <2>10. Total(rows') = Total(history')
    BY <2>3, <2>4, <2>7, <2>8, <2>9, SameTotal
  <2> QED
    BY <2>3, <2>6, <2>7, <2>9, <2>10 DEF AccountsForHistory
<1> QED
  BY Invariance, <1>1, PTL DEF Spec, RowsAccountForHistory

\* The row that was highlighted stays highlighted across a callback.
THEOREM SelectionIsKept == Spec => SelectionStays
<1>1. IInv /\ [Next]_pickerVars =>
         [place = "render" /\ place' = "shown" /\ press.retv # "initial" =>
             \A p \in DOMAIN rows' : rows'[p].key \in press.info => cursor' = p]_pickerVars
  <2>1. ASSUME Next, place = "render", place' = "shown"
        PROVE  Render
    BY <2>1 DEF Next, User, Callback, Errors, Open, Move, Press, Escape, Upgrade, LoadMesh,
       RefuseMesh, Select, Connect, NotLaunched, LaunchFails, Forget, ForgetFails, Dies, Edit,
       Others, Close, windowVars
  <2> QED
    BY <2>1, RenderShows
<1> QED
  BY Invariance, <1>1, PTL DEF Spec, SelectionStays

\* Only Enter under Connect starts a worker, and the worker is for the host that
\* was highlighted, whatever happened since it was shown.
THEOREM WorkerIsForHighlighted == Spec => EnterActsOnHighlighted
<1>1. IInv /\ [Next]_pickerVars =>
         [\A t \in started' \ started :
             /\ press.retv = "enter" /\ data = "connect"
             /\ {t.name} = Highlighted
             /\ t.managed <=> t.name \in RemoteIds(mesh)]_pickerVars
  <2>1. SUFFICES ASSUME IInv, Next, NEW t \in started' \ started
                 PROVE  /\ press.retv = "enter" /\ data = "connect"
                        /\ {t.name} = Highlighted
                        /\ t.managed <=> t.name \in RemoteIds(mesh)
    OBVIOUS
  <2>2. Connect
    BY <2>1 DEF Next, User, Callback, Errors, Open, Move, Press, Escape, Upgrade, LoadMesh,
       RefuseMesh, Select, NotLaunched, LaunchFails, Forget, ForgetFails, Render, Dies, Edit, Others
  <2>3. PICK key \in press.info : t = TaskFor(key)
    BY <2>1, <2>2 DEF Connect
  <2>4. /\ place = "act" /\ press.data = "connect" /\ press.retv = "enter"
        /\ press.data = data
    BY <2>1, <2>2 DEF Connect, IInv, Progress, Handed
  <2> QED
    BY <2>1, <2>3, <2>4, TaskIsRow
<1> QED
  BY Invariance, <1>1, PTL DEF Spec, EnterActsOnHighlighted

\* What a callback does to the history is what reading it does, but for the
\* highlighted host when Forget is confirmed.
THEOREM ForgetIsExact == Spec => ForgetTouchesOneRow
<1>1. IInv /\ [Next]_pickerVars =>
         [place' # place /\ history' # history =>
             \A k \in DOMAIN Loaded :
                 \/ k \in DOMAIN history' /\ history'[k] = Loaded[k]
                 \/ press.retv = "enter" /\ data = "forget" /\ {k} = Highlighted]_pickerVars
  <2>1. SUFFICES ASSUME IInv, Next, place' # place, history' # history, NEW k \in DOMAIN Loaded
                 PROVE  \/ k \in DOMAIN history' /\ history'[k] = Loaded[k]
                        \/ press.retv = "enter" /\ data = "forget" /\ {k} = Highlighted
    OBVIOUS
  <2>2. Select \/ Render \/ Forget
    BY <2>1 DEF Next, User, Callback, Errors, Open, Move, Press, Escape, Upgrade, LoadMesh,
       RefuseMesh, Connect, NotLaunched, LaunchFails, ForgetFails, Dies, Edit, Others, windowVars
  <2>3. CASE Select \/ Render
    BY <2>3 DEF Select, Render, Readings
  <2>4. CASE Forget
    <3>1. PICK key \in press.info :
             history' = Without(Loaded, HistoryKey(mesh, TaskFor(key).name))
      BY <2>4 DEF Forget, Readings
    <3>2. /\ place = "act" /\ press.data = "forget" /\ press.retv = "enter" /\ press.data = data
      BY <2>1, <2>4 DEF Forget, IInv, Progress, Handed
    <3>3. HistoryKey(mesh, TaskFor(key).name) = key /\ {key} = Highlighted
      BY <2>1, <3>2, TaskIsRow
    <3>4. CASE k = key
      BY <3>2, <3>3, <3>4
    <3>5. CASE k # key
      BY <3>1, <3>3, <3>5 DEF Without
    <3> QED
      BY <3>4, <3>5
  <2> QED
    BY <2>2, <2>3, <2>4
<1> QED
  BY Invariance, <1>1, PTL DEF Spec, ForgetTouchesOneRow
-------------------------------------------------------------------------------
(***************************************************************************)
(* The history as the picker changes it.  A history variable collects the  *)
(* books there have been; with it the picker, the workers and the other    *)
(* pickers beside it are seen to keep to the operations of UsageLedger,    *)
(* which is what StateStore implements.  No machine stops here, so no book *)
(* comes back and the settled ones never matter.                           *)
(***************************************************************************)
VARIABLE books

BookOf(h) == [started |-> TRUE, rows |-> h]

Ledger == INSTANCE UsageLedger
    WITH book <- BookOf(history), settled <- books, Meshes <- Configs, Targets <- Keys,
         Imports <- {}, UnreadableBooks <- FALSE

InitBooks == Init /\ books = {BookOf(history)}
NextBooks == Next /\ books' = books \cup {BookOf(history')}
SpecBooks == InitBooks /\ [][NextBooks]_<<pickerVars, books>>

\* The operators of the ledger are those of the picker.
LEMMA SameKeys == \A hosts, s : Ledger!HistoryKey(hosts, s) = HistoryKey(hosts, s)
  BY DEF Ledger!HistoryKey, HistoryKey, Ledger!ResolveToken, ResolveToken,
         Ledger!Matches, Matches, Ledger!Identities, Identities

LEMMA SameTrim ==
    /\ \A S : Ledger!Cardinality(S) = Cardinality(S)
    /\ \A h : Ledger!Trim(h) = Trim(h)
<1>1. \A S : Ledger!Cardinality(S) = Cardinality(S)
  BY DEF Ledger!Cardinality, Cardinality
<1> QED
  BY <1>1 DEF Ledger!Trim, Trim, Ledger!Kept, Kept, Ledger!Outranks, Outranks

LEMMA SameReading ==
    \A hosts, h : Ledger!StateFromPayload(hosts, h) = StateFromPayload(hosts, h)
<1>1. \A hosts, h, k : Ledger!RowsOf(hosts, h, k) = RowsOf(hosts, h, k)
  BY SameKeys DEF Ledger!RowsOf, RowsOf
<1>2. \A n : Ledger!PositiveInt(n) = PositiveInt(n)
  BY DEF Ledger!PositiveInt, PositiveInt
<1>3. \A n : Ledger!NonnegativeInt(n) = NonnegativeInt(n)
  BY DEF Ledger!NonnegativeInt, NonnegativeInt
<1>4. \A times : Ledger!Latest(times) = Latest(times)
  BY DEF Ledger!Latest, Latest
<1>5. \A hosts, h, k : Ledger!Connections(hosts, h, k) = Connections(hosts, h, k)
  BY <1>1, <1>2 DEF Ledger!Connections, Connections
<1>6. \A hosts, h : Ledger!Merge(hosts, h) = Merge(hosts, h)
  BY <1>1, <1>3, <1>4, <1>5, SameKeys, SameTrim DEF Ledger!Merge, Merge
<1> QED
  BY <1>6, SameTrim DEF Ledger!StateFromPayload, StateFromPayload

LEMMA SameUpdates ==
    /\ \A h, k, at : Ledger!AddSuccess(h, k, at) = AddSuccess(h, k, at)
    /\ \A h, k : Ledger!Without(h, k) = Without(h, k)
    /\ \A h : Ledger!IsRows(h) <=> IsRows(h)
<1>1. \A h, k, at : Ledger!AddSuccess(h, k, at) = AddSuccess(h, k, at)
  BY SameTrim DEF Ledger!AddSuccess, AddSuccess, Ledger!Success, Success
<1>2. \A h, k : Ledger!Without(h, k) = Without(h, k)
  BY DEF Ledger!Without, Without
<1>3. \A h : Ledger!IsRows(h) <=> IsRows(h)
  BY DEF Ledger!IsRows, IsRows
<1> QED
  BY <1>1, <1>2, <1>3

\* What a step may make of the history, under a configuration of its process.
Reread(hosts) == history' = StateFromPayload(hosts, history)
Forgets(hosts) ==
    \E k \in Keys : history' = Without(StateFromPayload(hosts, history), HistoryKey(hosts, k))
Records(hosts) ==
    \E k \in Keys, at \in Times :
        history' = AddSuccess(StateFromPayload(hosts, history), HistoryKey(hosts, k), at)

\* Each of them is a step of the ledger; to forget a host that the history does not
\* have is only to read it.
LEMMA OperationOfLedger ==
    ASSUME NEW hosts \in Configs, books' = books \cup {BookOf(history')},
           Reread(hosts) \/ Forgets(hosts) \/ Records(hosts)
    PROVE  Ledger!LedgerNext
<1> DEFINE read == StateFromPayload(hosts, history)
<1>1. /\ Ledger!StateFromPayload(hosts, BookOf(history).rows) = read
      /\ read \in Ledger!Readings(hosts) /\ BookOf(history).started
  BY SameReading DEF BookOf, Ledger!Readings
<1>2. Ledger!Write(history')
  BY DEF Ledger!Write, Ledger!Started, BookOf
<1> HIDE DEF read
<1>3. CASE history' = read
  <2>1. Ledger!Refold
    BY <1>1, <1>2, <1>3 DEF Ledger!Refold
  <2> QED
    BY <2>1 DEF Ledger!LedgerNext
<1>4. ASSUME NEW k \in Keys, history' = Without(read, HistoryKey(hosts, k))
      PROVE  Ledger!LedgerNext
  <2>1. CASE HistoryKey(hosts, k) \in DOMAIN read
    <3>1. Ledger!Forget
      BY <1>1, <1>2, <1>4, <2>1, SameKeys, SameUpdates DEF Ledger!Forget
    <3> QED
      BY <3>1 DEF Ledger!LedgerNext
  <2>2. CASE HistoryKey(hosts, k) \notin DOMAIN read
    <3>1. read = [j \in DOMAIN read |-> read[j]]
      BY DEF read, StateFromPayload, Trim
    <3>2. Without(read, HistoryKey(hosts, k)) = read
      BY <2>2, <3>1 DEF Without
    <3> QED
      BY <1>3, <1>4, <3>2
  <2> QED
    BY <2>1, <2>2
<1>5. ASSUME NEW k \in Keys, NEW at \in Times,
             history' = AddSuccess(read, HistoryKey(hosts, k), at)
      PROVE  Ledger!LedgerNext
  <2>1. Ledger!RecordSuccess
    BY <1>1, <1>2, <1>5, SameKeys, SameUpdates DEF Ledger!RecordSuccess
  <2> QED
    BY <2>1 DEF Ledger!LedgerNext
<1> QED
  BY <1>3, <1>4, <1>5 DEF Reread, Forgets, Records, read

\* Every step of the picker, and of those beside it, is one of them or none.
LEMMA StepOfHistory ==
    ASSUME IInv, Next
    PROVE  \/ UNCHANGED history
           \/ \E hosts \in Configs : Reread(hosts) \/ Forgets(hosts) \/ Records(hosts)
<1>1. CASE Select \/ Render \/ Forget
  <2>1. mesh \in Configs
    BY <1>1 DEF Select, Render, Forget, IInv, Progress, TypeOK, ValidMesh, NoMesh
  <2>2. CASE Select \/ Render
    BY <2>1, <2>2 DEF Select, Render, Readings, Loaded, Reread
  <2>3. CASE Forget
    <3>1. PICK key \in press.info : history' = Without(Loaded, HistoryKey(mesh, TaskFor(key).name))
      BY <2>3 DEF Forget, Readings
    <3>2. TaskFor(key).name \in Keys
      BY <2>3, TaskIsRow DEF Forget
    <3>3. Forgets(mesh)
      BY <3>1, <3>2 DEF Forgets, Loaded
    <3> QED
      BY <2>1, <3>3
  <2> QED
    BY <1>1, <2>2, <2>3
<1>2. CASE Others
  <2>1. PICK hosts \in Configs :
           LET read == StateFromPayload(hosts, history)
           IN  \/ history' = read
               \/ \E k \in DOMAIN read : history' = Without(read, k)
               \/ \E s \in Keys, at \in Times :
                     history' = AddSuccess(read, HistoryKey(hosts, s), at)
    BY <1>2 DEF Others
  <2> DEFINE read == StateFromPayload(hosts, history)
  <2>2. IsHistory(read) /\ OwnKeys(hosts, read)
    BY PickerAssumption, HistoryIsRows, ReadIsOwn DEF IInv, TypeOK
  <2> HIDE DEF read
  <2>3. ASSUME NEW k \in DOMAIN read, history' = Without(read, k) PROVE Forgets(hosts)
    <3>1. k \in Keys /\ HistoryKey(hosts, k) = k
      BY <2>2 DEF IsHistory, OwnKeys
    <3> QED
      BY <2>3, <3>1 DEF Forgets, read
  <2>4. (\E s \in Keys, at \in Times : history' = AddSuccess(read, HistoryKey(hosts, s), at))
           => Records(hosts)
    BY DEF Records, read
  <2>5. history' = read => Reread(hosts)
    BY DEF Reread, read
  <2>6. Reread(hosts) \/ Forgets(hosts) \/ Records(hosts)
    BY <2>1, <2>3, <2>4, <2>5 DEF read
  <2> QED
    BY <2>6
<1>3. ASSUME ~(Select \/ Render \/ Forget \/ Others) PROVE UNCHANGED history
  BY <1>3 DEF Next, User, Callback, Errors, Open, Move, Press, Escape, Upgrade, LoadMesh,
              RefuseMesh, Connect, NotLaunched, LaunchFails, ForgetFails, Dies, Edit
<1> QED
  BY <1>1, <1>2, <1>3

\* The picker, and all that runs beside it, changes the history by whole operations
\* of the ledger and by nothing else: what the store implements is what it relies on.
THEOREM PickerKeepsToLedger == SpecBooks => Ledger!LedgerSpec
<1> DEFINE Noted == BookOf(history) \in books
<1>1. SpecBooks => []IInv
  <2>1. [NextBooks]_<<pickerVars, books>> => [Next]_pickerVars
    BY DEF NextBooks
  <2>2. SpecBooks => Spec
    BY <2>1, PTL DEF SpecBooks, InitBooks, Spec
  <2> QED
    BY <2>2, Invariance, PTL
<1>2. InitBooks => Noted /\ Ledger!LedgerInit
  <2> SUFFICES ASSUME InitBooks PROVE Noted /\ Ledger!LedgerInit
    OBVIOUS
  <2>1. IsRows(history) /\ books = {BookOf(history)}
    BY PickerAssumption, HistoryIsRows DEF InitBooks, Init
  <2>2. Ledger!IsBook(BookOf(history))
    BY <2>1, SameUpdates DEF Ledger!IsBook, BookOf
  <2> QED
    BY <2>1, <2>2 DEF Ledger!LedgerInit
<1>3. Noted /\ [NextBooks]_<<pickerVars, books>> => Noted'
  <2> SUFFICES ASSUME Noted, [NextBooks]_<<pickerVars, books>> PROVE BookOf(history') \in books'
    BY DEF BookOf
  <2> QED
    BY DEF NextBooks, pickerVars
<1>4. IInv /\ Noted /\ [NextBooks]_<<pickerVars, books>>
         => [Ledger!LedgerNext]_(Ledger!ledgerVars)
  <2> SUFFICES ASSUME IInv, Noted, [NextBooks]_<<pickerVars, books>>
               PROVE  Ledger!LedgerNext \/ UNCHANGED Ledger!ledgerVars
    OBVIOUS
  <2>1. CASE UNCHANGED <<pickerVars, books>>
    BY <2>1 DEF pickerVars, BookOf, Ledger!ledgerVars
  <2>2. CASE NextBooks /\ UNCHANGED history
    BY <2>2 DEF NextBooks, BookOf, Ledger!ledgerVars
  <2>3. CASE NextBooks /\ \E hosts \in Configs : Reread(hosts) \/ Forgets(hosts) \/ Records(hosts)
    BY <2>3, OperationOfLedger DEF NextBooks
  <2> QED
    BY <2>1, <2>2, <2>3, StepOfHistory DEF NextBooks
<1>5. SpecBooks => []Noted
  BY <1>2, <1>3, PTL DEF SpecBooks
<1> QED
  BY <1>1, <1>2, <1>4, <1>5, PTL DEF SpecBooks, Ledger!LedgerSpec

===============================================================================
