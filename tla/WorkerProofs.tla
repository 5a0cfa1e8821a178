----------------------------- MODULE WorkerProofs -----------------------------
(***************************************************************************)
(* Theorems about the order of routes and about the workers, for any       *)
(* number of them, any configurations and any mix of faults.               *)
(***************************************************************************)
EXTENDS Worker, HistoryProofs

-------------------------------------------------------------------------------
\* The order in which routes are recommended is a total one.
LEMMA PrecedesOrders ==
    ASSUME NEW D, NEW k \in Nat, NEW m \in Nat, NEW n \in Nat
    PROVE  /\ ~Precedes(D, n, n)
           /\ m # n => Precedes(D, m, n) \/ Precedes(D, n, m)
           /\ Precedes(D, k, m) /\ Precedes(D, m, n) => Precedes(D, k, n)
  BY DEF Precedes

\* A later route has a greater place.
LEMMA PlaceGrows ==
    ASSUME NEW D, NEW len \in Nat, NEW m \in 1 .. len, NEW n \in 1 .. len
    PROVE  /\ Place(D, len, n) \in 1 .. len
           /\ Precedes(D, m, n) => Place(D, len, m) < Place(D, len, n)
<1> DEFINE Before(x) == {y \in 1 .. len : Precedes(D, y, x)}
<1>1. ASSUME NEW x \in 1 .. len
      PROVE  IsFiniteSet(Before(x)) /\ Cardinality(Before(x)) \in Nat
  <2>1. Before(x) \subseteq 1 .. len /\ IsFiniteSet(1 .. len)
    BY FS_Interval
  <2> QED
    BY <2>1, FS_Subset, FS_CardinalityType
<1>2. Place(D, len, m) = Cardinality(Before(m)) + 1 /\ Place(D, len, n) = Cardinality(Before(n)) + 1
  BY DEF Place
<1>3. Cardinality(Before(n)) <= len - 1
  <2>1. Before(n) \subseteq (1 .. len) \ {n}
    BY PrecedesOrders
  <2>2. IsFiniteSet(1 .. len) /\ Cardinality(1 .. len) = len
    BY FS_Interval
  <2>3. IsFiniteSet((1 .. len) \ {n}) /\ Cardinality((1 .. len) \ {n}) = len - 1
    BY <2>2, FS_RemoveElement
  <2> QED
    BY <2>1, <2>3, FS_Subset
<1>4. ASSUME Precedes(D, m, n)
      PROVE  Cardinality(Before(m)) < Cardinality(Before(n))
  <2>1. Before(m) \subseteq Before(n) /\ m \in Before(n) /\ m \notin Before(m)
    BY <1>4, PrecedesOrders
  <2>2. Before(m) \subseteq Before(n) \ {m}
    BY <2>1
  <2> HIDE DEF Before
  <2>3. Cardinality(Before(n) \ {m}) = Cardinality(Before(n)) - 1 /\ IsFiniteSet(Before(n) \ {m})
    BY <1>1, <2>1, FS_RemoveElement
  <2>4. Cardinality(Before(m)) <= Cardinality(Before(n) \ {m})
    BY <2>2, <2>3, FS_Subset
  <2> QED
    BY <1>1, <2>3, <2>4
<1> HIDE DEF Before
<1> QED
  BY <1>1, <1>2, <1>3, <1>4

\* Every place is that of one route.
LEMMA EveryPlaceTaken ==
    ASSUME NEW D, NEW len \in Nat, NEW p \in 1 .. len
    PROVE  \E n \in 1 .. len : Place(D, len, n) = p
<1> DEFINE S == 1 .. len
           f == [n \in S |-> Place(D, len, n)]
<1>1. SUFFICES ASSUME \A n \in S : Place(D, len, n) # p PROVE FALSE
  OBVIOUS
<1>2. f \in [S -> S \ {p}]
  BY <1>1, PlaceGrows
<1>3. IsFiniteSet(S) /\ Cardinality(S) = len
  BY FS_Interval
<1>4. IsFiniteSet(S \ {p}) /\ Cardinality(S \ {p}) = len - 1
  BY <1>3, FS_RemoveElement
<1>5. PICK m, n \in S : m # n /\ f[m] = f[n]
  <2>1. Cardinality(S \ {p}) < Cardinality(S)
    BY <1>3, <1>4
  <2> HIDE DEF f, S
  <2> QED
    BY <1>2, <1>3, <1>4, <2>1, FS_PigeonHole
<1>6. Place(D, len, m) = Place(D, len, n)
  BY <1>5
<1>7. Precedes(D, m, n) \/ Precedes(D, n, m)
  BY <1>5, PrecedesOrders
<1>8. Place(D, len, m) \in Nat
  BY PlaceGrows
<1> QED
  BY <1>6, <1>7, <1>8, PlaceGrows

\* The routes of the i-th host that are demoted.
DemotedOf(c, i, rows, now) ==
    {n \in 1 .. Len(c.hosts[i].routes) :
        Demoted(c, HealthOf(rows, <<c.hosts[i].id, Fold[c.hosts[i].routes[n]]>>), now)}

\* A permutation that puts what is demoted last, and otherwise changes nothing.
IsOrder(order, len, demoted) ==
    /\ order \in [1 .. len -> 1 .. len]
    /\ \A p, q \in 1 .. len : order[p] = order[q] => p = q
    /\ \A n \in 1 .. len : \E p \in 1 .. len : order[p] = n
    /\ \A p, q \in 1 .. len : p < q => Precedes(demoted, order[p], order[q])

\* Recommending routes only reorders them: each declared route is recommended
\* once, so that a worker that goes on long enough tries them all; those that are
\* demoted come last, and otherwise the order of the file stands.
THEOREM RecommendingReorders ==
    ASSUME NEW c, NEW i, NEW rows, NEW now, c.hosts[i].routes \in Seq(Spellings)
    PROVE  LET routes == c.hosts[i].routes
               recommended == RoutesFor(c, i, rows, now)
           IN  /\ recommended \in Seq(Spellings)
               /\ Len(recommended) = Len(routes)
               /\ \E order : /\ IsOrder(order, Len(routes), DemotedOf(c, i, rows, now))
                             /\ \A p \in 1 .. Len(routes) : recommended[p] = routes[order[p]]
<1> DEFINE routes == c.hosts[i].routes
           len == Len(routes)
           S == 1 .. len
           D == DemotedOf(c, i, rows, now)
           order == [p \in S |-> CHOOSE n \in S : Place(D, len, n) = p]
           recommended == RoutesFor(c, i, rows, now)
<1>0. len \in Nat
  OBVIOUS
<1>1. recommended = [p \in S |-> routes[order[p]]]
  BY DEF RoutesFor, DemotedOf
<1> HIDE DEF D
<1>2. \A p \in S : order[p] \in S /\ Place(D, len, order[p]) = p
  BY <1>0, EveryPlaceTaken
<1>3. order \in [S -> S]
  BY <1>2
<1>4. ASSUME NEW n \in S PROVE \E p \in S : order[p] = n
  <2> DEFINE p == Place(D, len, n)
  <2>1. p \in S
    BY <1>0, PlaceGrows
  <2>2. order[p] \in S /\ Place(D, len, order[p]) = Place(D, len, n)
    BY <1>2, <2>1
  <2> HIDE DEF order
  <2>3. order[p] = n
    <3>1. SUFFICES ASSUME order[p] # n PROVE FALSE
      OBVIOUS
    <3>2. Precedes(D, order[p], n) \/ Precedes(D, n, order[p])
      BY <2>2, <3>1, PrecedesOrders
    <3>3. Place(D, len, n) \in Nat
      BY <2>1
    <3> QED
      BY <1>0, <2>2, <3>2, <3>3, PlaceGrows
  <2> QED
    BY <2>1, <2>3
<1> HIDE DEF order
<1>5. \A p, q \in S : order[p] = order[q] => p = q
  BY <1>2
<1>6. \A p \in S : routes[order[p]] \in Spellings
  BY <1>2
<1>7. recommended \in Seq(Spellings) /\ Len(recommended) = len
  BY <1>0, <1>1, <1>6
<1>8. \A p \in S : recommended[p] = routes[order[p]]
  BY <1>1
<1>9. ASSUME NEW p \in S, NEW q \in S, p < q
      PROVE  Precedes(D, order[p], order[q])
  <2>1. order[p] \in S /\ Place(D, len, order[p]) = p /\ order[q] \in S /\ Place(D, len, order[q]) = q
    BY <1>2
  <2>2. ~Precedes(D, order[q], order[p])
    BY <1>0, <1>9, <2>1, PlaceGrows
  <2>3. order[p] # order[q]
    BY <1>5, <1>9
  <2> QED
    BY <1>0, <2>1, <2>2, <2>3, PrecedesOrders
<1>10. IsOrder(order, len, D)
  BY <1>3, <1>4, <1>5, <1>9 DEF IsOrder
<1> QED
  BY <1>7, <1>8, <1>10 DEF D

\* What is recommended is declared.
LEMMA RecommendsDeclared ==
    ASSUME NEW c, NEW i, NEW rows, NEW now, c.hosts[i].routes \in Seq(Spellings)
    PROVE  LET routes == c.hosts[i].routes
               recommended == RoutesFor(c, i, rows, now)
           IN  /\ recommended \in Seq(Spellings)
               /\ Len(recommended) = Len(routes)
               /\ \A p \in DOMAIN recommended :
                     \E n \in DOMAIN routes : recommended[p] = routes[n]
<1> DEFINE routes == c.hosts[i].routes
           recommended == RoutesFor(c, i, rows, now)
<1>1. recommended \in Seq(Spellings) /\ Len(recommended) = Len(routes)
  BY RecommendingReorders
<1>2. PICK order : /\ IsOrder(order, Len(routes), DemotedOf(c, i, rows, now))
                   /\ \A p \in 1 .. Len(routes) : recommended[p] = routes[order[p]]
  BY RecommendingReorders
<1> HIDE DEF recommended, routes
<1>3. DOMAIN recommended = 1 .. Len(routes) /\ DOMAIN routes = 1 .. Len(routes)
  BY <1>1 DEF routes
<1>4. \A p \in DOMAIN recommended : order[p] \in DOMAIN routes /\ recommended[p] = routes[order[p]]
  BY <1>2, <1>3 DEF IsOrder
<1> QED
  BY <1>1, <1>4 DEF recommended, routes

-------------------------------------------------------------------------------
(***************************************************************************)
(* Types.  The books keep theirs because what is read, recorded, forgotten *)
(* or refolded is a history again; a candidate is a spelling because       *)
(* recommending only reorders the routes of the host.                      *)
(***************************************************************************)
IsHistoryBook(b) == IsBook(b) /\ b.started /\ IsHistory(b.rows)

\* What a worker or a picker reads is a history.
LEMMA ReadingsType ==
    ASSUME TypeOK, NEW m \in Meshes, NEW read \in Readings(m)
    PROVE  IsHistory(read)
<1>1. (m = NoMesh \/ ValidMesh(m)) /\ IsRows(book.rows)
  BY WorkerAssumption, HistoryIsRows DEF TypeOK
<1>2. IsHistory(StateFromPayload(m, book.rows))
  BY <1>1, StateFromPayloadType
<1> QED
  BY <1>2, EmptyType DEF Readings

\* Writing a history keeps the books.
LEMMA WriteType ==
    ASSUME TypeOK, NEW rows, IsHistory(rows), Write(rows)
    PROVE  \A b \in (settled \cup {book})' : IsHistoryBook(b)
<1>1. IsHistoryBook(Started(rows))
  BY HistoryIsRows DEF IsHistoryBook, IsBook, Started
<1> QED
  BY <1>1 DEF Write, TypeOK, IsHistoryBook

\* So does every operation of the pickers.
LEMMA PickersType ==
    ASSUME TypeOK, Pickers
    PROVE  \A b \in (settled \cup {book})' : IsHistoryBook(b)
<1>1. CASE Refold
  <2>1. PICK m \in Meshes : Write(StateFromPayload(m, book.rows))
    BY <1>1 DEF Refold
  <2>2. IsHistory(StateFromPayload(m, book.rows))
    BY ReadingsType DEF Readings
  <2> QED
    BY <2>1, <2>2, WriteType
<1>2. CASE Forget
  <2>1. PICK m \in Meshes : \E s \in Targets, read \in Readings(m) :
            Write(Without(read, HistoryKey(m, s)))
    BY <1>2 DEF Forget
  <2>2. PICK s \in Targets, read \in Readings(m) : Write(Without(read, HistoryKey(m, s)))
    BY <2>1
  <2>3. IsHistory(Without(read, HistoryKey(m, s)))
    BY ReadingsType, WithoutType
  <2> QED
    BY <2>2, <2>3, WriteType
<1> QED
  BY <1>1, <1>2 DEF Pickers

\* The key under which a worker records is a history key.
LEMMA RecordKeyType ==
    ASSUME TypeOK, NEW w \in Workers
    PROVE  HistoryKey(mesh[w], task[w].name) \in Keys
<1>1. mesh[w] \in Meshes /\ task[w].name \in Keys
  BY WorkerAssumption DEF TypeOK, IsTask
<1> QED
  BY <1>1, WorkerAssumption, HistoryKeyType, KeyIsFolded

\* And the success that a worker records.
LEMMA RecordType ==
    ASSUME TypeOK, NEW w \in Workers, Record(w)
    PROVE  \A b \in (settled \cup {book})' : IsHistoryBook(b)
<1>1. PICK read \in Readings(mesh[w]), at \in Times :
          Write(AddSuccess(read, HistoryKey(mesh[w], task[w].name), at))
  BY DEF Record
<1>2. mesh[w] \in Meshes /\ at \in Nat
  BY WorkerAssumption DEF TypeOK
<1>3. IsHistory(AddSuccess(read, HistoryKey(mesh[w], task[w].name), at))
  BY <1>2, RecordKeyType, ReadingsType, AddSuccessType
<1> QED
  BY <1>1, <1>3, WriteType

\* The place of a host that is found by its id is one of the mesh.
LEMMA HostByIdType ==
    ASSUME NEW m, ValidMesh(m), NEW id, HostById(m, id) # 0
    PROVE  HostById(m, id) \in DOMAIN m /\ m[HostById(m, id)] \in Hosts
<1> DEFINE named == {i \in DOMAIN m : m[i].id = Fold[id]}
<1>1. m \in Seq(Hosts) /\ named # {}
  BY DEF HostById, ValidMesh
<1>2. \E i \in named : \A j \in named : i <= j
  BY <1>1 DEF ValidMesh, CollisionFree
<1>3. HostById(m, id) \in named
  BY <1>1, <1>2 DEF HostById
<1> QED
  BY <1>1, <1>3

\* What a managed worker is given to try: the routes of the host as the file has
\* them, in some order, and at least one.
LEMMA CandidatesOf ==
    ASSUME TypeOK, NEW w \in Workers, StartManaged(w)
    PROVE  LET routes == config.hosts[HostById(config.hosts, task[w].name)].routes
           IN  /\ candidates'[w] \in Seq(Spellings)
               /\ Len(candidates'[w]) = Len(routes) /\ Len(routes) >= 1
               /\ \A p \in DOMAIN candidates'[w] :
                     \E n \in DOMAIN routes : candidates'[w][p] = routes[n]
<1> DEFINE i == HostById(config.hosts, task[w].name)
           routes == config.hosts[i].routes
<1>1. ValidMesh(config.hosts) /\ i # 0 /\ ~config.hosts[i].local
  BY WorkerAssumption DEF TypeOK, StartManaged, Declares, IsConfig
<1>2. i \in DOMAIN config.hosts /\ config.hosts[i] \in Hosts
  BY <1>1, HostByIdType
<1>3. routes \in Seq(Spellings) /\ routes # <<>>
  BY <1>1, <1>2 DEF ValidMesh, Hosts
<1>4. PICK rows \in HealthFiles, now \in Times :
          candidates'[w] = RoutesFor(config, i, rows, now)
  BY DEF StartManaged, TypeOK
<1> HIDE DEF i
<1> DEFINE recommended == RoutesFor(config, i, rows, now)
<1>5. /\ recommended \in Seq(Spellings) /\ Len(recommended) = Len(routes)
      /\ \A p \in DOMAIN recommended : \E n \in DOMAIN routes : recommended[p] = routes[n]
  BY <1>3, RecommendsDeclared
<1>6. Len(routes) >= 1
  BY <1>3
<1> HIDE DEF recommended
<1> QED
  BY <1>4, <1>5, <1>6 DEF i, recommended

\* Every variable has its type at the start ...
LEMMA TypeInit == Init => TypeOK
<1> SUFFICES ASSUME Init PROVE TypeOK
  OBVIOUS
<1>1. IsHistoryBook(FirstBook)
  BY WorkerAssumption DEF IsHistoryBook
<1>2. \A b \in settled \cup {book} : IsBook(b) /\ b.started /\ IsHistory(b.rows)
  BY <1>1 DEF Init, IsHistoryBook
<1>3. Idle \in Tasks
  BY WorkerAssumption DEF Idle
<1> QED
  BY <1>2, <1>3, WorkerAssumption DEF Init, TypeOK, Places

\* ... and every step keeps the books ...
LEMMA BooksStep == TypeOK /\ [Next]_systemVars => \A b \in (settled \cup {book})' : IsHistoryBook(b)
<1> SUFFICES ASSUME TypeOK, [Next]_systemVars
             PROVE  \A b \in (settled \cup {book})' : IsHistoryBook(b)
  OBVIOUS
<1>1. \A b \in settled \cup {book} : IsHistoryBook(b)
  BY DEF TypeOK, IsHistoryBook
<1>2. CASE UNCHANGED <<book, settled>>
  BY <1>1, <1>2
<1>3. CASE Sync \/ MachineStops
  BY <1>1, <1>3 DEF Sync, Settle, MachineStops, PowerLoss
<1>4. CASE Pickers
  BY <1>4, PickersType
<1>5. CASE \E w \in Workers : Record(w)
  BY <1>5, RecordType
<1>6. CASE Edit \/ UNCHANGED systemVars
  BY <1>2, <1>6 DEF Edit, systemVars
<1>7. ASSUME NEW w \in Workers,
             \/ StartAdHoc(w) \/ StartManaged(w) \/ Decline(w) \/ Launch(w) \/ Probe(w)
             \/ RecordFails(w) \/ Kill(w) \/ \E t \in Tasks : Spawn(w, t)
      PROVE  UNCHANGED <<book, settled>>
  BY <1>7 DEF StartAdHoc, StartManaged, Decline, Launch, Probe, RecordFails, Kill, Spawn
<1> QED
  BY <1>2, <1>3, <1>4, <1>5, <1>6, <1>7 DEF Next, Step

-------------------------------------------------------------------------------
(***************************************************************************)
(* The course of a worker: what it has tried, heard and opened at each     *)
(* place.  A worker with one destination opens it first and probes after;  *)
(* one with several opens when one has answered, or none is left.          *)
(***************************************************************************)
Untouched(w) == candidates[w] = <<>> /\ tried[w] = 0 /\ ~reached[w] /\ opened[w] = <<>>
One(w) == Len(candidates[w]) = 1
OpensWell(w) ==
    \/ reached[w] /\ opened[w][1] = candidates[w][tried[w]]
    \/ ~reached[w] /\ tried[w] = Len(candidates[w]) /\ opened[w][1] = candidates[w][1]

Course(w) ==
    /\ tried[w] \in 0 .. Len(candidates[w]) /\ (reached[w] => tried[w] >= 1)
    /\ wpc[w] \in {"none", "start"} => Untouched(w)
    /\ wpc[w] \in {"launch", "probe", "record"} => Len(candidates[w]) >= 1
    /\ wpc[w] = "launch" => /\ opened[w] = <<>>
                            /\ tried[w] = 0 <=> One(w)
                            /\ One(w) \/ reached[w] \/ tried[w] = Len(candidates[w])
    /\ wpc[w] = "probe" => /\ ~reached[w] /\ tried[w] < Len(candidates[w])
                           /\ opened[w] # <<>> <=> One(w)
    /\ wpc[w] = "record" => reached[w] /\ (opened[w] # <<>> <=> One(w))
    /\ wpc[w] = "end" => candidates[w] = <<>> \/ opened[w] # <<>>
    /\ opened[w] # <<>> =>
          /\ Len(opened[w]) = 1
          /\ \E p \in DOMAIN candidates[w] : opened[w][1] = candidates[w][p]
          /\ One(w) \/ (wpc[w] \in {"end", "dead"} /\ OpensWell(w))
Courses == \A w \in Workers : Course(w)

\* What a worker opens is one of its candidates.
LEMMA ChosenIsCandidate ==
    ASSUME TypeOK, NEW w \in Workers, Course(w), wpc[w] = "launch"
    PROVE  Chosen(w) \in Spellings /\ \E p \in DOMAIN candidates[w] : Chosen(w) = candidates[w][p]
  BY DEF TypeOK, Course, Chosen

\* A probe is answered or it is not.
LEMMA ProbeHears ==
    ASSUME NEW w \in Workers, Probe(w)
    PROVE  \E answered \in BOOLEAN : reached' = [reached EXCEPT ![w] = answered]
<1>1. PICK outcome \in Outcomes : reached' = [reached EXCEPT ![w] = ClassifyProbe(outcome)]
  BY DEF Probe
<1>2. ClassifyProbe(outcome) \in BOOLEAN
  BY DEF ClassifyProbe
<1> QED
  BY <1>1, <1>2, Zenon

\* A worker that did not move keeps its course.
LEMMA Unmoved ==
    ASSUME NEW w \in Workers, Course(w),
           wpc'[w] = wpc[w], candidates'[w] = candidates[w], tried'[w] = tried[w],
           reached'[w] = reached[w], opened'[w] = opened[w]
    PROVE  Course(w)'
  BY DEF Course, Untouched, One, OpensWell

\* Every worker is on course at the start.
LEMMA CourseInit == Init => Courses
  BY DEF Init, Courses, Course, Untouched, One, OpensWell

\* Every step keeps the types.
LEMMA TypeStep == TypeOK /\ Courses /\ [Next]_systemVars => TypeOK'
<1> SUFFICES ASSUME TypeOK, Courses, [Next]_systemVars PROVE TypeOK'
  OBVIOUS
<1> DEFINE Rest == /\ config \in Configs
                   /\ task \in [Workers -> Tasks]
                   /\ wpc \in [Workers -> Places]
                   /\ mesh \in [Workers -> Meshes]
                   /\ candidates \in [Workers -> Seq(Spellings)]
                   /\ tried \in [Workers -> Nat]
                   /\ reached \in [Workers -> BOOLEAN]
                   /\ opened \in [Workers -> Seq(Spellings)]
                   /\ current \in [Workers -> SUBSET Configs]
<1>1. \A b \in (settled \cup {book})' : IsHistoryBook(b)
  BY BooksStep
<1>2. Rest
  BY DEF TypeOK
<1>3. ASSUME Edit PROVE Rest'
  BY <1>2, <1>3 DEF Edit
<1>4. ASSUME Pickers \/ Sync \/ UNCHANGED systemVars PROVE Rest'
  BY <1>2, <1>4 DEF Pickers, Sync, systemVars, workerVars
<1>5. ASSUME MachineStops PROVE Rest'
  BY <1>2, <1>5 DEF MachineStops, Places
<1>6. ASSUME NEW w \in Workers, NEW t \in Tasks, Spawn(w, t) PROVE Rest'
  BY <1>2, <1>6 DEF Spawn, Goto, Places
<1>7. ASSUME NEW w \in Workers, StartAdHoc(w) PROVE Rest'
  <2>1. task[w].name \in Spellings
    BY <1>2, WorkerAssumption, KeyIsFolded DEF IsTask
  <2> QED
    BY <1>2, <1>7, <2>1 DEF StartAdHoc, Goto, Places
<1>8. ASSUME NEW w \in Workers, StartManaged(w) PROVE Rest'
  <2>1. candidates'[w] \in Seq(Spellings)
    BY <1>8, CandidatesOf
  <2>2. \E x : candidates' = [candidates EXCEPT ![w] = x]
    BY <1>8 DEF StartManaged
  <2>3. candidates' \in [Workers -> Seq(Spellings)]
    BY <1>2, <2>1, <2>2
  <2>4. wpc' \in [Workers -> Places]
    BY <1>2, <1>8 DEF StartManaged, Goto, Places
  <2>5. mesh' \in [Workers -> Meshes]
    BY <1>2, <1>8, WorkerAssumption DEF StartManaged
  <2> QED
    BY <1>2, <1>8, <2>3, <2>4, <2>5 DEF StartManaged
<1>9. ASSUME NEW w \in Workers, Decline(w) \/ Kill(w) \/ Record(w) \/ RecordFails(w)
      PROVE  Rest'
  <2>1. AfterHistory(w) \in Places
    BY DEF AfterHistory, Places
  <2> QED
    BY <1>2, <1>9, <2>1 DEF Decline, Kill, Record, RecordFails, Goto, Places
<1>10. ASSUME NEW w \in Workers, Launch(w) PROVE Rest'
  <2>1. Chosen(w) \in Spellings
    BY <1>10, ChosenIsCandidate DEF Courses, Launch
  <2> QED
    BY <1>2, <1>10, <2>1 DEF Launch, Goto, Places
<1>11. ASSUME NEW w \in Workers, Probe(w) PROVE Rest'
  <2>1. \E place \in Places : wpc' = [wpc EXCEPT ![w] = place]
    BY <1>11 DEF Probe, Goto, AfterHistory, Places
  <2>2. wpc' \in [Workers -> Places] /\ tried' \in [Workers -> Nat]
    BY <1>2, <1>11, <2>1 DEF Probe
  <2>3. reached' \in [Workers -> BOOLEAN]
    BY <1>2, <1>11, ProbeHears
  <2> QED
    BY <1>2, <1>11, <2>2, <2>3 DEF Probe
<1>12. Rest'
  BY <1>3, <1>4, <1>5, <1>6, <1>7, <1>8, <1>9, <1>10, <1>11, <1>2 DEF Next, Step
<1> QED
  BY <1>1, <1>12 DEF TypeOK, IsHistoryBook

\* Every step keeps every worker on course.
LEMMA CourseStep == TypeOK /\ Courses /\ [Next]_systemVars => Courses'
<1> SUFFICES ASSUME TypeOK, Courses, [Next]_systemVars, NEW v \in Workers PROVE Course(v)'
  BY DEF Courses
<1>0. Course(v)
  BY DEF Courses
<1> DEFINE Moves(w) == /\ \A u \in Workers \ {w} : wpc'[u] = wpc[u]
                       /\ \A u \in Workers \ {w} : candidates'[u] = candidates[u]
                       /\ \A u \in Workers \ {w} : tried'[u] = tried[u]
                       /\ \A u \in Workers \ {w} : reached'[u] = reached[u]
                       /\ \A u \in Workers \ {w} : opened'[u] = opened[u]
<1>1. CASE Edit \/ Pickers \/ Sync \/ UNCHANGED systemVars
  BY <1>0, <1>1, Unmoved DEF Edit, Pickers, Sync, systemVars, workerVars
<1>2. CASE MachineStops
  <2>1. wpc'[v] = wpc[v] \/ (wpc'[v] = "dead" /\ wpc[v] \notin {"none", "end"})
    BY <1>2 DEF MachineStops
  <2> QED
    BY <1>0, <1>2, <2>1 DEF MachineStops, Course, Untouched, One, OpensWell
<1>3. ASSUME NEW w \in Workers,
             Step(w) \/ Kill(w) \/ \E t \in Tasks : Spawn(w, t),
             v # w
      PROVE  Course(v)'
  <2>1. Moves(w)
    <3> USE <1>3 DEF Goto, TypeOK
    <3>1. CASE StartAdHoc(w) \/ Decline(w) \/ Kill(w) \/ Record(w) \/ RecordFails(w)
      BY <3>1 DEF StartAdHoc, Decline, Kill, Record, RecordFails
    <3>2. CASE StartManaged(w)
      BY <3>2 DEF StartManaged
    <3>3. CASE Launch(w)
      BY <3>3 DEF Launch
    <3>4. CASE Probe(w)
      BY <3>4 DEF Probe
    <3>5. CASE \E t \in Tasks : Spawn(w, t)
      BY <3>5 DEF Spawn
    <3> QED
      BY <3>1, <3>2, <3>3, <3>4, <3>5 DEF Step
  <2> QED
    BY <1>0, <1>3, <2>1, Unmoved
<1>4. ASSUME NEW t \in Tasks, Spawn(v, t) PROVE Course(v)'
  BY <1>0, <1>4 DEF Spawn, Goto, TypeOK, Course, Untouched, One, OpensWell
<1>5. CASE StartAdHoc(v)
  <2>1. candidates'[v] = <<task[v].name>> /\ wpc'[v] = "launch"
    BY <1>5 DEF StartAdHoc, Goto, TypeOK
  <2> QED
    BY <1>0, <1>5, <2>1 DEF StartAdHoc, Course, Untouched, One, OpensWell
<1>6. CASE StartManaged(v)
  <2> DEFINE routes == config.hosts[HostById(config.hosts, task[v].name)].routes
  <2>1. candidates'[v] \in Seq(Spellings) /\ Len(candidates'[v]) >= 1
           /\ Len(candidates'[v]) = Len(routes)
    BY <1>6, CandidatesOf
  <2>2. wpc'[v] = IF Len(routes) = 1 THEN "launch" ELSE "probe"
    BY <1>6 DEF StartManaged, Goto, TypeOK
  <2>3. Untouched(v) /\ tried'[v] = tried[v] /\ reached'[v] = reached[v] /\ opened'[v] = opened[v]
    BY <1>0, <1>6 DEF StartManaged, Course
  <2> HIDE DEF routes
  <2> QED
    BY <2>1, <2>2, <2>3 DEF Course, Untouched, One, OpensWell
<1>7. CASE Decline(v) \/ Kill(v)
  <2>1. wpc'[v] = "dead" \/ (wpc'[v] = "end" /\ wpc[v] = "start")
    BY <1>7 DEF Decline, Kill, Goto, TypeOK
  <2> QED
    BY <1>0, <1>7, <2>1 DEF Decline, Kill, Course, Untouched, One, OpensWell
<1>8. CASE Launch(v)
  <2>1. /\ wpc'[v] = IF tried[v] = 0 THEN "probe" ELSE "end"
        /\ opened[v] = <<>> /\ opened'[v] = <<Chosen(v)>>
        /\ UNCHANGED <<candidates, tried, reached>>
    BY <1>0, <1>8 DEF Launch, Goto, TypeOK, Course
  <2>2. \E p \in DOMAIN candidates[v] : Chosen(v) = candidates[v][p]
    BY <1>0, <1>8, ChosenIsCandidate DEF Launch
  <2>3. opened'[v][1] = Chosen(v) /\ Len(opened'[v]) = 1 /\ opened'[v] # <<>>
    BY <2>1
  <2>4. wpc[v] = "launch" /\ candidates[v] \in Seq(Spellings)
    BY <1>8 DEF Launch, TypeOK
  <2> QED
    BY <1>0, <2>1, <2>2, <2>3, <2>4 DEF Course, Untouched, One, OpensWell, Chosen
<1>9. CASE Probe(v)
  <2>1. wpc'[v] = IF reached'[v] THEN "record"
                  ELSE IF tried'[v] < Len(candidates[v]) THEN "probe"
                  ELSE AfterHistory(v)
    <3>1. PICK outcome \in Outcomes :
            /\ reached' = [reached EXCEPT ![v] = ClassifyProbe(outcome)]
            /\ wpc' = [wpc EXCEPT ![v] = IF ClassifyProbe(outcome) THEN "record"
                                         ELSE IF tried'[v] < Len(candidates[v]) THEN "probe"
                                         ELSE AfterHistory(v)]
      BY <1>9 DEF Probe, Goto
    <3>2. reached'[v] = ClassifyProbe(outcome)
      BY <3>1 DEF TypeOK
    <3> QED
      BY <3>1, <3>2 DEF TypeOK
  <2>2. /\ tried'[v] = tried[v] + 1 /\ tried[v] \in Nat
        /\ UNCHANGED <<candidates, opened>> /\ wpc[v] = "probe"
        /\ candidates[v] \in Seq(Spellings)
    BY <1>9 DEF Probe, TypeOK
  <2>3. reached'[v] \in BOOLEAN
    BY <1>9, ProbeHears DEF TypeOK
  <2> QED
    BY <1>0, <2>1, <2>2, <2>3 DEF AfterHistory, Course, Untouched, One, OpensWell
<1>10. CASE Record(v) \/ RecordFails(v)
  <2>1. wpc[v] = "record" /\ wpc'[v] = AfterHistory(v) /\ UNCHANGED <<candidates, tried, reached, opened>>
    BY <1>10 DEF Record, RecordFails, Goto, TypeOK
  <2>2. candidates[v] \in Seq(Spellings) /\ tried[v] \in Nat
    BY DEF TypeOK
  <2> QED
    BY <1>0, <2>1, <2>2 DEF AfterHistory, Course, Untouched, One, OpensWell
<1> QED
  BY <1>1, <1>2, <1>3, <1>4, <1>5, <1>6, <1>7, <1>8, <1>9, <1>10 DEF Next, Step

\* Types and courses hold together.
LEMMA OnCourse == Spec => [](TypeOK /\ Courses)
  BY TypeInit, TypeStep, CourseInit, CourseStep, PTL DEF Spec

\* Every variable keeps its type.
THEOREM TypeCorrect == Spec => []TypeOK
  BY OnCourse, PTL

\* A host with one destination has its terminal before the probe; with several, it
\* has it when one of them answered, or when all were tried and none did.
THEOREM TerminalsOpenInTime == Spec => []OpensInTime
<1>1. ASSUME TypeOK, Courses PROVE OpensInTime
  <2>1. ASSUME NEW w \in Workers
        PROVE  /\ Len(candidates[w]) = 1 /\ wpc[w] # "launch" /\ wpc[w] # "dead" => opened[w] # <<>>
               /\ Len(candidates[w]) > 1 /\ opened[w] # <<>> => OpensWell(w)
    <3>1. Course(w) /\ wpc[w] \in Places /\ candidates[w] \in Seq(Spellings)
      BY <1>1 DEF TypeOK, Courses
    <3>2. candidates[w] = <<>> => Len(candidates[w]) = 0
      OBVIOUS
    <3> DEFINE n == Len(candidates[w])
    <3>3. ~(n > 1 /\ n = 1)
      <4> HIDE DEF n
      <4> QED
        OBVIOUS
    <3>4. wpc[w] \in {"none", "start"} => Len(candidates[w]) = 0
      BY <3>1, <3>2, Zenon DEF Course, Untouched
    <3> QED
      BY <3>1, <3>2, <3>3, <3>4 DEF Course, Untouched, One, Places
  <2> QED
    BY <2>1 DEF OpensInTime, OpensWell
<1> QED
  BY <1>1, OnCourse, PTL

-------------------------------------------------------------------------------
(***************************************************************************)
(* Where a terminal leads.  A worker that has not loaded the mesh yet has  *)
(* seen every configuration up to the one in force, and what it loads      *)
(* declares each of its candidates.                                        *)
(***************************************************************************)
Declared(w) ==
    /\ wpc[w] = "start" => config \in current[w]
    /\ \A p \in DOMAIN candidates[w] :
          \E c \in current[w] : Leads(task[w], c, candidates[w][p])
AllDeclared == \A w \in Workers : Declared(w)

\* What a worker loads declares what it goes on with.
LEMMA LoadsDeclared ==
    ASSUME TypeOK, NEW w \in Workers, Course(w), Declared(w), StartManaged(w)
    PROVE  Declared(w)'
<1> DEFINE routes == config.hosts[HostById(config.hosts, task[w].name)].routes
<1>1. \A p \in DOMAIN candidates'[w] : \E n \in DOMAIN routes : candidates'[w][p] = routes[n]
  BY CandidatesOf
<1>2. task[w].managed /\ Declares(config, task[w]) /\ config \in current[w]
  BY DEF StartManaged, Declared
<1>3. \A p \in DOMAIN candidates'[w] : Leads(task[w], config, candidates'[w][p])
  BY <1>1, <1>2 DEF Leads
<1>4. UNCHANGED <<task, current>> /\ wpc'[w] # "start"
  BY DEF StartManaged, Goto, TypeOK
<1> QED
  BY <1>2, <1>3, <1>4 DEF Declared

\* Every step keeps what a worker tries declared.
LEMMA DeclaredStep == TypeOK /\ Courses /\ AllDeclared /\ [Next]_systemVars => AllDeclared'
<1> SUFFICES ASSUME TypeOK, Courses, AllDeclared, [Next]_systemVars, NEW v \in Workers
             PROVE  Declared(v)'
  BY DEF AllDeclared
<1>0. Declared(v) /\ Course(v)
  BY DEF AllDeclared, Courses
<1>1. CASE Edit
  <2>1. current[v] \subseteq current'[v] /\ (wpc[v] = "start" => config' \in current'[v])
    BY <1>1 DEF Edit, TypeOK
  <2> QED
    BY <1>0, <1>1, <2>1 DEF Edit, Declared
<1>2. CASE Pickers \/ Sync \/ UNCHANGED systemVars
  BY <1>0, <1>2 DEF Pickers, Sync, systemVars, workerVars, Declared
<1>3. CASE MachineStops
  <2>1. wpc'[v] = "start" => wpc[v] = "start"
    BY <1>3 DEF MachineStops
  <2> QED
    BY <1>0, <1>3, <2>1 DEF MachineStops, Declared
<1>4. ASSUME NEW w \in Workers, NEW t \in Tasks, Spawn(w, t) PROVE Declared(v)'
  <2>1. CASE v = w
    <3>1. candidates'[v] = <<>> /\ config' = config /\ current'[v] = {config}
      BY <1>0, <1>4, <2>1 DEF Spawn, Course, Untouched, TypeOK
    <3> QED
      BY <3>1 DEF Declared
  <2>2. CASE v # w
    <3>1. wpc'[v] = wpc[v] /\ task'[v] = task[v] /\ current'[v] = current[v]
             /\ UNCHANGED <<config, candidates>>
      BY <1>4, <2>2 DEF Spawn, Goto, TypeOK
    <3> QED
      BY <1>0, <3>1 DEF Declared
  <2> QED
    BY <2>1, <2>2
<1>5. ASSUME NEW w \in Workers, StartAdHoc(w) PROVE Declared(v)'
  <2>1. UNCHANGED <<task, current, config>>
    BY <1>5 DEF StartAdHoc
  <2>2. CASE v = w
    <3>1. candidates'[v] = <<task[v].name>> /\ wpc'[v] = "launch" /\ ~task[v].managed
      BY <1>5, <2>2 DEF StartAdHoc, Goto, TypeOK
    <3>2. config \in current[v]
      BY <1>0, <1>5, <2>2 DEF StartAdHoc, Declared
    <3>3. \A p \in DOMAIN candidates'[v] : candidates'[v][p] = task[v].name
      BY <3>1
    <3> QED
      BY <2>1, <3>1, <3>2, <3>3 DEF Declared, Leads
  <2>3. CASE v # w
    <3>1. wpc'[v] = wpc[v] /\ candidates'[v] = candidates[v]
      BY <1>5, <2>3 DEF StartAdHoc, Goto, TypeOK
    <3> QED
      BY <1>0, <2>1, <3>1 DEF Declared
  <2> QED
    BY <2>2, <2>3
<1>6. ASSUME NEW w \in Workers, StartManaged(w) PROVE Declared(v)'
  <2>1. CASE v = w
    BY <1>0, <1>6, <2>1, LoadsDeclared
  <2>2. CASE v # w
    <3>1. wpc'[v] = wpc[v] /\ candidates'[v] = candidates[v] /\ UNCHANGED <<task, current, config>>
      BY <1>6, <2>2 DEF StartManaged, Goto, TypeOK
    <3> QED
      BY <1>0, <3>1 DEF Declared
  <2> QED
    BY <2>1, <2>2
<1>7. ASSUME NEW w \in Workers,
             Decline(w) \/ Launch(w) \/ Probe(w) \/ Record(w) \/ RecordFails(w) \/ Kill(w)
      PROVE  Declared(v)'
  <2>1. UNCHANGED <<task, current, config, candidates>>
    BY <1>7 DEF Decline, Launch, Probe, Record, RecordFails, Kill
  <2>2. \E place : place # "start" /\ wpc' = [wpc EXCEPT ![w] = place]
    BY <1>7 DEF Decline, Launch, Probe, Record, RecordFails, Kill, Goto, AfterHistory
  <2>3. wpc'[v] = "start" => wpc[v] = "start"
    BY <2>2 DEF TypeOK
  <2> QED
    BY <1>0, <2>1, <2>3 DEF Declared
<1> QED
  BY <1>1, <1>2, <1>3, <1>4, <1>5, <1>6, <1>7 DEF Next, Step

\* A worker opens at most one terminal, to the host that was chosen in the picker
\* as a configuration declares it that was in force since then.
THEOREM OpensOnlyTheChosenHost == Spec => []OneTerminalToChosenHost
<1>1. Init => AllDeclared
  BY DEF Init, AllDeclared, Declared
<1>2. TypeOK /\ Courses /\ AllDeclared => OneTerminalToChosenHost
  <2> SUFFICES ASSUME NEW w \in Workers, opened[w] \in Seq(Spellings), Course(w), Declared(w)
               PROVE  /\ Len(opened[w]) <= 1
                      /\ opened[w] # <<>> =>
                            \E c \in current[w] : Leads(task[w], c, opened[w][1])
    BY DEF TypeOK, Courses, AllDeclared, OneTerminalToChosenHost
  <2>1. Len(opened[w]) <= 1
    <3>1. opened[w] = <<>> => Len(opened[w]) = 0
      OBVIOUS
    <3>2. opened[w] # <<>> => Len(opened[w]) = 1
      BY DEF Course
    <3>3. Len(opened[w]) = 0 \/ Len(opened[w]) = 1
      BY <3>1, <3>2, Zenon
    <3> DEFINE n == Len(opened[w])
    <3>4. n = 0 \/ n = 1
      BY <3>3
    <3> HIDE DEF n
    <3>5. n <= 1
      BY <3>4
    <3> QED
      BY <3>5 DEF n
  <2>2. opened[w] # <<>> => \E p \in DOMAIN candidates[w] : opened[w][1] = candidates[w][p]
    BY DEF Course
  <2> QED
    BY <2>1, <2>2 DEF Declared
<1> QED
  BY <1>1, <1>2, OnCourse, DeclaredStep, PTL DEF Spec

-------------------------------------------------------------------------------
(***************************************************************************)
(* Why a worker ends without a destination: it declined, for the           *)
(* configuration in force did not declare its host or could not be read.   *)
(* A worker that has destinations does not end before it has opened one,   *)
(* which is its course.                                                    *)
(***************************************************************************)
Refused(w) ==
    wpc[w] = "end" /\ candidates[w] = <<>> =>
        /\ task[w].managed
        /\ LoadErrors \/ \E c \in current[w] : ~Declares(c, task[w])
AllRefused == \A w \in Workers : Refused(w)

\* Every step gives a worker that ends without a destination its reason.
LEMMA RefusedStep ==
    TypeOK /\ Courses /\ AllDeclared /\ AllRefused /\ [Next]_systemVars => AllRefused'
<1> SUFFICES ASSUME TypeOK, Courses, AllDeclared, AllRefused, [Next]_systemVars,
                    NEW v \in Workers, wpc'[v] = "end", candidates'[v] = <<>>
             PROVE  /\ task'[v].managed
                    /\ LoadErrors \/ \E c \in current'[v] : ~Declares(c, task'[v])
  BY DEF AllRefused, Refused
<1>0. Refused(v) /\ Course(v) /\ Declared(v) /\ candidates[v] \in Seq(Spellings)
  BY DEF AllRefused, Courses, AllDeclared, TypeOK
<1>1. ASSUME wpc[v] = "end", candidates[v] = <<>>, task'[v] = task[v], current[v] \subseteq current'[v]
      PROVE  /\ task'[v].managed
             /\ LoadErrors \/ \E c \in current'[v] : ~Declares(c, task'[v])
  BY <1>0, <1>1 DEF Refused
<1>2. CASE Edit
  BY <1>1, <1>2 DEF Edit, TypeOK
<1>3. CASE Pickers \/ Sync \/ UNCHANGED systemVars
  BY <1>1, <1>3 DEF Pickers, Sync, systemVars, workerVars
<1>4. CASE MachineStops
  <2>1. wpc[v] = "end"
    BY <1>4 DEF MachineStops
  <2> QED
    BY <1>1, <1>4, <2>1 DEF MachineStops
<1>5. ASSUME NEW w \in Workers, v # w, Step(w) \/ Kill(w) \/ \E t \in Tasks : Spawn(w, t)
      PROVE  /\ wpc[v] = "end" /\ candidates[v] = <<>>
             /\ task'[v] = task[v] /\ current[v] \subseteq current'[v]
  <2> USE <1>5 DEF Goto, TypeOK
  <2>1. CASE StartAdHoc(w) \/ Decline(w) \/ Kill(w) \/ Record(w) \/ RecordFails(w)
    BY <2>1 DEF StartAdHoc, Decline, Kill, Record, RecordFails
  <2>2. CASE StartManaged(w)
    BY <2>2 DEF StartManaged
  <2>3. CASE Launch(w) \/ Probe(w)
    BY <2>3 DEF Launch, Probe
  <2>4. CASE \E t \in Tasks : Spawn(w, t)
    BY <2>4 DEF Spawn
  <2> QED
    BY <2>1, <2>2, <2>3, <2>4 DEF Step
<1>6. CASE Decline(v)
  <2>1. task[v].managed /\ (LoadErrors \/ ~Declares(config, task[v])) /\ config \in current[v]
    BY <1>0, <1>6 DEF Decline, Declared
  <2> QED
    BY <1>6, <2>1 DEF Decline
<1>7. CASE Launch(v) \/ Probe(v) \/ Record(v) \/ RecordFails(v)
  <2>1. wpc[v] \in {"launch", "probe", "record"} /\ candidates' = candidates
    BY <1>7 DEF Launch, Probe, Record, RecordFails
  <2>2. Len(candidates[v]) >= 1
    BY <1>0, <2>1 DEF Course
  <2> QED
    BY <2>1, <2>2
<1>8. CASE StartAdHoc(v) \/ StartManaged(v) \/ Kill(v) \/ \E t \in Tasks : Spawn(v, t)
  BY <1>8 DEF StartAdHoc, StartManaged, Kill, Spawn, Goto, TypeOK
<1> QED
  BY <1>1, <1>2, <1>3, <1>4, <1>5, <1>6, <1>7, <1>8 DEF Next, Step

\* The terminal opens even when all checks fail: a worker ends without one only if
\* the managed host it was started for could not be loaded or was gone by then.
THEOREM TerminalOpensUnlessGone == Spec => []TerminalUnlessGone
<1>1. Init => AllDeclared /\ AllRefused
  BY DEF Init, AllDeclared, Declared, AllRefused, Refused
<1>2. TypeOK /\ Courses /\ AllRefused => TerminalUnlessGone
  BY DEF Courses, Course, AllRefused, Refused, TerminalUnlessGone
<1> QED
  BY <1>1, <1>2, OnCourse, DeclaredStep, RefusedStep, PTL DEF Spec

-------------------------------------------------------------------------------
\* What a process takes the book for counts no more than the book.
LEMMA ReadingCountsNoMore ==
    ASSUME TypeOK, NEW m \in Meshes, NEW read \in Readings(m)
    PROVE  IsHistory(read) /\ Total(read) <= Total(book.rows)
<1>1. IsHistory(read) /\ IsHistory(book.rows) /\ (m = NoMesh \/ ValidMesh(m))
  BY ReadingsType, WorkerAssumption DEF TypeOK
<1>2. CASE read = StateFromPayload(m, book.rows)
  <2> DEFINE g == Merge(m, book.rows)
  <2>1. IsHistory(g) /\ Total(g) = Total(book.rows) /\ read = Trim(g)
    BY <1>1, <1>2, HistoryIsRows, MergeType, MergeConservesUsage DEF StateFromPayload
  <2> HIDE DEF g
  <2>2. Total(Trim(g)) <= Total(g)
    BY <2>1, TrimCountsNoMore
  <2> QED
    BY <1>1, <2>1, <2>2
<1>3. CASE read = Empty
  <2>1. ConnectionsIn(Empty) = {}
    BY DEF ConnectionsIn, Empty
  <2> QED
    BY <1>1, <1>3, <2>1, TotalType, FS_EmptySet DEF Total
<1> QED
  BY <1>2, <1>3 DEF Readings

-------------------------------------------------------------------------------
(***************************************************************************)
(* A worker has earned its connection when its probe was answered and it   *)
(* is past recording it, whether or not that went well.                    *)
(***************************************************************************)
Earned == {w \in Workers : reached[w] /\ wpc[w] # "record"}
Granted(b) == Total(b.rows) <= Total(FirstBook.rows) + Cardinality(Earned)
AllGranted == \A b \in settled \cup {book} : Granted(b)

\* The workers that have earned theirs are finitely many.
LEMMA EarnedType ==
    /\ IsFiniteSet(Earned) /\ Cardinality(Earned) \in Nat
    /\ Total(FirstBook.rows) \in Nat
<1>1. Earned \subseteq Workers /\ IsFiniteSet(Workers)
  BY WorkerAssumption DEF Earned
<1>2. IsFiniteSet(Earned)
  BY <1>1, FS_Subset
<1> QED
  BY <1>2, FS_CardinalityType, TotalType, WorkerAssumption

\* What is earned stays earned.
LEMMA EarnedGrows ==
    ASSUME TypeOK, Courses, [Next]_systemVars
    PROVE  Earned \subseteq Earned'
<1> SUFFICES ASSUME NEW v \in Workers, reached[v], wpc[v] # "record"
             PROVE  reached'[v] /\ wpc'[v] # "record"
  BY DEF Earned
<1>1. wpc[v] \in {"launch", "end", "dead"}
  BY DEF TypeOK, Places, Courses, Course, Untouched
<1>2. CASE UNCHANGED <<wpc, reached>>
  BY <1>2
<1>3. CASE MachineStops
  BY <1>1, <1>3 DEF MachineStops
<1>4. ASSUME NEW w \in Workers, Probe(w) PROVE reached'[v] /\ wpc'[v] # "record"
  <2>1. v # w
    BY <1>1, <1>4 DEF Probe
  <2> QED
    BY <1>4, <2>1 DEF Probe, Goto, TypeOK
<1>5. ASSUME NEW w \in Workers,
             \/ StartAdHoc(w) \/ StartManaged(w) \/ Decline(w) \/ Launch(w) \/ Record(w)
             \/ RecordFails(w) \/ Kill(w) \/ \E t \in Tasks : Spawn(w, t)
      PROVE  reached'[v] /\ wpc'[v] # "record"
  <2>1. UNCHANGED reached
    BY <1>5 DEF StartAdHoc, StartManaged, Decline, Launch, Record, RecordFails, Kill, Spawn
  <2>2. CASE v # w
    <3>1. wpc'[v] = wpc[v]
      BY <1>5, <2>2 DEF StartAdHoc, StartManaged, Decline, Launch, Record, RecordFails,
                        Kill, Spawn, Goto, TypeOK
    <3> QED
      BY <2>1, <3>1
  <2>3. CASE v = w
    <3>1. Launch(w) \/ Kill(w)
      BY <1>1, <1>5, <2>3 DEF StartAdHoc, StartManaged, Decline, Record, RecordFails, Spawn
    <3> QED
      BY <2>1, <2>3, <3>1 DEF Launch, Kill, Goto, TypeOK
  <2> QED
    BY <2>2, <2>3
<1>6. CASE Edit \/ Pickers \/ Sync \/ UNCHANGED systemVars
  BY <1>2, <1>6 DEF Edit, Pickers, Sync, systemVars, workerVars
<1> QED
  BY <1>3, <1>4, <1>5, <1>6 DEF Next, Step

\* A step that writes no more than the book has leaves every book granted.
LEMMA WriteGranted ==
    ASSUME TypeOK, AllGranted, NEW rows, Write(rows), NEW extra \in Nat,
           Total(rows) \in Nat, Total(rows) <= Total(book.rows) + extra,
           Cardinality(Earned') \in Nat, Cardinality(Earned) + extra <= Cardinality(Earned')
    PROVE  AllGranted'
<1>1. SUFFICES ASSUME NEW b \in (settled \cup {book})'
               PROVE  Total(b.rows) <= Total(FirstBook.rows) + Cardinality(Earned')
  BY DEF AllGranted, Granted
<1>2. b \in settled \cup {book} \/ b.rows = rows
  BY DEF Write, Started
<1>3. Total(book.rows) <= Total(FirstBook.rows) + Cardinality(Earned)
  BY DEF AllGranted, Granted
<1>4. Cardinality(Earned) \in Nat /\ Total(FirstBook.rows) \in Nat
  BY EarnedType
<1>5. Total(book.rows) \in Nat
  BY TotalType DEF TypeOK
<1>6. CASE b \in settled \cup {book}
  <2>1. Total(b.rows) \in Nat
    BY <1>6, TotalType DEF TypeOK
  <2>2. Total(b.rows) <= Total(FirstBook.rows) + Cardinality(Earned)
    BY <1>6 DEF AllGranted, Granted
  <2> QED
    BY <1>4, <2>1, <2>2
<1>7. CASE b.rows = rows
  BY <1>3, <1>4, <1>5, <1>7
<1> QED
  BY <1>2, <1>6, <1>7

\* Every step leaves every book granted.
LEMMA GrantedStep == TypeOK /\ Courses /\ AllGranted /\ [Next]_systemVars => AllGranted'
<1> SUFFICES ASSUME TypeOK, Courses, AllGranted, [Next]_systemVars PROVE AllGranted'
  OBVIOUS
<1>1. Earned \subseteq Earned' /\ Earned' \subseteq Workers
  BY EarnedGrows DEF Earned
<1>2. IsFiniteSet(Earned') /\ Cardinality(Earned') \in Nat
  BY <1>1, WorkerAssumption, FS_Subset, FS_CardinalityType
<1>3. Cardinality(Earned) \in Nat /\ Cardinality(Earned) <= Cardinality(Earned')
  BY <1>1, <1>2, FS_Subset, EarnedType
<1>4. CASE Pickers
  <2>1. PICK rows : Write(rows) /\ IsHistory(rows) /\ Total(rows) <= Total(book.rows)
    <3>1. CASE Refold
      <4>1. PICK m \in Meshes : Write(StateFromPayload(m, book.rows))
        BY <3>1 DEF Refold
      <4>2. StateFromPayload(m, book.rows) \in Readings(m)
        BY DEF Readings
      <4> QED
        BY <4>1, <4>2, ReadingCountsNoMore
    <3>2. CASE Forget
      <4>1. PICK m \in Meshes : \E s \in Targets, read \in Readings(m) :
                Write(Without(read, HistoryKey(m, s)))
        BY <3>2 DEF Forget
      <4>2. PICK s \in Targets, read \in Readings(m) : Write(Without(read, HistoryKey(m, s)))
        BY <4>1
      <4> DEFINE rows == Without(read, HistoryKey(m, s))
      <4>3. IsHistory(read) /\ Total(read) <= Total(book.rows)
        BY ReadingCountsNoMore
      <4>4. IsHistory(rows) /\ Total(rows) <= Total(read)
        BY <4>3, WithoutType, WithoutCountsNoMore
      <4>5. IsHistory(book.rows)
        BY DEF TypeOK
      <4> HIDE DEF rows
      <4>6. Total(rows) \in Nat /\ Total(read) \in Nat /\ Total(book.rows) \in Nat
        BY <4>3, <4>4, <4>5, TotalType
      <4> QED
        BY <4>2, <4>3, <4>4, <4>6 DEF rows
    <3> QED
      BY <1>4, <3>1, <3>2 DEF Pickers
  <2>2. Total(rows) \in Nat /\ Total(book.rows) \in Nat
    BY <2>1, TotalType DEF TypeOK
  <2>3. Total(rows) <= Total(book.rows) + 0 /\ Cardinality(Earned) + 0 <= Cardinality(Earned')
    BY <1>3, <2>1, <2>2
  <2> QED
    BY <1>2, <2>1, <2>2, <2>3, WriteGranted
<1>5. ASSUME NEW w \in Workers, Record(w) PROVE AllGranted'
  <2> DEFINE k == HistoryKey(mesh[w], task[w].name)
  <2>1. PICK read \in Readings(mesh[w]), at \in Times : Write(AddSuccess(read, k, at))
    BY <1>5 DEF Record
  <2> DEFINE rows == AddSuccess(read, k, at)
  <2>2. mesh[w] \in Meshes /\ at \in Nat /\ k \in Keys
    BY WorkerAssumption, RecordKeyType DEF TypeOK
  <2>3. IsHistory(read) /\ Total(read) <= Total(book.rows)
    BY <2>2, ReadingCountsNoMore
  <2> HIDE DEF k
  <2>4. IsHistory(rows) /\ Total(rows) <= Total(read) + 1
    BY <2>2, <2>3, AddSuccessType, SuccessCountsOne
  <2>5. Total(rows) \in Nat /\ Total(read) \in Nat /\ Total(book.rows) \in Nat
    BY <2>3, <2>4, TotalType DEF TypeOK
  <2>6. w \notin Earned /\ w \in Earned'
    <3>1. wpc[w] = "record" /\ reached'[w] = reached[w] /\ wpc'[w] = AfterHistory(w)
      BY <1>5 DEF Record, Goto, TypeOK
    <3>2. reached[w] /\ AfterHistory(w) # "record"
      BY <3>1 DEF Courses, Course, AfterHistory
    <3> QED
      BY <3>1, <3>2 DEF Earned
  <2>7. Cardinality(Earned) + 1 <= Cardinality(Earned')
    <3>1. IsFiniteSet(Earned \cup {w}) /\ Cardinality(Earned \cup {w}) = Cardinality(Earned) + 1
      BY <2>6, EarnedType, FS_AddElement
    <3>2. Earned \cup {w} \subseteq Earned'
      BY <1>1, <2>6
    <3> QED
      BY <1>2, <3>1, <3>2, FS_Subset
  <2> HIDE DEF rows
  <2>8. Total(rows) <= Total(book.rows) + 1
    BY <2>3, <2>4, <2>5
  <2>9. Write(rows)
    BY <2>1 DEF rows
  <2> QED
    BY <1>2, <2>5, <2>7, <2>8, <2>9, WriteGranted
<1>6. ASSUME (settled \cup {book})' \subseteq settled \cup {book} PROVE AllGranted'
  <2>1. SUFFICES ASSUME NEW b \in settled \cup {book}
                 PROVE  Total(b.rows) <= Total(FirstBook.rows) + Cardinality(Earned')
    BY <1>6 DEF AllGranted, Granted
  <2>2. Total(b.rows) <= Total(FirstBook.rows) + Cardinality(Earned)
    BY DEF AllGranted, Granted
  <2>3. Total(b.rows) \in Nat /\ Total(FirstBook.rows) \in Nat
    BY TotalType, EarnedType DEF TypeOK
  <2> QED
    BY <1>2, <1>3, <2>2, <2>3
<1>7. CASE Sync \/ MachineStops
  BY <1>6, <1>7 DEF Sync, Settle, MachineStops, PowerLoss
<1>8. CASE Edit \/ UNCHANGED systemVars
  BY <1>6, <1>8 DEF Edit, systemVars
<1>9. ASSUME NEW w \in Workers,
             \/ StartAdHoc(w) \/ StartManaged(w) \/ Decline(w) \/ Launch(w) \/ Probe(w)
             \/ RecordFails(w) \/ Kill(w) \/ \E t \in Tasks : Spawn(w, t)
      PROVE  AllGranted'
  <2>1. UNCHANGED <<book, settled>>
    BY <1>9 DEF StartAdHoc, StartManaged, Decline, Launch, Probe, RecordFails, Kill, Spawn
  <2> QED
    BY <1>6, <2>1
<1> QED
  BY <1>4, <1>5, <1>7, <1>8, <1>9 DEF Next, Step

\* Every connection counted is one of the first history or was earned by a worker
\* whose probe was answered, and no worker earns two: whatever is refolded under
\* whichever mesh, forgotten, brought back by a power loss or written in between.
THEOREM CountsOnlyWhatWasEarned == Spec => []UsageIsEarned
<1>1. Init => AllGranted
  <2> SUFFICES ASSUME Init PROVE AllGranted
    OBVIOUS
  <2>1. \A b \in settled \cup {book} : b = FirstBook
    BY DEF Init
  <2>2. Total(FirstBook.rows) <= Total(FirstBook.rows) + Cardinality(Earned)
    BY EarnedType
  <2> QED
    BY <2>1, <2>2 DEF AllGranted, Granted
<1>2. ASSUME TypeOK, AllGranted PROVE UsageIsEarned
  <2> DEFINE Hit == {w \in Workers : reached[w] /\ [v \in Workers |-> TRUE][w]}
  <2>1. Earned \subseteq Hit /\ Hit \subseteq Workers
    BY DEF Earned
  <2>2. Answered([v \in Workers |-> TRUE]) = Cardinality(Hit)
    BY DEF Answered
  <2> HIDE DEF Hit
  <2>3. /\ Cardinality(Earned) <= Cardinality(Hit)
        /\ Cardinality(Earned) \in Nat /\ Cardinality(Hit) \in Nat
    BY <2>1, WorkerAssumption, EarnedType, FS_Subset, FS_CardinalityType
  <2>4. SUFFICES ASSUME NEW b \in settled \cup {book}
                 PROVE  Total(b.rows) <= Total(FirstBook.rows) + Cardinality(Hit)
    BY <2>2 DEF UsageIsEarned
  <2>5. Total(b.rows) <= Total(FirstBook.rows) + Cardinality(Earned)
    BY <1>2 DEF AllGranted, Granted
  <2>6. Total(b.rows) \in Nat /\ Total(FirstBook.rows) \in Nat
    BY <1>2, TotalType, EarnedType DEF TypeOK
  <2> QED
    BY <2>3, <2>5, <2>6
<1> QED
  BY <1>1, <1>2, OnCourse, GrantedStep, PTL DEF Spec

-------------------------------------------------------------------------------
(***************************************************************************)
(* That no connection is lost, where nothing fails, nobody forgets and the *)
(* list has room for a row of every host that may be connected to.  Every  *)
(* step then keeps the sum exact and the list within its room, so nothing  *)
(* is cut, whatever configurations the history is refolded under.          *)
(***************************************************************************)
NothingFails ==
    ~UnreadableBooks /\ ~StateErrors /\ ~Forgets /\ ~Kills /\ ~PowerLosses
HasRoom == Cardinality(DOMAIN FirstBook.rows) + Cardinality(Workers) <= MaxHosts

Exact ==
    /\ Total(book.rows) = Total(FirstBook.rows) + Cardinality(Earned)
    /\ Cardinality(DOMAIN book.rows) <= Cardinality(DOMAIN FirstBook.rows) + Cardinality(Earned)

\* The numbers these sums are made of.
LEMMA SumTypes ==
    ASSUME TypeOK
    PROVE  /\ Cardinality(Earned) \in Nat /\ Cardinality(Workers) \in Nat
           /\ Cardinality(Earned) <= Cardinality(Workers)
           /\ Cardinality(DOMAIN FirstBook.rows) \in Nat /\ Cardinality(DOMAIN book.rows) \in Nat
           /\ Total(FirstBook.rows) \in Nat /\ Total(book.rows) \in Nat
<1>1. Earned \subseteq Workers /\ IsFiniteSet(Workers)
  BY WorkerAssumption DEF Earned
<1>2. IsHistory(FirstBook.rows) /\ IsHistory(book.rows)
  BY WorkerAssumption DEF TypeOK
<1> QED
  BY <1>1, <1>2, FiniteHistory, TotalType, FS_Subset, FS_CardinalityType

\* What a process reads under a mesh is all that the book has.
LEMMA ReadsAll ==
    ASSUME TypeOK, Exact, NothingFails, HasRoom, NEW m \in Meshes, NEW read \in Readings(m)
    PROVE  /\ IsHistory(read) /\ Total(read) = Total(book.rows)
           /\ Cardinality(DOMAIN read) <= Cardinality(DOMAIN book.rows)
<1>1. read = StateFromPayload(m, book.rows) /\ (m = NoMesh \/ ValidMesh(m)) /\ IsHistory(book.rows)
  BY WorkerAssumption DEF Readings, NothingFails, TypeOK
<1>2. Cardinality(DOMAIN book.rows) <= MaxHosts
  BY SumTypes, MaxHostsAssumption DEF Exact, HasRoom
<1> QED
  BY <1>1, <1>2, ReadingCountsAll

\* Only a success that is recorded earns a worker its connection.
LEMMA EarnedOnlyByRecord ==
    ASSUME TypeOK, Courses, NothingFails, [Next]_systemVars, \A w \in Workers : ~Record(w)
    PROVE  Earned' = Earned \/ MachineStops
<1>1. SUFFICES ASSUME NEW v \in Workers, reached'[v], wpc'[v] # "record", ~MachineStops
               PROVE  reached[v] /\ wpc[v] # "record"
  BY EarnedGrows DEF Earned
<1>2. CASE UNCHANGED <<wpc, reached>>
  BY <1>1, <1>2
<1>3. ASSUME NEW w \in Workers, Probe(w) PROVE reached[v] /\ wpc[v] # "record"
  <2>1. PICK answered \in BOOLEAN :
            /\ reached' = [reached EXCEPT ![w] = answered]
            /\ answered => wpc' = [wpc EXCEPT ![w] = "record"]
    <3>1. PICK outcome \in Outcomes :
              /\ reached' = [reached EXCEPT ![w] = ClassifyProbe(outcome)]
              /\ ClassifyProbe(outcome) => wpc' = [wpc EXCEPT ![w] = "record"]
      BY <1>3 DEF Probe, Goto
    <3>2. ClassifyProbe(outcome) \in BOOLEAN
      BY DEF ClassifyProbe
    <3> QED
      BY <3>1, <3>2, Zenon
  <2>2. v # w
    BY <1>1, <2>1 DEF TypeOK
  <2> QED
    BY <1>1, <1>3, <2>2 DEF Probe, Goto, TypeOK
<1>4. ASSUME NEW w \in Workers,
             StartAdHoc(w) \/ StartManaged(w) \/ Decline(w) \/ Launch(w) \/ \E t \in Tasks : Spawn(w, t)
      PROVE  reached[v] /\ wpc[v] # "record"
  <2>1. UNCHANGED reached /\ wpc[w] # "record"
    BY <1>4 DEF StartAdHoc, StartManaged, Decline, Launch, Spawn
  <2>2. v # w => wpc'[v] = wpc[v]
    BY <1>4 DEF StartAdHoc, StartManaged, Decline, Launch, Spawn, Goto, TypeOK
  <2> QED
    BY <1>1, <2>1, <2>2
<1>5. CASE Edit \/ Pickers \/ Sync \/ UNCHANGED systemVars
  BY <1>2, <1>5 DEF Edit, Pickers, Sync, systemVars, workerVars
<1>6. \A w \in Workers : ~RecordFails(w) /\ ~Kill(w)
  BY DEF NothingFails, RecordFails, Kill
<1> QED
  BY <1>1, <1>3, <1>4, <1>5, <1>6 DEF Next, Step

\* A success that is recorded adds its connection and the worker that earned it.
LEMMA RecordIsExact ==
    ASSUME TypeOK, Courses, Exact, NothingFails, HasRoom, NEW w \in Workers, Record(w)
    PROVE  Exact'
<1> DEFINE k == HistoryKey(mesh[w], task[w].name)
<1>1. PICK read \in Readings(mesh[w]), at \in Times : Write(AddSuccess(read, k, at))
  BY DEF Record
<1> DEFINE rows == AddSuccess(read, k, at)
<1>2. mesh[w] \in Meshes /\ at \in Nat /\ k \in Keys
  BY WorkerAssumption, RecordKeyType DEF TypeOK
<1>3. /\ IsHistory(read) /\ Total(read) = Total(book.rows)
      /\ Cardinality(DOMAIN read) <= Cardinality(DOMAIN book.rows)
  BY <1>2, ReadsAll
<1> HIDE DEF k
<1>4. w \notin Earned /\ Earned' = Earned \cup {w}
  <2>1. wpc[w] = "record" /\ reached' = reached /\ wpc' = [wpc EXCEPT ![w] = AfterHistory(w)]
    BY DEF Record, Goto
  <2>2. reached[w] /\ AfterHistory(w) # "record"
    BY <2>1 DEF Courses, Course, AfterHistory
  <2> QED
    BY <2>1, <2>2 DEF Earned, TypeOK
<1>5. Cardinality(Earned') = Cardinality(Earned) + 1 /\ Cardinality(Earned') <= Cardinality(Workers)
  <2>1. Cardinality(Earned') = Cardinality(Earned) + 1
    BY <1>4, EarnedType, FS_AddElement
  <2>2. Earned' \subseteq Workers
    BY <1>4 DEF Earned
  <2> QED
    BY <2>1, <2>2, WorkerAssumption, FS_Subset
<1>6. Cardinality(DOMAIN read) \in Nat
  BY <1>3, FiniteHistory, FS_CardinalityType
<1>7. Cardinality(DOMAIN read) < MaxHosts
  BY <1>3, <1>5, <1>6, SumTypes, MaxHostsAssumption DEF Exact, HasRoom
<1>8. /\ IsHistory(rows) /\ Total(rows) = Total(read) + 1
      /\ Cardinality(DOMAIN rows) <= Cardinality(DOMAIN read) + 1
  BY <1>2, <1>3, <1>7, SuccessCountsExactlyOne
<1>9. book'.rows = rows
  BY <1>1 DEF Write, Started
<1> HIDE DEF rows
<1>10. Cardinality(DOMAIN rows) \in Nat
  BY <1>8, FiniteHistory, FS_CardinalityType
<1> QED
  BY <1>3, <1>5, <1>6, <1>8, <1>9, <1>10, SumTypes DEF Exact

\* Every other step leaves both sums as they are.
LEMMA ExactStep ==
    TypeOK /\ Courses /\ Exact /\ NothingFails /\ HasRoom /\ [Next]_systemVars => Exact'
<1> SUFFICES ASSUME TypeOK, Courses, Exact, NothingFails, HasRoom, [Next]_systemVars PROVE Exact'
  OBVIOUS
<1>1. ASSUME NEW w \in Workers, Record(w) PROVE Exact'
  BY <1>1, RecordIsExact
<1>2. ~MachineStops
  BY DEF NothingFails, MachineStops
<1>3. SUFFICES ASSUME Earned' = Earned, \A w \in Workers : ~Record(w) PROVE Exact'
  BY <1>1, <1>2, EarnedOnlyByRecord
<1>4. CASE Pickers
  <2>1. PICK m \in Meshes : Write(StateFromPayload(m, book.rows))
    BY <1>4 DEF Pickers, Refold, NothingFails
  <2> DEFINE rows == StateFromPayload(m, book.rows)
  <2>2. /\ IsHistory(rows) /\ Total(rows) = Total(book.rows)
        /\ Cardinality(DOMAIN rows) <= Cardinality(DOMAIN book.rows)
    BY ReadsAll DEF Readings
  <2>3. book'.rows = rows
    BY <2>1 DEF Write, Started
  <2> HIDE DEF rows
  <2>4. Cardinality(DOMAIN rows) \in Nat
    BY <2>2, FiniteHistory, FS_CardinalityType
  <2> QED
    BY <1>3, <2>2, <2>3, <2>4, SumTypes DEF Exact
<1>5. CASE Sync \/ Edit \/ UNCHANGED systemVars
  <2>1. book' = book
    BY <1>5 DEF Sync, Settle, Edit, systemVars
  <2> QED
    BY <1>3, <2>1 DEF Exact
<1>6. ASSUME NEW w \in Workers,
             \/ StartAdHoc(w) \/ StartManaged(w) \/ Decline(w) \/ Launch(w) \/ Probe(w)
             \/ RecordFails(w) \/ Kill(w) \/ \E t \in Tasks : Spawn(w, t)
      PROVE  Exact'
  <2>1. book' = book
    BY <1>6 DEF StartAdHoc, StartManaged, Decline, Launch, Probe, RecordFails, Kill, Spawn
  <2> QED
    BY <1>3, <2>1 DEF Exact
<1> QED
  BY <1>2, <1>3, <1>4, <1>5, <1>6 DEF Next, Step

\* Where nothing fails, is forgotten or cut, the history counts every connection
\* that a worker has recorded, exactly once, whatever it is refolded under.
THEOREM CountsAllThatWasEarned == NothingFails /\ HasRoom => (Spec => []UsageIsComplete)
<1> SUFFICES ASSUME NothingFails, HasRoom PROVE Spec => []UsageIsComplete
  OBVIOUS
<1>1. Init => Exact
  <2> SUFFICES ASSUME Init PROVE Exact
    OBVIOUS
  <2>1. Earned = {} /\ book = FirstBook
    BY DEF Init, Earned
  <2>2. Total(book.rows) \in Nat /\ Cardinality(DOMAIN book.rows) \in Nat
    BY TypeInit, SumTypes
  <2> QED
    BY <2>1, <2>2, FS_EmptySet DEF Exact
<1>2. Exact => UsageIsComplete
  <2>1. {w \in Workers : reached[w] /\ [v \in Workers |-> wpc[v] # "record"][w]} = Earned
    BY DEF Earned
  <2>2. Answered([w \in Workers |-> wpc[w] # "record"]) = Cardinality(Earned)
    BY <2>1 DEF Answered
  <2> QED
    BY <2>2 DEF Exact, UsageIsComplete
<1> QED
  BY <1>1, <1>2, OnCourse, ExactStep, PTL DEF Spec

-------------------------------------------------------------------------------
(***************************************************************************)
(* Workers, pickers and faults change the history by whole operations of   *)
(* the ledger and by nothing else: what the store implements is what they  *)
(* rely on.                                                                *)
(***************************************************************************)
\* The shared history of any number of workers behaves as the ledger promises.
THEOREM WorkersKeepToLedger == Spec => LedgerSpec
<1>1. Init => LedgerInit
  BY WorkerAssumption DEF Init, LedgerInit
<1>2. TypeOK /\ [Next]_systemVars => [LedgerNext]_ledgerVars
  <2> SUFFICES ASSUME TypeOK, [Next]_systemVars PROVE [LedgerNext]_ledgerVars
    OBVIOUS
  <2>1. book.started
    BY DEF TypeOK
  <2>2. CASE Pickers \/ Sync \/ MachineStops
    BY <2>2 DEF Pickers, Sync, MachineStops, LedgerNext
  <2>3. ASSUME NEW w \in Workers, Record(w) PROVE LedgerNext
    <3>1. mesh[w] \in Meshes /\ task[w].name \in Targets
      BY WorkerAssumption DEF TypeOK
    <3>2. RecordSuccess
      BY <2>1, <2>3, <3>1 DEF Record, RecordSuccess
    <3> QED
      BY <3>2 DEF LedgerNext
  <2>4. CASE Edit \/ UNCHANGED systemVars
    BY <2>4 DEF Edit, systemVars, ledgerVars
  <2>5. ASSUME NEW w \in Workers,
               \/ StartAdHoc(w) \/ StartManaged(w) \/ Decline(w) \/ Launch(w) \/ Probe(w)
               \/ RecordFails(w) \/ Kill(w) \/ \E t \in Tasks : Spawn(w, t)
        PROVE  UNCHANGED ledgerVars
    BY <2>5 DEF StartAdHoc, StartManaged, Decline, Launch, Probe, RecordFails, Kill, Spawn,
                ledgerVars
  <2> QED
    BY <2>2, <2>3, <2>4, <2>5 DEF Next, Step
<1> QED
  BY <1>1, <1>2, OnCourse, PTL DEF Spec, LedgerSpec

===============================================================================
