----------------------------- MODULE MarkedProofs -----------------------------
(***************************************************************************)
(* Theorems about the marked command and the probe, for any nonces, any    *)
(* amount of output and any behaviour of ssh and of the host.              *)
(***************************************************************************)
EXTENDS MarkedCommand, TLAPS

\* Where the line of the marker stands if it went out in one piece: the rest of
\* stderr is what others wrote.
Stands(k) ==
    /\ k \in 1 .. Len(stderr) /\ Len(stderr) = Len(rest) + 2 /\ k <= Len(rest) + 1
    /\ stderr[k] = Opening(nonce) /\ stderr[k + 1] = Closing(nonce)
    /\ \A j \in 1 .. Len(stderr) : j < k => stderr[j] = rest[j]
    /\ \A j \in 1 .. Len(stderr) : j > k + 1 => stderr[j] = rest[j - 2]

\* Before the wrapper has started nobody has its marker, and all that is on
\* stderr comes from others.
Before ==
    call = "marked" /\ ~started =>
        /\ ~ran /\ stderr = rest
        /\ ~Repeated
        /\ pc # "done" => nonce \notin seen
        /\ pc \notin {"marker", "domain"}

\* The marker is on its way, and nothing came after its first part.
Midway ==
    pc = "marker" =>
        /\ call = "marked" /\ started /\ ~ran /\ Len(stderr) > 0
        /\ stderr[Len(stderr)] = Opening(nonce) =>
              /\ Len(stderr) = Len(rest) + 1
              /\ \A j \in 1 .. Len(rest) : stderr[j] = rest[j]

IInv ==
    /\ TypeOK
    /\ started \/ pc \in {"shell", "marker", "domain"} => answered
    /\ pc \in {"connect", "shell"} => ~started
    /\ call = "marked" => nonce \in used
    /\ Before /\ Midway
    /\ ran => \E k \in Nat : Stands(k)
    /\ pc # "done" => ~result.reached
    /\ ReachedMeansStarted /\ StartedIsReached /\ DiagnosticsAreIntact

-------------------------------------------------------------------------------
\* The pieces are told apart.
LEMMA PiecesDiffer ==
    ASSUME NEW m \in Nonces, NEW n \in Nonces, NEW t \in Texts
    PROVE  /\ Opening(m) # Closing(n) /\ Opening(m) # Line(t) /\ Closing(m) # Line(t)
           /\ Opening(m) = Opening(n) => m = n
           /\ {Opening(m), Closing(m), Line(t)} \subseteq Pieces
  BY DEF Opening, Closing, Line, Pieces

\* What a sequence looks like with the two parts of a marker cut out.
LEMMA CutRemoves ==
    ASSUME NEW s \in Seq(Pieces), NEW i \in Nat, i >= 1, i + 1 <= Len(s)
    PROVE  /\ Cut(s, i) \in Seq(Pieces) /\ Len(Cut(s, i)) = Len(s) - 2
           /\ \A j \in 1 .. Len(s) - 2 : Cut(s, i)[j] = IF j < i THEN s[j] ELSE s[j + 2]
<1> DEFINE a == SubSeq(s, 1, i - 1)
           b == SubSeq(s, i + 2, Len(s))
<1>1. a \in Seq(Pieces) /\ Len(a) = i - 1 /\ \A j \in 1 .. i - 1 : a[j] = s[j]
  OBVIOUS
<1>2. /\ b \in Seq(Pieces) /\ Len(b) = Len(s) - (i + 1)
      /\ \A j \in 1 .. Len(s) - (i + 1) : b[j] = s[j + i + 1]
  OBVIOUS
<1>3. Cut(s, i) = a \o b
  BY DEF Cut
<1> HIDE DEF a, b
<1>4. Cut(s, i) \in Seq(Pieces) /\ Len(Cut(s, i)) = Len(s) - 2
  BY <1>1, <1>2, <1>3
<1>5. ASSUME NEW j \in 1 .. Len(s) - 2
      PROVE  Cut(s, i)[j] = IF j < i THEN s[j] ELSE s[j + 2]
  <2>1. CASE j < i
    BY <1>1, <1>2, <1>3, <2>1
  <2>2. CASE j >= i
    <3>1. (a \o b)[j] = b[j - (i - 1)]
      BY <1>1, <1>2, <2>2
    <3>2. j - (i - 1) \in 1 .. Len(s) - (i + 1)
      BY <2>2
    <3>3. b[j - (i - 1)] = s[(j - (i - 1)) + i + 1]
      BY <1>2, <3>2
    <3> QED
      BY <1>3, <2>2, <3>1, <3>3
  <2> QED
    BY <2>1, <2>2
<1> QED
  BY <1>4, <1>5

\* What parse_reached_marker finds is a marker, and it keeps a sequence.
LEMMA ParsedType ==
    ASSUME NEW s \in Seq(Pieces), NEW n \in Nonces
    PROVE  /\ Parsed(s, n).reached \in BOOLEAN /\ Parsed(s, n).stderr \in Seq(Pieces)
           /\ ~Parsed(s, n).reached => Parsed(s, n).stderr = s
           /\ Parsed(s, n).reached =>
                 \E i \in DOMAIN s : ReachedMarkers(s, n) = {i} /\ Parsed(s, n).stderr = Cut(s, i)
<1>1. CASE \E i \in DOMAIN s : ReachedMarkers(s, n) = {i}
  <2> DEFINE i == CHOOSE i \in DOMAIN s : ReachedMarkers(s, n) = {i}
  <2>1. i \in DOMAIN s /\ ReachedMarkers(s, n) = {i}
    BY <1>1
  <2>2. Parsed(s, n) = [reached |-> TRUE, stderr |-> Cut(s, i)]
    BY <1>1 DEF Parsed
  <2> HIDE DEF i
  <2>3. i \in Nat /\ i >= 1 /\ i + 1 <= Len(s)
    <3>1. i \in ReachedMarkers(s, n)
      BY <2>1
    <3> QED
      BY <3>1 DEF ReachedMarkers, Markers
  <2>4. Cut(s, i) \in Seq(Pieces)
    BY <2>3, CutRemoves
  <2> QED
    BY <2>1, <2>2, <2>4
<1>2. CASE ~\E i \in DOMAIN s : ReachedMarkers(s, n) = {i}
  BY <1>2 DEF Parsed
<1> QED
  BY <1>1, <1>2

\* A marker that stands, and is not repeated, is the only one, and what remains
\* without it is what others wrote.
LEMMA OneMarkerStands ==
    ASSUME TypeOK, NEW k \in Nat, Stands(k), ~Repeated
    PROVE  Parsed(stderr, nonce).reached /\ Parsed(stderr, nonce).stderr = rest
<1>1. k \in 1 .. Len(stderr) /\ k + 1 \in 1 .. Len(stderr) /\ k \in DOMAIN stderr
  BY DEF TypeOK, Stands
<1>2. ReachedMarkers(stderr, nonce) = {k}
  <2>1. k \in ReachedMarkers(stderr, nonce)
    BY <1>1 DEF ReachedMarkers, Markers, Stands, TypeOK
  <2>2. ASSUME NEW j \in ReachedMarkers(stderr, nonce)
        PROVE  j = k
    <3>1. j \in 1 .. Len(stderr) /\ stderr[j] = Opening(nonce)
      BY DEF ReachedMarkers, Markers, TypeOK
    <3>2. CASE j < k
      <4>1. j \in 1 .. Len(rest) /\ rest[j] = Opening(nonce)
        BY <3>1, <3>2 DEF Stands, TypeOK
      <4> QED
        BY <4>1 DEF Repeated, TypeOK
    <3>3. CASE j > k + 1
      <4>1. j - 2 \in 1 .. Len(rest)
        <5>1. Len(rest) \in Nat /\ Len(stderr) \in Nat /\ Len(stderr) = Len(rest) + 2
          BY DEF Stands, TypeOK
        <5> QED
          BY <3>1, <3>3, <5>1, <1>1
      <4>2. rest[j - 2] = Opening(nonce)
        BY <3>1, <3>3 DEF Stands
      <4> QED
        BY <4>1, <4>2 DEF Repeated, TypeOK
    <3>4. CASE j = k + 1
      BY <3>1, <3>4 DEF Stands, Opening, Closing
    <3> QED
      BY <3>1, <3>2, <3>3, <3>4, <1>1
  <2> QED
    BY <2>1, <2>2
<1>3. Parsed(stderr, nonce).reached
  BY <1>1, <1>2 DEF Parsed
<1>4. Parsed(stderr, nonce).stderr = Cut(stderr, k)
  <2>1. PICK i \in DOMAIN stderr :
           ReachedMarkers(stderr, nonce) = {i} /\ Parsed(stderr, nonce).stderr = Cut(stderr, i)
    BY <1>3, ParsedType DEF TypeOK
  <2> QED
    BY <1>2, <2>1
<1>5. Cut(stderr, k) = rest
  <2>1. /\ Cut(stderr, k) \in Seq(Pieces) /\ Len(Cut(stderr, k)) = Len(stderr) - 2
        /\ \A j \in 1 .. Len(stderr) - 2 :
              Cut(stderr, k)[j] = IF j < k THEN stderr[j] ELSE stderr[j + 2]
    BY <1>1, CutRemoves DEF TypeOK
  <2>2. rest \in Seq(Pieces) /\ Len(rest) = Len(stderr) - 2 /\ Len(rest) \in Nat
    BY DEF TypeOK, Stands
  <2>3. ASSUME NEW j \in 1 .. Len(rest)
        PROVE  Cut(stderr, k)[j] = rest[j]
    <3>1. CASE j < k
      BY <2>1, <2>2, <3>1 DEF Stands, TypeOK
    <3>2. CASE j >= k
      <4>1. j + 2 \in 1 .. Len(stderr) /\ j + 2 > k + 1
        BY <2>2, <3>2 DEF TypeOK
      <4>2. stderr[j + 2] = rest[(j + 2) - 2]
        BY <4>1 DEF Stands
      <4> QED
        BY <2>1, <2>2, <3>2, <4>2
    <3> QED
      BY <3>1, <3>2
  <2> QED
    BY <2>1, <2>2, <2>3
<1> QED
  BY <1>3, <1>4, <1>5

-------------------------------------------------------------------------------
\* Whatever a result holds, it is typed if its text is.
LEMMA UnreachedType ==
    ASSUME NEW s \in Seq(Pieces), NEW late \in BOOLEAN, NEW e \in BOOLEAN
    PROVE  /\ Unreached(s, late, e) \in Results /\ ~Unreached(s, late, e).reached
           /\ Unreached(s, late, e).timedOut = late /\ Unreached(s, late, e).error = e
           /\ Unreached(s, late, e).stderr = s
  BY DEF Unreached, Results

LEMMA InitIInv == Init => IInv
<1> SUFFICES ASSUME Init PROVE IInv
  OBVIOUS
<1>1. TypeOK
  <2>1. <<>> \in Seq(Pieces)
    OBVIOUS
  <2>2. result \in Results /\ ~result.timedOut
    BY <2>1, UnreachedType DEF Init
  <2> QED
    BY <2>1, <2>2 DEF Init, TypeOK, Calls
<1> QED
  BY <1>1 DEF Init, IInv, Before, Midway, ReachedMeansStarted, StartedIsReached,
     DiagnosticsAreIntact, Marked, Unreached

\* A call begins with nothing on stderr.
LEMMA CallKeeps == ASSUME IInv, NEW c \in Calls, Call(c) PROVE IInv'
<1>1. /\ result' \in Results /\ ~result'.reached /\ ~result'.timedOut
      /\ pc' = "connect" /\ stderr' = <<>> /\ rest' = <<>>
      /\ ~started' /\ ~ran'
  <2>1. <<>> \in Seq(Pieces)
    OBVIOUS
  <2> QED
    BY <2>1, UnreachedType DEF Call
<1>2. TypeOK'
  <2>1. <<>> \in Seq(Pieces)
    OBVIOUS
  <2>2. used' \subseteq Nonces /\ seen' \subseteq used' /\ nonce' \in Nonces
    BY DEF Call, IInv, TypeOK, Fresh
  <2> QED
    BY <1>1, <2>1, <2>2 DEF Call, TypeOK, Running
<1>3. Before' /\ (call' = "marked" => nonce' \in used')
  <2>1. ~Repeated'
    BY <1>1 DEF Repeated
  <2>2. call' = "marked" => nonce' \notin seen' /\ nonce' \in used'
    BY DEF Call, IInv, TypeOK, Fresh
  <2> QED
    BY <1>1, <2>1, <2>2 DEF Before
<1> QED
  BY <1>1, <1>2, <1>3 DEF IInv, Midway, ReachedMeansStarted, StartedIsReached,
     DiagnosticsAreIntact, Marked

\* A call that could not run, or was cut off, has not reached the host.
LEMMA CutOffKeeps ==
    ASSUME IInv, CannotRun \/ Timeout
    PROVE  IInv'
<1>1. /\ pc' = "done" /\ pc # "done" /\ result'.error /\ ~result'.reached
      /\ result' \in Results /\ (CannotRun => stderr = <<>> /\ pc = "connect")
      /\ (Timeout => result'.timedOut)
      /\ UNCHANGED <<call, used, nonce, stderr, status, hostVars>>
  <2>1. stderr \in Seq(Pieces) /\ <<>> \in Seq(Pieces)
    BY DEF IInv, TypeOK
  <2>2. CASE CannotRun
    BY <2>1, <2>2, UnreachedType DEF CannotRun, Timeout
  <2>3. CASE Timeout
    BY <2>1, <2>3, UnreachedType DEF CannotRun, Timeout, Running
  <2> QED
    BY <2>2, <2>3
<1>2. TypeOK' /\ Before' /\ Midway'
  BY <1>1 DEF IInv, TypeOK, Before, Midway, hostVars, Repeated
<1>3. StartedIsReached'
  <2>1. CASE CannotRun
    <3>1. ~ran
      <4>1. SUFFICES ASSUME ran PROVE FALSE
        OBVIOUS
      <4>2. PICK k \in Nat : Stands(k)
        BY <4>1 DEF IInv
      <4> QED
        BY <4>2, <2>1, <1>1 DEF Stands, IInv, TypeOK
    <3> QED
      BY <3>1, <1>1 DEF StartedIsReached, hostVars
  <2>2. CASE Timeout
    BY <2>2, <1>1 DEF StartedIsReached
  <2> QED
    BY <2>1, <2>2
<1>4. ran' => \E k \in Nat : Stands(k)'
  BY <1>1 DEF IInv, Stands, hostVars
<1> QED
  BY <1>1, <1>2, <1>3, <1>4 DEF IInv, ReachedMeansStarted, DiagnosticsAreIntact, Marked,
     hostVars

\* The result is what the parser and the classifier say.
LEMMA ReturnKeeps == ASSUME IInv, Return PROVE IInv'
<1> DEFINE parsed == Parsed(stderr, nonce)
           marked == call = "marked"
<1>1. /\ pc = "exited" /\ pc' = "done"
      /\ UNCHANGED <<call, used, nonce, stderr, status, hostVars>>
      /\ result' = [returncode |-> status, timedOut |-> FALSE, error |-> FALSE,
                    stderr |-> IF marked THEN parsed.stderr ELSE stderr,
                    reached |-> IF marked THEN parsed.reached
                                ELSE classify_probe(status, stderr, FALSE, FALSE)]
  BY DEF Return
<1>2. /\ parsed.reached \in BOOLEAN /\ parsed.stderr \in Seq(Pieces)
      /\ ~parsed.reached => parsed.stderr = stderr
      /\ parsed.reached =>
            \E i \in DOMAIN stderr : ReachedMarkers(stderr, nonce) = {i}
  BY ParsedType DEF IInv, TypeOK
<1>3. classify_probe(status, stderr, FALSE, FALSE) \in BOOLEAN
  BY DEF classify_probe
<1>4. marked /\ ran /\ ~Repeated => parsed.reached /\ parsed.stderr = rest
  <2>1. SUFFICES ASSUME ran, ~Repeated PROVE parsed.reached /\ parsed.stderr = rest
    OBVIOUS
  <2>2. PICK k \in Nat : Stands(k)
    BY <2>1 DEF IInv
  <2> QED
    BY <2>1, <2>2, OneMarkerStands DEF IInv
<1>5. marked /\ parsed.reached => started
  <2>1. SUFFICES ASSUME marked, parsed.reached, ~started PROVE FALSE
    OBVIOUS
  <2>2. PICK i \in DOMAIN stderr : ReachedMarkers(stderr, nonce) = {i}
    BY <1>2, <2>1
  <2>3. stderr[i] = Opening(nonce)
    BY <2>2 DEF ReachedMarkers, Markers
  <2> QED
    BY <2>1, <2>2, <2>3 DEF IInv, Before, Repeated
<1> HIDE DEF parsed
<1>6. /\ result'.timedOut = FALSE /\ result'.error = FALSE
      /\ marked => result'.stderr = parsed.stderr /\ result'.reached = parsed.reached
      /\ result' \in Results
  <2>1. status \in Statuses \cup {None} /\ stderr \in Seq(Pieces)
    BY DEF IInv, TypeOK
  <2> QED
    BY <1>1, <1>2, <1>3, <2>1 DEF Results
<1>7. TypeOK' /\ Before' /\ Midway'
  BY <1>1, <1>6 DEF IInv, TypeOK, Before, Midway, hostVars, Repeated
<1>8. ReachedMeansStarted' /\ StartedIsReached' /\ DiagnosticsAreIntact'
  BY <1>1, <1>2, <1>4, <1>5, <1>6 DEF IInv, ReachedMeansStarted, StartedIsReached,
     DiagnosticsAreIntact, Marked, Repeated, hostVars
<1>9. ran' => \E k \in Nat : Stands(k)'
  BY <1>1 DEF IInv, Stands, hostVars
<1> QED
  BY <1>1, <1>7, <1>8, <1>9 DEF IInv, hostVars

-------------------------------------------------------------------------------
\* A marker that stands still stands when somebody writes after it.
LEMMA StandsFirm ==
    ASSUME TypeOK, NEW p \in Pieces, Writes(p), UNCHANGED nonce, NEW k \in Nat, Stands(k)
    PROVE  Stands(k)'
<1>1. /\ stderr' = Append(stderr, p) /\ rest' = Append(rest, p)
      /\ stderr \in Seq(Pieces) /\ rest \in Seq(Pieces)
  BY DEF Writes, TypeOK
<1>2. /\ Len(stderr) \in Nat /\ Len(rest) \in Nat
      /\ Len(stderr') = Len(stderr) + 1 /\ Len(rest') = Len(rest) + 1
      /\ \A j \in 1 .. Len(stderr) : stderr'[j] = stderr[j]
      /\ \A j \in 1 .. Len(rest) : rest'[j] = rest[j]
      /\ stderr'[Len(stderr) + 1] = p /\ rest'[Len(rest) + 1] = p
  BY <1>1
<1>3. /\ k \in 1 .. Len(stderr) /\ k + 1 \in 1 .. Len(stderr)
      /\ Len(stderr) = Len(rest) + 2 /\ k <= Len(rest) + 1
      /\ stderr[k] = Opening(nonce) /\ stderr[k + 1] = Closing(nonce)
      /\ \A j \in 1 .. Len(stderr) : j < k => stderr[j] = rest[j]
      /\ \A j \in 1 .. Len(stderr) : j > k + 1 => stderr[j] = rest[j - 2]
  BY <1>2 DEF Stands
<1>4. ASSUME NEW j \in 1 .. Len(stderr'), j < k
      PROVE  stderr'[j] = rest'[j]
  <2>1. j \in 1 .. Len(stderr) /\ j \in 1 .. Len(rest)
    BY <1>2, <1>3, <1>4
  <2> QED
    BY <1>2, <1>3, <1>4, <2>1
<1>5. ASSUME NEW j \in 1 .. Len(stderr'), j > k + 1
      PROVE  stderr'[j] = rest'[j - 2]
  <2>1. CASE j = Len(stderr) + 1
    <3>1. j - 2 = Len(rest) + 1
      BY <1>2, <1>3, <2>1
    <3> QED
      BY <1>2, <2>1, <3>1
  <2>2. CASE j # Len(stderr) + 1
    <3>1. j \in 1 .. Len(stderr) /\ j - 2 \in 1 .. Len(rest)
      BY <1>2, <1>3, <1>5, <2>2
    <3> QED
      BY <1>2, <1>3, <1>5, <3>1
  <2> QED
    BY <2>1, <2>2
<1> QED
  BY <1>2, <1>3, <1>4, <1>5 DEF Stands

\* Others may write what they like, but for the marker of a call that has not
\* started; between the parts of the marker only ssh writes.
LEMMA WritesKeeps ==
    ASSUME IInv, NEW p \in Pieces, Writes(p),
           UNCHANGED <<call, used, nonce, result, started, ran, seen>>,
           pc # "done", pc' \in Running, status' \in Statuses \cup {None},
           answered' \in BOOLEAN, answered => answered',
           pc' \in {"connect", "shell", "marker", "domain"} => pc' = pc,
           p = Opening(nonce) => nonce \in seen, pc = "marker" => p # Opening(nonce)
    PROVE  IInv'
<1>1. /\ stderr' = Append(stderr, p) /\ rest' = Append(rest, p)
      /\ stderr \in Seq(Pieces) /\ rest \in Seq(Pieces)
      /\ stderr' \in Seq(Pieces) /\ rest' \in Seq(Pieces)
      /\ Len(stderr') = Len(stderr) + 1 /\ Len(stderr) \in Nat
      /\ stderr'[Len(stderr')] = p /\ pc' # "done"
  BY DEF Writes, IInv, TypeOK, Running
<1>2. TypeOK'
  BY <1>1 DEF IInv, TypeOK
<1>3. Before'
  <2>1. SUFFICES ASSUME call = "marked", ~started PROVE Before'
    BY DEF Before
  <2>2. ~ran /\ stderr = rest /\ ~Repeated /\ nonce \notin seen /\ pc \notin {"marker", "domain"}
    BY <2>1 DEF IInv, Before
  <2>3. ~Repeated'
    BY <1>1, <2>2 DEF Repeated
  <2> QED
    BY <1>1, <2>2, <2>3 DEF Before
<1>4. Midway'
  BY <1>1 DEF IInv, Midway
<1>5. ran' => \E k \in Nat : Stands(k)'
  BY StandsFirm DEF IInv
<1>6. ReachedMeansStarted' /\ StartedIsReached' /\ DiagnosticsAreIntact'
  BY <1>1 DEF ReachedMeansStarted, StartedIsReached, DiagnosticsAreIntact, Marked
<1> QED
  BY <1>1, <1>2, <1>3, <1>4, <1>5, <1>6 DEF IInv

\* ssh gets nowhere, or the connection is lost.
LEMMA FailureKeeps ==
    ASSUME IInv, ConnectFails \/ Refuses \/ Warns \/ Drops
    PROVE  IInv'
<1>1. PICK t \in Texts : Writes(Line(t))
  BY DEF ConnectFails, Refuses, Warns, Drops, Noise, Texts
<1>2. Line(t) \in Pieces /\ Line(t) # Opening(nonce)
  BY DEF Pieces, Line, Opening
<1>3. /\ UNCHANGED <<call, used, nonce, result, started, ran, seen>>
      /\ pc # "done" /\ pc' \in Running /\ status' \in Statuses \cup {None}
      /\ answered' \in BOOLEAN /\ (answered => answered')
      /\ pc' \in {"connect", "shell", "marker", "domain"} => pc' = pc
  <2>1. answered \in BOOLEAN /\ pc \in Running \cup {"done"} /\ status \in Statuses \cup {None}
    BY DEF IInv, TypeOK
  <2>2. CASE ConnectFails \/ Refuses
    BY <2>1, <2>2 DEF ConnectFails, Refuses, Exits, Running, Statuses
  <2>3. CASE Warns \/ Drops
    BY <2>1, <2>3 DEF Warns, Drops, Exits, Running, Statuses
  <2> QED
    BY <2>2, <2>3
<1> DEFINE p == Line(t)
<1>4. p \in Pieces /\ p # Opening(nonce) /\ Writes(p)
  BY <1>1, <1>2
<1> HIDE DEF p
<1> QED
  BY <1>3, <1>4, WritesKeeps

\* A host writes text and parts of the markers that were written before.
LEMMA ChatterKeeps == ASSUME IInv, Chatters \/ Greets PROVE IInv'
<1>1. PICK p \in {Line(t) : t \in Texts} \cup SeenParts : Writes(p)
  BY DEF Chatters, Greets, Noise
<1>2. p \in Pieces
  BY DEF SeenParts, Pieces, IInv, TypeOK
<1>3. p = Opening(nonce) => nonce \in seen
  <2>1. CASE \E t \in Texts : p = Line(t)
    BY <2>1 DEF Opening, Line
  <2>2. CASE \E n \in seen : p = Opening(n)
    BY <2>2 DEF Opening
  <2>3. CASE \E n \in seen : p = Closing(n)
    BY <2>3 DEF Opening, Closing
  <2> QED
    BY <2>1, <2>2, <2>3 DEF SeenParts
<1>4. /\ UNCHANGED <<call, used, nonce, result, started, ran, seen>>
      /\ pc # "done" /\ pc # "marker" /\ pc' = pc /\ pc' \in Running
      /\ status' \in Statuses \cup {None} /\ answered' \in BOOLEAN /\ (answered => answered')
  BY DEF Chatters, Greets, IInv, TypeOK, Running
<1> QED
  BY <1>1, <1>2, <1>3, <1>4, WritesKeeps

\* The user is let in; the domain command ends.
LEMMA QuietKeeps == ASSUME IInv, Authenticates \/ Finishes PROVE IInv'
<1>1. /\ UNCHANGED <<call, used, nonce, stderr, result, started, ran, seen, rest>>
      /\ status' \in Statuses \cup {None} /\ pc' \in {"shell", "exited"} /\ pc # "done"
      /\ answered' \in BOOLEAN /\ (answered => answered') /\ (pc' = "shell" => answered')
      /\ pc' = "shell" => pc = "connect"
  BY DEF Authenticates, Finishes, Exits, hostVars, IInv, TypeOK
<1>2. TypeOK'
  BY <1>1 DEF IInv, TypeOK, Running
<1>3. Before' /\ Midway'
  BY <1>1 DEF IInv, Before, Midway, Repeated
<1>4. ran' => \E k \in Nat : Stands(k)'
  BY <1>1 DEF IInv, Stands
<1> QED
  BY <1>1, <1>2, <1>3, <1>4 DEF IInv, ReachedMeansStarted, StartedIsReached,
     DiagnosticsAreIntact, Marked

\* The wrapper writes the first part of its marker.
LEMMA OpensKeeps == ASSUME IInv, WrapperOpens PROVE IInv'
<1>1. /\ call = "marked" /\ pc = "shell" /\ pc' = "marker" /\ started' = TRUE /\ answered
      /\ stderr' = Append(stderr, Opening(nonce)) /\ seen' = seen \cup {nonce}
      /\ UNCHANGED <<call, used, nonce, status, result, answered, ran, rest>>
      /\ ~started /\ ~ran /\ stderr = rest /\ stderr \in Seq(Pieces)
      /\ Opening(nonce) \in Pieces /\ nonce \in used
  BY DEF WrapperOpens, IInv, Before, TypeOK, Pieces
<1>2. /\ stderr' \in Seq(Pieces) /\ Len(stderr') = Len(rest) + 1 /\ Len(rest) \in Nat
      /\ \A j \in 1 .. Len(rest) : stderr'[j] = rest[j]
  BY <1>1
<1>3. TypeOK'
  BY <1>1, <1>2 DEF IInv, TypeOK, Running
<1> QED
  BY <1>1, <1>2, <1>3 DEF IInv, Before, Midway, ReachedMeansStarted, StartedIsReached,
     DiagnosticsAreIntact, Marked

\* The wrapper writes the second part: the marker stands if nothing came between.
LEMMA ClosesKeeps == ASSUME IInv, WrapperCloses PROVE IInv'
<1>1. /\ call = "marked" /\ pc = "marker" /\ pc' = "domain" /\ started /\ answered
      /\ stderr' = Append(stderr, Closing(nonce))
      /\ ran' = (stderr[Len(stderr)] = Opening(nonce))
      /\ UNCHANGED <<call, used, nonce, status, result, answered, started, seen, rest>>
      /\ stderr \in Seq(Pieces) /\ rest \in Seq(Pieces) /\ Closing(nonce) \in Pieces
      /\ Len(stderr) > 0
  BY DEF WrapperCloses, IInv, Midway, TypeOK, Pieces
<1>2. /\ stderr' \in Seq(Pieces) /\ Len(stderr') = Len(stderr) + 1 /\ Len(stderr) \in Nat
      /\ \A j \in 1 .. Len(stderr) : stderr'[j] = stderr[j]
      /\ stderr'[Len(stderr) + 1] = Closing(nonce)
  BY <1>1
<1>3. TypeOK'
  BY <1>1, <1>2 DEF IInv, TypeOK, Running
<1>4. ASSUME NEW k \in Nat, k = Len(stderr), ran'
      PROVE  Stands(k)'
  <2>1. /\ stderr[Len(stderr)] = Opening(nonce) /\ Len(stderr) = Len(rest) + 1
        /\ \A j \in 1 .. Len(rest) : stderr[j] = rest[j]
    BY <1>1, <1>4 DEF IInv, Midway
  <2>2. \A j \in 1 .. Len(stderr') : j < k => stderr'[j] = rest[j]
    BY <1>1, <1>2, <1>4, <2>1
  <2>3. \A j \in 1 .. Len(stderr') : ~(j > k + 1)
    BY <1>2, <1>4
  <2> QED
    BY <1>1, <1>2, <1>4, <2>1, <2>2, <2>3 DEF Stands
<1> QED
  BY <1>1, <1>2, <1>3, <1>4 DEF IInv, Before, Midway, ReachedMeansStarted, StartedIsReached,
     DiagnosticsAreIntact, Marked

-------------------------------------------------------------------------------
\* In every state the wrapper, the stream and the result of a run fit its place.
THEOREM Invariance == Spec => []IInv
<1>1. ASSUME IInv, [Next]_markedVars
      PROVE  IInv'
  <2>1. CASE UNCHANGED markedVars
    <3>1. /\ UNCHANGED <<call, pc, used, nonce, stderr, status, result>>
          /\ UNCHANGED <<answered, started, ran, seen, rest>>
      BY <2>1 DEF markedVars, hostVars
    <3>2. TypeOK'
      BY <1>1, <3>1 DEF IInv, TypeOK
    <3>3. Before' /\ Midway' /\ (ran' => \E k \in Nat : Stands(k)')
      BY <1>1, <3>1 DEF IInv, Before, Midway, Stands, Repeated
    <3> QED
      BY <1>1, <3>1, <3>2, <3>3 DEF IInv, ReachedMeansStarted, StartedIsReached,
         DiagnosticsAreIntact, Marked, Repeated
  <2>2. CASE Next
    BY <1>1, <2>2, CallKeeps, CutOffKeeps, ReturnKeeps, FailureKeeps, ChatterKeeps, QuietKeeps,
       OpensKeeps, ClosesKeeps DEF Next, Host
  <2> QED
    BY <1>1, <2>1, <2>2
<1> QED
  BY InitIInv, <1>1, PTL DEF Spec

\* Whatever ssh prints and however it ends, what a call returns is well formed.
THEOREM TypeCorrect == Spec => []TypeOK
<1>1. IInv => TypeOK
  BY DEF IInv
<1> QED
  BY Invariance, <1>1, PTL

\* Only the wrapper of this very call makes a marked command count as having
\* reached its host.
THEOREM MarkerIsGenuine == Spec => []ReachedMeansStarted
<1>1. IInv => ReachedMeansStarted
  BY DEF IInv
<1> QED
  BY Invariance, <1>1, PTL

\* A started domain command counts as having reached the host, whatever its
\* output and its exit status.
THEOREM MarkerIsFound == Spec => []StartedIsReached
<1>1. IInv => StartedIsReached
  BY DEF IInv
<1> QED
  BY Invariance, <1>1, PTL

\* The caller gets the diagnostics of its command, without the marker and
\* without any other change.
THEOREM OnlyTheMarkerIsRemoved == Spec => []DiagnosticsAreIntact
<1>1. IInv => DiagnosticsAreIntact
  BY DEF IInv
<1> QED
  BY Invariance, <1>1, PTL

-------------------------------------------------------------------------------
\* As long as the destination has not answered nothing but the end of ssh says so,
\* and there is an exit status only when ssh has exited.
PInv ==
    /\ pc \in {"connect", "shell", "marker", "domain"} => status = None
    /\ pc # "done" /\ ~answered /\ Holds(stderr, "denied") =>
           pc = "exited" /\ EndsWith("denied")
    /\ pc = "exited" => status # None /\ (~answered => status = 255)
    /\ ProbeIsGrounded

LEMMA PInvKept ==
    ASSUME IInv, PInv, [Next]_markedVars
    PROVE  PInv'
<1>1. /\ stderr \in Seq(Pieces) /\ answered \in BOOLEAN
      /\ pc \in Running \cup {"done"}
      /\ pc \in {"shell", "marker", "domain"} => answered
  BY DEF IInv, TypeOK
<1>2. ASSUME NEW p \in Pieces, Writes(p), ~Holds(stderr, "denied"), Holds(stderr, "denied")'
      PROVE  p = Line("denied") /\ EndsWith("denied")'
  <2>1. stderr' = Append(stderr, p) /\ Len(stderr') = Len(stderr) + 1
    BY <1>1, <1>2 DEF Writes
  <2>2. /\ \A i \in DOMAIN stderr' :
               i = Len(stderr') \/ (i \in DOMAIN stderr /\ stderr'[i] = stderr[i])
        /\ stderr' # <<>> /\ stderr'[Len(stderr')] = p
    BY <1>1, <2>1
  <2> QED
    BY <1>2, <2>2 DEF Holds, EndsWith
<1>3. CASE UNCHANGED markedVars
  BY <1>3 DEF PInv, ProbeIsGrounded, EndsWith, Holds, markedVars, hostVars
<1>4. CASE \E c \in Calls : Call(c)
  BY <1>4 DEF Call, PInv, ProbeIsGrounded, Holds
<1>5. CASE CannotRun \/ Timeout
  <2>1. pc' = "done" /\ ~result'.reached
    BY <1>5 DEF CannotRun, Timeout, Unreached
  <2> QED
    BY <2>1 DEF PInv, ProbeIsGrounded
<1>6. CASE Return
  <2>1. /\ pc = "exited" /\ pc' = "done" /\ UNCHANGED <<call, answered, stderr, status>>
        /\ call = "probe" => result'.reached = classify_probe(status, stderr, FALSE, FALSE)
    BY <1>6 DEF Return, hostVars
  <2>2. call = "probe" /\ result'.reached => status = 0 \/ Holds(stderr, "denied")
    BY <2>1 DEF classify_probe
  <2> QED
    BY <2>1, <2>2 DEF PInv, ProbeIsGrounded, EndsWith
<1>7. CASE ConnectFails
  <2>1. PICK t \in Texts : Writes(Line(t))
    BY <1>7 DEF ConnectFails
  <2>2. Line(t) \in Pieces
    BY <2>1 DEF Line, Pieces
  <2>3. pc = "connect" /\ pc' = "exited" /\ status' = 255 /\ answered' = answered
    BY <1>7 DEF ConnectFails, Exits
  <2>4. ~answered => ~Holds(stderr, "denied")
    BY <2>3 DEF PInv
  <2> QED
    BY <1>2, <2>1, <2>2, <2>3, <2>4 DEF PInv, ProbeIsGrounded, None
<1>8. CASE Warns
  <2>1. Line("other") \in Pieces /\ Line("other") # Line("denied")
    BY DEF Line, Pieces, Texts
  <2>2. /\ Writes(Line("other")) /\ UNCHANGED <<pc, status, answered>>
        /\ pc \in {"connect", "shell", "marker", "domain"}
    BY <1>8 DEF Warns, Noise, Running
  <2> QED
    BY <1>2, <2>1, <2>2 DEF PInv, ProbeIsGrounded
<1>9. CASE \/ Refuses \/ Authenticates \/ Chatters \/ Greets \/ WrapperOpens \/ WrapperCloses
           \/ Finishes \/ Drops
  <2>1. answered' /\ pc' # "done"
    BY <1>1, <1>9 DEF Refuses, Authenticates, Chatters, Greets, WrapperOpens, WrapperCloses,
       Finishes, Drops, Exits, hostVars
  <2>2. CASE Authenticates \/ Chatters \/ Greets \/ WrapperOpens \/ WrapperCloses
    <3>1. /\ pc' \in {"connect", "shell", "marker", "domain"} /\ status' = status
          /\ pc \in {"connect", "shell", "marker", "domain"}
      BY <2>2 DEF Authenticates, Chatters, Greets, WrapperOpens, WrapperCloses
    <3> QED
      BY <2>1, <3>1 DEF PInv, ProbeIsGrounded
  <2>3. CASE Refuses \/ Finishes \/ Drops
    <3>1. pc' = "exited" /\ status' \in Statuses
      BY <2>3 DEF Refuses, Finishes, Drops, Exits, Statuses
    <3> QED
      BY <2>1, <3>1 DEF PInv, ProbeIsGrounded, Statuses, None
  <2> QED
    BY <1>9, <2>2, <2>3
<1> QED
  BY <1>3, <1>4, <1>5, <1>6, <1>7, <1>8, <1>9 DEF Next, Host

\* A probe never counts for what it had written when it was cut off, nor for a
\* failure to connect, unless that was a denial (the run ProbeDenied shows one).
THEOREM ProbesAreGrounded == Spec => []ProbeIsGrounded
<1>1. Init => PInv
  BY DEF Init, PInv, ProbeIsGrounded, Unreached
<1>2. IInv /\ PInv /\ [Next]_markedVars => PInv'
  BY PInvKept
<1>3. PInv => ProbeIsGrounded
  BY DEF PInv
<1> QED
  BY Invariance, <1>1, <1>2, <1>3, PTL DEF Spec
===============================================================================
