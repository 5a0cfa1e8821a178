---------------------------- MODULE MarkedCommand -----------------------------
(***************************************************************************)
(* One caller of run_probe and run_marked_command (probe.py), the ssh      *)
(* process that each call starts, and the host at the other end.           *)
(*                                                                         *)
(* What ssh writes to stderr is a sequence of pieces: lines of a kind that *)
(* the classifiers tell apart, and the two parts in which the line of a    *)
(* marker can arrive.  The ssh process, the remote shell and the domain    *)
(* command are external: they say what may be on stderr when the code      *)
(* looks at it, and `answered', `started', `ran' and `rest' record what    *)
(* really happened.                                                        *)
(***************************************************************************)
EXTENDS Naturals, Sequences

CONSTANTS Nonces,        \* what generate_reached_nonce may return
          MaxPieces,     \* bounds what others than ssh's last words and the wrapper write
          Timeouts       \* may the hard timeout expire?

(***************************************************************************)
(* "refused" stands for any text of TRANSPORT_FAILURE_MARKERS, "denied"    *)
(* for any of REACHED_SERVER_MARKERS.                                      *)
(***************************************************************************)
Texts == {"refused", "denied", "other"}

ASSUME MarkedAssumption ==
    /\ Nonces \cap Texts = {} /\ MaxPieces \in Nat
    /\ Timeouts \in BOOLEAN

Line(t) == [part |-> "line", of |-> t]
Opening(n) == [part |-> "opening", of |-> n]
Closing(n) == [part |-> "closing", of |-> n]
Pieces ==
    {Line(t) : t \in Texts} \cup {Opening(n) : n \in Nonces} \cup {Closing(n) : n \in Nonces}

VARIABLES call,      \* what the caller runs: a probe or a marked command
          pc,        \* where the run is
          used,      \* the nonces of all runs so far
          nonce,     \* that of this run
          stderr,    \* what ssh has written so far
          status,    \* the exit status of ssh
          result,    \* what the call returned
          answered,  \* did the SSH server of the destination answer?
          started,   \* has the wrapper begun to write its marker?
          ran,       \* has the marker gone out in one piece, the domain command started?
          seen,      \* the nonces whose marker has been written by any run
          rest       \* what others than the wrapper wrote

hostVars == <<answered, started, ran, seen, rest>>
markedVars == <<call, pc, used, nonce, stderr, status, result, hostVars>>

Calls == {"probe", "marked"}
Running == {"connect", "shell", "marker", "domain", "exited"}
Statuses == {0, 1, 255}
None == 999  \* no exit status
Results ==
    [returncode : Statuses \cup {None}, stderr : Seq(Pieces), reached : BOOLEAN,
     timedOut : BOOLEAN, error : BOOLEAN]
Unreached(text, late, error) ==
    [returncode |-> None, stderr |-> text, reached |-> FALSE, timedOut |-> late, error |-> error]

Init ==
    /\ call = "probe" /\ pc = "done" /\ used = {} /\ nonce \in Nonces /\ stderr = <<>>
    /\ status = None /\ result = Unreached(<<>>, FALSE, FALSE)
    /\ answered = FALSE /\ started = FALSE /\ ran = FALSE /\ seen = {} /\ rest = <<>>

-------------------------------------------------------------------------------
Holds(text, line) == \E i \in DOMAIN text : text[i] = Line(line)

classify_probe(returncode, text, late, error) ==
    ~late /\ ~error /\ (returncode = 0 \/ Holds(text, "denied"))

classify_transport_failure(text, late, error) ==
    IF late \/ error THEN late ELSE Holds(text, "refused")

\* The places where the marker of a nonce stands.
Markers(text, n) ==
    {i \in DOMAIN text : /\ text[i] = Opening(n)
                         /\ i + 1 \in DOMAIN text /\ text[i + 1] = Closing(n)}

\* (mutant) A marker counts whatever the nonce in it.
ReachedMarkers_Any(text, n) == UNION {Markers(text, m) : m \in Nonces}

\* The markers that parse_reached_marker counts.
ReachedMarkers(text, n) == Markers(text, n)

Cut(text, i) == SubSeq(text, 1, i - 1) \o SubSeq(text, i + 2, Len(text))

\* (mutant) Of several markers the first is removed and counts.
Parsed_First(text, n) ==
    IF ReachedMarkers(text, n) = {} THEN [reached |-> FALSE, stderr |-> text]
    ELSE LET i == CHOOSE i \in ReachedMarkers(text, n) :
                      \A j \in ReachedMarkers(text, n) : i <= j
         IN  [reached |-> TRUE, stderr |-> Cut(Cut(text, i), i)]

\* parse_reached_marker: exactly one, and only it is removed.
Parsed(text, n) ==
    IF \E i \in DOMAIN text : ReachedMarkers(text, n) = {i}
    THEN [reached |-> TRUE,
          stderr |-> Cut(text, CHOOSE i \in DOMAIN text : ReachedMarkers(text, n) = {i})]
    ELSE [reached |-> FALSE, stderr |-> text]

-------------------------------------------------------------------------------
(***************************************************************************)
(* The call.                                                               *)
(***************************************************************************)
Fresh == Nonces \ used

\* The arguments are valid: a marked command draws its nonce, and ssh starts.
Call(c) ==
    /\ pc = "done" /\ call' = c /\ pc' = "connect"
    /\ IF c = "marked" THEN \E n \in Fresh : nonce' = n /\ used' = used \cup {n}
                       ELSE UNCHANGED <<nonce, used>>
    /\ stderr' = <<>> /\ status' = None /\ result' = Unreached(<<>>, FALSE, FALSE)
    /\ answered' = FALSE /\ started' = FALSE /\ ran' = FALSE /\ rest' = <<>>
    /\ UNCHANGED seen

\* A destination, an executable or a domain argument is invalid: ValueError,
\* or the executable is missing: OSError.  Nothing runs.
CannotRun ==
    /\ pc = "connect" /\ stderr = <<>>
    /\ pc' = "done" /\ result' = Unreached(<<>>, FALSE, TRUE)
    /\ UNCHANGED <<call, used, nonce, stderr, status, hostVars>>

\* (mutant) What a probe has written when it is cut off is classified all the same.
Timeout_Classifies ==
    /\ Timeouts /\ pc \in Running \ {"exited"}
    /\ pc' = "done"
    /\ result' = [Unreached(stderr, TRUE, TRUE) EXCEPT
           !.reached = call = "probe" /\ classify_probe(None, stderr, FALSE, FALSE)]
    /\ UNCHANGED <<call, used, nonce, stderr, status, hostVars>>

\* (mutant) A call that is cut off has no error.
Timeout_Silent ==
    /\ Timeouts /\ pc \in Running \ {"exited"}
    /\ pc' = "done" /\ result' = Unreached(stderr, TRUE, FALSE)
    /\ UNCHANGED <<call, used, nonce, stderr, status, hostVars>>

\* TimeoutExpired: ssh is killed, and what it had written is kept as it is.
Timeout ==
    /\ Timeouts /\ pc \in Running \ {"exited"}
    /\ pc' = "done" /\ result' = Unreached(stderr, TRUE, TRUE)
    /\ UNCHANGED <<call, used, nonce, stderr, status, hostVars>>

\* (mutant) The exit status of the domain command counts as that of ssh.
Return_ByStatus ==
    /\ pc = "exited" /\ pc' = "done"
    /\ LET parsed == Parsed(stderr, nonce)
       IN  result' = [returncode |-> status, timedOut |-> FALSE, error |-> FALSE,
                      stderr |-> IF call = "marked" THEN parsed.stderr ELSE stderr,
                      reached |-> IF call = "marked" THEN parsed.reached /\ status # 255
                                  ELSE classify_probe(status, stderr, FALSE, FALSE)]
    /\ UNCHANGED <<call, used, nonce, stderr, status, hostVars>>

\* ssh has exited: its stderr is read, a marker removed.
Return ==
    /\ pc = "exited" /\ pc' = "done"
    /\ LET parsed == Parsed(stderr, nonce)
       IN  result' = [returncode |-> status, timedOut |-> FALSE, error |-> FALSE,
                      stderr |-> IF call = "marked" THEN parsed.stderr ELSE stderr,
                      reached |-> IF call = "marked" THEN parsed.reached
                                  ELSE classify_probe(status, stderr, FALSE, FALSE)]
    /\ UNCHANGED <<call, used, nonce, stderr, status, hostVars>>

-------------------------------------------------------------------------------
(***************************************************************************)
(* ssh and the host.                                                       *)
(***************************************************************************)
Writes(p) == stderr' = Append(stderr, p) /\ rest' = Append(rest, p)
Noise(p) == Len(stderr) < MaxPieces /\ Writes(p)

Exits(s) == pc' = "exited" /\ status' = s

\* No connection, or ssh gives up before it tries: the destination does not answer.
\* "denied" is what this machine denies, be it connect(2) or a file of ssh's, and
\* what a jump host says that does not let the user through.
ConnectFails ==
    /\ pc = "connect" /\ (\E t \in Texts : Writes(Line(t))) /\ Exits(255)
    /\ UNCHANGED <<call, used, nonce, result, answered, started, ran, seen>>

\* The server refuses the user, or its key is not the known one.
Refuses ==
    /\ pc = "connect" /\ Writes(Line("denied")) /\ Exits(255) /\ answered' = TRUE
    /\ UNCHANGED <<call, used, nonce, result, started, ran, seen>>

\* The user is in: the host has the command line, and runs the user's shell.
Authenticates ==
    /\ pc = "connect" /\ pc' = "shell" /\ answered' = TRUE
    /\ UNCHANGED <<call, used, nonce, stderr, status, result, started, ran, seen, rest>>

\* ssh writes a warning, at any time.
Warns ==
    /\ pc \in Running \ {"exited"} /\ Noise(Line("other"))
    /\ UNCHANGED <<call, pc, used, nonce, status, result, answered, started, ran, seen>>

SeenParts == {Opening(n) : n \in seen} \cup {Closing(n) : n \in seen}

\* What the start files of the shell or the domain command write: any text, and
\* any part of a marker that was written before.
Chatters ==
    /\ pc \in {"shell", "domain"}
    /\ \E p \in {Line(t) : t \in Texts} \cup SeenParts : Noise(p)
    /\ UNCHANGED <<call, pc, used, nonce, status, result, answered, started, ran, seen>>

\* What a server says before it lets anybody in: it has seen earlier runs only.
Greets ==
    /\ pc = "connect" /\ (\E p \in SeenParts : Noise(p)) /\ answered' = TRUE
    /\ UNCHANGED <<call, pc, used, nonce, status, result, started, ran, seen>>

\* build_reached_wrapper: the first thing the wrapper does is to write its marker.
WrapperOpens ==
    /\ call = "marked" /\ pc = "shell" /\ pc' = "marker"
    /\ stderr' = Append(stderr, Opening(nonce)) /\ seen' = seen \cup {nonce}
    /\ started' = TRUE
    /\ UNCHANGED <<call, used, nonce, status, result, answered, ran, rest>>

\* It then executes the domain command.
WrapperCloses ==
    /\ pc = "marker" /\ pc' = "domain" /\ stderr' = Append(stderr, Closing(nonce))
    /\ ran' = (stderr[Len(stderr)] = Opening(nonce))
    /\ UNCHANGED <<call, used, nonce, status, result, answered, started, seen, rest>>

\* The domain command of a marked call, or the "true" of a probe, is done.
Finishes ==
    /\ pc = (IF call = "marked" THEN "domain" ELSE "shell")
    /\ \E s \in Statuses : Exits(s)
    /\ UNCHANGED <<call, used, nonce, stderr, result, hostVars>>

\* The connection is lost.
Drops ==
    /\ pc \in {"shell", "marker", "domain"}
    /\ \E t \in {"refused", "other"} : Writes(Line(t))
    /\ Exits(255)
    /\ UNCHANGED <<call, used, nonce, result, answered, started, ran, seen>>

-------------------------------------------------------------------------------
Host ==
    \/ ConnectFails \/ Refuses \/ Authenticates \/ Warns \/ Chatters \/ Greets
    \/ WrapperOpens \/ WrapperCloses \/ Finishes \/ Drops
Next == (\E c \in Calls : Call(c)) \/ CannotRun \/ Timeout \/ Return \/ Host

Spec == Init /\ [][Next]_markedVars

-------------------------------------------------------------------------------
\* Every variable keeps its type; a result that is cut off carries an error, which is
\* why it never counts as an answer.
TypeOK ==
    /\ call \in Calls /\ pc \in Running \cup {"done"}
    /\ used \subseteq Nonces /\ seen \subseteq used /\ nonce \in Nonces
    /\ stderr \in Seq(Pieces) /\ rest \in Seq(Pieces)
    /\ status \in Statuses \cup {None}
    /\ result \in Results /\ (result.timedOut => result.error)
    /\ {answered, started, ran} \subseteq BOOLEAN

Marked == call = "marked" /\ pc = "done"
EndsWith(t) == stderr # <<>> /\ stderr[Len(stderr)] = Line(t)
Repeated == \E i \in DOMAIN rest : rest[i] = Opening(nonce)

(***************************************************************************)
(* A marked command is only said to have reached its host when the wrapper *)
(* of this very call has started there: not because a server repeats what  *)
(* earlier calls told it (run_marked_command, parse_reached_marker).       *)
(***************************************************************************)
ReachedMeansStarted == Marked /\ result.reached => started /\ answered

(***************************************************************************)
(* A domain command that was started counts as having reached the host,    *)
(* whatever it wrote, however it ended, and even if the connection was     *)
(* lost after the marker, with three exceptions: something else was        *)
(* written in the middle of the marker (then `ran' is FALSE), the host     *)
(* repeats it, or the call was cut off.                                    *)
(***************************************************************************)
StartedIsReached == Marked /\ ran /\ ~Repeated /\ ~result.timedOut => result.reached

(***************************************************************************)
(* The diagnostics that a caller gets are what others than the wrapper     *)
(* wrote, all of it and in order, markers of other calls included; without *)
(* an accepted marker they are what was captured (parse_reached_marker).   *)
(***************************************************************************)
DiagnosticsAreIntact ==
    Marked /\ ~result.error =>
        IF result.reached THEN ran /\ ~Repeated => result.stderr = rest
                          ELSE result.stderr = stderr

(***************************************************************************)
(* A probe counts as reached only if ssh came to an end of its own, and if *)
(* the destination answered or a denial was the last that ssh had to say:  *)
(* never for what had been written when the probe was cut off, and never   *)
(* for a transport failure (run_probe, classify_probe).                    *)
(***************************************************************************)
ProbeIsGrounded ==
    call = "probe" /\ pc = "done" /\ result.reached =>
        /\ status # None
        /\ ~answered => status = 255 /\ EndsWith("denied")

(***************************************************************************)
(* A probe counts a server as reached only if that of the destination      *)
(* answered (classify_probe: "established that a real SSH server           *)
(* answered"; docs/guides/usage.md:81).                                    *)
(***************************************************************************)
ProbeMeansAnswered == call = "probe" /\ pc = "done" /\ result.reached => answered

(***************************************************************************)
(* What is classified as a transport failure without having reached the    *)
(* host happened before the marker of the call                             *)
(* (docs/reference/host-mesh-v1.md: "a classified transport failure before *)
(* that marker").                                                          *)
(***************************************************************************)
UnreachableIsBeforeMarker ==
    Marked /\ ~result.reached
           /\ classify_transport_failure(result.stderr, result.timedOut, result.error)
        => ~ran \/ Repeated

===============================================================================
