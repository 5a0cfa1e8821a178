--------------------------- MODULE RouteHealthStore ---------------------------
(***************************************************************************)
(* mesh report-route (_legacy_mesh.py, cli.py): other applications report  *)
(* what they saw of a route, each report by a process of its own.          *)
(*                                                                         *)
(* A process loads the configuration, then all route health under the lock *)
(* of the health file (load_mesh); it checks the report against the        *)
(* configuration it loaded, takes the lock again, and records the          *)
(* observation if it is newer than what the file says of the route by      *)
(* then.  Meanwhile the user edits the configuration, the clock goes on,   *)
(* other processes report, and processes fail and are killed.              *)
(*                                                                         *)
(* mesh list and the picker run the first two steps alone.                 *)
(***************************************************************************)
EXTENDS RouteHealth

CONSTANTS Procs,         \* the processes that report
          NoProc,        \* holder of a free lock
          Configs,       \* what the configuration file may say
          Unparsable,    \* a configuration that load_config refuses
          Reports,       \* what processes are asked to report
          InitialDocs,   \* the health file to begin with
          Edits,         \* may the configuration change?
          ReadErrors,    \* may reading an intact file raise OSError?
          WriteErrors,   \* may locking and writing raise OSError?
          SyncErrors,    \* may the fsync of the directory raise OSError?
          Kills,         \* may a process be killed?
          PowerLosses,   \* may the machine lose power?
          MaxClock       \* bound of the model: the last instant

\* The file: missing, a document that is read, or one that is refused as a
\* whole, be it for its syntax, version, keys, times or duplicate routes.
Absent == [format |-> "absent", rows |-> <<>>]
Invalid == [format |-> "invalid", rows |-> <<>>]
Intact(rows) == [format |-> "intact", rows |-> rows]
IsDocument(doc) ==
    \/ doc \in {Absent, Invalid}
    \/ doc = Intact(doc.rows) /\ IsHealth(doc.rows)

ASSUME ReporterAssumption ==
    /\ NoProc \notin Procs
    /\ Configs # {} /\ \A c \in Configs : c = Unparsable \/ IsConfig(c)
    /\ \A c, d \in Configs : c.revision = d.revision => c = d
    /\ Unparsable = [revision |-> "none", hosts |-> NoMesh, ttl |-> 1]
    /\ Reports # {} /\ \A r \in Reports : IsReport(r)
    /\ \A doc \in InitialDocs :
          /\ IsDocument(doc)
          /\ \A key \in DOMAIN doc.rows : NewestAt(doc.rows[key]) <= Skew
    /\ {Edits, ReadErrors, WriteErrors, SyncErrors, Kills, PowerLosses} \subseteq BOOLEAN
    /\ MaxClock \in Nat

VARIABLES config,    \* what the configuration file says
          clock,     \* the time of day, which is never set back
          file,      \* route-health.json as every process sees it
          disk,      \* the contents a power loss may leave there
          lock,      \* holder of the flock on .route-health.json.lock
          pc,        \* where each process is
          call,      \* the report it was asked for
          snap,      \* the configuration it loaded
          view,      \* the health it is about to write
          flushed,   \* has its temporary file been fsynced?
          reply,     \* what its one document will say
          current    \* the configurations in force since it was called

healthVars == <<config, clock, file, disk, lock, pc, call, snap, view, flushed, reply, current>>

Steps == {"idle", "config", "health", "check", "lock", "read", "temp", "replace",
          "syncdir", "unlock", "answer"}
Replies == {"none", "accepted", "not newer", "invalid_config", "persistence_failed",
            "stale_mesh", "unknown_host", "unknown_route", "invalid_input"}
NoRows == <<>>
AnyReport == CHOOSE r \in Reports : TRUE

-------------------------------------------------------------------------------
Init ==
    /\ config \in Configs
    /\ clock = 0
    /\ file \in InitialDocs
    /\ disk = {file}
    /\ lock = NoProc
    /\ pc = [p \in Procs |-> "idle"]
    /\ call = [p \in Procs |-> AnyReport]
    /\ snap = [p \in Procs |-> Unparsable]
    /\ view = [p \in Procs |-> NoRows]
    /\ flushed = [p \in Procs |-> FALSE]
    /\ reply = [p \in Procs |-> "none"]
    /\ current = [p \in Procs |-> {}]

Goto(p, from, to) == pc[p] = from /\ pc' = [pc EXCEPT ![p] = to]
Reply(p, r) == reply' = [reply EXCEPT ![p] = r]

\* The command has written its document, or the process was killed.
Finish(p) ==
    /\ pc' = [pc EXCEPT ![p] = "idle"]
    /\ call' = [call EXCEPT ![p] = AnyReport]
    /\ snap' = [snap EXCEPT ![p] = Unparsable]
    /\ view' = [view EXCEPT ![p] = NoRows]
    /\ flushed' = [flushed EXCEPT ![p] = FALSE]
    /\ reply' = [reply EXCEPT ![p] = "none"]
    /\ current' = [current EXCEPT ![p] = {}]

\* The user saves another configuration.
Edit ==
    /\ Edits
    /\ config' \in Configs \ {config}
    /\ current' = [p \in Procs |->
           IF pc[p] = "idle" THEN {} ELSE current[p] \cup {config'}]
    /\ UNCHANGED <<clock, file, disk, lock, pc, call, snap, view, flushed, reply>>

Tick ==
    /\ clock < MaxClock
    /\ clock' = clock + 1
    /\ UNCHANGED <<config, file, disk, lock, pc, call, snap, view, flushed, reply, current>>

-------------------------------------------------------------------------------
\* The command starts; its arguments are those a report needs.
Report(p) ==
    /\ Goto(p, "idle", "config")
    /\ \E r \in Reports : call' = [call EXCEPT ![p] = r]
    /\ current' = [current EXCEPT ![p] = {config}]
    /\ UNCHANGED <<config, clock, file, disk, lock, snap, view, flushed, reply>>

\* load_mesh: load_config, which raises on a file it does not accept ...
LoadConfig(p) ==
    /\ IF config = Unparsable
       THEN Goto(p, "config", "answer") /\ Reply(p, "invalid_config") /\ UNCHANGED snap
       ELSE /\ Goto(p, "config", "health")
            /\ snap' = [snap EXCEPT ![p] = config]
            /\ UNCHANGED reply
    /\ UNCHANGED <<config, clock, file, disk, lock, call, view, flushed, current>>

\* ... then RouteHealthStore.load, which waits for the lock, reads and lets the
\* lock go.  The report needs nothing of what it reads but must be able to.
LoadHealth(p) ==
    /\ lock = NoProc
    /\ \/ Goto(p, "health", "check") /\ file.format # "invalid" /\ UNCHANGED reply
       \/ /\ file.format = "invalid" \/ (ReadErrors /\ file.format = "intact")
          /\ Goto(p, "health", "answer") /\ Reply(p, "persistence_failed")
    /\ UNCHANGED <<config, clock, file, disk, lock, call, snap, view, flushed, current>>

\* report_route: the checks against the configuration that was loaded.
Check(p) ==
    /\ LET verdict == Verdict(snap[p], call[p], clock)
       IN  IF verdict = "valid"
           THEN Goto(p, "check", "lock") /\ UNCHANGED reply
           ELSE Goto(p, "check", "answer") /\ Reply(p, verdict)
    /\ UNCHANGED <<config, clock, file, disk, lock, call, snap, view, flushed, current>>

-------------------------------------------------------------------------------
\* _locked, in load or in record: the directory or the lock file cannot be made.
CannotLock(p) ==
    /\ WriteErrors
    /\ pc[p] \in {"health", "lock"}
    /\ pc' = [pc EXCEPT ![p] = "answer"]
    /\ Reply(p, "persistence_failed")
    /\ UNCHANGED <<config, clock, file, disk, lock, call, snap, view, flushed, current>>

Acquire(p) ==
    /\ lock = NoProc
    /\ lock' = p
    /\ Goto(p, "lock", "read")
    /\ UNCHANGED <<config, clock, file, disk, call, snap, view, flushed, reply, current>>

\* record finds a file that it cannot read, and leaves it alone.
Unreadable(p) ==
    /\ file.format = "invalid" \/ (ReadErrors /\ file.format = "intact")
    /\ Goto(p, "read", "unlock")
    /\ Reply(p, "persistence_failed")
    /\ UNCHANGED <<config, clock, file, disk, lock, call, snap, view, flushed, current>>

\* What record finds in the file under the lock, for the route of its report.
Found(p) == HealthOf(file.rows, RouteKey(call[p]))

\* record finds an observation that is as new or newer.
Refuse(p) ==
    /\ file.format # "invalid"
    /\ call[p].at <= NewestAt(Found(p))
    /\ Goto(p, "read", "unlock")
    /\ Reply(p, "not newer")
    /\ UNCHANGED <<config, clock, file, disk, lock, call, snap, view, flushed, current>>

\* record updates what it read.
Record(p) ==
    /\ file.format # "invalid"
    /\ call[p].at > NewestAt(Found(p))
    /\ Goto(p, "read", "temp")
    /\ view' = [view EXCEPT ![p] =
           Observe(file.rows, RouteKey(call[p]), call[p].status, call[p].at)]
    /\ UNCHANGED <<config, clock, file, disk, lock, call, snap, flushed, reply, current>>

-------------------------------------------------------------------------------
\* (mutant) The temporary file is not fsynced.
WriteTemp_Unsynced(p) ==
    /\ Goto(p, "temp", "replace")
    /\ UNCHANGED <<config, clock, file, disk, lock, call, snap, view, flushed, reply, current>>

\* _write_unlocked: a temporary file is written and fsynced ...
WriteTemp(p) ==
    /\ Goto(p, "temp", "replace")
    /\ flushed' = [flushed EXCEPT ![p] = TRUE]
    /\ UNCHANGED <<config, clock, file, disk, lock, call, snap, view, reply, current>>

\* ... and renamed; until the directory is synced a power loss may leave the old
\* file, and data that were not fsynced may be lost behind the new name.
Replace(p) ==
    /\ Goto(p, "replace", "syncdir")
    /\ file' = Intact(view[p])
    /\ disk' = disk \cup {IF flushed[p] THEN file' ELSE Invalid}
    /\ flushed' = [flushed EXCEPT ![p] = FALSE]
    /\ UNCHANGED <<config, clock, lock, call, snap, view, reply, current>>

\* (mutant) The directory is not synced.
SyncDir_Skipped(p) ==
    /\ Goto(p, "syncdir", "unlock")
    /\ Reply(p, "accepted")
    /\ UNCHANGED <<config, clock, file, disk, lock, call, snap, view, flushed, current>>

\* The fsync of the directory; an OSError there is passed over.
SyncDir(p) ==
    /\ disk' = {file} \/ (SyncErrors /\ UNCHANGED disk)
    /\ Goto(p, "syncdir", "unlock")
    /\ Reply(p, "accepted")
    /\ UNCHANGED <<config, clock, file, lock, call, snap, view, flushed, current>>

\* mkstemp, the write, its fsync or the rename raises.
WriteFails(p) ==
    /\ WriteErrors
    /\ pc[p] \in {"temp", "replace"}
    /\ pc' = [pc EXCEPT ![p] = "unlock"]
    /\ flushed' = [flushed EXCEPT ![p] = FALSE]
    /\ Reply(p, "persistence_failed")
    /\ UNCHANGED <<config, clock, file, disk, lock, call, snap, view, current>>

\* (mutant) An error leaves _locked without its finally clause.
Release_OnSuccess(p) ==
    /\ Goto(p, "unlock", "answer")
    /\ lock' = IF reply[p] = "persistence_failed" THEN lock ELSE NoProc
    /\ UNCHANGED <<config, clock, file, disk, call, snap, view, flushed, reply, current>>

Release(p) ==
    /\ Goto(p, "unlock", "answer")
    /\ lock' = NoProc
    /\ UNCHANGED <<config, clock, file, disk, call, snap, view, flushed, reply, current>>

\* _mesh_main: the one document is written, and the command ends.
Answer(p) ==
    /\ pc[p] = "answer"
    /\ Finish(p)
    /\ UNCHANGED <<config, clock, file, disk, lock>>

-------------------------------------------------------------------------------
\* The process is killed; the kernel drops its flock.
Kill(p) ==
    /\ Kills
    /\ pc[p] # "idle"
    /\ lock' = IF lock = p THEN NoProc ELSE lock
    /\ Finish(p)
    /\ UNCHANGED <<config, clock, file, disk>>

\* Every process ends, and the file is one of those the disk may hold.
PowerLoss ==
    /\ PowerLosses
    /\ file' \in disk
    /\ disk' = {file'}
    /\ lock' = NoProc
    /\ pc' = [p \in Procs |-> "idle"]
    /\ call' = [p \in Procs |-> AnyReport]
    /\ snap' = [p \in Procs |-> Unparsable]
    /\ view' = [p \in Procs |-> NoRows]
    /\ flushed' = [p \in Procs |-> FALSE]
    /\ reply' = [p \in Procs |-> "none"]
    /\ current' = [p \in Procs |-> {}]
    /\ UNCHANGED <<config, clock>>

Step(p) ==
    \/ LoadConfig(p) \/ LoadHealth(p) \/ Check(p) \/ Acquire(p)
    \/ Unreadable(p) \/ Refuse(p) \/ Record(p)
    \/ WriteTemp(p) \/ Replace(p) \/ SyncDir(p) \/ WriteFails(p)
    \/ Release(p) \/ Answer(p)

Next ==
    \/ Edit \/ Tick \/ PowerLoss
    \/ \E p \in Procs : Report(p) \/ CannotLock(p) \/ Step(p) \/ Kill(p)

Spec == Init /\ [][Next]_healthVars

\* Time passes, a process that runs goes on, and one that waits for a lock that
\* is free again and again gets it.  No report, edit, error or kill has to come.
FairSpec ==
    /\ Spec
    /\ WF_healthVars(Tick)
    /\ \A p \in Procs : /\ WF_healthVars(Step(p))
                        /\ SF_healthVars(LoadHealth(p)) /\ SF_healthVars(Acquire(p))

-------------------------------------------------------------------------------
\* Every variable keeps its type: times are never negative, and rows are those
\* of folded host ids and routes.
TypeOK ==
    /\ config \in Configs
    /\ clock \in 0 .. MaxClock
    /\ \A doc \in disk \cup {file} : IsDocument(doc)
    /\ lock \in Procs \cup {NoProc}
    /\ pc \in [Procs -> Steps]
    /\ call \in [Procs -> Reports]
    /\ snap \in [Procs -> Configs \cup {Unparsable}]
    /\ DOMAIN view = Procs /\ \A p \in Procs : IsHealth(view[p])
    /\ flushed \in [Procs -> BOOLEAN]
    /\ reply \in [Procs -> Replies]
    /\ current \in [Procs -> SUBSET Configs]

\* A process that is told that its observation was accepted finds it, or a newer
\* one of that kind, in the file and in all that a power loss may leave; one that
\* is told that it came late finds the newer one in the file.  Both still hold
\* when the lock is gone and others have reported.
AnswersAreTrue ==
    \A p \in Procs :
        LET Known(doc) == HealthOf(doc.rows, RouteKey(call[p]))
            Keeps(doc) == Known(doc)[call[p].status] >= call[p].at
        IN  /\ reply[p] = "accepted" =>
                   /\ Keeps(file)
                   /\ SyncErrors \/ \A doc \in disk : Keeps(doc)
            /\ reply[p] = "not newer" => NewestAt(Known(file)) >= call[p].at

\* A report that got past the checks names a remote host and one of its routes,
\* as declared by a configuration with the revision of the report that was in
\* force at some moment of the command: the revision is not compared again when
\* the lock has been waited for.
ReportWasCurrent ==
    \A p \in Procs :
        pc[p] \in {"lock", "read", "temp", "replace", "syncdir"}
            \/ reply[p] \in {"accepted", "not newer"}
        => \E c \in current[p] : /\ c.revision = call[p].revision
                                 /\ NamesHost(c.hosts, call[p])
                                 /\ NamesRoute(c.hosts, call[p])

\* No route is known by an observation from further ahead than the tolerance, so
\* none can be demoted, or closed to later reports, for longer than it allows.
DatedWithinSkew ==
    \A doc \in disk \cup {file} : \A key \in DOMAIN doc.rows :
        NewestAt(doc.rows[key]) <= clock + Skew

\* Whatever the order in which reports arrive, neither time of a route goes back
\* and no route is forgotten; only a power loss brings back an earlier file.
HealthOnlyGrows ==
    [][\/ PowerLoss
       \/ \A key \in DOMAIN file.rows :
             /\ key \in DOMAIN file'.rows
             /\ \A status \in Statuses :
                   file'.rows[key][status] >= file.rows[key][status]]_file

\* The register that a document stands for; a missing file is an empty one.
RegisterOf(doc) == [readable |-> doc.format # "invalid", rows |-> doc.rows]

Register == INSTANCE ObservationRegister
    WITH register <- RegisterOf(file),
         settled <- {RegisterOf(doc) : doc \in disk},
         Observations <- Reports

\* The store takes each observation once, as a whole, and only if it is newer
\* than all it has at that moment; a file it cannot read is never replaced.
ImplementsRegister == Register!RegisterSpec

\* Failures are forgotten: when time has passed, every configuration recommends
\* its routes in the order in which they are declared.
DeclaredOrderReturns ==
    <>[](\A c \in Configs : \A i \in DOMAIN c.hosts :
            RoutesFor(c, i, file.rows, clock) = c.hosts[i].routes)

\* Every command that goes on writes its document and ends.
EveryReportEnds == \A p \in Procs : pc[p] # "idle" ~> pc[p] = "idle"

===============================================================================
