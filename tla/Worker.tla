-------------------------------- MODULE Worker --------------------------------
(***************************************************************************)
(* Connection workers (launch.py, the worker entries of cli.py, run_probe  *)
(* of probe.py): a detached process per connect that opens one terminal    *)
(* and records the host if an SSH server answered.                         *)
(*                                                                         *)
(* A managed worker loads the mesh again and goes through the routes of    *)
(* its host as they are recommended; an ad-hoc worker has one destination  *)
(* and no mesh.  The history they share is the UsageLedger, which the      *)
(* store implements; pickers refold and forget meanwhile, the user edits   *)
(* the configuration, and processes fail and are killed.                   *)
(*                                                                         *)
(* A picker has always loaded, and so started, the history before it       *)
(* starts a worker.                                                        *)
(***************************************************************************)
EXTENDS RouteHealth, UsageLedger

CONSTANTS Workers,       \* the worker processes, one for each connect
          Tasks,         \* what a worker can be started for
          Configs,       \* what the configuration file may say
          HealthFiles,   \* the route health a worker may find
          FirstBook,     \* the history to begin with
          LoadErrors,    \* may loading the mesh raise?
          StateErrors,   \* may recording a success raise?
          SyncErrors,    \* may a write end before it has reached the disk?
          Edits,         \* may the configuration change?
          Forgets,       \* do pickers forget hosts?
          Kills,         \* may a worker be killed?
          PowerLosses    \* may the machine lose power?

IsTask(t) == t \in [managed : BOOLEAN, name : Keys]

ASSUME WorkerAssumption ==
    /\ IsFiniteSet(Workers)
    /\ Tasks # {} /\ \A t \in Tasks : IsTask(t) /\ t.name \in Targets
    /\ NoMesh \in Meshes /\ \A m \in Meshes : m = NoMesh \/ ValidMesh(m)
    /\ \A c \in Configs : IsConfig(c) /\ c.hosts \in Meshes
    /\ \A rows \in HealthFiles : IsHealth(rows)
    /\ IsBook(FirstBook) /\ FirstBook.started /\ IsHistory(FirstBook.rows)
    /\ Times \subseteq Nat
    /\ {LoadErrors, StateErrors, SyncErrors, Edits, Forgets, Kills, PowerLosses} \subseteq BOOLEAN

VARIABLES config,       \* what the configuration file says
          task,         \* what each worker was started for
          wpc,          \* where it is
          mesh,         \* the hosts it loaded
          candidates,   \* its destinations, in the order in which it tries them
          tried,        \* how many of them it has probed
          reached,      \* did the last one answer?
          opened,       \* the destinations for which it opened a terminal
          current       \* the configurations in force from its start to its load

workerVars == <<task, wpc, mesh, candidates, tried, reached, opened, current>>
systemVars == <<book, settled, config, workerVars>>

Places == {"none", "start", "launch", "probe", "record", "end", "dead"}
Idle == CHOOSE t \in Tasks : TRUE

-------------------------------------------------------------------------------
\* What a probe may end with, and classify_probe: a server that asks for a
\* password or shows another key has answered, a probe that timed out has not.
Outcomes == {"exit 0", "asked by server", "transport failure", "other failure",
             "timeout", "not started"}
ClassifyProbe(outcome) == outcome \in {"exit 0", "asked by server"}

\* The destination of the terminal: the route that answered or else the first.
Chosen(w) == IF reached[w] THEN candidates[w][tried[w]] ELSE candidates[w][1]

Init ==
    /\ book = FirstBook
    /\ settled = {book}
    /\ config \in Configs
    /\ task = [w \in Workers |-> Idle]
    /\ wpc = [w \in Workers |-> "none"]
    /\ mesh = [w \in Workers |-> NoMesh]
    /\ candidates = [w \in Workers |-> <<>>]
    /\ tried = [w \in Workers |-> 0]
    /\ reached = [w \in Workers |-> FALSE]
    /\ opened = [w \in Workers |-> <<>>]
    /\ current = [w \in Workers |-> {}]

\* The store lets an operation in when the one before has ended, and that is when
\* its write has been synced, unless the sync fails or the process is killed.
StoreIsFree == SyncErrors \/ settled = {book}

Goto(w, place) == wpc' = [wpc EXCEPT ![w] = place]

\* The user saves another configuration.
Edit ==
    /\ Edits
    /\ config' \in Configs \ {config}
    /\ current' = [w \in Workers |->
           IF wpc[w] = "start" THEN current[w] \cup {config'} ELSE current[w]]
    /\ UNCHANGED <<book, settled, task, wpc, mesh, candidates, tried, reached, opened>>

-------------------------------------------------------------------------------
\* A picker starts a worker: main with --worker or --worker-managed.
Spawn(w, t) ==
    /\ wpc[w] = "none"
    /\ Goto(w, "start")
    /\ task' = [task EXCEPT ![w] = t]
    /\ current' = [current EXCEPT ![w] = {config}]
    /\ UNCHANGED <<book, settled, config, mesh, candidates, tried, reached, opened>>

\* Does the configuration have a remote host with the id of the task?
Declares(c, t) ==
    LET i == HostById(c.hosts, t.name) IN i # 0 /\ ~c.hosts[i].local

\* run_worker: one destination, and a store without a mesh.
StartAdHoc(w) ==
    /\ wpc[w] = "start" /\ ~task[w].managed
    /\ Goto(w, "launch")
    /\ candidates' = [candidates EXCEPT ![w] = <<task[w].name>>]
    /\ UNCHANGED <<book, settled, config, task, mesh, tried, reached, opened, current>>

\* run_managed_worker: load_mesh, host_by_id, routes_for.  One route is opened at
\* once, several are probed first.
StartManaged(w) ==
    /\ wpc[w] = "start" /\ task[w].managed
    /\ Declares(config, task[w])
    /\ LET i == HostById(config.hosts, task[w].name)
       IN  /\ \E rows \in HealthFiles, now \in Times :
                 candidates' = [candidates EXCEPT ![w] = RoutesFor(config, i, rows, now)]
           /\ Goto(w, IF Len(config.hosts[i].routes) = 1 THEN "launch" ELSE "probe")
    /\ mesh' = [mesh EXCEPT ![w] = config.hosts]
    /\ UNCHANGED <<book, settled, config, task, tried, reached, opened, current>>

\* It returns 2: the mesh cannot be loaded, or has no such remote host any more.
Decline(w) ==
    /\ wpc[w] = "start" /\ task[w].managed
    /\ LoadErrors \/ ~Declares(config, task[w])
    /\ Goto(w, "end")
    /\ UNCHANGED <<book, settled, config, task, mesh, candidates, tried, reached, opened, current>>

\* (mutant) The terminal is opened for the host that was asked for.
Launch_ById(w) ==
    /\ wpc[w] = "launch"
    /\ opened' = [opened EXCEPT ![w] = Append(@, task[w].name)]
    /\ Goto(w, IF tried[w] = 0 THEN "probe" ELSE "end")
    /\ UNCHANGED <<book, settled, config, task, mesh, candidates, tried, reached, current>>

\* spawn_detached on terminal_argv.  Whether the terminal could be started changes
\* nothing but the exit status of the worker, which nobody waits for.
Launch(w) ==
    /\ wpc[w] = "launch"
    /\ opened' = [opened EXCEPT ![w] = Append(@, Chosen(w))]
    /\ Goto(w, IF tried[w] = 0 THEN "probe" ELSE "end")
    /\ UNCHANGED <<book, settled, config, task, mesh, candidates, tried, reached, current>>

\* (mutant) A worker that found no route does not fall back to the first.
AfterHistory_NoFallback(w) == IF opened[w] = <<>> /\ reached[w] THEN "launch" ELSE "end"

\* Where a worker is when it is done with the history.
AfterHistory(w) == IF opened[w] = <<>> THEN "launch" ELSE "end"

\* (mutant) The loop runs into record_success when no route answered.
Probe_AlwaysRecords(w) ==
    /\ wpc[w] = "probe"
    /\ tried' = [tried EXCEPT ![w] = @ + 1]
    /\ \E outcome \in Outcomes :
          /\ reached' = [reached EXCEPT ![w] = ClassifyProbe(outcome)]
          /\ Goto(w, IF ~ClassifyProbe(outcome) /\ tried'[w] < Len(candidates[w])
                     THEN "probe" ELSE "record")
    /\ UNCHANGED <<book, settled, config, task, mesh, candidates, opened, current>>

\* (mutant) Only transport failures let it go on to the next route.
Probe_StopsOnOther(w) ==
    /\ wpc[w] = "probe"
    /\ tried' = [tried EXCEPT ![w] = @ + 1]
    /\ \E outcome \in Outcomes :
          /\ reached' = [reached EXCEPT ![w] = ClassifyProbe(outcome)]
          /\ Goto(w, IF ClassifyProbe(outcome) THEN "record"
                     ELSE IF tried'[w] < Len(candidates[w]) /\ outcome # "other failure"
                     THEN "probe" ELSE AfterHistory(w))
    /\ UNCHANGED <<book, settled, config, task, mesh, candidates, opened, current>>

\* run_probe on the next candidate, under a hard time limit; whatever kind of
\* failure it is, the next one is tried.
Probe(w) ==
    /\ wpc[w] = "probe"
    /\ tried' = [tried EXCEPT ![w] = @ + 1]
    /\ \E outcome \in Outcomes :
          /\ reached' = [reached EXCEPT ![w] = ClassifyProbe(outcome)]
          /\ Goto(w, IF ClassifyProbe(outcome) THEN "record"
                     ELSE IF tried'[w] < Len(candidates[w]) THEN "probe"
                     ELSE AfterHistory(w))
    /\ UNCHANGED <<book, settled, config, task, mesh, candidates, opened, current>>

\* record_success of the host that was asked for, under the mesh it loaded.
Record(w) ==
    /\ wpc[w] = "record" /\ StoreIsFree
    /\ \E read \in Readings(mesh[w]), at \in Times :
          Write(AddSuccess(read, HistoryKey(mesh[w], task[w].name), at))
    /\ Goto(w, AfterHistory(w))
    /\ UNCHANGED <<config, task, mesh, candidates, tried, reached, opened, current>>

\* (mutant) The error of record_success ends the worker.
RecordFails_Raises(w) ==
    /\ StateErrors
    /\ wpc[w] = "record"
    /\ Goto(w, "end")
    /\ UNCHANGED <<book, settled, config, task, mesh, candidates, tried, reached, opened, current>>

\* record_success raises, and the worker passes over it.
RecordFails(w) ==
    /\ StateErrors
    /\ wpc[w] = "record"
    /\ Goto(w, AfterHistory(w))
    /\ UNCHANGED <<book, settled, config, task, mesh, candidates, tried, reached, opened, current>>

-------------------------------------------------------------------------------
\* The pickers' part in the history.
Pickers ==
    /\ StoreIsFree
    /\ Refold \/ (Forgets /\ Forget)
    /\ UNCHANGED <<config, workerVars>>

\* The sync at the end of every write.
Sync == Settle /\ UNCHANGED <<config, workerVars>>

Kill(w) ==
    /\ Kills
    /\ wpc[w] \in {"start", "launch", "probe", "record"}
    /\ Goto(w, "dead")
    /\ UNCHANGED <<book, settled, config, task, mesh, candidates, tried, reached, opened, current>>

MachineStops ==
    /\ PowerLosses
    /\ PowerLoss
    /\ wpc' = [w \in Workers |-> IF wpc[w] \in {"none", "end"} THEN wpc[w] ELSE "dead"]
    /\ UNCHANGED <<config, task, mesh, candidates, tried, reached, opened, current>>

Step(w) ==
    \/ StartAdHoc(w) \/ StartManaged(w) \/ Decline(w)
    \/ Launch(w) \/ Probe(w) \/ Record(w) \/ RecordFails(w)

Next ==
    \/ Edit \/ Pickers \/ Sync \/ MachineStops
    \/ \E w \in Workers : Step(w) \/ Kill(w) \/ \E t \in Tasks : Spawn(w, t)

Spec == Init /\ [][Next]_systemVars

\* A worker that runs goes on: probes have a time limit, the operations of the
\* store end, and a worker gets its turn there.  No connect, edit, error or kill
\* has to come.
FairSpec ==
    /\ Spec
    /\ WF_systemVars(Sync)
    /\ \A w \in Workers : WF_systemVars(Step(w)) /\ SF_systemVars(Record(w))

-------------------------------------------------------------------------------
\* Every variable keeps its type.
TypeOK ==
    /\ \A b \in settled \cup {book} : IsBook(b) /\ b.started /\ IsHistory(b.rows)
    /\ config \in Configs
    /\ task \in [Workers -> Tasks]
    /\ wpc \in [Workers -> Places]
    /\ mesh \in [Workers -> Meshes]
    /\ candidates \in [Workers -> Seq(Spellings)]
    /\ tried \in [Workers -> Nat]
    /\ reached \in [Workers -> BOOLEAN]
    /\ opened \in [Workers -> Seq(Spellings)]
    /\ current \in [Workers -> SUBSET Configs]

\* Where the terminal of a task may lead: an ad-hoc one to the very name, a
\* managed one to a route that a configuration declares for that id.
Leads(t, c, destination) ==
    IF t.managed
    THEN /\ Declares(c, t)
         /\ LET routes == c.hosts[HostById(c.hosts, t.name)].routes
            IN  \E j \in DOMAIN routes : routes[j] = destination
    ELSE destination = t.name

\* A worker opens at most one terminal, to the host that was chosen in the picker
\* as a configuration declares it that was in force since then: an id whose routes
\* change between the picker and the worker is followed, never mixed.
OneTerminalToChosenHost ==
    \A w \in Workers :
        /\ Len(opened[w]) <= 1
        /\ opened[w] # <<>> => \E c \in current[w] : Leads(task[w], c, opened[w][1])

\* A host with one destination has its terminal before the probe; with several,
\* it has it when one of them answered, or when all were tried and none did, and
\* then it leads to the first.
OpensInTime ==
    \A w \in Workers :
        /\ Len(candidates[w]) = 1 /\ wpc[w] # "launch" /\ wpc[w] # "dead" => opened[w] # <<>>
        /\ Len(candidates[w]) > 1 /\ opened[w] # <<>> =>
              \/ reached[w] /\ opened[w][1] = candidates[w][tried[w]]
              \/ ~reached[w] /\ tried[w] = Len(candidates[w])
                    /\ opened[w][1] = candidates[w][1]

\* The workers among some whose probe was answered.
Answered(where) == Cardinality({w \in Workers : reached[w] /\ where[w]})

\* Every connection counted is one of the first history or was earned by a worker
\* whose probe was answered, and no worker earns two: whatever is refolded under
\* whichever mesh, forgotten, brought back by a power loss or written in between.
UsageIsEarned ==
    \A b \in settled \cup {book} :
        Total(b.rows) <= Total(FirstBook.rows) + Answered([w \in Workers |-> TRUE])

\* Where nothing fails, is forgotten or cut, none is lost either.
UsageIsComplete ==
    Total(book.rows) =
        Total(FirstBook.rows) + Answered([w \in Workers |-> wpc[w] # "record"])

\* A worker that knows its destinations opens its terminal, whatever its probes
\* and the history do, unless it is killed.
TerminalOpens ==
    \A w \in Workers :
        wpc[w] \in {"launch", "probe", "record"} ~> opened[w] # <<>> \/ wpc[w] = "dead"

\* The terminal opens even when all checks fail (docs/guides/usage.md:12): where the
\* mesh can be loaded, a worker ends without a terminal only if the managed host it
\* was started for was gone from the configuration by then.
TerminalUnlessGone ==
    \A w \in Workers :
        wpc[w] = "end" /\ opened[w] = <<>> =>
            /\ task[w].managed
            /\ LoadErrors \/ \E c \in current[w] : ~Declares(c, task[w])

===============================================================================
