# A verification of rofi-ssh-plus

rofi-ssh-plus is a Rofi picker for SSH destinations.  It keeps a history of the
hosts that were reached, folds it under a *Host Mesh* (a configuration that gives
several spellings and routes to one logical host), remembers which routes failed
lately, and opens terminals from detached workers.  Nothing runs permanently:
every picker callback, worker and `mesh` command is a short process of its own,
and they meet only in two files of the user's state directory, each behind an
advisory lock.  What can go wrong is therefore what happens *between* processes:
two updates of one file, a process killed in the middle of a write, a process
that acts on what it read a while ago.

## Inventory

| component (code) | state it keeps | operations | interacts with |
|---|---|---|---|
| connection history (`state.py`, `ranking.py`, `model.py`) | `history.json`, the lock `.history.json.lock` | `load`, `record_success`, `remove`; inside them the one-time import of the DankMaterialShell file and the rewriting under a mesh | called by pickers and workers |
| mesh identity (`_legacy_mesh.py` 78-600) | a configuration, immutable once loaded | `load_config`, `resolve_token`, `host_by_id` | gives history keys, rows and routes |
| route health (`_legacy_mesh.py` 152-200, 258-299, 603-900) | `route-health.json` and its lock | `load`, `record`, `report_route`, `routes_for` | reported to by other applications, read by `load_mesh` |
| workers (`launch.py`) | none of their own | `run_worker`, `run_managed_worker` | started by the picker; probe routes, record successes, open terminals |
| picker (`protocol.py`) | what Rofi hands back in `ROFI_DATA` and `ROFI_INFO` | `render`, `dispatch`, launch, Forget | store, mesh, workers |
| command line (`cli.py`, `mesh.py`) | none | picker entry, worker entries, `mesh list`, `mesh report-route` | everything above |
| probe and reached-host marker (`probe.py`) | none | classification of SSH results, the marker protocol | workers, other applications |

The hard behaviour, by component:

* history: concurrent updates, crashes and power losses between the steps of a
  write, failing reads and writes, merging rows without losing or doubling a
  count, the limit of 100 rows, clocks that disagree, processes with different
  meshes;
* mesh identity: that every spelling has one owner, for any configuration that
  passes validation;
* route health: observations out of order, future-dated observations, the gap
  between the check of the mesh revision and the write, corrupt files;
* workers and picker: acting on a row, a mesh or a route order that has changed
  since it was read; the order of probing, recording and launching;
* command line: which authority answers, and what a caller can conclude from the
  documents and the exit status when writing them fails;
* probe and marker: a host that repeats what it has seen, a connection that is lost
  or falls silent before, in or after the marker.

## The modules

| module | what it is | state |
|---|---|---|
| `MeshConfig` | identity rules of a configuration, as operators | built, proved about |
| `HistoryData` | histories as data: merging, trimming, updating, reading documents | built, proved about |
| `StateStore` | the store with its processes and faults | built, checked, proved |
| `UsageLedger` | what the store promises: one ledger, changed one operation at a time | built, implemented by `StateStore`, kept to by `Worker` and `Picker` |
| `RouteHealth` | observations of a route, the order of routes, the checks of a report | built, proved about |
| `RouteHealthStore` | reporters, the configuration, the clock and the health file | built, checked, proved |
| `ObservationRegister` | what the health store promises: a register per route | built, implemented by `RouteHealthStore`, kept to by `MeshCommand` |
| `Worker` | the detached workers with the history, the mesh and the routes they share | built, checked, proved; composes `UsageLedger` and `RouteHealth` |
| `ConfigLoader` | `load_config`, the file and the machine's names | built, checked, proved |
| `PickerRows` | the rows of the picker as data: which, in which order, found again where | built, proved about |
| `Picker` | one Rofi window and its callbacks, with the history and the mesh they share | built, checked, proved; uses `PickerRows` |
| `MeshCommand` | the `mesh` commands from the choice of an authority to the exit status | built, checked, proved; uses `RouteHealth` |
| `MarkedCommand` | probes, marked commands and their markers | built, checked, proved |
| `MCStateStore`, `MCRouteHealth`, `MCWorker`, `MCPicker`, `MCConfigLoader`, `MCMeshCommand`, `MCMarkedCommand` | instances for TLC | built |
| `HistoryProofs`, `StateStoreProofs`, `RouteHealthProofs`, `WorkerProofs`, `PickerProofs`, `LoaderProofs`, `CommandProofs`, `MarkedProofs` | theorems | built |

What composes what: `HistoryData` and `RouteHealth` rest on `MeshConfig`;
`StateStore` implements `UsageLedger` and `RouteHealthStore` implements
`ObservationRegister`; `Worker` takes the history as a `UsageLedger`; `Picker` takes
each operation of the store as one step, `MeshCommand` each report, which those two
refinements justify.  The other half of that argument is proved too: seen as the
history, `Worker` and `Picker` behave as a `UsageLedger`, and seen as one authority's
health, `MeshCommand` behaves as an `ObservationRegister`, so what is assumed of a
store above the refinement is what the store is shown to give below it.  `ConfigLoader` establishes `ValidMesh`, which all the others
assume of a configuration.

What would come next: `Picker` and `Worker` in one module, so that a worker's success
arrives in the list that started it (each is checked against an environment that
does what the other can do, and both are proved to change the history by the
operations of one ledger).

## How the history is modelled

`file` is what every process reads in `history.json`; `disk` the contents a power
loss may leave there.  A process is at one of the steps of an operation
(`pc`): waiting for the lock, loading, applying, writing the temporary file,
renaming it, syncing the directory, unlocking.  One action is one system call's
worth of progress, so every interleaving that the files can tell apart is
explored.  `stage` tells the two writes of one operation apart: the one by which
the load stores a folded or imported history, and the operation's own.

| action | code |
|---|---|
| `Call` | entry of `load`, `record_success`, `remove`: key and time are computed before the lock |
| `CannotLock`, `Acquire`, `Release` | `_locked` |
| `Import` | `_load_and_initialize_unlocked` without a file |
| `Load`, `Misread` | `_read_generic`, with and without an answer from the file |
| `Answer`, `Update` | the bodies of the operations |
| `WriteTemp`, `Replace`, `SyncDir`, `WriteFails` | `_write_unlocked` |
| `Kill`, `PowerLoss` | the environment |

Contents are abstracted to what the code tells apart.  A destination is a member
of a finite set `Spellings` with a fold function for `str.casefold`; a document is
a format (absent, garbage, torn, alien, foreign, canonical) and rows.  The order
of rows is left out because `sort_hosts` makes it a function of the rows, and
several rows with the very same spelling because they merge as rows of two
spellings do.  Modes, `chmod` and the removal of temporary files are left out.

`UsageLedger` is the abstract side: a book that is started once and then changed
by whole operations, and the earlier books a power loss may bring back.
`StateStore` implements it with `book` as the file and `settled` as the disk.

## How route health is modelled

`RouteHealthStore` is the command `mesh report-route`: a process takes a snapshot
of the configuration (`LoadConfig`), reads the health file once under the lock
(`LoadHealth`, the second half of `load_mesh`), checks its report against the
snapshot and the clock (`Check`), takes the lock again (`Acquire`) and then refuses
or records what it saw.  `config` is the file the user edits (`Edit`), `clock` the
time of day (`Tick`); both move between any two steps.  `current` is a history
variable: the configurations in force since a command was called.

| action | code |
|---|---|
| `Report` | `_mesh_main` up to `load_mesh` |
| `LoadConfig`, `LoadHealth` | `load_mesh` |
| `Check` | `report_route`, in the order of its checks (`Verdict`) |
| `CannotLock`, `Acquire`, `Release` | `_locked` |
| `Unreadable`, `Refuse`, `Record` | `record` under the lock |
| `WriteTemp`, `Replace`, `SyncDir`, `WriteFails` | `_write_unlocked` |
| `Answer` | the one document of `_mesh_main` |
| `Edit`, `Tick`, `Kill`, `PowerLoss` | the environment |

`LoadHealth` takes and leaves the lock in one step: it changes nothing, so nobody
can tell when between its two ends it read.  A configuration is its revision, its
hosts and its limit for failures; equal revisions mean equal configurations, which
is what the digest is for.  A report whose status, source or revision is no token
is `~wellFormed`; times are natural numbers, so the refusal of negative ones is left
out.  Unlike the history, a health file that does not parse stops every command.

`mesh list`, the picker and the worker read a mesh by the first two steps;
`RoutesFor` is the order in which they then try the routes.

`ObservationRegister` is the abstract side: whole observations, each taken only if
newer than all there is for its route.

## How workers are modelled

A worker is one process per connect.  `wpc` is where it is, `candidates` the
destinations it will try in that order, `tried` and `reached` how far its probes
got, `opened` the terminals it started.  `current` is a history variable: the
configurations in force from its start to its load.

| action | code |
|---|---|
| `Spawn` | `main` with `--worker` or `--worker-managed`, started by a picker |
| `StartAdHoc` | `run_worker` up to its terminal |
| `StartManaged`, `Decline` | `run_managed_worker` up to its first route, or its return of 2 |
| `Launch` | `spawn_detached` on `terminal_argv` |
| `Probe` | one turn of the loop over the routes: `run_probe`, `classify_probe` |
| `Record`, `RecordFails` | `record_success`, and the exception that is passed over |
| `Pickers` | `load` and `remove` by pickers, which refold and forget |
| `Sync` | the fsync of the directory that ends a write |
| `Edit`, `Kill`, `MachineStops` | the environment |

The order is that of the code.  With one destination the terminal comes first and
the probe after it; with several the probes come first, then the record, then the
terminal, so the history stands between the user and the terminal there.

The history is `UsageLedger` with its whole operations: `StateStore` implements it,
so nothing of the store's steps is repeated.  `Times`, `Meshes` and `Targets` are
those of the ledger.  Since an operation of the store ends with its sync, under the
lock, the next one meets a settled book (`StoreIsFree`) unless a sync failed or a
process was killed before it (`SyncErrors`); the run with faults lets that happen.

Left out: the exit status of a worker, which nobody waits for; whether the terminal
program could be started, which changes nothing else; an SSH command that is not
one argument, with which a worker ends before it does anything; the wording by
which `classify_probe` knows an answer, of which only the outcome is kept.  A
worker goes through its routes once and never returns to one it has left.

## How the picker is modelled

A window is what Rofi keeps of it: the rows, the highlighted one, the action
(`ROFI_DATA`) and the delimiter.  Each key starts a process that gets the action and
the key of the highlighted row (`ROFI_INFO`), goes through `place` from `load` to
`render`, and is gone.  Between any two of its steps, and between two callbacks, the
history and the configuration may change.

| action | code |
|---|---|
| `Open`, `Press`, `Move`, `Escape` | the user and Rofi: a first call, a call for a key, a move, the end |
| `Upgrade` | a window whose action data this version does not know |
| `LoadMesh`, `RefuseMesh` | `main` (cli.py 134-177) up to `dispatch`, and its message when `load_mesh` raises |
| `Select` | `_selected_row`: a first load of the history; the row must still be there |
| `Connect`, `NotLaunched`, `LaunchFails` | `_launch_row`: started, refused for the local host, failed |
| `Forget`, `ForgetFails` | `_forget_row` and `store.remove`, under the mesh of the callback |
| `Render` | `render`: `_rows`, `_sort_rows`, the selection and the delimiter |
| `Dies` | an exception that leaves `main`, or a kill: no output, and Rofi ends the window |
| `Edit`, `Others` | the user's editor; workers and other pickers, each under a mesh of its own |

A row is its key, its usage and its place in the file; displays, second lines,
escaping and notices are wording.  The two ways of the tab key come to the same
where there are two actions.  `dispatch` has a branch for a picker without a mesh
that `main` never takes; it is left out.  A read of the history that fails for the
moment is left out here; `StateStore` has it.

## How the loader is modelled

`ConfigLoader` goes through `load_config` in its order: the machine's names
(`Start`), the look for the file (`NoFile`, `FileExists`), the read (`ReadFile`), the
checks that need no host (`ReadHead`), the loop over the tables (`ReadHost`,
`AllRead`), the loop of `_validate_identity_collisions` (`CheckHost`, `AllChecked`).
The file may be edited, removed and put back, and the machine renamed, between any
two (`Edit`, `Rename`).  `listed` is a mesh that an earlier process has told a
consumer.  A value is a spelling or `Bad`, for whatever `_token` refuses; everything
about a table that is not an identity is one flag.  `Revision` is what the digest is
taken of; that SHA-256 tells payloads apart is assumed.

## How the mesh commands are modelled

`MeshCommand` has one process per command.  `Call` binds the authority as `mesh.py`
does at its import (`Selected`); `Parse`, `Load`, `LoadFails`, `RunList`, `RunReport`
and `RunFails` are the try block of `_mesh_main` and its handlers; `Write`,
`WriteFails` and `RewriteFails` are `_json_write` with a stdout that takes a document,
refuses it, or keeps it in its buffer.  `Edit` and `Install` change an authority's
configuration and what is installed as Mesh Plus.  Mesh Plus itself is another
repository; as an authority it is taken to behave like the bundled one.

## How probes and markers are modelled

`MarkedCommand` is one caller, the `ssh` process of each call and the host.  `stderr`
is a sequence of pieces: a line of a kind that the classifiers know (`refused`,
`denied`, `other`), or one of the two halves of a marker line, so that another
process's output can come between them.  The variables `answered`, `started`, `ran`,
`seen` and `rest` record what really happened, which the code cannot see.

| action | code |
|---|---|
| `Call`, `CannotRun` | `run_probe`, `run_marked_command` up to `subprocess.run`; arguments or an executable that cannot be had |
| `Timeout` | `TimeoutExpired`: `ssh` is killed, its output kept as it is |
| `Return` | the result: `parse_reached_marker`, `classify_probe` |
| `WrapperOpens`, `WrapperCloses` | the command of `build_reached_wrapper` on the host |
| all others | `ssh`, the server, the remote shell, the domain command |

A host may write any line, and any part of a marker that a run has written already,
its own included; it cannot guess a nonce.

## The runs

| run | bounds | what it shows |
|---|---|---|
| `StoreSafety` | 2 processes; no mesh, today's and yesterday's mesh; 2 targets, of which one changes its owner between the meshes; 2 times; 3 successes; limit of 2 rows | type; that answers are true, that folding settles, that times never go back |
| `StoreFaults` | 2 processes, with and without a mesh, 1 target, 1 time, 2 successes; kills, read and write errors, power losses everywhere; absent, corrupt and full files, and one of the other application or none | no torn history, truthful replies, the ledger; every operation that goes on ends |
| `HealthSafety` | 2 reporters, 2 configurations, 8 reports of which 4 are good, late or equal and 4 to be refused; clock 0 to 2, tolerance 1 | type, true and durable answers, reports that were current and not dated beyond the tolerance |
| `HealthFaults` | 2 reporters, a failure just seen, a later success of the same route and a failure dated far ahead; a configuration that is accepted or refused but not edited; an unreadable file; clock 0 to 3, limit 2; kills, all errors, power losses | the store is one register per route; every command that goes on ends; the declared order of routes returns |
| `WorkerSafety` | 3 workers, 2 managed tasks and 1 ad hoc; 2 configurations between which a route changes its host; the first route known to be down; limit of 5 rows, so that nothing is cut; nothing fails or is forgotten | type; one terminal, to the chosen host; every answered probe is counted once; only a host that is gone is declined |
| `WorkerFaults` | 2 workers, 1 configuration; Forget, unsynced writes, power losses, failing loads, reads and records, kills | the terminal in time; no usage unearned in any book that may come back; a worker that goes on and knows its destinations opens its terminal |
| `PickerSafety` | 1 window; 2 configurations between which a route becomes the name of a host, and one that is refused; histories of the local host and of two rows that fold into one; 2 times, 2 connections; limit of 2 rows; edits, others, old windows, all faults | type; the list accounts for the history; the highlighted row stays; keys act on that row and no other |
| `LoaderSafety` | 23 files that each break one rule or are refused only under some name of the machine; 4 kinds of names; up to 3 hosts, and 4 to be refused | type; what is accepted is a valid mesh and the whole file; equal revisions mean the same |
| `CommandSafety` | 2 commands; a list, a malformed call, 2 reports of one route and one under another revision; a configuration that is refused and one whose list is too long; every backend, Mesh Plus compatible, incompatible or missing; health and stdout that fail | no failure passes for a success; no answer is untrue; no other authority |
| `MarkedSafety` | 2 nonces, any number of probes, 5 pieces of other output; a timeout at any point | type; reached means started; started means reached but for a marker cut in two, repeated or cut off; diagnostics intact; a probe counts an answer or a denial, once `ssh` has ended |
| `MarkedTimeout` | 1 marked command, expected to be violated | a host can pass for unreachable after its marker |
| `ProbeDenied` | 1 probe, expected to be violated | a probe that this machine or a jump host denies counts as answered |

Two processes are enough for every pairwise race of read and write; a third only
adds waiters.  The limit of two rows
makes the third host overflow; one of the files that `StoreSafety` begins
with is over the limit, another of an unknown version.  Times of one and two make an older success meet a
newer one.  `MaxRecords` bounds the calls of `record_success`, which would
otherwise let counts grow; loads and removes are not bounded.  The operations
stop when nobody calls, so deadlock is not checked; `EveryOperationEnds` says that
nobody stays behind.

`HealthFaults` does not edit the configuration, which `HealthSafety` does: what a fault
leaves behind is read by no one but the store, which knows no configuration.
`StoreFaults` has one target and one time, so two updates that meet there are mostly a
record and a remove; `StoreImplementsLedger` has any.

The reports are a finite set and a row only takes newer times, so the health runs
need no bound on how often processes report; `MaxClock` is above the last honest
report plus the limit, so that every failure can expire.

The worker runs need no bound but their workers, each of which connects once.  A
third worker gives a history three connections to merge under a mesh none of them
had; the spellings are chosen so that a configuration joins two rows of the
history that the other one keeps apart, and a route has a spelling of its own.

The picker needs two configurations that disagree about one name, since what a row
means is what can change; a third row would only be cut by the limit.  `MaxUsage`
bounds the connections of the history, not the number of callbacks.  The loader's
files differ from an accepted one in one respect each, so a rule that is not checked
lets its file through, and an edit between two steps is an edit from any file to
any other.  Five pieces are enough for a marker, a second one and something between;
two nonces for a marker of an earlier run; the caller stops when they are used up.

Fairness (`FairSpec`): a process past its lock takes its next step (weak fairness
of `Step`), which is the scheduler; a waiter for a lock that is free again and
again gets it (strong fairness of `Acquire`), which is the kernel's queue of flock
waiters.  No call, edit, kill or error is fair.  In the health runs time passes
(weak fairness of `Tick`), and is never set back: with a clock that is, the
tolerance bounds nothing.  A worker goes on (weak fairness of `Step`: a probe has a
hard time limit, an operation of the store ends) and gets its turn at the store
(strong fairness of `Record`, which is `EveryOperationEnds` of the store; weak
fairness of `Sync`); no kill, edit, error or connect is fair.
The picker, the `mesh` commands and the marked commands have no liveness property: a
callback or a command is a few steps in a row, none of which waits for anything but
a store, and the operations of the stores have theirs; a call of `ssh` has its hard
timeout, and that it returns would say no more than that.

## What is proved

For any set of processes, any meshes that are valid, any documents and any mix of
faults (assumptions: `FoldAssumption`, `RankAssumption`, `MaxHostsAssumption`,
`ProcsAssumption`, `WorldAssumption`; for route health `SkewAssumption` and
`ReporterAssumption`; for workers `WorkerAssumption`; for the picker
`PickerAssumption`, for the loader `LoaderAssumption`, for commands
`CommandAssumption`, for markers `MarkedAssumption`):

* `HistoryProofs`: in a valid mesh every id, alias and route resolves to its own
  host (`EveryIdentityResolves`); history keys are fixed points
  (`HistoryKeyIdempotent`); merging the rows of any file
  gives each host the count of its own rows and all hosts that of all rows
  (`MergeConservesConnections`), a history its own sum (`MergeConservesUsage`);
  reading what was folded changes nothing
  (`ReadingIsIdempotent`); a trimmed history has exactly the limit of hosts, the
  first ones of `sort_hosts` (`TrimKeepsTheNewest`).
* `StateStoreProofs`: the invariants of the runs, `RecencyIsKept` (where reads do
  not fail) and `StoreImplementsLedger`; besides, that the lock is exclusive
  (`LockIsExclusive`) and that what a process is about to write it made from the file
  as it is (`ViewsAreOfFile`), which no run repeats.

* `RouteHealthProofs`: the invariants of the health runs, `StoreImplementsRegister`,
  that no observation is dated beyond the tolerance (`ObservationsAreDated`), that
  what is known of a route only grows (`HealthIsMonotone`), which no run repeats,
  and `FailuresAreForgotten`: a failure known now cannot demote its route after the
  tolerance and the limit have passed.

* `WorkerProofs`: the recommended routes are the declared ones in a stable order
  (`RecommendingReorders`); a worker opens in time, once, to the chosen host
  (`TerminalsOpenInTime`, `OpensOnlyTheChosenHost`), and ends without a terminal only
  if its host was gone (`TerminalOpensUnlessGone`); no connection is counted that
  nobody earned (`CountsOnlyWhatWasEarned`), and none is lost where nothing fails
  (`CountsAllThatWasEarned`); the history changes only as the ledger does
  (`WorkersKeepToLedger`).
* `CommandProofs`: types (`TypeCorrect`); the exit status and the documents agree
  (`StatusIsHonest`); an accepted report is in the health of the authority that
  answered, or under a newer one (`AnswersStayTrue`); no authority stands in for
  another (`NoFallback`); each authority's health changes only as the register does
  (`CommandsKeepToRegister`).

* `LoaderProofs`: `LoadedMeshIsValid`, by which every mesh the program works with has
  the property that the other theorems assume; a file is taken as a whole or refused,
  and refused only if it breaks a rule (`FileIsReadWhole`); two loads under one
  revision mean the same hosts and routes (`RevisionIsMeaning`).
* `PickerProofs`: sorting lists each row once and in order (`SortingLists`); the list
  is in the promised order (`ListIsSorted`), which no run repeats, the selection stays
  (`SelectionIsKept`), a worker is for the highlighted host (`WorkerIsForHighlighted`),
  Forget takes that host and nothing else (`ForgetIsExact`), and the list shows each recorded
  connection of the history it was made from once (`ListAccountsForHistory`); the
  history changes only as the ledger does (`PickerKeepsToLedger`).
* `MarkedProofs`: reached means started (`MarkerIsGenuine`), and started means reached
  if the marker went out in one piece, was not repeated and the call not cut off
  (`MarkerIsFound`); only the marker is removed
  (`OnlyTheMarkerIsRemoved`); a probe counts only once `ssh` has ended, and then for an
  answer or for a denial (`ProbesAreGrounded`), whoever denied, see below.

The inductive invariant `IInv` of the history adds two things to the invariants of the runs.
`Progress` ties `pc`, `stage`, `wrote` and `reply` together.  `Views` says what
each process holds at each step: at `apply` a reading of the file, at `temp` and
`replace` the result of its operation on a reading of the file, after the rename
the file itself; and that what it holds is *its own reading* (keys resolve to
themselves under its mesh, and the rows are within the limit).  The last part is
why an answer read back from the file is the answer given, and why folding
settles: it rests on `HistoryKeyIdempotent`, and that on the freedom of
collisions of a valid mesh.  Mutual exclusion is what keeps `Views` when another
process renames the file.

The refinement: `Replace` is `Start`, `Refold`, `RecordSuccess` or `Forget`,
according to `stage` and the operation; `SyncDir` is `Settle`; every other step
but a power loss leaves the book alone.
From the other side, a step of a worker or a picker that touches the history is one of
these operations, as `WorkersKeepToLedger` and `PickerKeepsToLedger` show.  `Worker`
has the ledger's own variables; `Picker` has only the rows, so its theorem adds a
history variable `books`, the books settled so far, which no step of the picker reads.
In the same way `RouteHealthStore` implements `ObservationRegister` and
`CommandsKeepToRegister` shows, with a history variable `registers`, that each of the
two authorities of `MeshCommand` is one.

The inductive invariant of route health has the shape of the first one. `Places` says
that the snapshot a command checks against was in force during the command and that
its report still passes the checks, which is an invariant because the clock is not set
back; `Views` that a process past the checks writes its observation on top of what the
file says, by which rows only grow; and growth is why answers stay true when the lock
is gone.

Workers: types alone are not inductive, since a worker takes the route that
answered out of its candidates.  `Courses` says for each place what a worker has
tried, heard and opened there; it needs that recommending neither drops nor invents
a route, which is proved by counting, for each route, those that precede it.
`AllDeclared` adds that each candidate is declared by a configuration the worker
may have seen.  For usage, `AllGranted` bounds every book by the workers that are
*past* recording; that is stronger than the property, which also counts the worker
about to record, and only the stronger one is inductive.  A step that records adds
one to both sides.  Any other writes a part of the book merged under some mesh, and
merging maps the connections of the rows one to one onto those of the merged rows.

The other direction, `CountsAllThatWasEarned`, has two hypotheses.  `NothingFails` says
that no read or write fails, nobody forgets a host and no process or machine stops: each
of these may lose a connection, and rightly.  `HasRoom` says that the rows of the first
history and one for each worker are within the limit, or the oldest would be cut.  The
run `WorkerSafety` satisfies both.  The invariant `Exact` is the equation together
with a bound on the rows: a worker adds at most one row, folding adds none, so that
nothing is ever cut.  `TerminalOpensUnlessGone` rests on `AllRefused`, the reason why a
worker without destinations has ended, and on its course, by which one that has some
does not end before it opened one.

The loader: `AcceptedIsValid` needs to know, in the middle of the loop, what `values`
and `checked` stand for: the hosts compared so far are free of collisions and
`values` is the map from their identities to their owners.  `ReadsAsDeclared` needs
the same of `hosts` and the payload: what was read so far is the beginning of what
the file declares, and every check passed so far is one of `WellFormed`.

The picker: `SelectionIsKept` and `ListIsSorted` rest on one fact about sorting, that
the number of rows before a row is a bijection from the rows to 1 .. n where the
order is total, and on the rows having different keys.  `ForgetIsExact` and
`WorkerIsForHighlighted` rest on `Handed`, that a callback's key is the highlighted
row's since the window does not change while it waits, and on `Progress`, that the
key of a row found again names, under the callback's mesh, the host the row is for,
so that it is its own history key although the history is loaded again.
`ListAccountsForHistory` counts connections as pairs of a row and a number: a
connection of a history row is mapped to the list's row of the same key, at the place
where sorting puts it, which is one to one and onto (`RowsCount`), so the two sums
are equal without an induction over the rows.

Commands: `Sound` says of each command that what it has read is from the authority it
is bound to, that every document in the buffer or written makes a true claim, and what
the documents look like at each place.  A claim stays true because each register only
`Rises`, in the time of every status and in the newest of them, whoever writes it.  The
part about places is what `StatusFitsDocument` needs: only what a first write left in
the buffer can precede the error document of a second one.

Markers: a host can write a part of a marker only once the wrapper has written it
(`seen`), so each opening of this run's nonce on `stderr` is the wrapper's or comes
after it; and `stderr` is `rest` with the wrapper's two pieces put in, from which what
is left after a cut follows.

## Where the code and its documents differ

`MarkedTimeout` shows the first one and `ProbeDenied` the last; the others were met while modelling.

* The hard timeout of `run_marked_command` includes the domain command.  When it
  expires after the marker was written, the output is not searched for it
  (probe.py 274-282): the host counts as not reached, by a transport failure,
  although docs/reference/host-mesh-v1.md 206-207 reports `unreachable` only for a
  failure before the marker.
* A history row of the local host is listed (protocol.py 273-288) and Enter on it
  does nothing but show the list again (`NotLaunched`; protocol.py 471), while
  docs/guides/usage.md 10 says that Enter connects the highlighted listed host.
* A configuration that is refused in a callback is told in lines (cli.py 147) to a
  window that splits by tabs (protocol.py 201-204): the place `garbled` of `Picker`.
* An `OSError` while an answer is written leads to an error document behind it
  (cli.py 346), where contracts/host-mesh-v1/contract.md 20 has one document per
  command.  `StatusFitsDocument` and `AnswersAreTrue` say what holds all the same.
* A connect(2) that this machine denies, or a configuration that `ssh` may not read, makes
  it say "Permission denied", one of the words by which an answering server is known
  (probe.py 16, 106), and so does a jump host that refuses the user.  The probe then counts
  as answered, and a worker records the destination, although the docstring at probe.py 97
  and docs/guides/usage.md 81-82 speak of a server that answered: `ProbeMeansAnswered`.
  What does hold, `ProbeIsGrounded`, has the denial as its one exception.

## What is only model-checked, and what is left out

Liveness (`EveryOperationEnds`, `EveryReportEnds`, `DeclaredOrderReturns`,
`TerminalOpens`) is beyond the prover, as is whatever rests on `ENABLED`, and is checked
by TLC only.  Every invariant and every other action property of the passing runs is
also a theorem.  That the file's merge loop computes `Merge` row by row, and likewise
`_dedupe_aliases`, is not proved: it is an induction over the rows.

Not modelled: the scripts, the contract's schemas and fixtures, the package's entry
point, argument parsing, the construction of `ssh` argument lists and of shell text,
Mesh Plus (another repository behind `mesh.py`), and the wording, escaping and length
limits of everything that is shown.  Four hazards have no property: a route whose
casefolding exceeds the length limit that the route itself is within
(_legacy_mesh.py 708); a history that cannot be read for the moment (state.py 161) and
one of an unknown version (state.py 168), both taken for an empty one and written over,
as the ledger admits; and that every
output of a window is split in the way Rofi was told before it (protocol.py 201), of
which `Picker` keeps only the place `garbled`.
