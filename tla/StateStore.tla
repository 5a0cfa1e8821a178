------------------------------ MODULE StateStore ------------------------------
(***************************************************************************)
(* StateStore (state.py): the connection history shared by every picker    *)
(* and every detached worker of one user.                                  *)
(*                                                                         *)
(* A process runs load, record_success or remove under an advisory lock;   *)
(* each of them reads the file, imports the file of the DankMaterialShell  *)
(* plugin when there is none, folds the rows under the mesh the process    *)
(* loaded, and writes by temporary file, fsync, rename and fsync of the    *)
(* directory.  Processes interleave between these steps, can be killed at  *)
(* any of them, can meet an I/O error at most of them, and the machine can *)
(* lose power at any moment.                                               *)
(***************************************************************************)
EXTENDS HistoryData

CONSTANTS Procs,         \* the processes that share the file
          NoProc,        \* holder of a free lock
          Meshes,        \* the configurations a process may have loaded
          Targets,       \* the hosts that record_success and remove are asked for
          Times,         \* the values of the clock when record_success reads it
          InitialDocs,   \* the history file to begin with
          LegacyDocs,    \* what the DankMaterialShell file may hold
          ReadErrors,    \* may reading an intact file raise OSError?
          WriteErrors,   \* may locking and writing raise OSError?
          Kills,         \* may a process be killed?
          PowerLosses,   \* may the machine lose power?
          MaxRecords     \* bound of the model: calls of record_success

ASSUME ProcsAssumption == NoProc \notin Procs

ASSUME WorldAssumption ==
    /\ Meshes # {} /\ \A mesh \in Meshes : mesh = NoMesh \/ ValidMesh(mesh)
    /\ Targets # {} /\ Targets \subseteq Spellings
    /\ Times # {} /\ Times \subseteq Nat
    /\ \A doc \in InitialDocs : IsDocument(doc) /\ doc.format # "torn"
    /\ Absent \in LegacyDocs /\ \A doc \in LegacyDocs : IsDocument(doc)
    /\ {ReadErrors, WriteErrors, Kills, PowerLosses} \subseteq BOOLEAN
    /\ MaxRecords \in Nat

VARIABLES file,      \* history.json as every process sees it
          disk,      \* the contents a power loss may leave there
          lock,      \* holder of the flock on .history.json.lock
          pc,        \* where each process is
          job,       \* the operation it runs
          view,      \* the history it holds: as loaded, then the one it returns
          stage,     \* the write it is at: that of the load or of the operation
          flushed,   \* has its temporary file been fsynced?
          reply,     \* how the operation ends: "ok", or the exception it raises
          wrote,     \* has the operation's own write replaced the file?
          recorded   \* calls of record_success so far

storeVars == <<file, disk, lock, pc, job, view, stage, flushed, reply, wrote, recorded>>

Steps == {"idle", "lock", "load", "apply", "temp", "replace", "syncdir", "unlock"}

\* What a call is made with, and what it computes before it takes the lock;
\* load names no host, and only record_success reads the clock.
AnyHost == CHOOSE s \in Targets : TRUE
AnyTime == CHOOSE t \in Times : TRUE
Loads   == [kind : {"load"}, host : {AnyHost}, at : {AnyTime}, mesh : Meshes]
Records == [kind : {"record"}, host : Targets, at : Times, mesh : Meshes]
Removes == [kind : {"remove"}, host : Targets, at : {AnyTime}, mesh : Meshes]
Jobs == Loads \cup Records \cup Removes
AnyJob == CHOOSE j \in Loads : TRUE
Key(p) == HistoryKey(job[p].mesh, job[p].host)

-------------------------------------------------------------------------------
Init ==
    /\ file \in InitialDocs
    /\ disk = {file}
    /\ lock = NoProc
    /\ pc = [p \in Procs |-> "idle"]
    /\ job = [p \in Procs |-> AnyJob]
    /\ view = [p \in Procs |-> Empty]
    /\ stage = [p \in Procs |-> "load"]
    /\ flushed = [p \in Procs |-> FALSE]
    /\ reply = [p \in Procs |-> "none"]
    /\ wrote = [p \in Procs |-> FALSE]
    /\ recorded = 0

Goto(p, from, to) == pc[p] = from /\ pc' = [pc EXCEPT ![p] = to]

\* The operation is over: returned, raised or killed.
Finish(p) ==
    /\ pc' = [pc EXCEPT ![p] = "idle"]
    /\ job' = [job EXCEPT ![p] = AnyJob]
    /\ view' = [view EXCEPT ![p] = Empty]
    /\ stage' = [stage EXCEPT ![p] = "load"]
    /\ flushed' = [flushed EXCEPT ![p] = FALSE]
    /\ reply' = [reply EXCEPT ![p] = "none"]
    /\ wrote' = [wrote EXCEPT ![p] = FALSE]

\* load, record_success or remove is called.  The key and the timestamp are
\* computed now, before the lock, under the mesh the process loaded earlier.
Call(p) ==
    /\ Goto(p, "idle", "lock")
    /\ \E j \in Jobs :
          /\ job' = [job EXCEPT ![p] = j]
          /\ IF j.kind = "record"
             THEN recorded < MaxRecords /\ recorded' = recorded + 1
             ELSE UNCHANGED recorded
    /\ UNCHANGED <<file, disk, lock, view, stage, flushed, reply, wrote>>

\* _locked: the directory or the lock file cannot be made; nothing was read.
CannotLock(p) ==
    /\ WriteErrors
    /\ pc[p] = "lock"
    /\ Finish(p)
    /\ UNCHANGED <<file, disk, lock, recorded>>

Acquire(p) ==
    /\ lock = NoProc
    /\ lock' = p
    /\ Goto(p, "lock", "load")
    /\ UNCHANGED <<file, disk, recorded, job, view, stage, flushed, reply, wrote>>

-------------------------------------------------------------------------------
\* (mutant) A file that does not parse counts as a missing one: imported again.
Import_Corrupt(p) ==
    /\ file.format \in {"absent", "garbage"}
    /\ Goto(p, "load", "temp")
    /\ \E doc \in LegacyDocs : view' = [view EXCEPT ![p] = ReadLegacy(job[p].mesh, doc)]
    /\ UNCHANGED <<file, disk, lock, recorded, job, stage, flushed, reply, wrote>>

\* _load_and_initialize_unlocked without a file: import, and always write.  The
\* DankMaterialShell plugin owns its file and may have written or removed it by
\* now, so the read finds any of its contents.
Import(p) ==
    /\ file.format = "absent"
    /\ Goto(p, "load", "temp")
    /\ \E doc \in LegacyDocs : view' = [view EXCEPT ![p] = ReadLegacy(job[p].mesh, doc)]
    /\ UNCHANGED <<file, disk, lock, recorded, job, stage, flushed, reply, wrote>>

\* (mutant) The folded history is never written back.
Load_ReadOnly(p) ==
    /\ file.format # "absent"
    /\ Goto(p, "load", "apply")
    /\ view' = [view EXCEPT ![p] = ReadGeneric(job[p].mesh, file)]
    /\ UNCHANGED <<file, disk, lock, recorded, job, stage, flushed, reply, wrote>>

\* ... with a file: read it, and rewrite it if the mesh changes what it says.
Load(p) ==
    /\ file.format # "absent"
    /\ Goto(p, "load", IF NeedsRewrite(job[p].mesh, file) THEN "temp" ELSE "apply")
    /\ view' = [view EXCEPT ![p] = ReadGeneric(job[p].mesh, file)]
    /\ UNCHANGED <<file, disk, lock, recorded, job, stage, flushed, reply, wrote>>

\* ... with a file that cannot be read just now: an empty history.
Misread(p) ==
    /\ ReadErrors
    /\ file.format # "absent"
    /\ Goto(p, "load", "apply")
    /\ view' = [view EXCEPT ![p] = Empty]
    /\ UNCHANGED <<file, disk, lock, recorded, job, stage, flushed, reply, wrote>>

\* The body of load, and of a remove that finds nothing to remove.
Answer(p) ==
    /\ \/ job[p].kind = "load"
       \/ job[p].kind = "remove" /\ Key(p) \notin DOMAIN view[p]
    /\ Goto(p, "apply", "unlock")
    /\ reply' = [reply EXCEPT ![p] = "ok"]
    /\ UNCHANGED <<file, disk, lock, recorded, job, view, stage, flushed, wrote>>

\* The body of record_success and of remove, up to the write.
Update(p) ==
    /\ Goto(p, "apply", "temp")
    /\ \/ /\ job[p].kind = "record"
          /\ view' = [view EXCEPT ![p] = AddSuccess(view[p], Key(p), job[p].at)]
       \/ /\ job[p].kind = "remove" /\ Key(p) \in DOMAIN view[p]
          /\ view' = [view EXCEPT ![p] = Without(view[p], Key(p))]
    /\ stage' = [stage EXCEPT ![p] = "operation"]
    /\ UNCHANGED <<file, disk, lock, recorded, job, flushed, reply, wrote>>

-------------------------------------------------------------------------------
\* (mutant) The temporary file is not fsynced.
WriteTemp_Unsynced(p) ==
    /\ Goto(p, "temp", "replace")
    /\ UNCHANGED <<file, disk, lock, recorded, job, view, stage, flushed, reply, wrote>>

\* _write_unlocked: a temporary file is written and fsynced, which no other
\* process sees ...
WriteTemp(p) ==
    /\ Goto(p, "temp", "replace")
    /\ flushed' = [flushed EXCEPT ![p] = TRUE]
    /\ UNCHANGED <<file, disk, lock, recorded, job, view, stage, reply, wrote>>

\* ... then renamed.  Until the directory is synced a power loss may leave the
\* old file; data not fsynced could be lost behind a rename that was kept.
Replace(p) ==
    /\ Goto(p, "replace", "syncdir")
    /\ file' = Canonical(view[p])
    /\ disk' = disk \cup {IF flushed[p] THEN file' ELSE Torn}
    /\ wrote' = [wrote EXCEPT ![p] = stage[p] = "operation"]
    /\ flushed' = [flushed EXCEPT ![p] = FALSE]
    /\ UNCHANGED <<lock, recorded, job, view, stage, reply>>

\* (mutant) An OSError of the directory's fsync leaves the operation.
SyncDir_Raises(p) ==
    /\ WriteErrors
    /\ Goto(p, "syncdir", "unlock")
    /\ reply' = [reply EXCEPT ![p] = "OSError"]
    /\ UNCHANGED <<file, disk, lock, recorded, job, view, stage, flushed, wrote>>

\* The fsync of the directory; an OSError there is passed over.  The write of
\* the load goes on to the operation, that of the operation ends it.
SyncDir(p) ==
    /\ \/ disk' = {file}
       \/ WriteErrors /\ UNCHANGED disk
    /\ Goto(p, "syncdir", IF stage[p] = "load" THEN "apply" ELSE "unlock")
    /\ reply' = [reply EXCEPT ![p] = IF stage[p] = "load" THEN "none" ELSE "ok"]
    /\ UNCHANGED <<file, lock, recorded, job, view, stage, flushed, wrote>>

\* (mutant) The exception leaves _locked without its finally clause.
WriteFails_KeepsLock(p) ==
    /\ WriteErrors
    /\ pc[p] \in {"temp", "replace"}
    /\ Finish(p)
    /\ UNCHANGED <<file, disk, lock, recorded>>

\* mkstemp, the write, its fsync or the rename raises: the temporary file is
\* unlinked and the exception leaves the operation.
WriteFails(p) ==
    /\ WriteErrors
    /\ pc[p] \in {"temp", "replace"}
    /\ pc' = [pc EXCEPT ![p] = "unlock"]
    /\ flushed' = [flushed EXCEPT ![p] = FALSE]
    /\ reply' = [reply EXCEPT ![p] = "OSError"]
    /\ UNCHANGED <<file, disk, lock, recorded, job, view, stage, wrote>>

Release(p) ==
    /\ pc[p] = "unlock"
    /\ lock' = NoProc
    /\ Finish(p)
    /\ UNCHANGED <<file, disk, recorded>>

-------------------------------------------------------------------------------
\* The process is killed; the kernel drops its flock.
Kill(p) ==
    /\ Kills
    /\ pc[p] # "idle"
    /\ lock' = IF lock = p THEN NoProc ELSE lock
    /\ Finish(p)
    /\ UNCHANGED <<file, disk, recorded>>

PowerLoss ==
    /\ PowerLosses
    /\ file' \in disk
    /\ disk' = {file'}
    /\ lock' = NoProc
    /\ pc' = [p \in Procs |-> "idle"]
    /\ job' = [p \in Procs |-> AnyJob]
    /\ view' = [p \in Procs |-> Empty]
    /\ stage' = [p \in Procs |-> "load"]
    /\ flushed' = [p \in Procs |-> FALSE]
    /\ reply' = [p \in Procs |-> "none"]
    /\ wrote' = [p \in Procs |-> FALSE]
    /\ UNCHANGED recorded

Step(p) ==
    \/ Misread(p) \/ Import(p) \/ Load(p) \/ Answer(p) \/ Update(p)
    \/ WriteTemp(p) \/ Replace(p) \/ SyncDir(p) \/ WriteFails(p)
    \/ Release(p)

Next ==
    \/ \E p \in Procs : Call(p) \/ CannotLock(p) \/ Acquire(p) \/ Step(p) \/ Kill(p)
    \/ PowerLoss

Spec == Init /\ [][Next]_storeVars

\* A process that runs goes on; flock wakes its waiters, so one that waits for
\* a lock which is free again and again gets it.  No call has to come.
FairSpec ==
    /\ Spec
    /\ \A p \in Procs : WF_storeVars(Step(p)) /\ SF_storeVars(Acquire(p))

-------------------------------------------------------------------------------
TypeOK ==
    /\ \A doc \in disk \cup {file} : IsDocument(doc)
    /\ lock \in Procs \cup {NoProc}
    /\ pc \in [Procs -> Steps]
    /\ job \in [Procs -> Jobs]
    /\ DOMAIN view = Procs /\ \A p \in Procs : IsHistory(view[p])
    /\ stage \in [Procs -> {"load", "operation"}]
    /\ flushed \in [Procs -> BOOLEAN]
    /\ reply \in [Procs -> {"none", "ok", "OSError"}]
    /\ wrote \in [Procs -> BOOLEAN]
    /\ recorded \in 0 .. MaxRecords

\* Only the holder of the flock is past it, and a process that is past it holds
\* it: what record_success read is still in the file when it writes.
MutualExclusion == \A p \in Procs : lock = p <=> pc[p] \notin {"idle", "lock"}

\* What a process may have taken the file for: what it says, or nothing at all.
Readings(mesh) ==
    {ReadGeneric(mesh, file)} \cup (IF ReadErrors THEN {Empty} ELSE {})

\* What record_success or remove makes of the history it read.
IsResult(p, read, result) ==
    \/ job[p].kind = "record" /\ result = AddSuccess(read, Key(p), job[p].at)
    \/ /\ job[p].kind = "remove"
       /\ Key(p) \in DOMAIN read
       /\ result = Without(read, Key(p))

\* The history a process holds at each step, and the file it comes from or has
\* become: no step of another process comes between the read and the write.
Present == file.format # "absent"
HoldsView(p) ==
    /\ pc[p] = "apply" => Present /\ view[p] \in Readings(job[p].mesh)
    /\ pc[p] \in {"temp", "replace"} /\ stage[p] = "load" =>
          IF Present
          THEN view[p] = ReadGeneric(job[p].mesh, file)
          ELSE \E doc \in LegacyDocs : view[p] = ReadLegacy(job[p].mesh, doc)
    /\ pc[p] \in {"temp", "replace"} /\ stage[p] = "operation" =>
          Present /\ \E read \in Readings(job[p].mesh) : IsResult(p, read, view[p])
    /\ pc[p] = "replace" => flushed[p]
    /\ pc[p] = "syncdir" => file = Canonical(view[p])
ViewIsOfFile == \A p \in Procs : HoldsView(p)

\* The history an operation returns is what a reader with its mesh finds in the
\* file at that moment; the picker renders from it without reading again.
AnswerIsTrue ==
    \A p \in Procs : pc[p] = "unlock" /\ reply[p] = "ok"
        => view[p] \in Readings(job[p].mesh)

\* Once a process with a mesh has loaded the history, the file is in the form
\* that mesh gives it, and stays so through the operation: a second load by the
\* same mesh merges nothing twice and rewrites nothing.
RewriteSettles ==
    \A p \in Procs :
        (\/ pc[p] = "apply"
         \/ pc[p] = "unlock" /\ reply[p] = "ok")
        => ReadErrors \/ ~NeedsRewrite(job[p].mesh, file)

\* Neither a reader nor a power loss at any moment finds half a file: data is
\* fsynced before it is renamed over the history.
NeverTorn == \A doc \in disk \cup {file} : doc.format # "torn"

\* record_success returns only when its success is in the file, and raises only
\* when it is not: a caller that is told of an error may try again.
RepliesTruthful ==
    \A p \in Procs : pc[p] = "unlock" =>
        /\ reply[p] = "ok" /\ job[p].kind = "record" => wrote[p]
        /\ reply[p] # "ok" => ~wrote[p]

\* A host that stays in the history never gets an older time: neither from a
\* clock that was set back, nor from a worker that took the lock late, nor from
\* merging rows.  Only a power loss brings back an earlier file, and only a read
\* that fails makes the store forget a time.
RecencyNeverRegresses ==
    [][\/ PowerLoss \/ ReadErrors
       \/ \A k \in DOMAIN AcceptedRows(file) \cap DOMAIN AcceptedRows(file') :
             AcceptedRows(file')[k].last >= AcceptedRows(file)[k].last]_file

\* The book that a document of the disk stands for.
BookOf(doc) == [started |-> doc.format # "absent", rows |-> AcceptedRows(doc)]

Ledger == INSTANCE UsageLedger
    WITH book <- BookOf(file),
         settled <- {BookOf(doc) : doc \in disk},
         Imports <- LegacyDocs,
         UnreadableBooks <- ReadErrors

\* The store is one ledger of usage: each rename is one whole operation on the
\* history as it is then.  No update is lost to a concurrent one, none counts
\* twice, the import happens once, and a crash leaves a whole history.
ImplementsLedger == Ledger!LedgerSpec

\* An operation that waits for the lock, or holds it, comes to its end.
EveryOperationEnds == \A p \in Procs : pc[p] # "idle" ~> pc[p] = "idle"

===============================================================================
