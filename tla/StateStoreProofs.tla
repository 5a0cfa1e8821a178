--------------------------- MODULE StateStoreProofs ---------------------------
(***************************************************************************)
(* The invariants of StateStore, and that it implements UsageLedger, for   *)
(* any number of processes, any valid meshes, any documents and any mix of *)
(* kills, I/O errors and power losses.                                     *)
(***************************************************************************)
EXTENDS StateStore, HistoryProofs

\* The parts of a job have the types of their constants.
LEMMA JobType ==
    /\ AnyJob \in Jobs
    /\ \A j \in Jobs : /\ j.kind \in {"load", "record", "remove"}
                       /\ j.host \in Spellings /\ j.at \in Nat /\ j.mesh \in Meshes
                       /\ j.mesh = NoMesh \/ ValidMesh(j.mesh)
<1>1. AnyHost \in Targets /\ AnyTime \in Times
  BY WorldAssumption DEF AnyHost, AnyTime
<1>2. PICK mesh \in Meshes : TRUE
  BY WorldAssumption
<1>3. [kind |-> "load", host |-> AnyHost, at |-> AnyTime, mesh |-> mesh] \in Loads
  BY <1>2 DEF Loads
<1>4. AnyJob \in Jobs
  BY <1>3 DEF AnyJob, Jobs
<1>5. ASSUME NEW j \in Jobs
      PROVE  j.kind \in {"load", "record", "remove"} /\ j.host \in Targets
               /\ j.at \in Times /\ j.mesh \in Meshes
  BY <1>1 DEF Jobs, Loads, Records, Removes
<1> QED
  BY <1>4, <1>5, WorldAssumption

\* What documents say, and what is read from them, are rows and histories.
LEMMA DocumentFacts ==
    /\ IsDocument(Torn)
    /\ \A h : IsHistory(h) => IsDocument(Canonical(h))
    /\ \A doc : IsDocument(doc) => IsRows(AcceptedRows(doc))
    /\ \A doc, mesh : IsDocument(doc) /\ (mesh = NoMesh \/ ValidMesh(mesh))
         => IsHistory(ReadGeneric(mesh, doc)) /\ IsHistory(ReadLegacy(mesh, doc))
<1>1. IsDocument(Torn)
  BY EmptyType DEF IsDocument, Torn, Formats
<1>2. \A h : IsHistory(h) => IsDocument(Canonical(h))
  BY HistoryIsRows DEF IsDocument, Canonical, Formats
<1>3. \A doc : IsDocument(doc) => IsRows(AcceptedRows(doc))
  BY EmptyType DEF IsDocument, AcceptedRows
<1>4. ASSUME NEW doc, NEW mesh, IsDocument(doc), mesh = NoMesh \/ ValidMesh(mesh)
      PROVE  IsHistory(ReadGeneric(mesh, doc)) /\ IsHistory(ReadLegacy(mesh, doc))
  <2>1. IsRows(doc.rows)
    BY <1>4 DEF IsDocument
  <2>2. IsHistory(ReadGeneric(mesh, doc))
    BY <1>3, <1>4, StateFromPayloadType DEF ReadGeneric
  <2>3. IsHistory(ReadLegacy(mesh, doc))
    BY <1>4, <2>1, EmptyType, StateFromPayloadType DEF ReadLegacy
  <2> QED
    BY <2>2, <2>3
<1> QED
  BY <1>1, <1>2, <1>3, <1>4

-------------------------------------------------------------------------------
\* The type invariant holds at the start ...
LEMMA TypeInit == Init => TypeOK
<1> SUFFICES ASSUME Init PROVE TypeOK
  OBVIOUS
<1>1. IsDocument(file) /\ disk = {file}
  BY WorldAssumption DEF Init
<1>2. DOMAIN view = Procs /\ \A p \in Procs : IsHistory(view[p])
  BY EmptyType DEF Init
<1>3. recorded \in 0 .. MaxRecords
  BY WorldAssumption DEF Init
<1> QED
  BY <1>1, <1>2, <1>3, JobType DEF Init, TypeOK, Steps

\* ... and every action keeps it.
LEMMA TypeStep == TypeOK /\ [Next]_storeVars => TypeOK'
<1> SUFFICES ASSUME TypeOK, [Next]_storeVars PROVE TypeOK'
  OBVIOUS
<1> USE DEF TypeOK
<1>1. ASSUME NEW p \in Procs, Call(p) PROVE TypeOK'
  <2>1. recorded' \in 0 .. MaxRecords
    BY <1>1, WorldAssumption DEF Call
  <2> QED
    BY <1>1, <2>1 DEF Call, Goto, Steps
<1>2. ASSUME NEW p \in Procs, CannotLock(p) PROVE TypeOK'
  BY <1>2, JobType, EmptyType DEF CannotLock, Finish, Steps
<1>3. ASSUME NEW p \in Procs, Acquire(p) PROVE TypeOK'
  BY <1>3 DEF Acquire, Goto, Steps
<1>4. ASSUME NEW p \in Procs, Import(p) PROVE TypeOK'
  <2>1. PICK doc \in LegacyDocs : view' = [view EXCEPT ![p] = ReadLegacy(job[p].mesh, doc)]
    BY <1>4 DEF Import
  <2>2. IsHistory(ReadLegacy(job[p].mesh, doc))
    BY JobType, DocumentFacts, WorldAssumption
  <2> QED
    BY <1>4, <2>1, <2>2 DEF Import, Goto, Steps
<1>5. ASSUME NEW p \in Procs, Load(p) PROVE TypeOK'
  <2>1. IsHistory(ReadGeneric(job[p].mesh, file))
    BY JobType, DocumentFacts
  <2> QED
    BY <1>5, <2>1 DEF Load, Goto, Steps
<1>6. ASSUME NEW p \in Procs, Misread(p) PROVE TypeOK'
  BY <1>6, EmptyType DEF Misread, Goto, Steps
<1>7. ASSUME NEW p \in Procs, Answer(p) PROVE TypeOK'
  BY <1>7 DEF Answer, Goto, Steps
<1>8. ASSUME NEW p \in Procs, Update(p) PROVE TypeOK'
  <2>1. Key(p) \in Keys /\ job[p].at \in Nat
    BY JobType, HistoryKeyType DEF Key
  <2>2. IsHistory(AddSuccess(view[p], Key(p), job[p].at)) /\ IsHistory(Without(view[p], Key(p)))
    BY <2>1, AddSuccessType, WithoutType
  <2> QED
    BY <1>8, <2>2 DEF Update, Goto, Steps
<1>9. ASSUME NEW p \in Procs, WriteTemp(p) PROVE TypeOK'
  BY <1>9 DEF WriteTemp, Goto, Steps
<1>10. ASSUME NEW p \in Procs, Replace(p) PROVE TypeOK'
  BY <1>10, DocumentFacts DEF Replace, Goto, Steps
<1>11. ASSUME NEW p \in Procs, SyncDir(p) PROVE TypeOK'
  BY <1>11 DEF SyncDir, Goto, Steps
<1>12. ASSUME NEW p \in Procs, WriteFails(p) PROVE TypeOK'
  BY <1>12 DEF WriteFails, Steps
<1>13. ASSUME NEW p \in Procs, Release(p) PROVE TypeOK'
  BY <1>13, JobType, EmptyType DEF Release, Finish, Steps
<1>14. ASSUME NEW p \in Procs, Kill(p) PROVE TypeOK'
  BY <1>14, JobType, EmptyType DEF Kill, Finish, Steps
<1>15. CASE PowerLoss
  BY <1>15, JobType, EmptyType DEF PowerLoss, Steps
<1>16. CASE UNCHANGED storeVars
  BY <1>16 DEF storeVars
<1> QED
  BY <1>1, <1>2, <1>3, <1>4, <1>5, <1>6, <1>7, <1>8, <1>9, <1>10, <1>11, <1>12,
     <1>13, <1>14, <1>15, <1>16 DEF Next, Step

\* Every variable keeps its type; what is written is always a history.
THEOREM TypeCorrect == Spec => []TypeOK
  BY TypeInit, TypeStep, PTL DEF Spec

-------------------------------------------------------------------------------
\* Nobody is past the lock at the start ...
LEMMA LockInit == Init => MutualExclusion
  BY ProcsAssumption DEF Init, MutualExclusion

\* ... and every action keeps the lock with its holder.
LEMMA LockStep == TypeOK /\ MutualExclusion /\ [Next]_storeVars => MutualExclusion'
<1> SUFFICES ASSUME TypeOK, MutualExclusion, [Next]_storeVars PROVE MutualExclusion'
  OBVIOUS
<1> USE ProcsAssumption DEF MutualExclusion, TypeOK
<1>1. ASSUME NEW p \in Procs, Call(p) \/ CannotLock(p) \/ Acquire(p) PROVE MutualExclusion'
  BY <1>1 DEF Call, CannotLock, Acquire, Goto, Finish
<1>2. ASSUME NEW p \in Procs, Import(p) \/ Load(p) \/ Misread(p) \/ Answer(p) \/ Update(p)
      PROVE  MutualExclusion'
  BY <1>2 DEF Import, Load, Misread, Answer, Update, Goto
<1>3. ASSUME NEW p \in Procs, WriteTemp(p) \/ Replace(p) \/ SyncDir(p) \/ WriteFails(p)
      PROVE  MutualExclusion'
  BY <1>3 DEF WriteTemp, Replace, SyncDir, WriteFails, Goto
<1>4. ASSUME NEW p \in Procs, Release(p) \/ Kill(p) PROVE MutualExclusion'
  BY <1>4 DEF Release, Kill, Finish
<1>5. CASE PowerLoss
  BY <1>5 DEF PowerLoss
<1>6. CASE UNCHANGED storeVars
  BY <1>6 DEF storeVars
<1> QED
  BY <1>1, <1>2, <1>3, <1>4, <1>5, <1>6 DEF Next, Step

\* Two operations are never past the lock at the same time.
THEOREM LockIsExclusive == Spec => []MutualExclusion
<1>1. TypeOK /\ MutualExclusion /\ [Next]_storeVars => (TypeOK /\ MutualExclusion)'
  BY TypeStep, LockStep
<1> QED
  BY <1>1, TypeInit, LockInit, PTL DEF Spec

-------------------------------------------------------------------------------
\* Where an operation stands between its call and its answer.
HasProgress(p) ==
    /\ pc[p] \in {"idle", "lock", "load", "apply"} => stage[p] = "load" /\ ~wrote[p]
    /\ pc[p] \in {"temp", "replace"} => ~wrote[p]
    /\ pc[p] = "syncdir" => (wrote[p] <=> stage[p] = "operation")
    /\ pc[p] # "unlock" => reply[p] = "none"
Progress == \A p \in Procs : HasProgress(p)

\* No operation runs at the start ...
LEMMA ProgressInit == Init => Progress /\ RepliesTruthful
  BY DEF Init, Progress, HasProgress, RepliesTruthful

\* ... and every action keeps stage, write and reply in step.
LEMMA ProgressStep ==
    TypeOK /\ Progress /\ RepliesTruthful /\ [Next]_storeVars
        => Progress' /\ RepliesTruthful'
<1> SUFFICES ASSUME TypeOK, Progress, RepliesTruthful, [Next]_storeVars
             PROVE  Progress' /\ RepliesTruthful'
  OBVIOUS
<1> USE DEF TypeOK, Progress, HasProgress, RepliesTruthful
<1>1. ASSUME NEW p \in Procs, Call(p) \/ CannotLock(p) \/ Acquire(p)
      PROVE  Progress' /\ RepliesTruthful'
  BY <1>1 DEF Call, CannotLock, Acquire, Goto, Finish
<1>2. ASSUME NEW p \in Procs, Import(p) \/ Load(p) \/ Misread(p)
      PROVE  Progress' /\ RepliesTruthful'
  BY <1>2 DEF Import, Load, Misread, Goto
<1>3. ASSUME NEW p \in Procs, Answer(p) \/ Update(p)
      PROVE  Progress' /\ RepliesTruthful'
  BY <1>3 DEF Answer, Update, Goto
<1>4. ASSUME NEW p \in Procs, WriteTemp(p) PROVE Progress' /\ RepliesTruthful'
  BY <1>4 DEF WriteTemp, Goto
<1>5. ASSUME NEW p \in Procs, Replace(p) PROVE Progress' /\ RepliesTruthful'
  <2>1. pc' = [pc EXCEPT ![p] = "syncdir"] /\ UNCHANGED <<stage, reply, job>>
    BY <1>5 DEF Replace, Goto
  <2>2. wrote'[p] <=> stage'[p] = "operation"
    BY <1>5, <2>1 DEF Replace
  <2>3. \A q \in Procs : q # p => pc'[q] = pc[q] /\ wrote'[q] = wrote[q]
    BY <1>5, <2>1 DEF Replace
  <2>4. pc'[p] = "syncdir" /\ reply'[p] = "none"
    BY <1>5, <2>1 DEF Replace, Goto
  <2>5. \A q \in Procs : q # p => HasProgress(q)'
    BY <2>1, <2>3
  <2>6. HasProgress(p)'
    BY <2>1, <2>2, <2>4
  <2> QED
    BY <2>1, <2>3, <2>4, <2>5, <2>6
<1>6. ASSUME NEW p \in Procs, SyncDir(p) PROVE Progress' /\ RepliesTruthful'
  BY <1>6 DEF SyncDir, Goto
<1>7. ASSUME NEW p \in Procs, WriteFails(p) PROVE Progress' /\ RepliesTruthful'
  BY <1>7 DEF WriteFails
<1>8. ASSUME NEW p \in Procs, Release(p) \/ Kill(p) PROVE Progress' /\ RepliesTruthful'
  BY <1>8 DEF Release, Kill, Finish
<1>9. CASE PowerLoss
  BY <1>9 DEF PowerLoss
<1>10. CASE UNCHANGED storeVars
  BY <1>10 DEF storeVars
<1> QED
  BY <1>1, <1>2, <1>3, <1>4, <1>5, <1>6, <1>7, <1>8, <1>9, <1>10 DEF Next, Step

\* A recorded success is in the file when record_success returns, and is not
\* when it raises.
THEOREM RepliesAreTruthful == Spec => []RepliesTruthful
<1>1. TypeOK /\ Progress /\ RepliesTruthful /\ [Next]_storeVars
        => (TypeOK /\ Progress /\ RepliesTruthful)'
  BY TypeStep, ProgressStep
<1> QED
  BY <1>1, TypeInit, ProgressInit, PTL DEF Spec

-------------------------------------------------------------------------------
(***************************************************************************)
(* What a process holds while it is past the lock.  The inductive          *)
(* invariant adds to ViewIsOfFile that a held history is its own reading:  *)
(* its keys resolve to themselves under the mesh and it is within the      *)
(* limit, so that writing it and reading it again gives it back.           *)
(***************************************************************************)
IsOwn(mesh, h) == OwnKeys(mesh, h) /\ Within(h)

HoldsOwn(p) ==
    (\/ pc[p] \in {"apply", "temp", "replace", "syncdir"}
     \/ pc[p] = "unlock" /\ reply[p] = "ok") => IsOwn(job[p].mesh, view[p])
Answers(p) == pc[p] = "unlock" /\ reply[p] = "ok" => view[p] \in Readings(job[p].mesh)
Settles(p) ==
    (\/ pc[p] = "apply"
     \/ pc[p] = "unlock" /\ reply[p] = "ok")
    => ReadErrors \/ ~NeedsRewrite(job[p].mesh, file)
HasView(p) == HoldsView(p) /\ HoldsOwn(p) /\ Answers(p) /\ Settles(p)
Views == \A p \in Procs : HasView(p)

\* A process that has not read anything has nothing to keep.
LEMMA BeforeTheRead ==
    ASSUME NEW p \in Procs, pc'[p] \in {"idle", "lock", "load"}
    PROVE  HasView(p)'
  BY DEF HasView, HoldsView, HoldsOwn, Answers, Settles

\* A process keeps its view when neither it nor the file moves.
LEMMA ViewFrame ==
    ASSUME NEW p \in Procs, HasView(p), UNCHANGED file,
           pc'[p] = pc[p], job'[p] = job[p], view'[p] = view[p], stage'[p] = stage[p],
           flushed'[p] = flushed[p], reply'[p] = reply[p]
    PROVE  HasView(p)'
  BY DEF HasView, HoldsView, HoldsOwn, Answers, Settles, Present, Readings, IsResult, Key

\* A written history is read back as it is, and needs no rewriting.
LEMMA ReadBack ==
    ASSUME NEW mesh, NEW h, IsHistory(h), IsOwn(mesh, h)
    PROVE  ReadGeneric(mesh, Canonical(h)) = h /\ ~NeedsRewrite(mesh, Canonical(h))
<1>1. AcceptedRows(Canonical(h)) = h
  BY DEF AcceptedRows, Canonical
<1>2. ReadGeneric(mesh, Canonical(h)) = h
  BY <1>1, OwnKeysFolded DEF IsOwn, IsFolded, ReadGeneric
<1> QED
  BY <1>2 DEF NeedsRewrite, Canonical

\* No process holds a history at the start ...
LEMMA ViewsInit == Init => Views
  BY DEF Init, Views, HasView, HoldsView, HoldsOwn, Answers, Settles

\* ... and every action keeps each view a view of the file.
LEMMA ViewsStep ==
    TypeOK /\ MutualExclusion /\ Progress /\ Views /\ [Next]_storeVars => Views'
<1> SUFFICES ASSUME TypeOK, MutualExclusion, Progress, Views, [Next]_storeVars
             PROVE  Views'
  OBVIOUS
<1>t. /\ pc \in [Procs -> Steps] /\ job \in [Procs -> Jobs]
      /\ DOMAIN view = Procs /\ \A q \in Procs : IsHistory(view[q])
      /\ stage \in [Procs -> {"load", "operation"}] /\ flushed \in [Procs -> BOOLEAN]
      /\ reply \in [Procs -> {"none", "ok", "OSError"}]
      /\ IsDocument(file)
  BY DEF TypeOK
<1>m. \A q \in Procs : /\ job[q].kind \in {"load", "record", "remove"}
                       /\ job[q].host \in Spellings /\ job[q].at \in Nat
                       /\ job[q].mesh = NoMesh \/ ValidMesh(job[q].mesh)
  BY <1>t, JobType
<1>f. ASSUME NEW p \in Procs, UNCHANGED file, HasView(p)',
             \A q \in Procs \ {p} :
                /\ pc'[q] = pc[q] /\ job'[q] = job[q] /\ view'[q] = view[q]
                /\ stage'[q] = stage[q] /\ flushed'[q] = flushed[q] /\ reply'[q] = reply[q]
      PROVE  Views'
  BY <1>f, ViewFrame DEF Views
<1>1. ASSUME NEW p \in Procs, Call(p) \/ Acquire(p) PROVE Views'
  <2>1. pc'[p] \in {"idle", "lock", "load"}
    BY <1>1, <1>t DEF Call, Acquire, Goto
  <2> QED
    BY <1>1, <1>t, <2>1, <1>f, BeforeTheRead DEF Call, Acquire, Goto
<1>2. ASSUME NEW p \in Procs, CannotLock(p) \/ Release(p) \/ Kill(p) PROVE Views'
  <2>1. pc'[p] \in {"idle", "lock", "load"}
    BY <1>2, <1>t DEF CannotLock, Release, Kill, Finish
  <2> QED
    BY <1>2, <1>t, <2>1, <1>f, BeforeTheRead DEF CannotLock, Release, Kill, Finish
<1>3. ASSUME NEW p \in Procs, Import(p) PROVE Views'
  <2>1. PICK doc \in LegacyDocs : view' = [view EXCEPT ![p] = ReadLegacy(job[p].mesh, doc)]
    BY <1>3 DEF Import
  <2>2. /\ pc'[p] = "temp" /\ job'[p] = job[p] /\ stage'[p] = "load" /\ ~Present'
        /\ view'[p] = ReadLegacy(job[p].mesh, doc)
    BY <1>3, <1>t, <2>1 DEF Import, Goto, Present, Progress, HasProgress
  <2>3. IsOwn(job[p].mesh, view'[p])
    <3>1. IsRows(doc.rows)
      BY WorldAssumption DEF IsDocument
    <3> QED
      BY <1>m, <2>2, <3>1, ReadIsOwn, EmptyType DEF IsOwn, ReadLegacy
  <2>4. HasView(p)'
    BY <2>2, <2>3 DEF HasView, HoldsView, HoldsOwn, Answers, Settles
  <2> QED
    BY <1>3, <1>t, <2>1, <2>4, <1>f DEF Import, Goto
<1>4. ASSUME NEW p \in Procs, Load(p) PROVE Views'
  <2>1. /\ job'[p] = job[p] /\ stage'[p] = "load" /\ file' = file /\ Present'
        /\ view'[p] = ReadGeneric(job[p].mesh, file)
        /\ pc'[p] = IF NeedsRewrite(job[p].mesh, file) THEN "temp" ELSE "apply"
    BY <1>4, <1>t DEF Load, Goto, Present, Progress, HasProgress
  <2>2. IsOwn(job[p].mesh, view'[p])
    BY <1>t, <1>m, <2>1, DocumentFacts, ReadIsOwn DEF IsOwn, ReadGeneric
  <2>3. view'[p] \in Readings(job[p].mesh)'
    BY <2>1 DEF Readings
  <2>4. HasView(p)'
    BY <2>1, <2>2, <2>3 DEF HasView, HoldsView, HoldsOwn, Answers, Settles
  <2> QED
    BY <1>4, <1>t, <2>4, <1>f DEF Load, Goto
<1>5. ASSUME NEW p \in Procs, Misread(p) PROVE Views'
  <2>1. /\ job'[p] = job[p] /\ file' = file /\ Present' /\ ReadErrors
        /\ view'[p] = Empty /\ pc'[p] = "apply"
    BY <1>5, <1>t DEF Misread, Goto, Present
  <2>2. IsOwn(job[p].mesh, view'[p]) /\ view'[p] \in Readings(job[p].mesh)'
    BY <2>1, EmptyIsOwn DEF IsOwn, Readings
  <2>3. HasView(p)'
    BY <2>1, <2>2 DEF HasView, HoldsView, HoldsOwn, Answers, Settles
  <2> QED
    BY <1>5, <1>t, <2>3, <1>f DEF Misread, Goto
<1>6. ASSUME NEW p \in Procs, Answer(p) PROVE Views'
  <2>1. /\ job'[p] = job[p] /\ file' = file /\ view'[p] = view[p]
        /\ pc[p] = "apply" /\ pc'[p] = "unlock"
    BY <1>6, <1>t DEF Answer, Goto
  <2>2. HasView(p)
    BY DEF Views
  <2>3. HasView(p)'
    BY <2>1, <2>2 DEF HasView, HoldsView, HoldsOwn, Answers, Settles, Readings
  <2> QED
    BY <1>6, <1>t, <2>3, <1>f DEF Answer, Goto
<1>7. ASSUME NEW p \in Procs, Update(p) PROVE Views'
  <2>1. /\ job'[p] = job[p] /\ file' = file /\ pc[p] = "apply" /\ pc'[p] = "temp"
        /\ stage'[p] = "operation"
    BY <1>7, <1>t DEF Update, Goto
  <2>2. view[p] \in Readings(job[p].mesh) /\ Present /\ IsOwn(job[p].mesh, view[p])
    BY <2>1 DEF Views, HasView, HoldsView, HoldsOwn
  <2>3. IsResult(p, view[p], view'[p]) /\ IsOwn(job[p].mesh, view'[p])
    <3>1. CASE job[p].kind = "record" /\ view'[p] = AddSuccess(view[p], Key(p), job[p].at)
      <4>1. IsOwn(job[p].mesh, AddSuccess(view[p], Key(p), job[p].at))
        BY <1>t, <1>m, <2>2, SuccessIsOwn DEF IsOwn, Key
      <4> QED
        BY <3>1, <4>1 DEF IsResult
    <3>2. CASE /\ job[p].kind = "remove" /\ Key(p) \in DOMAIN view[p]
               /\ view'[p] = Without(view[p], Key(p))
      <4>1. IsOwn(job[p].mesh, Without(view[p], Key(p)))
        BY <1>t, <2>2, WithoutIsOwn DEF IsOwn
      <4> QED
        BY <3>2, <4>1 DEF IsResult
    <3> QED
      BY <1>7, <1>t, <3>1, <3>2 DEF Update
  <2>4. \E read \in Readings(job[p].mesh)' : IsResult(p, read, view[p])'
    BY <2>1, <2>2, <2>3 DEF Readings, IsResult, Key
  <2>5. HasView(p)'
    BY <2>1, <2>2, <2>3, <2>4 DEF HasView, HoldsView, HoldsOwn, Answers, Settles, Present
  <2> QED
    BY <1>7, <1>t, <2>5, <1>f DEF Update, Goto
<1>8. ASSUME NEW p \in Procs, WriteTemp(p) PROVE Views'
  <2>1. /\ job'[p] = job[p] /\ file' = file /\ view'[p] = view[p] /\ stage'[p] = stage[p]
        /\ pc[p] = "temp" /\ pc'[p] = "replace" /\ flushed'[p]
    BY <1>8, <1>t DEF WriteTemp, Goto
  <2>2. HasView(p)
    BY DEF Views
  <2>3. HasView(p)'
    BY <2>1, <2>2 DEF HasView, HoldsView, HoldsOwn, Answers, Settles, Readings, Present,
                      IsResult, Key
  <2> QED
    BY <1>8, <1>t, <2>3, <1>f DEF WriteTemp, Goto
<1>9. ASSUME NEW p \in Procs, Replace(p) PROVE Views'
  <2>1. /\ job'[p] = job[p] /\ view'[p] = view[p] /\ stage'[p] = stage[p]
        /\ pc[p] = "replace" /\ pc'[p] = "syncdir" /\ file' = Canonical(view[p])
    BY <1>9, <1>t DEF Replace, Goto
  <2>2. HasView(p)
    BY DEF Views
  <2>3. HasView(p)'
    BY <2>1, <2>2 DEF HasView, HoldsView, HoldsOwn, Answers, Settles
  <2>4. ASSUME NEW q \in Procs, q # p PROVE HasView(q)'
    <3>1. pc'[q] = pc[q] /\ pc[q] \in {"idle", "lock"}
      BY <1>9, <1>t, <2>1, <2>4 DEF Replace, Goto, MutualExclusion
    <3> QED
      BY <3>1, BeforeTheRead
  <2> QED
    BY <2>3, <2>4 DEF Views
<1>10. ASSUME NEW p \in Procs, SyncDir(p) PROVE Views'
  <2>1. /\ job'[p] = job[p] /\ file' = file /\ view'[p] = view[p] /\ pc[p] = "syncdir"
        /\ pc'[p] \in {"apply", "unlock"}
    BY <1>10, <1>t DEF SyncDir, Goto
  <2>2. file = Canonical(view[p]) /\ IsOwn(job[p].mesh, view[p])
    BY <2>1 DEF Views, HasView, HoldsView, HoldsOwn
  <2>3. ReadGeneric(job[p].mesh, file) = view[p] /\ ~NeedsRewrite(job[p].mesh, file)
    BY <1>t, <2>2, ReadBack
  <2>4. Present
    BY <2>2 DEF Present, Canonical
  <2>5. HasView(p)'
    BY <2>1, <2>2, <2>3, <2>4
       DEF HasView, HoldsView, HoldsOwn, Answers, Settles, Readings, Present
  <2> QED
    BY <1>10, <1>t, <2>5, <1>f DEF SyncDir, Goto
<1>11. ASSUME NEW p \in Procs, WriteFails(p) PROVE Views'
  <2>1. pc'[p] = "unlock" /\ reply'[p] = "OSError"
    BY <1>11, <1>t DEF WriteFails
  <2>2. HasView(p)'
    BY <2>1 DEF HasView, HoldsView, HoldsOwn, Answers, Settles
  <2> QED
    BY <1>11, <1>t, <2>2, <1>f DEF WriteFails
<1>12. CASE PowerLoss
  <2>1. \A q \in Procs : pc'[q] = "idle"
    BY <1>12 DEF PowerLoss
  <2> QED
    BY <2>1, BeforeTheRead DEF Views
<1>13. CASE UNCHANGED storeVars
  BY <1>13, ViewFrame DEF storeVars, Views
<1> QED
  BY <1>1, <1>2, <1>3, <1>4, <1>5, <1>6, <1>7, <1>8, <1>9, <1>10, <1>11, <1>12, <1>13
     DEF Next, Step

\* The inductive invariant.
IInv == TypeOK /\ MutualExclusion /\ Progress /\ RepliesTruthful /\ Views /\ NeverTorn

\* The first file is whole ...
LEMMA NeverTornInit == Init => NeverTorn
  BY WorldAssumption DEF Init, NeverTorn

\* ... and every action leaves whole files.
LEMMA NeverTornStep == Views /\ NeverTorn /\ [Next]_storeVars => NeverTorn'
<1> SUFFICES ASSUME Views, NeverTorn, [Next]_storeVars PROVE NeverTorn'
  OBVIOUS
<1> USE DEF NeverTorn
<1>1. ASSUME NEW p \in Procs, Replace(p) PROVE NeverTorn'
  <2>1. flushed[p]
    BY <1>1 DEF Replace, Goto, Views, HasView, HoldsView
  <2> QED
    BY <1>1, <2>1 DEF Replace, Canonical
<1>2. ASSUME NEW p \in Procs, SyncDir(p) PROVE NeverTorn'
  BY <1>2 DEF SyncDir
<1>3. ASSUME NEW p \in Procs, Call(p) \/ CannotLock(p) \/ Acquire(p) \/ Import(p) \/ Load(p)
      PROVE  NeverTorn'
  BY <1>3 DEF Call, CannotLock, Acquire, Import, Load
<1>4. ASSUME NEW p \in Procs, Misread(p) \/ Answer(p) \/ Update(p) \/ WriteTemp(p)
      PROVE  NeverTorn'
  BY <1>4 DEF Misread, Answer, Update, WriteTemp
<1>5. ASSUME NEW p \in Procs, WriteFails(p) \/ Release(p) \/ Kill(p) PROVE NeverTorn'
  BY <1>5 DEF WriteFails, Release, Kill
<1>6. CASE PowerLoss
  BY <1>6 DEF PowerLoss
<1>7. CASE UNCHANGED storeVars
  BY <1>7 DEF storeVars
<1> QED
  BY <1>1, <1>2, <1>3, <1>4, <1>5, <1>6, <1>7 DEF Next, Step

\* It holds in every state.
LEMMA Inductive == Spec => []IInv
<1>1. Init => IInv
  BY TypeInit, LockInit, ProgressInit, ViewsInit, NeverTornInit DEF IInv
<1>2. IInv /\ [Next]_storeVars => IInv'
  BY TypeStep, LockStep, ProgressStep, ViewsStep, NeverTornStep DEF IInv
<1> QED
  BY <1>1, <1>2, PTL DEF Spec

\* No process and no power loss ever leaves part of a history behind.
THEOREM HistoryIsNeverTorn == Spec => []NeverTorn
<1>1. IInv => NeverTorn
  BY DEF IInv
<1> QED
  BY <1>1, Inductive, PTL

\* What a process writes it made from what the file says when it writes.
THEOREM ViewsAreOfFile == Spec => []ViewIsOfFile
<1>1. IInv => ViewIsOfFile
  BY DEF IInv, Views, HasView, ViewIsOfFile
<1> QED
  BY <1>1, Inductive, PTL

\* The history an operation returns is that of the file.
THEOREM AnswersAreTrue == Spec => []AnswerIsTrue
<1>1. IInv => AnswerIsTrue
  BY DEF IInv, Views, HasView, Answers, AnswerIsTrue
<1> QED
  BY <1>1, Inductive, PTL

\* The mesh-aware migration of the rows is done once.
THEOREM RewritesSettle == Spec => []RewriteSettles
<1>1. IInv => RewriteSettles
  BY DEF IInv, Views, HasView, Settles, RewriteSettles
<1> QED
  BY <1>1, Inductive, PTL

-------------------------------------------------------------------------------
\* A rename keeps the time of every host that stays, where reads do not fail.
LEMMA RecencyStep ==
    IInv /\ [Next]_storeVars =>
        [\/ PowerLoss \/ ReadErrors
         \/ KeepsTimes(AcceptedRows(file), AcceptedRows(file'))]_file
<1> SUFFICES ASSUME IInv, [Next]_storeVars, ~ReadErrors, ~PowerLoss, file' # file
             PROVE  KeepsTimes(AcceptedRows(file), AcceptedRows(file'))
  OBVIOUS
<1>1. PICK p \in Procs : Replace(p)
  BY DEF Next, Step, storeVars, Call, CannotLock, Acquire, Import, Load, Misread, Answer,
         Update, WriteTemp, SyncDir, WriteFails, Release, Kill
<1> DEFINE mesh == job[p].mesh
           rows == AcceptedRows(file)
<1>2. pc[p] = "replace" /\ AcceptedRows(file') = view[p]
  BY <1>1 DEF Replace, Goto, AcceptedRows, Canonical
<1>3. HoldsView(p)
  BY DEF IInv, Views, HasView
<1>4. IsRows(rows) /\ (mesh = NoMesh \/ ValidMesh(mesh)) /\ job[p] \in Jobs
  BY JobType, DocumentFacts DEF IInv, TypeOK
<1>5. CASE stage[p] = "load" /\ ~Present
  BY <1>5 DEF Present, KeepsTimes, AcceptedRows, Empty
<1>6. CASE stage[p] = "load" /\ Present
  <2>1. view[p] = StateFromPayload(mesh, rows)
    BY <1>2, <1>3, <1>6 DEF HoldsView, ReadGeneric
  <2> QED
    BY <1>2, <1>4, <2>1, ReadKeepsTimes
<1>7. CASE stage[p] = "operation"
  <2> DEFINE read == StateFromPayload(mesh, rows)
  <2>1. IsResult(p, read, view[p])
    BY <1>2, <1>3, <1>7 DEF HoldsView, Readings, ReadGeneric
  <2>2. job[p].host \in Spellings /\ job[p].at \in Nat
    BY <1>4, JobType
  <2>3. Key(p) \in Keys /\ HistoryKey(mesh, Key(p)) = Key(p)
    BY <1>4, <2>2, HistoryKeyType, HistoryKeyIdempotent DEF Key
  <2>4. CASE view[p] = AddSuccess(read, Key(p), job[p].at)
    BY <1>2, <1>4, <2>2, <2>3, <2>4, ReadThenSuccessKeepsTimes
  <2>5. CASE view[p] = Without(read, Key(p))
    BY <1>2, <1>4, <2>5, ReadThenWithoutKeepsTimes
  <2> QED
    BY <2>1, <2>4, <2>5 DEF IsResult
<1> QED
  BY <1>5, <1>6, <1>7 DEF IInv, TypeOK

\* Where reads do not fail, a host that stays in the history never gets an older
\* time, also if the limit cut it and a late success brings it back.
THEOREM RecencyIsKept == Spec => RecencyNeverRegresses
<1>1. IInv /\ [Next]_storeVars =>
        [\/ PowerLoss \/ ReadErrors
         \/ \A k \in DOMAIN AcceptedRows(file) \cap DOMAIN AcceptedRows(file') :
               AcceptedRows(file')[k].last >= AcceptedRows(file)[k].last]_file
  BY RecencyStep DEF KeepsTimes
<1> QED
  BY <1>1, Inductive, PTL DEF Spec, RecencyNeverRegresses

-------------------------------------------------------------------------------
(***************************************************************************)
(* StateStore implements UsageLedger: a rename is the start of the book,   *)
(* a folding of it, one success or one Forget; the fsync of the directory  *)
(* settles it; every other step leaves it alone.                           *)
(***************************************************************************)
\* The ledger is an instance of its own: these are the operators it shares with
\* the store, shown to be the same.
LEMMA SameCardinality == \A S : Ledger!Cardinality(S) = Cardinality(S)
  BY DEF Ledger!Cardinality, Cardinality

\* History keys are the same.
LEMMA SameKeys == \A mesh, s : Ledger!HistoryKey(mesh, s) = HistoryKey(mesh, s)
  BY DEF Ledger!HistoryKey, HistoryKey, Ledger!ResolveToken, ResolveToken,
         Ledger!Matches, Matches, Ledger!Identities, Identities

\* Trimming is the same.
LEMMA SameTrim == \A h : Ledger!Trim(h) = Trim(h)
  BY SameCardinality DEF Ledger!Trim, Trim, Ledger!Kept, Kept, Ledger!Outranks, Outranks

\* Reading rows is the same.
LEMMA SameReading ==
    \A mesh, rows : Ledger!StateFromPayload(mesh, rows) = StateFromPayload(mesh, rows)
<1>1. \A mesh, rows, k : Ledger!RowsOf(mesh, rows, k) = RowsOf(mesh, rows, k)
  BY SameKeys DEF Ledger!RowsOf, RowsOf
<1>2. \A n : Ledger!PositiveInt(n) = PositiveInt(n)
  BY DEF Ledger!PositiveInt, PositiveInt
<1>3. \A n : Ledger!NonnegativeInt(n) = NonnegativeInt(n)
  BY DEF Ledger!NonnegativeInt, NonnegativeInt
<1>4. \A times : Ledger!Latest(times) = Latest(times)
  BY DEF Ledger!Latest, Latest
<1>5. \A mesh, rows, k : Ledger!Connections(mesh, rows, k) = Connections(mesh, rows, k)
  BY <1>1, <1>2 DEF Ledger!Connections, Connections
<1>6. \A mesh, rows : Ledger!Merge(mesh, rows) = Merge(mesh, rows)
  BY <1>1, <1>3, <1>4, <1>5, SameKeys, SameCardinality DEF Ledger!Merge, Merge
<1> QED
  BY <1>6, SameTrim DEF Ledger!StateFromPayload, StateFromPayload

\* Updates, imports and rows are the same.
LEMMA SameUpdates ==
    /\ \A h, k, at : Ledger!AddSuccess(h, k, at) = AddSuccess(h, k, at)
    /\ \A h, k : Ledger!Without(h, k) = Without(h, k)
    /\ \A mesh, doc : Ledger!ReadLegacy(mesh, doc) = ReadLegacy(mesh, doc)
    /\ \A rows : Ledger!IsRows(rows) <=> IsRows(rows)
    /\ Ledger!Empty = Empty
<1>1. \A h, k, at : Ledger!AddSuccess(h, k, at) = AddSuccess(h, k, at)
  BY SameTrim DEF Ledger!AddSuccess, AddSuccess, Ledger!Success, Success
<1>2. Ledger!Empty = Empty
  BY DEF Ledger!Empty, Empty
<1>3. \A mesh, doc : Ledger!ReadLegacy(mesh, doc) = ReadLegacy(mesh, doc)
  BY <1>2, SameReading DEF Ledger!ReadLegacy, ReadLegacy
<1>4. \A h, k : Ledger!Without(h, k) = Without(h, k)
  BY DEF Ledger!Without, Without
<1>5. \A rows : Ledger!IsRows(rows) <=> IsRows(rows)
  BY DEF Ledger!IsRows, IsRows
<1> QED
  BY <1>1, <1>2, <1>3, <1>4, <1>5

\* The first file stands for a settled book.
LEMMA LedgerBegins == Init => Ledger!LedgerInit
<1> SUFFICES ASSUME Init PROVE Ledger!LedgerInit
  OBVIOUS
<1>1. IsDocument(file) /\ disk = {file}
  BY WorldAssumption DEF Init
<1>2. Ledger!IsBook(BookOf(file))
  BY <1>1, DocumentFacts, SameUpdates DEF Ledger!IsBook, BookOf
<1>3. {BookOf(doc) : doc \in disk} = {BookOf(file)}
  BY <1>1
<1> QED
  BY <1>2, <1>3 DEF Ledger!LedgerInit

\* A rename is one operation of the ledger.
LEMMA ReplaceIsLedgerStep ==
    ASSUME IInv, NEW p \in Procs, Replace(p)
    PROVE  Ledger!LedgerNext
<1>1. /\ pc[p] = "replace" /\ file' = Canonical(view[p])
      /\ disk' = disk \cup {file'}
  <2>1. flushed[p]
    BY DEF IInv, Replace, Goto, Views, HasView, HoldsView
  <2> QED
    BY <2>1 DEF Replace, Goto
<1>2. BookOf(file') = Ledger!Started(view[p])
  BY <1>1 DEF BookOf, Canonical, AcceptedRows, Ledger!Started
<1>3. {BookOf(doc) : doc \in disk'}
        = {BookOf(doc) : doc \in disk} \cup {Ledger!Started(view[p])}
  BY <1>1, <1>2
<1>4. Ledger!Write(view[p])
  BY <1>2, <1>3 DEF Ledger!Write
<1>5. BookOf(file).started <=> Present
  BY DEF BookOf, Present
<1>6. BookOf(file).rows = AcceptedRows(file)
  BY DEF BookOf
<1>7. job[p] \in Jobs /\ job[p].mesh \in Meshes /\ stage[p] \in {"load", "operation"}
  BY JobType DEF IInv, TypeOK
<1>8. HoldsView(p)
  BY DEF IInv, Views, HasView
<1>9. CASE stage[p] = "load" /\ ~Present
  <2>1. PICK doc \in LegacyDocs : view[p] = ReadLegacy(job[p].mesh, doc)
    BY <1>1, <1>8, <1>9 DEF HoldsView
  <2>2. Ledger!Start
    BY <1>4, <1>5, <1>7, <1>9, <2>1, SameUpdates DEF Ledger!Start
  <2> QED
    BY <2>2 DEF Ledger!LedgerNext
<1>10. CASE stage[p] = "load" /\ Present
  <2>1. view[p] = StateFromPayload(job[p].mesh, BookOf(file).rows)
    BY <1>1, <1>6, <1>8, <1>10 DEF HoldsView, ReadGeneric
  <2>2. Ledger!Refold
    BY <1>4, <1>5, <1>7, <1>10, <2>1, SameReading DEF Ledger!Refold
  <2> QED
    BY <2>2 DEF Ledger!LedgerNext
<1>11. CASE stage[p] = "operation"
  <2>1. PICK read \in Readings(job[p].mesh) : IsResult(p, read, view[p])
    BY <1>1, <1>8, <1>11 DEF HoldsView
  <2>2. Present
    BY <1>1, <1>8, <1>11 DEF HoldsView
  <2>3. read \in Ledger!Readings(job[p].mesh)
    BY <1>6, <2>1, SameReading, SameUpdates DEF Readings, Ledger!Readings, ReadGeneric
  <2>4. CASE job[p].kind = "record"
    <3>1. job[p].host \in Targets /\ job[p].at \in Times
      BY <1>7, <2>4 DEF Jobs, Loads, Records, Removes
    <3>2. view[p] = AddSuccess(read, HistoryKey(job[p].mesh, job[p].host), job[p].at)
      BY <2>1, <2>4 DEF IsResult, Key
    <3>3. Ledger!RecordSuccess
      BY <1>4, <1>5, <1>7, <2>2, <2>3, <3>1, <3>2,
         SameKeys, SameUpdates DEF Ledger!RecordSuccess
    <3> QED
      BY <3>3 DEF Ledger!LedgerNext
  <2>5. CASE job[p].kind # "record"
    <3>1. job[p].kind = "remove" /\ job[p].host \in Targets
      BY <1>7, <2>1, <2>5 DEF IsResult, Jobs, Loads, Records, Removes
    <3>2. /\ HistoryKey(job[p].mesh, job[p].host) \in DOMAIN read
          /\ view[p] = Without(read, HistoryKey(job[p].mesh, job[p].host))
      BY <2>1, <2>5 DEF IsResult, Key
    <3>3. Ledger!Forget
      BY <1>4, <1>5, <1>7, <2>2, <2>3, <3>1, <3>2,
         SameKeys, SameUpdates DEF Ledger!Forget
    <3> QED
      BY <3>3 DEF Ledger!LedgerNext
  <2> QED
    BY <2>4, <2>5
<1> QED
  BY <1>7, <1>9, <1>10, <1>11

\* Every step of the store is a step of the ledger or leaves it alone.
LEMMA LedgerStep ==
    IInv /\ [Next]_storeVars => [Ledger!LedgerNext]_(Ledger!ledgerVars)
<1> SUFFICES ASSUME IInv, [Next]_storeVars
             PROVE  Ledger!LedgerNext \/ UNCHANGED Ledger!ledgerVars
  OBVIOUS
<1>u. UNCHANGED <<file, disk>> => UNCHANGED Ledger!ledgerVars
  BY DEF Ledger!ledgerVars
<1>1. ASSUME NEW p \in Procs, Replace(p) PROVE Ledger!LedgerNext
  BY <1>1, ReplaceIsLedgerStep
<1>2. ASSUME NEW p \in Procs, SyncDir(p)
      PROVE  Ledger!LedgerNext \/ UNCHANGED Ledger!ledgerVars
  <2>1. file' = file /\ (disk' = {file} \/ disk' = disk)
    BY <1>2 DEF SyncDir
  <2>2. CASE disk' = {file}
    <3>1. {BookOf(doc) : doc \in disk'} = {BookOf(file)}
      BY <2>2
    <3>2. Ledger!Settle
      BY <2>1, <3>1 DEF Ledger!Settle
    <3> QED
      BY <3>2 DEF Ledger!LedgerNext
  <2> QED
    BY <1>u, <2>1, <2>2
<1>3. ASSUME NEW p \in Procs, Call(p) \/ CannotLock(p) \/ Acquire(p) \/ Import(p) \/ Load(p)
      PROVE  UNCHANGED <<file, disk>>
  BY <1>3 DEF Call, CannotLock, Acquire, Import, Load
<1>4. ASSUME NEW p \in Procs, Misread(p) \/ Answer(p) \/ Update(p) \/ WriteTemp(p)
      PROVE  UNCHANGED <<file, disk>>
  BY <1>4 DEF Misread, Answer, Update, WriteTemp
<1>5. ASSUME NEW p \in Procs, WriteFails(p) \/ Release(p) \/ Kill(p)
      PROVE  UNCHANGED <<file, disk>>
  BY <1>5 DEF WriteFails, Release, Kill
<1>6. CASE PowerLoss
  <2>1. file' \in disk /\ disk' = {file'}
    BY <1>6 DEF PowerLoss
  <2>2. /\ BookOf(file') \in {BookOf(doc) : doc \in disk}
        /\ {BookOf(doc) : doc \in disk'} = {BookOf(file')}
    BY <2>1
  <2>3. Ledger!PowerLoss
    BY <2>2 DEF Ledger!PowerLoss
  <2> QED
    BY <2>3 DEF Ledger!LedgerNext
<1>7. CASE UNCHANGED storeVars
  BY <1>7, <1>u DEF storeVars
<1> QED
  BY <1>u, <1>1, <1>2, <1>3, <1>4, <1>5, <1>6, <1>7 DEF Next, Step

\* However the processes interleave, are killed, fail or lose power, the store
\* behaves as one ledger that whole operations update one after the other.
THEOREM StoreImplementsLedger == Spec => ImplementsLedger
<1>1. Spec => Ledger!LedgerInit
  BY LedgerBegins, PTL DEF Spec
<1> QED
  BY <1>1, LedgerStep, Inductive, PTL DEF Spec, ImplementsLedger, Ledger!LedgerSpec

===============================================================================
