-------------------------- MODULE RouteHealthProofs ---------------------------
(***************************************************************************)
(* The invariants of RouteHealthStore, and that it implements              *)
(* ObservationRegister, for any number of reporters, any configurations,   *)
(* any reports and any mix of edits, kills, errors and power losses.       *)
(***************************************************************************)
EXTENDS RouteHealthStore, TLAPS

USE DEF Statuses, Never

\* The newest time of a route bounds both, and is one of them.
LEMMA NewestBounds ==
    ASSUME NEW h \in Healths
    PROVE  /\ NewestAt(h) \in Nat \cup {Never}
           /\ \A status \in Statuses : h[status] \in Nat \cup {Never} /\ h[status] <= NewestAt(h)
           /\ \E status \in Statuses : NewestAt(h) = h[status]
  BY DEF Healths, NewestAt

\* A route without a record has a record without times.
LEMMA HealthOfType ==
    ASSUME NEW rows, IsHealth(rows), NEW key
    PROVE  HealthOf(rows, key) \in Healths
  BY DEF IsHealth, HealthOf, NoHealth, Healths

\* Recording an observation yields route health.
LEMMA ObserveType ==
    ASSUME NEW rows, IsHealth(rows), NEW key \in Routes, NEW status \in Statuses, NEW at \in Nat
    PROVE  IsHealth(Observe(rows, key, status, at))
<1> DEFINE new == Observe(rows, key, status, at)
<1>1. DOMAIN new = DOMAIN rows \cup {key}
  BY DEF Observe
<1>2. ASSUME NEW k \in DOMAIN new PROVE new[k] \in Healths
  <2>1. CASE k = key
    <3>1. HealthOf(rows, key) \in Healths
      BY HealthOfType
    <3>2. new[k] = [HealthOf(rows, key) EXCEPT ![status] = at]
      BY <2>1 DEF Observe
    <3> QED
      BY <3>1, <3>2 DEF Healths
  <2>2. CASE k # key
    BY <1>1, <2>2 DEF Observe, IsHealth
  <2> QED
    BY <2>1, <2>2
<1>3. new \in [DOMAIN new -> Healths]
  BY <1>2 DEF Observe
<1> QED
  BY <1>1, <1>3 DEF IsHealth

\* No time of the old rows is lost or set back in the new ones.
Grows(old, new) ==
    \A key \in DOMAIN old :
        /\ key \in DOMAIN new
        /\ \A status \in Statuses : new[key][status] >= old[key][status]

\* An observation newer than all there is for its route is known afterwards, and
\* everything that was known still is.
LEMMA ObserveGrows ==
    ASSUME NEW rows, IsHealth(rows), NEW key, NEW status \in Statuses, NEW at \in Nat,
           at > NewestAt(HealthOf(rows, key))
    PROVE  /\ Grows(rows, Observe(rows, key, status, at))
           /\ HealthOf(Observe(rows, key, status, at), key)[status] = at
           /\ NewestAt(HealthOf(Observe(rows, key, status, at), key)) = at
<1> DEFINE new == Observe(rows, key, status, at)
<1>1. DOMAIN new = DOMAIN rows \cup {key} /\ \A k \in DOMAIN rows : k # key => new[k] = rows[k]
  BY DEF Observe
<1>2. new[key] = [HealthOf(rows, key) EXCEPT ![status] = at]
  BY DEF Observe
<1>3. HealthOf(rows, key) \in Healths /\ HealthOf(new, key) = new[key]
  BY <1>1, HealthOfType DEF HealthOf
<1>4. \A s \in Statuses : new[key][s] >= HealthOf(rows, key)[s]
  BY <1>2, <1>3, NewestBounds DEF Healths
<1>5. \A k \in DOMAIN rows : \A s \in Statuses : rows[k][s] \in Nat \cup {Never}
  BY DEF IsHealth, Healths
<1>6. Grows(rows, new)
  <2>1. ASSUME NEW k \in DOMAIN rows, NEW s \in Statuses PROVE new[k][s] >= rows[k][s]
    <3>1. CASE k = key
      BY <1>4, <3>1 DEF HealthOf
    <3>2. CASE k # key
      BY <1>1, <1>5, <3>2
    <3> QED
      BY <3>1, <3>2
  <2> QED
    BY <1>1, <2>1 DEF Grows
<1>7. new[key][status] = at
  BY <1>2, <1>3 DEF Healths
<1>8. NewestAt(new[key]) = at
  <2>1. \A s \in Statuses : HealthOf(rows, key)[s] \in Nat \cup {Never} /\ HealthOf(rows, key)[s] < at
    BY <1>3, NewestBounds
  <2> QED
    BY <1>2, <1>3, <2>1 DEF Healths, NewestAt
<1> QED
  BY <1>3, <1>6, <1>7, <1>8

\* What is known of a route stays known when rows grow.
LEMMA GrowthKeeps ==
    ASSUME NEW old, NEW new, IsHealth(old), IsHealth(new), Grows(old, new), NEW key,
           NEW status \in Statuses
    PROVE  /\ HealthOf(new, key)[status] >= HealthOf(old, key)[status]
           /\ NewestAt(HealthOf(new, key)) >= NewestAt(HealthOf(old, key))
<1>1. HealthOf(old, key) \in Healths /\ HealthOf(new, key) \in Healths
  BY HealthOfType
<1>2. \A s \in Statuses : HealthOf(new, key)[s] >= HealthOf(old, key)[s]
  <2>1. CASE key \in DOMAIN old
    BY <2>1 DEF Grows, HealthOf
  <2>2. CASE key \notin DOMAIN old
    BY <1>1, <2>2 DEF HealthOf, NoHealth, Healths
  <2> QED
    BY <2>1, <2>2
<1>3. NewestAt(HealthOf(new, key)) >= NewestAt(HealthOf(old, key))
  BY <1>1, <1>2 DEF Healths, NewestAt
<1> QED
  BY <1>2, <1>3

\* A failure that was dated within the tolerance when the clock stood at then is
\* forgotten as soon as the tolerance and the limit of the configuration have
\* passed: no route is demoted for longer than that without a newer failure.
LEMMA DemotionEnds ==
    ASSUME NEW c, IsConfig(c), NEW h \in Healths, NEW then \in Nat, NEW now \in Nat,
           NewestAt(h) <= then + Skew, now >= then + Skew + c.ttl
    PROVE  ~Demoted(c, h, now)
  BY NewestBounds, SkewAssumption DEF Demoted, IsConfig

-------------------------------------------------------------------------------
\* The record of a report is one of a folded host id and a folded route.
LEMMA ReportType ==
    /\ AnyReport \in Reports
    /\ \A r \in Reports : /\ RouteKey(r) \in Routes
                          /\ r.status \in Statuses /\ r.at \in Nat
<1>1. AnyReport \in Reports
  BY ReporterAssumption DEF AnyReport
<1>2. ASSUME NEW r \in Reports
      PROVE  r.host \in Spellings /\ r.route \in Spellings /\ r.status \in Statuses /\ r.at \in Nat
  BY ReporterAssumption DEF IsReport
<1>3. \A r \in Reports : RouteKey(r) \in Routes
  BY <1>2 DEF RouteKey, Routes, Keys
<1> QED
  BY <1>1, <1>2, <1>3

\* The rows of a document are health, and an intact document is its rows.
LEMMA DocumentType ==
    /\ IsHealth(NoRows)
    /\ \A doc : IsDocument(doc) => IsHealth(doc.rows)
    /\ \A rows : IsHealth(rows) => IsDocument(Intact(rows))
    /\ IsDocument(Invalid)
<1>1. IsHealth(<<>>)
  BY DEF IsHealth
<1> QED
  BY <1>1 DEF IsDocument, Absent, Invalid, Intact, NoRows

-------------------------------------------------------------------------------
\* The type invariant holds at the start ...
LEMMA TypeInit == Init => TypeOK
<1> SUFFICES ASSUME Init PROVE TypeOK
  OBVIOUS
<1>1. IsDocument(file) /\ disk = {file} /\ clock \in 0 .. MaxClock
  BY ReporterAssumption DEF Init
<1> QED
  BY <1>1, ReportType, DocumentType DEF Init, TypeOK, Steps, Replies

\* ... and every action keeps it.
LEMMA TypeStep == TypeOK /\ [Next]_healthVars => TypeOK'
<1> SUFFICES ASSUME TypeOK, [Next]_healthVars PROVE TypeOK'
  OBVIOUS
<1> USE DEF TypeOK, Goto, Reply
<1>1. CASE Edit
  BY <1>1 DEF Edit
<1>2. CASE Tick
  BY <1>2, ReporterAssumption DEF Tick
<1>3. ASSUME NEW p \in Procs, Report(p) PROVE TypeOK'
  BY <1>3 DEF Report, Steps
<1>4. ASSUME NEW p \in Procs, LoadConfig(p) PROVE TypeOK'
  BY <1>4 DEF LoadConfig, Steps, Replies
<1>5. ASSUME NEW p \in Procs, LoadHealth(p) \/ CannotLock(p) PROVE TypeOK'
  BY <1>5 DEF LoadHealth, CannotLock, Steps, Replies
<1>6. ASSUME NEW p \in Procs, Check(p) PROVE TypeOK'
  BY <1>6 DEF Check, Verdict, Steps, Replies
<1>7. ASSUME NEW p \in Procs, Acquire(p) PROVE TypeOK'
  BY <1>7 DEF Acquire, Steps
<1>8. ASSUME NEW p \in Procs, Unreadable(p) \/ Refuse(p) PROVE TypeOK'
  BY <1>8 DEF Unreadable, Refuse, Steps, Replies
<1>9. ASSUME NEW p \in Procs, Record(p) PROVE TypeOK'
  <2>1. IsHealth(Observe(file.rows, RouteKey(call[p]), call[p].status, call[p].at))
    BY ReportType, DocumentType, ObserveType
  <2> QED
    BY <1>9, <2>1 DEF Record, Steps
<1>10. ASSUME NEW p \in Procs, WriteTemp(p) PROVE TypeOK'
  BY <1>10 DEF WriteTemp, Steps
<1>11. ASSUME NEW p \in Procs, Replace(p) PROVE TypeOK'
  BY <1>11, DocumentType DEF Replace, Steps
<1>12. ASSUME NEW p \in Procs, SyncDir(p) PROVE TypeOK'
  BY <1>12 DEF SyncDir, Steps, Replies
<1>13. ASSUME NEW p \in Procs, WriteFails(p) \/ Release(p) PROVE TypeOK'
  BY <1>13 DEF WriteFails, Release, Steps, Replies
<1>14. ASSUME NEW p \in Procs, Answer(p) \/ Kill(p) PROVE TypeOK'
  <2>1. /\ pc' = [pc EXCEPT ![p] = "idle"] /\ call' = [call EXCEPT ![p] = AnyReport]
        /\ snap' = [snap EXCEPT ![p] = Unparsable] /\ view' = [view EXCEPT ![p] = NoRows]
        /\ flushed' = [flushed EXCEPT ![p] = FALSE] /\ reply' = [reply EXCEPT ![p] = "none"]
        /\ current' = [current EXCEPT ![p] = {}]
        /\ UNCHANGED <<config, clock, file, disk>> /\ lock' \in {lock, NoProc}
    BY <1>14 DEF Answer, Kill, Finish
  <2>2. pc' \in [Procs -> Steps] /\ reply' \in [Procs -> Replies]
    BY <2>1 DEF Steps, Replies
  <2>3. DOMAIN view' = Procs /\ \A q \in Procs : IsHealth(view'[q])
    BY <2>1, DocumentType
  <2>4. call' \in [Procs -> Reports] /\ current' \in [Procs -> SUBSET Configs]
    BY <2>1, ReportType
  <2> QED
    BY <2>1, <2>2, <2>3, <2>4
<1>15. CASE PowerLoss
  BY <1>15, ReportType, DocumentType DEF PowerLoss, Steps, Replies
<1>16. CASE UNCHANGED healthVars
  BY <1>16 DEF healthVars
<1> QED
  BY <1>1, <1>2, <1>3, <1>4, <1>5, <1>6, <1>7, <1>8, <1>9, <1>10, <1>11, <1>12,
     <1>13, <1>14, <1>15, <1>16 DEF Next, Step

\* Every variable keeps its type.
THEOREM TypeCorrect == Spec => []TypeOK
  BY TypeInit, TypeStep, PTL DEF Spec

-------------------------------------------------------------------------------
(***************************************************************************)
(* The lock: a process is past it exactly while it holds it.               *)
(***************************************************************************)
Locked == {"read", "temp", "replace", "syncdir", "unlock"}
LockHeld == \A p \in Procs : lock = p <=> pc[p] \in Locked

\* Nobody is past the lock at the start ...
LEMMA LockInit == Init => LockHeld
  BY ReporterAssumption DEF Init, LockHeld, Locked

\* ... and every action keeps the lock with its holder.
LEMMA LockStep == TypeOK /\ LockHeld /\ [Next]_healthVars => LockHeld'
<1> SUFFICES ASSUME TypeOK, LockHeld, [Next]_healthVars PROVE LockHeld'
  OBVIOUS
<1> USE ReporterAssumption DEF TypeOK, LockHeld, Locked, Goto
<1>1. CASE Edit \/ Tick
  BY <1>1 DEF Edit, Tick
<1>2. ASSUME NEW p \in Procs, Report(p) \/ LoadConfig(p) \/ LoadHealth(p) \/ CannotLock(p)
      PROVE  LockHeld'
  BY <1>2 DEF Report, LoadConfig, LoadHealth, CannotLock
<1>3. ASSUME NEW p \in Procs, Check(p) \/ Acquire(p) PROVE LockHeld'
  BY <1>3 DEF Check, Acquire
<1>4. ASSUME NEW p \in Procs, Unreadable(p) \/ Refuse(p) \/ Record(p) PROVE LockHeld'
  BY <1>4 DEF Unreadable, Refuse, Record
<1>5. ASSUME NEW p \in Procs, WriteTemp(p) \/ Replace(p) \/ SyncDir(p) \/ WriteFails(p)
      PROVE  LockHeld'
  BY <1>5 DEF WriteTemp, Replace, SyncDir, WriteFails
<1>6. ASSUME NEW p \in Procs, Release(p) \/ Answer(p) \/ Kill(p) PROVE LockHeld'
  BY <1>6 DEF Release, Answer, Kill, Finish
<1>7. CASE PowerLoss
  BY <1>7 DEF PowerLoss
<1>8. CASE UNCHANGED healthVars
  BY <1>8 DEF healthVars
<1> QED
  BY <1>1, <1>2, <1>3, <1>4, <1>5, <1>6, <1>7, <1>8 DEF Next, Step

-------------------------------------------------------------------------------
(***************************************************************************)
(* Where a command stands.  It has no answer before it lets the lock go;   *)
(* the configuration it loaded was in force at some moment of its run; and *)
(* once past the checks, its report still passes them against that         *)
(* configuration, since the clock is not set back.                         *)
(***************************************************************************)
Passed(p) == pc[p] \in {"lock", "read", "temp", "replace", "syncdir"}
                \/ reply[p] \in {"accepted", "not newer"}

HasPlace(p) ==
    /\ pc[p] \notin {"unlock", "answer"} => reply[p] = "none"
    /\ pc[p] # "idle" => config \in current[p]
    /\ pc[p] \in {"health", "check"} \/ Passed(p) => snap[p] \in current[p]
    /\ Passed(p) => Verdict(snap[p], call[p], clock) = "valid"
Places == \A p \in Procs : HasPlace(p)

\* A report that passes the checks passes them later.
LEMMA VerdictLater ==
    ASSUME NEW c, NEW r \in Reports, NEW now \in Nat, NEW later \in Nat, later >= now,
           Verdict(c, r, now) = "valid"
    PROVE  Verdict(c, r, later) = "valid"
<1>1. r.at \in Nat
  BY ReportType
<1> QED
  BY <1>1, SkewAssumption DEF Verdict

\* What a report that passes them says.
LEMMA ValidVerdict ==
    ASSUME NEW c, NEW r \in Reports, NEW now \in Nat, Verdict(c, r, now) = "valid"
    PROVE  /\ c.revision = r.revision /\ NamesHost(c.hosts, r) /\ NamesRoute(c.hosts, r)
           /\ r.at <= now + Skew
<1>1. r.at \in Nat
  BY ReportType
<1> QED
  BY <1>1, SkewAssumption DEF Verdict

\* No command runs at the start ...
LEMMA PlacesInit == Init => Places
  BY DEF Init, Places, HasPlace, Passed

\* ... and every action leaves each command in its place.
LEMMA PlacesStep == TypeOK /\ Places /\ [Next]_healthVars => Places'
<1> SUFFICES ASSUME TypeOK, Places, [Next]_healthVars PROVE Places'
  OBVIOUS
<1>t. /\ pc \in [Procs -> Steps] /\ call \in [Procs -> Reports] /\ clock \in Nat
      /\ snap \in [Procs -> Configs \cup {Unparsable}] /\ reply \in [Procs -> Replies]
      /\ current \in [Procs -> SUBSET Configs] /\ config \in Configs
  BY ReporterAssumption DEF TypeOK
<1>h. \A q \in Procs : HasPlace(q)
  BY DEF Places
\* One command moves, and the configuration and the clock do not.
<1>f. ASSUME NEW p \in Procs, UNCHANGED <<config, clock>>, HasPlace(p)',
             \A q \in Procs \ {p} :
                /\ pc'[q] = pc[q] /\ call'[q] = call[q] /\ snap'[q] = snap[q]
                /\ reply'[q] = reply[q] /\ current'[q] = current[q]
      PROVE  Places'
  <2>1. ASSUME NEW q \in Procs, q # p PROVE HasPlace(q)'
    BY <1>f, <1>h, <2>1 DEF HasPlace, Passed
  <2> QED
    BY <1>f, <2>1 DEF Places
<1>1. CASE Edit
  <2>1. ASSUME NEW q \in Procs PROVE HasPlace(q)'
    <3>1. /\ UNCHANGED <<clock, pc, call, snap, reply>>
          /\ current'[q] = IF pc[q] = "idle" THEN {} ELSE current[q] \cup {config'}
      BY <1>1 DEF Edit
    <3>2. HasPlace(q)
      BY <1>h
    <3> QED
      BY <1>t, <3>1, <3>2 DEF HasPlace, Passed
  <2> QED
    BY <2>1 DEF Places
<1>2. CASE Tick
  <2>1. ASSUME NEW q \in Procs PROVE HasPlace(q)'
    <3>1. /\ UNCHANGED <<config, pc, call, snap, reply, current>>
          /\ clock' \in Nat /\ clock' >= clock
      BY <1>2, <1>t DEF Tick
    <3>2. HasPlace(q)
      BY <1>h
    <3>3. Passed(q) => Verdict(snap[q], call[q], clock') = "valid"
      BY <1>t, <3>1, <3>2, VerdictLater DEF HasPlace
    <3> QED
      BY <3>1, <3>2, <3>3 DEF HasPlace, Passed
  <2> QED
    BY <2>1 DEF Places
<1>3. ASSUME NEW p \in Procs, Report(p) PROVE Places'
  <2>1. HasPlace(p)'
    BY <1>3, <1>t, <1>h DEF Report, Goto, HasPlace, Passed
  <2> QED
    BY <1>3, <1>t, <1>f, <2>1 DEF Report, Goto
<1>4. ASSUME NEW p \in Procs, LoadConfig(p) PROVE Places'
  <2>1. HasPlace(p)'
    BY <1>4, <1>t, <1>h DEF LoadConfig, Goto, Reply, HasPlace, Passed
  <2> QED
    BY <1>4, <1>t, <1>f, <2>1 DEF LoadConfig, Goto, Reply
<1>5. ASSUME NEW p \in Procs, LoadHealth(p) \/ CannotLock(p) PROVE Places'
  <2>1. HasPlace(p)'
    BY <1>5, <1>t, <1>h DEF LoadHealth, CannotLock, Goto, Reply, HasPlace, Passed
  <2> QED
    BY <1>5, <1>t, <1>f, <2>1 DEF LoadHealth, CannotLock, Goto, Reply
<1>6. ASSUME NEW p \in Procs, Check(p) PROVE Places'
  <2>1. HasPlace(p)'
    <3>1. Verdict(snap[p], call[p], clock) \notin {"accepted", "not newer"}
      BY DEF Verdict
    <3> QED
      BY <1>6, <1>t, <1>h, <3>1 DEF Check, Goto, Reply, HasPlace, Passed
  <2> QED
    BY <1>6, <1>t, <1>f, <2>1 DEF Check, Goto, Reply
<1>7. ASSUME NEW p \in Procs, Acquire(p) \/ Record(p) \/ WriteTemp(p) \/ Replace(p)
      PROVE  Places'
  <2>1. HasPlace(p)'
    BY <1>7, <1>t, <1>h DEF Acquire, Record, WriteTemp, Replace, Goto, HasPlace, Passed
  <2> QED
    BY <1>7, <1>t, <1>f, <2>1 DEF Acquire, Record, WriteTemp, Replace, Goto
<1>8. ASSUME NEW p \in Procs, Unreadable(p) \/ Refuse(p) \/ SyncDir(p) PROVE Places'
  <2>1. HasPlace(p)'
    BY <1>8, <1>t, <1>h DEF Unreadable, Refuse, SyncDir, Goto, Reply, HasPlace, Passed
  <2> QED
    BY <1>8, <1>t, <1>f, <2>1 DEF Unreadable, Refuse, SyncDir, Goto, Reply
<1>9. ASSUME NEW p \in Procs, WriteFails(p) \/ Release(p) PROVE Places'
  <2>1. HasPlace(p)'
    BY <1>9, <1>t, <1>h DEF WriteFails, Release, Goto, Reply, HasPlace, Passed
  <2> QED
    BY <1>9, <1>t, <1>f, <2>1 DEF WriteFails, Release, Goto, Reply
<1>10. ASSUME NEW p \in Procs, Answer(p) \/ Kill(p) PROVE Places'
  <2>1. HasPlace(p)'
    BY <1>10, <1>t DEF Answer, Kill, Finish, HasPlace, Passed
  <2> QED
    BY <1>10, <1>t, <1>f, <2>1 DEF Answer, Kill, Finish
<1>11. CASE PowerLoss
  BY <1>11 DEF PowerLoss, Places, HasPlace, Passed
<1>12. CASE UNCHANGED healthVars
  BY <1>12 DEF healthVars, Places, HasPlace, Passed
<1> QED
  BY <1>1, <1>2, <1>3, <1>4, <1>5, <1>6, <1>7, <1>8, <1>9, <1>10, <1>11, <1>12
     DEF Next, Step

\* No report is recorded, or found late, whose revision was not that of a
\* configuration in force while the command ran.
THEOREM ReportsWereCurrent == Spec => []ReportWasCurrent
<1>1. TypeOK /\ Places /\ [Next]_healthVars => (TypeOK /\ Places)'
  BY TypeStep, PlacesStep
<1>2. TypeOK /\ Places => ReportWasCurrent
  <2> SUFFICES ASSUME TypeOK, Places, NEW p \in Procs, Passed(p)
               PROVE  \E c \in current[p] : /\ c.revision = call[p].revision
                                            /\ NamesHost(c.hosts, call[p])
                                            /\ NamesRoute(c.hosts, call[p])
    BY DEF ReportWasCurrent, Passed
  <2>1. snap[p] \in current[p] /\ Verdict(snap[p], call[p], clock) = "valid"
    BY DEF Places, HasPlace
  <2>2. call[p] \in Reports /\ clock \in Nat
    BY ReporterAssumption DEF TypeOK
  <2> QED
    BY <2>1, <2>2, ValidVerdict
<1> QED
  BY <1>1, <1>2, TypeInit, PlacesInit, PTL DEF Spec

-------------------------------------------------------------------------------
(***************************************************************************)
(* What a process knows of the file.  While it holds the lock, what it is  *)
(* about to write is its observation on top of what the file says, and the *)
(* observation is newer than that; once renamed, the file has it.          *)
(***************************************************************************)
Known(p, doc) == HealthOf(doc.rows, RouteKey(call[p]))
Keeps(p, doc) == Known(p, doc)[call[p].status] >= call[p].at

HasView(p) ==
    /\ pc[p] \in {"temp", "replace"} =>
          /\ file.format # "invalid"
          /\ call[p].at > NewestAt(Known(p, file))
          /\ view[p] = Observe(file.rows, RouteKey(call[p]), call[p].status, call[p].at)
    /\ pc[p] = "replace" => flushed[p]
    /\ pc[p] = "syncdir" => Keeps(p, file)
HasAnswer(p) ==
    /\ reply[p] = "accepted" => /\ Keeps(p, file)
                                /\ SyncErrors \/ \A doc \in disk : Keeps(p, doc)
    /\ reply[p] = "not newer" => NewestAt(Known(p, file)) >= call[p].at
Views == \A p \in Procs : HasView(p) /\ HasAnswer(p)

\* Nothing is written or answered at the start ...
LEMMA ViewsInit == Init => Views
  BY DEF Init, Views, HasView, HasAnswer

\* A rename puts on top of the file an observation that is newer than all the
\* file has for its route.
LEMMA ReplaceGrows ==
    ASSUME TypeOK, Views, NEW p \in Procs, Replace(p)
    PROVE  /\ IsHealth(file.rows) /\ IsHealth(file'.rows) /\ Grows(file.rows, file'.rows)
           /\ disk' = disk \cup {file'} /\ file'.rows = view[p] /\ file'.format = "intact"
           /\ file.format # "invalid"
           /\ Keeps(p, file)'
<1>1. /\ pc[p] = "replace" /\ file' = Intact(view[p]) /\ UNCHANGED <<call, view>>
      /\ HasView(p)
  BY DEF Replace, Goto, Views
<1>2. /\ flushed[p] /\ file.format # "invalid" /\ call[p].at > NewestAt(Known(p, file))
      /\ view[p] = Observe(file.rows, RouteKey(call[p]), call[p].status, call[p].at)
  BY <1>1 DEF HasView
<1>3. disk' = disk \cup {file'} /\ file'.rows = view[p] /\ file'.format = "intact"
  BY <1>1, <1>2 DEF Replace, Intact
<1>4. IsHealth(file.rows) /\ IsHealth(view[p]) /\ call[p] \in Reports
  BY DocumentType DEF TypeOK
<1>5. call[p].status \in Statuses /\ call[p].at \in Nat
  BY <1>4, ReportType
<1>6. /\ Grows(file.rows, view[p])
      /\ HealthOf(view[p], RouteKey(call[p]))[call[p].status] = call[p].at
  BY <1>2, <1>4, <1>5, ObserveGrows DEF Known
<1> QED
  BY <1>1, <1>2, <1>3, <1>4, <1>5, <1>6 DEF Keeps, Known

\* An answer stays true when others write.
LEMMA AnswerStays ==
    ASSUME TypeOK, NEW p \in Procs, HasAnswer(p), UNCHANGED <<call[p], reply[p]>>,
           IsHealth(file'.rows), Grows(file.rows, file'.rows),
           disk' \subseteq disk \cup {file'}
    PROVE  HasAnswer(p)'
<1>1. IsHealth(file.rows) /\ call[p] \in Reports
  BY DocumentType DEF TypeOK
<1>2. call[p].status \in Statuses /\ call[p].at \in Nat
  BY <1>1, ReportType
<1>3. /\ Known(p, file)'[call[p].status] >= Known(p, file)[call[p].status]
      /\ NewestAt(Known(p, file)') >= NewestAt(Known(p, file))
  BY <1>1, <1>2, GrowthKeeps DEF Known
<1>4. /\ Known(p, file)'[call[p].status] \in Int /\ Known(p, file)[call[p].status] \in Int
      /\ NewestAt(Known(p, file)') \in Int /\ NewestAt(Known(p, file)) \in Int
  <2>1. Known(p, file) \in Healths /\ Known(p, file)' \in Healths
    BY <1>1, HealthOfType DEF Known
  <2> QED
    BY <1>2, <2>1, NewestBounds
<1>5. Keeps(p, file) => Keeps(p, file)'
  BY <1>2, <1>3, <1>4 DEF Keeps
<1>6. NewestAt(Known(p, file)) >= call[p].at => (NewestAt(Known(p, file)) >= call[p].at)'
  BY <1>2, <1>3, <1>4
<1>7. ASSUME ~SyncErrors, \A doc \in disk : Keeps(p, doc), Keeps(p, file)'
      PROVE  \A doc \in disk' : Keeps(p, doc)'
  BY <1>7 DEF Keeps, Known
<1> QED
  BY <1>5, <1>6, <1>7 DEF HasAnswer

\* Nothing is lost from rows that stay as they are.
LEMMA GrowsReflexive == ASSUME NEW rows, IsHealth(rows) PROVE Grows(rows, rows)
  BY DEF Grows, IsHealth, Healths

\* ... and every action keeps what each process knows of the file.
LEMMA ViewsStep == TypeOK /\ LockHeld /\ Places /\ Views /\ [Next]_healthVars => Views'
<1> SUFFICES ASSUME TypeOK, LockHeld, Places, Views, [Next]_healthVars PROVE Views'
  OBVIOUS
<1>t. /\ pc \in [Procs -> Steps] /\ call \in [Procs -> Reports] /\ flushed \in [Procs -> BOOLEAN]
      /\ reply \in [Procs -> Replies] /\ DOMAIN view = Procs
  BY DEF TypeOK
<1>h. \A q \in Procs : HasView(q) /\ HasAnswer(q)
  BY DEF Views
<1>g. IsHealth(file.rows) /\ Grows(file.rows, file.rows)
  BY DocumentType, GrowsReflexive DEF TypeOK
\* One process moves and the file does not.
<1>f. ASSUME NEW p \in Procs, UNCHANGED file, disk' \subseteq disk \cup {file'},
             HasView(p)', HasAnswer(p)',
             \A q \in Procs \ {p} :
                /\ pc'[q] = pc[q] /\ call'[q] = call[q] /\ view'[q] = view[q]
                /\ flushed'[q] = flushed[q] /\ reply'[q] = reply[q]
      PROVE  Views'
  <2>1. ASSUME NEW q \in Procs, q # p PROVE HasView(q)' /\ HasAnswer(q)'
    <3>1. HasView(q)'
      BY <1>f, <1>h, <2>1 DEF HasView, Keeps, Known
    <3>2. HasAnswer(q)'
      BY <1>f, <1>g, <1>h, <2>1, AnswerStays
    <3> QED
      BY <3>1, <3>2
  <2> QED
    BY <1>f, <2>1 DEF Views
\* A process that is neither writing nor answering has nothing to keep.
<1>n. ASSUME NEW p \in Procs, pc'[p] \notin {"temp", "replace", "syncdir"},
             reply'[p] \notin {"accepted", "not newer"}
      PROVE  HasView(p)' /\ HasAnswer(p)'
  BY <1>n DEF HasView, HasAnswer
<1>1. CASE Edit \/ Tick
  BY <1>1 DEF Edit, Tick, Views, HasView, HasAnswer, Keeps, Known
<1>2. ASSUME NEW p \in Procs, Report(p) \/ LoadConfig(p) PROVE Views'
  <2>1. HasView(p)' /\ HasAnswer(p)'
    <3>1. pc'[p] \in {"config", "health", "answer"} /\ reply'[p] \in {"none", "invalid_config"}
      BY <1>2, <1>t DEF Report, LoadConfig, Goto, Reply, Places, HasPlace
    <3> QED
      BY <1>n, <3>1
  <2> QED
    BY <1>2, <1>t, <1>f, <2>1 DEF Report, LoadConfig, Goto, Reply
<1>3. ASSUME NEW p \in Procs, LoadHealth(p) \/ CannotLock(p) PROVE Views'
  <2>1. HasView(p)' /\ HasAnswer(p)'
    <3>1. pc'[p] \in {"check", "answer"} /\ reply'[p] \in {"none", "persistence_failed"}
      BY <1>3, <1>t DEF LoadHealth, CannotLock, Goto, Reply, Places, HasPlace
    <3> QED
      BY <1>n, <3>1
  <2> QED
    BY <1>3, <1>t, <1>f, <2>1 DEF LoadHealth, CannotLock, Goto, Reply
<1>4. ASSUME NEW p \in Procs, Check(p) \/ Acquire(p) PROVE Views'
  <2>1. HasView(p)' /\ HasAnswer(p)'
    <3>1. Verdict(snap[p], call[p], clock) \notin {"accepted", "not newer"}
      BY DEF Verdict
    <3>2. pc'[p] \in {"lock", "read", "answer"} /\ reply'[p] \notin {"accepted", "not newer"}
      BY <1>4, <1>t, <3>1 DEF Check, Acquire, Goto, Reply, Places, HasPlace
    <3> QED
      BY <1>n, <3>2
  <2> QED
    BY <1>4, <1>t, <1>f, <2>1 DEF Check, Acquire, Goto, Reply
<1>5. ASSUME NEW p \in Procs, Unreadable(p) \/ WriteFails(p) PROVE Views'
  <2>1. HasView(p)' /\ HasAnswer(p)'
    <3>1. pc'[p] = "unlock" /\ reply'[p] = "persistence_failed"
      BY <1>5, <1>t DEF Unreadable, WriteFails, Goto, Reply
    <3> QED
      BY <1>n, <3>1
  <2> QED
    BY <1>5, <1>t, <1>f, <2>1 DEF Unreadable, WriteFails, Goto, Reply
<1>6. ASSUME NEW p \in Procs, Refuse(p) PROVE Views'
  <2>1. /\ pc'[p] = "unlock" /\ reply'[p] = "not newer" /\ UNCHANGED <<file, disk, call>>
        /\ call[p].at <= NewestAt(Known(p, file))
    BY <1>6, <1>t DEF Refuse, Goto, Reply, Found, Known
  <2>2. call[p].at \in Nat /\ NewestAt(Known(p, file)) \in Int
    <3>1. Known(p, file) \in Healths
      BY <1>g, HealthOfType DEF Known
    <3> QED
      BY <1>t, <3>1, ReportType, NewestBounds
  <2>3. HasView(p)' /\ HasAnswer(p)'
    BY <2>1, <2>2 DEF HasView, HasAnswer, Known
  <2> QED
    BY <1>6, <1>t, <1>f, <2>3 DEF Refuse, Goto, Reply
<1>7. ASSUME NEW p \in Procs, Record(p) PROVE Views'
  <2>1. HasView(p)' /\ HasAnswer(p)'
    BY <1>7, <1>t DEF Record, Goto, Found, Known, HasView, HasAnswer, Places, HasPlace
  <2> QED
    BY <1>7, <1>t, <1>f, <2>1 DEF Record, Goto
<1>8. ASSUME NEW p \in Procs, WriteTemp(p) PROVE Views'
  <2>1. HasView(p)' /\ HasAnswer(p)'
    BY <1>8, <1>t, <1>h DEF WriteTemp, Goto, Known, HasView, HasAnswer, Places, HasPlace
  <2> QED
    BY <1>8, <1>t, <1>f, <2>1 DEF WriteTemp, Goto
<1>9. ASSUME NEW p \in Procs, Replace(p) PROVE Views'
  <2>1. pc[p] = "replace" /\ pc'[p] = "syncdir" /\ UNCHANGED <<call, reply>>
    BY <1>9, <1>t DEF Replace, Goto
  <2>2. HasView(p)'
    BY <1>9, <2>1, ReplaceGrows DEF HasView
  <2>3. ASSUME NEW q \in Procs, q # p PROVE HasView(q)'
    <3>1. pc'[q] = pc[q] /\ pc[q] \notin Locked
      BY <1>9, <1>t, <2>1, <2>3 DEF Replace, Goto, LockHeld, Locked
    <3> QED
      BY <3>1 DEF HasView, Locked
  <2>4. \A q \in Procs : HasAnswer(q)'
    BY <1>9, <1>h, <2>1, ReplaceGrows, AnswerStays
  <2> QED
    BY <2>2, <2>3, <2>4 DEF Views
<1>10. ASSUME NEW p \in Procs, SyncDir(p) PROVE Views'
  <2>1. /\ pc[p] = "syncdir" /\ pc'[p] = "unlock" /\ reply'[p] = "accepted"
        /\ UNCHANGED <<file, call>> /\ (disk' = {file} \/ (SyncErrors /\ disk' = disk))
    BY <1>10, <1>t DEF SyncDir, Goto, Reply
  <2>2. Keeps(p, file)
    BY <1>h, <2>1 DEF HasView
  <2>3. HasView(p)' /\ HasAnswer(p)'
    BY <2>1, <2>2 DEF HasView, HasAnswer, Keeps, Known
  <2> QED
    BY <1>10, <1>t, <1>f, <2>1, <2>3 DEF SyncDir, Goto, Reply
<1>11. ASSUME NEW p \in Procs, Release(p) PROVE Views'
  <2>1. pc'[p] = "answer" /\ UNCHANGED <<file, disk, call, reply>>
    BY <1>11, <1>t DEF Release, Goto
  <2>2. HasView(p)' /\ HasAnswer(p)'
    BY <1>h, <2>1 DEF HasView, HasAnswer, Keeps, Known
  <2> QED
    BY <1>11, <1>t, <1>f, <2>1, <2>2 DEF Release, Goto
<1>12. ASSUME NEW p \in Procs, Answer(p) \/ Kill(p) PROVE Views'
  <2>1. HasView(p)' /\ HasAnswer(p)'
    <3>1. pc'[p] = "idle" /\ reply'[p] = "none"
      BY <1>12, <1>t DEF Answer, Kill, Finish
    <3> QED
      BY <1>n, <3>1
  <2> QED
    BY <1>12, <1>t, <1>f, <2>1 DEF Answer, Kill, Finish
<1>13. CASE PowerLoss
  <2>1. \A q \in Procs : pc'[q] = "idle" /\ reply'[q] = "none"
    BY <1>13 DEF PowerLoss
  <2> QED
    BY <1>n, <2>1 DEF Views
<1>14. CASE UNCHANGED healthVars
  BY <1>14 DEF healthVars, Views, HasView, HasAnswer, Keeps, Known
<1> QED
  BY <1>1, <1>2, <1>3, <1>4, <1>5, <1>6, <1>7, <1>8, <1>9, <1>10, <1>11, <1>12,
     <1>13, <1>14 DEF Next, Step

-------------------------------------------------------------------------------
\* A document all of whose observations are dated within the tolerance.
Dated(doc, now) == \A key \in DOMAIN doc.rows : NewestAt(doc.rows[key]) <= now + Skew

\* The first file is dated within the tolerance ...
LEMMA DatedInit == Init => DatedWithinSkew
<1> SUFFICES ASSUME Init PROVE DatedWithinSkew
  OBVIOUS
<1>1. clock = 0 /\ disk = {file} /\ file \in InitialDocs
  BY DEF Init
<1>2. \A key \in DOMAIN file.rows : NewestAt(file.rows[key]) <= 0 + Skew
  BY <1>1, ReporterAssumption, SkewAssumption
<1> QED
  BY <1>1, <1>2 DEF DatedWithinSkew

\* ... and every action keeps the files dated so.
LEMMA DatedStep ==
    TypeOK /\ Places /\ Views /\ DatedWithinSkew /\ [Next]_healthVars => DatedWithinSkew'
<1> SUFFICES ASSUME TypeOK, Places, Views, DatedWithinSkew, [Next]_healthVars
             PROVE  DatedWithinSkew'
  OBVIOUS
<1>d. DatedWithinSkew <=> \A doc \in disk \cup {file} : Dated(doc, clock)
  BY DEF DatedWithinSkew, Dated
<1>e. (\A doc \in disk' \cup {file'} : Dated(doc, clock')) => DatedWithinSkew'
  BY DEF DatedWithinSkew, Dated
<1>t. clock \in Nat /\ \A doc \in disk \cup {file} : IsHealth(doc.rows)
  BY ReporterAssumption, DocumentType DEF TypeOK
<1>1. CASE Tick
  <2>1. clock' = clock + 1 /\ UNCHANGED <<file, disk>>
    BY <1>1 DEF Tick
  <2>2. ASSUME NEW doc \in disk \cup {file} PROVE Dated(doc, clock')
    <3>1. \A key \in DOMAIN doc.rows : NewestAt(doc.rows[key]) \in Int
      BY <1>t, NewestBounds DEF IsHealth
    <3>2. Dated(doc, clock)
      BY <1>d
    <3> QED
      BY <1>t, <2>1, <3>1, <3>2, SkewAssumption DEF Dated
  <2> QED
    BY <1>e, <2>1, <2>2
<1>2. ASSUME NEW p \in Procs, Replace(p) PROVE DatedWithinSkew'
  <2>1. clock' = clock /\ disk' = disk \cup {file'} /\ file'.rows = view[p]
    BY <1>2, ReplaceGrows DEF Replace
  <2>2. pc[p] = "replace" /\ call[p] \in Reports
    BY <1>2 DEF Replace, Goto, TypeOK
  <2>3. /\ call[p].at > NewestAt(Known(p, file))
        /\ view[p] = Observe(file.rows, RouteKey(call[p]), call[p].status, call[p].at)
    BY <2>2 DEF Views, HasView
  <2>4. call[p].at <= clock + Skew
    BY <1>t, <2>2, ValidVerdict DEF Places, HasPlace, Passed
  <2>5. call[p].status \in Statuses /\ call[p].at \in Nat
    BY <2>2, ReportType
  <2>6. NewestAt(HealthOf(view[p], RouteKey(call[p]))) = call[p].at
    BY <1>t, <2>3, <2>5, ObserveGrows DEF Known
  <2>7. ASSUME NEW key \in DOMAIN view[p] PROVE NewestAt(view[p][key]) <= clock + Skew
    <3>1. CASE key = RouteKey(call[p])
      BY <2>4, <2>6, <3>1 DEF HealthOf
    <3>2. CASE key # RouteKey(call[p])
      <4>1. key \in DOMAIN file.rows /\ view[p][key] = file.rows[key]
        BY <2>3, <3>2 DEF Observe
      <4> QED
        BY <1>d, <4>1 DEF Dated
    <3> QED
      BY <3>1, <3>2
  <2>8. Dated(file', clock)
    BY <2>1, <2>7 DEF Dated
  <2> QED
    BY <1>d, <1>e, <2>1, <2>8
<1>3. ASSUME NEW p \in Procs, SyncDir(p) PROVE DatedWithinSkew'
  <2>1. UNCHANGED <<clock, file>> /\ disk' \subseteq disk \cup {file}
    BY <1>3 DEF SyncDir
  <2> QED
    BY <1>d, <1>e, <2>1
<1>4. CASE PowerLoss
  <2>1. clock' = clock /\ file' \in disk /\ disk' = {file'}
    BY <1>4 DEF PowerLoss
  <2> QED
    BY <1>d, <1>e, <2>1
<1>5. ASSUME UNCHANGED <<clock, file, disk>> PROVE DatedWithinSkew'
  BY <1>5 DEF DatedWithinSkew
<1>6. ASSUME NEW p \in Procs, Report(p) \/ LoadConfig(p) \/ LoadHealth(p) \/ CannotLock(p) \/ Check(p)
      PROVE  UNCHANGED <<clock, file, disk>>
  BY <1>6 DEF Report, LoadConfig, LoadHealth, CannotLock, Check
<1>7. ASSUME NEW p \in Procs, Acquire(p) \/ Unreadable(p) \/ Refuse(p) \/ Record(p) \/ WriteTemp(p)
      PROVE  UNCHANGED <<clock, file, disk>>
  BY <1>7 DEF Acquire, Unreadable, Refuse, Record, WriteTemp
<1>8. ASSUME NEW p \in Procs, WriteFails(p) \/ Release(p) \/ Answer(p) \/ Kill(p)
      PROVE  UNCHANGED <<clock, file, disk>>
  BY <1>8 DEF WriteFails, Release, Answer, Kill
<1>9. CASE Edit \/ UNCHANGED healthVars
  BY <1>5, <1>9 DEF Edit, healthVars
<1> QED
  BY <1>1, <1>2, <1>3, <1>4, <1>5, <1>6, <1>7, <1>8, <1>9 DEF Next, Step

-------------------------------------------------------------------------------
\* The inductive invariant.
IInv == TypeOK /\ LockHeld /\ Places /\ Views /\ DatedWithinSkew

\* It holds in every state.
LEMMA Inductive == Spec => []IInv
<1>1. Init => IInv
  BY TypeInit, LockInit, PlacesInit, ViewsInit, DatedInit DEF IInv
<1>2. IInv /\ [Next]_healthVars => IInv'
  BY TypeStep, LockStep, PlacesStep, ViewsStep, DatedStep DEF IInv
<1> QED
  BY <1>1, <1>2, PTL DEF Spec

\* Who is told that an observation was accepted finds it in the file and in all
\* that a power loss may leave; who is told that it came late finds a newer one.
THEOREM AnswersStayTrue == Spec => []AnswersAreTrue
<1>1. IInv => AnswersAreTrue
  BY DEF IInv, Views, HasAnswer, Keeps, Known, AnswersAreTrue
<1> QED
  BY <1>1, Inductive, PTL

\* No observation is further ahead of the clock than the tolerance allows.
THEOREM ObservationsAreDated == Spec => []DatedWithinSkew
<1>1. IInv => DatedWithinSkew
  BY DEF IInv
<1> QED
  BY <1>1, Inductive, PTL

\* At any moment it is certain when the failures known by then are forgotten: at
\* the latest when the tolerance and the limit of the configuration have passed.
FailuresExpire ==
    \A c \in Configs : \A key \in DOMAIN file.rows, now \in Nat :
        IsConfig(c) /\ now >= clock + Skew + c.ttl => ~Demoted(c, file.rows[key], now)

\* No failure demotes a route for longer than the tolerance and the limit.
THEOREM FailuresAreForgotten == Spec => []FailuresExpire
<1>1. IInv => FailuresExpire
  <2> SUFFICES ASSUME IInv, NEW c \in Configs, NEW key \in DOMAIN file.rows, NEW now \in Nat,
                      IsConfig(c), now >= clock + Skew + c.ttl
               PROVE  ~Demoted(c, file.rows[key], now)
    BY DEF FailuresExpire
  <2>1. clock \in Nat /\ file.rows[key] \in Healths
    BY ReporterAssumption, DocumentType DEF IInv, TypeOK, IsHealth
  <2>2. NewestAt(file.rows[key]) <= clock + Skew
    BY DEF IInv, DatedWithinSkew
  <2> QED
    BY <2>1, <2>2, DemotionEnds
<1> QED
  BY <1>1, Inductive, PTL

-------------------------------------------------------------------------------
\* Only a rename and a power loss change the file.
LEMMA FileChanges ==
    ASSUME [Next]_healthVars, file' # file
    PROVE  PowerLoss \/ \E p \in Procs : Replace(p)
<1>1. ASSUME NEW p \in Procs, Report(p) \/ LoadConfig(p) \/ LoadHealth(p) \/ CannotLock(p) \/ Check(p)
      PROVE  FALSE
  BY <1>1 DEF Report, LoadConfig, LoadHealth, CannotLock, Check
<1>2. ASSUME NEW p \in Procs, Acquire(p) \/ Unreadable(p) \/ Refuse(p) \/ Record(p) \/ WriteTemp(p)
      PROVE  FALSE
  BY <1>2 DEF Acquire, Unreadable, Refuse, Record, WriteTemp
<1>3. ASSUME NEW p \in Procs, SyncDir(p) \/ WriteFails(p) \/ Release(p) \/ Answer(p) \/ Kill(p)
      PROVE  FALSE
  BY <1>3 DEF SyncDir, WriteFails, Release, Answer, Kill
<1>4. ~Edit /\ ~Tick /\ ~UNCHANGED healthVars
  BY DEF Edit, Tick, healthVars
<1> QED
  BY <1>1, <1>2, <1>3, <1>4 DEF Next, Step

\* Neither time of a route ever goes back, and no route is forgotten.
THEOREM HealthIsMonotone == Spec => HealthOnlyGrows
<1>1. IInv /\ [Next]_healthVars =>
        [\/ PowerLoss
         \/ \A key \in DOMAIN file.rows :
               /\ key \in DOMAIN file'.rows
               /\ \A status \in Statuses :
                     file'.rows[key][status] >= file.rows[key][status]]_file
  <2>1. ASSUME IInv, [Next]_healthVars, file' # file
        PROVE  PowerLoss \/ Grows(file.rows, file'.rows)
    BY <2>1, FileChanges, ReplaceGrows DEF IInv
  <2> QED
    BY <2>1 DEF Grows
<1> QED
  BY <1>1, Inductive, PTL DEF Spec, HealthOnlyGrows

-------------------------------------------------------------------------------
(***************************************************************************)
(* RouteHealthStore implements ObservationRegister: a rename takes one     *)
(* observation, the fsync of the directory settles it, and every other     *)
(* step leaves the register alone.                                         *)
(***************************************************************************)
\* The register is an instance of its own: these are the operators it shares
\* with the store, shown to be the same.
LEMMA SameHealth ==
    /\ \A rows : Register!IsHealth(rows) <=> IsHealth(rows)
    /\ \A rows, key : Register!HealthOf(rows, key) = HealthOf(rows, key)
    /\ \A h : Register!NewestAt(h) = NewestAt(h)
    /\ \A r : Register!RouteKey(r) = RouteKey(r)
    /\ \A rows, key, status, at :
          Register!Observe(rows, key, status, at) = Observe(rows, key, status, at)
<1>1. \A rows : Register!IsHealth(rows) <=> IsHealth(rows)
  BY DEF Register!IsHealth, IsHealth, Register!Healths, Healths, Register!Routes, Routes,
         Register!Keys, Keys, Register!Statuses, Register!Never
<1>2. \A rows, key : Register!HealthOf(rows, key) = HealthOf(rows, key)
  BY DEF Register!HealthOf, HealthOf, Register!NoHealth, NoHealth,
         Register!Statuses, Register!Never
<1>3. \A h : Register!NewestAt(h) = NewestAt(h)
  BY DEF Register!NewestAt, NewestAt
<1>4. \A r : Register!RouteKey(r) = RouteKey(r)
  BY DEF Register!RouteKey, RouteKey
<1>5. \A rows, key, status, at :
          Register!Observe(rows, key, status, at) = Observe(rows, key, status, at)
  BY <1>2 DEF Register!Observe, Observe
<1> QED
  BY <1>1, <1>2, <1>3, <1>4, <1>5

\* The first file stands for a settled register.
LEMMA RegisterBegins == Init => Register!RegisterInit
<1> SUFFICES ASSUME Init PROVE Register!RegisterInit
  OBVIOUS
<1>1. IsHealth(file.rows) /\ disk = {file}
  BY ReporterAssumption, DocumentType DEF Init
<1>2. Register!IsRegister(RegisterOf(file))
  BY <1>1, SameHealth DEF Register!IsRegister, RegisterOf
<1>3. {RegisterOf(doc) : doc \in disk} = {RegisterOf(file)}
  BY <1>1
<1> QED
  BY <1>2, <1>3 DEF Register!RegisterInit

\* A rename takes one observation into the register.
LEMMA ReplaceTakes ==
    ASSUME IInv, NEW p \in Procs, Replace(p)
    PROVE  Register!Take
<1>1. /\ file'.rows = view[p] /\ file'.format = "intact" /\ disk' = disk \cup {file'}
      /\ file.format # "invalid"
  BY ReplaceGrows DEF IInv
<1>2. pc[p] = "replace" /\ call[p] \in Reports
  BY DEF Replace, Goto, IInv, TypeOK
<1>3. /\ call[p].at > NewestAt(HealthOf(file.rows, RouteKey(call[p])))
      /\ view[p] = Observe(file.rows, RouteKey(call[p]), call[p].status, call[p].at)
  BY <1>2 DEF IInv, Views, HasView, Known
<1>4. RegisterOf(file).readable /\ RegisterOf(file).rows = file.rows
  BY <1>1 DEF RegisterOf
<1>5. RegisterOf(file') = [RegisterOf(file) EXCEPT !.rows = view[p]]
  BY <1>1 DEF RegisterOf
<1>6. {RegisterOf(doc) : doc \in disk'} = {RegisterOf(doc) : doc \in disk} \cup {RegisterOf(file')}
  BY <1>1
<1>7. RegisterOf(file') =
        [RegisterOf(file) EXCEPT !.rows =
            Register!Observe(@, Register!RouteKey(call[p]), call[p].status, call[p].at)]
  BY <1>3, <1>4, <1>5, SameHealth
<1>8. call[p].at > Register!NewestAt(Register!HealthOf(RegisterOf(file).rows,
                                                       Register!RouteKey(call[p])))
  BY <1>3, <1>4, SameHealth
<1> QED
  BY <1>2, <1>4, <1>6, <1>7, <1>8 DEF Register!Take

\* Every step of the store is a step of the register or leaves it alone.
LEMMA RegisterStep ==
    IInv /\ [Next]_healthVars => [Register!RegisterNext]_(Register!registerVars)
<1> SUFFICES ASSUME IInv, [Next]_healthVars
             PROVE  Register!RegisterNext \/ UNCHANGED Register!registerVars
  OBVIOUS
<1>u. UNCHANGED <<file, disk>> => UNCHANGED Register!registerVars
  BY DEF Register!registerVars
<1>1. ASSUME NEW p \in Procs, Replace(p) PROVE Register!RegisterNext
  BY <1>1, ReplaceTakes DEF Register!RegisterNext
<1>2. ASSUME NEW p \in Procs, SyncDir(p)
      PROVE  Register!RegisterNext \/ UNCHANGED Register!registerVars
  <2>1. file' = file /\ (disk' = {file} \/ disk' = disk)
    BY <1>2 DEF SyncDir
  <2>2. CASE disk' = {file}
    <3>1. {RegisterOf(doc) : doc \in disk'} = {RegisterOf(file)}
      BY <2>2
    <3> QED
      BY <2>1, <3>1 DEF Register!Settle, Register!RegisterNext
  <2> QED
    BY <1>u, <2>1, <2>2
<1>3. CASE PowerLoss
  <2>1. file' \in disk /\ disk' = {file'}
    BY <1>3 DEF PowerLoss
  <2>2. /\ RegisterOf(file') \in {RegisterOf(doc) : doc \in disk}
        /\ {RegisterOf(doc) : doc \in disk'} = {RegisterOf(file')}
    BY <2>1
  <2> QED
    BY <2>2 DEF Register!PowerLoss, Register!RegisterNext
<1>4. ASSUME NEW p \in Procs, Report(p) \/ LoadConfig(p) \/ LoadHealth(p) \/ CannotLock(p) \/ Check(p)
      PROVE  UNCHANGED <<file, disk>>
  BY <1>4 DEF Report, LoadConfig, LoadHealth, CannotLock, Check
<1>5. ASSUME NEW p \in Procs, Acquire(p) \/ Unreadable(p) \/ Refuse(p) \/ Record(p) \/ WriteTemp(p)
      PROVE  UNCHANGED <<file, disk>>
  BY <1>5 DEF Acquire, Unreadable, Refuse, Record, WriteTemp
<1>6. ASSUME NEW p \in Procs, WriteFails(p) \/ Release(p) \/ Answer(p) \/ Kill(p)
      PROVE  UNCHANGED <<file, disk>>
  BY <1>6 DEF WriteFails, Release, Answer, Kill
<1>7. CASE Edit \/ Tick \/ UNCHANGED healthVars
  BY <1>7, <1>u DEF Edit, Tick, healthVars
<1> QED
  BY <1>u, <1>1, <1>2, <1>3, <1>4, <1>5, <1>6, <1>7 DEF Next, Step

\* However reports interleave, arrive late, are killed or fail, the store is one
\* register per route that takes whole observations in the order of their times.
THEOREM StoreImplementsRegister == Spec => ImplementsRegister
<1>1. Spec => Register!RegisterInit
  BY RegisterBegins, PTL DEF Spec
<1> QED
  BY <1>1, RegisterStep, Inductive, PTL DEF Spec, ImplementsRegister, Register!RegisterSpec

===============================================================================
