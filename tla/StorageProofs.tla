--------------------------- MODULE StorageProofs ---------------------------
(***************************************************************************)
(* Theorems about Storage, for every value of its constants.               *)
(*                                                                         *)
(* The proofs rest on one inductive invariant, Inductive: the types, the   *)
(* lock discipline, and what a goroutine that holds the lock remembers     *)
(* (JobInv).  The theorems on conflicts and on backups add to it what each *)
(* needs.                                                                  *)
(***************************************************************************)
EXTENDS Storage, FiniteSetTheorems, TLAPS

\* What a goroutine inside WriteFile or ResolveConflict has in its hands.
JobOK(r) ==
    /\ pc[r] \in WriteSteps =>
        /\ job[r].path \in ClientPath
        /\ job[r].dest \in Path
        /\ job[r].entry \in Entry
        /\ job[r].op = "put" => job[r].dest = job[r].path /\ job[r].body \in Content
        /\ job[r].op # "put" =>
            /\ job[r].op \in Resolving
            /\ job[r].id \in Request
            /\ conflictMeta[job[r].id] \in Conflict
    /\ pc[r] \in ConflictSteps => job[r].op = "put" /\ job[r].old \in Entry
    /\ pc[r] \in ResolveSteps => job[r].op # "put"
    /\ pc[r] \in BackupSteps => job[r].op \in {"put", "local"} /\ job[r].dest = job[r].path
    /\ pc[r] \in BackupSteps \ {"createBackup"} => job[r].stamp \in Second

JobInv == \A r \in Request : JobOK(r)

Inductive == TypeOK /\ LockDiscipline /\ JobInv

AllSteps == {"new"} \cup WriteSteps \cup ReadSteps \cup Outcomes

-----------------------------------------------------------------------------
(* Small facts about the helpers of the model.                             *)

\* What a goroutine forgets when it is done is a well-formed record.
LEMMA IdleType == Idle \in Job
BY DEF Idle, Job

\* A goroutine that learns something remembers the rest.
LEMMA JobUpdates ==
    ASSUME NEW j \in Job
    PROVE  /\ \A s \in Second : [j EXCEPT !.stamp = s] \in Job
           /\ \A S \in SUBSET Second : [j EXCEPT !.listed = S] \in Job
           /\ \A s : [j EXCEPT !.listed = @ \ {s}] \in Job
           /\ \A p \in Path, e \in Entry \cup {None} : [j EXCEPT !.todo = @ \ {p}, !.view[p] = e] \in Job
<1>1. \A s \in Second : [j EXCEPT !.stamp = s] \in Job
  BY DEF Job
<1>2. \A S \in SUBSET Second : [j EXCEPT !.listed = S] \in Job
  BY DEF Job
<1>3. \A s : [j EXCEPT !.listed = @ \ {s}] \in Job
  BY DEF Job
<1>4. \A p \in Path, e \in Entry \cup {None} : [j EXCEPT !.todo = @ \ {p}, !.view[p] = e] \in Job
  BY DEF Job
<1> QED
  BY <1>1, <1>2, <1>3, <1>4

\* The answer of an upload is one of the outcomes.
LEMMA VerdictType == \A j, o : o \in Outcomes => Verdict(j, o) \in Outcomes
BY DEF Verdict, Outcomes

\* An upload starts with a step that writes, never with one of a resolution.
LEMMA PutStartType == \A p, base : PutStart(p, base) \in WriteSteps \ ResolveSteps
BY DEF PutStart, WriteSteps, ConflictSteps, BackupSteps, ResolveSteps

\* The control points of writers, of readers and of finished requests differ.
LEMMA StepsAreDisjoint ==
    /\ WriteSteps \cap ReadSteps = {}
    /\ WriteSteps \cap Outcomes = {}
    /\ ReadSteps \cap Outcomes = {}
    /\ "new" \notin WriteSteps \cup ReadSteps \cup Outcomes
BY DEF WriteSteps, ReadSteps, Outcomes, ConflictSteps, BackupSteps, ResolveSteps

\* A resolution starts with a step that writes.
LEMMA ResolveStartType == \A c : \A choice \in Resolving : ResolveStart(c, choice) \in WriteSteps
BY DEF ResolveStart, Resolving, WriteSteps, BackupSteps, ResolveSteps

\* A resolution replaces a file of the emulator.
LEMMA ResolveDestType ==
    ASSUME NEW c \in Conflict, NEW choice
    PROVE  c.path \in Path /\ ResolveDest(c, choice) \in Path
BY PathAssumption, KeepBothAssumption DEF ResolveDest, Conflict, Entry

\* What BeginResolve remembers is a well-formed record.
LEMMA ResolveJobType ==
    ASSUME TypeOK, NEW id \in Request, NEW c \in Conflict, NEW choice \in Resolving
    PROVE  ResolveJob(id, c, choice) \in Job
<1>1. metadata[c.path] \in Entry \cup {None} /\ c.local \in Entry
  BY ResolveDestType DEF TypeOK, Conflict
<1> QED
  BY <1>1, ResolveDestType DEF ResolveJob, Idle, Job, Writing

\* A remove takes one file away, or leaves everything as it was.
LEMMA RemovedCases ==
    ASSUME NEW f, NEW p, NEW s, NEW g \in Removed(f, p, s)
    PROVE  g = f \/ g = [f EXCEPT ![p][s] = None]
<1>1. CASE "io" \in Fault
  BY <1>1 DEF Removed
<1>2. CASE "io" \notin Fault
  BY <1>2 DEF Removed
<1> QED
  BY <1>1, <1>2

\* Removing a file of a version directory keeps the directory well-formed.
LEMMA RemovedType ==
    ASSUME NEW V, NEW f \in [Path -> [Second -> V \cup {None}]],
           NEW p \in Path, NEW s \in Second, NEW g \in Removed(f, p, s)
    PROVE  g \in [Path -> [Second -> V \cup {None}]]
BY RemovedCases

\* Removing one file of one version directory leaves every other file alone.
LEMMA RemovedOne ==
    ASSUME NEW f \in [Path -> [Second -> Content \cup {None}]],
           NEW p \in Path, NEW s \in Second, NEW g \in Removed(f, p, s)
    PROVE  /\ \A q \in Path, t \in Second : q # p \/ t # s => g[q][t] = f[q][t]
           /\ g[p][s] = None \/ g[p][s] = f[p][s]
BY RemovedCases

-----------------------------------------------------------------------------
(* Every step keeps the types.                                             *)

\* Every step of the store keeps the types (the Next of storage.go and handlers.go).
LEMMA TypeStep == Inductive /\ [Next]_vars => TypeOK'
<1> SUFFICES ASSUME Inductive, [Next]_vars PROVE TypeOK'
  OBVIOUS
<1> USE IdleType DEF Inductive, TypeOK, Goto, Learn, At, disk
<1>1. ASSUME NEW r \in Request, BeginPut(r) PROVE TypeOK'
  <2>1. PICK p \in ClientPath, e \in Entry, body \in Content, base \in Content \cup {None} :
            Goto(r, PutStart(p, base)) /\ Learn(r, PutJob(p, e, body, base))
    BY <1>1 DEF BeginPut
  <2>2. p \in Path
    BY PathAssumption
  <2>3. PutJob(p, e, body, base) \in Job
    BY <2>2 DEF PutJob, Idle, Job, Writing
  <2> QED
    BY <1>1, <2>1, <2>3, PutStartType DEF BeginPut
<1>2. ASSUME NEW r \in Request, BeginResolve(r) PROVE TypeOK'
  <2>1. PICK id \in Request, choice \in Resolving :
            /\ conflictMeta[id] # None
            /\ Goto(r, ResolveStart(conflictMeta[id], choice))
            /\ Learn(r, ResolveJob(id, conflictMeta[id], choice))
    BY <1>2 DEF BeginResolve
  <2>2. conflictMeta[id] \in Conflict
    BY <2>1
  <2>3. ResolveJob(id, conflictMeta[id], choice) \in Job
    BY <2>2, ResolveJobType
  <2> QED
    BY <1>2, <2>1, <2>3, ResolveStartType DEF BeginResolve
<1>3. ASSUME NEW r \in Request, RefuseResolve(r) PROVE TypeOK'
  BY <1>3 DEF RefuseResolve, Outcomes
<1>4. ASSUME NEW r \in Request, BeginRead(r) PROVE TypeOK'
  <2>1. PICK p \in ClientPath :
            IF canonical[p] = None
            THEN Goto(r, "notFound") /\ UNCHANGED <<readers, job>>
            ELSE /\ Goto(r, "readEntry")
                 /\ Learn(r, [Idle EXCEPT !.op = "get", !.path = p, !.body = canonical[p]])
                 /\ readers' = readers \cup {r}
    BY <1>4 DEF BeginRead
  <2>2. [Idle EXCEPT !.op = "get", !.path = p, !.body = canonical[p]] \in Job
    BY PathAssumption DEF Idle, Job, Reading
  <2>3. pc'[r] \in {"notFound", "readEntry"} /\ pc' \in [Request -> AllSteps]
    BY <2>1 DEF AllSteps, ReadSteps, Outcomes
  <2>4. job' \in [Request -> Job] /\ readers' \in SUBSET Request
    BY <2>1, <2>2
  <2> QED
    BY <1>4, <2>3, <2>4 DEF BeginRead, AllSteps
<1>5. ASSUME NEW r \in Request, BeginManifest(r) PROVE TypeOK'
  <2>1. [Idle EXCEPT !.op = "manifest", !.todo = {p \in Path : metadata[p] # None}] \in Job
    BY DEF Idle, Job, Reading
  <2> QED
    BY <1>5, <2>1 DEF BeginManifest, ReadSteps
<1>6. ASSUME NEW r \in Request, WriteConflictFile(r) PROVE TypeOK'
  BY <1>6 DEF WriteConflictFile, WriteSteps, ConflictSteps, Job
<1>7. ASSUME NEW r \in Request, SaveConflict(r) PROVE TypeOK'
  <2>1. [path |-> job[r].path, local |-> job[r].entry,
         remote |-> job[r].old, resolved |-> FALSE] \in Conflict
    BY <1>7 DEF SaveConflict, JobInv, JobOK, Conflict, WriteSteps, ConflictSteps
  <2>2. Verdict(job[r], "conflict") \in Outcomes
    BY VerdictType DEF Outcomes
  <2> QED
    BY <1>7, <2>1, <2>2 DEF SaveConflict, Finish
<1>8. ASSUME NEW r \in Request, CreateBackup(r) PROVE TypeOK'
  <2>1. [job[r] EXCEPT !.stamp = BackupLabel] \in Job
    BY JobUpdates DEF BackupLabel
  <2>2. bak' \in [Path -> [Second -> Content \cup {None}]]
    BY <1>8 DEF CreateBackup, JobInv, JobOK, WriteSteps, BackupSteps, BackupLabel
  <2> QED
    BY <1>8, <2>1, <2>2 DEF CreateBackup, WriteSteps, BackupSteps
<1>9. ASSUME NEW r \in Request, WriteBackupMeta(r) PROVE TypeOK'
  <2>1. job[r].old \in Entry \cup {None}
    BY DEF Job
  <2> QED
    BY <1>9, <2>1 DEF WriteBackupMeta, WriteSteps, BackupSteps
<1>10. ASSUME NEW r \in Request, ListBackups(r) PROVE TypeOK'
  <2>1. [job[r] EXCEPT !.listed = Stamps(job[r].path)] \in Job
    <3>1. Stamps(job[r].path) \in SUBSET Second /\ job[r] \in Job
      BY DEF Stamps
    <3> QED
      BY <3>1, JobUpdates
  <2> QED
    BY <1>10, <2>1 DEF ListBackups, WriteSteps, BackupSteps
<1>11. ASSUME NEW r \in Request, RotateFile(r) PROVE TypeOK'
  <2>1. PICK s \in Oldest(job[r].listed) : bak' \in Removed(bak, job[r].path, s)
    BY <1>11 DEF RotateFile
  <2>2. bak' \in [Path -> [Second -> Content \cup {None}]]
    <3>1. job[r].path \in Path /\ s \in Second
      BY <1>11, PathAssumption DEF RotateFile, JobInv, JobOK, WriteSteps, BackupSteps, Oldest, Job
    <3> QED
      BY <2>1, <3>1, RemovedType
  <2>3. /\ Goto(r, "rotateMeta")
        /\ UNCHANGED <<canonical, metadata, bakMeta, conflictMeta, conflictFile, now, writer, readers, job>>
    BY <1>11 DEF RotateFile
  <2> QED
    BY <2>2, <2>3 DEF WriteSteps, BackupSteps
<1>12. ASSUME NEW r \in Request, RotateMeta(r) PROVE TypeOK'
  <2>1. PICK s \in Oldest(job[r].listed) :
            /\ bakMeta' \in Removed(bakMeta, job[r].path, s)
            /\ Learn(r, [job[r] EXCEPT !.listed = @ \ {s}])
    BY <1>12 DEF RotateMeta
  <2>2. [job[r] EXCEPT !.listed = @ \ {s}] \in Job
    BY JobUpdates
  <2>3. bakMeta' \in [Path -> [Second -> Entry \cup {None}]]
    <3>1. job[r].path \in Path /\ s \in Second
      BY <1>12, PathAssumption DEF RotateMeta, JobInv, JobOK, WriteSteps, BackupSteps, Oldest, Job
    <3> QED
      BY <2>1, <3>1, RemovedType
  <2>4. /\ Goto(r, "rotateFile")
        /\ UNCHANGED <<canonical, metadata, bak, conflictMeta, conflictFile, now, writer, readers>>
    BY <1>12 DEF RotateMeta
  <2> QED
    BY <2>1, <2>2, <2>3, <2>4 DEF WriteSteps, BackupSteps
<1>13. ASSUME NEW r \in Request, RotatePanic(r) PROVE TypeOK'
  BY <1>13 DEF RotatePanic, Finish, Outcomes
<1>14. ASSUME NEW r \in Request, RotateDone(r) PROVE TypeOK'
  BY <1>14 DEF RotateDone, WriteSteps
<1>15. ASSUME NEW r \in Request, WriteCanonical(r) PROVE TypeOK'
  <2>1. Source(r) \in Content
    <3>1. Source(r) \in Content \cup {None}
      <4>1. CASE job[r].op = "put"
        BY <4>1 DEF Source, Job
      <4>2. CASE job[r].op # "put"
        BY <1>15, <4>2 DEF Source, WriteCanonical, JobInv, JobOK, WriteSteps
      <4> QED
        BY <4>1, <4>2
    <3> QED
      BY <1>15, <3>1 DEF WriteCanonical
  <2> QED
    BY <1>15, <2>1 DEF WriteCanonical, WriteSteps
<1>16. ASSUME NEW r \in Request, OpenMissing(r) PROVE TypeOK'
  BY <1>16 DEF OpenMissing, Finish, Outcomes
<1>17. ASSUME NEW r \in Request, WriteMetadata(r) PROVE TypeOK'
  <2>1. job[r].entry \in Entry
    BY <1>17 DEF WriteMetadata, JobInv, JobOK, WriteSteps
  <2>2. Verdict(job[r], "ok") \in Outcomes
    BY VerdictType DEF Outcomes
  <2> QED
    BY <1>17, <2>1, <2>2 DEF WriteMetadata, Finish, WriteSteps, ResolveSteps
<1>18. ASSUME NEW r \in Request, MarkResolved(r) PROVE TypeOK'
  <2>1. conflictMeta[job[r].id] \in Conflict
    BY <1>18 DEF MarkResolved, JobInv, JobOK, WriteSteps, ResolveSteps
  <2>2. [conflictMeta[job[r].id] EXCEPT !.resolved = TRUE] \in Conflict
    BY <2>1 DEF Conflict
  <2> QED
    BY <1>18, <2>2 DEF MarkResolved, WriteSteps, ResolveSteps
<1>19. ASSUME NEW r \in Request, RemoveCandidate(r) PROVE TypeOK'
  BY <1>19 DEF RemoveCandidate, Finish, Outcomes
<1>20. ASSUME NEW r \in Request, ReadEntry(r) PROVE TypeOK'
  BY <1>20 DEF ReadEntry, Leave, Outcomes
<1>21. ASSUME NEW r \in Request, WalkOne(r) PROVE TypeOK'
  <2>1. PICK p \in job[r].todo :
            Learn(r, [job[r] EXCEPT !.todo = @ \ {p}, !.view[p] = metadata[p]])
    BY <1>21 DEF WalkOne
  <2>2. [job[r] EXCEPT !.todo = @ \ {p}, !.view[p] = metadata[p]] \in Job
    <3>1. p \in Path /\ metadata[p] \in Entry \cup {None} /\ job[r] \in Job
      BY DEF Job
    <3> QED
      BY <3>1, JobUpdates
  <2> QED
    BY <1>21, <2>1, <2>2 DEF WalkOne
<1>22. ASSUME NEW r \in Request, WalkDone(r) PROVE TypeOK'
  BY <1>22 DEF WalkDone, Leave, Outcomes
<1>23. ASSUME NEW r \in Request, Fail(r) PROVE TypeOK'
  BY <1>23 DEF Fail, Finish, Outcomes
<1>24. CASE Crash
  BY <1>24 DEF Crash, Outcomes
<1>25. CASE Tick
  BY <1>25 DEF Tick
<1>26. CASE UNCHANGED vars
  BY <1>26 DEF vars
<1> QED
  BY <1>1, <1>2, <1>3, <1>4, <1>5, <1>6, <1>7, <1>8, <1>9, <1>10, <1>11, <1>12, <1>13,
     <1>14, <1>15, <1>16, <1>17, <1>18, <1>19, <1>20, <1>21, <1>22, <1>23, <1>24, <1>25,
     <1>26 DEF Next, Arrive, Step, Quiet

-----------------------------------------------------------------------------
(* Every step keeps the lock discipline: writer and readers follow the     *)
(* control points exactly, on the error paths too.                         *)

\* Every step keeps mu's discipline: Lock and Unlock bracket the write steps.
LEMMA LockStep == Inductive /\ [Next]_vars => LockDiscipline'
<1> SUFFICES ASSUME Inductive, [Next]_vars PROVE LockDiscipline'
  OBVIOUS
<1> USE NoneAssumption, StepsAreDisjoint DEF Inductive, TypeOK, LockDiscipline, Goto, At
<1>1. ASSUME NEW r \in Request, BeginPut(r) PROVE LockDiscipline'
  <2>1. \E step \in WriteSteps : Goto(r, step)
    BY <1>1, PutStartType DEF BeginPut
  <2> QED
    BY <1>1, <2>1 DEF BeginPut, LockFree
<1>2. ASSUME NEW r \in Request, BeginResolve(r) PROVE LockDiscipline'
  <2>1. \E step \in WriteSteps : Goto(r, step)
    BY <1>2, ResolveStartType DEF BeginResolve
  <2> QED
    BY <1>2, <2>1 DEF BeginResolve, LockFree
<1>3. ASSUME NEW r \in Request, RefuseResolve(r) PROVE LockDiscipline'
  <2>1. PICK outcome \in {"error", "rejected"} : Goto(r, outcome)
    BY <1>3 DEF RefuseResolve
  <2> QED
    BY <1>3, <2>1 DEF RefuseResolve, Outcomes
<1>4. ASSUME NEW r \in Request, BeginRead(r) PROVE LockDiscipline'
  BY <1>4 DEF BeginRead, RLockFree, ReadSteps, Outcomes
<1>5. ASSUME NEW r \in Request, BeginManifest(r) PROVE LockDiscipline'
  BY <1>5 DEF BeginManifest, RLockFree, ReadSteps
<1>6. ASSUME NEW r \in Request, WriteConflictFile(r) PROVE LockDiscipline'
  BY <1>6 DEF WriteConflictFile, WriteSteps, ConflictSteps
<1>7. ASSUME NEW r \in Request, SaveConflict(r) PROVE LockDiscipline'
  <2>1. Verdict(job[r], "conflict") \in Outcomes
    BY VerdictType DEF Outcomes
  <2> QED
    BY <1>7, <2>1 DEF SaveConflict, Finish, WriteSteps, ConflictSteps, ResolveSteps
<1>8. ASSUME NEW r \in Request, CreateBackup(r) PROVE LockDiscipline'
  BY <1>8 DEF CreateBackup, WriteSteps, BackupSteps
<1>9. ASSUME NEW r \in Request, WriteBackupMeta(r) PROVE LockDiscipline'
  BY <1>9 DEF WriteBackupMeta, WriteSteps, BackupSteps
<1>10. ASSUME NEW r \in Request, ListBackups(r) PROVE LockDiscipline'
  BY <1>10 DEF ListBackups, WriteSteps, BackupSteps
<1>11. ASSUME NEW r \in Request, RotateFile(r) PROVE LockDiscipline'
  BY <1>11 DEF RotateFile, WriteSteps, BackupSteps
<1>12. ASSUME NEW r \in Request, RotateMeta(r) PROVE LockDiscipline'
  BY <1>12 DEF RotateMeta, WriteSteps, BackupSteps
<1>13. ASSUME NEW r \in Request, RotatePanic(r) PROVE LockDiscipline'
  BY <1>13 DEF RotatePanic, Finish, WriteSteps, BackupSteps, Outcomes
<1>14. ASSUME NEW r \in Request, RotateDone(r) PROVE LockDiscipline'
  BY <1>14 DEF RotateDone, WriteSteps, BackupSteps
<1>15. ASSUME NEW r \in Request, WriteCanonical(r) PROVE LockDiscipline'
  BY <1>15 DEF WriteCanonical, WriteSteps, BackupSteps
<1>16. ASSUME NEW r \in Request, OpenMissing(r) PROVE LockDiscipline'
  BY <1>16 DEF OpenMissing, Finish, WriteSteps, Outcomes
<1>17. ASSUME NEW r \in Request, WriteMetadata(r) PROVE LockDiscipline'
  <2>1. Verdict(job[r], "ok") \in Outcomes
    BY VerdictType DEF Outcomes
  <2>2. CASE job[r].op = "put"
    <3>1. /\ pc' = [pc EXCEPT ![r] = Verdict(job[r], "ok")]
          /\ writer' = None
          /\ readers' = readers
      BY <1>17, <2>2 DEF WriteMetadata, Finish
    <3>2. pc[r] \in WriteSteps
      BY <1>17 DEF WriteMetadata, WriteSteps
    <3> QED
      BY <2>1, <3>1, <3>2
  <2>3. CASE job[r].op # "put"
    BY <1>17, <2>3 DEF WriteMetadata, WriteSteps, ResolveSteps
  <2> QED
    BY <2>2, <2>3
<1>18. ASSUME NEW r \in Request, MarkResolved(r) PROVE LockDiscipline'
  BY <1>18 DEF MarkResolved, WriteSteps, ResolveSteps
<1>19. ASSUME NEW r \in Request, RemoveCandidate(r) PROVE LockDiscipline'
  BY <1>19 DEF RemoveCandidate, Finish, WriteSteps, ResolveSteps, Outcomes
<1>20. ASSUME NEW r \in Request, ReadEntry(r) PROVE LockDiscipline'
  BY <1>20 DEF ReadEntry, Leave, ReadSteps, Outcomes
<1>21. ASSUME NEW r \in Request, WalkOne(r) PROVE LockDiscipline'
  BY <1>21 DEF WalkOne, ReadSteps
<1>22. ASSUME NEW r \in Request, WalkDone(r) PROVE LockDiscipline'
  BY <1>22 DEF WalkDone, Leave, ReadSteps, Outcomes
<1>23. ASSUME NEW r \in Request, Fail(r) PROVE LockDiscipline'
  BY <1>23 DEF Fail, Finish, ReadsBody, WriteSteps, ConflictSteps, Outcomes
<1>24. CASE Crash
  BY <1>24 DEF Crash, Outcomes
<1>25. CASE Tick
  BY <1>25 DEF Tick
<1>26. CASE UNCHANGED vars
  BY <1>26 DEF vars
<1> QED
  BY <1>1, <1>2, <1>3, <1>4, <1>5, <1>6, <1>7, <1>8, <1>9, <1>10, <1>11, <1>12, <1>13, <1>14, <1>15, <1>16, <1>17, <1>18, <1>19, <1>20, <1>21, <1>22, <1>23, <1>24, <1>25, <1>26 DEF Next, Arrive, Step, Quiet

-----------------------------------------------------------------------------
(* Every step keeps what the goroutine with the lock remembers.            *)

\* A recorded conflict is never taken back.
LEMMA ConflictStays ==
    ASSUME Inductive, [Next]_vars, NEW id \in Request, conflictMeta[id] \in Conflict
    PROVE  conflictMeta'[id] \in Conflict
<1> USE DEF Inductive, TypeOK, At
<1>1. ASSUME NEW r \in Request, SaveConflict(r) PROVE conflictMeta'[id] \in Conflict
  <2>1. [path |-> job[r].path, local |-> job[r].entry,
         remote |-> job[r].old, resolved |-> FALSE] \in Conflict
    BY <1>1 DEF SaveConflict, JobInv, JobOK, Conflict, WriteSteps, ConflictSteps
  <2> QED
    BY <1>1, <2>1 DEF SaveConflict
<1>2. ASSUME NEW r \in Request, MarkResolved(r) PROVE conflictMeta'[id] \in Conflict
  <2>1. conflictMeta[job[r].id] \in Conflict
    BY <1>2 DEF MarkResolved, JobInv, JobOK, WriteSteps, ResolveSteps
  <2>2. [conflictMeta[job[r].id] EXCEPT !.resolved = TRUE] \in Conflict
    BY <2>1 DEF Conflict
  <2> QED
    BY <1>2, <2>2 DEF MarkResolved
<1>3. CASE UNCHANGED conflictMeta
  BY <1>3
<1> QED
  BY <1>1, <1>2, <1>3
  DEF Next, Arrive, Step, Quiet, vars, disk, Tick, Crash, Fail, BeginPut, BeginResolve, RefuseResolve,
      BeginRead, BeginManifest, WriteConflictFile, CreateBackup, WriteBackupMeta, ListBackups,
      RotateFile, RotateMeta, RotatePanic, RotateDone, WriteCanonical, OpenMissing, WriteMetadata,
      RemoveCandidate, ReadEntry, WalkOne, WalkDone

\* A step that touches one request leaves the others' jobs as they were.
LEMMA OtherJobs ==
    ASSUME Inductive, [Next]_vars, NEW r \in Request, NEW q \in Request, q # r,
           pc'[q] = pc[q], job'[q] = job[q]
    PROVE  JobOK(q)'
BY ConflictStays DEF Inductive, JobInv, JobOK

\* A request that holds no write lock after the step owes nothing.
LEMMA NoJob ==
    ASSUME NEW r \in Request, pc'[r] \notin WriteSteps
    PROVE  JobOK(r)'
BY DEF JobOK, WriteSteps

\* Every step keeps what the holder of the lock remembers in step with the disk.
LEMMA JobStep == Inductive /\ [Next]_vars => JobInv'
<1> SUFFICES ASSUME Inductive, [Next]_vars PROVE JobInv'
  OBVIOUS
<1> USE StepsAreDisjoint DEF Inductive, TypeOK, Goto, Learn, At
<1>0. ASSUME NEW r \in Request, JobOK(r)', \A q \in Request \ {r} : pc'[q] = pc[q] /\ job'[q] = job[q]
      PROVE  JobInv'
  BY <1>0, OtherJobs DEF JobInv
<1>1. ASSUME NEW r \in Request, BeginPut(r) PROVE JobInv'
  <2>1. PICK p \in ClientPath, e \in Entry, body \in Content, base \in Content \cup {None} :
            Goto(r, PutStart(p, base)) /\ Learn(r, PutJob(p, e, body, base))
    BY <1>1 DEF BeginPut
  <2>2. job'[r].op = "put" /\ job'[r].path = p /\ job'[r].dest = p /\ job'[r].body = body
        /\ job'[r].entry = e /\ job'[r].old = metadata[p]
    BY <2>1 DEF PutJob, Idle
  <2>3. p \in Path
    BY PathAssumption
  <2>4. pc'[r] \in {"writeConflictFile", "createBackup", "writeCanonical"}
    BY <2>1 DEF PutStart
  <2>5. pc'[r] = "writeConflictFile" => metadata[p] \in Entry
    BY <2>1, <2>3 DEF PutStart, Diverged
  <2>6. JobOK(r)'
    BY <2>2, <2>3, <2>4, <2>5 DEF JobOK, WriteSteps, ConflictSteps, BackupSteps, ResolveSteps
  <2>7. \A q \in Request \ {r} : pc'[q] = pc[q] /\ job'[q] = job[q]
    BY <1>1 DEF BeginPut
  <2> QED
    BY <1>0, <2>6, <2>7
<1>2. ASSUME NEW r \in Request, BeginResolve(r) PROVE JobInv'
  <2>1. PICK id \in Request, choice \in Resolving :
            /\ conflictMeta[id] # None
            /\ Goto(r, ResolveStart(conflictMeta[id], choice))
            /\ Learn(r, ResolveJob(id, conflictMeta[id], choice))
    BY <1>2 DEF BeginResolve
  <2>2. conflictMeta[id] \in Conflict /\ conflictMeta' = conflictMeta
    BY <1>2, <2>1 DEF BeginResolve, disk
  <2>3. job'[r].op = choice /\ job'[r].path = conflictMeta[id].path /\ job'[r].id = id
        /\ job'[r].dest = ResolveDest(conflictMeta[id], choice)
        /\ job'[r].entry = conflictMeta[id].local
    BY <2>1 DEF ResolveJob, Idle
  <2>4. /\ conflictMeta[id].path \in ClientPath /\ conflictMeta[id].local \in Entry
        /\ ResolveDest(conflictMeta[id], choice) \in Path
    BY <2>2, ResolveDestType DEF Conflict
  <2>5. /\ choice # "put"
        /\ choice = "local" => ResolveDest(conflictMeta[id], choice) = conflictMeta[id].path
        /\ pc'[r] \in {"createBackup", "writeCanonical", "markResolved"}
        /\ pc'[r] = "createBackup" => choice = "local"
    BY <2>1 DEF ResolveStart, ResolveDest, Resolving
  <2>6. JobOK(r)'
    BY <2>2, <2>3, <2>4, <2>5 DEF JobOK, WriteSteps, ConflictSteps, BackupSteps, ResolveSteps
  <2>7. \A q \in Request \ {r} : pc'[q] = pc[q] /\ job'[q] = job[q]
    BY <1>2 DEF BeginResolve
  <2> QED
    BY <1>0, <2>6, <2>7
<1>3. ASSUME NEW r \in Request, RefuseResolve(r) PROVE JobInv'
  <2>1. JobOK(r)'
    BY <1>3, NoJob DEF RefuseResolve, Outcomes
  <2>2. \A q \in Request \ {r} : pc'[q] = pc[q] /\ job'[q] = job[q]
    BY <1>3 DEF RefuseResolve, Outcomes
  <2> QED
    BY <1>0, <2>1, <2>2
<1>4. ASSUME NEW r \in Request, BeginRead(r) PROVE JobInv'
  <2>1. JobOK(r)'
    BY <1>4, NoJob DEF BeginRead, ReadSteps, Outcomes
  <2>2. \A q \in Request \ {r} : pc'[q] = pc[q] /\ job'[q] = job[q]
    BY <1>4 DEF BeginRead, ReadSteps, Outcomes
  <2> QED
    BY <1>0, <2>1, <2>2
<1>5. ASSUME NEW r \in Request, BeginManifest(r) PROVE JobInv'
  <2>1. JobOK(r)'
    BY <1>5, NoJob DEF BeginManifest, ReadSteps
  <2>2. \A q \in Request \ {r} : pc'[q] = pc[q] /\ job'[q] = job[q]
    BY <1>5 DEF BeginManifest, ReadSteps
  <2> QED
    BY <1>0, <2>1, <2>2
<1>6. ASSUME NEW r \in Request, WriteConflictFile(r) PROVE JobInv'
  <2>1. JobOK(r)'
    BY <1>6, ConflictStays DEF WriteConflictFile, JobInv, JobOK, Job, WriteSteps, ConflictSteps, BackupSteps, ResolveSteps
  <2>2. \A q \in Request \ {r} : pc'[q] = pc[q] /\ job'[q] = job[q]
    BY <1>6 DEF WriteConflictFile
  <2> QED
    BY <1>0, <2>1, <2>2
<1>7. ASSUME NEW r \in Request, SaveConflict(r) PROVE JobInv'
  <2>1. Verdict(job[r], "conflict") \in Outcomes
    BY VerdictType DEF Outcomes
  <2>2. JobOK(r)'
    BY <1>7, <2>1, NoJob DEF SaveConflict, Finish
  <2>3. \A q \in Request \ {r} : pc'[q] = pc[q] /\ job'[q] = job[q]
    BY <1>7 DEF SaveConflict, Finish
  <2> QED
    BY <1>0, <2>2, <2>3
<1>8. ASSUME NEW r \in Request, CreateBackup(r) PROVE JobInv'
  <2>1. JobOK(r)'
    BY <1>8, ConflictStays DEF CreateBackup, BackupLabel, JobInv, JobOK, Job, WriteSteps, ConflictSteps, BackupSteps, ResolveSteps
  <2>2. \A q \in Request \ {r} : pc'[q] = pc[q] /\ job'[q] = job[q]
    BY <1>8 DEF CreateBackup
  <2> QED
    BY <1>0, <2>1, <2>2
<1>9. ASSUME NEW r \in Request, WriteBackupMeta(r) PROVE JobInv'
  <2>1. JobOK(r)'
    BY <1>9, ConflictStays DEF WriteBackupMeta, JobInv, JobOK, Job, WriteSteps, ConflictSteps, BackupSteps, ResolveSteps
  <2>2. \A q \in Request \ {r} : pc'[q] = pc[q] /\ job'[q] = job[q]
    BY <1>9 DEF WriteBackupMeta
  <2> QED
    BY <1>0, <2>1, <2>2
<1>10. ASSUME NEW r \in Request, ListBackups(r) PROVE JobInv'
  <2>3. job' = [job EXCEPT ![r] = [job[r] EXCEPT !.listed = Stamps(job[r].path)]] \/ UNCHANGED job
    BY <1>10 DEF ListBackups
  <2>4. /\ job'[r].op = job[r].op /\ job'[r].path = job[r].path /\ job'[r].body = job[r].body
        /\ job'[r].entry = job[r].entry /\ job'[r].dest = job[r].dest /\ job'[r].id = job[r].id
        /\ job'[r].old = job[r].old /\ job'[r].stamp = job[r].stamp
    BY <2>3 DEF Job
  <2>5. pc[r] = "listBackups" /\ pc'[r] \in {"rotateFile", "writeCanonical"} /\ JobOK(r)
    BY <1>10 DEF ListBackups, JobInv
  <2>6. UNCHANGED conflictMeta
    BY <1>10 DEF ListBackups, disk
  <2>1. JobOK(r)'
    BY <2>4, <2>5, <2>6 DEF JobOK, WriteSteps, ConflictSteps, BackupSteps, ResolveSteps
  <2>2. \A q \in Request \ {r} : pc'[q] = pc[q] /\ job'[q] = job[q]
    BY <1>10 DEF ListBackups
  <2> QED
    BY <1>0, <2>1, <2>2
<1>11. ASSUME NEW r \in Request, RotateFile(r) PROVE JobInv'
  <2>1. JobOK(r)'
    BY <1>11, ConflictStays DEF RotateFile, JobInv, JobOK, Job, WriteSteps, ConflictSteps, BackupSteps, ResolveSteps
  <2>2. \A q \in Request \ {r} : pc'[q] = pc[q] /\ job'[q] = job[q]
    BY <1>11 DEF RotateFile
  <2> QED
    BY <1>0, <2>1, <2>2
<1>12. ASSUME NEW r \in Request, RotateMeta(r) PROVE JobInv'
  <2>1. JobOK(r)'
    BY <1>12, ConflictStays DEF RotateMeta, JobInv, JobOK, Job, WriteSteps, ConflictSteps, BackupSteps, ResolveSteps
  <2>2. \A q \in Request \ {r} : pc'[q] = pc[q] /\ job'[q] = job[q]
    BY <1>12 DEF RotateMeta
  <2> QED
    BY <1>0, <2>1, <2>2
<1>13. ASSUME NEW r \in Request, RotatePanic(r) PROVE JobInv'
  <2>1. JobOK(r)'
    BY <1>13, NoJob DEF RotatePanic, Finish, Outcomes
  <2>2. \A q \in Request \ {r} : pc'[q] = pc[q] /\ job'[q] = job[q]
    BY <1>13 DEF RotatePanic, Finish, Outcomes
  <2> QED
    BY <1>0, <2>1, <2>2
<1>14. ASSUME NEW r \in Request, RotateDone(r) PROVE JobInv'
  <2>1. JobOK(r)'
    BY <1>14, ConflictStays DEF RotateDone, JobInv, JobOK, Job, WriteSteps, ConflictSteps, BackupSteps, ResolveSteps
  <2>2. \A q \in Request \ {r} : pc'[q] = pc[q] /\ job'[q] = job[q]
    BY <1>14 DEF RotateDone
  <2> QED
    BY <1>0, <2>1, <2>2
<1>15. ASSUME NEW r \in Request, WriteCanonical(r) PROVE JobInv'
  <2>1. JobOK(r)'
    BY <1>15, ConflictStays DEF WriteCanonical, JobInv, JobOK, Job, WriteSteps, ConflictSteps, BackupSteps, ResolveSteps
  <2>2. \A q \in Request \ {r} : pc'[q] = pc[q] /\ job'[q] = job[q]
    BY <1>15 DEF WriteCanonical
  <2> QED
    BY <1>0, <2>1, <2>2
<1>16. ASSUME NEW r \in Request, OpenMissing(r) PROVE JobInv'
  <2>1. JobOK(r)'
    BY <1>16, NoJob DEF OpenMissing, Finish, Outcomes
  <2>2. \A q \in Request \ {r} : pc'[q] = pc[q] /\ job'[q] = job[q]
    BY <1>16 DEF OpenMissing, Finish, Outcomes
  <2> QED
    BY <1>0, <2>1, <2>2
<1>17. ASSUME NEW r \in Request, WriteMetadata(r) PROVE JobInv'
  <2>1. Verdict(job[r], "ok") \in Outcomes
    BY VerdictType DEF Outcomes
  <2>2. ASSUME job[r].op = "put" PROVE JobOK(r)'
    BY <1>17, <2>1, <2>2, NoJob DEF WriteMetadata, Finish
  <2>3. ASSUME job[r].op # "put" PROVE JobOK(r)'
    BY <1>17, <2>3 DEF WriteMetadata, JobInv, JobOK, WriteSteps, ConflictSteps, BackupSteps, ResolveSteps
  <2>4. JobOK(r)'
    BY <2>2, <2>3
  <2>5. \A q \in Request \ {r} : pc'[q] = pc[q] /\ job'[q] = job[q]
    BY <1>17 DEF WriteMetadata, Finish
  <2> QED
    BY <1>0, <2>4, <2>5
<1>18. ASSUME NEW r \in Request, MarkResolved(r) PROVE JobInv'
  <2>1. JobOK(r)'
    BY <1>18, ConflictStays DEF MarkResolved, JobInv, JobOK, Job, WriteSteps, ConflictSteps, BackupSteps, ResolveSteps
  <2>2. \A q \in Request \ {r} : pc'[q] = pc[q] /\ job'[q] = job[q]
    BY <1>18 DEF MarkResolved
  <2> QED
    BY <1>0, <2>1, <2>2
<1>19. ASSUME NEW r \in Request, RemoveCandidate(r) PROVE JobInv'
  <2>1. JobOK(r)'
    BY <1>19, NoJob DEF RemoveCandidate, Finish, Outcomes
  <2>2. \A q \in Request \ {r} : pc'[q] = pc[q] /\ job'[q] = job[q]
    BY <1>19 DEF RemoveCandidate, Finish, Outcomes
  <2> QED
    BY <1>0, <2>1, <2>2
<1>20. ASSUME NEW r \in Request, ReadEntry(r) PROVE JobInv'
  <2>1. JobOK(r)'
    BY <1>20, NoJob DEF ReadEntry, Leave, Outcomes
  <2>2. \A q \in Request \ {r} : pc'[q] = pc[q] /\ job'[q] = job[q]
    BY <1>20 DEF ReadEntry, Leave, Outcomes
  <2> QED
    BY <1>0, <2>1, <2>2
<1>21. ASSUME NEW r \in Request, WalkOne(r) PROVE JobInv'
  <2>1. JobOK(r)'
    BY <1>21, NoJob DEF WalkOne, ReadSteps
  <2>2. \A q \in Request \ {r} : pc'[q] = pc[q] /\ job'[q] = job[q]
    BY <1>21 DEF WalkOne, ReadSteps
  <2> QED
    BY <1>0, <2>1, <2>2
<1>22. ASSUME NEW r \in Request, WalkDone(r) PROVE JobInv'
  <2>1. JobOK(r)'
    BY <1>22, NoJob DEF WalkDone, Leave, Outcomes
  <2>2. \A q \in Request \ {r} : pc'[q] = pc[q] /\ job'[q] = job[q]
    BY <1>22 DEF WalkDone, Leave, Outcomes
  <2> QED
    BY <1>0, <2>1, <2>2
<1>23. ASSUME NEW r \in Request, Fail(r) PROVE JobInv'
  <2>1. JobOK(r)'
    BY <1>23, NoJob DEF Fail, Finish, Outcomes
  <2>2. \A q \in Request \ {r} : pc'[q] = pc[q] /\ job'[q] = job[q]
    BY <1>23 DEF Fail, Finish, Outcomes
  <2> QED
    BY <1>0, <2>1, <2>2
<1>24. CASE Crash
  <2>1. \A r \in Request : pc'[r] \notin WriteSteps
    BY <1>24 DEF Crash, Outcomes
  <2> QED
    BY <2>1, NoJob DEF JobInv
<1>25. CASE Tick
  BY <1>25 DEF Tick, JobInv, JobOK, disk
<1>26. CASE UNCHANGED vars
  BY <1>26 DEF vars, JobInv, JobOK
<1> QED
  BY <1>1, <1>2, <1>3, <1>4, <1>5, <1>6, <1>7, <1>8, <1>9, <1>10, <1>11, <1>12, <1>13, <1>14, <1>15, <1>16, <1>17, <1>18, <1>19, <1>20, <1>21, <1>22, <1>23, <1>24, <1>25, <1>26 DEF Next, Arrive, Step, Quiet

-----------------------------------------------------------------------------
(* The inductive invariant, and what follows from it directly.             *)

\* A fresh store satisfies the inductive invariant.
LEMMA InitInductive == Init => Inductive
<1> SUFFICES ASSUME Init PROVE Inductive
  OBVIOUS
<1>1. TypeOK
  BY IdleType DEF Init, TypeOK, Entry
<1>2. LockDiscipline
  BY StepsAreDisjoint, NoneAssumption DEF Init, LockDiscipline
<1>3. JobInv
  BY StepsAreDisjoint DEF Init, JobInv, JobOK, WriteSteps
<1> QED
  BY <1>1, <1>2, <1>3 DEF Inductive

\* Every step keeps the inductive invariant.
LEMMA InductiveStep == Inductive /\ [Next]_vars => Inductive'
BY TypeStep, LockStep, JobStep DEF Inductive

\* The invariant holds in every reachable state of every instance.
THEOREM InductiveCorrect == Spec => []Inductive
BY InitInductive, InductiveStep, PTL DEF Spec

\* Every variable has its type at all times: types.
THEOREM TypeCorrect == Spec => []TypeOK
<1>1. Inductive => TypeOK
  BY DEF Inductive
<1> QED
  BY <1>1, InductiveCorrect, PTL

\* RWMutex: a writer is alone, and exactly the requests between Lock and
\* Unlock hold the lock, on every path out of storage.go.
THEOREM LockCorrect == Spec => []LockDiscipline
<1>1. Inductive => LockDiscipline
  BY DEF Inductive
<1> QED
  BY <1>1, InductiveCorrect, PTL

-----------------------------------------------------------------------------
(* Conflicts.                                                              *)

\* The candidate is on disk before its conflict is, and leaves after the
\* conflict was marked; no request touches the candidate of another's.
CandidateOK(r) ==
    /\ pc[r] \in {"new"} \cup WriteSteps => conflictMeta[r] = None
    /\ pc[r] \in ConflictSteps /\ "mismatch" \notin Fault => job[r].body = job[r].entry.sha
    /\ pc[r] = "saveConflict" => conflictFile[r] = job[r].body
    /\ pc[r] = "removeCandidate" => conflictMeta[job[r].id].resolved

CandidateInv == OpenConflictHasCandidate /\ \A r \in Request : CandidateOK(r)

\* A step of one request that leaves the conflicts alone, and does not enter
\* a step that deals with them.
LEMMA CandidateFrame ==
    ASSUME Inductive, CandidateInv, NEW r \in Request,
           UNCHANGED <<conflictMeta, conflictFile>>,
           \A q \in Request \ {r} : pc'[q] = pc[q] /\ job'[q] = job[q],
           pc'[r] \notin ConflictSteps \cup {"removeCandidate"},
           pc'[r] \in {"new"} \cup WriteSteps => pc[r] \in {"new"} \cup WriteSteps
    PROVE  CandidateInv'
<1>1. CandidateOK(r)'
  BY DEF CandidateInv, CandidateOK, ConflictSteps
<1>2. \A q \in Request \ {r} : CandidateOK(q)'
  BY DEF CandidateInv, CandidateOK
<1>3. OpenConflictHasCandidate'
  BY DEF CandidateInv, OpenConflictHasCandidate
<1> QED
  BY <1>1, <1>2, <1>3 DEF CandidateInv

\* Every step keeps the candidate of an open conflict on disk.
LEMMA CandidateStep == Inductive /\ CandidateInv /\ [Next]_vars => CandidateInv'
<1> SUFFICES ASSUME Inductive, CandidateInv, [Next]_vars PROVE CandidateInv'
  OBVIOUS
<1> USE StepsAreDisjoint DEF Inductive, TypeOK, Goto, Learn, At
<1>1. ASSUME NEW r \in Request, BeginPut(r) PROVE CandidateInv'
  <2>1. PICK p \in ClientPath, e \in Entry, body \in Content, base \in Content \cup {None} :
            /\ body = e.sha \/ "mismatch" \in Fault
            /\ Goto(r, PutStart(p, base)) /\ Learn(r, PutJob(p, e, body, base))
    BY <1>1 DEF BeginPut
  <2>2. pc[r] = "new" /\ UNCHANGED <<conflictMeta, conflictFile>>
    BY <1>1 DEF BeginPut, disk
  <2>3. job'[r].body = body /\ job'[r].entry = e
    BY <2>1 DEF PutJob, Idle
  <2>4. pc'[r] \in {"writeConflictFile", "createBackup", "writeCanonical"}
    BY <2>1 DEF PutStart
  <2>5. CandidateOK(r)'
    BY <2>1, <2>2, <2>3, <2>4 DEF CandidateInv, CandidateOK
  <2>6. \A q \in Request \ {r} : CandidateOK(q)'
    BY <2>1, <2>2 DEF CandidateInv, CandidateOK
  <2> QED
    BY <2>2, <2>5, <2>6 DEF CandidateInv, OpenConflictHasCandidate
<1>2. ASSUME NEW r \in Request, BeginResolve(r) PROVE CandidateInv'
  <2>1. PICK id \in Request, choice \in Resolving :
            /\ Goto(r, ResolveStart(conflictMeta[id], choice))
            /\ Learn(r, ResolveJob(id, conflictMeta[id], choice))
    BY <1>2 DEF BeginResolve
  <2>2. pc'[r] \in {"createBackup", "writeCanonical", "markResolved"}
    BY <2>1 DEF ResolveStart, Resolving
  <2> QED
    BY <1>2, <2>1, <2>2, CandidateFrame DEF BeginResolve, disk, ConflictSteps
<1>3. ASSUME NEW r \in Request, RefuseResolve(r) PROVE CandidateInv'
  BY <1>3, CandidateFrame DEF RefuseResolve, Outcomes, disk, WriteSteps, ConflictSteps, BackupSteps, ResolveSteps
<1>4. ASSUME NEW r \in Request, BeginRead(r) PROVE CandidateInv'
  BY <1>4, CandidateFrame DEF BeginRead, ReadSteps, Outcomes, disk, WriteSteps, ConflictSteps, BackupSteps, ResolveSteps
<1>5. ASSUME NEW r \in Request, BeginManifest(r) PROVE CandidateInv'
  BY <1>5, CandidateFrame DEF BeginManifest, ReadSteps, disk, WriteSteps, ConflictSteps, BackupSteps, ResolveSteps
<1>6. ASSUME NEW r \in Request, WriteConflictFile(r) PROVE CandidateInv'
  <2>1. pc[r] \in ConflictSteps /\ pc[r] \in WriteSteps /\ pc'[r] = "saveConflict"
    BY <1>6 DEF WriteConflictFile, WriteSteps, ConflictSteps
  <2>2. job[r].body \in Content /\ conflictMeta[r] = None
    BY <2>1 DEF JobInv, JobOK, CandidateInv, CandidateOK
  <2>3. CandidateOK(r)'
    BY <1>6, <2>1, <2>2 DEF WriteConflictFile, CandidateInv, CandidateOK
  <2>4. \A q \in Request \ {r} : CandidateOK(q)'
    BY <1>6 DEF WriteConflictFile, CandidateInv, CandidateOK
  <2>5. OpenConflictHasCandidate'
    BY <1>6, <2>2 DEF WriteConflictFile, CandidateInv, OpenConflictHasCandidate
  <2> QED
    BY <2>3, <2>4, <2>5 DEF CandidateInv
<1>7. ASSUME NEW r \in Request, SaveConflict(r) PROVE CandidateInv'
  <2>1. pc[r] = "saveConflict" /\ pc[r] \in ConflictSteps /\ pc[r] \in WriteSteps
    BY <1>7 DEF SaveConflict, WriteSteps, ConflictSteps
  <2>2. /\ job[r].body \in Content
        /\ conflictFile[r] = job[r].body
        /\ "mismatch" \notin Fault => job[r].body = job[r].entry.sha
        /\ conflictMeta[r] = None
    BY <2>1 DEF JobInv, JobOK, CandidateInv, CandidateOK
  <2>3. /\ conflictMeta' = [conflictMeta EXCEPT ![r] =
              [path |-> job[r].path, local |-> job[r].entry,
               remote |-> job[r].old, resolved |-> FALSE]]
        /\ conflictFile' = conflictFile
        /\ pc' = [pc EXCEPT ![r] = Verdict(job[r], "conflict")]
        /\ job' = [job EXCEPT ![r] = Idle]
    BY <1>7 DEF SaveConflict, Finish
  <2>4. Verdict(job[r], "conflict") \in Outcomes
    BY VerdictType DEF Outcomes
  <2>5. CandidateOK(r)'
    BY <2>3, <2>4 DEF CandidateOK, WriteSteps, ConflictSteps, ResolveSteps, Outcomes
  <2>6. \A q \in Request \ {r} : CandidateOK(q)'
    <3> SUFFICES ASSUME NEW q \in Request \ {r} PROVE CandidateOK(q)'
      OBVIOUS
    <3>1. pc'[q] = pc[q] /\ job'[q] = job[q] /\ conflictMeta'[q] = conflictMeta[q]
      BY <2>3
    <3>2. pc[q] # "removeCandidate"
      BY <2>1, NoneAssumption DEF LockDiscipline, WriteSteps, ResolveSteps
    <3> QED
      BY <2>3, <3>1, <3>2 DEF CandidateInv, CandidateOK
  <2>7. OpenConflictHasCandidate'
    <3> SUFFICES ASSUME NEW id \in Request, conflictMeta'[id] # None, ~conflictMeta'[id].resolved
                 PROVE  /\ conflictFile'[id] # None
                        /\ "mismatch" \notin Fault => conflictFile'[id] = conflictMeta'[id].local.sha
      BY DEF OpenConflictHasCandidate
    <3>1. CASE id = r
      BY <2>2, <2>3, <3>1, NoneAssumption
    <3>2. CASE id # r
      BY <2>3, <3>2 DEF CandidateInv, OpenConflictHasCandidate
    <3> QED
      BY <3>1, <3>2
  <2> QED
    BY <2>5, <2>6, <2>7 DEF CandidateInv
<1>8. ASSUME NEW r \in Request, CreateBackup(r) PROVE CandidateInv'
  BY <1>8, CandidateFrame DEF CreateBackup, disk, WriteSteps, ConflictSteps, BackupSteps, ResolveSteps
<1>9. ASSUME NEW r \in Request, WriteBackupMeta(r) PROVE CandidateInv'
  BY <1>9, CandidateFrame DEF WriteBackupMeta, disk, WriteSteps, ConflictSteps, BackupSteps, ResolveSteps
<1>10. ASSUME NEW r \in Request, ListBackups(r) PROVE CandidateInv'
  BY <1>10, CandidateFrame DEF ListBackups, disk, WriteSteps, ConflictSteps, BackupSteps, ResolveSteps
<1>11. ASSUME NEW r \in Request, RotateFile(r) PROVE CandidateInv'
  BY <1>11, CandidateFrame DEF RotateFile, disk, WriteSteps, ConflictSteps, BackupSteps, ResolveSteps
<1>12. ASSUME NEW r \in Request, RotateMeta(r) PROVE CandidateInv'
  BY <1>12, CandidateFrame DEF RotateMeta, disk, WriteSteps, ConflictSteps, BackupSteps, ResolveSteps
<1>13. ASSUME NEW r \in Request, RotatePanic(r) PROVE CandidateInv'
  BY <1>13, CandidateFrame DEF RotatePanic, Finish, Outcomes, disk, WriteSteps, ConflictSteps, BackupSteps, ResolveSteps
<1>14. ASSUME NEW r \in Request, RotateDone(r) PROVE CandidateInv'
  BY <1>14, CandidateFrame DEF RotateDone, disk, WriteSteps, ConflictSteps, BackupSteps, ResolveSteps
<1>15. ASSUME NEW r \in Request, WriteCanonical(r) PROVE CandidateInv'
  BY <1>15, CandidateFrame DEF WriteCanonical, disk, WriteSteps, ConflictSteps, BackupSteps, ResolveSteps
<1>16. ASSUME NEW r \in Request, OpenMissing(r) PROVE CandidateInv'
  BY <1>16, CandidateFrame DEF OpenMissing, Finish, Outcomes, disk, WriteSteps, ConflictSteps, BackupSteps, ResolveSteps
<1>17. ASSUME NEW r \in Request, WriteMetadata(r) PROVE CandidateInv'
  <2>1. Verdict(job[r], "ok") \in Outcomes
    BY VerdictType DEF Outcomes
  <2>2. pc'[r] \in Outcomes \cup {"markResolved"}
    BY <1>17, <2>1 DEF WriteMetadata, Finish
  <2>3. pc[r] \in WriteSteps
    BY <1>17 DEF WriteMetadata, WriteSteps
  <2>4. \A q \in Request \ {r} : pc'[q] = pc[q] /\ job'[q] = job[q]
    BY <1>17 DEF WriteMetadata, Finish
  <2>5. pc'[r] \notin ConflictSteps \cup {"removeCandidate"} /\ pc[r] \in {"new"} \cup WriteSteps
    BY <2>2, <2>3 DEF ConflictSteps, Outcomes
  <2>6. UNCHANGED <<conflictMeta, conflictFile>>
    BY <1>17 DEF WriteMetadata
  <2> QED
    BY <2>4, <2>5, <2>6, CandidateFrame
<1>18. ASSUME NEW r \in Request, MarkResolved(r) PROVE CandidateInv'
  <2>1. pc[r] \in WriteSteps /\ pc'[r] = "removeCandidate"
    BY <1>18 DEF MarkResolved, WriteSteps, ResolveSteps
  <2>2. job[r].id \in Request /\ conflictMeta[job[r].id] \in Conflict /\ conflictMeta[r] = None
    BY <1>18, <2>1 DEF MarkResolved, JobInv, JobOK, CandidateInv, CandidateOK, ResolveSteps
  <2>3. /\ job[r].id # r
        /\ conflictMeta' = [conflictMeta EXCEPT ![job[r].id].resolved = TRUE]
        /\ job' = job /\ conflictFile' = conflictFile
        /\ pc' = [pc EXCEPT ![r] = "removeCandidate"]
    BY <1>18, <2>2, NoneAssumption DEF MarkResolved
  <2>4. conflictMeta'[job[r].id].resolved
    BY <2>2, <2>3 DEF Conflict
  <2>5. CandidateOK(r)'
    BY <2>1, <2>2, <2>3, <2>4 DEF CandidateOK, ConflictSteps
  <2>6. \A q \in Request \ {r} : CandidateOK(q)'
    <3> SUFFICES ASSUME NEW q \in Request \ {r} PROVE CandidateOK(q)'
      OBVIOUS
    <3>1. pc[q] \notin WriteSteps
      BY <2>1, NoneAssumption DEF LockDiscipline
    <3>2. pc'[q] = pc[q] /\ job'[q] = job[q]
      BY <2>3
    <3>3. ASSUME pc[q] = "new" PROVE conflictMeta'[q] = None
      <4>1. conflictMeta[q] = None
        BY <3>3 DEF CandidateInv, CandidateOK
      <4>2. q # job[r].id
        BY <2>2, <4>1, NoneAssumption
      <4> QED
        BY <2>3, <4>1, <4>2
    <3> QED
      BY <3>1, <3>2, <3>3 DEF CandidateOK, WriteSteps, ConflictSteps, ResolveSteps
  <2>7. OpenConflictHasCandidate'
    BY <2>2, <2>3, <2>4 DEF CandidateInv, OpenConflictHasCandidate
  <2> QED
    BY <2>5, <2>6, <2>7 DEF CandidateInv
<1>19. ASSUME NEW r \in Request, RemoveCandidate(r) PROVE CandidateInv'
  <2>1. pc[r] = "removeCandidate" /\ pc[r] \in WriteSteps /\ pc'[r] = "ok"
    BY <1>19 DEF RemoveCandidate, Finish, WriteSteps, ResolveSteps
  <2>2. conflictMeta[job[r].id].resolved
    BY <2>1 DEF CandidateInv, CandidateOK
  <2>3. \A id \in Request : id # job[r].id => conflictFile'[id] = conflictFile[id]
    BY <1>19 DEF RemoveCandidate
  <2>4. CandidateOK(r)'
    BY <2>1 DEF CandidateOK, WriteSteps, ConflictSteps, BackupSteps, ResolveSteps
  <2>5. \A q \in Request \ {r} : CandidateOK(q)'
    <3> SUFFICES ASSUME NEW q \in Request \ {r} PROVE CandidateOK(q)'
      OBVIOUS
    <3>1. pc[q] # "saveConflict"
      BY <2>1, NoneAssumption DEF LockDiscipline, WriteSteps, ConflictSteps
    <3> QED
      BY <1>19, <3>1 DEF RemoveCandidate, Finish, CandidateInv, CandidateOK
  <2>6. OpenConflictHasCandidate'
    BY <1>19, <2>2, <2>3 DEF RemoveCandidate, CandidateInv, OpenConflictHasCandidate
  <2> QED
    BY <2>4, <2>5, <2>6 DEF CandidateInv
<1>20. ASSUME NEW r \in Request, ReadEntry(r) PROVE CandidateInv'
  BY <1>20, CandidateFrame DEF ReadEntry, Leave, Outcomes, disk, WriteSteps, ConflictSteps, BackupSteps, ResolveSteps
<1>21. ASSUME NEW r \in Request, WalkOne(r) PROVE CandidateInv'
  BY <1>21, CandidateFrame DEF WalkOne, ReadSteps, disk, WriteSteps, ConflictSteps, BackupSteps, ResolveSteps
<1>22. ASSUME NEW r \in Request, WalkDone(r) PROVE CandidateInv'
  BY <1>22, CandidateFrame DEF WalkDone, Leave, Outcomes, disk, WriteSteps, ConflictSteps, BackupSteps, ResolveSteps
<1>23. ASSUME NEW r \in Request, Fail(r) PROVE CandidateInv'
  BY <1>23, CandidateFrame DEF Fail, Finish, Outcomes, disk, WriteSteps, ConflictSteps, BackupSteps, ResolveSteps
<1>24. CASE Crash
  <2>1. \A r \in Request : pc'[r] \notin WriteSteps /\ (pc'[r] = "new" => pc[r] = "new")
    BY <1>24 DEF Crash, Outcomes
  <2>2. \A r \in Request : CandidateOK(r)'
    BY <1>24, <2>1 DEF Crash, disk, CandidateInv, CandidateOK, WriteSteps, ConflictSteps, ResolveSteps
  <2> QED
    BY <1>24, <2>2 DEF Crash, disk, CandidateInv, OpenConflictHasCandidate
<1>25. CASE Tick
  BY <1>25 DEF Tick, disk, CandidateInv, CandidateOK, OpenConflictHasCandidate
<1>26. CASE UNCHANGED vars
  BY <1>26 DEF vars, CandidateInv, CandidateOK, OpenConflictHasCandidate
<1> QED
  BY <1>1, <1>2, <1>3, <1>4, <1>5, <1>6, <1>7, <1>8, <1>9, <1>10, <1>11, <1>12, <1>13, <1>14, <1>15, <1>16, <1>17, <1>18, <1>19, <1>20, <1>21, <1>22, <1>23, <1>24, <1>25, <1>26 DEF Next, Arrive, Step, Quiet

\* OpenConflictHasCandidate: every conflict the server lists can still be
\* settled in favour of the uploaded file, under every fault of the model.
THEOREM ConflictsAreKept == Spec => []OpenConflictHasCandidate
<1>1. Init => CandidateInv
  BY StepsAreDisjoint DEF Init, CandidateInv, CandidateOK, OpenConflictHasCandidate, WriteSteps, ConflictSteps, ResolveSteps
<1>2. CandidateInv => OpenConflictHasCandidate
  BY DEF CandidateInv
<1> QED
  BY <1>1, <1>2, CandidateStep, InductiveCorrect, PTL DEF Spec

-----------------------------------------------------------------------------
(* Backups.                                                                *)

Kept(r) == bak[job[r].path][job[r].stamp] = canonical[job[r].path]

\* From its own createBackup on, a request has the newest backup of its path,
\* rotation cannot reach it while at least one backup may stay, and with a
\* negative limit rotation is never over.
BackupOK(r) ==
    /\ pc[r] \in ConflictSteps => metadata[job[r].path] # None
    /\ pc[r] = "createBackup" => job[r].listed = {}
    /\ pc[r] \in BackupSteps \ {"createBackup"} =>
        /\ \A s \in Stamps(job[r].path) \cup job[r].listed : s <= job[r].stamp
        /\ MaxBackups > 0 \/ pc[r] \notin {"rotateFile", "rotateMeta"} => Kept(r)
    /\ pc[r] = "writeCanonical" /\ job[r].op # "keep-both" /\ MaxBackups # 0 =>
        canonical[job[r].dest] \in Backups(job[r].dest) \cup {None}

DiskOK ==
    /\ \A p \in Path : \A s \in Stamps(p) : s <= now
    /\ \A id \in Request : conflictMeta[id] # None => metadata[conflictMeta[id].path] # None

BackupInv == DiskOK /\ \A r \in Request : BackupOK(r)

\* Whoever may write is alone: nobody else is inside a write operation.
LEMMA SoleWriter ==
    ASSUME Inductive, NEW r \in Request, writer \in {r, None}
    PROVE  \A q \in Request \ {r} : pc[q] \notin WriteSteps
BY NoneAssumption DEF Inductive, LockDiscipline

\* BackupInv is kept when the acting request and the disk are shown to be well.
LEMMA BackupAlone ==
    ASSUME Inductive, NEW r \in Request, writer \in {r, None},
           \A q \in Request \ {r} : pc'[q] = pc[q],
           DiskOK', BackupOK(r)'
    PROVE  BackupInv'
<1>1. ASSUME NEW q \in Request \ {r} PROVE BackupOK(q)'
  <2>1. pc'[q] \notin WriteSteps
    BY SoleWriter
  <2> QED
    BY <2>1 DEF BackupOK, WriteSteps, BackupSteps
<1> QED
  BY <1>1 DEF BackupInv

\* A step that leaves the disk alone and does not go to a write operation.
LEMMA BackupFrame ==
    ASSUME BackupInv, NEW r \in Request,
           UNCHANGED <<canonical, metadata, bak, conflictMeta, now>>,
           \A q \in Request \ {r} : pc'[q] = pc[q] /\ job'[q] = job[q],
           pc'[r] \notin ConflictSteps \cup BackupSteps \cup {"writeCanonical"}
    PROVE  BackupInv'
<1>1. BackupOK(r)'
  BY DEF BackupOK, BackupSteps
<1>2. \A q \in Request \ {r} : BackupOK(q)'
  BY DEF BackupInv, BackupOK, Stamps, Backups, Kept
<1>3. DiskOK'
  BY DEF BackupInv, DiskOK, Stamps
<1> QED
  BY <1>1, <1>2, <1>3 DEF BackupInv

\* rotateBackups never takes the newest of the files it has listed, unless the
\* limit lets it take all.
LEMMA OldestIsNotNewest ==
    ASSUME NEW S \in SUBSET Second, NEW m \in Second, MaxBackups > 0, OverLimit(S),
           \A s \in S : s <= m
    PROVE  m \notin Oldest(S)
<1> SUFFICES ASSUME m \in Oldest(S) PROVE FALSE
  OBVIOUS
<1>1. \A s \in S : s = m
  BY SecondAssumption DEF Oldest
<1>2. S = {m}
  BY <1>1 DEF Oldest
<1>3. Cardinality(S) = 1
  BY <1>2, FS_Singleton
<1> QED
  BY <1>3, MaxBackupsAssumption DEF OverLimit

\* A negative limit is exceeded by every directory.
LEMMA NegativeLimitIsExceeded ==
    ASSUME NEW S \in SUBSET Second, MaxBackups < 0
    PROVE  OverLimit(S)
<1>1. Cardinality(S) \in Nat
  BY SecondAssumption, FS_Subset, FS_CardinalityType
<1> QED
  BY <1>1, MaxBackupsAssumption DEF OverLimit

\* Every step of WriteFile and ResolveConflict keeps the backup that is under way safe.
LEMMA BackupStep == Inductive /\ BackupInv /\ [Next]_vars => BackupInv'
<1> SUFFICES ASSUME Inductive, BackupInv, [Next]_vars PROVE BackupInv'
  OBVIOUS
<1> USE StepsAreDisjoint DEF Inductive, TypeOK, Goto, Learn, At
<1>1. ASSUME NEW r \in Request, BeginPut(r) PROVE BackupInv'
  <2>1. PICK p \in ClientPath, e \in Entry, body \in Content, base \in Content \cup {None} :
            Goto(r, PutStart(p, base)) /\ Learn(r, PutJob(p, e, body, base))
    BY <1>1 DEF BeginPut
  <2>2. writer = None /\ UNCHANGED <<canonical, metadata, bak, conflictMeta, now>>
    BY <1>1 DEF BeginPut, LockFree, disk
  <2>3. job'[r].op = "put" /\ job'[r].path = p /\ job'[r].dest = p /\ job'[r].listed = {}
    BY <2>1 DEF PutJob, Idle
  <2>4. /\ pc'[r] \in {"writeConflictFile", "createBackup", "writeCanonical"}
        /\ pc'[r] = "writeConflictFile" => metadata[p] # None
        /\ pc'[r] = "writeCanonical" => canonical[p] = None
    BY <2>1 DEF PutStart, Diverged
  <2>5. BackupOK(r)'
    BY <2>2, <2>3, <2>4 DEF BackupOK, ConflictSteps, BackupSteps
  <2>6. DiskOK'
    BY <2>2 DEF BackupInv, DiskOK, Stamps
  <2> QED
    BY <1>1, <2>2, <2>5, <2>6, BackupAlone DEF BeginPut
<1>2. ASSUME NEW r \in Request, BeginResolve(r) PROVE BackupInv'
  <2>1. PICK id \in Request, choice \in Resolving :
            /\ conflictMeta[id] # None
            /\ Goto(r, ResolveStart(conflictMeta[id], choice))
            /\ Learn(r, ResolveJob(id, conflictMeta[id], choice))
    BY <1>2 DEF BeginResolve
  <2>2. writer = None /\ UNCHANGED <<canonical, metadata, bak, conflictMeta, now>>
    BY <1>2 DEF BeginResolve, LockFree, disk
  <2>3. job'[r].op = choice /\ job'[r].listed = {}
    BY <2>1 DEF ResolveJob, Idle
  <2>4. metadata[conflictMeta[id].path] # None
    BY <2>1 DEF BackupInv, DiskOK
  <2>5. /\ pc'[r] \in {"createBackup", "writeCanonical", "markResolved"}
        /\ pc'[r] = "writeCanonical" => choice = "keep-both"
    BY <2>1, <2>4 DEF ResolveStart, Resolving
  <2>6. BackupOK(r)'
    BY <2>3, <2>5 DEF BackupOK, ConflictSteps, BackupSteps
  <2>7. DiskOK'
    BY <2>2 DEF BackupInv, DiskOK, Stamps
  <2> QED
    BY <1>2, <2>2, <2>6, <2>7, BackupAlone DEF BeginResolve
<1>3. ASSUME NEW r \in Request, RefuseResolve(r) PROVE BackupInv'
  BY <1>3, BackupFrame DEF RefuseResolve, Outcomes, disk, ConflictSteps, BackupSteps
<1>4. ASSUME NEW r \in Request, BeginRead(r) PROVE BackupInv'
  BY <1>4, BackupFrame DEF BeginRead, ReadSteps, Outcomes, disk, ConflictSteps, BackupSteps
<1>5. ASSUME NEW r \in Request, BeginManifest(r) PROVE BackupInv'
  BY <1>5, BackupFrame DEF BeginManifest, ReadSteps, disk, ConflictSteps, BackupSteps
<1>6. ASSUME NEW r \in Request, WriteConflictFile(r) PROVE BackupInv'
  <2>1. /\ pc[r] \in ConflictSteps /\ pc'[r] = "saveConflict" /\ job' = job
        /\ UNCHANGED <<canonical, metadata, bak, conflictMeta, now>>
    BY <1>6 DEF WriteConflictFile, ConflictSteps
  <2>2. BackupOK(r)'
    BY <2>1 DEF BackupInv, BackupOK, ConflictSteps, BackupSteps
  <2>3. DiskOK'
    BY <2>1 DEF BackupInv, DiskOK, Stamps
  <2>4. writer = r
    BY <2>1 DEF LockDiscipline, WriteSteps
  <2> QED
    BY <1>6, <2>2, <2>3, <2>4, BackupAlone DEF WriteConflictFile
<1>7. ASSUME NEW r \in Request, SaveConflict(r) PROVE BackupInv'
  <2>1. /\ pc[r] \in ConflictSteps /\ pc[r] \in WriteSteps
        /\ conflictMeta' = [conflictMeta EXCEPT ![r] =
              [path |-> job[r].path, local |-> job[r].entry,
               remote |-> job[r].old, resolved |-> FALSE]]
        /\ UNCHANGED <<canonical, metadata, bak, now>>
        /\ \A q \in Request \ {r} : pc'[q] = pc[q]
    BY <1>7 DEF SaveConflict, Finish, ConflictSteps, WriteSteps
  <2>2. metadata[job[r].path] # None
    BY <2>1 DEF BackupInv, BackupOK
  <2>3. pc'[r] \in Outcomes
    BY <1>7, VerdictType DEF SaveConflict, Finish, Outcomes
  <2>4. BackupOK(r)'
    BY <2>3 DEF BackupOK, Outcomes, ConflictSteps, BackupSteps
  <2>5. DiskOK'
    BY <2>1, <2>2 DEF BackupInv, DiskOK, Stamps
  <2>6. writer = r
    BY <2>1 DEF LockDiscipline
  <2> QED
    BY <2>1, <2>4, <2>5, <2>6, BackupAlone
<1>8. ASSUME NEW r \in Request, CreateBackup(r) PROVE BackupInv'
  <2> DEFINE p == job[r].path
  <2>1. /\ pc[r] \in BackupSteps /\ pc[r] \in WriteSteps
        /\ pc'[r] \in {"writeBackupMeta", "listBackups"}
        /\ bak' = [bak EXCEPT ![p][now] = canonical[p]]
        /\ job' = [job EXCEPT ![r] = [job[r] EXCEPT !.stamp = now]]
        /\ canonical[p] # None
        /\ UNCHANGED <<canonical, metadata, conflictMeta, now>>
        /\ \A q \in Request \ {r} : pc'[q] = pc[q]
    BY <1>8 DEF CreateBackup, BackupLabel, BackupSteps, WriteSteps
  <2>2. p \in Path /\ now \in Nat /\ writer = r
    BY <2>1, PathAssumption, SecondAssumption DEF JobInv, JobOK, LockDiscipline
  <2>3. job'[r].path = p /\ job'[r].stamp = now /\ job'[r].listed = job[r].listed
    BY <2>1 DEF Job
  <2>4. DiskOK'
    BY <2>1, <2>2 DEF BackupInv, DiskOK, Stamps
  <2>5. job[r].listed = {}
    BY <2>1, <1>8 DEF BackupInv, BackupOK, CreateBackup
  <2>6. BackupOK(r)'
    BY <2>1, <2>2, <2>3, <2>4, <2>5 DEF BackupOK, DiskOK, Kept, ConflictSteps, BackupSteps
  <2> QED
    BY <2>1, <2>2, <2>4, <2>6, BackupAlone
<1>9. ASSUME NEW r \in Request, WriteBackupMeta(r) PROVE BackupInv'
  <2>1. /\ pc[r] = "writeBackupMeta" /\ pc[r] \in WriteSteps
        /\ pc'[r] = "listBackups" /\ job' = job
        /\ UNCHANGED <<canonical, metadata, bak, conflictMeta, now>>
    BY <1>9 DEF WriteBackupMeta, BackupSteps, WriteSteps
  <2>2. BackupOK(r)'
    BY <2>1 DEF BackupInv, BackupOK, Kept, Stamps, ConflictSteps, BackupSteps
  <2>3. DiskOK'
    BY <2>1 DEF BackupInv, DiskOK, Stamps
  <2>4. writer = r
    BY <2>1 DEF LockDiscipline
  <2> QED
    BY <1>9, <2>2, <2>3, <2>4, BackupAlone DEF WriteBackupMeta
<1>10. ASSUME NEW r \in Request, ListBackups(r) PROVE BackupInv'
  <2>1. /\ pc[r] = "listBackups" /\ pc[r] \in WriteSteps /\ BackupOK(r)
        /\ UNCHANGED <<canonical, metadata, bak, conflictMeta, now>>
        /\ \A q \in Request \ {r} : pc'[q] = pc[q]
    BY <1>10 DEF ListBackups, BackupSteps, WriteSteps, disk, BackupInv
  <2>2. \/ pc'[r] = "rotateFile" /\ job' = [job EXCEPT ![r] = [job[r] EXCEPT !.listed = Stamps(job[r].path)]]
        \/ pc'[r] = "writeCanonical" /\ job' = job
    BY <1>10 DEF ListBackups
  <2>3. ASSUME pc'[r] = "rotateFile", job' = [job EXCEPT ![r] = [job[r] EXCEPT !.listed = Stamps(job[r].path)]]
        PROVE  BackupOK(r)'
    <3>1. job'[r].path = job[r].path /\ job'[r].stamp = job[r].stamp /\ job'[r].listed = Stamps(job[r].path)
      BY <2>3 DEF Job
    <3>2. \A s \in Stamps(job[r].path) : s <= job[r].stamp
      BY <2>1 DEF BackupOK, BackupSteps
    <3>3. Kept(r)
      BY <2>1 DEF BackupOK, BackupSteps
    <3>4. Kept(r)' /\ Stamps(job[r].path)' = Stamps(job[r].path)
      BY <2>1, <3>1, <3>3 DEF Kept, Stamps
    <3> QED
      BY <2>3, <3>1, <3>2, <3>4 DEF BackupOK, Stamps, ConflictSteps, BackupSteps
  <2>4. ASSUME pc'[r] = "writeCanonical", job' = job PROVE BackupOK(r)'
    <3>1. Kept(r) /\ job[r].dest = job[r].path /\ job[r].path \in Path /\ job[r].stamp \in Second
      BY <2>1, PathAssumption DEF BackupOK, BackupSteps, JobInv, JobOK
    <3>2. canonical[job[r].path] \in Backups(job[r].path) \cup {None}
      BY <3>1 DEF Kept, Backups, Stamps
    <3> QED
      BY <2>1, <2>4, <3>1, <3>2 DEF BackupOK, Backups, Stamps, ConflictSteps, BackupSteps
  <2>5. BackupOK(r)'
    BY <2>2, <2>3, <2>4
  <2>6. DiskOK'
    BY <2>1 DEF BackupInv, DiskOK, Stamps
  <2>7. writer = r
    BY <2>1 DEF LockDiscipline
  <2> QED
    BY <2>1, <2>5, <2>6, <2>7, BackupAlone
<1>11. ASSUME NEW r \in Request, RotateFile(r) PROVE BackupInv'
  <2> DEFINE p == job[r].path
  <2>1. PICK s \in Oldest(job[r].listed) : bak' \in Removed(bak, p, s)
    BY <1>11 DEF RotateFile
  <2>2. /\ pc[r] \in BackupSteps \ {"createBackup"} /\ pc[r] \in WriteSteps
        /\ OverLimit(job[r].listed)
        /\ pc'[r] = "rotateMeta" /\ job' = job
        /\ UNCHANGED <<canonical, metadata, conflictMeta, now>>
        /\ \A q \in Request \ {r} : pc'[q] = pc[q]
    BY <1>11 DEF RotateFile, BackupSteps, WriteSteps
  <2>3. p \in Path /\ s \in Second /\ job[r].stamp \in Second /\ job[r].listed \in SUBSET Second
    BY <2>1, <2>2, PathAssumption DEF JobInv, JobOK, Oldest, Job
  <2>4. /\ \A q \in Path, t \in Second : q # p \/ t # s => bak'[q][t] = bak[q][t]
        /\ bak'[p][s] = None \/ bak'[p][s] = bak[p][s]
    <3>1. bak \in [Path -> [Second -> Content \cup {None}]]
      OBVIOUS
    <3> QED
      BY <2>1, <2>3, <3>1, RemovedOne
  <2>5. \A q \in Path : {t \in Second : bak'[q][t] # None} \subseteq Stamps(q)
    BY <2>4 DEF Stamps
  <2>6. \A t \in Stamps(p) \cup job[r].listed : t <= job[r].stamp
    BY <2>2 DEF BackupInv, BackupOK
  <2>7. ASSUME MaxBackups > 0 PROVE Kept(r)'
    <3>1. job[r].stamp # s
      BY <2>1, <2>2, <2>3, <2>6, <2>7, OldestIsNotNewest
    <3>2. Kept(r)
      BY <2>2, <2>7 DEF BackupInv, BackupOK
    <3> QED
      BY <2>2, <2>3, <2>4, <3>1, <3>2 DEF Kept
  <2>8. BackupOK(r)'
    BY <2>2, <2>3, <2>5, <2>6, <2>7 DEF BackupOK, Stamps, ConflictSteps, BackupSteps
  <2>9. DiskOK'
    BY <2>2, <2>5 DEF BackupInv, DiskOK, Stamps
  <2>10. writer = r
    BY <2>2 DEF LockDiscipline
  <2> QED
    BY <2>2, <2>8, <2>9, <2>10, BackupAlone
<1>12. ASSUME NEW r \in Request, RotateMeta(r) PROVE BackupInv'
  <2>1. PICK s \in Oldest(job[r].listed) : Learn(r, [job[r] EXCEPT !.listed = @ \ {s}])
    BY <1>12 DEF RotateMeta
  <2>2. /\ pc[r] \in BackupSteps \ {"createBackup"} /\ pc[r] \in WriteSteps
        /\ pc'[r] = "rotateFile"
        /\ UNCHANGED <<canonical, metadata, bak, conflictMeta, now>>
        /\ \A q \in Request \ {r} : pc'[q] = pc[q]
    BY <1>12 DEF RotateMeta, BackupSteps, WriteSteps
  <2>3. /\ job'[r].path = job[r].path /\ job'[r].stamp = job[r].stamp
        /\ job'[r].listed \subseteq job[r].listed
    BY <2>1 DEF Job
  <2>4. BackupOK(r)'
    BY <2>2, <2>3 DEF BackupInv, BackupOK, Kept, Stamps, ConflictSteps, BackupSteps
  <2>5. DiskOK'
    BY <2>2 DEF BackupInv, DiskOK, Stamps
  <2>6. writer = r
    BY <2>2 DEF LockDiscipline
  <2> QED
    BY <2>2, <2>4, <2>5, <2>6, BackupAlone
<1>13. ASSUME NEW r \in Request, RotatePanic(r) PROVE BackupInv'
  BY <1>13, BackupFrame DEF RotatePanic, Finish, Outcomes, disk, ConflictSteps, BackupSteps
<1>14. ASSUME NEW r \in Request, RotateDone(r) PROVE BackupInv'
  <2> DEFINE p == job[r].path
  <2>1. /\ pc[r] \in BackupSteps \ {"createBackup"} /\ pc[r] \in WriteSteps
        /\ ~OverLimit(job[r].listed)
        /\ pc'[r] = "writeCanonical" /\ job' = job
        /\ UNCHANGED <<canonical, metadata, bak, conflictMeta, now>>
        /\ \A q \in Request \ {r} : pc'[q] = pc[q]
    BY <1>14 DEF RotateDone, BackupSteps, WriteSteps, disk
  <2>2. /\ p \in Path /\ job[r].dest = p /\ job[r].stamp \in Second
        /\ job[r].listed \in SUBSET Second
    BY <2>1, PathAssumption DEF JobInv, JobOK, Job
  <2>3. ~(MaxBackups < 0)
    BY <2>1, <2>2, NegativeLimitIsExceeded
  <2>4. MaxBackups # 0 => Kept(r)
    BY <2>1, <2>3, MaxBackupsAssumption DEF BackupInv, BackupOK
  <2>5. MaxBackups # 0 => canonical[p] \in Backups(p) \cup {None}
    BY <2>2, <2>4 DEF Kept, Backups, Stamps
  <2>6. BackupOK(r)'
    BY <2>1, <2>2, <2>5 DEF BackupOK, Backups, Stamps, ConflictSteps, BackupSteps
  <2>7. DiskOK'
    BY <2>1 DEF BackupInv, DiskOK, Stamps
  <2>8. writer = r
    BY <2>1 DEF LockDiscipline
  <2> QED
    BY <2>1, <2>6, <2>7, <2>8, BackupAlone
<1>15. ASSUME NEW r \in Request, WriteCanonical(r) PROVE BackupInv'
  <2>1. /\ pc[r] \in WriteSteps /\ pc'[r] = "writeMetadata"
        /\ UNCHANGED <<metadata, bak, conflictMeta, now>>
        /\ \A q \in Request \ {r} : pc'[q] = pc[q]
    BY <1>15 DEF WriteCanonical, WriteSteps
  <2>2. BackupOK(r)'
    BY <2>1 DEF BackupOK, ConflictSteps, BackupSteps
  <2>3. DiskOK'
    BY <2>1 DEF BackupInv, DiskOK, Stamps
  <2>4. writer = r
    BY <2>1 DEF LockDiscipline
  <2> QED
    BY <2>1, <2>2, <2>3, <2>4, BackupAlone
<1>16. ASSUME NEW r \in Request, OpenMissing(r) PROVE BackupInv'
  BY <1>16, BackupFrame DEF OpenMissing, Finish, Outcomes, disk, ConflictSteps, BackupSteps
<1>17. ASSUME NEW r \in Request, WriteMetadata(r) PROVE BackupInv'
  <2>1. /\ pc[r] \in WriteSteps
        /\ metadata' = [metadata EXCEPT ![job[r].dest] = job[r].entry]
        /\ UNCHANGED <<canonical, bak, conflictMeta, now>>
        /\ \A q \in Request \ {r} : pc'[q] = pc[q]
    BY <1>17 DEF WriteMetadata, Finish, WriteSteps
  <2>2. job[r].entry # None
    BY <2>1, NoneAssumption DEF JobInv, JobOK
  <2>3. DiskOK'
    <3>1. \A id \in Request : conflictMeta[id] # None => conflictMeta[id].path \in Path
      BY PathAssumption DEF Conflict
    <3> QED
      BY <2>1, <2>2, <3>1 DEF BackupInv, DiskOK, Stamps
  <2>4. pc'[r] \in Outcomes \cup {"markResolved"}
    BY <1>17, VerdictType DEF WriteMetadata, Finish, Outcomes
  <2>5. BackupOK(r)'
    BY <2>4 DEF BackupOK, ConflictSteps, BackupSteps, Outcomes
  <2>6. writer = r
    BY <2>1 DEF LockDiscipline
  <2> QED
    BY <2>1, <2>3, <2>5, <2>6, BackupAlone
<1>18. ASSUME NEW r \in Request, MarkResolved(r) PROVE BackupInv'
  <2>1. /\ pc[r] \in WriteSteps /\ pc'[r] = "removeCandidate"
        /\ conflictMeta' = [conflictMeta EXCEPT ![job[r].id].resolved = TRUE]
        /\ UNCHANGED <<canonical, metadata, bak, now>>
        /\ \A q \in Request \ {r} : pc'[q] = pc[q]
    BY <1>18 DEF MarkResolved, WriteSteps, ResolveSteps
  <2>2. conflictMeta[job[r].id] \in Conflict /\ conflictMeta[job[r].id] # None
    BY <1>18, <2>1, NoneAssumption DEF MarkResolved, JobInv, JobOK, ResolveSteps
  <2>3. conflictMeta'[job[r].id].path = conflictMeta[job[r].id].path
    BY <2>1, <2>2 DEF Conflict
  <2>4. DiskOK'
    BY <2>1, <2>2, <2>3 DEF BackupInv, DiskOK, Stamps
  <2>5. BackupOK(r)'
    BY <2>1 DEF BackupOK, ConflictSteps, BackupSteps
  <2>6. writer = r
    BY <2>1 DEF LockDiscipline
  <2> QED
    BY <2>1, <2>4, <2>5, <2>6, BackupAlone
<1>19. ASSUME NEW r \in Request, RemoveCandidate(r) PROVE BackupInv'
  BY <1>19, BackupFrame DEF RemoveCandidate, Finish, Outcomes, disk, ConflictSteps, BackupSteps
<1>20. ASSUME NEW r \in Request, ReadEntry(r) PROVE BackupInv'
  BY <1>20, BackupFrame DEF ReadEntry, Leave, Outcomes, disk, ConflictSteps, BackupSteps
<1>21. ASSUME NEW r \in Request, WalkOne(r) PROVE BackupInv'
  BY <1>21, BackupFrame DEF WalkOne, ReadSteps, disk, ConflictSteps, BackupSteps
<1>22. ASSUME NEW r \in Request, WalkDone(r) PROVE BackupInv'
  BY <1>22, BackupFrame DEF WalkDone, Leave, Outcomes, disk, ConflictSteps, BackupSteps
<1>23. ASSUME NEW r \in Request, Fail(r) PROVE BackupInv'
  BY <1>23, BackupFrame DEF Fail, Finish, Outcomes, disk, ConflictSteps, BackupSteps
<1>24. CASE Crash
  <2>1. \A r \in Request : pc'[r] \notin WriteSteps
    BY <1>24 DEF Crash, Outcomes
  <2>2. \A r \in Request : BackupOK(r)'
    BY <2>1 DEF BackupOK, WriteSteps, BackupSteps
  <2> QED
    BY <1>24, <2>2 DEF Crash, disk, BackupInv, DiskOK, Stamps
<1>25. CASE Tick
  <2>1. /\ now \in Nat /\ now' = now + 1 /\ pc' = pc /\ job' = job
        /\ UNCHANGED <<canonical, metadata, bak, conflictMeta>>
    BY <1>25, SecondAssumption DEF Tick, disk
  <2>2. DiskOK'
    BY <2>1, SecondAssumption DEF BackupInv, DiskOK, Stamps
  <2> QED
    BY <2>1, <2>2 DEF BackupInv, BackupOK, Kept, Backups, Stamps
<1>26. CASE UNCHANGED vars
  BY <1>26 DEF vars, BackupInv, DiskOK, BackupOK, Kept, Backups, Stamps
<1> QED
  BY <1>1, <1>2, <1>3, <1>4, <1>5, <1>6, <1>7, <1>8, <1>9, <1>10, <1>11, <1>12, <1>13, <1>14, <1>15, <1>16, <1>17, <1>18, <1>19, <1>20, <1>21, <1>22, <1>23, <1>24, <1>25, <1>26 DEF Next, Arrive, Step, Quiet

\* Only WriteCanonical replaces a canonical file.
LEMMA FilesChange ==
    ASSUME [Next]_vars, canonical' # canonical
    PROVE  \E r \in Request : WriteCanonical(r)
BY DEF Next, Arrive, Step, Quiet, Tick, Crash, Fail, disk, vars, BeginPut, BeginResolve,
    RefuseResolve, BeginRead, BeginManifest, WriteConflictFile, SaveConflict, CreateBackup,
    WriteBackupMeta, ListBackups, RotateFile, RotateMeta, RotatePanic, RotateDone,
    OpenMissing, WriteMetadata, MarkResolved, RemoveCandidate, ReadEntry, WalkOne, WalkDone

\* DisplacedIsBackedUp: no upload and no resolution in favour of the uploaded
\* file replaces a file that is not among its path's backups, with any number
\* of requests, whatever crashes or fails, for every limit other than zero.
THEOREM NothingDisplacedIsLost == Spec => DisplacedIsBackedUp
<1> DEFINE Displaced ==
        MaxBackups # 0 =>
            \A p \in Path :
                canonical[p] \notin {None, canonical'[p]} =>
                    \/ canonical[p] \in Backups(p)
                    \/ \E r \in Request : writer = r /\ job[r].op = "keep-both"
<1>1. Init => BackupInv
  BY StepsAreDisjoint
  DEF Init, BackupInv, DiskOK, BackupOK, Stamps, WriteSteps, ConflictSteps, BackupSteps
<1>2. ASSUME Inductive, BackupInv, [Next]_vars PROVE [Displaced]_vars
  <2>1. ASSUME NEW r \in Request, WriteCanonical(r) PROVE Displaced
    <3>1. writer = r /\ job[r].dest \in Path
      BY <1>2, <2>1 DEF WriteCanonical, At, Inductive, LockDiscipline, JobInv, JobOK, WriteSteps
    <3>2. MaxBackups # 0 /\ job[r].op # "keep-both" => canonical[job[r].dest] \in Backups(job[r].dest) \cup {None}
      BY <1>2, <2>1 DEF WriteCanonical, At, BackupInv, BackupOK
    <3>3. \A p \in Path : p # job[r].dest => canonical'[p] = canonical[p]
      BY <1>2, <2>1 DEF WriteCanonical, Inductive, TypeOK
    <3> QED
      BY <3>1, <3>2, <3>3
  <2>2. CASE UNCHANGED canonical
    BY <2>2
  <2> QED
    BY <1>2, <2>1, <2>2, FilesChange
<1>3. Spec => []BackupInv
  BY <1>1, BackupStep, InductiveCorrect, PTL DEF Spec
<1>4. Spec => [][Displaced]_vars
  BY <1>2, <1>3, InductiveCorrect, PTL DEF Spec
<1> QED
  BY <1>4 DEF DisplacedIsBackedUp

=============================================================================
