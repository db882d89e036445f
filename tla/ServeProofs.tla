----------------------------- MODULE ServeProofs -----------------------------
(***************************************************************************)
(* Theorems about what Storage answers, on top of Inductive and            *)
(* CandidateInv (StorageProofs).                                           *)
(*                                                                         *)
(*  1. Uploads: the decision WriteFile makes when it takes the lock still  *)
(*     holds when it writes (UploadInv).  With every fault.                *)
(*  2. Manifests are snapshots (ViewInv).  With every fault.               *)
(*  3. Files, metadata, backups and downloads agree, conflicts are settled *)
(*     once and rotation drops the oldest (ServeInv), as long as           *)
(*     connections break off and nothing else goes wrong (Undisturbed).    *)
(*  4. Under the same assumption Storage implements SaveStore.             *)
(***************************************************************************)
EXTENDS StorageProofs

------------------------------------------------------------------------------
\* 1. Uploads

\* The base an upload named is the hash of what it is going to replace.
OverItsBase(r) ==
    \/ job[r].base = None
    \/ metadata[job[r].path] = None
    \/ metadata[job[r].path].sha = job[r].base

\* What holds of an upload at each of its steps.
UploadOK(r) ==
    /\ pc[r] \in WriteSteps \ ConflictSteps /\ job[r].op = "put" =>
        /\ OverItsBase(r)
        /\ pc[r] = "writeMetadata" => canonical[job[r].path] = job[r].body
    /\ pc[r] \in ReadSteps => job[r].op # "put"

UploadInv == \A r \in Request : UploadOK(r)

\* Before the first request there is no upload.
LEMMA InitUpload == Init => UploadInv
BY DEF Init, UploadInv, UploadOK, WriteSteps, ConflictSteps, BackupSteps, ResolveSteps, ReadSteps

\* A step of one request that leaves canonical files and metadata alone, and
\* after which the request is out of the lock or at another step before
\* writeMetadata with what it knew of the upload.
LEMMA UploadFrame ==
    ASSUME Inductive, UploadInv, NEW r \in Request,
           UNCHANGED <<canonical, metadata>>,
           \A q \in Request \ {r} : pc'[q] = pc[q] /\ job'[q] = job[q],
           pc'[r] \in ReadSteps => job'[r].op # "put",
           \/ pc'[r] \notin WriteSteps \ ConflictSteps
           \/ job'[r].op # "put"
           \/ /\ pc[r] \in WriteSteps \ ConflictSteps
              /\ pc'[r] # "writeMetadata"
              /\ job[r].op = "put" /\ job'[r].path = job[r].path /\ job'[r].base = job[r].base
    PROVE  UploadInv'
<1>1. UploadOK(r)'
  BY DEF UploadInv, UploadOK, OverItsBase
<1>2. \A q \in Request \ {r} : UploadOK(q)'
  BY DEF UploadInv, UploadOK, OverItsBase
<1> QED
  BY <1>1, <1>2 DEF UploadInv

\* Every step keeps it.
LEMMA UploadStep == Inductive /\ UploadInv /\ [Next]_vars => UploadInv'
<1> SUFFICES ASSUME Inductive, UploadInv, [Next]_vars PROVE UploadInv'
  OBVIOUS
<1> USE StepsAreDisjoint DEF Inductive, TypeOK, Goto, Learn, At
<1>1. ASSUME NEW r \in Request, BeginPut(r) PROVE UploadInv'
  <2>1. PICK p \in ClientPath, e \in Entry, body \in Content, base \in Content \cup {None} :
            Goto(r, PutStart(p, base)) /\ Learn(r, PutJob(p, e, body, base))
    BY <1>1 DEF BeginPut
  <2>2. UNCHANGED <<canonical, metadata>>
    BY <1>1 DEF BeginPut, disk
  <2>3. job'[r].path = p /\ job'[r].base = base
    BY <2>1 DEF PutJob, Idle
  <2>4. pc'[r] = PutStart(p, base)
    BY <2>1
  <2>5. CASE Diverged(metadata[p], base)
    <3>1. pc'[r] = "writeConflictFile"
      BY <2>4, <2>5 DEF PutStart
    <3> QED
      BY <2>1, <2>2, <3>1, UploadFrame DEF ConflictSteps, WriteSteps
  <2>6. CASE ~Diverged(metadata[p], base)
    <3>1. pc'[r] \in {"createBackup", "writeCanonical"}
      BY <2>4, <2>6 DEF PutStart
    <3>2. OverItsBase(r)'
      BY <2>2, <2>3, <2>6 DEF Diverged, OverItsBase
    <3>3. UploadOK(r)'
      BY <3>1, <3>2 DEF UploadOK, WriteSteps, BackupSteps
    <3>4. \A q \in Request \ {r} : UploadOK(q)'
      BY <2>1, <2>2 DEF UploadInv, UploadOK, OverItsBase
    <3> QED
      BY <3>3, <3>4 DEF UploadInv
  <2> QED
    BY <2>5, <2>6
<1>2. ASSUME NEW r \in Request, BeginResolve(r) PROVE UploadInv'
  <2>1. PICK id \in Request, choice \in Resolving :
            /\ Goto(r, ResolveStart(conflictMeta[id], choice))
            /\ Learn(r, ResolveJob(id, conflictMeta[id], choice))
    BY <1>2 DEF BeginResolve
  <2>2. job'[r].op # "put"
    BY <2>1 DEF ResolveJob, Idle, Resolving
  <2> QED
    BY <1>2, <2>1, <2>2, UploadFrame DEF BeginResolve, disk
<1>3. ASSUME NEW r \in Request, RefuseResolve(r) PROVE UploadInv'
  BY <1>3, UploadFrame DEF RefuseResolve, Outcomes, disk
<1>4. ASSUME NEW r \in Request, BeginRead(r) PROVE UploadInv'
  <2>1. PICK p \in ClientPath :
            IF canonical[p] = None
            THEN Goto(r, "notFound") /\ UNCHANGED <<readers, job>>
            ELSE /\ Goto(r, "readEntry")
                 /\ Learn(r, [Idle EXCEPT !.op = "get", !.path = p, !.body = canonical[p]])
                 /\ readers' = readers \cup {r}
    BY <1>4 DEF BeginRead
  <2>2. pc'[r] = "notFound" \/ (pc'[r] = "readEntry" /\ job'[r].op = "get")
    <3>1. [Idle EXCEPT !.op = "get", !.path = p, !.body = canonical[p]].op = "get"
      BY DEF Idle
    <3>2. CASE canonical[p] = None
      BY <2>1, <3>2
    <3>3. CASE canonical[p] # None
      BY <2>1, <3>1, <3>3
    <3> QED
      BY <3>2, <3>3
  <2>3. \A q \in Request \ {r} : pc'[q] = pc[q] /\ job'[q] = job[q]
    BY <2>1
  <2> QED
    BY <1>4, <2>2, <2>3, UploadFrame DEF BeginRead, ReadSteps, Outcomes, disk
<1>5. ASSUME NEW r \in Request, BeginManifest(r) PROVE UploadInv'
  <2>1. job'[r].op = "manifest" /\ pc'[r] = "walk"
    BY <1>5 DEF BeginManifest, Idle
  <2> QED
    BY <1>5, <2>1, UploadFrame DEF BeginManifest, ReadSteps, disk
<1>6. ASSUME NEW r \in Request, WriteConflictFile(r) PROVE UploadInv'
  BY <1>6, UploadFrame DEF WriteConflictFile, ConflictSteps, WriteSteps
<1>7. ASSUME NEW r \in Request, SaveConflict(r) PROVE UploadInv'
  BY <1>7, UploadFrame, VerdictType DEF SaveConflict, Finish, Outcomes
<1>8. ASSUME NEW r \in Request, CreateBackup(r) PROVE UploadInv'
  <2>1. pc[r] \in WriteSteps \ ConflictSteps /\ pc'[r] \in {"writeBackupMeta", "listBackups"}
    BY <1>8 DEF CreateBackup, WriteSteps, ConflictSteps, BackupSteps
  <2>2. job' = [job EXCEPT ![r] = [job[r] EXCEPT !.stamp = BackupLabel]]
    BY <1>8 DEF CreateBackup
  <2>3. job'[r].op = job[r].op /\ job'[r].path = job[r].path /\ job'[r].base = job[r].base
    BY <2>2 DEF Job
  <2> QED
    BY <1>8, <2>1, <2>2, <2>3, UploadFrame DEF CreateBackup, ReadSteps
<1>9. ASSUME NEW r \in Request, WriteBackupMeta(r) PROVE UploadInv'
  <2>1. pc[r] \in WriteSteps \ ConflictSteps /\ pc'[r] = "listBackups"
    BY <1>9 DEF WriteBackupMeta, WriteSteps, ConflictSteps, BackupSteps
  <2> QED
    BY <1>9, <2>1, UploadFrame DEF WriteBackupMeta, ReadSteps
<1>10. ASSUME NEW r \in Request, ListBackups(r) PROVE UploadInv'
  <2>1. pc[r] \in WriteSteps \ ConflictSteps /\ pc'[r] \in {"rotateFile", "writeCanonical"}
    BY <1>10 DEF ListBackups, WriteSteps, ConflictSteps, BackupSteps
  <2>2. job' = [job EXCEPT ![r] = [job[r] EXCEPT !.listed = Stamps(job[r].path)]] \/ job' = job
    BY <1>10 DEF ListBackups
  <2>3. job'[r].op = job[r].op /\ job'[r].path = job[r].path /\ job'[r].base = job[r].base
    BY <2>2 DEF Job
  <2> QED
    BY <1>10, <2>1, <2>2, <2>3, UploadFrame DEF ListBackups, disk, ReadSteps
<1>11. ASSUME NEW r \in Request, RotateFile(r) PROVE UploadInv'
  BY <1>11, UploadFrame DEF RotateFile, WriteSteps, ConflictSteps, BackupSteps, ReadSteps
<1>12. ASSUME NEW r \in Request, RotateMeta(r) PROVE UploadInv'
  <2>1. PICK s : job' = [job EXCEPT ![r] = [job[r] EXCEPT !.listed = @ \ {s}]]
    BY <1>12 DEF RotateMeta
  <2>2. job'[r].op = job[r].op /\ job'[r].path = job[r].path /\ job'[r].base = job[r].base
    BY <2>1 DEF Job
  <2>3. pc[r] \in WriteSteps \ ConflictSteps /\ pc'[r] = "rotateFile"
    BY <1>12 DEF RotateMeta, WriteSteps, ConflictSteps, BackupSteps
  <2> QED
    BY <1>12, <2>1, <2>2, <2>3, UploadFrame DEF RotateMeta, ReadSteps
<1>13. ASSUME NEW r \in Request, RotatePanic(r) PROVE UploadInv'
  BY <1>13, UploadFrame DEF RotatePanic, Finish, Outcomes, disk
<1>14. ASSUME NEW r \in Request, RotateDone(r) PROVE UploadInv'
  BY <1>14, UploadFrame DEF RotateDone, disk, WriteSteps, ConflictSteps, BackupSteps, ReadSteps
<1>15. ASSUME NEW r \in Request, WriteCanonical(r) PROVE UploadInv'
  <2>1. pc[r] \in WriteSteps \ ConflictSteps /\ \A q \in Request \ {r} : pc[q] \notin WriteSteps
    BY <1>15 DEF WriteCanonical, WriteSteps, ConflictSteps, LockDiscipline
  <2>2. \A q \in Request \ {r} : UploadOK(q)'
    BY <1>15, <2>1 DEF WriteCanonical, UploadInv, UploadOK
  <2>3. ASSUME job[r].op = "put" PROVE canonical'[job[r].path] = job[r].body
    BY <1>15, <2>1, <2>3, PathAssumption DEF WriteCanonical, Source, JobInv, JobOK
  <2>4. UploadOK(r)'
    BY <1>15, <2>1, <2>3 DEF WriteCanonical, UploadInv, UploadOK, OverItsBase, ReadSteps
  <2> QED
    BY <2>2, <2>4 DEF UploadInv
<1>16. ASSUME NEW r \in Request, OpenMissing(r) PROVE UploadInv'
  BY <1>16, UploadFrame DEF OpenMissing, Finish, Outcomes, disk
<1>17. ASSUME NEW r \in Request, WriteMetadata(r) PROVE UploadInv'
  <2>1. \A q \in Request \ {r} : pc[q] \notin WriteSteps
    BY <1>17 DEF WriteMetadata, WriteSteps, LockDiscipline
  <2>2. \A q \in Request \ {r} : pc'[q] = pc[q] /\ job'[q] = job[q]
    BY <1>17 DEF WriteMetadata, Finish
  <2>3. \A q \in Request \ {r} : UploadOK(q)'
    BY <2>1, <2>2 DEF UploadInv, UploadOK
  <2>4. pc'[r] \in Outcomes \/ (pc'[r] = "markResolved" /\ job'[r].op # "put")
    <3>1. CASE job[r].op = "put"
      <4>1. Verdict(job[r], "ok") \in Outcomes
        BY VerdictType DEF Outcomes
      <4> QED
        BY <1>17, <3>1, <4>1 DEF WriteMetadata, Finish
    <3>2. CASE job[r].op # "put"
      BY <1>17, <3>2 DEF WriteMetadata
    <3> QED
      BY <3>1, <3>2
  <2>5. UploadOK(r)'
    BY <2>4 DEF UploadOK, ReadSteps
  <2> QED
    BY <2>3, <2>5 DEF UploadInv
<1>18. ASSUME NEW r \in Request, MarkResolved(r) PROVE UploadInv'
  BY <1>18, UploadFrame DEF MarkResolved, WriteSteps, ConflictSteps, ResolveSteps, ReadSteps, JobInv, JobOK
<1>19. ASSUME NEW r \in Request, RemoveCandidate(r) PROVE UploadInv'
  BY <1>19, UploadFrame DEF RemoveCandidate, Finish, Outcomes
<1>20. ASSUME NEW r \in Request, ReadEntry(r) PROVE UploadInv'
  BY <1>20, UploadFrame DEF ReadEntry, Leave, Outcomes, disk
<1>21. ASSUME NEW r \in Request, WalkOne(r) PROVE UploadInv'
  <2>1. job'[r].op = job[r].op /\ pc[r] \in ReadSteps
    BY <1>21 DEF WalkOne, Job, ReadSteps
  <2>2. job'[r].op # "put"
    BY <2>1 DEF UploadInv, UploadOK
  <2> QED
    BY <1>21, <2>2, UploadFrame DEF WalkOne, disk
<1>22. ASSUME NEW r \in Request, WalkDone(r) PROVE UploadInv'
  BY <1>22, UploadFrame DEF WalkDone, Leave, Outcomes, disk
<1>23. ASSUME NEW r \in Request, Fail(r) PROVE UploadInv'
  BY <1>23, UploadFrame DEF Fail, Finish, Outcomes, disk
<1>24. CASE Tick
  BY <1>24 DEF Tick, disk, UploadInv, UploadOK, OverItsBase
<1>25. CASE Crash
  BY <1>25 DEF Crash, disk, UploadInv, UploadOK, Outcomes
<1>26. CASE UNCHANGED vars
  BY <1>26 DEF vars, UploadInv, UploadOK, OverItsBase
<1> QED
  BY <1>1, <1>2, <1>3, <1>4, <1>5, <1>6, <1>7, <1>8, <1>9, <1>10, <1>11, <1>12, <1>13,
     <1>14, <1>15, <1>16, <1>17, <1>18, <1>19, <1>20, <1>21, <1>22, <1>23, <1>24, <1>25,
     <1>26 DEF Next, Arrive, Step, Quiet

\* It holds in every reachable state.
LEMMA UploadCorrect == Spec => [](Inductive /\ UploadInv)
BY InitInductive, InductiveStep, InitUpload, UploadStep, PTL DEF Spec

\* WriteFile: an upload that is accepted still replaces the version its client
\* based it on when the new metadata is written.
THEOREM UploadsReplaceTheirBase == Spec => AcceptedOverItsBase
<1>1. ASSUME Inductive, UploadInv, [Next]_vars
      PROVE  [\A r \in Request :
                job[r].op = "put" /\ metadata' # metadata /\ writer = r =>
                    \/ job[r].base = None
                    \/ metadata[job[r].path] = None
                    \/ metadata[job[r].path].sha = job[r].base]_vars
  <2> SUFFICES ASSUME NEW r \in Request, job[r].op = "put", metadata' # metadata, writer = r
               PROVE  OverItsBase(r)
    BY DEF OverItsBase
  <2>1. PICK q \in Request : WriteMetadata(q)
    BY <1>1 DEF Next, Arrive, Step, Quiet, Tick, Crash, Fail, disk, vars, BeginPut, BeginResolve,
        RefuseResolve, BeginRead, BeginManifest, WriteConflictFile, SaveConflict, CreateBackup,
        WriteBackupMeta, ListBackups, RotateFile, RotateMeta, RotatePanic, RotateDone,
        WriteCanonical, OpenMissing, MarkResolved, RemoveCandidate, ReadEntry, WalkOne, WalkDone
  <2>2. pc[q] \in WriteSteps \ ConflictSteps
    BY <2>1 DEF WriteMetadata, At, WriteSteps, ConflictSteps
  <2>3. q = r
    BY <1>1, <2>2 DEF Inductive, LockDiscipline
  <2> QED
    BY <1>1, <2>2, <2>3 DEF UploadInv, UploadOK
<1> QED
  BY <1>1, UploadCorrect, PTL DEF Spec, AcceptedOverItsBase

\* handlePutFile: an upload answered with "ok" is on disk, file and metadata.
THEOREM OkMeansStored == Spec => AnsweredOkIsStored
<1>1. ASSUME Inductive, UploadInv, [Next]_vars
      PROVE  [\A r \in Request :
                job[r].op = "put" /\ ~At(r, "ok") /\ pc'[r] = "ok" =>
                    /\ metadata'[job[r].path] = job[r].entry
                    /\ canonical'[job[r].path] = job[r].entry.sha]_vars
  <2> SUFFICES ASSUME NEW r \in Request, job[r].op = "put", pc[r] # "ok", pc'[r] = "ok"
               PROVE  /\ metadata'[job[r].path] = job[r].entry
                      /\ canonical'[job[r].path] = job[r].entry.sha
    BY DEF At
  <2>1. pc[r] \notin ReadSteps \cup ResolveSteps
    BY <1>1 DEF UploadInv, UploadOK, Inductive, JobInv, JobOK
  <2>2. WriteMetadata(r)
    <3> USE <1>1 DEF Inductive, TypeOK, Goto, At
    <3>1. CASE Tick \/ Crash \/ UNCHANGED vars
      BY <3>1 DEF Tick, Crash, vars
    <3>2. ASSUME NEW q \in Request, Arrive(q) PROVE FALSE
      <4>1. CASE BeginPut(q)
        BY <4>1 DEF BeginPut, PutStart
      <4>2. CASE BeginResolve(q)
        BY <4>2 DEF BeginResolve, ResolveStart, Resolving
      <4>3. CASE RefuseResolve(q) \/ BeginRead(q) \/ BeginManifest(q)
        BY <4>3 DEF RefuseResolve, BeginRead, BeginManifest
      <4> QED
        BY <3>2, <4>1, <4>2, <4>3 DEF Arrive
    <3>3. ASSUME NEW q \in Request, Fail(q) PROVE FALSE
      BY <3>3 DEF Fail, Finish
    <3>4. ASSUME NEW q \in Request, Step(q), ~WriteMetadata(q) PROVE FALSE
      <4>1. CASE SaveConflict(q)
        BY <4>1 DEF SaveConflict, Finish, Verdict
      <4>2. CASE RemoveCandidate(q)
        BY <2>1, <4>2 DEF RemoveCandidate, Finish, ResolveSteps
      <4>3. CASE ReadEntry(q) \/ WalkDone(q)
        BY <2>1, <4>3 DEF ReadEntry, WalkDone, Leave, ReadSteps
      <4>4. CASE WalkOne(q)
        BY <4>4 DEF WalkOne
      <4>5. CASE RotatePanic(q) \/ OpenMissing(q)
        BY <4>5 DEF RotatePanic, OpenMissing, Finish
      <4>6. CASE \/ WriteConflictFile(q) \/ CreateBackup(q) \/ WriteBackupMeta(q)
                 \/ ListBackups(q) \/ RotateFile(q) \/ RotateMeta(q) \/ RotateDone(q)
                 \/ WriteCanonical(q) \/ MarkResolved(q)
        BY <4>6 DEF WriteConflictFile, CreateBackup, WriteBackupMeta, ListBackups, RotateFile,
            RotateMeta, RotateDone, WriteCanonical, MarkResolved
      <4> QED
        BY <3>4, <4>1, <4>2, <4>3, <4>4, <4>5, <4>6 DEF Step
    <3>5. ASSUME NEW q \in Request, WriteMetadata(q) PROVE WriteMetadata(r)
      BY <3>5 DEF WriteMetadata, Finish
    <3> QED
      BY <3>1, <3>2, <3>3, <3>4, <3>5 DEF Next, Quiet
  <2>3. pc[r] = "writeMetadata" /\ pc[r] \in WriteSteps \ ConflictSteps
    BY <2>2 DEF WriteMetadata, At, WriteSteps, ConflictSteps
  <2>4. /\ canonical[job[r].path] = job[r].body
        /\ job[r].dest = job[r].path
        /\ job[r].path \in Path
    BY <1>1, <2>3, PathAssumption DEF UploadInv, UploadOK, Inductive, JobInv, JobOK
  <2>5. job[r].body = job[r].entry.sha
    BY <1>1, <2>2 DEF Inductive, TypeOK, WriteMetadata, Finish, Goto, Verdict
  <2> QED
    BY <1>1, <2>2, <2>4, <2>5 DEF Inductive, TypeOK, WriteMetadata
<1> QED
  BY <1>1, UploadCorrect, PTL DEF Spec, AnsweredOkIsStored

------------------------------------------------------------------------------
\* 2. Manifests

\* What a manifest has so far is what the store has: what Walk has yet to visit
\* is missing, and nothing is out of date.
ViewOK(r) ==
    pc[r] = "walk" => \A p \in Path : p \in job[r].todo \/ job[r].view[p] = metadata[p]

ViewInv == \A r \in Request : ViewOK(r)

\* Each step keeps it: a manifest is read without a writer, so what has been
\* visited does not change.
LEMMA ViewStep == Inductive /\ ViewInv /\ [Next]_vars => ViewInv'
<1> SUFFICES ASSUME Inductive, ViewInv, [Next]_vars PROVE ViewInv'
  OBVIOUS
<1> USE DEF Inductive, TypeOK, Goto, Learn, At, ViewInv, ViewOK
<1>1. ASSUME NEW r \in Request, BeginManifest(r) PROVE ViewInv'
  <2>1. /\ job'[r] = [Idle EXCEPT !.op = "manifest", !.todo = {p \in Path : metadata[p] # None}]
        /\ UNCHANGED metadata
        /\ \A q \in Request \ {r} : pc'[q] = pc[q] /\ job'[q] = job[q]
    BY <1>1 DEF BeginManifest, disk
  <2>2. job'[r].todo = {p \in Path : metadata[p] # None} /\ \A p \in Path : job'[r].view[p] = None
    BY <2>1 DEF Idle
  <2>3. ViewOK(r)' /\ \A q \in Request \ {r} : ViewOK(q)'
    BY <2>1, <2>2
  <2> QED
    BY <2>3
<1>2. ASSUME NEW r \in Request, WalkOne(r) PROVE ViewInv'
  <2>1. PICK p \in job[r].todo : job' = [job EXCEPT ![r] = [job[r] EXCEPT !.todo = @ \ {p}, !.view[p] = metadata[p]]]
    BY <1>2 DEF WalkOne
  <2>2. /\ UNCHANGED <<metadata, pc>> /\ pc[r] = "walk" /\ p \in Path
    BY <1>2, <2>1 DEF WalkOne, disk, Job
  <2>3. /\ job'[r].todo = job[r].todo \ {p}
        /\ \A q \in Path : job'[r].view[q] = IF q = p THEN metadata[p] ELSE job[r].view[q]
    BY <2>1, <2>2 DEF Job
  <2>4. ViewOK(r)'
    BY <2>2, <2>3
  <2>5. \A q \in Request \ {r} : ViewOK(q)'
    BY <2>1, <2>2
  <2> QED
    BY <2>4, <2>5
<1>3. ASSUME NEW r \in Request, WriteMetadata(r) PROVE ViewInv'
  <2>1. pc[r] \in WriteSteps
    BY <1>3 DEF WriteMetadata, WriteSteps
  <2>2. \A q \in Request : pc[q] # "walk"
    BY <2>1, NoneAssumption DEF LockDiscipline, ReadSteps
  <2>3. \A q \in Request : pc'[q] # "walk"
    BY <1>3, <2>2 DEF WriteMetadata, Finish, Verdict
  <2> QED
    BY <2>3
<1>4. ASSUME UNCHANGED metadata,
             \A q \in Request : pc'[q] = "walk" => pc[q] = "walk" /\ job'[q] = job[q]
      PROVE  ViewInv'
  BY <1>4
<1>5. ASSUME NEW r \in Request,
             \/ BeginPut(r) \/ BeginResolve(r) \/ RefuseResolve(r) \/ BeginRead(r)
             \/ WriteConflictFile(r) \/ SaveConflict(r) \/ CreateBackup(r) \/ WriteBackupMeta(r)
             \/ ListBackups(r) \/ RotateFile(r) \/ RotateMeta(r) \/ RotatePanic(r) \/ RotateDone(r)
             \/ WriteCanonical(r) \/ OpenMissing(r) \/ MarkResolved(r) \/ RemoveCandidate(r)
             \/ ReadEntry(r) \/ WalkDone(r) \/ Fail(r)
      PROVE  ViewInv'
  <2>1. UNCHANGED metadata /\ \A q \in Request \ {r} : pc'[q] = pc[q] /\ job'[q] = job[q]
    BY <1>5
    DEF BeginPut, BeginResolve, RefuseResolve, BeginRead, WriteConflictFile, SaveConflict, CreateBackup,
        WriteBackupMeta, ListBackups, RotateFile, RotateMeta, RotatePanic, RotateDone, WriteCanonical,
        OpenMissing, MarkResolved, RemoveCandidate, ReadEntry, WalkDone, Fail, Finish, Leave, disk
  <2>2. pc'[r] # "walk"
    BY <1>5
    DEF BeginPut, BeginResolve, RefuseResolve, BeginRead, WriteConflictFile, SaveConflict, CreateBackup,
        WriteBackupMeta, ListBackups, RotateFile, RotateMeta, RotatePanic, RotateDone, WriteCanonical,
        OpenMissing, MarkResolved, RemoveCandidate, ReadEntry, WalkDone, Fail, Finish, Leave,
        PutStart, ResolveStart, Resolving, Verdict
  <2> QED
    BY <1>4, <2>1, <2>2
<1>6. CASE Tick \/ Crash \/ UNCHANGED vars
  BY <1>4, <1>6 DEF Tick, Crash, vars, disk, ReadSteps
<1> QED
  BY <1>1, <1>2, <1>3, <1>5, <1>6 DEF Next, Arrive, Step, Quiet

\* A manifest is what the metadata was at one moment, whatever crashed or
\* failed: GetManifest holds the read lock over its whole walk.
THEOREM ManifestsAreSnapshots == Spec => ManifestIsSnapshot
<1>1. Init => ViewInv
  BY DEF Init, ViewInv, ViewOK
<1>2. Inductive /\ ViewInv => \A r \in Request : WalkDone(r) => job[r].view = metadata
  <2> SUFFICES ASSUME Inductive, ViewInv, NEW r \in Request, WalkDone(r) PROVE job[r].view = metadata
    OBVIOUS
  <2>1. \A p \in Path : job[r].view[p] = metadata[p]
    BY DEF WalkDone, At, ViewInv, ViewOK
  <2>2. job[r].view \in [Path -> Entry \cup {None}] /\ metadata \in [Path -> Entry \cup {None}]
    BY DEF Inductive, TypeOK, Job
  <2> QED
    BY <2>1, <2>2
<1>3. Inductive /\ [Next]_vars =>
        \A r \in Request : At(r, "walk") /\ pc'[r] = "ok" => WalkDone(r)
  <2> SUFFICES ASSUME Inductive, [Next]_vars, NEW r \in Request, At(r, "walk"), pc'[r] = "ok"
               PROVE  WalkDone(r)
    OBVIOUS
  <2> USE DEF Inductive, TypeOK, Goto, At
  <2>1. CASE Tick \/ Crash \/ UNCHANGED vars
    BY <2>1 DEF Tick, Crash, vars, ReadSteps
  <2>2. ASSUME NEW q \in Request, Arrive(q) \/ Step(q) \/ Fail(q) PROVE q = r
    BY <2>2
    DEF Arrive, Step, BeginPut, BeginResolve, RefuseResolve, BeginRead, BeginManifest, WriteConflictFile,
        SaveConflict, CreateBackup, WriteBackupMeta, ListBackups, RotateFile, RotateMeta, RotatePanic,
        RotateDone, WriteCanonical, OpenMissing, WriteMetadata, MarkResolved, RemoveCandidate, ReadEntry,
        WalkOne, WalkDone, Fail, Finish, Leave
  <2>3. ASSUME Arrive(r) \/ Step(r) \/ Fail(r) PROVE WalkDone(r)
    BY <2>3, StepsAreDisjoint
    DEF Arrive, Step, BeginPut, BeginResolve, RefuseResolve, BeginRead, BeginManifest, WriteConflictFile,
        SaveConflict, CreateBackup, WriteBackupMeta, ListBackups, RotateFile, RotateMeta, RotatePanic,
        RotateDone, WriteCanonical, OpenMissing, WriteMetadata, MarkResolved, RemoveCandidate, ReadEntry,
        WalkOne, Fail, ReadSteps, ReadsBody
  <2> QED
    BY <2>1, <2>2, <2>3 DEF Next, Quiet
<1>4. Inductive /\ ViewInv /\ [Next]_vars =>
        [\A r \in Request : At(r, "walk") /\ pc'[r] = "ok" => job[r].view = metadata]_vars
  BY <1>2, <1>3
<1> QED
  BY <1>1, <1>4, ViewStep, InductiveCorrect, PTL DEF Spec, ManifestIsSnapshot

------------------------------------------------------------------------------
\* 3. What ServeInv says, and that each step keeps it

\* No fault but connections that break off.
Undisturbed == Fault \subseteq {"disconnect"}

\* A file and its metadata, a backup and its metadata belong together.
Agree(p) == canonical[p] = IF metadata[p] = None THEN None ELSE metadata[p].sha
AgreeThen(p, s) == bak[p][s] = IF bakMeta[p][s] = None THEN None ELSE bakMeta[p][s].sha

\* What a request at each of its steps relies on, or has yet to put right.
ServeOK(r) ==
    /\ pc[r] = "new" => job[r].op = "none"
    /\ pc[r] \in WriteSteps /\ job[r].op = "put" => job[r].body = job[r].entry.sha
    /\ pc[r] \in WriteSteps /\ job[r].op # "put" =>
        /\ job[r].path = conflictMeta[job[r].id].path
        /\ job[r].entry = conflictMeta[job[r].id].local
        /\ job[r].dest = ResolveDest(conflictMeta[job[r].id], job[r].op)
    /\ pc[r] \in ConflictSteps => Diverged(metadata[job[r].path], job[r].base)
    /\ pc[r] \in BackupSteps => job[r].old = metadata[job[r].path] /\ job[r].old # None
    /\ pc[r] = "writeBackupMeta" => bak[job[r].path][job[r].stamp] = job[r].old.sha
    /\ pc[r] = "rotateFile" => job[r].listed = Stamps(job[r].path)
    /\ pc[r] = "rotateMeta" =>
        \E s \in Oldest(job[r].listed) : Stamps(job[r].path) = job[r].listed \ {s}
    /\ pc[r] = "writeMetadata" =>
        /\ canonical[job[r].dest] = job[r].entry.sha
        /\ job[r].op # "put" => ~conflictMeta[job[r].id].resolved
    /\ pc[r] = "readEntry" =>
        /\ job[r].op = "get"
        /\ job[r].path \in Path
        /\ canonical[job[r].path] = job[r].body
        /\ job[r].body # None
    /\ pc[r] = "walk" => job[r].op = "manifest"

\* What the writer has yet to put right.
Committing(p) == writer # None /\ pc[writer] = "writeMetadata" /\ job[writer].dest = p
Labelling(p, s) ==
    /\ writer # None
    /\ job[writer].path = p
    /\ \/ pc[writer] = "writeBackupMeta" /\ s = job[writer].stamp
       \/ pc[writer] = "rotateMeta" /\ s \in Oldest(job[writer].listed)
Removing(id) == writer # None /\ pc[writer] = "removeCandidate" /\ job[writer].id = id

FilesOK == \A p \in Path : Agree(p) \/ Committing(p)
BackupsOK == \A p \in Path, s \in Second : AgreeThen(p, s) \/ Labelling(p, s)
CandidatesOK ==
    \A id \in Request : conflictMeta[id] # None /\ conflictFile[id] # None =>
        /\ conflictFile[id] = conflictMeta[id].local.sha
        /\ ~conflictMeta[id].resolved \/ Removing(id)

\* The steps before which something is not right.
Unfinished == {"writeBackupMeta", "rotateMeta", "writeMetadata", "removeCandidate"}

DiskServes == FilesOK /\ BackupsOK /\ CandidatesOK

ServeInv == DiskServes /\ \A r \in Request : ServeOK(r)

\* What nobody touches stays right.
LEMMA FilesStay ==
    ASSUME FilesOK, UNCHANGED <<canonical, metadata>>, \A p : ~Committing(p)
    PROVE  FilesOK'
BY DEF FilesOK, Agree

\* Likewise the backups, unless one of them is being labelled.
LEMMA BackupsStay ==
    ASSUME BackupsOK, UNCHANGED <<bak, bakMeta>>, \A p, s : ~Labelling(p, s)
    PROVE  BackupsOK'
BY DEF BackupsOK, AgreeThen

\* Likewise the candidates, unless one is about to be removed.
LEMMA CandidatesStay ==
    ASSUME CandidatesOK, UNCHANGED <<conflictMeta, conflictFile>>, \A id : ~Removing(id)
    PROVE  CandidatesOK'
BY DEF CandidatesOK

\* The writer acts, or who becomes it: nobody else reads or writes.
LEMMA ServeAlone ==
    ASSUME Inductive, NEW r \in Request, writer = r \/ LockFree,
           \A q \in Request \ {r} : pc'[q] = pc[q] /\ job'[q] = job[q],
           ServeInv, DiskServes', ServeOK(r)'
    PROVE  ServeInv'
<1>1. ASSUME NEW q \in Request \ {r} PROVE ServeOK(q)'
  <2>1. pc[q] \notin WriteSteps \cup ReadSteps
    BY NoneAssumption DEF Inductive, LockDiscipline, LockFree
  <2>2. pc'[q] \notin WriteSteps \cup ReadSteps /\ (pc'[q] = "new" => job'[q].op = "none")
    BY <2>1 DEF ServeInv, ServeOK
  <2> QED
    BY <2>2 DEF ServeOK, WriteSteps, ReadSteps, BackupSteps, ConflictSteps
<1> QED
  BY <1>1 DEF ServeInv

\* A reader, or who is refused: the disk stays, and so does the writer.
LEMMA ServeShared ==
    ASSUME Inductive, NEW r \in Request, pc[r] \notin WriteSteps,
           UNCHANGED <<canonical, metadata, bak, bakMeta, conflictMeta, conflictFile, writer>>,
           \A q \in Request \ {r} : pc'[q] = pc[q] /\ job'[q] = job[q],
           ServeInv, ServeOK(r)'
    PROVE  ServeInv'
<1>1. ASSUME NEW q \in Request \ {r} PROVE ServeOK(q)'
  BY DEF ServeInv, ServeOK, Stamps
<1>2. writer # r
  BY DEF Inductive, LockDiscipline
<1>3. writer # None => pc'[writer] = pc[writer] /\ job'[writer] = job[writer]
  BY <1>2 DEF Inductive, TypeOK
<1>4. FilesOK'
  BY <1>3 DEF ServeInv, DiskServes, FilesOK, Agree, Committing
<1>5. BackupsOK'
  BY <1>3 DEF ServeInv, DiskServes, BackupsOK, AgreeThen, Labelling
<1>6. CandidatesOK'
  BY <1>3 DEF ServeInv, DiskServes, CandidatesOK, Removing
<1> QED
  BY <1>1, <1>4, <1>5, <1>6 DEF ServeInv, DiskServes

\* The writer moves on or ends, and neither leaves a thing to put right nor had one.
LEMMA ServeMove ==
    ASSUME Inductive, ServeInv, NEW r \in Request, pc[r] \in WriteSteps,
           pc[r] \notin Unfinished, pc'[r] \notin Unfinished, writer' \in {r, None},
           UNCHANGED <<canonical, metadata, bak, bakMeta, conflictMeta, conflictFile>>,
           \A q \in Request \ {r} : pc'[q] = pc[q] /\ job'[q] = job[q], ServeOK(r)'
    PROVE  ServeInv'
<1>1. writer = r /\ r # None
  BY NoneAssumption DEF Inductive, LockDiscipline
<1>2. \A p, s, id : ~Committing(p) /\ ~Labelling(p, s) /\ ~Removing(id)
  BY <1>1 DEF Committing, Labelling, Removing, Unfinished
<1>3. DiskServes'
  BY <1>2, FilesStay, BackupsStay, CandidatesStay DEF ServeInv, DiskServes
<1> QED
  BY <1>1, <1>3, ServeAlone

\* Every step keeps it, where nothing but connections fails.
LEMMA ServeStep ==
    ASSUME Undisturbed
    PROVE  Inductive /\ CandidateInv /\ UploadInv /\ ServeInv /\ [Next]_vars => ServeInv'
<1> SUFFICES ASSUME Inductive, CandidateInv, UploadInv, ServeInv, [Next]_vars PROVE ServeInv'
  OBVIOUS
<1> USE StepsAreDisjoint DEF Inductive, TypeOK, Goto, Learn, At
<1>0. ASSUME NEW r \in Request, pc[r] \in WriteSteps
      PROVE  /\ writer = r /\ writer # None
             /\ ServeOK(r) /\ JobOK(r) /\ job[r].path \in Path /\ job[r].dest \in Path
  BY <1>0, NoneAssumption, PathAssumption DEF LockDiscipline, ServeInv, JobInv, JobOK
<1>1. ASSUME NEW r \in Request, BeginPut(r) PROVE ServeInv'
  <2>1. PICK p \in ClientPath, e \in Entry, body \in Content, base \in Content \cup {None} :
            /\ body = e.sha \/ "mismatch" \in Fault
            /\ Goto(r, PutStart(p, base)) /\ Learn(r, PutJob(p, e, body, base))
    BY <1>1 DEF BeginPut
  <2>2. /\ LockFree /\ writer' = r
        /\ UNCHANGED <<canonical, metadata, bak, bakMeta, conflictMeta, conflictFile>>
        /\ \A q \in Request \ {r} : pc'[q] = pc[q] /\ job'[q] = job[q]
    BY <1>1 DEF BeginPut, disk
  <2>3. /\ job'[r].op = "put" /\ job'[r].path = p /\ job'[r].dest = p /\ job'[r].body = body
        /\ job'[r].entry = e /\ job'[r].base = base /\ job'[r].old = metadata[p]
    BY <2>1 DEF PutJob, Idle
  <2>4. FilesOK /\ BackupsOK /\ CandidatesOK /\ p \in Path /\ writer = None
    BY <2>2, PathAssumption DEF ServeInv, DiskServes, LockFree
  <2>5. Agree(p)
    BY <2>4 DEF FilesOK, Committing
  <2>6. /\ pc'[r] \in {"writeConflictFile", "createBackup", "writeCanonical"}
        /\ pc'[r] = "writeConflictFile" => Diverged(metadata[p], base)
        /\ pc'[r] = "createBackup" => metadata[p] # None
    BY <2>1, <2>5 DEF PutStart, Agree
  <2>7. ServeOK(r)'
    BY <2>1, <2>2, <2>3, <2>6
    DEF ServeOK, Undisturbed, WriteSteps, ConflictSteps, BackupSteps, ResolveSteps, ReadSteps
  <2>8. DiskServes'
    BY <2>2, <2>4 DEF DiskServes, FilesOK, Committing, Agree, BackupsOK, AgreeThen, Labelling, CandidatesOK, Removing
  <2> QED
    BY <2>2, <2>7, <2>8, ServeAlone
<1>2. ASSUME NEW r \in Request, BeginResolve(r) PROVE ServeInv'
  <2>1. PICK id \in Request, choice \in Resolving :
            /\ conflictMeta[id] # None
            /\ Goto(r, ResolveStart(conflictMeta[id], choice))
            /\ Learn(r, ResolveJob(id, conflictMeta[id], choice))
    BY <1>2 DEF BeginResolve
  <2>2. /\ LockFree /\ writer' = r
        /\ UNCHANGED <<canonical, metadata, bak, bakMeta, conflictMeta, conflictFile>>
        /\ \A q \in Request \ {r} : pc'[q] = pc[q] /\ job'[q] = job[q]
    BY <1>2 DEF BeginResolve, disk
  <2>3. /\ job'[r].op = choice /\ job'[r].path = conflictMeta[id].path /\ job'[r].id = id
        /\ job'[r].dest = ResolveDest(conflictMeta[id], choice)
        /\ job'[r].entry = conflictMeta[id].local /\ job'[r].old = metadata[conflictMeta[id].path]
    BY <2>1 DEF ResolveJob, Idle
  <2>4. FilesOK /\ BackupsOK /\ CandidatesOK /\ writer = None
    BY <2>2 DEF ServeInv, DiskServes, LockFree
  <2>5. /\ pc'[r] \in {"createBackup", "writeCanonical", "markResolved"} /\ choice # "put"
        /\ pc'[r] = "createBackup" => metadata[conflictMeta[id].path] # None
    BY <2>1 DEF ResolveStart, Resolving
  <2>6. ServeOK(r)'
    BY <2>2, <2>3, <2>5
    DEF ServeOK, WriteSteps, ConflictSteps, BackupSteps, ResolveSteps, ReadSteps
  <2>7. DiskServes'
    BY <2>2, <2>4 DEF DiskServes, FilesOK, Committing, Agree, BackupsOK, AgreeThen, Labelling, CandidatesOK, Removing
  <2> QED
    BY <2>2, <2>6, <2>7, ServeAlone
<1>3. ASSUME NEW r \in Request, RefuseResolve(r) PROVE ServeInv'
  <2>1. pc[r] \notin WriteSteps /\ pc'[r] \in Outcomes
    BY <1>3 DEF RefuseResolve, Outcomes
  <2>2. ServeOK(r)'
    BY <2>1 DEF ServeOK, Outcomes, WriteSteps, ConflictSteps, BackupSteps
  <2> QED
    BY <1>3, <2>1, <2>2, ServeShared DEF RefuseResolve, disk
<1>4. ASSUME NEW r \in Request, BeginRead(r) PROVE ServeInv'
  <2>1. PICK p \in ClientPath :
            IF canonical[p] = None
            THEN Goto(r, "notFound") /\ UNCHANGED <<readers, job>>
            ELSE /\ Goto(r, "readEntry")
                 /\ Learn(r, [Idle EXCEPT !.op = "get", !.path = p, !.body = canonical[p]])
                 /\ readers' = readers \cup {r}
    BY <1>4 DEF BeginRead
  <2>2. pc[r] \notin WriteSteps /\ UNCHANGED <<canonical, metadata, bak, bakMeta, conflictMeta, conflictFile, writer>>
    BY <1>4 DEF BeginRead, disk
  <2>3. \/ pc'[r] = "notFound"
        \/ /\ pc'[r] = "readEntry" /\ job'[r].op = "get" /\ job'[r].path = p
           /\ job'[r].body = canonical[p] /\ canonical[p] # None
    <3>1. CASE canonical[p] = None
      BY <2>1, <3>1
    <3>2. CASE canonical[p] # None
      <4>1. /\ [Idle EXCEPT !.op = "get", !.path = p, !.body = canonical[p]].op = "get"
            /\ [Idle EXCEPT !.op = "get", !.path = p, !.body = canonical[p]].path = p
            /\ [Idle EXCEPT !.op = "get", !.path = p, !.body = canonical[p]].body = canonical[p]
        BY DEF Idle
      <4> QED
        BY <2>1, <3>2, <4>1
    <3> QED
      BY <3>1, <3>2
  <2>4. ServeOK(r)'
    BY <2>2, <2>3, PathAssumption DEF ServeOK, WriteSteps, ConflictSteps, BackupSteps, ResolveSteps
  <2> QED
    BY <2>1, <2>2, <2>4, ServeShared
<1>5. ASSUME NEW r \in Request, BeginManifest(r) PROVE ServeInv'
  <2>1. pc[r] \notin WriteSteps /\ pc'[r] = "walk" /\ job'[r].op = "manifest"
    BY <1>5 DEF BeginManifest, Idle
  <2>2. ServeOK(r)'
    BY <2>1 DEF ServeOK, WriteSteps, ConflictSteps, BackupSteps, ResolveSteps
  <2> QED
    BY <1>5, <2>1, <2>2, ServeShared DEF BeginManifest, disk
<1>6. ASSUME NEW r \in Request, ReadEntry(r) \/ WalkDone(r) PROVE ServeInv'
  <2>1. pc[r] \notin WriteSteps /\ pc'[r] \in Outcomes
    BY <1>6 DEF ReadEntry, WalkDone, Leave, Outcomes, ReadSteps
  <2>2. ServeOK(r)'
    BY <2>1 DEF ServeOK, Outcomes, WriteSteps, ConflictSteps, BackupSteps
  <2> QED
    BY <1>6, <2>1, <2>2, ServeShared DEF ReadEntry, WalkDone, Leave, disk
<1>7. ASSUME NEW r \in Request, WalkOne(r) PROVE ServeInv'
  <2>1. pc[r] \notin WriteSteps /\ pc'[r] = "walk" /\ job'[r].op = job[r].op
    BY <1>7 DEF WalkOne, Job, ReadSteps
  <2>2. ServeOK(r)'
    BY <1>7, <2>1 DEF WalkOne, ServeInv, ServeOK, WriteSteps, ConflictSteps, BackupSteps, ResolveSteps
  <2> QED
    BY <1>7, <2>1, <2>2, ServeShared DEF WalkOne, disk
<1>8. CASE Tick \/ UNCHANGED vars
  <2>1. UNCHANGED <<canonical, metadata, bak, bakMeta, conflictMeta, conflictFile, writer, pc, job>>
    BY <1>8 DEF Tick, vars, disk
  <2>2. DiskServes'
    BY <2>1 DEF ServeInv, DiskServes, FilesOK, Committing, Agree, BackupsOK, AgreeThen, Labelling,
        CandidatesOK, Removing
  <2>3. ASSUME NEW r \in Request PROVE ServeOK(r)'
    <3>1. ServeOK(r) /\ \A p : Stamps(p)' = Stamps(p)
      BY <2>1 DEF ServeInv, Stamps
    <3> QED
      BY <2>1, <3>1 DEF ServeOK
  <2> QED
    BY <2>2, <2>3 DEF ServeInv
<1>9. ~Crash
  BY DEF Crash, Undisturbed
<1>10. ASSUME NEW r \in Request, RotatePanic(r) \/ OpenMissing(r) \/ Fail(r) PROVE ServeInv'
  <2>1. /\ pc[r] \in {"rotateFile", "writeCanonical", "writeConflictFile"} /\ pc[r] \in WriteSteps
        /\ pc'[r] \in {"lost", "error"} /\ Finish(r, pc'[r])
    BY <1>10 DEF RotatePanic, OpenMissing, Fail, Finish, Undisturbed, ReadsBody, WriteSteps, BackupSteps, ConflictSteps
  <2>2. ServeOK(r)'
    BY <2>1 DEF ServeOK, WriteSteps, BackupSteps, ConflictSteps, ResolveSteps
  <2> QED
    BY <1>10, <2>1, <2>2, ServeMove DEF RotatePanic, OpenMissing, Fail, Finish, disk, Unfinished
<1>11. ASSUME NEW r \in Request, ListBackups(r) PROVE ServeInv'
  <2>1. /\ pc[r] = "listBackups" /\ pc[r] \in WriteSteps /\ pc[r] \in BackupSteps
        /\ pc' = [pc EXCEPT ![r] = "rotateFile"] /\ pc'[r] = "rotateFile"
    BY <1>11 DEF ListBackups, WriteSteps, BackupSteps, Undisturbed
  <2>2. job' = [job EXCEPT ![r] = [job[r] EXCEPT !.listed = Stamps(job[r].path)]]
    BY <1>11 DEF ListBackups, Undisturbed
  <2>3. /\ job'[r].op = job[r].op /\ job'[r].path = job[r].path /\ job'[r].body = job[r].body
        /\ job'[r].entry = job[r].entry /\ job'[r].dest = job[r].dest /\ job'[r].id = job[r].id
        /\ job'[r].old = job[r].old /\ job'[r].listed = Stamps(job[r].path)
    BY <2>2 DEF Job
  <2>4. ServeOK(r)
    BY <1>0, <2>1
  <2>5. UNCHANGED <<canonical, metadata, bak, bakMeta, conflictMeta, conflictFile, writer>>
    BY <1>11 DEF ListBackups, disk
  <2>6. ServeOK(r)'
    BY <2>1, <2>3, <2>4, <2>5 DEF ServeOK, ConflictSteps, BackupSteps, WriteSteps, Stamps
  <2> QED
    BY <1>0, <2>1, <2>2, <2>5, <2>6, ServeMove DEF Unfinished
<1>12. ASSUME NEW r \in Request, RotateDone(r) PROVE ServeInv'
  <2>1. pc[r] = "rotateFile" /\ pc[r] \in WriteSteps /\ pc'[r] = "writeCanonical"
    BY <1>12 DEF RotateDone, WriteSteps, BackupSteps
  <2>2. UNCHANGED <<canonical, metadata, bak, bakMeta, conflictMeta, conflictFile, writer, job>>
    BY <1>12 DEF RotateDone, disk
  <2>3. ServeOK(r)'
    BY <1>0, <2>1, <2>2 DEF ServeOK, ConflictSteps, BackupSteps, WriteSteps
  <2> QED
    BY <1>0, <1>12, <2>1, <2>2, <2>3, ServeMove DEF RotateDone, Unfinished
<1>13. ASSUME NEW r \in Request, WriteConflictFile(r) PROVE ServeInv'
  <2>1. pc[r] = "writeConflictFile" /\ pc[r] \in WriteSteps /\ pc'[r] = "saveConflict"
    BY <1>13 DEF WriteConflictFile, WriteSteps, ConflictSteps
  <2>2. /\ UNCHANGED <<canonical, metadata, bak, bakMeta, conflictMeta, writer, job>>
        /\ conflictMeta[r] = None /\ \A id \in Request \ {r} : conflictFile'[id] = conflictFile[id]
    BY <1>13, <2>1 DEF WriteConflictFile, CandidateInv, CandidateOK
  <2>3. ServeOK(r)'
    BY <1>0, <2>1, <2>2 DEF ServeOK, ConflictSteps, BackupSteps, WriteSteps
  <2>4. \A p, s, id : ~Committing(p) /\ ~Labelling(p, s) /\ ~Removing(id)
    BY <1>0, <2>1 DEF Committing, Labelling, Removing
  <2>5. FilesOK' /\ BackupsOK'
    BY <2>2, <2>4, FilesStay, BackupsStay DEF ServeInv, DiskServes
  <2>6. CandidatesOK'
    BY <2>2, <2>4 DEF ServeInv, DiskServes, CandidatesOK
  <2> QED
    BY <1>0, <1>13, <2>1, <2>3, <2>5, <2>6, ServeAlone DEF WriteConflictFile, DiskServes
<1>14. ASSUME NEW r \in Request, SaveConflict(r) PROVE ServeInv'
  <2>1. pc[r] = "saveConflict" /\ pc[r] \in WriteSteps /\ pc'[r] \in Outcomes
    BY <1>14, VerdictType DEF SaveConflict, Finish, WriteSteps, ConflictSteps, Outcomes
  <2>2. /\ UNCHANGED <<canonical, metadata, bak, bakMeta, conflictFile>>
        /\ conflictMeta'[r] = [path |-> job[r].path, local |-> job[r].entry,
                                remote |-> job[r].old, resolved |-> FALSE]
        /\ \A id \in Request \ {r} : conflictMeta'[id] = conflictMeta[id]
    BY <1>14 DEF SaveConflict
  <2>3. conflictFile[r] = job[r].entry.sha
    BY <1>0, <2>1 DEF ServeOK, JobOK, CandidateInv, CandidateOK, ConflictSteps
  <2>4. ServeOK(r)'
    BY <2>1 DEF ServeOK, Outcomes, ConflictSteps, BackupSteps, WriteSteps
  <2>5. \A p, s, id : ~Committing(p) /\ ~Labelling(p, s) /\ ~Removing(id)
    BY <1>0, <2>1 DEF Committing, Labelling, Removing
  <2>6. FilesOK' /\ BackupsOK'
    BY FilesStay, BackupsStay, <2>2, <2>5 DEF ServeInv, DiskServes
  <2>7. CandidatesOK'
    <3> SUFFICES ASSUME NEW id \in Request, conflictMeta'[id] # None, conflictFile'[id] # None
                 PROVE  conflictFile'[id] = conflictMeta'[id].local.sha /\ ~conflictMeta'[id].resolved
      BY DEF CandidatesOK
    <3>1. CASE id = r
      BY <2>2, <2>3, <3>1
    <3>2. CASE id # r
      BY <2>2, <2>5, <3>2 DEF ServeInv, DiskServes, CandidatesOK
    <3> QED
      BY <3>1, <3>2
  <2> QED
    BY <1>0, <1>14, <2>1, <2>4, <2>6, <2>7, ServeAlone DEF SaveConflict, Finish, DiskServes
<1>15. ASSUME NEW r \in Request, CreateBackup(r) PROVE ServeInv'
  <2> DEFINE p == job[r].path
  <2>1. pc[r] = "createBackup" /\ pc[r] \in WriteSteps /\ pc[r] \in BackupSteps
    BY <1>15 DEF CreateBackup, WriteSteps, BackupSteps
  <2>2. /\ UNCHANGED <<canonical, metadata, bakMeta, conflictMeta, conflictFile, writer>>
        /\ bak' = [bak EXCEPT ![p][now] = canonical[p]]
        /\ job' = [job EXCEPT ![r] = [job[r] EXCEPT !.stamp = now]]
    BY <1>15 DEF CreateBackup, BackupLabel
  <2>3. ServeOK(r) /\ writer = r /\ writer # None /\ p \in Path /\ now \in Second
    BY <1>0, <2>1
  <2>4. \A q, s, id : ~Committing(q) /\ ~Labelling(q, s) /\ ~Removing(id)
    BY <2>1, <2>3 DEF Committing, Labelling, Removing
  <2>5. job[r].old = metadata[p] /\ job[r].old # None /\ canonical[p] = job[r].old.sha
    <3>1. Agree(p)
      BY <2>3, <2>4 DEF ServeInv, DiskServes, FilesOK
    <3>2. job[r].old = metadata[p] /\ job[r].old # None
      BY <2>1, <2>3 DEF ServeOK
    <3> QED
      BY <3>1, <3>2 DEF Agree
  <2>6. pc'[r] = "writeBackupMeta"
    BY <1>15, <2>5 DEF CreateBackup
  <2>7. /\ job'[r].op = job[r].op /\ job'[r].path = job[r].path /\ job'[r].body = job[r].body
        /\ job'[r].entry = job[r].entry /\ job'[r].dest = job[r].dest /\ job'[r].id = job[r].id
        /\ job'[r].old = job[r].old /\ job'[r].stamp = now
    BY <2>2 DEF Job
  <2>8. bak'[p][now] = job[r].old.sha
    BY <2>2, <2>3, <2>5
  <2>9. ServeOK(r)'
    BY <2>1, <2>2, <2>3, <2>5, <2>6, <2>7, <2>8 DEF ServeOK, WriteSteps, BackupSteps, ConflictSteps
  <2>10. \A q \in Path, s \in Second : q # p \/ s # now => bak'[q][s] = bak[q][s]
    BY <2>2, <2>3
  <2>11. BackupsOK'
    <3> SUFFICES ASSUME NEW q \in Path, NEW s \in Second PROVE AgreeThen(q, s)' \/ Labelling(q, s)'
      BY DEF BackupsOK
    <3>1. CASE q = p /\ s = now
      BY <2>2, <2>3, <2>6, <2>7, <3>1 DEF Labelling
    <3>2. CASE q # p \/ s # now
      <4>1. AgreeThen(q, s)
        BY <2>4, <3>2 DEF ServeInv, DiskServes, BackupsOK
      <4> QED
        BY <2>2, <2>10, <3>2, <4>1 DEF AgreeThen
    <3> QED
      BY <3>1, <3>2
  <2>12. FilesOK' /\ CandidatesOK'
    BY <2>2, <2>4, FilesStay, CandidatesStay DEF ServeInv, DiskServes
  <2> QED
    BY <1>15, <2>2, <2>3, <2>9, <2>11, <2>12, ServeAlone DEF CreateBackup, DiskServes
<1>16. ASSUME NEW r \in Request, WriteBackupMeta(r) PROVE ServeInv'
  <2> DEFINE p == job[r].path
             t == job[r].stamp
  <2>1. pc[r] = "writeBackupMeta" /\ pc[r] \in WriteSteps /\ pc[r] \in BackupSteps \ {"createBackup"}
    BY <1>16 DEF WriteBackupMeta, WriteSteps, BackupSteps
  <2>2. /\ UNCHANGED <<canonical, metadata, bak, conflictMeta, conflictFile, writer, job>>
        /\ bakMeta' = [bakMeta EXCEPT ![p][t] = job[r].old] /\ pc'[r] = "listBackups"
    BY <1>16 DEF WriteBackupMeta
  <2>3. ServeOK(r) /\ writer = r /\ writer # None /\ p \in Path /\ t \in Second
    BY <1>0, <2>1 DEF JobOK
  <2>4. \A q, s, id : ~Committing(q) /\ ~Removing(id) /\ (Labelling(q, s) => q = p /\ s = t)
    BY <2>1, <2>3 DEF Committing, Labelling, Removing
  <2>5. job[r].old # None /\ bak[p][t] = job[r].old.sha
    BY <2>1, <2>3 DEF ServeOK
  <2>6. ServeOK(r)'
    BY <2>1, <2>2, <2>3 DEF ServeOK, WriteSteps, BackupSteps, ConflictSteps
  <2>7. /\ bakMeta'[p][t] = job[r].old
        /\ \A q \in Path, s \in Second : q # p \/ s # t => bakMeta'[q][s] = bakMeta[q][s]
    BY <2>2, <2>3
  <2>8. BackupsOK'
    <3> SUFFICES ASSUME NEW q \in Path, NEW s \in Second PROVE AgreeThen(q, s)'
      BY DEF BackupsOK
    <3>1. CASE q = p /\ s = t
      BY <2>2, <2>5, <2>7, <3>1 DEF AgreeThen
    <3>2. CASE q # p \/ s # t
      <4>1. AgreeThen(q, s)
        BY <2>4, <3>2 DEF ServeInv, DiskServes, BackupsOK
      <4> QED
        BY <2>2, <2>7, <3>2, <4>1 DEF AgreeThen
    <3> QED
      BY <3>1, <3>2
  <2>9. FilesOK' /\ CandidatesOK'
    BY <2>2, <2>4, FilesStay, CandidatesStay DEF ServeInv, DiskServes
  <2> QED
    BY <1>16, <2>2, <2>3, <2>6, <2>8, <2>9, ServeAlone DEF WriteBackupMeta, DiskServes
<1>17. ASSUME NEW r \in Request, RotateFile(r) PROVE ServeInv'
  <2> DEFINE p == job[r].path
  <2>1. pc[r] = "rotateFile" /\ pc[r] \in WriteSteps
    BY <1>17 DEF RotateFile, WriteSteps, BackupSteps
  <2>2. PICK t \in Oldest(job[r].listed) : bak' \in Removed(bak, p, t)
    BY <1>17 DEF RotateFile
  <2>3. bak' = [bak EXCEPT ![p][t] = None]
    BY <2>2 DEF Removed, Undisturbed
  <2>4. UNCHANGED <<canonical, metadata, bakMeta, conflictMeta, conflictFile, writer, job>> /\ pc'[r] = "rotateMeta"
    BY <1>17 DEF RotateFile
  <2>5. ServeOK(r) /\ writer = r /\ writer # None /\ p \in Path /\ t \in Second /\ job[r].listed = Stamps(p)
    BY <1>0, <2>1, <2>2 DEF ServeOK, Oldest, Stamps
  <2>6. \A q, s, id : ~Committing(q) /\ ~Removing(id) /\ ~Labelling(q, s)
    BY <2>1, <2>5 DEF Committing, Labelling, Removing
  <2>7. /\ bak'[p][t] = None
        /\ \A q \in Path, s \in Second : q # p \/ s # t => bak'[q][s] = bak[q][s]
    BY <2>3, <2>5
  <2>8. Stamps(p)' = job[r].listed \ {t}
    BY <2>4, <2>5, <2>7 DEF Stamps
  <2>9. ServeOK(r)'
    <3>1. \E s \in Oldest(job'[r].listed) : Stamps(job[r].path)' = job'[r].listed \ {s}
      BY <2>2, <2>4, <2>8
    <3> QED
      BY <2>1, <2>4, <2>5, <3>1 DEF ServeOK, WriteSteps, BackupSteps, ConflictSteps
  <2>10. BackupsOK'
    <3> SUFFICES ASSUME NEW q \in Path, NEW s \in Second PROVE AgreeThen(q, s)' \/ Labelling(q, s)'
      BY DEF BackupsOK
    <3>1. CASE q = p /\ s = t
      BY <2>2, <2>4, <2>5, <3>1 DEF Labelling
    <3>2. CASE q # p \/ s # t
      <4>1. AgreeThen(q, s)
        BY <2>6, <3>2 DEF ServeInv, DiskServes, BackupsOK
      <4> QED
        BY <2>4, <2>7, <3>2, <4>1 DEF AgreeThen
    <3> QED
      BY <3>1, <3>2
  <2>11. FilesOK' /\ CandidatesOK'
    BY <2>4, <2>6, FilesStay, CandidatesStay DEF ServeInv, DiskServes
  <2> QED
    BY <1>17, <2>4, <2>5, <2>9, <2>10, <2>11, ServeAlone DEF RotateFile, DiskServes
<1>18. ASSUME NEW r \in Request, RotateMeta(r) PROVE ServeInv'
  <2> DEFINE p == job[r].path
  <2>1. pc[r] = "rotateMeta" /\ pc[r] \in WriteSteps /\ pc[r] \in BackupSteps
    BY <1>18 DEF RotateMeta, WriteSteps, BackupSteps
  <2>2. PICK t \in Oldest(job[r].listed) :
            /\ bakMeta' \in Removed(bakMeta, p, t)
            /\ job' = [job EXCEPT ![r] = [job[r] EXCEPT !.listed = @ \ {t}]]
    BY <1>18 DEF RotateMeta
  <2>3. bakMeta' = [bakMeta EXCEPT ![p][t] = None]
    BY <2>2 DEF Removed, Undisturbed
  <2>4. UNCHANGED <<canonical, metadata, bak, conflictMeta, conflictFile, writer>> /\ pc'[r] = "rotateFile"
    BY <1>18 DEF RotateMeta
  <2>5. ServeOK(r) /\ writer = r /\ writer # None /\ p \in Path /\ job[r].listed \subseteq Second
    BY <1>0, <2>1 DEF Job
  <2>6. \A s \in Oldest(job[r].listed) : s = t
    <3> SUFFICES ASSUME NEW s \in Oldest(job[r].listed) PROVE s = t
      OBVIOUS
    <3>1. s \in Nat /\ t \in Nat
      BY <2>5, SecondAssumption DEF Oldest
    <3>2. s <= t /\ t <= s
      BY DEF Oldest
    <3> QED
      BY <3>1, <3>2
  <2>7. Stamps(p) = job[r].listed \ {t} /\ t \in Second
    BY <2>1, <2>2, <2>5, <2>6 DEF ServeOK, Oldest
  <2>8. bak[p][t] = None
    BY <2>7 DEF Stamps
  <2>9. /\ bakMeta'[p][t] = None
        /\ \A q \in Path, s \in Second : q # p \/ s # t => bakMeta'[q][s] = bakMeta[q][s]
    BY <2>3, <2>5, <2>7
  <2>10. \A q, s, id : ~Committing(q) /\ ~Removing(id) /\ (Labelling(q, s) => q = p /\ s = t)
    BY <2>1, <2>5, <2>6 DEF Committing, Labelling, Removing
  <2>11. /\ job'[r].op = job[r].op /\ job'[r].path = job[r].path /\ job'[r].body = job[r].body
         /\ job'[r].entry = job[r].entry /\ job'[r].dest = job[r].dest /\ job'[r].id = job[r].id
         /\ job'[r].old = job[r].old /\ job'[r].listed = job[r].listed \ {t}
    BY <2>2 DEF Job
  <2>12. ServeOK(r)'
    BY <2>1, <2>4, <2>5, <2>7, <2>11 DEF ServeOK, WriteSteps, BackupSteps, ConflictSteps, Stamps
  <2>13. BackupsOK'
    <3> SUFFICES ASSUME NEW q \in Path, NEW s \in Second PROVE AgreeThen(q, s)'
      BY DEF BackupsOK
    <3>1. CASE q = p /\ s = t
      BY <2>4, <2>8, <2>9, <3>1 DEF AgreeThen
    <3>2. CASE q # p \/ s # t
      <4>1. AgreeThen(q, s)
        BY <2>10, <3>2 DEF ServeInv, DiskServes, BackupsOK
      <4> QED
        BY <2>4, <2>9, <3>2, <4>1 DEF AgreeThen
    <3> QED
      BY <3>1, <3>2
  <2>14. FilesOK' /\ CandidatesOK'
    BY <2>4, <2>10, FilesStay, CandidatesStay DEF ServeInv, DiskServes
  <2> QED
    BY <1>18, <2>2, <2>5, <2>12, <2>13, <2>14, ServeAlone DEF RotateMeta, DiskServes
<1>19. ASSUME NEW r \in Request, WriteCanonical(r) PROVE ServeInv'
  <2> DEFINE d == job[r].dest
  <2>1. pc[r] = "writeCanonical" /\ pc[r] \in WriteSteps
    BY <1>19 DEF WriteCanonical, WriteSteps
  <2>2. /\ UNCHANGED <<metadata, bak, bakMeta, conflictMeta, conflictFile, writer, job>>
        /\ Source(r) # None /\ canonical' = [canonical EXCEPT ![d] = Source(r)] /\ pc'[r] = "writeMetadata"
    BY <1>19 DEF WriteCanonical
  <2>3. ServeOK(r) /\ JobOK(r) /\ writer = r /\ writer # None /\ d \in Path
    BY <1>0, <2>1
  <2>4. \A q, s, id : ~Committing(q) /\ ~Labelling(q, s) /\ ~Removing(id)
    BY <2>1, <2>3 DEF Committing, Labelling, Removing
  <2>5. Source(r) = job[r].entry.sha /\ (job[r].op # "put" => ~conflictMeta[job[r].id].resolved)
    <3>1. CASE job[r].op = "put"
      BY <2>1, <2>3, <3>1 DEF ServeOK, Source
    <3>2. CASE job[r].op # "put"
      <4>1. job[r].id \in Request /\ conflictMeta[job[r].id] # None
        BY <2>1, <2>3, <3>2, NoneAssumption DEF JobOK
      <4>2. job[r].entry = conflictMeta[job[r].id].local /\ Source(r) = conflictFile[job[r].id]
        BY <2>1, <2>3, <3>2 DEF ServeOK, Source
      <4> QED
        BY <2>2, <2>4, <4>1, <4>2 DEF ServeInv, DiskServes, CandidatesOK
    <3> QED
      BY <3>1, <3>2
  <2>6. canonical'[d] = job[r].entry.sha /\ \A q \in Path \ {d} : canonical'[q] = canonical[q]
    BY <2>2, <2>3, <2>5
  <2>7. ServeOK(r)'
    BY <2>1, <2>2, <2>3, <2>5, <2>6 DEF ServeOK, WriteSteps, BackupSteps, ConflictSteps
  <2>8. FilesOK'
    <3> SUFFICES ASSUME NEW q \in Path PROVE Agree(q)' \/ Committing(q)'
      BY DEF FilesOK
    <3>1. CASE q = d
      BY <2>2, <2>3, <3>1 DEF Committing
    <3>2. CASE q # d
      BY <2>2, <2>4, <2>6, <3>2 DEF ServeInv, DiskServes, FilesOK, Agree
    <3> QED
      BY <3>1, <3>2
  <2>9. BackupsOK' /\ CandidatesOK'
    BY <2>2, <2>4, BackupsStay, CandidatesStay DEF ServeInv, DiskServes
  <2> QED
    BY <1>19, <2>2, <2>3, <2>7, <2>8, <2>9, ServeAlone DEF WriteCanonical, DiskServes
<1>20. ASSUME NEW r \in Request, WriteMetadata(r) PROVE ServeInv'
  <2> DEFINE d == job[r].dest
  <2>1. pc[r] = "writeMetadata" /\ pc[r] \in WriteSteps
    BY <1>20 DEF WriteMetadata, WriteSteps
  <2>2. /\ UNCHANGED <<canonical, bak, bakMeta, conflictMeta, conflictFile>>
        /\ metadata' = [metadata EXCEPT ![d] = job[r].entry]
        /\ \A q \in Request \ {r} : pc'[q] = pc[q] /\ job'[q] = job[q]
    BY <1>20 DEF WriteMetadata, Finish
  <2>3. ServeOK(r) /\ JobOK(r) /\ writer = r /\ writer # None /\ d \in Path
    BY <1>0, <2>1
  <2>4. \A q, s, id : ~Labelling(q, s) /\ ~Removing(id) /\ (Committing(q) => q = d)
    BY <2>1, <2>3 DEF Committing, Labelling, Removing
  <2>5. \/ pc'[r] \in Outcomes
        \/ pc'[r] = "markResolved" /\ job[r].op # "put" /\ job'[r] = job[r]
    <3>1. CASE job[r].op = "put"
      BY <1>20, <3>1, VerdictType DEF WriteMetadata, Finish, Outcomes
    <3>2. CASE job[r].op # "put"
      BY <1>20, <3>2 DEF WriteMetadata
    <3> QED
      BY <3>1, <3>2
  <2>6. ServeOK(r)'
    <3>1. CASE pc'[r] \in Outcomes
      BY <3>1 DEF ServeOK, Outcomes, WriteSteps, BackupSteps, ConflictSteps, ResolveSteps
    <3>2. CASE pc'[r] = "markResolved" /\ job[r].op # "put" /\ job'[r] = job[r]
      BY <2>1, <2>2, <2>3, <3>2 DEF ServeOK, WriteSteps, BackupSteps, ConflictSteps, ResolveSteps
    <3> QED
      BY <2>5, <3>1, <3>2
  <2>7. /\ metadata'[d] = job[r].entry /\ metadata'[d] # None /\ canonical[d] = job[r].entry.sha
        /\ \A q \in Path \ {d} : metadata'[q] = metadata[q]
    <3>1. job[r].entry \in Entry /\ job[r].entry # None
      BY <2>1, <2>3, NoneAssumption DEF JobOK
    <3> QED
      BY <2>1, <2>2, <2>3, <3>1 DEF ServeOK
  <2>8. FilesOK'
    <3> SUFFICES ASSUME NEW q \in Path PROVE Agree(q)'
      BY DEF FilesOK
    <3>1. CASE q = d
      BY <2>2, <2>7, <3>1 DEF Agree
    <3>2. CASE q # d
      BY <2>2, <2>4, <2>7, <3>2 DEF ServeInv, DiskServes, FilesOK, Agree
    <3> QED
      BY <3>1, <3>2
  <2>9. BackupsOK' /\ CandidatesOK'
    BY <2>2, <2>4, BackupsStay, CandidatesStay DEF ServeInv, DiskServes
  <2> QED
    BY <2>2, <2>3, <2>6, <2>8, <2>9, ServeAlone DEF DiskServes
<1>21. ASSUME NEW r \in Request, MarkResolved(r) PROVE ServeInv'
  <2> DEFINE id == job[r].id
  <2>1. pc[r] = "markResolved" /\ pc[r] \in WriteSteps /\ pc[r] \in ResolveSteps
    BY <1>21 DEF MarkResolved, WriteSteps, ResolveSteps
  <2>2. /\ UNCHANGED <<canonical, metadata, bak, bakMeta, conflictFile, writer, job>>
        /\ conflictMeta' = [conflictMeta EXCEPT ![id].resolved = TRUE] /\ pc'[r] = "removeCandidate"
    BY <1>21 DEF MarkResolved
  <2>3. /\ ServeOK(r) /\ job[r].op # "put" /\ writer = r /\ writer # None
        /\ id \in Request /\ conflictMeta[id] \in Conflict
    BY <1>0, <2>1 DEF JobOK
  <2>4. /\ conflictMeta'[id].path = conflictMeta[id].path
        /\ conflictMeta'[id].local = conflictMeta[id].local
        /\ \A o \in Request \ {id} : conflictMeta'[o] = conflictMeta[o]
    BY <2>2, <2>3 DEF Conflict
  <2>5. \A q, s, o : ~Committing(q) /\ ~Labelling(q, s) /\ ~Removing(o)
    BY <2>1, <2>3 DEF Committing, Labelling, Removing
  <2>6. ServeOK(r)'
    BY <2>1, <2>2, <2>3, <2>4 DEF ServeOK, ResolveDest, WriteSteps, BackupSteps, ConflictSteps
  <2>7. CandidatesOK'
    <3> SUFFICES ASSUME NEW o \in Request, conflictMeta'[o] # None, conflictFile'[o] # None
                 PROVE  /\ conflictFile'[o] = conflictMeta'[o].local.sha
                        /\ ~conflictMeta'[o].resolved \/ Removing(o)'
      BY DEF CandidatesOK
    <3>1. CASE o = id
      <4>1. conflictMeta[id] # None
        BY <2>3, NoneAssumption
      <4>2. conflictFile[id] = conflictMeta[id].local.sha
        BY <2>2, <2>3, <3>1, <4>1 DEF ServeInv, DiskServes, CandidatesOK
      <4> QED
        BY <2>2, <2>3, <2>4, <3>1, <4>2 DEF Removing
    <3>2. CASE o # id
      BY <2>2, <2>4, <2>5, <3>2 DEF ServeInv, DiskServes, CandidatesOK
    <3> QED
      BY <3>1, <3>2
  <2>8. FilesOK' /\ BackupsOK'
    BY FilesStay, BackupsStay, <2>2, <2>5 DEF ServeInv, DiskServes
  <2> QED
    BY <1>21, <2>2, <2>3, <2>6, <2>7, <2>8, ServeAlone DEF MarkResolved, DiskServes
<1>22. ASSUME NEW r \in Request, RemoveCandidate(r) PROVE ServeInv'
  <2> DEFINE id == job[r].id
  <2>1. pc[r] = "removeCandidate" /\ pc[r] \in WriteSteps /\ pc[r] \in ResolveSteps /\ pc'[r] = "ok"
    BY <1>22 DEF RemoveCandidate, Finish, WriteSteps, ResolveSteps
  <2>2. /\ UNCHANGED <<canonical, metadata, bak, bakMeta, conflictMeta>>
        /\ conflictFile' = [conflictFile EXCEPT ![id] = None]
    BY <1>22 DEF RemoveCandidate, Undisturbed
  <2>3. writer = r /\ id \in Request
    BY <1>0, <2>1 DEF JobOK
  <2>4. \A q, s, o : ~Committing(q) /\ ~Labelling(q, s) /\ (Removing(o) => o = id)
    BY <2>1, <2>3 DEF Committing, Labelling, Removing
  <2>5. ServeOK(r)'
    BY <2>1 DEF ServeOK, WriteSteps, BackupSteps, ConflictSteps, ResolveSteps
  <2>6. CandidatesOK'
    <3> SUFFICES ASSUME NEW o \in Request, conflictMeta'[o] # None, conflictFile'[o] # None
                 PROVE  conflictFile'[o] = conflictMeta'[o].local.sha /\ ~conflictMeta'[o].resolved
      BY DEF CandidatesOK
    <3>1. o # id /\ conflictFile[o] = conflictFile'[o]
      BY <2>2, <2>3
    <3> QED
      BY <2>2, <2>4, <3>1 DEF ServeInv, DiskServes, CandidatesOK
  <2>7. FilesOK' /\ BackupsOK'
    BY FilesStay, BackupsStay, <2>2, <2>4 DEF ServeInv, DiskServes
  <2> QED
    BY <1>22, <2>3, <2>5, <2>6, <2>7, ServeAlone DEF RemoveCandidate, Finish, DiskServes
<1> QED
  BY <1>1, <1>2, <1>3, <1>4, <1>5, <1>6, <1>7, <1>8, <1>9, <1>10, <1>11, <1>12, <1>13,
     <1>14, <1>15, <1>16, <1>17, <1>18, <1>19, <1>20, <1>21, <1>22 DEF Next, Arrive, Step, Quiet

\* A store some earlier run left behind is in order, and nobody is at work.
LEMMA ServeInit == Init => ServeInv
<1> SUFFICES ASSUME Init PROVE ServeInv
  OBVIOUS
<1>1. FilesOK
  BY DEF Init, FilesOK, Agree
<1>2. BackupsOK
  BY DEF Init, BackupsOK, AgreeThen
<1>3. CandidatesOK
  BY DEF Init, CandidatesOK
<1>4. ASSUME NEW r \in Request PROVE ServeOK(r)
  <2>1. pc[r] = "new" /\ job[r].op = "none"
    BY DEF Init, Idle
  <2> QED
    BY <2>1 DEF ServeOK, WriteSteps, ConflictSteps, BackupSteps, ResolveSteps
<1> QED
  BY <1>1, <1>2, <1>3, <1>4 DEF ServeInv, DiskServes

\* The four parts together hold in every reachable state.
LEMMA ServeCorrect ==
    ASSUME Undisturbed
    PROVE  Spec => [](Inductive /\ CandidateInv /\ UploadInv /\ ServeInv)
<1>1. Init => CandidateInv
  BY NoneAssumption DEF Init, CandidateInv, CandidateOK, OpenConflictHasCandidate, ConflictSteps
<1>2. Inductive /\ CandidateInv /\ UploadInv /\ ServeInv /\ [Next]_vars => ServeInv'
  BY ServeStep
<1> QED
  BY <1>1, <1>2, InitInductive, InductiveStep, CandidateStep, InitUpload, UploadStep, ServeInit, PTL DEF Spec

\* GetManifest and ReadFile: with no writer under way, files and metadata agree.
THEOREM FilesMatchMetadata == ASSUME Undisturbed PROVE Spec => []StoreConsistent
<1>1. ServeInv => StoreConsistent
  BY DEF ServeInv, DiskServes, FilesOK, Agree, Committing, StoreConsistent
<1> QED
  BY <1>1, ServeCorrect, PTL

\* GetHistory: with no writer under way, the versions listed are the backups kept.
THEOREM VersionsMatchBackups == ASSUME Undisturbed PROVE Spec => []HistoryIsRestorable
<1>1. ServeInv => HistoryIsRestorable
  BY DEF ServeInv, DiskServes, BackupsOK, AgreeThen, Labelling, HistoryIsRestorable
<1> QED
  BY <1>1, ServeCorrect, PTL

\* ReadFile: a download is sent under the hash of its content.
THEOREM DownloadsMatch == ASSUME Undisturbed PROVE Spec => DownloadIsConsistent
<1>1. ASSUME Inductive, ServeInv, NEW r \in Request, At(r, "readEntry")
      PROVE  metadata[job[r].path].sha = job[r].body
  <2>1. writer = None
    BY <1>1 DEF Inductive, LockDiscipline, At, ReadSteps
  <2>2. job[r].path \in Path /\ canonical[job[r].path] = job[r].body /\ job[r].body # None
    BY <1>1 DEF ServeInv, ServeOK, At
  <2>3. Agree(job[r].path)
    BY <1>1, <2>1, <2>2 DEF ServeInv, DiskServes, FilesOK, Committing
  <2> QED
    BY <2>2, <2>3 DEF Agree
<1>2. Inductive /\ ServeInv /\ [Next]_vars =>
        [\A r \in Request :
            At(r, "readEntry") /\ pc'[r] = "ok" => metadata[job[r].path].sha = job[r].body]_vars
  BY <1>1
<1> QED
  BY <1>2, ServeCorrect, PTL DEF Spec, DownloadIsConsistent

\* Only createBackup and rotateBackups touch the backups of a path.
LEMMA BackupsChange ==
    ASSUME [Next]_vars, bak' # bak
    PROVE  \E r \in Request : CreateBackup(r) \/ RotateFile(r)
BY DEF Next, Arrive, Step, Quiet, Tick, Crash, Fail, disk, vars, BeginPut, BeginResolve,
    RefuseResolve, BeginRead, BeginManifest, WriteConflictFile, SaveConflict,
    WriteBackupMeta, ListBackups, RotateMeta, RotatePanic, RotateDone, WriteCanonical,
    OpenMissing, WriteMetadata, MarkResolved, RemoveCandidate, ReadEntry, WalkOne, WalkDone

\* Only saves and conflicts of the writer change, and its resolution is not over.
LEMMA ResolutionWrites ==
    ASSUME [Next]_vars, ~UNCHANGED <<canonical, metadata, conflictMeta>>
    PROVE  \E r \in Request : WriteCanonical(r) \/ WriteMetadata(r) \/ SaveConflict(r) \/ MarkResolved(r)
BY DEF Next, Arrive, Step, Quiet, Tick, Crash, Fail, disk, vars, BeginPut, BeginResolve,
    RefuseResolve, BeginRead, BeginManifest, WriteConflictFile, CreateBackup, WriteBackupMeta,
    ListBackups, RotateFile, RotateMeta, RotatePanic, RotateDone, OpenMissing, RemoveCandidate,
    ReadEntry, WalkOne, WalkDone

\* ResolveConflict: once a conflict is resolved, resolving it again changes no save,
\* no metadata and no conflict.
THEOREM ConflictsAreSettledOnce == ASSUME Undisturbed PROVE Spec => ResolutionIsFinal
<1>1. ASSUME Inductive, ServeInv, [Next]_vars, NEW r \in Request,
             writer = r, job[r].op \in Resolving, conflictMeta[job[r].id].resolved
      PROVE  UNCHANGED <<canonical, metadata, conflictMeta>>
  <2> SUFFICES ASSUME ~UNCHANGED <<canonical, metadata, conflictMeta>> PROVE FALSE
    OBVIOUS
  <2>1. PICK q \in Request : WriteCanonical(q) \/ WriteMetadata(q) \/ SaveConflict(q) \/ MarkResolved(q)
    BY ResolutionWrites, <1>1
  <2>2. /\ pc[q] \in {"writeCanonical", "writeMetadata", "saveConflict", "markResolved"}
        /\ pc[q] \in WriteSteps
    BY <2>1 DEF WriteCanonical, WriteMetadata, SaveConflict, MarkResolved, At, WriteSteps, ConflictSteps, ResolveSteps
  <2>3. q = r
    BY <1>1, <2>2 DEF Inductive, LockDiscipline
  <2>4. /\ job[r].op # "put" /\ job[r].id \in Request
        /\ conflictMeta[job[r].id] \in Conflict /\ conflictMeta[job[r].id] # None
    BY <1>1, <2>2, <2>3, NoneAssumption DEF Resolving, Inductive, JobInv, JobOK
  <2>5. ~SaveConflict(r)
    BY <1>1, <2>4 DEF SaveConflict, At, ConflictSteps, WriteSteps, Inductive, JobInv, JobOK
  <2>6. ~MarkResolved(r)
    <3> SUFFICES ASSUME MarkResolved(r) PROVE FALSE
      OBVIOUS
    <3>1. [conflictMeta[job[r].id] EXCEPT !.resolved = TRUE] = conflictMeta[job[r].id]
      BY <1>1, <2>4 DEF Conflict
    <3>2. conflictMeta' = conflictMeta
      BY <1>1, <2>4, <3>1 DEF MarkResolved, Inductive, TypeOK
    <3> QED
      BY <3>2 DEF MarkResolved
  <2>7. ~WriteMetadata(r)
    BY <1>1, <2>2, <2>3, <2>4 DEF WriteMetadata, At, ServeInv, ServeOK
  <2>8. WriteCanonical(r)
    BY <2>1, <2>3, <2>5, <2>6, <2>7
  <2>9. conflictFile[job[r].id] # None
    BY <2>8, <2>4 DEF WriteCanonical, Source
  <2>10. ~Removing(job[r].id)
    BY <1>1, <2>8 DEF Removing, WriteCanonical, At
  <2> QED
    BY <1>1, <2>4, <2>9, <2>10 DEF ServeInv, DiskServes, CandidatesOK
<1>2. Inductive /\ ServeInv /\ [Next]_vars =>
        [\A r \in Request :
            writer = r /\ job[r].op \in Resolving /\ conflictMeta[job[r].id].resolved =>
                UNCHANGED <<canonical, metadata, conflictMeta>>]_vars
  BY <1>1
<1> QED
  BY <1>2, ServeCorrect, PTL DEF Spec, ResolutionIsFinal

\* rotateBackups: only the oldest backup goes, and in the end no more than
\* MaxBackups stay.
THEOREM OnlyOldestGoes == ASSUME Undisturbed PROVE Spec => RotationDropsOldest
<1>1. ASSUME Inductive, ServeInv, [Next]_vars, NEW p \in Path, NEW s \in Stamps(p), bak'[p][s] = None,
             NEW t \in Stamps(p)
      PROVE  s <= t
  <2> USE <1>1 DEF Inductive, TypeOK
  <2>1. PICK r \in Request : CreateBackup(r) \/ RotateFile(r)
    BY BackupsChange DEF Stamps
  <2>2. JobOK(r) /\ ServeOK(r) /\ job[r].path \in Path
    BY <2>1, PathAssumption DEF JobInv, JobOK, ServeInv, CreateBackup, RotateFile, At, WriteSteps, BackupSteps
  <2>3. ~CreateBackup(r)
    <3> SUFFICES ASSUME CreateBackup(r) PROVE FALSE
      OBVIOUS
    <3>1. bak' = [bak EXCEPT ![job[r].path][now] = canonical[job[r].path]] /\ canonical[job[r].path] # None
      BY DEF CreateBackup, BackupLabel
    <3> QED
      BY <2>2, <3>1 DEF Stamps
  <2>4. RotateFile(r) /\ job[r].listed = Stamps(job[r].path)
    BY <2>1, <2>2, <2>3 DEF RotateFile, At, ServeOK
  <2>5. PICK u \in Oldest(job[r].listed) : bak' \in Removed(bak, job[r].path, u)
    BY <2>4 DEF RotateFile
  <2>6. u \in Second
    BY <2>4, <2>5 DEF Oldest, Stamps
  <2>7. p = job[r].path /\ s = u
    <3>1. bak \in [Path -> [Second -> Content \cup {None}]] /\ job[r].path \in Path
      BY <2>2
    <3>2. \A q \in Path, v \in Second : q # job[r].path \/ v # u => bak'[q][v] = bak[q][v]
      BY <2>5, <2>6, <3>1, RemovedOne
    <3> QED
      BY <3>2 DEF Stamps
  <2> QED
    BY <2>4, <2>5, <2>7 DEF Oldest
<1>2. ASSUME ServeInv, NEW p \in Path, NEW r \in Request, RotateDone(r), job[r].path = p
      PROVE  ~OverLimit(Stamps(p))
  BY <1>2 DEF RotateDone, At, ServeInv, ServeOK
<1>3. Inductive /\ ServeInv /\ [Next]_vars =>
        [\A p \in Path :
            /\ \A s \in Stamps(p) : bak'[p][s] = None => \A t \in Stamps(p) : s <= t
            /\ \A r \in Request : RotateDone(r) /\ job[r].path = p => ~OverLimit(Stamps(p))]_vars
  BY <1>1, <1>2
<1> QED
  BY <1>3, ServeCorrect, PTL DEF Spec, RotationDropsOldest

------------------------------------------------------------------------------
\* 4. The refinement

\* What SaveStore asks of its missing value.
AbstractNone == None \notin Abstract!Ask \cup Abstract!Held

Asks == [q \in Request |-> Asked(q)]
Holding == [id \in Request |-> Held(id)]

\* A request that changes what it asks for changes nobody else's.
LEMMA AskedOne ==
    ASSUME NEW r \in Request, NEW a, Asked(r)' = a,
           \A q \in Request \ {r} : Asked(q)' = Asked(q)
    PROVE  Asks' = [Asks EXCEPT ![r] = a]
BY DEF Asks

\* A conflict that is raised or settled changes no other.
LEMMA HeldOne ==
    ASSUME NEW r \in Request, NEW h, Held(r)' = h,
           \A id \in Request \ {r} : Held(id)' = Held(id)
    PROVE  Holding' = [Holding EXCEPT ![r] = h]
BY DEF Holding

\* What concerns neither the metadata, nor a conflict, nor what is asked, is hidden.
LEMMA Hidden ==
    ASSUME UNCHANGED metadata, \A q \in Request : Asked(q)' = Asked(q),
           \A id \in Request : Held(id)' = Held(id)
    PROVE  UNCHANGED Abstract!vars
BY DEF Abstract!vars

\* What the metadata of conflicts says is all the abstract store sees of them.
LEMMA HeldStays ==
    ASSUME UNCHANGED conflictMeta
    PROVE  \A id \in Request : Held(id)' = Held(id)
BY DEF Held

\* Who remembers the same asks for the same.
LEMMA AskedStays == ASSUME UNCHANGED job PROVE UNCHANGED Asks /\ \A q \in Request : Asked(q)' = Asked(q)
<1>1. \A q \in Request : Asked(q)' = Asked(q)
  BY DEF Asked
<1> QED
  BY <1>1 DEF Asks

\* Asks and Holding after a step that concerns r, or nobody.
LEMMA OthersAsk ==
    ASSUME NEW r \in Request, \A q \in Request \ {r} : job'[q] = job[q]
    PROVE  \A q \in Request \ {r} : Asked(q)' = Asked(q)
BY DEF Asked

\* Each step of the store is a step of SaveStore, or hidden from it.  The steps
\* that show are the arrival of an upload, the metadata or conflict it ends with,
\* its failure, and a resolution.
LEMMA RefineStep ==
    ASSUME AbstractNone, Undisturbed, Inductive, CandidateInv, UploadInv, ServeInv, [Next]_vars
    PROVE  Abstract!Next \/ UNCHANGED Abstract!vars
<1> USE StepsAreDisjoint DEF Inductive, TypeOK, Goto, Learn, At
<1>0. ASSUME NEW r \in Request, pc[r] \in WriteSteps
      PROVE  /\ writer = r /\ writer # None
             /\ ServeOK(r) /\ JobOK(r) /\ UploadOK(r) /\ job[r].path \in Path /\ job[r].dest \in Path
  BY <1>0, NoneAssumption, PathAssumption DEF LockDiscipline, ServeInv, UploadInv, JobInv, JobOK
\* An upload arrives.
<1>1. ASSUME NEW r \in Request, BeginPut(r) PROVE Abstract!Next
  <2>1. PICK p \in ClientPath, e \in Entry, body \in Content, base \in Content \cup {None} :
            Learn(r, PutJob(p, e, body, base))
    BY <1>1 DEF BeginPut
  <2>2. /\ UNCHANGED <<metadata, conflictMeta>> /\ pc[r] = "new"
        /\ \A q \in Request \ {r} : job'[q] = job[q]
    BY <1>1, <2>1 DEF BeginPut, disk
  <2>3. job'[r].op = "put" /\ job'[r].path = p /\ job'[r].entry = e /\ job'[r].base = base
    BY <2>1 DEF PutJob, Idle
  <2>4. Asked(r) = None
    BY <2>2 DEF ServeInv, ServeOK, Asked
  <2>5. Asked(r)' = [path |-> p, version |-> e, base |-> base]
    BY <2>3 DEF Asked
  <2>6. [path |-> p, version |-> e, base |-> base] \in Abstract!Ask
    BY PathAssumption DEF Abstract!Ask, Abstract!Version, Entry
  <2>7. \A q \in Request \ {r} : Asked(q)' = Asked(q)
    BY <2>2, OthersAsk
  <2>8. Asks' = [Asks EXCEPT ![r] = [path |-> p, version |-> e, base |-> base]]
    BY <2>5, <2>7, AskedOne
  <2>9. UNCHANGED Holding
    BY <2>2, HeldStays DEF Holding
  <2>10. Abstract!Receive(r)
    BY <2>2, <2>4, <2>6, <2>8, <2>9 DEF Abstract!Receive, Asks, Holding
  <2> QED
    BY <2>10 DEF Abstract!Next
\* An upload loses.
<1>2. ASSUME NEW r \in Request, SaveConflict(r) PROVE Abstract!Next
  <2> DEFINE c == [path |-> job[r].path, local |-> job[r].entry, remote |-> job[r].old, resolved |-> FALSE]
             h == [path |-> job[r].path, version |-> job[r].entry]
  <2>1. pc[r] = "saveConflict" /\ pc[r] \in WriteSteps /\ pc[r] \in ConflictSteps
    BY <1>2 DEF SaveConflict, WriteSteps, ConflictSteps
  <2>2. UNCHANGED metadata /\ conflictMeta' = [conflictMeta EXCEPT ![r] = c] /\ job' = [job EXCEPT ![r] = Idle]
    BY <1>2 DEF SaveConflict, Finish
  <2>3. JobOK(r) /\ ServeOK(r) /\ job[r].path \in Path
    BY <1>0, <2>1
  <2>4. /\ job[r].op = "put" /\ job[r].entry \in Entry /\ job[r].old \in Entry /\ job[r].path \in ClientPath
        /\ Diverged(metadata[job[r].path], job[r].base)
    BY <2>1, <2>3 DEF JobOK, ServeOK
  <2>5. Asked(r) = [path |-> job[r].path, version |-> job[r].entry, base |-> job[r].base]
    BY <2>4 DEF Asked
  <2>6. Asked(r) \in Abstract!Ask
    <3>1. job[r].base \in Content \cup {None}
      BY DEF Job
    <3> QED
      BY <2>3, <2>4, <2>5, <3>1 DEF Abstract!Ask, Abstract!Version, Entry
  <2>7. Asked(r) # None /\ Asked(r).path = job[r].path /\ Asked(r).version = job[r].entry /\ Asked(r).base = job[r].base
    BY <2>5, <2>6 DEF AbstractNone
  <2>8. Asked(r)' = None
    BY <2>2 DEF Asked, Idle
  <2>9. c \in Conflict
    BY <2>4 DEF Conflict
  <2>15. c # None /\ conflictMeta'[r] = c
    BY <2>2, <2>9, NoneAssumption
  <2>10. Held(r)' = h
    BY <2>15 DEF Held
  <2>11. \A q \in Request \ {r} : Asked(q)' = Asked(q) /\ Held(q)' = Held(q)
    <3>1. \A q \in Request \ {r} : job'[q] = job[q] /\ conflictMeta'[q] = conflictMeta[q]
      BY <2>2
    <3> QED
      BY <3>1, OthersAsk DEF Held
  <2>12. Asks' = [Asks EXCEPT ![r] = None] /\ Holding' = [Holding EXCEPT ![r] = h]
    BY <2>8, <2>10, <2>11, AskedOne, HeldOne
  <2>13. ~Abstract!UpToDate(Asked(r))
    BY <2>4, <2>7 DEF Abstract!UpToDate, Diverged
  <2>14. Abstract!Park(r)
    BY <2>2, <2>7, <2>12, <2>13 DEF Abstract!Park, Asks, Holding
  <2> QED
    BY <2>14 DEF Abstract!Next
\* An upload wins, or the winner of a conflict becomes the head.
<1>3. ASSUME NEW r \in Request, WriteMetadata(r) PROVE Abstract!Next
  <2>1. pc[r] = "writeMetadata" /\ pc[r] \in WriteSteps /\ pc[r] \in WriteSteps \ ConflictSteps
    BY <1>3 DEF WriteMetadata, WriteSteps, ConflictSteps
  <2>2. /\ metadata' = [metadata EXCEPT ![job[r].dest] = job[r].entry] /\ UNCHANGED conflictMeta
        /\ \A q \in Request \ {r} : job'[q] = job[q]
    BY <1>3 DEF WriteMetadata, Finish
  <2>3. JobOK(r) /\ ServeOK(r) /\ UploadOK(r) /\ job[r].path \in Path /\ job[r].entry \in Entry
    BY <1>0, <2>1 DEF JobOK
  <2>4. UNCHANGED Holding
    BY <2>2, HeldStays DEF Holding
  <2>5. CASE job[r].op = "put"
    <3>1. job'[r] = Idle /\ job[r].dest = job[r].path /\ OverItsBase(r)
      BY <1>3, <2>1, <2>3, <2>5 DEF WriteMetadata, Finish, JobOK, UploadOK
    <3>2. Asked(r) = [path |-> job[r].path, version |-> job[r].entry, base |-> job[r].base]
      BY <2>5 DEF Asked
    <3>3. Asked(r) \in Abstract!Ask
      <4>1. job[r].base \in Content \cup {None}
        BY DEF Job
      <4> QED
        BY <2>3, <3>2, <4>1 DEF Abstract!Ask, Abstract!Version, Entry
    <3>4. Asked(r) # None /\ Asked(r).path = job[r].path /\ Asked(r).version = job[r].entry /\ Asked(r).base = job[r].base
      BY <3>2, <3>3 DEF AbstractNone
    <3>5. Asked(r)' = None
      BY <3>1 DEF Asked, Idle
    <3>6. Asks' = [Asks EXCEPT ![r] = None]
      BY <2>2, <3>5, OthersAsk, AskedOne
    <3>7. Abstract!UpToDate(Asked(r))
      BY <3>1, <3>4 DEF OverItsBase, Abstract!UpToDate
    <3>8. Abstract!Accept(r)
      BY <2>2, <2>4, <3>1, <3>4, <3>6, <3>7 DEF Abstract!Accept, Asks, Holding
    <3> QED
      BY <3>8 DEF Abstract!Next
  <2>6. CASE job[r].op # "put"
    <3> DEFINE id == job[r].id
    <3>1. /\ UNCHANGED job /\ id \in Request /\ conflictMeta[id] \in Conflict /\ ~conflictMeta[id].resolved
          /\ job[r].op \in Resolving
      BY <1>3, <2>1, <2>3, <2>6 DEF WriteMetadata, JobOK, ServeOK
    <3>2. /\ job[r].entry = conflictMeta[id].local
          /\ job[r].dest = ResolveDest(conflictMeta[id], job[r].op)
      BY <2>1, <2>3, <2>6 DEF ServeOK
    <3>3. Held(id) = [path |-> conflictMeta[id].path, version |-> conflictMeta[id].local]
      BY <3>1, NoneAssumption DEF Held
    <3>4. Held(id) \in Abstract!Held
      BY <3>1, <3>3, PathAssumption DEF Abstract!Held, Abstract!Version, Conflict, Entry
    <3>5. Held(id) # None /\ Held(id).path = conflictMeta[id].path /\ Held(id).version = conflictMeta[id].local
      BY <3>3, <3>4 DEF AbstractNone
    <3>6. job[r].dest \in {Held(id).path, KeepBothName[Held(id).path][Held(id).version.device]}
      BY <3>2, <3>5 DEF ResolveDest
    <3>7. UNCHANGED Asks
      BY <3>1, AskedStays
    <3>8. metadata' = [metadata EXCEPT ![job[r].dest] = Held(id).version]
      BY <2>2, <3>2, <3>5
    <3>9. Abstract!Promote(id, job[r].dest)
      BY <2>4, <3>1, <3>5, <3>6, <3>7, <3>8 DEF Abstract!Promote, Asks, Holding
    <3>10. job[r].dest \in Path /\ id \in Request
      BY <1>0, <2>1, <3>1
    <3> QED
      BY <3>9, <3>10 DEF Abstract!Next
  <2> QED
    BY <2>5, <2>6
\* A conflict is closed, unless it was before.
<1>4. ASSUME NEW r \in Request, MarkResolved(r) PROVE Abstract!Next \/ UNCHANGED Abstract!vars
  <2>1. pc[r] = "markResolved" /\ pc[r] \in WriteSteps /\ pc[r] \in ResolveSteps
    BY <1>4 DEF MarkResolved, WriteSteps, ResolveSteps
  <2>3. PICK id \in Request : id = job[r].id /\ conflictMeta[id] \in Conflict
    BY <1>0, <2>1 DEF JobOK
  <2>2. UNCHANGED <<metadata, job>> /\ conflictMeta' = [conflictMeta EXCEPT ![id].resolved = TRUE]
    BY <1>4, <2>3 DEF MarkResolved
  <2>4. UNCHANGED Asks /\ \A q \in Request : Asked(q)' = Asked(q)
    BY <2>2, AskedStays
  <2>5. conflictMeta'[id].resolved /\ \A o \in Request \ {id} : conflictMeta'[o] = conflictMeta[o]
    BY <2>2, <2>3 DEF Conflict
  <2>6. Held(id)' = None /\ \A o \in Request \ {id} : Held(o)' = Held(o)
    BY <2>5 DEF Held
  <2>7. Holding' = [Holding EXCEPT ![id] = None]
    BY <2>3, <2>6, HeldOne
  <2>8. CASE Held(id) # None
    <3>1. Abstract!Close(id)
      BY <2>2, <2>3, <2>4, <2>7, <2>8 DEF Abstract!Close, Asks, Holding
    <3> QED
      BY <2>3, <3>1 DEF Abstract!Next
  <2>9. CASE Held(id) = None
    BY <2>2, <2>4, <2>6, <2>9, Hidden
  <2> QED
    BY <2>8, <2>9
\* An upload fails; a resolution that ends early shows nothing.
<1>5. ASSUME NEW r \in Request, RotatePanic(r) \/ OpenMissing(r) \/ Fail(r) \/ RemoveCandidate(r)
      PROVE  Abstract!Next \/ UNCHANGED Abstract!vars
  <2>1. UNCHANGED <<metadata, conflictMeta>> /\ job' = [job EXCEPT ![r] = Idle] /\ pc[r] \in WriteSteps
    BY <1>5 DEF RotatePanic, OpenMissing, Fail, RemoveCandidate, Finish, ReadsBody, disk,
        WriteSteps, ConflictSteps, BackupSteps, ResolveSteps
  <2>2. /\ \A q \in Request \ {r} : Asked(q)' = Asked(q)
        /\ \A id \in Request : Held(id)' = Held(id)
    BY <2>1, OthersAsk, HeldStays
  <2>3. Asked(r)' = None
    BY <2>1 DEF Asked, Idle
  <2>4. CASE Asked(r) # None
    <3>1. Asks' = [Asks EXCEPT ![r] = None] /\ UNCHANGED Holding
      BY <2>2, <2>3, AskedOne DEF Holding
    <3>2. Abstract!Forget(r)
      BY <2>1, <2>4, <3>1 DEF Abstract!Forget, Asks, Holding
    <3> QED
      BY <3>2 DEF Abstract!Next
  <2>5. CASE Asked(r) = None
    BY <2>1, <2>2, <2>3, <2>5, Hidden
  <2> QED
    BY <2>4, <2>5
\* The rest is hidden.
<1>6. ASSUME NEW r \in Request, CreateBackup(r) \/ ListBackups(r) \/ RotateMeta(r)
      PROVE  UNCHANGED Abstract!vars
  <2>1. UNCHANGED <<metadata, conflictMeta>> /\ \A q \in Request \ {r} : job'[q] = job[q]
    BY <1>6 DEF CreateBackup, ListBackups, RotateMeta, disk
  <2>2. \/ job' = [job EXCEPT ![r] = [job[r] EXCEPT !.stamp = BackupLabel]]
        \/ job' = [job EXCEPT ![r] = [job[r] EXCEPT !.listed = Stamps(job[r].path)]]
        \/ job' = job
        \/ \E s : job' = [job EXCEPT ![r] = [job[r] EXCEPT !.listed = @ \ {s}]]
    BY <1>6 DEF CreateBackup, ListBackups, RotateMeta
  <2>3. /\ job'[r].op = job[r].op /\ job'[r].path = job[r].path
        /\ job'[r].entry = job[r].entry /\ job'[r].base = job[r].base
    BY <2>2 DEF Job
  <2>4. \A q \in Request : Asked(q)' = Asked(q)
    BY <2>1, <2>3 DEF Asked
  <2> QED
    BY <2>1, <2>4, HeldStays, Hidden
<1>7. ASSUME NEW r \in Request,
             \/ WriteConflictFile(r) \/ WriteBackupMeta(r) \/ RotateFile(r) \/ RotateDone(r) \/ WriteCanonical(r)
             \/ RefuseResolve(r) \/ Tick \/ UNCHANGED vars
      PROVE  UNCHANGED Abstract!vars
  <2>1. UNCHANGED <<metadata, conflictMeta, job>>
    BY <1>7 DEF WriteConflictFile, WriteBackupMeta, RotateFile, RotateDone, WriteCanonical, RefuseResolve,
        Tick, vars, disk
  <2> QED
    BY <2>1, AskedStays, HeldStays, Hidden
<1>8. ASSUME NEW r \in Request, BeginResolve(r) \/ BeginRead(r) \/ BeginManifest(r)
      PROVE  UNCHANGED Abstract!vars
  <2>1. UNCHANGED <<metadata, conflictMeta>> /\ pc[r] = "new"
    BY <1>8 DEF BeginResolve, BeginRead, BeginManifest, disk
  <2>2. \A q \in Request \ {r} : job'[q] = job[q]
    BY <1>8 DEF BeginResolve, BeginRead, BeginManifest
  <2>3. job[r].op # "put"
    BY <2>1 DEF ServeInv, ServeOK
  <2>4. job'[r].op # "put"
    <3>1. CASE BeginResolve(r)
      BY <3>1 DEF BeginResolve, ResolveJob, Idle, Resolving
    <3>2. CASE BeginRead(r)
      <4>1. PICK p \in ClientPath :
                \/ job' = job
                \/ job' = [job EXCEPT ![r] = [Idle EXCEPT !.op = "get", !.path = p, !.body = canonical[p]]]
        BY <3>2 DEF BeginRead
      <4>2. [Idle EXCEPT !.op = "get", !.path = p, !.body = canonical[p]].op = "get"
        BY DEF Idle
      <4> QED
        BY <2>3, <4>1, <4>2
    <3>3. CASE BeginManifest(r)
      BY <3>3 DEF BeginManifest, Idle
    <3> QED
      BY <1>8, <3>1, <3>2, <3>3
  <2>5. \A q \in Request : Asked(q)' = Asked(q)
    BY <2>2, <2>3, <2>4 DEF Asked
  <2> QED
    BY <2>1, <2>5, HeldStays, Hidden
<1>9. ASSUME NEW r \in Request, ReadEntry(r) \/ WalkOne(r) \/ WalkDone(r)
      PROVE  UNCHANGED Abstract!vars
  <2>1. /\ UNCHANGED <<metadata, conflictMeta>> /\ pc[r] \in ReadSteps
        /\ \A q \in Request \ {r} : job'[q] = job[q]
    BY <1>9 DEF ReadEntry, WalkOne, WalkDone, Leave, ReadSteps, disk
  <2>2. job[r].op # "put"
    BY <2>1 DEF UploadInv, UploadOK
  <2>3. job'[r].op # "put"
    <3>1. CASE ReadEntry(r) \/ WalkDone(r)
      BY <3>1 DEF ReadEntry, WalkDone, Leave, Idle
    <3>2. CASE WalkOne(r)
      BY <2>2, <3>2 DEF WalkOne, Job
    <3> QED
      BY <1>9, <3>1, <3>2
  <2>4. \A q \in Request : Asked(q)' = Asked(q)
    BY <2>1, <2>2, <2>3 DEF Asked
  <2> QED
    BY <2>1, <2>4, HeldStays, Hidden
<1>10. ~Crash
  BY DEF Crash, Undisturbed
<1>11. CASE Tick \/ UNCHANGED vars
  <2>1. UNCHANGED <<metadata, conflictMeta, job>>
    BY <1>11 DEF Tick, vars, disk
  <2> QED
    BY <2>1, AskedStays, HeldStays, Hidden
<1> QED
  BY <1>1, <1>2, <1>3, <1>4, <1>5, <1>6, <1>7, <1>8, <1>9, <1>10, <1>11 DEF Next, Arrive, Step, Quiet

\* Before the first request SaveStore has its heads and nothing else.
LEMMA RefineInit == ASSUME Init PROVE Abstract!Init
<1>1. \A r \in Request : Asked(r) = None
  BY DEF Init, Idle, Asked
<1>2. \A id \in Request : Held(id) = None
  BY DEF Init, Held
<1>3. metadata \in [Path -> Abstract!Version \cup {None}]
  BY DEF Init, Entry, Abstract!Version
<1> QED
  BY <1>1, <1>2, <1>3 DEF Abstract!Init

\* WriteFile and ResolveConflict implement SaveStore: whatever requests run side
\* by side, clients see a store that does one thing at a time.
THEOREM StoreRefines == ASSUME Undisturbed, AbstractNone PROVE Spec => ImplementsSaveStore
<1>1. Init => Abstract!Init
  BY RefineInit
<1>2. Inductive /\ CandidateInv /\ UploadInv /\ ServeInv /\ [Next]_vars => [Abstract!Next]_(Abstract!vars)
  BY RefineStep
<1> QED
  BY <1>1, <1>2, ServeCorrect, PTL DEF Spec, ImplementsSaveStore, Abstract!Spec
==============================================================================
