------------------------------ MODULE Storage ------------------------------
(***************************************************************************)
(* The save store of the server: internal/server/storage.go with the       *)
(* request handlers of internal/server/handlers.go that call it.           *)
(*                                                                         *)
(* Every HTTP request runs in a goroutine of its own; storage.go puts them *)
(* in order with one RWMutex.  A request here is one-shot: it arrives,     *)
(* takes the lock, walks through the file operations of its handler one at *)
(* a time, and ends in an outcome.  One step is one file operation that is *)
(* atomic on disk (a rename or a remove), so a crash can fall between any  *)
(* two of them.  The files on disk survive a crash; locks and goroutines   *)
(* do not.                                                                 *)
(*                                                                         *)
(* One emulator is modelled.  A file's content stands for itself and for   *)
(* its SHA-256.  A conflict is identified by the request that raised it:   *)
(* its id carries a nanosecond timestamp taken under the lock.             *)
(***************************************************************************)
EXTENDS Integers, FiniteSets

CONSTANTS
    Request,        \* requests, one goroutine each; also the ids of conflicts
    Path,           \* relative file paths below canonical/<emulator>
    ClientPath,     \* the paths clients upload
    Content,        \* file contents, and so their hashes
    Device,         \* device ids
    Second,         \* readings of the clock that labels backups
    MaxBackups,     \* EMUSYNC_MAX_BACKUPS, any integer strconv.Atoi accepts
    KeepBothName,   \* the name keep-both stores a candidate under
    ValidIdPath,    \* paths whose conflict ids satisfy ValidateName
    Fault,          \* the faults the environment may cause
    None

ASSUME PathAssumption == ClientPath \subseteq Path /\ ValidIdPath \subseteq Path
ASSUME SecondAssumption == Second \subseteq Nat /\ IsFiniteSet(Second)
ASSUME MaxBackupsAssumption == MaxBackups \in Int
ASSUME KeepBothAssumption ==
    /\ KeepBothName \in [ClientPath -> [Device -> Path]]
    /\ \A p \in ClientPath, d \in Device : KeepBothName[p][d] # p
ASSUME FaultAssumption == Fault \subseteq {"crash", "io", "disconnect", "mismatch"}

Entry == [sha : Content, device : Device]
Conflict == [path : ClientPath, local : Entry, remote : Entry, resolved : BOOLEAN]

ASSUME NoneAssumption == None \notin Request \cup Path \cup Content \cup Second \cup Entry \cup Conflict

Resolving == {"local", "remote", "keep-both"}
Writing == {"put"} \cup Resolving
Reading == {"get", "manifest"}

\* What one goroutine remembers between its steps.
Job == [op     : Writing \cup Reading \cup {"none"},
        path   : Path \cup {None},
        dest   : Path \cup {None},          \* file it is going to replace
        body   : Content \cup {None},       \* request body, or the file it opened
        entry  : Entry \cup {None},         \* metadata it is going to write
        base   : Content \cup {None},       \* X-Base-Hash, None when empty
        old    : Entry \cup {None},         \* metadata it read: `existing`
        id     : Request \cup {None},       \* conflict it resolves
        stamp  : Second \cup {None},        \* label of the backup it makes
        listed : SUBSET Second,             \* .bak files left in rotateBackups
        todo   : SUBSET Path,               \* metadata files Walk has yet to visit
        view   : [Path -> Entry \cup {None}]]

Idle == [op |-> "none", path |-> None, dest |-> None, body |-> None,
         entry |-> None, base |-> None, old |-> None, id |-> None,
         stamp |-> None, listed |-> {}, todo |-> {},
         view |-> [p \in Path |-> None]]

ConflictSteps == {"writeConflictFile", "saveConflict"}
BackupSteps == {"createBackup", "writeBackupMeta", "listBackups", "rotateFile", "rotateMeta"}
ResolveSteps == {"markResolved", "removeCandidate"}
WriteSteps == ConflictSteps \cup BackupSteps \cup {"writeCanonical", "writeMetadata"} \cup ResolveSteps
ReadSteps == {"readEntry", "walk"}
Outcomes == {"ok", "conflict", "mismatch", "error", "rejected", "notFound", "lost"}

VARIABLES
    \* on disk
    canonical,      \* canonical/<emulator>/<path>
    metadata,       \* metadata/<emulator>/<path>.json
    bak,            \* backups/<emulator>/<path>.versions/<second>.bak
    bakMeta,        \* backups/<emulator>/<path>.versions/<second>.json
    conflictMeta,   \* conflicts/meta/<id>.json
    conflictFile,   \* conflicts/files/<id>
    \* in the process
    now,            \* the clock
    writer,         \* holder of mu.Lock
    readers,        \* holders of mu.RLock
    pc,             \* next file operation of each request, or its outcome
    job

disk == <<canonical, metadata, bak, bakMeta, conflictMeta, conflictFile>>
vars == <<canonical, metadata, bak, bakMeta, conflictMeta, conflictFile,
          now, writer, readers, pc, job>>

TypeOK ==
    /\ canonical \in [Path -> Content \cup {None}]
    /\ metadata \in [Path -> Entry \cup {None}]
    /\ bak \in [Path -> [Second -> Content \cup {None}]]
    /\ bakMeta \in [Path -> [Second -> Entry \cup {None}]]
    /\ conflictMeta \in [Request -> Conflict \cup {None}]
    /\ conflictFile \in [Request -> Content \cup {None}]
    /\ now \in Second
    /\ writer \in Request \cup {None}
    /\ readers \in SUBSET Request
    /\ pc \in [Request -> {"new"} \cup WriteSteps \cup ReadSteps \cup Outcomes]
    /\ job \in [Request -> Job]

\* A store some earlier, undisturbed run of the server left behind.
Init ==
    /\ metadata \in [Path -> Entry \cup {None}]
    /\ \A p \in Path \ ClientPath : metadata[p] = None
    /\ canonical = [p \in Path |-> IF metadata[p] = None THEN None ELSE metadata[p].sha]
    /\ bak = [p \in Path |-> [s \in Second |-> None]]
    /\ bakMeta = [p \in Path |-> [s \in Second |-> None]]
    /\ conflictMeta = [r \in Request |-> None]
    /\ conflictFile = [r \in Request |-> None]
    /\ now \in {s \in Second : \A t \in Second : s <= t}
    /\ writer = None
    /\ readers = {}
    /\ pc = [r \in Request |-> "new"]
    /\ job = [r \in Request |-> Idle]

-----------------------------------------------------------------------------
(* The lock.  A goroutine that has to wait is one that has not begun.      *)

\* Faulty variants of definitions stand before them under a name that says what
\* they do; no specification uses them.  They show which property notices.
LockNeverWaits == TRUE
LockIgnoresReaders == writer = None
LockFree == writer = None /\ readers = {}
RLockNeverWaits == TRUE
RLockFree == writer = None

Goto(r, step) == pc' = [pc EXCEPT ![r] = step]
Learn(r, j) == job' = [job EXCEPT ![r] = j]

\* The deferred Unlock, and the end of the request.
Finish(r, outcome) ==
    /\ Goto(r, outcome)
    /\ Learn(r, Idle)
    /\ writer' = None

At(r, step) == pc[r] = step

-----------------------------------------------------------------------------
(* WriteFile, from handlePutFile.                                          *)

DivergedNever(existing, base) == FALSE

Diverged(existing, base) == existing # None /\ base # None /\ existing.sha # base

PutStartBacksUpKnown(p, base) ==
    IF Diverged(metadata[p], base) THEN "writeConflictFile"
    ELSE IF metadata[p] # None THEN "createBackup"
    ELSE "writeCanonical"

PutStart(p, base) ==
    IF Diverged(metadata[p], base) THEN "writeConflictFile"
    ELSE IF canonical[p] # None THEN "createBackup"
    ELSE "writeCanonical"

PutJob(p, e, body, base) ==
    [Idle EXCEPT !.op = "put", !.path = p, !.dest = p, !.body = body,
                 !.entry = e, !.base = base, !.old = metadata[p]]

\* Validation, mu.Lock, the metadata read and the decision.  With the fault
\* "mismatch" a body may differ from the hash its client declared.
BeginPut(r) ==
    /\ At(r, "new")
    /\ LockFree
    /\ \E p \in ClientPath, e \in Entry, body \in Content, base \in Content \cup {None} :
        /\ body = e.sha \/ "mismatch" \in Fault
        /\ Goto(r, PutStart(p, base))
        /\ Learn(r, PutJob(p, e, body, base))
    /\ writer' = r
    /\ UNCHANGED <<disk, now, readers>>

VerdictUnchecked(j, outcome) == outcome

\* What handlePutFile answers once WriteFile has returned without an error.
Verdict(j, outcome) == IF j.body = j.entry.sha THEN outcome ELSE "mismatch"

WriteConflictFile(r) ==
    /\ At(r, "writeConflictFile")
    /\ conflictFile' = [conflictFile EXCEPT ![r] = job[r].body]
    /\ Goto(r, "saveConflict")
    /\ UNCHANGED <<canonical, metadata, bak, bakMeta, conflictMeta, now, writer, readers, job>>

SaveConflict(r) ==
    /\ At(r, "saveConflict")
    /\ conflictMeta' = [conflictMeta EXCEPT ![r] =
            [path |-> job[r].path, local |-> job[r].entry,
             remote |-> job[r].old, resolved |-> FALSE]]
    /\ Finish(r, Verdict(job[r], "conflict"))
    /\ UNCHANGED <<canonical, metadata, bak, bakMeta, conflictFile, now, readers>>

-----------------------------------------------------------------------------
(* createBackup and rotateBackups, shared by WriteFile and ResolveConflict. *)

BackupLabelAhead == now + 1
BackupLabel == now

CreateBackup(r) ==
    /\ At(r, "createBackup")
    /\ canonical[job[r].path] # None
    /\ bak' = [bak EXCEPT ![job[r].path][BackupLabel] = canonical[job[r].path]]
    /\ Learn(r, [job[r] EXCEPT !.stamp = BackupLabel])
    /\ Goto(r, IF job[r].old # None THEN "writeBackupMeta" ELSE "listBackups")
    /\ UNCHANGED <<canonical, metadata, bakMeta, conflictMeta, conflictFile, now, writer, readers>>

WriteBackupMeta(r) ==
    /\ At(r, "writeBackupMeta")
    /\ bakMeta' = [bakMeta EXCEPT ![job[r].path][job[r].stamp] = job[r].old]
    /\ Goto(r, "listBackups")
    /\ UNCHANGED <<canonical, metadata, bak, conflictMeta, conflictFile, now, writer, readers, job>>

Stamps(p) == {s \in Second : bak[p][s] # None}

\* Without a listing rotateBackups removes nothing, and nobody is told.
ListBackups(r) ==
    /\ At(r, "listBackups")
    /\ \/ /\ Learn(r, [job[r] EXCEPT !.listed = Stamps(job[r].path)])
          /\ Goto(r, "rotateFile")
       \/ "io" \in Fault /\ Goto(r, "writeCanonical") /\ UNCHANGED job
    /\ UNCHANGED <<disk, now, writer, readers>>

OverLimit(S) == Cardinality(S) > MaxBackups

NewestFirst(S) == {s \in S : \A t \in S : t <= s}

Oldest(S) == {s \in S : \A t \in S : s <= t}

\* os.Remove in rotateBackups: its error is ignored.
Removed(f, p, s) == {[f EXCEPT ![p][s] = None]} \cup (IF "io" \in Fault THEN {f} ELSE {})

RotateFile(r) ==
    /\ At(r, "rotateFile")
    /\ OverLimit(job[r].listed)
    /\ \E s \in Oldest(job[r].listed) : bak' \in Removed(bak, job[r].path, s)
    /\ Goto(r, "rotateMeta")
    /\ UNCHANGED <<canonical, metadata, bakMeta, conflictMeta, conflictFile, now, writer, readers, job>>

RotateMetaForgotten(r) ==
    /\ At(r, "rotateMeta")
    /\ \E s \in Oldest(job[r].listed) : Learn(r, [job[r] EXCEPT !.listed = @ \ {s}])
    /\ Goto(r, "rotateFile")
    /\ UNCHANGED <<disk, now, writer, readers>>

RotateMetaAgain(r) ==
    /\ At(r, "rotateMeta")
    /\ \E s \in Oldest(job[r].listed) : bakMeta' \in Removed(bakMeta, job[r].path, s)
    /\ Goto(r, "rotateFile")
    /\ UNCHANGED <<canonical, metadata, bak, conflictMeta, conflictFile, now, writer, readers, job>>

RotateMeta(r) ==
    /\ At(r, "rotateMeta")
    /\ \E s \in Oldest(job[r].listed) :
        /\ bakMeta' \in Removed(bakMeta, job[r].path, s)
        /\ Learn(r, [job[r] EXCEPT !.listed = @ \ {s}])
    /\ Goto(r, "rotateFile")
    /\ UNCHANGED <<canonical, metadata, bak, conflictMeta, conflictFile, now, writer, readers>>

\* `bakFiles[0]` of an empty slice: the limit was negative.  net/http recovers
\* the panic and drops the connection; the deferred Unlock runs.
RotatePanic(r) ==
    /\ At(r, "rotateFile")
    /\ job[r].listed = {}
    /\ OverLimit({})
    /\ Finish(r, "lost")
    /\ UNCHANGED <<disk, now, readers>>

RotateDone(r) ==
    /\ At(r, "rotateFile")
    /\ ~OverLimit(job[r].listed)
    /\ Goto(r, "writeCanonical")
    /\ UNCHANGED <<disk, now, writer, readers, job>>

-----------------------------------------------------------------------------
(* The commit of WriteFile and of ResolveConflict: file, then metadata.    *)

\* What the step copies: the request body, or the candidate it has to open.
Source(r) == IF job[r].op = "put" THEN job[r].body ELSE conflictFile[job[r].id]

WriteCanonical(r) ==
    /\ At(r, "writeCanonical")
    /\ Source(r) # None
    /\ canonical' = [canonical EXCEPT ![job[r].dest] = Source(r)]
    /\ Goto(r, "writeMetadata")
    /\ UNCHANGED <<metadata, bak, bakMeta, conflictMeta, conflictFile, now, writer, readers, job>>

\* os.Open of the candidate fails: the conflict was resolved before.
OpenMissing(r) ==
    /\ At(r, "writeCanonical")
    /\ Source(r) = None
    /\ Finish(r, "error")
    /\ UNCHANGED <<disk, now, readers>>

WriteMetadata(r) ==
    /\ At(r, "writeMetadata")
    /\ metadata' = [metadata EXCEPT ![job[r].dest] = job[r].entry]
    /\ IF job[r].op = "put"
       THEN Finish(r, Verdict(job[r], "ok"))
       ELSE Goto(r, "markResolved") /\ UNCHANGED <<writer, job>>
    /\ UNCHANGED <<canonical, bak, bakMeta, conflictMeta, conflictFile, now, readers>>

-----------------------------------------------------------------------------
(* ResolveConflict, from handleResolveConflict.                            *)

ResolveStart(c, choice) ==
    CASE choice = "local" -> IF metadata[c.path] # None THEN "createBackup" ELSE "writeCanonical"
      [] choice = "keep-both" -> "writeCanonical"
      [] choice = "remote" -> "markResolved"

ResolveDest(c, choice) ==
    IF choice = "keep-both" THEN KeepBothName[c.path][c.local.device] ELSE c.path

ResolveJobSwapped(id, c, choice) ==
    [Idle EXCEPT !.op = choice, !.path = c.path, !.dest = ResolveDest(c, choice),
                 !.entry = c.remote, !.old = metadata[c.path], !.id = id]

ResolveJob(id, c, choice) ==
    [Idle EXCEPT !.op = choice, !.path = c.path, !.dest = ResolveDest(c, choice),
                 !.entry = c.local, !.old = metadata[c.path], !.id = id]

\* ValidateName on the id: the id embeds the path of the file.
ValidId(id) == conflictMeta[id].path \in ValidIdPath

\* The resolved flag of the loaded conflict is not looked at.
BeginResolve(r) ==
    /\ At(r, "new")
    /\ LockFree
    /\ \E id \in Request, choice \in Resolving :
        /\ conflictMeta[id] # None
        /\ ValidId(id)
        /\ Goto(r, ResolveStart(conflictMeta[id], choice))
        /\ Learn(r, ResolveJob(id, conflictMeta[id], choice))
    /\ writer' = r
    /\ UNCHANGED <<disk, now, readers>>

RefuseResolve(r) ==
    /\ At(r, "new")
    /\ \E id \in Request :
        \/ conflictMeta[id] = None /\ LockFree /\ Goto(r, "error")
        \/ conflictMeta[id] # None /\ ~ValidId(id) /\ Goto(r, "rejected")
    /\ UNCHANGED <<disk, now, writer, readers, job>>

MarkResolvedForgotten(r) ==
    /\ At(r, "markResolved")
    /\ Goto(r, "removeCandidate")
    /\ UNCHANGED <<disk, now, writer, readers, job>>

MarkResolved(r) ==
    /\ At(r, "markResolved")
    /\ conflictMeta' = [conflictMeta EXCEPT ![job[r].id].resolved = TRUE]
    /\ Goto(r, "removeCandidate")
    /\ UNCHANGED <<canonical, metadata, bak, bakMeta, conflictFile, now, writer, readers, job>>

RemoveCandidateForgotten(r) ==
    /\ At(r, "removeCandidate")
    /\ Finish(r, "ok")
    /\ UNCHANGED <<disk, now, readers>>

\* A failed remove is only logged.
RemoveCandidate(r) ==
    /\ At(r, "removeCandidate")
    /\ \/ conflictFile' = [conflictFile EXCEPT ![job[r].id] = None]
       \/ "io" \in Fault /\ UNCHANGED conflictFile
    /\ Finish(r, "ok")
    /\ UNCHANGED <<canonical, metadata, bak, bakMeta, conflictMeta, now, readers>>

-----------------------------------------------------------------------------
(* ReadFile and GetManifest, under the read lock.                          *)

BeginRead(r) ==
    /\ At(r, "new")
    /\ RLockFree
    /\ \E p \in ClientPath :
        IF canonical[p] = None
        THEN Goto(r, "notFound") /\ UNCHANGED <<readers, job>>
        ELSE /\ Goto(r, "readEntry")
             /\ Learn(r, [Idle EXCEPT !.op = "get", !.path = p, !.body = canonical[p]])
             /\ readers' = readers \cup {r}
    /\ UNCHANGED <<disk, now, writer>>

Leave(r, outcome) ==
    /\ Goto(r, outcome)
    /\ Learn(r, Idle)
    /\ readers' = readers \ {r}

\* The answer is the opened file under the hash of the metadata read here.
ReadEntry(r) ==
    /\ At(r, "readEntry")
    /\ Leave(r, IF metadata[job[r].path] = None THEN "notFound" ELSE "ok")
    /\ UNCHANGED <<disk, now, writer>>

BeginManifest(r) ==
    /\ At(r, "new")
    /\ RLockFree
    /\ Learn(r, [Idle EXCEPT !.op = "manifest", !.todo = {p \in Path : metadata[p] # None}])
    /\ Goto(r, "walk")
    /\ readers' = readers \cup {r}
    /\ UNCHANGED <<disk, now, writer>>

WalkOne(r) ==
    /\ At(r, "walk")
    /\ \E p \in job[r].todo :
        Learn(r, [job[r] EXCEPT !.todo = @ \ {p}, !.view[p] = metadata[p]])
    /\ UNCHANGED <<disk, now, writer, readers, pc>>

WalkDone(r) ==
    /\ At(r, "walk")
    /\ job[r].todo = {}
    /\ Leave(r, "ok")
    /\ UNCHANGED <<disk, now, writer>>

-----------------------------------------------------------------------------
(* The environment.                                                        *)

Tick ==
    /\ now + 1 \in Second
    /\ now' = now + 1
    /\ UNCHANGED <<disk, writer, readers, pc, job>>

\* Steps that read the request body and so end when the client goes away or
\* ReadTimeout expires.
ReadsBody(r) == job[r].op = "put" /\ pc[r] \in {"writeConflictFile", "writeCanonical"}

\* An error of a file operation, other than those storage.go ignores, is
\* returned at once: the steps already taken stay taken.
Fail(r) ==
    /\ \/ "io" \in Fault /\ pc[r] \in WriteSteps \ {"listBackups", "rotateFile", "rotateMeta", "removeCandidate"}
       \/ "disconnect" \in Fault /\ ReadsBody(r)
    /\ Finish(r, "error")
    /\ UNCHANGED <<disk, now, readers>>

\* The process dies and is started again on the same data directory.  SIGTERM
\* comes to the same: Run returns as soon as Shutdown closes the listener.
Crash ==
    /\ "crash" \in Fault
    /\ \E r \in Request : pc[r] \in WriteSteps \cup ReadSteps
    /\ pc' = [r \in Request |-> IF pc[r] \in WriteSteps \cup ReadSteps THEN "lost" ELSE pc[r]]
    /\ job' = [r \in Request |-> Idle]
    /\ writer' = None
    /\ readers' = {}
    /\ UNCHANGED <<disk, now>>

-----------------------------------------------------------------------------
Arrive(r) == BeginPut(r) \/ BeginResolve(r) \/ RefuseResolve(r) \/ BeginRead(r) \/ BeginManifest(r)

Step(r) ==
    \/ WriteConflictFile(r) \/ SaveConflict(r)
    \/ CreateBackup(r) \/ WriteBackupMeta(r) \/ ListBackups(r)
    \/ RotateFile(r) \/ RotateMeta(r) \/ RotatePanic(r) \/ RotateDone(r)
    \/ WriteCanonical(r) \/ OpenMissing(r) \/ WriteMetadata(r)
    \/ MarkResolved(r) \/ RemoveCandidate(r)
    \/ ReadEntry(r) \/ WalkOne(r) \/ WalkDone(r)

\* All requests have been answered.
Quiet == (\A r \in Request : pc[r] \in Outcomes) /\ UNCHANGED vars

Next == Tick \/ Crash \/ Quiet \/ \E r \in Request : Arrive(r) \/ Step(r) \/ Fail(r)

Spec == Init /\ [][Next]_vars

\* A goroutine that has the lock is scheduled, and its body arrives or its
\* connection fails within ReadTimeout.  Nothing makes requests arrive.
FairSpec == Spec /\ \A r \in Request : WF_vars(Step(r))

-----------------------------------------------------------------------------
(* Safety.                                                                 *)

\* Exactly the goroutines between their Lock and Unlock hold the lock, and a
\* writer holds it alone.
LockDiscipline ==
    /\ \A r \in Request : writer = r <=> pc[r] \in WriteSteps
    /\ readers = {r \in Request : pc[r] \in ReadSteps}
    /\ writer # None => readers = {}

\* An upload that WriteFile accepts replaces the version its client based it
\* on, at the moment the new metadata is written and not only when the base
\* hash was compared.
AcceptedOverItsBase ==
    [][\A r \in Request :
        job[r].op = "put" /\ metadata' # metadata /\ writer = r =>
            \/ job[r].base = None
            \/ metadata[job[r].path] = None
            \/ metadata[job[r].path].sha = job[r].base]_vars

Backups(p) == {bak[p][s] : s \in Stamps(p)}

\* A canonical file that WriteFile, or ResolveConflict with choice local,
\* replaces by other content is among the backups of its path when it goes,
\* whatever crashed or failed before.
DisplacedIsBackedUp ==
    [][MaxBackups # 0 =>
        \A p \in Path :
            canonical[p] \notin {None, canonical'[p]} =>
                \/ canonical[p] \in Backups(p)
                \/ \E r \in Request : writer = r /\ job[r].op = "keep-both"]_vars

\* An upload answered with "ok" is on disk, file and metadata, when the answer
\* goes out: also one that overwrites what a crash left half written.
AnsweredOkIsStored ==
    [][\A r \in Request :
        job[r].op = "put" /\ ~At(r, "ok") /\ pc'[r] = "ok" =>
            /\ metadata'[job[r].path] = job[r].entry
            /\ canonical'[job[r].path] = job[r].entry.sha]_vars

\* A conflict that ListConflicts shows has its candidate on disk, so the user
\* can still choose it, whatever crashed or failed.
OpenConflictHasCandidate ==
    \A id \in Request :
        conflictMeta[id] # None /\ ~conflictMeta[id].resolved =>
            /\ conflictFile[id] # None
            /\ "mismatch" \notin Fault => conflictFile[id] = conflictMeta[id].local.sha

\* When no writer is under way every file has metadata, and the metadata names
\* the file's hash: what GetManifest tells is what ReadFile serves.
StoreConsistent ==
    writer = None => \A p \in Path :
        canonical[p] = IF metadata[p] = None THEN None ELSE metadata[p].sha

\* When no writer is under way the versions GetHistory lists are exactly the
\* backups that exist, each under the hash of its content.
HistoryIsRestorable ==
    writer = None => \A p \in Path, s \in Second :
        bak[p][s] = IF bakMeta[p][s] = None THEN None ELSE bakMeta[p][s].sha

\* rotateBackups only ever removes a version older than all it leaves, and
\* when it is done no more than MaxBackups versions remain.
RotationDropsOldest ==
    [][\A p \in Path :
        /\ \A s \in Stamps(p) : bak'[p][s] = None => \A t \in Stamps(p) : s <= t
        /\ \A r \in Request : RotateDone(r) /\ job[r].path = p => ~OverLimit(Stamps(p))]_vars

\* The content of a download and the hash it is sent under belong together,
\* although they are read from two files.
DownloadIsConsistent ==
    [][\A r \in Request :
        At(r, "readEntry") /\ pc'[r] = "ok" => metadata[job[r].path].sha = job[r].body]_vars

\* A manifest is the metadata of one moment, although it is read file by file
\* while other requests arrive.
ManifestIsSnapshot ==
    [][\A r \in Request : At(r, "walk") /\ pc'[r] = "ok" => job[r].view = metadata]_vars

\* A conflict is settled once: a later ResolveConflict of the same id, a retry or
\* a second user, changes no save, no entry of the manifest and no conflict,
\* whatever its choice.  It may make a backup, and rotate, before it finds that
\* the candidate is gone.
ResolutionIsFinal ==
    [][\A r \in Request :
        writer = r /\ job[r].op \in Resolving /\ conflictMeta[job[r].id].resolved =>
            UNCHANGED <<canonical, metadata, conflictMeta>>]_vars

\* Liveness: every request that got the lock is answered, and so the lock is
\* always free again for those that wait.
EveryRequestIsAnswered ==
    \A r \in Request : pc[r] \in WriteSteps \cup ReadSteps ~> pc[r] \in Outcomes

\* The store implements SaveStore: the metadata is the head, and an upload
\* takes effect in the one step that writes its metadata or its conflict.
Asked(r) == IF job[r].op = "put"
            THEN [path |-> job[r].path, version |-> job[r].entry, base |-> job[r].base]
            ELSE None
Held(id) == IF conflictMeta[id] # None /\ ~conflictMeta[id].resolved
            THEN [path |-> conflictMeta[id].path, version |-> conflictMeta[id].local]
            ELSE None
Abstract == INSTANCE SaveStore WITH
    head <- metadata,
    asked <- [r \in Request |-> Asked(r)],
    held <- [id \in Request |-> Held(id)]
ImplementsSaveStore == Abstract!Spec

-----------------------------------------------------------------------------
(* Statements of the documents that the code does not keep.                *)

Stored(c) ==
    \/ \E p \in Path : canonical[p] = c \/ c \in Backups(p)
    \/ \E id \in Request : conflictFile[id] = c

\* docs/prd-emulator-save-sync.md:20 "Maintain a versioned backup history of all
\* saves so no data is ever permanently lost": what the store once had, as a
\* canonical file, a backup or a candidate, goes only when rotation drops it.
NothingIsLost ==
    [][\A c \in Content : Stored(c) =>
        Stored(c)' \/ \E r \in Request : RotateFile(r)]_vars
=============================================================================
