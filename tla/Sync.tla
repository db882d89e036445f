-------------------------------- MODULE Sync --------------------------------
(***************************************************************************)
(* Devices that share saves through one server: internal/client/syncer.go  *)
(* as `emusync watch`, `push` and `pull` run it (cmd/), against the store  *)
(* of Storage seen through SaveStore, where a request takes effect in one  *)
(* step.                                                                   *)
(*                                                                         *)
(* A Syncer is one process on one device: it loads the state file when it  *)
(* starts, runs one operation at a time (Syncer.mu), and writes the state  *)
(* file at the end of each.  Two processes of one device share the save    *)
(* directory and the state file, not the mutex.  The emulator is outside   *)
(* the program: it keeps a save in memory from launch to exit and writes   *)
(* new versions of what it has in memory.                                  *)
(*                                                                         *)
(* A version stands for its content and its hash.  Every write of an       *)
(* emulator makes a fresh one, and includes[v] remembers what v was made   *)
(* from: a version that includes another supersedes it.                    *)
(***************************************************************************)
EXTENDS Naturals

CONSTANTS
    Device,
    Syncer,         \* processes
    Home,           \* the device each process runs on
    File,           \* server keys of one emulator's save files
    Copied,         \* files some devices have from the start, and what is in them
    LastCopy,       \* the last of the versions they have there
    MaxVersion,     \* bound on the versions ever written
    KeepBothName,   \* the file a keep-both resolution stores a file's candidate
                    \* from a device as
    TempName,       \* the file a download of a file is written to first
    Hidden,         \* files with a dot in front, which a pull leaves out
    Torn,           \* the content of a download that was killed
    Overlap,        \* may an emulator run while its device syncs?
    Fault,          \* "offline", "lostReply", "unsaved", "kill"
    None

Version == 0 .. MaxVersion \cup {Torn}
Leftover == {TempName[f] : f \in DOMAIN TempName}

ASSUME HomeAssumption == Home \in [Syncer -> Device]
ASSUME CopiedAssumption == \E S \in SUBSET File : Copied \in [S -> 0 .. LastCopy]
ASSUME BoundAssumption == LastCopy \in Nat /\ MaxVersion \in Nat /\ LastCopy <= MaxVersion
ASSUME KeepBothAssumption ==
    \E S \in SUBSET (File \X Device) :
        KeepBothName \in [S -> File] /\ \A x \in S : KeepBothName[x] # x[1]
ASSUME HiddenAssumption == Hidden \subseteq File
ASSUME OverlapAssumption == Overlap \in BOOLEAN
ASSUME FaultAssumption == Fault \subseteq {"offline", "lostReply", "unsaved", "kill"}
ASSUME NoneAssumption == None \notin Version
ASSUME TornAssumption == Torn \notin 0 .. MaxVersion
\* Where leftovers count, each device has one process: two that download one file
\* would write one temporary file.
ASSUME TempAssumption ==
    /\ \E S \in SUBSET File : TempName \in [S -> File \ S]
    /\ Leftover # {} => \A s, t \in Syncer : Home[s] = Home[t] => s = t

Known == Version \cup {None}
Files == [File -> Known]
Nothing == [f \in File |-> None]

\* A conflict: whose candidate, its hash and its content.
Conflict == [file : File, from : Device, sha : Version, body : Version]

VARIABLES
    \* server
    meta,       \* hash in the manifest
    canon,      \* content that is served
    history,    \* contents of the backups, were there no rotation
    conflicts,  \* open conflicts
    \* devices
    local,      \* save directory
    saved,      \* state file: base hashes
    running,    \* is the emulator running?
    memory,     \* what the emulator has loaded
    \* processes
    pc,
    base,       \* base hashes in memory
    hashes,     \* localHashes
    manifest,
    todo,       \* files the loop has yet to visit
    file,       \* the file it is at
    body,       \* the content it is sending or receiving
    clean,      \* no error so far: result.Errors is empty
    \* history variables
    made,       \* versions written so far
    includes,
    blind,      \* files of which something was replaced without being compared:
                \* by an upload that has no base, or by a keep-both
    overwritten,\* contents a keep-both has written over, which makes no backup
    unsent      \* devices with saves that no push without an error has seen

server == <<meta, canon, history, conflicts>>
device == <<local, saved, running, memory>>
process == <<pc, base, hashes, manifest, todo, file, body, clean>>
ghost == <<made, includes, blind, overwritten, unsent>>
vars == <<meta, canon, history, conflicts, local, saved, running, memory,
          pc, base, hashes, manifest, todo, file, body, clean, made, includes, blind, overwritten, unsent>>

Steps == {"down", "idle", "pushManifest", "push", "put", "pullHash", "pull", "place"}

TypeOK ==
    /\ meta \in Files
    /\ canon \in Files
    /\ history \subseteq Version
    /\ conflicts \subseteq Conflict
    /\ local \in [Device -> Files]
    /\ saved \in [Device -> Files]
    /\ running \in [Device -> BOOLEAN]
    /\ memory \in [Device -> Files]
    /\ pc \in [Syncer -> Steps]
    /\ base \in [Syncer -> Files]
    /\ hashes \in [Syncer -> Files]
    /\ manifest \in [Syncer -> Files]
    /\ todo \in [Syncer -> SUBSET File]
    /\ file \in [Syncer -> File \cup {None}]
    /\ body \in [Syncer -> Known]
    /\ clean \in [Syncer -> BOOLEAN]
    /\ made \in 0 .. MaxVersion
    /\ includes \in [Version -> SUBSET Version]
    /\ blind \subseteq File
    /\ overwritten \subseteq Version
    /\ unsent \subseteq Device

\* A new server.  Some devices already have a version of a file, copied there
\* before emusync was set up; nobody has a state file.
Init ==
    /\ meta = Nothing
    /\ canon = Nothing
    /\ history = {}
    /\ conflicts = {}
    /\ local \in {l \in [Device -> [File -> 0 .. LastCopy \cup {None}]] :
                    \A d \in Device, f \in File :
                        l[d][f] # None => f \in DOMAIN Copied /\ l[d][f] = Copied[f]}
    /\ saved = [d \in Device |-> Nothing]
    /\ running = [d \in Device |-> FALSE]
    /\ memory = [d \in Device |-> Nothing]
    /\ pc = [s \in Syncer |-> "down"]
    /\ base = [s \in Syncer |-> Nothing]
    /\ hashes = [s \in Syncer |-> Nothing]
    /\ manifest = [s \in Syncer |-> Nothing]
    /\ todo = [s \in Syncer |-> {}]
    /\ file = [s \in Syncer |-> None]
    /\ body = [s \in Syncer |-> None]
    /\ clean = [s \in Syncer |-> TRUE]
    /\ made = LastCopy
    /\ includes = [v \in Version |-> {}]
    /\ blind = {}
    /\ overwritten = {}
    /\ unsent = {d \in Device : \E f \in File : local[d][f] # None}

-----------------------------------------------------------------------------
(* Processes.                                                              *)

Goto(s, step) == pc' = [pc EXCEPT ![s] = step]
At(s, step) == pc[s] = step
Set(f, s, x) == [f EXCEPT ![s] = x]

\* What an operation leaves behind that nothing reads again.
Reset(s) ==
    /\ hashes' = Set(hashes, s, Nothing)
    /\ manifest' = Set(manifest, s, Nothing)
    /\ todo' = Set(todo, s, {})
    /\ file' = Set(file, s, None)
    /\ body' = Set(body, s, None)
    /\ clean' = Set(clean, s, TRUE)

\* loadState.
Loaded(s) == saved[Home[s]]

\* A command makes its Syncer.
Start(s) ==
    /\ At(s, "down")
    /\ Goto(s, "idle")
    /\ base' = Set(base, s, Loaded(s))
    /\ UNCHANGED <<server, device, hashes, manifest, todo, file, body, clean, ghost>>

\* What a process has in memory goes with it.
Leave(s) ==
    /\ Goto(s, "down")
    /\ base' = Set(base, s, Nothing)
    /\ Reset(s)
    /\ UNCHANGED <<server, saved, running, memory, ghost>>

\* The command is over.
Stop(s) ==
    /\ At(s, "idle")
    /\ Leave(s)
    /\ UNCHANGED local

\* Faulty variants of definitions stand before them under a name that says what
\* they do; no specification uses them.  They show which property notices.
KillInPlace(s) ==
    /\ "kill" \in Fault
    /\ pc[s] \notin {"down", "idle"}
    /\ Leave(s)
    /\ local' = IF At(s, "place") THEN [local EXCEPT ![Home[s]][file[s]] = Torn] ELSE local

\* The process is killed, and the file a download was going to stays, with all
\* of the content or a part of it.
Kill(s) ==
    /\ "kill" \in Fault
    /\ pc[s] \notin {"down", "idle"}
    /\ Leave(s)
    /\ IF At(s, "place") /\ file[s] \in DOMAIN TempName
       THEN \E content \in {body[s], Torn} :
                local' = [local EXCEPT ![Home[s]][TempName[file[s]]] = content]
       ELSE UNCHANGED local

\* setBaseHash.
BaseSet(s, f, hash) == [base EXCEPT ![s][f] = hash]

MaySync(s) == Overlap \/ ~running[Home[s]]

\* The loop is over; saveState writes the whole map this process has.  Its
\* errors are only logged.
SaveState(s) ==
    /\ pc[s] \in {"push", "pull"}
    /\ todo[s] = {}
    /\ \/ saved' = [saved EXCEPT ![Home[s]] = base[s]]
       \/ "unsaved" \in Fault /\ UNCHANGED saved
    /\ unsent' = IF At(s, "push") /\ clean[s] /\ hashes[s] = local[Home[s]]
                 THEN unsent \ {Home[s]} ELSE unsent
    /\ Goto(s, "idle")
    /\ Reset(s)
    /\ UNCHANGED <<server, local, running, memory, base, made, includes, blind, overwritten>>

StopAfterFile(s, loop) ==
    /\ todo' = Set(todo, s, {})
    /\ file' = Set(file, s, None)
    /\ body' = Set(body, s, None)
    /\ Goto(s, loop)

NextFile(s, loop) ==
    /\ todo' = Set(todo, s, todo[s] \ {file[s]})
    /\ file' = Set(file, s, None)
    /\ body' = Set(body, s, None)
    /\ Goto(s, loop)

\* A request for one file gets no answer: the error is noted, the loop goes on.
FileFails(s, loop) ==
    /\ clean' = Set(clean, s, FALSE)
    /\ NextFile(s, loop)

-----------------------------------------------------------------------------
(* SyncAfterExit.                                                          *)

\* HashDirectory, before the manifest is asked for.
BeginPush(s) ==
    /\ At(s, "idle")
    /\ MaySync(s)
    /\ hashes' = Set(hashes, s, local[Home[s]])
    /\ Goto(s, "pushManifest")
    /\ UNCHANGED <<server, device, base, manifest, todo, file, body, clean, ghost>>

\* Files the loop does not skip as unchanged.
ToPush(s) == {f \in File : hashes[s][f] # None /\ hashes[s][f] # meta[f]}

PushManifest(s) ==
    /\ At(s, "pushManifest")
    /\ Goto(s, "push")
    /\ \/ todo' = Set(todo, s, ToPush(s)) /\ UNCHANGED clean
       \/ "offline" \in Fault /\ clean' = Set(clean, s, FALSE) /\ UNCHANGED todo
    /\ UNCHANGED <<server, device, base, hashes, manifest, file, body, ghost>>

\* os.Open: from here on the content is fixed, whatever its hash was.
OpenFile(s) ==
    /\ At(s, "push")
    /\ \E f \in todo[s] :
        /\ file' = Set(file, s, f)
        /\ body' = Set(body, s, local[Home[s]][f])
    /\ Goto(s, "put")
    /\ UNCHANGED <<server, device, base, hashes, manifest, todo, clean, ghost>>

AcceptsAll(f, b) == TRUE
Accepts(f, b) == meta[f] = None \/ b = None \/ b = meta[f]

\* What blind becomes when content goes over f unseen.
Displaced(f, content) ==
    IF canon[f] \in {None, content} THEN blind ELSE blind \cup {f}

\* createBackup, which copies what is canonical.
BackUp(f) == history' = history \cup ({canon[f]} \ {None})

\* The server's side of an upload of d: SaveStore's Accept or Park.
Put(d, f, sha, content, b) ==
    /\ UNCHANGED <<made, includes, overwritten, unsent>>
    /\ blind' = IF b = None THEN Displaced(f, content) ELSE blind
    /\ IF Accepts(f, b)
       THEN /\ meta' = [meta EXCEPT ![f] = sha]
            /\ canon' = [canon EXCEPT ![f] = content]
            /\ BackUp(f)
            /\ UNCHANGED conflicts
       ELSE /\ conflicts' = conflicts \cup
                   {[file |-> f, from |-> d, sha |-> sha, body |-> content]}
            /\ UNCHANGED <<meta, canon, history>>

\* The base hash of an upload that was accepted, and confirmed as such: the
\* server answers 400 to a body that does not have the declared hash.
Confirm(s) ==
    LET f == file[s] IN
    IF Accepts(f, base[s][f]) /\ hashes[s][f] = body[s]
    THEN BaseSet(s, f, hashes[s][f])
    ELSE base

Upload(s) ==
    LET f == file[s] IN
    /\ At(s, "put")
    /\ Put(Home[s], f, hashes[s][f], body[s], base[s][f])
    /\ base' = Confirm(s)
    /\ clean' = Set(clean, s, clean[s] /\ hashes[s][f] = body[s])
    /\ NextFile(s, "push")
    /\ UNCHANGED <<device, hashes, manifest>>

\* The server did its part, the answer got lost; an *os.File is not sent again.
UploadLost(s) ==
    /\ "lostReply" \in Fault
    /\ At(s, "put")
    /\ Put(Home[s], file[s], hashes[s][file[s]], body[s], base[s][file[s]])
    /\ FileFails(s, "push")
    /\ UNCHANGED <<device, base, hashes, manifest>>

UploadFails(s) ==
    /\ "offline" \in Fault
    /\ At(s, "put")
    /\ FileFails(s, "push")
    /\ UNCHANGED <<server, device, base, hashes, manifest, ghost>>

-----------------------------------------------------------------------------
(* SyncBeforeLaunch.                                                       *)

\* What GetManifest returns: hashes of one moment (Storage: ManifestIsSnapshot).
Listed == meta

\* Without a manifest it returns at once, and the state file stays as it was.
BeginPull(s) ==
    /\ At(s, "idle")
    /\ MaySync(s)
    /\ manifest' = Set(manifest, s, Listed)
    /\ Goto(s, "pullHash")
    /\ UNCHANGED <<server, device, base, hashes, todo, file, body, clean, ghost>>

ToPullPresent(s) ==
    {f \in File : local[Home[s]][f] # None /\ manifest[s][f] \notin {None, local[Home[s]][f]}}

ToPull(s) ==
    {f \in File \ Hidden : manifest[s][f] # None /\ local[Home[s]][f] # manifest[s][f]}

PullHash(s) ==
    /\ At(s, "pullHash")
    /\ todo' = Set(todo, s, ToPull(s))
    /\ Goto(s, "pull")
    /\ UNCHANGED <<server, device, base, hashes, manifest, file, body, clean, ghost>>

\* The server sends what is canonical now, not what the manifest listed.
Download(s) ==
    /\ At(s, "pull")
    /\ \E f \in todo[s] :
        /\ file' = Set(file, s, f)
        /\ body' = Set(body, s, canon[f])
    /\ Goto(s, "place")
    /\ UNCHANGED <<server, device, base, hashes, manifest, todo, clean, ghost>>

\* What is at the name of f's temporary file is lost: os.Create empties it.
WithoutTemp(d, f) ==
    [local EXCEPT ![d] = [g \in File |->
        IF f \in DOMAIN TempName /\ g = TempName[f] THEN None ELSE @[g]]]

DownloadFailsRecorded(s) ==
    /\ "offline" \in Fault
    /\ At(s, "place")
    /\ FileFails(s, "pull")
    /\ base' = BaseSet(s, file[s], manifest[s][file[s]])
    /\ UNCHANGED <<server, device, hashes, manifest, ghost>>

\* There was no answer, or it broke off and the temporary file is removed.
DownloadFails(s) ==
    /\ "offline" \in Fault
    /\ At(s, "place")
    /\ FileFails(s, "pull")
    /\ local' \in {local, WithoutTemp(Home[s], file[s])}
    /\ UNCHANGED <<server, saved, running, memory, base, hashes, manifest, ghost>>

\* atomicWriteFile, over whatever is there now.
Written(d, f, content) == [WithoutTemp(d, f) EXCEPT ![d][f] = content]

\* The base hash is the manifest's.
Place(s) ==
    LET f == file[s] IN
    /\ At(s, "place")
    /\ local' = Written(Home[s], f, body[s])
    /\ base' = BaseSet(s, f, manifest[s][f])
    /\ NextFile(s, "pull")
    /\ UNCHANGED <<server, saved, running, memory, hashes, manifest, clean, ghost>>

-----------------------------------------------------------------------------
(* The user at `emusync resolve`, and the emulators.                       *)

\* Whoever chooses a version over another knows both.
Superseding(v, u) ==
    [w \in Version |-> IF w = v \/ v \in includes[w]
                       THEN includes[w] \cup {u} \cup includes[u] ELSE includes[w]]

ResolveLocal(c) ==
    /\ meta' = [meta EXCEPT ![c.file] = c.sha]
    /\ canon' = [canon EXCEPT ![c.file] = c.body]
    /\ BackUp(c.file)
    /\ includes' = Superseding(c.body, canon[c.file])
    /\ UNCHANGED <<blind, overwritten>>

ResolveRemote(c) ==
    /\ includes' = Superseding(canon[c.file], c.body)
    /\ UNCHANGED <<meta, canon, history, blind, overwritten>>

Named(c) == <<c.file, c.from>> \in DOMAIN KeepBothName
Beside(c) == KeepBothName[<<c.file, c.from>>]

KeepBothForgotten(c) ==
    /\ Named(c)
    /\ UNCHANGED <<meta, canon, history, includes, blind, overwritten>>

\* What is at the other name is written over without a backup.
ResolveKeepBoth(c) ==
    /\ Named(c)
    /\ meta' = [meta EXCEPT ![Beside(c)] = c.sha]
    /\ canon' = [canon EXCEPT ![Beside(c)] = c.body]
    /\ blind' = Displaced(Beside(c), c.body)
    /\ overwritten' = overwritten \cup ({canon[Beside(c)]} \ {None})
    /\ UNCHANGED <<history, includes>>

Resolve(c) ==
    /\ ResolveLocal(c) \/ ResolveRemote(c) \/ ResolveKeepBoth(c)
    /\ conflicts' = conflicts \ {c}
    /\ UNCHANGED <<device, process, made, unsent>>

Quiet(d) == \A s \in Syncer : Home[s] = d => pc[s] \in {"down", "idle"}

Launch(d) ==
    /\ ~running[d]
    /\ Overlap \/ Quiet(d)
    /\ running' = [running EXCEPT ![d] = TRUE]
    /\ memory' = [memory EXCEPT ![d] = local[d]]
    /\ UNCHANGED <<server, local, saved, process, ghost>>

WriteSave(d, f) ==
    /\ running[d]
    /\ f \notin Leftover
    /\ made < MaxVersion
    /\ made' = made + 1
    /\ includes' = [includes EXCEPT ![made + 1] =
            IF memory[d][f] = None THEN {}
            ELSE {memory[d][f]} \cup includes[memory[d][f]]]
    /\ local' = [local EXCEPT ![d][f] = made + 1]
    /\ memory' = [memory EXCEPT ![d][f] = made + 1]
    /\ unsent' = unsent \cup {d}
    /\ UNCHANGED <<server, saved, running, process, blind, overwritten>>

Exit(d) ==
    /\ running[d]
    /\ running' = [running EXCEPT ![d] = FALSE]
    /\ memory' = [memory EXCEPT ![d] = Nothing]
    /\ UNCHANGED <<server, local, saved, process, ghost>>

-----------------------------------------------------------------------------
Work(s) ==
    \/ SaveState(s)
    \/ PushManifest(s) \/ OpenFile(s) \/ Upload(s) \/ UploadLost(s) \/ UploadFails(s)
    \/ PullHash(s) \/ Download(s) \/ DownloadFails(s) \/ Place(s)

Next ==
    \/ \E s \in Syncer : Start(s) \/ Stop(s) \/ Kill(s) \/ BeginPush(s) \/ BeginPull(s) \/ Work(s)
    \/ \E c \in conflicts : Resolve(c)
    \/ \E d \in Device : Launch(d) \/ Exit(d) \/ \E f \in File : WriteSave(d, f)

Spec == Init /\ [][Next]_vars
-----------------------------------------------------------------------------
(* Properties.                                                             *)

\* u is v itself or one of the versions v was made from.
Covers(v, u) == u = v \/ u \in includes[v]

\* What the server has: heads, backups, candidates of open conflicts.
Stored == ({canon[f] : f \in File} \ {None}) \cup history \cup {c.body : c \in conflicts}

\* The server has v, or a version that was made knowing v.
Kept(v) == \E w \in Stored : Covers(w, v)

\* It had one that a keep-both has written over.
WrittenOver(v) == \E w \in overwritten : Covers(w, v)

\* The step is s's upload of its file, and the server takes it as canonical.
Replaces(s) ==
    /\ At(s, "put")
    /\ pc'[s] = "push"
    /\ canon[file[s]] # None
    /\ canon'[file[s]] # canon[file[s]]

\* The base hash a device vouches for when it uploads is never ahead of the
\* save it has: the save is that version or was made from it.  The server's
\* conflict test compares nothing but base hashes.
BaseIsBehindSave ==
    \A s \in Syncer, f \in File \ Leftover :
        At(s, "idle") /\ base[s][f] # None /\ f \notin blind =>
            /\ local[Home[s]][f] # None
            /\ Covers(local[Home[s]][f], base[s][f])

\* An upload that names a base, and is accepted over another version, was made
\* from the version it replaces (syncer.go SyncAfterExit, WriteFile's test).
SupersedesWhatItReplaces ==
    [][\A s \in Syncer :
        Replaces(s) /\ base[s][file[s]] # None /\ file[s] \notin blind \cup Leftover =>
            Covers(canon'[file[s]], canon[file[s]])]_vars

\* When the upload loop ends without an error, the server has what every file
\* of the device held when the push began, parked or canonical or superseded,
\* if no keep-both has written over it.
PushedIsStored ==
    \A s \in Syncer :
        At(s, "push") /\ todo[s] = {} /\ clean[s] =>
            \A f \in File : hashes[s][f] # None => Kept(hashes[s][f]) \/ WrittenOver(hashes[s][f])

\* A download replaces no save that a push of the device has sent: the server has
\* it, canonical, parked or backed up, or a version that was made from it, if no
\* keep-both has written over it.
PullKeepsPushedSaves ==
    [][\A s \in Syncer :
        At(s, "place") /\ pc'[s] = "pull" /\ local' # local
        /\ file[s] \notin Leftover /\ Home[s] \notin unsent =>
            \/ local[Home[s]][file[s]] = None
            \/ Kept(local[Home[s]][file[s]])
            \/ WrittenOver(local[Home[s]][file[s]])]_vars

\* No save is ever a part of one, on any device or on the server, though what a
\* killed download leaves behind is itself uploaded and downloaded like a save.
SavesAreWhole ==
    \A f \in File \ Leftover : canon[f] # Torn /\ \A d \in Device : local[d][f] # Torn

\* When the download loop ends without an error, no save of the device is older
\* than the version the manifest listed, though every one of them is fetched
\* after it (SyncBeforeLaunch).
PullCatchesUp ==
    \A s \in Syncer :
        At(s, "pull") /\ todo[s] = {} /\ clean[s] =>
            \A f \in File \ (blind \cup Leftover \cup Hidden) :
                manifest[s][f] # None =>
                    /\ local[Home[s]][f] # None
                    /\ Covers(local[Home[s]][f], manifest[s][f])

-----------------------------------------------------------------------------
(* What the documents say and the code does not do.                        *)

\* docs/prd-emulator-save-sync.md:197 "no silent overwrites when saves have
\* diverged": whatever the base, an upload is canonical only over a version it
\* was made from.
NoSilentOverwrite ==
    [][\A s \in Syncer : Replaces(s) => Covers(canon'[file[s]], canon[file[s]])]_vars

\* syncer.go:140 "pulls latest saves from server": after a pull without an error
\* the device has every file of the manifest, whatever it is called.
EveryFileIsPulled ==
    \A s \in Syncer :
        At(s, "pull") /\ todo[s] = {} /\ clean[s] =>
            \A f \in File : manifest[s][f] # None => local[Home[s]][f] # None

\* docs/prd-emulator-save-sync.md:16 "keeping backups of both versions": what a
\* keep-both writes over is somewhere else on the server.
WrittenOverIsKept == \A v \in overwritten : Kept(v)

\* docs/prd-emulator-save-sync.md:20 "no data is ever permanently lost": a
\* download replaces a save only when the server has it, or a later one.
PullKeepsLocalChanges ==
    [][\A s \in Syncer :
        At(s, "place") /\ pc'[s] = "pull" /\ local' # local =>
            \/ local[Home[s]][file[s]] = None
            \/ Kept(local[Home[s]][file[s]])]_vars
=============================================================================
