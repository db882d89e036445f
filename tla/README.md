# emusync, specified and checked

emusync keeps the save files of emulators in step between devices and one
server.  The modules here specify the parts of it that are concurrent, that
fail, or that decide which version of a save survives.  TLC checks them on
small instances; TLAPS proves every safety property that a passing run checks, and
that the server's store implements its abstract specification, for instances of any size.

Paths below are relative to the repository's root.

## 1. The system

| Part | Source | State it keeps | What others ask of it |
|---|---|---|---|
| Save store | `internal/server/storage.go`, `handlers.go` | canonical files, their metadata, backups with theirs, conflicts and their candidates, all as files; one RWMutex | upload, download, manifest, list and resolve conflicts, history |
| Server lifecycle | `internal/server/server.go` | the listener, the process | start; SIGTERM |
| Admin profile | `internal/server/profile.go`, `admin.go`, `cmd/pull_profile.go` | one JSON document, its temporary file | get, put, merge into a configuration |
| Authentication | `internal/server/auth.go`, `internal/authtoken` | none | unquote and compare a token |
| API client | `internal/client/httpclient.go` | the attempts of a call | HTTP calls, with retries where the body can be sent again |
| Syncer | `internal/client/syncer.go`, `cmd/push.go`, `cmd/pull.go` | base hashes in memory and in a state file; a mutex | SyncAfterExit (push), SyncBeforeLaunch (pull), Status |
| Hasher | `internal/hasher/hasher.go` | none between calls | HashDirectory: a pool of workers |
| Watch | `cmd/watch.go`, `internal/watcher/` | tracked processes, an event channel, post-exit goroutines | turns processes into pushes and pulls |
| Resolve command | `cmd/resolve.go` | the list it asks about | asks the user, resolves at the server |
| Process names | `watcher/flatpak.go`, `proton.go`, `procfs.go`, `model/emulator.go` | none | whose process is it? |
| Configuration and setup | `internal/config`, `internal/setup`, `cmd/init_cmd.go`, `cmd/setup.go` | `config.toml`, its temporary file, its backup | Load, Save, init, setup |
| Discovery | `internal/discovery/discovery.go` | a goroutine and two channels for each search | Lookup |
| Reading commands, logging | `cmd/status.go`, `history.go`, `server.go`, `internal/logging` | none | print |

How they meet: a launch or an exit of an emulator, seen by the watcher's polls
of `/proc`, becomes an event; the main loop pulls on a launch, and gives an exit
a goroutine that waits a moment and pushes.  A push hashes the save directory
(hasher), gets the manifest, and uploads each file that differs together with
the *base hash*: what the server had when this device last agreed with it.  The
server compares the base hash with its current metadata and either replaces the
canonical file, after backing it up, or parks the upload as a conflict with a
candidate file.  A pull downloads what differs from the manifest.  The user
settles conflicts as local, remote or keep-both.

What is hard about it:

- requests are goroutines that meet at one lock and do several file operations
  under it, each of which can fail, and the process can be killed between two;
- the decision to accept an upload rests on a hash that travelled through a
  client's memory, its state file and the network;
- the client holds a hash, a manifest and an open file of three different
  moments while emulators, other commands and other devices go on;
- answers get lost after the server did its part, and requests whose client has
  given up are carried out later;
- the watcher sees processes only when it polls, drops events when its channel is
  full, and a signal may come at any time;
- the hasher's walk waits for its workers and its workers for the walk; a search for
  servers is left behind by its caller when the deadline passes;
- commands that change the configuration read it, wait for a user or the network, and
  write it back whole through one temporary file, wherever they are killed.

What makes each part correct: the store never loses the version it replaces, is
never changed by a decision that has become wrong, and tells clients what is on
its disk; the syncer never claims a base its save was not made from; the watcher
pushes once for each session that ended, and ends itself; what a user reads about a
conflict is true and stays true; the hasher and the search for servers return
everything or an error; a configuration is whole, means what was typed, and is
backed up before it is replaced.  The hazards in `PROJECT.json` give the lines.

## 2. Modules

| Module | Stands for |
|---|---|
| `Storage` | the save store, one file operation per step |
| `SaveStore` | what the store promises: one head per path, uploads judged and applied in one step |
| `Client` | calls with retries, the resolve command, and the server's life, around the store as `SaveStore` promises it |
| `Sync` | devices, their processes and their emulators, around the same store |
| `Watch` | the watch command with the watcher |
| `Names` | whose process a process of `/proc` is |
| `WatchedNames` | `Watch` with `Names` |
| `Hasher` | HashDirectory |
| `Setup` | init, setup, pull-profile, the files they share, the server's profile |
| `Discovery` | Lookup |
| `StorageProofs`, `ServeProofs`, `SyncProofs`, `WatchProofs`, `ClientProofs`, `HasherProofs`, `SetupProofs`, `DiscoveryProofs` | theorems |
| `MCStorage`, `MCSync`, `MCKeepBoth`, `MCWatch`, `MCClient`, `MCHasher`, `MCSetup` | instances for TLC |

The layers rest on each other.  `Storage` implements `SaveStore` (property
`ImplementsSaveStore`), so `Sync` and `Client` may treat a request as one step; `Client`
splits a resolution in two where its retries can tell.  `Watch` decides when pulls and
pushes run and in which order; what they do is in `Sync`.  `Names` gives the emulator
that `Watch` takes as given with a process.  `ManifestIsSnapshot` (Storage) is why a
manifest is one value in `Sync`, and `ResultIsComplete` (Hasher) why `hashes` there has
every file.  `Discovery` feeds a prompt of `Setup`.

### Storage

A request is one-shot: `pc[r]` is "new", then the next file operation of its
handler, then its outcome.  `job[r]` is what its goroutine remembers: the metadata
it read (`existing`), the base hash, the label of its backup, the list rotation
works through.  Handlers map to paths through these actions:

- PUT: `BeginPut` (validation, `mu.Lock`, metadata, the conflict test), then
  `WriteConflictFile`, `SaveConflict`, or `CreateBackup`, `WriteBackupMeta`,
  `ListBackups`, `RotateFile`/`RotateMeta`..., `RotateDone`, `WriteCanonical`,
  `WriteMetadata`.  `Verdict` is the comparison of hashes the handler makes once
  WriteFile has returned.
- resolve: `BeginResolve` or `RefuseResolve`, for local the same backup and write,
  for keep-both the write under `KeepBothName`, then `MarkResolved`,
  `RemoveCandidate`.  `OpenMissing` is the failing open of a candidate that is gone.
  Nothing looks whether the conflict was settled before: a second "local" makes a
  backup, and rotates one away, before the open fails.  `ResolutionIsFinal` is about the
  saves, the manifest and the conflict, which stay as they are.
- GET of a file: `BeginRead`, `ReadEntry`; manifest: `BeginManifest`, `WalkOne`...,
  `WalkDone`.

`atomicWrite` (temporary file, then rename) is one step: the rename.  A file's
content stands for its SHA-256.  A clock with second resolution (`Tick`) labels
backups, so two backups of one file in one second get one name, as in the code.

Faults are chosen in the cfg: "crash" (the process dies; locks and goroutines go,
files stay; SIGTERM is the same, since Run returns as soon as Shutdown has closed
the listener), "io" (an operation fails: returned at once, except for the
removes the code ignores, and a listing of the backups that cannot be had, which
skips rotation), "disconnect" (the body ends early), "mismatch" (the
body does not have its declared hash).

### SaveStore

`head`, `asked`, `held`.  The refinement maps the metadata to `head`, a put under the
lock to `asked`, an open conflict to `held`.  The commit point of an upload is the
step that writes its metadata, or its conflict.

### Sync

A version stands for content and hash.  Every write of an emulator makes a new
one, and the history variable `includes` says what it was made from.  `blind` is the
set of files where something was replaced with no comparison at all (an upload
without a base, a keep-both over another file): after that nothing can be said
about who knew what, and the three properties about base hashes leave these files out.  The
gap itself is what `NoSilentOverwrite` is about.  A keep-both makes no backup of what has
the other name (storage.go:368): `overwritten` has those contents, and the two properties
about what the server has of a device's saves except them by name; that they are kept
somewhere is `WrittenOverIsKept`, which fails (section 3).  `unsent` has the devices with saves
that no push without an error has seen.  `pc[s]` walks through
SyncAfterExit (`BeginPush` hashes, `PushManifest`, `OpenFile`,
`Upload`/`UploadLost`/`UploadFails`, `SaveState`) and SyncBeforeLaunch (`BeginPull`,
`PullHash`, `Download`, `Place`/`DownloadFails`, `SaveState`).  Hash, content and base hash of
an upload are read at three moments, as in the code.

A download goes through a temporary file beside its target, `TempName[f]`; a kill
leaves a part of a save there (`Torn`), which the next push finds like any other file.
`Hidden` files have a dot in front: `ToPush` has them, `ToPull` has not.

`Overlap` says whether an emulator may run while its device syncs, and `Home` places
processes on devices.

### Watch

`poll` is four phases (`read`, `launches`, `exits`, back to `tick`), with one step for each
process read and each event offered, so that `/proc` changes in between.  A PID may be
used again at once, for any emulator; `started` counts that, and `due` counts the
processes of an emulator that have ended.  `Offer` drops an event when the channel is
full.  `loop` is the main goroutine; `sleeping` and `waiting` count post-exit goroutines;
`mu` is Syncer.mu.

### Names

A name is a word, its case and its extension; an argument is a flag, a path or a word.
`ResolveNames` and `Same` are resolveNames and MatchesProcess; `EmulatorOf` is the loop of
poll.  `Shown` has what resolveNames sees through, with any lists of arguments (`Args`)
before and after the program: one that nothing wraps (`Started`), one behind the "--" of a
sandbox (`Separated`), one that is the last plain argument of a sandbox without "--"
(`Sandboxed`), and the first .exe under Wine or Proton (`InWine`).  What it does not see
through is left out there, and is this:

- a sandbox without "--" whose program has a plain argument: the argument is taken for
  the program (`SandboxIsSeenThrough`, section 3).  `flatpak run` with an application's id
  is of that kind: the id is no name of a program;
- a program that has a launcher's name among its arguments, or another .exe before its own;
- a program whose name has more than the 15 characters of comm, when exe and argv cannot
  be read.

`WatchedNames` puts the two modules together: the emulator a process has in `Watch` is the one
`Names` finds (`EmulatorIsRight`).

### Client

A push is one call of UploadFile, and `Sends` says what content it sends: a device whose
answer got lost pushes the same content again, while its earlier request may still be in
the server.  A conflict is known by the push that raised it.  `call[x]` is what a user or a
push waits for: the request, the attempt, and whether it is on its way.  `inbox` has the requests that have not changed anything yet, `lock` the
resolution that is between its two halves.  A client that gives up leaves its request
in the server.  do passes the same request to http.Client again without calling
GetBody, so an attempt whose body was read is the last (`Spent`), and one that never
reached the server is repeated (`Retry`).  `Signal`, `Exit` and `Start` are the process's
life: Run returns when Shutdown closes the listener, so requests under way are cut off.

### Setup and Discovery

A command is a process: `StartInit`, `StartSetup`, `StartPull`; `Ask` or `Fetch`; for
pull-profile `Backup` and `Copy`; then Save's `Open`, `Write`, `Rename`.  Files are inodes,
so that two commands that open one temporary file write one inode, and a rename takes
along what somebody else is writing.  `Stop` is a kill or an error at any step,
`SaveFails` an error that cleans up.  A token is the number of pairs of quotes around it,
of which every Normalize strips one; a path is the sequence of its components.  The
server's PUT holds the lock from `ReceivePut` to `AnswerPut`.  PUTs are numbered: the number goes
with the list into the temporary file, the profile and the configuration, and `acked` gets
the number of the PUT that is answered.  A list that somebody left in the server's
directory has the number 0 and may be anything, since ReadProfile looks at its version only.

In `Discovery` the query's goroutine fills a channel, reports an error in another, and
closes the first; the caller drains it or leaves at the deadline (`ReturnLate`), and its process
may end before the goroutine does (`Forget`).  A
search shares nothing with the files, so `MCSetup` follows searches and commands in one
specification from the same initial states, without interleaving them.

### Hasher

The channel is a set with a capacity (its order decides nothing); `at[w]` is the file a
worker has; `errs` the error channel of one.

## 3. What is checked

Twelve runs; `PROJECT.json` lists the properties of each, and for each property a
plausible mistake in the code (a dropped lock, a forgotten reset, a swapped order)
that makes TLC report it.  The mistaken definitions stand in the modules right
before the right ones.

| Run | Instance | Shows |
|---|---|---|
| storage_faults | 3 requests, 2 uploaded paths and keep-both's, 2 contents, 2 seconds, limit 1, all faults | what survives faults |
| storage_quiet | 4 requests, 1 path and keep-both's, 3 contents, limit 1, lost connections | consistency of files, metadata and history; rotation; downloads; a conflict is settled once; refinement of `SaveStore` |
| storage_live | 3 requests, limit -1, crashes and lost connections, fair | every request that has the lock ends, a panic included |
| sync_sequential | 2 devices, 1 file, 1 new version beside the copies of version 0, offline, lost replies, kills | the conflict detection: no base hash is ahead of its save |
| sync_keepboth | 1 device; a save, a file called like its keep-both, the temporary file of that; 4 versions; either lost replies, or kills, a state file that is not written and an emulator that writes meanwhile | what was pushed stays, through conflicts and keep-both; a pull replaces nothing that was pushed; parts of saves never become saves |
| watch_live | 2 PIDs, 2 emulators, 2 processes, channel of 3, a signal, fair; and for `Names` three configured emulators and all lists of up to 2 of 6 arguments | events, starvation, the end; one emulator per program |
| hasher_pool | 4 files, 2 workers, channel of 1, files vanish, cannot be read, the walk fails, fair | completeness and the end |
| client_retries | 2 users, versions v0 (past), v1 (first), v2 (pushed, twice), 2 attempts, 1 late request, the server stops and starts, fair | what a user is told is true and final; no call of UploadFile is accepted and parked; every prompt ends |
| setup_kills | 2 commands, 2 answers to setup, tokens with 0 or 1 pair of quotes, 3 documents, each of which, or an empty one, or none, the server may have at the start, 2 PUTs; 1 server that answers a search twice, channel of 1 | the configuration is whole, means what was typed, is backed up; a PUT that was answered stays; a search is complete or failed |

Why these bounds are enough to be of interest:

- Storage: three requests are an upload, one that conflicts with it, and its
  resolution; with four there is also a second resolution, or a rotation followed by a
  read.  One limit-1 path with two seconds makes every second backup rotate.  One
  path is left out of `ValidIdPath` in storage_faults so that refusals happen.
- Sync: one version that only one device makes is enough for a divergence,
  since devices start with or without version 0 and the user may resolve the
  conflict any way.  In sync_keepboth, where answers get lost, a device that starts with two
  saves gets into a conflict with its own predecessor, and keep-both stores the
  candidate over the second save.  Where processes are killed, a download leaves a part in
  the file that the next push uploads and the next pull downloads, through a temporary
  file again.  Both troubles at once are more states than they are worth; the theorems have both.
- Watch: with a channel of three and two processes the fourth event of a burst can be
  dropped.  The two processes may have one PID or two: the PID is used again between
  two polls, during one, or after its end was reported.  The arguments are the separator, a
  flag, a path, a plain one, another emulator's program and a Windows program; before and
  after a program there may be two of them.
- Hasher: four files are more than the channel and the workers hold together, so
  the walk does block.
- Client: the second user has an old list; a retry, the late request of a call that
  was given up and the other user's choice meet at the lock.  A third attempt would
  only repeat the second.  The second push meets the requests of the first, late ones
  included; `Few` leaves out that it meets the second user as well, or the first one while an
  upload is waited for.  The theorems have no such bound.  The file's name is regular or not, which decides whether a
  conflict's id passes ValidateName.
- Setup: two commands are what a killed one and its successor need; the second
  answer has a component called like the home directory.  The documents are a valid
  one, one with a name twice and one with an incomplete entry.  Two answers to one
  search in a channel of one make the query wait for the caller.

Type invariants are proved (section 4) and run only for `Storage`, whose record types
are the largest.

### Fairness

- `Storage!FairSpec`: weak fairness of the steps of a request that has the lock.  A
  goroutine that can go on is scheduled; a body that does not come ends with
  `ReadTimeout` (server.go:93).  Nothing makes requests arrive or get the lock.
- `Watch!FairSpec`: weak fairness of the goroutines.  Strong fairness of those that wait
  for `Syncer.mu`: Go's mutex hands the lock to a waiter that has waited long.
  Strong fairness of `Close`: `select` picks at random among the cases that are ready.
  A pull or a push ends because every HTTP request has a timeout.
- `Hasher!FairSpec`: weak fairness of the walk and of each worker; no fault is fair.
- `MCClient!FewSpec`, which is `Client!FairSpec` with the bound `Few`: weak fairness of the attempts of users: http.Client has a timeout, and
  the sleep between attempts ends.  Nothing makes the server run, answer or start again.
- `DiscoveryFairness`: weak fairness of the goroutine, whose query the library ends by
  itself, and of the caller.

### Where code and documents disagree

Three runs expect a violation.  Each is a statement of the documents or of a
comment, checked against what the code does.

| Run | Statement | What happens |
|---|---|---|
| storage_mismatch | file and metadata agree (`StoreConsistent`) | WriteFile commits before the handler compares hashes; the refused content stays under the declared hash |
| storage_lost | "no data is ever permanently lost" (PRD), "conflict file is just backed up" (storage.go:354) | resolving as remote removes the only copy of the candidate |
| watch_restart | "launch/exit workflows never interleave" (syncer.go:24) | a restart within the post-exit delay pulls before the push of the last session |

More such statements are in the modules, under "What the documents say and the code
does not do", and TLC refutes each of them when it is put into the cfg named here:

- `NoSilentOverwrite`, in `MCSync_sequential.cfg` with `MaxVersion = 2` and `Fault = {}`: an
  upload without a base hash replaces anything.
- `PullKeepsLocalChanges`, there too: a pull replaces a save that was never uploaded.
- `EveryFileIsPulled`, in `MCSync_sequential.cfg` with `Hidden <- OneFile`: a file with a dot in front
  is not.
- `WrittenOverIsKept`, in `MCKeepBoth_either.cfg`: keep-both makes no backup of what it writes over.
- `ConflictsHaveDiverged`, in `MCClient_retries.cfg`: a push that sends the same content again, before
  its earlier request has got to the lock, is parked against what that request stored.
- `ShutdownIsGraceful`, there too: the process ends before Shutdown has waited.
- `ListedCanBeResolved`, there: with an irregular name every choice is refused.
- `SandboxIsSeenThrough`, in `MCWatch_live.cfg`: an argument of the program is taken for it.
- `ReplacesAtomically`, in `MCSetup_kills.cfg` with `Overlap = TRUE`: two commands write one
  temporary file, and the one renames what the other has not finished.
- `OtherSectionsUnchanged`, in `MCSetup_kills.cfg` as it is: what the user edits while pull-profile waits for
  the network is gone.
- `ExistingIsKept`, there too: setup looks for the file before it asks its questions.
- `HomeIsUsed`, there with `Answers <- HomeAnswer`: the home directory as saves path
  becomes "~", which Load does not expand.

And these are about assumptions of the passing runs:

- `StoreConsistent` with `Fault = {"crash"}` in `MCStorage_mismatch.cfg`: a stop between the
  two renames leaves a file under another file's hash.
- `Overlap = TRUE` in `MCSync_sequential.cfg`: when a pull lands while the emulator runs,
  which a launch that is noticed by polling always allows, its next save is uploaded
  with a base it was not made from: `PullCatchesUp`, `BaseIsBehindSave` and
  `SupersedesWhatItReplaces` fail.  `PushedIsStored`, `SavesAreWhole` and `PullKeepsPushedSaves`
  do not: they are proved without that assumption, and the kills half of `MCKeepBoth` has it
  already.
- `Syncer <- TwoOnFirst`, `Home <- TwoOnFirstHome` there, without its SYMMETRY: a
  command beside `emusync watch` on one device has the same effect, since the mutex
  and the base hashes belong to a process.
- `ResolutionIsFinal` with "crash" or "io" in `MCStorage_quiet.cfg`: a candidate that outlives
  its resolution, can be applied again.  `ImplementsSaveStore` fails
  there for the same reason, which is why it is not part of storage_faults.
- `Quotes = 2` in `MCSetup_kills.cfg`: of a token in two pairs of quotes Save strips one pair and
  Load the other, and the server strips one only; `SetupIsUsed` fails.

## 4. What is proved

All theorems hold for every value of the constants that satisfies the named
assumptions: any number of requests, paths, contents, seconds, devices, users, processes,
workers, files and answers, any integer as limit.  The assumptions say that constants
have their types, that `None` is none of the values, and that keep-both stores a
candidate under another name.  Where a theorem needs more, it says so itself.

**Storage** (`StorageProofs`).  `Inductive` is `TypeOK /\ LockDiscipline /\ JobInv`.  The types
alone are not inductive: a step writes `job[r].path`, `.stamp` or `.entry` to the disk, so
`JobInv` says which of these a goroutine has at which step.  `LockDiscipline` is what
turns a proof about one request into one about all: who writes is alone, so a step of
another request cannot change what the holder of the lock has read.

- `TypeCorrect`, `LockCorrect`: from `Inductive`.
- `ConflictsAreKept` (`OpenConflictHasCandidate`): strengthened by `CandidateInv`, which says
  that the candidate is there between the two steps that raise a conflict, and that
  the conflict is marked before its candidate is removed.
- `NothingDisplacedIsLost` (`DisplacedIsBackedUp`): strengthened by `BackupInv`.  It says that
  a path with a conflict has metadata (so that a local resolution makes a backup), that a
  file that is about to be replaced is among the backups or is none, and follows the backup from
  its creation through rotation: its label is not older than any other, and the list rotation
  works on has all newer ones, so the backup is the last that rotation would remove.
  The limit 0 is excluded: it discards the backup that was just made.

**Answers** (`ServeProofs`).  `UploadInv` says that the base test made when the lock was
taken is still true at every later step, and that the file is in place when the
metadata is about to be written; `ViewInv` that what a manifest has so far is what the
store has.  Both hold with every fault.

- `UploadsReplaceTheirBase` (`AcceptedOverItsBase`), `OkMeansStored` (`AnsweredOkIsStored`),
  `ManifestsAreSnapshots` (`ManifestIsSnapshot`).

The rest assumes `Undisturbed`: connections break off, and nothing else goes wrong.
With other faults the statements are false (section 3).  `ServeInv` says for each file,
each backup and each candidate that content and metadata agree, except for the one a
writer has in hand (`Committing`, `Labelling`, `Removing`), and for each step of a
handler what it has put right and what it has yet to (`ServeOK`).

- `FilesMatchMetadata` (`StoreConsistent`), `VersionsMatchBackups` (`HistoryIsRestorable`),
  `DownloadsMatch` (`DownloadIsConsistent`), `ConflictsAreSettledOnce` (`ResolutionIsFinal`),
  `OnlyOldestGoes` (`RotationDropsOldest`).
- `StoreRefines` (`ImplementsSaveStore`): initial states map to initial states, and each step
  to one of SaveStore or to none.  An upload that was judged under the lock is judged
  the same in the abstract store when it is applied, which is `UploadInv` again;
  a resolution applies a candidate that is still held, which is `ServeInv`.
  `AbstractNone` says that the missing value is not a version there either.

**Sync** (`SyncProofs`).  `Holds` is types, what the store has (a file with metadata has
content) and what each loop has at each step: it only uploads what it hashed, places
what it downloaded.  `Whole` says of parts of saves that they are in temporary files
only: on devices, in the store, in open conflicts, in the hands of a loop.

- `TypeCorrect`; `SavesStayWhole` (`SavesAreWhole`), provided that no leftover is resolved as
  keep-both: there its content gets a name that is none of a temporary file.

Which version a base hash stands for is proved for `Alone`: no emulator runs while its
device syncs, and a device has one process.  Without either, the three statements are
false (section 3).  `Remembers` is inductive together with `Holds`:

- `TurnsHold`: an emulator's memory is its save, and a push sends what it hashed;
- `HeadsHold`: hash and content belong together;
- `FreshHolds`: versions nobody has written are nowhere, so that a new one really is new;
- `IsTransitive`: ancestry is; without it a base that is behind a save would not be
  behind what is made from that save;
- `Traced`: base hashes, saved or in memory, are behind the head and behind the save; a
  manifest is behind the head; what is received is not older than the manifest.

`Traced` needs both halves: an upload that is accepted replaces a head that is the base,
which is behind the save, and that is what keeps every other device's base behind the head.

- `BaseStaysBehind` (`BaseIsBehindSave`), `PullsCatchUp` (`PullCatchesUp`), `UploadsSupersede`
  (`SupersedesWhatItReplaces`).

That nothing sent is lost is proved for emulators that write whenever they like, as they do
under `emusync watch`; a device still has one process (`OnePerDevice`).  Content and declared
hash of an upload may differ then, and a download may go over a save the emulator is
still using.  `Delivers` says of each place a hash can stand that the server has its
version, or had it until a keep-both wrote over it (`Arrived`: as head, in its history, in
an open conflict, or in what one of these was made from):

- `ClaimsHold`: metadata and open conflicts, whatever content stands under the hash;
- `MemoryHolds`: a save the running emulator does not have in memory, since it was downloaded;
- `HashesHold`, `OpenedHolds`: what a push has hashed, unless the save and the emulator's
  memory, or the content being sent, were made from it;
- `SentHolds`: what a push is done with, what is being received, and the saves of
  devices that have sent everything.

`Held` has what the store never lets go of: heads, the history, and what a keep-both has
written over.  A head that is replaced passes into one of the others, which is why a conflict may be
closed: what is resolved away becomes part of what the chosen head was made from (`KeptGrows`).

- `PushedStaysStored` (`PushedIsStored`), `PullsKeepPushedSaves` (`PullKeepsPushedSaves`).

**Watch** (`WatchProofs`).  The exits that are queued, slept over, waited for and pushed,
together with those the watcher has yet to report (`Owed`), never exceed those that have
happened.  `Owed` is needed because the watcher's knowledge is older than `/proc`, and
because a PID that is used again hides an exit.

- `TypeCorrect`; `PushesAreDue` (`NoSpuriousPush`).

`Ordered` is about PIDs that one process has had so far: what a poll did not find has
ended, what is in the channel was reported, and an exit that was reported is the last
of its process (`Once`).  About a PID that is used again it says nothing, and neither
does the property.

- `EventsStayInOrder` (`EventsInOrder`).

The names that can be told apart are those of a `Configuration` with words of their own
(`Distinct`): two emulators that claim one word go to the one listed first, and an
emulator called like a wrapper (`Foreign`) claims every program under it.  For the others,
each way a program shows leads to its name and to no name listed before
(`StartedIsFound`, `SeparatedIsFound`, `SandboxedIsFound`, `InWineIsFound`), whatever the lists of arguments
are: `Line` puts a program between two of them, and the place resolveNames looks for is the
first or last of its kind (`Placed`).

- `EmulatorsStayRight` (`EmulatorIsRight`).

**Client** (`ClientProofs`).  A push that the server has not judged has one request at most
(`SentOnce`, `InboxRight`), however many pushes of the same content there are; it is judged
after it has begun, and once (`VerdictsRight`); who holds the lock has moved its candidate
(`LockRight`); an answer that was read is about a candidate that is gone (`ToldRight`).

- `TypeCorrect`, `UploadsGetOneVerdict` (`OneVerdictPerUpload`), `WhatIsToldIsTrue`
  (`ToldIsTrue`), `WhatIsToldIsFinal` (`AnswerIsFinal`).

**Setup** (`SetupProofs`).  `ServerRight` follows the number of the PUT under way through the
temporary file to the profile, and says that a profile with a number is valid;
`DraftsRight` that what pull-profile has in memory is `Installable`.  `DeviceRight`, for commands that do not
overlap, says what is in the temporary file at each step of the one command that
writes, and that pull-profile has made its backup by then.

- `TypeCorrect`, `ConfigStaysWhole` (`ConfigIsWhole`), `AckedStaysServed` (`AckedIsServed`),
  `PulledStaysUsable` (`PulledIsUsable`), `ReplacedStaysInBak` (`ReplacedIsInBak`).

A configuration is shortened when it is saved and expanded when it is loaded, any
number of times, so `Clean` must be settled after one pass (`CleanTwice`) and "~" must read
back as the path it was written for (`ReadBack`).  `Clean` numbers the components it keeps by
how many are kept before them, and `LeastNumber`, from the well-foundedness of finite
sets, stands for the induction over the path.  `AllMeant` is that every file and every
draft has the sections its answers meant.

- `SetupStaysUsed` (`SetupIsUsed`), for tokens with at most one pair of quotes: Normalize
  strips one pair (section 3).  Commands may overlap.

**Discovery** (`DiscoveryProofs`).  An answer is in the channel until it is in the list
(`NothingIsDropped`), and the channels are closed in order (`Ending`).

- `TypeCorrect`, `ListIsComplete` (`FoundIsComplete`).

**Hasher** (`HasherProofs`).  `Inductive` follows a file: it is with the walk, in the channel,
with one worker or in the map (`OnePlace`), leaves that way only with an error
(`Accounted`), and the goroutines end in order (`Ending`: close, workers, return).

- `TypeCorrect`, `WorkersAreDisjoint` (`OneWorkerPerFile`), `CompleteOrError`
  (`ResultIsComplete`), `NoWriteAfterReturn` (`ReturnedMapIsFinal`).

Only model-checked is liveness (`EveryRequestIsAnswered`, `ExitIsNoticed`, `PushIsNotStarved`,
`SignalEndsWatch`, `CallReturns`, `ChoiceIsAnswered`, `LookupEnds`), which is out of the
prover's reach.  So is ENABLED, hence that no run deadlocks; and that three statements of
the documents fail is shown by counterexamples.

## 5. What is left out

- Save store: one emulator (paths of different emulators never meet but for the
  lock).  A metadata file that cannot be read or parsed counts as no metadata, as in
  WriteFile; that GetManifest fails on such a file is left out.
  Temporary files that a crash leaves (the walks only look at `.json` files), a power
  failure that undoes a rename, and a clock that goes back are not modelled.  ListConflicts and
  GetHistory only read; what they show is the subject of `OpenConflictHasCandidate` and
  `HistoryIsRestorable`.
- Syncer: one emulator with one save path.  A file that is deleted between
  hashing and opening, and a hash taken of a half-written file, are left out.
  `history` is the backups as they were without rotation, and without two backups of one second
  that get one name: `PushedIsStored` and `PullKeepsPushedSaves` are about a store that has room.  Where leftovers are modelled
  a device has one process.  Status only reads.
- API client: the encoding of paths, and the calls that only read.
- Process names: the path of a Proton installation inside an argument, directories (a name
  is what filepath.Base leaves), and the programs listed under Names in section 2.
- Server lifecycle: environment variables, routes, logging.
- Authentication: headers, schemes and routing, which keep no state.  What is in
  `Setup` is whether the token a device has at the end is the server's.
- Configuration and setup: searching the disk for saves (`detect.go`), the default
  values (`defaults.go`) and most prompts only choose among answers the user may give
  anyway.  Load's other defaults and its validation are left out.
- Discovery: Advertise hands an address to the library and waits for the end.
- The commands that only read (`status`, `history`), `server` and logging print what the
  modelled calls return, or start the parts.

## 6. Plan

Done: the store that decides which version survives, the client that feeds it, what
starts the client, the calls between them, and the files that say who syncs with whom.

What could come next:

1. More of what liveness rests on as invariants: which step a request, a waiter for
   `Syncer.mu` or the hasher's walk can take at each point.
2. A model of two emulators at one store, for the lock they share.
