----------------------------- MODULE SyncProofs -----------------------------
(***************************************************************************)
(* Theorems about Sync, for any devices, processes, files and versions,    *)
(* with and without faults.  First types, and that parts of saves stay     *)
(* where no emulator looks for a save: the inductive invariant says what a *)
(* loop may rely on, that what was hashed is still there, what is in       *)
(* conflict has a head, and what is sent, received or parked is whole.     *)
(* Then the history of versions: ancestry is transitive, base hashes stay  *)
(* behind heads and saves, and what was sent is there or superseded.       *)
(***************************************************************************)
EXTENDS Sync, TLAPS

\* A file the server lists or has a conflict about has a content.
StoreHolds ==
    /\ \A f \in File : meta[f] # None => canon[f] # None
    /\ \A c \in conflicts : canon[c.file] # None

\* What a loop is at.
LoopAt(s) ==
    /\ pc[s] \in {"down", "idle", "pushManifest"} => todo[s] = {}
    /\ pc[s] \in {"pushManifest", "push", "put"} =>
        \A f \in File : hashes[s][f] # None => local[Home[s]][f] # None
    /\ pc[s] \in {"push", "put"} => \A f \in todo[s] : hashes[s][f] # None
    /\ pc[s] \in {"pullHash", "pull", "place"} =>
        \A f \in File : manifest[s][f] # None => canon[f] # None
    /\ pc[s] \in {"pull", "place"} => \A f \in todo[s] : manifest[s][f] # None
    /\ pc[s] = "put" => hashes[s][file[s]] # None
    /\ pc[s] \in {"put", "place"} => file[s] \in File /\ body[s] # None

LoopHolds == \A s \in Syncer : LoopAt(s)

WholeStore ==
    /\ \A f \in File \ Leftover : canon[f] # Torn
    /\ \A c \in conflicts : c.file \notin Leftover => c.body # Torn

WholeLocal == \A d \in Device, f \in File \ Leftover : local[d][f] # Torn

WholeBody ==
    \A s \in Syncer : pc[s] \in {"put", "place"} /\ file[s] \notin Leftover => body[s] # Torn

Holds == TypeOK /\ StoreHolds /\ LoopHolds
Whole == WholeStore /\ WholeLocal /\ WholeBody

-----------------------------------------------------------------------------
\* Devices start stopped, with copies or nothing.
LEMMA InitHolds == Init => Holds
<1> SUFFICES ASSUME Init PROVE Holds
  OBVIOUS
<1>1. 0 .. LastCopy \subseteq Version /\ LastCopy \in 0 .. MaxVersion
  BY BoundAssumption DEF Version
<1>2. local \in [Device -> Files]
  BY <1>1 DEF Init, Files, Known
<1>3. TypeOK
  BY <1>1, <1>2 DEF Init, TypeOK, Files, Known, Nothing, Steps
<1>4. StoreHolds /\ LoopHolds
  BY DEF Init, StoreHolds, LoopHolds, LoopAt, Nothing
<1> QED
  BY <1>3, <1>4 DEF Holds

-----------------------------------------------------------------------------
(* Types.                                                                  *)

\* A command that begins has nothing in hand yet.
LEMMA ResetType ==
    ASSUME TypeOK, NEW s \in Syncer, Reset(s)
    PROVE  /\ hashes' \in [Syncer -> Files] /\ manifest' \in [Syncer -> Files]
           /\ todo' \in [Syncer -> SUBSET File] /\ file' \in [Syncer -> File \cup {None}]
           /\ body' \in [Syncer -> Known] /\ clean' \in [Syncer -> BOOLEAN]
BY DEF TypeOK, Reset, Set, Nothing, Files, Known

\* Start, and the two commands it leads to.
LEMMA StartType ==
    ASSUME TypeOK, NEW s \in Syncer, Start(s) \/ BeginPush(s) \/ BeginPull(s) PROVE TypeOK'
<1>1. saved[Home[s]] \in Files /\ local[Home[s]] \in Files /\ meta \in Files
  BY HomeAssumption DEF TypeOK
<1>2. pc \in [Syncer -> Steps] /\ base \in [Syncer -> Files]
      /\ hashes \in [Syncer -> Files] /\ manifest \in [Syncer -> Files]
  BY DEF TypeOK
<1>3. pc' \in [Syncer -> Steps]
  BY <1>2 DEF Start, BeginPush, BeginPull, Goto, Steps
<1>4. CASE Start(s)
  <2>1. base' \in [Syncer -> Files]
    BY <1>1, <1>2, <1>4 DEF Start, Loaded, Set
  <2> QED
    BY <1>3, <1>4, <2>1 DEF TypeOK, Start, server, device, ghost
<1>5. CASE BeginPush(s)
  <2>1. hashes' \in [Syncer -> Files]
    BY <1>1, <1>2, <1>5 DEF BeginPush, Set
  <2> QED
    BY <1>3, <1>5, <2>1 DEF TypeOK, BeginPush, server, device, ghost
<1>6. CASE BeginPull(s)
  <2>1. manifest' \in [Syncer -> Files]
    BY <1>1, <1>2, <1>6 DEF BeginPull, Listed, Set
  <2> QED
    BY <1>3, <1>6, <2>1 DEF TypeOK, BeginPull, server, device, ghost
<1> QED
  BY <1>4, <1>5, <1>6

\* The names of temporary files.
LEMMA TempType ==
    ASSUME NEW f \in DOMAIN TempName PROVE TempName[f] \in File /\ TempName[f] \in Leftover /\ Leftover # {}
BY TempAssumption DEF Leftover

\* What is removed and what is written.
LEMMA WithoutTempIs ==
    ASSUME TypeOK, NEW d \in Device, NEW f \in File
    PROVE  /\ WithoutTemp(d, f) \in [Device -> Files]
           /\ \A e \in Device, g \in File :
                WithoutTemp(d, f)[e][g] =
                    IF e = d /\ f \in DOMAIN TempName /\ g = TempName[f] THEN None ELSE local[e][g]
BY DEF TypeOK, WithoutTemp, Files, Known

\* What is written is read back, and nothing else of a directory changes
\* but the temporary file that goes.
LEMMA WrittenIs ==
    ASSUME TypeOK, NEW d \in Device, NEW f \in File, NEW content \in Known
    PROVE  /\ Written(d, f, content) \in [Device -> Files]
           /\ \A e \in Device, g \in File :
                Written(d, f, content)[e][g] =
                    IF e = d /\ g = f THEN content ELSE WithoutTemp(d, f)[e][g]
BY WithoutTempIs DEF Written, Files

\* The end of a command, kill included.
LEMMA LeaveType ==
    ASSUME Holds, NEW s \in Syncer, Stop(s) \/ Kill(s) PROVE TypeOK'
<1> USE DEF Holds
<1>1. Leave(s)
  BY DEF Stop, Kill
<1>2. local' \in [Device -> Files]
  <2>1. CASE UNCHANGED local
    BY <2>1 DEF TypeOK
  <2>2. CASE Kill(s) /\ At(s, "place") /\ file[s] \in DOMAIN TempName
    <3>1. PICK content \in {body[s], Torn} : local' = [local EXCEPT ![Home[s]][TempName[file[s]]] = content]
      BY <2>2 DEF Kill
    <3>2. content \in Known
      BY DEF TypeOK, Known, Version
    <3> QED
      BY <2>2, <3>1, <3>2, TempType DEF TypeOK, Files
  <2> QED
    BY <2>1, <2>2 DEF Stop, Kill
<1> QED
  BY <1>1, <1>2, ResetType DEF Leave, TypeOK, Goto, Set, Steps, Nothing, Files, Known, server, ghost

\* The loops of push and pull go on to a file they still have.
LEMMA NextFileType ==
    ASSUME TypeOK, NEW s \in Syncer, NEW loop \in {"push", "pull"}, NextFile(s, loop)
    PROVE  /\ todo' \in [Syncer -> SUBSET File] /\ file' \in [Syncer -> File \cup {None}]
           /\ body' \in [Syncer -> Known] /\ pc' \in [Syncer -> Steps]
BY DEF TypeOK, NextFile, Set, Goto, Steps, Known

\* The steps of both loops that only read, and the one that saves the state.
LEMMA LoopType ==
    ASSUME TypeOK, NEW s \in Syncer,
           SaveState(s) \/ PushManifest(s) \/ OpenFile(s) \/ UploadFails(s) \/ PullHash(s) \/ Download(s)
    PROVE  TypeOK'
<1>1. CASE SaveState(s)
  <2>1. /\ saved' \in [Device -> Files] /\ unsent' \subseteq Device /\ pc' \in [Syncer -> Steps]
    BY <1>1, HomeAssumption DEF SaveState, TypeOK, Goto, Steps
  <2> QED
    BY <1>1, <2>1, ResetType DEF SaveState, TypeOK, server
<1>2. CASE PushManifest(s)
  BY <1>2 DEF PushManifest, TypeOK, Set, Goto, Steps, ToPush, server, device, ghost
<1>3. CASE OpenFile(s)
  <2>1. PICK f \in todo[s] : file' = Set(file, s, f) /\ body' = Set(body, s, local[Home[s]][f])
    BY <1>3 DEF OpenFile
  <2>2. f \in File /\ local[Home[s]][f] \in Known
    BY <2>1, HomeAssumption DEF TypeOK, Files
  <2> QED
    BY <1>3, <2>1, <2>2 DEF OpenFile, TypeOK, Set, Goto, Steps, server, device, ghost
<1>4. CASE UploadFails(s)
  BY <1>4, NextFileType DEF UploadFails, FileFails, TypeOK, Set, server, device, ghost
<1>5. CASE PullHash(s)
  BY <1>5 DEF PullHash, TypeOK, Set, Goto, Steps, ToPull, server, device, ghost
<1>6. CASE Download(s)
  BY <1>6 DEF Download, TypeOK, Set, Goto, Steps, Files, server, device, ghost
<1> QED
  BY <1>1, <1>2, <1>3, <1>4, <1>5, <1>6

\* The server's side of an upload of a file that was hashed and read.
LEMMA PutType ==
    ASSUME TypeOK, NEW d \in Device, NEW f \in File, NEW sha \in Version, NEW content \in Version, NEW b \in Known,
           Put(d, f, sha, content, b)
    PROVE  /\ meta' \in Files /\ canon' \in Files /\ history' \subseteq Version
           /\ conflicts' \subseteq Conflict /\ blind' \subseteq File
<1>1. /\ meta \in Files /\ canon \in Files /\ history \subseteq Version
      /\ conflicts \subseteq Conflict /\ blind \subseteq File
  BY DEF TypeOK
<1>2. blind' \subseteq File
  BY <1>1 DEF Put, Displaced
<1>3. CASE Accepts(f, b)
  <2>1. meta' = [meta EXCEPT ![f] = sha] /\ canon' = [canon EXCEPT ![f] = content]
    BY <1>3 DEF Put
  <2>2. meta' \in Files /\ canon' \in Files
    BY <1>1, <2>1 DEF Files, Known
  <2>3. history' = history \cup ({canon[f]} \ {None}) /\ canon[f] \in Known
    BY <1>1, <1>3 DEF Put, BackUp, Files
  <2> QED
    BY <1>1, <1>2, <1>3, <2>2, <2>3 DEF Put, Known
<1>4. CASE ~Accepts(f, b)
  <2>1. [file |-> f, from |-> d, sha |-> sha, body |-> content] \in Conflict
    BY DEF Conflict
  <2> QED
    BY <1>1, <1>2, <1>4, <2>1 DEF Put
<1> QED
  BY <1>3, <1>4

\* What is uploaded is a version, with the hash of one.
LEMMA Sent ==
    ASSUME Holds, NEW s \in Syncer, At(s, "put")
    PROVE  /\ file[s] \in File /\ hashes[s][file[s]] \in Version /\ body[s] \in Version
           /\ base[s][file[s]] \in Known
BY DEF Holds, LoopHolds, LoopAt, TypeOK, At, Files, Known

\* A base hash that is noted.
LEMMA BaseSetType ==
    ASSUME TypeOK, NEW s \in Syncer, NEW f \in File, NEW hash \in Known
    PROVE  BaseSet(s, f, hash) \in [Syncer -> Files]
BY DEF BaseSet, TypeOK, Files

\* An upload, answered or not.
LEMMA UploadType == ASSUME Holds, NEW s \in Syncer, Upload(s) \/ UploadLost(s) PROVE TypeOK'
<1>1. /\ At(s, "put")
      /\ Put(Home[s], file[s], hashes[s][file[s]], body[s], base[s][file[s]])
      /\ NextFile(s, "push")
      /\ UNCHANGED <<device, hashes, manifest>>
  BY DEF Upload, UploadLost, FileFails
<1>2. /\ file[s] \in File /\ hashes[s][file[s]] \in Version /\ body[s] \in Version
      /\ base[s][file[s]] \in Known
  BY <1>1, Sent
<1>3. /\ meta' \in Files /\ canon' \in Files /\ history' \subseteq Version
      /\ conflicts' \subseteq Conflict /\ blind' \subseteq File
      /\ UNCHANGED <<made, includes, overwritten, unsent>>
  BY <1>1, <1>2, PutType, HomeAssumption DEF Holds, Put
<1>4. base' \in [Syncer -> Files] /\ clean' \in [Syncer -> BOOLEAN]
  <2>1. BaseSet(s, file[s], hashes[s][file[s]]) \in [Syncer -> Files]
    BY <1>2, BaseSetType DEF Holds, Known
  <2>2. base' \in [Syncer -> Files]
    BY <2>1 DEF Upload, UploadLost, Confirm, Holds, TypeOK
  <2>3. clean' \in [Syncer -> BOOLEAN]
    BY DEF Upload, UploadLost, FileFails, Set, Holds, TypeOK
  <2> QED
    BY <2>2, <2>3
<1> QED
  BY <1>1, <1>3, <1>4, NextFileType DEF Holds, TypeOK, device

\* A download that is renamed into place, or is not.
LEMMA PlaceType == ASSUME Holds, NEW s \in Syncer, Place(s) \/ DownloadFails(s) PROVE TypeOK'
<1>1. At(s, "place") /\ file[s] \in File /\ Home[s] \in Device /\ body[s] \in Known
  BY HomeAssumption DEF Place, DownloadFails, Holds, LoopHolds, LoopAt, TypeOK, At
<1>2. local' \in [Device -> Files]
  BY <1>1, WithoutTempIs, WrittenIs DEF Place, DownloadFails, Holds, TypeOK
<1>3. base' \in [Syncer -> Files] /\ clean' \in [Syncer -> BOOLEAN]
  <2>1. manifest[s][file[s]] \in Known
    BY <1>1 DEF Holds, TypeOK, Files
  <2>2. BaseSet(s, file[s], manifest[s][file[s]]) \in [Syncer -> Files]
    BY <1>1, <2>1, BaseSetType DEF Holds
  <2>3. base' \in [Syncer -> Files]
    BY <2>2 DEF Place, DownloadFails, Holds, TypeOK
  <2>4. clean' \in [Syncer -> BOOLEAN]
    BY DEF Place, DownloadFails, FileFails, Set, Holds, TypeOK
  <2> QED
    BY <2>3, <2>4
<1>4. NextFile(s, "pull") /\ UNCHANGED <<server, saved, running, memory, hashes, manifest, ghost>>
  BY DEF Place, DownloadFails, FileFails
<1> QED
  BY <1>2, <1>3, <1>4, NextFileType DEF Holds, TypeOK, server, ghost

\* Who supersedes gets a set of versions again.
LEMMA SupersedingType ==
    ASSUME TypeOK, NEW v \in Version, NEW u \in Version
    PROVE  Superseding(v, u) \in [Version -> SUBSET Version]
BY DEF TypeOK, Superseding

\* A candidate is stored beside its file, as a file.
LEMMA BesideIs == ASSUME NEW c, Named(c) PROVE Beside(c) \in File /\ <<c.file, c.from>> \in DOMAIN KeepBothName
BY KeepBothAssumption DEF Named, Beside

\* The three resolutions.
LEMMA ResolveType == ASSUME Holds, NEW c \in conflicts, Resolve(c) PROVE TypeOK'
<1>1. /\ c.file \in File /\ c.sha \in Version /\ c.body \in Version /\ canon[c.file] \in Version
  BY DEF Holds, StoreHolds, TypeOK, Conflict, Files, Known
<1>2. UNCHANGED <<device, process, made, unsent>> /\ conflicts' \subseteq Conflict
  BY DEF Resolve, Holds, TypeOK
<1>3. CASE ResolveLocal(c)
  BY <1>1, <1>2, <1>3, SupersedingType
  DEF ResolveLocal, BackUp, Holds, TypeOK, device, process, Files, Known
<1>4. CASE ResolveRemote(c)
  BY <1>1, <1>2, <1>4, SupersedingType DEF ResolveRemote, Holds, TypeOK, device, process
<1>5. CASE ResolveKeepBoth(c)
  <2>1. Beside(c) \in File
    BY <1>5, BesideIs DEF ResolveKeepBoth
  <2> QED
    BY <1>1, <1>2, <1>5, <2>1 DEF ResolveKeepBoth, Displaced, Holds, TypeOK, device, process, Files, Known
<1> QED
  BY <1>3, <1>4, <1>5 DEF Resolve

\* What an emulator does.
LEMMA EmulatorType ==
    ASSUME TypeOK, NEW d \in Device, Launch(d) \/ Exit(d) \/ \E f \in File : WriteSave(d, f) PROVE TypeOK'
<1>1. CASE Launch(d) \/ Exit(d)
  <2>1. Nothing \in Files /\ local[d] \in Files
    BY DEF Nothing, Files, Known, TypeOK
  <2>2. running \in [Device -> BOOLEAN] /\ memory \in [Device -> Files]
    BY DEF TypeOK
  <2>3. running' \in [Device -> BOOLEAN] /\ memory' \in [Device -> Files]
    BY <1>1, <2>1, <2>2 DEF Launch, Exit
  <2> QED
    BY <1>1, <2>3 DEF Launch, Exit, TypeOK, server, process, ghost
<1>2. ASSUME NEW f \in File, WriteSave(d, f) PROVE TypeOK'
  <2>1. made + 1 \in 0 .. MaxVersion /\ made + 1 \in Version
    BY <1>2, BoundAssumption DEF WriteSave, TypeOK, Version
  <2>2. includes' \in [Version -> SUBSET Version]
    <3>1. memory[d][f] \in Known /\ includes \in [Version -> SUBSET Version]
      BY DEF TypeOK, Files
    <3>2. (IF memory[d][f] = None THEN {} ELSE {memory[d][f]} \cup includes[memory[d][f]]) \in SUBSET Version
      BY <3>1 DEF Known
    <3> QED
      BY <1>2, <2>1, <3>1, <3>2 DEF WriteSave
  <2>3. local \in [Device -> Files] /\ memory \in [Device -> Files] /\ unsent \subseteq Device
    BY DEF TypeOK
  <2>4. local' \in [Device -> Files] /\ memory' \in [Device -> Files] /\ unsent' \subseteq Device
    BY <1>2, <2>1, <2>3 DEF WriteSave, Files, Known
  <2>5. made' \in 0 .. MaxVersion
    BY <1>2, <2>1 DEF WriteSave
  <2> QED
    BY <1>2, <2>2, <2>4, <2>5 DEF WriteSave, TypeOK, server, process
<1> QED
  BY <1>1, <1>2
\* All of them.
StepOf(s) == Start(s) \/ Stop(s) \/ Kill(s) \/ BeginPush(s) \/ BeginPull(s) \/ Work(s)
Around ==
    \/ \E c \in conflicts : Resolve(c)
    \/ \E d \in Device : Launch(d) \/ Exit(d) \/ \E f \in File : WriteSave(d, f)

\* Together: every step keeps the types.
LEMMA TypeKeeps == ASSUME Holds, Next PROVE TypeOK'
<1>1. ASSUME NEW s \in Syncer, StepOf(s) PROVE TypeOK'
  BY <1>1, StartType, LeaveType, LoopType, UploadType, PlaceType DEF StepOf, Work, Holds
<1>2. CASE Around
  BY <1>2, ResolveType, EmulatorType DEF Around, Holds
<1> QED
  BY <1>1, <1>2 DEF Next, StepOf, Around

-----------------------------------------------------------------------------
(* What the loops rely on.                                                 *)

\* The server loses no file.
LEMMA StoreKeeps ==
    ASSUME Holds, Next
    PROVE  StoreHolds' /\ \A f \in File : canon[f] # None => canon'[f] # None
<1> USE DEF Holds, StoreHolds
<1>1. ASSUME NEW s \in Syncer, Upload(s) \/ UploadLost(s)
      PROVE  StoreHolds' /\ \A f \in File : canon[f] # None => canon'[f] # None
  <2>1. /\ file[s] \in File /\ body[s] \in Version /\ body[s] # None
        /\ Put(Home[s], file[s], hashes[s][file[s]], body[s], base[s][file[s]])
    BY <1>1, Sent, NoneAssumption DEF Upload, UploadLost
  <2>2. CASE Accepts(file[s], base[s][file[s]])
    <3>1. /\ meta' = [meta EXCEPT ![file[s]] = hashes[s][file[s]]]
          /\ canon' = [canon EXCEPT ![file[s]] = body[s]]
          /\ conflicts' = conflicts
      BY <2>1, <2>2 DEF Put
    <3>2. \A f \in File : canon'[f] = IF f = file[s] THEN body[s] ELSE canon[f]
      BY <3>1 DEF TypeOK, Files
    <3>3. \A f \in File : f # file[s] => meta'[f] = meta[f]
      BY <3>1 DEF TypeOK, Files
    <3>4. \A c \in conflicts : c.file \in File
      BY DEF TypeOK, Conflict
    <3> QED
      BY <2>1, <3>1, <3>2, <3>3, <3>4
  <2>3. CASE ~Accepts(file[s], base[s][file[s]])
    BY <2>1, <2>3 DEF Put, Accepts
  <2> QED
    BY <2>2, <2>3
<1>2. ASSUME NEW c \in conflicts, Resolve(c)
      PROVE  StoreHolds' /\ \A f \in File : canon[f] # None => canon'[f] # None
  <2>1. c.file \in File /\ c.body \in Version /\ c.body # None /\ conflicts' \subseteq conflicts
    BY <1>2, NoneAssumption DEF Resolve, TypeOK, Conflict
  <2>2. CASE ResolveLocal(c)
    BY <2>1, <2>2 DEF ResolveLocal, TypeOK, Files, Conflict
  <2>3. CASE ResolveRemote(c)
    BY <2>1, <2>3 DEF ResolveRemote
  <2>4. CASE ResolveKeepBoth(c)
    BY <2>1, <2>4, KeepBothAssumption DEF ResolveKeepBoth, TypeOK, Files, Conflict
  <2> QED
    BY <1>2, <2>2, <2>3, <2>4 DEF Resolve
<1>3. CASE UNCHANGED server
  BY <1>3 DEF server
<1> QED
  BY <1>1, <1>2, <1>3
  DEF Next, Start, Stop, Kill, Leave, BeginPush, BeginPull, Work, SaveState, PushManifest, OpenFile,
      UploadFails, PullHash, Download, DownloadFails, Place, Launch, Exit, WriteSave

\* Only downloads make a file disappear, under the name of a temporary one.
LEMMA LocalKeeps ==
    ASSUME Holds, TypeOK', Next, NEW d \in Device, NEW f \in File, local[d][f] # None, local'[d][f] = None
    PROVE  \E t \in Syncer : Home[t] = d /\ pc[t] = "place" /\ Leftover # {} /\ StepOf(t)
<1> USE DEF Holds
<1>1. ~Around
  <2>1. ASSUME NEW e \in Device, NEW g \in File, WriteSave(e, g) PROVE FALSE
    <3>1. made + 1 # None
      BY <2>1, BoundAssumption, NoneAssumption DEF WriteSave, TypeOK, Version
    <3> QED
      BY <2>1, <3>1 DEF WriteSave, TypeOK, Files
  <2> QED
    BY <2>1 DEF Around, Resolve, Launch, Exit, device
<1>2. ASSUME NEW t \in Syncer, StepOf(t)
      PROVE  Home[t] = d /\ pc[t] = "place" /\ Leftover # {}
  <2>1. local' # local
    OBVIOUS
  <2>2. Kill(t) \/ DownloadFails(t) \/ Place(t)
    BY <1>2, <2>1
    DEF StepOf, Start, Stop, BeginPush, BeginPull, Work, SaveState, PushManifest, OpenFile,
        Upload, UploadLost, UploadFails, PullHash, Download, device
  <2>3. pc[t] = "place" /\ file[t] \in File /\ body[t] # None /\ body[t] \in Known /\ Home[t] \in Device
    BY <2>1, <2>2, HomeAssumption DEF Kill, DownloadFails, Place, At, LoopHolds, LoopAt, TypeOK
  <2>4. CASE Kill(t)
    <3>1. file[t] \in DOMAIN TempName
      BY <2>1, <2>4 DEF Kill
    <3>2. PICK content \in {body[t], Torn} : local' = [local EXCEPT ![Home[t]][TempName[file[t]]] = content]
      BY <2>1, <2>4 DEF Kill
    <3>3. content # None
      BY <2>3, NoneAssumption DEF Version
    <3> QED
      BY <2>3, <3>1, <3>2, <3>3, TempType DEF TypeOK, Files
  <2>5. CASE DownloadFails(t)
    BY <2>1, <2>3, <2>5, WithoutTempIs, TempType DEF DownloadFails
  <2>6. CASE Place(t)
    BY <2>3, <2>6, WrittenIs, WithoutTempIs, TempType DEF Place
  <2> QED
    BY <2>2, <2>4, <2>5, <2>6
<1> QED
  BY <1>1, <1>2 DEF Next, StepOf, Around
\* What a process is at does not change by what others do.
LEMMA OthersKeep ==
    ASSUME Holds, TypeOK', Next, NEW s \in Syncer,
           /\ pc'[s] = pc[s] /\ hashes'[s] = hashes[s] /\ manifest'[s] = manifest[s]
           /\ todo'[s] = todo[s] /\ file'[s] = file[s] /\ body'[s] = body[s],
           ~StepOf(s)
    PROVE  LoopAt(s)'
<1>1. ASSUME pc[s] \in {"pushManifest", "push", "put"}, NEW f \in File, local[Home[s]][f] # None,
             local'[Home[s]][f] = None
      PROVE  FALSE
  <2>1. PICK t \in Syncer : Home[t] = Home[s] /\ pc[t] = "place" /\ Leftover # {} /\ StepOf(t)
    BY <1>1, LocalKeeps, HomeAssumption
  <2>2. t = s
    BY <2>1, TempAssumption
  <2> QED
    BY <1>1, <2>1, <2>2
<1>2. LoopAt(s) /\ \A f \in File : canon[f] # None => canon'[f] # None
  BY StoreKeeps DEF Holds, LoopHolds
<1> QED
  BY <1>1, <1>2 DEF LoopAt

\* What a process does to what it is at.
LEMMA OwnKeeps ==
    ASSUME Holds, TypeOK', Next, NEW s \in Syncer, StepOf(s) PROVE LoopAt(s)'
<1>1. /\ LoopAt(s) /\ StoreHolds /\ Home[s] \in Device
      /\ \A f \in File : canon[f] # None => canon'[f] # None
  BY StoreKeeps, HomeAssumption DEF Holds, LoopHolds
<1> USE <1>1 DEF LoopAt, Holds, TypeOK, Goto, Set, At
<1>2. CASE Start(s) \/ Stop(s) \/ Kill(s) \/ SaveState(s)
  BY <1>2 DEF Start, Stop, Kill, Leave, Reset, SaveState, device
<1>3. CASE BeginPush(s)
  BY <1>3 DEF BeginPush, device
<1>4. CASE BeginPull(s)
  BY <1>4 DEF BeginPull, Listed, StoreHolds, server
<1>5. CASE PushManifest(s)
  BY <1>5 DEF PushManifest, ToPush, device
<1>6. CASE OpenFile(s)
  BY <1>6 DEF OpenFile, device
<1>7. CASE Upload(s) \/ UploadLost(s) \/ UploadFails(s)
  BY <1>7 DEF Upload, UploadLost, UploadFails, FileFails, NextFile, device
<1>8. CASE PullHash(s)
  BY <1>8 DEF PullHash, ToPull, server
<1>9. CASE Download(s)
  BY <1>9 DEF Download, server
<1>10. CASE DownloadFails(s) \/ Place(s)
  BY <1>10 DEF DownloadFails, Place, FileFails, NextFile, server
<1> QED
  BY <1>2, <1>3, <1>4, <1>5, <1>6, <1>7, <1>8, <1>9, <1>10 DEF StepOf, Work

\* What a loop has in hand is changed by its own process only.
LEMMA LoopsKeep == ASSUME Holds, TypeOK', Next PROVE LoopHolds'
<1> SUFFICES ASSUME NEW s \in Syncer PROVE LoopAt(s)'
  BY DEF LoopHolds
<1>1. CASE StepOf(s)
  BY <1>1, OwnKeeps
<1>2. CASE ~StepOf(s)
  <2>1. /\ pc'[s] = pc[s] /\ hashes'[s] = hashes[s] /\ manifest'[s] = manifest[s]
        /\ todo'[s] = todo[s] /\ file'[s] = file[s] /\ body'[s] = body[s]
    <3>1. CASE Around
      BY <3>1 DEF Around, Resolve, Launch, Exit, WriteSave, process
    <3>2. ASSUME NEW t \in Syncer, StepOf(t), t # s
          PROVE  /\ pc'[s] = pc[s] /\ hashes'[s] = hashes[s] /\ manifest'[s] = manifest[s]
                 /\ todo'[s] = todo[s] /\ file'[s] = file[s] /\ body'[s] = body[s]
      BY <3>2
      DEF StepOf, Work, Start, Stop, Kill, Leave, Reset, BeginPush, BeginPull, SaveState, PushManifest,
          OpenFile, Upload, UploadLost, UploadFails, PullHash, Download, DownloadFails, Place,
          FileFails, NextFile, Goto, Set, Holds, TypeOK
    <3> QED
      BY <1>2, <3>1, <3>2 DEF Next, StepOf, Around
  <2> QED
    BY <1>2, <2>1, OthersKeep
<1> QED
  BY <1>1, <1>2

\* The three parts are inductive together.
LEMMA StepHolds == Holds /\ [Next]_vars => Holds'
<1> SUFFICES ASSUME Holds, [Next]_vars PROVE Holds'
  OBVIOUS
<1>1. CASE Next
  BY <1>1, TypeKeeps, StoreKeeps, LoopsKeep DEF Holds
<1>2. CASE UNCHANGED vars
  BY <1>2 DEF vars, Holds, TypeOK, StoreHolds, LoopHolds, LoopAt
<1> QED
  BY <1>1, <1>2

\* What StepHolds is for.
LEMMA SpecHolds == Spec => []Holds
BY InitHolds, StepHolds, PTL DEF Spec

\* Every variable of Sync keeps to its type whatever the processes, the users and
\* the emulators do; that nothing is stored or placed that was not read or received
\* is the part of it that takes the loops' invariant (client/syncer.go).
THEOREM TypeCorrect == Spec => []TypeOK
<1>1. Holds => TypeOK
  BY DEF Holds
<1> QED
  BY <1>1, SpecHolds, PTL

-----------------------------------------------------------------------------
(* Whole saves.                                                            *)

\* Torn is neither a version nor nothing.
LEMMA TornIs == /\ Torn # None /\ Torn \in Version /\ \A v \in 0 .. MaxVersion : v # Torn
BY TornAssumption, NoneAssumption DEF Version

\* No part of a save is there before the first kill.
LEMMA InitWhole == Init => Whole
<1> SUFFICES ASSUME Init PROVE Whole
  OBVIOUS
<1>1. WholeStore /\ WholeBody
  BY TornIs DEF Init, WholeStore, WholeBody, Nothing
<1>2. WholeLocal
  <2>1. local \in [Device -> [File -> 0 .. LastCopy \cup {None}]] /\ 0 .. LastCopy \subseteq 0 .. MaxVersion
    BY BoundAssumption DEF Init
  <2> QED
    BY <2>1, TornIs DEF WholeLocal
<1> QED
  BY <1>1, <1>2 DEF Whole

\* What is sent or received and is not a leftover is whole.
LEMMA BodyIsWhole ==
    ASSUME Holds, Whole, NEW s \in Syncer, pc[s] \in {"put", "place"}
    PROVE  /\ file[s] \in File /\ Home[s] \in Device
           /\ file[s] \notin Leftover => body[s] # Torn
BY HomeAssumption DEF Holds, LoopHolds, LoopAt, Whole, WholeBody

\* No leftover has a name to be stored beside.
LeftoversStay == \A x \in DOMAIN KeepBothName : x[1] \notin Leftover

\* What the server has: uploads and resolutions pass on what they were given.
LEMMA WholeStoreKeeps ==
    ASSUME Holds, Whole, Next, LeftoversStay PROVE WholeStore'
<1> USE DEF Whole, WholeStore
<1>1. ASSUME NEW s \in Syncer, Upload(s) \/ UploadLost(s) PROVE WholeStore'
  <2>1. /\ file[s] \in File /\ (file[s] \notin Leftover => body[s] # Torn)
        /\ Put(Home[s], file[s], hashes[s][file[s]], body[s], base[s][file[s]])
    BY <1>1, BodyIsWhole DEF Upload, UploadLost, At
  <2>2. CASE Accepts(file[s], base[s][file[s]])
    BY <2>1, <2>2 DEF Put, Holds, TypeOK, Files
  <2>3. CASE ~Accepts(file[s], base[s][file[s]])
    BY <2>1, <2>3 DEF Put
  <2> QED
    BY <2>2, <2>3
<1>2. ASSUME NEW c \in conflicts, Resolve(c) PROVE WholeStore'
  <2>1. c.file \in File /\ conflicts' \subseteq conflicts /\ (c.file \notin Leftover => c.body # Torn)
    BY <1>2 DEF Resolve, Holds, TypeOK, Conflict
  <2>2. CASE ResolveLocal(c)
    BY <2>1, <2>2 DEF ResolveLocal, Holds, TypeOK, Files
  <2>3. CASE ResolveRemote(c)
    BY <2>1, <2>3 DEF ResolveRemote
  <2>4. CASE ResolveKeepBoth(c)
    <3>1. Beside(c) \in File /\ <<c.file, c.from>> \in DOMAIN KeepBothName
      BY <2>4, BesideIs DEF ResolveKeepBoth
    <3>2. c.body # Torn
      BY <2>1, <3>1 DEF LeftoversStay
    <3> QED
      BY <2>1, <2>4, <3>1, <3>2 DEF ResolveKeepBoth, Holds, TypeOK, Files
  <2> QED
    BY <1>2, <2>2, <2>3, <2>4 DEF Resolve
<1>3. CASE UNCHANGED server
  BY <1>3 DEF server
<1> QED
  BY <1>1, <1>2, <1>3
  DEF Next, Start, Stop, Kill, Leave, BeginPush, BeginPull, Work, SaveState, PushManifest, OpenFile,
      UploadFails, PullHash, Download, DownloadFails, Place, Launch, Exit, WriteSave

\* What a device has: an emulator writes whole saves, a download places what it
\* received, and a killed one leaves its part under the name of a leftover.
LEMMA WholeLocalKeeps == ASSUME Holds, Whole, Next PROVE WholeLocal'
<1> USE DEF Holds, Whole, WholeLocal
<1>1. ASSUME NEW d \in Device, NEW f \in File, WriteSave(d, f) PROVE WholeLocal'
  <2>1. made + 1 \in 0 .. MaxVersion
    BY <1>1, BoundAssumption DEF WriteSave, TypeOK
  <2>2. made + 1 # Torn
    BY <2>1, TornIs
  <2> QED
    BY <1>1, <2>2 DEF WriteSave, TypeOK, Files
<1>2. ASSUME NEW s \in Syncer, Kill(s) PROVE WholeLocal'
  <2>1. CASE UNCHANGED local
    BY <2>1
  <2>2. CASE At(s, "place") /\ file[s] \in DOMAIN TempName
    <3>1. PICK content \in {body[s], Torn} : local' = [local EXCEPT ![Home[s]][TempName[file[s]]] = content]
      BY <1>2, <2>2 DEF Kill
    <3> QED
      BY <2>2, <3>1, TempType DEF TypeOK, Files
  <2> QED
    BY <1>2, <2>1, <2>2 DEF Kill
<1>3. ASSUME NEW s \in Syncer, DownloadFails(s) \/ Place(s) PROVE WholeLocal'
  <2>1. /\ file[s] \in File /\ Home[s] \in Device /\ (file[s] \notin Leftover => body[s] # Torn)
        /\ body[s] \in Known
    BY <1>3, BodyIsWhole DEF DownloadFails, Place, At, TypeOK
  <2> QED
    BY <1>3, <2>1, WithoutTempIs, WrittenIs, TornIs DEF DownloadFails, Place
<1>4. CASE UNCHANGED local
  BY <1>4
<1> QED
  BY <1>1, <1>2, <1>3, <1>4
  DEF Next, Start, Stop, BeginPush, BeginPull, Work, SaveState, PushManifest, OpenFile, Upload, UploadLost,
      UploadFails, PullHash, Download, Resolve, Launch, Exit, device

\* What is on the way: it was read from the device or from the server.
LEMMA WholeBodyKeeps == ASSUME Holds, Whole, Next PROVE WholeBody'
<1> SUFFICES ASSUME NEW s \in Syncer, pc'[s] \in {"put", "place"}, file'[s] \notin Leftover
             PROVE  body'[s] # Torn
  BY DEF WholeBody
<1>1. CASE OpenFile(s) \/ Download(s)
  <2>1. PICK f \in todo[s] : /\ file' = Set(file, s, f)
                             /\ body' = Set(body, s, local[Home[s]][f]) \/ body' = Set(body, s, canon[f])
    BY <1>1 DEF OpenFile, Download
  <2>2. f \in File /\ Home[s] \in Device
    BY <2>1, HomeAssumption DEF Holds, TypeOK
  <2>3. f \notin Leftover /\ body'[s] \in {local[Home[s]][f], canon[f]}
    BY <2>1 DEF Set, Holds, TypeOK
  <2> QED
    BY <2>2, <2>3 DEF Whole, WholeStore, WholeLocal
<1>2. CASE pc'[s] = pc[s] /\ file'[s] = file[s] /\ body'[s] = body[s]
  BY <1>2 DEF Whole, WholeBody
<1>3. ASSUME StepOf(s), ~(OpenFile(s) \/ Download(s)) PROVE FALSE
  BY <1>3
  DEF StepOf, Work, Start, Stop, Kill, Leave, Reset, BeginPush, BeginPull, SaveState, PushManifest,
      Upload, UploadLost, UploadFails, PullHash, DownloadFails, Place, FileFails, NextFile, Goto, Holds, TypeOK
<1>4. ASSUME NEW t \in Syncer, StepOf(t), t # s
      PROVE  pc'[s] = pc[s] /\ file'[s] = file[s] /\ body'[s] = body[s]
  BY <1>4
  DEF StepOf, Work, Start, Stop, Kill, Leave, Reset, BeginPush, BeginPull, SaveState, PushManifest,
      OpenFile, Upload, UploadLost, UploadFails, PullHash, Download, DownloadFails, Place,
      FileFails, NextFile, Goto, Set, Holds, TypeOK
<1>5. ASSUME Around PROVE pc'[s] = pc[s] /\ file'[s] = file[s] /\ body'[s] = body[s]
  BY <1>5 DEF Around, Resolve, Launch, Exit, WriteSave, process
<1> QED
  BY <1>1, <1>2, <1>3, <1>4, <1>5 DEF Next, StepOf, Around

\* Each step keeps parts of saves in temporary files.
LEMMA StepWhole ==
    ASSUME LeftoversStay PROVE Holds /\ Whole /\ [Next]_vars => Whole'
<1> SUFFICES ASSUME Holds, Whole, [Next]_vars PROVE Whole'
  OBVIOUS
<1>1. CASE Next
  BY <1>1, WholeStoreKeeps, WholeLocalKeeps, WholeBodyKeeps DEF Whole
<1>2. CASE UNCHANGED vars
  BY <1>2 DEF vars, Whole, WholeStore, WholeLocal, WholeBody
<1> QED
  BY <1>1, <1>2

\* A part of a save, which a download that is killed leaves behind and later pushes
\* and pulls carry to the server and to other devices, is never what the server
\* serves as a save or a device has as one; unless somebody resolves a conflict
\* about a leftover by keeping both (atomicWriteFile, SyncAfterExit).
THEOREM SavesStayWhole ==
    ASSUME LeftoversStay PROVE Spec => []SavesAreWhole
<1>1. Whole => SavesAreWhole
  BY DEF Whole, WholeStore, WholeLocal, SavesAreWhole
<1> QED
  BY <1>1, SpecHolds, InitWhole, StepWhole, PTL DEF Spec

-----------------------------------------------------------------------------
(* What a version was made from.  From here on no emulator runs while its  *)
(* device syncs, and a device has one process: two processes of a device,  *)
(* or an emulator that writes under a sync, break BaseIsBehindSave,        *)
(* PullCatchesUp and SupersedesWhatItReplaces (README, section 3).         *)

OnePerDevice == \A s, t \in Syncer : Home[s] = Home[t] => s = t
Alone == ~Overlap /\ OnePerDevice

\* An emulator has in memory what is on the disk, and a push sends what it hashed.
TurnsHold ==
    /\ \A d \in Device : running[d] => Quiet(d) /\ memory[d] = local[d]
    /\ \A s \in Syncer :
        /\ pc[s] \in {"pushManifest", "push", "put"} => hashes[s] = local[Home[s]]
        /\ pc[s] = "put" => body[s] = hashes[s][file[s]]

\* Hash and content belong together.
HeadsHold ==
    /\ \A f \in File : meta[f] = canon[f]
    /\ \A c \in conflicts : c.sha = c.body

\* Versions nobody has written yet.
Unmade == made + 1 .. MaxVersion

\* They are nowhere, and made from nothing.
FreshHolds ==
    /\ \A d \in Device, f \in File : local[d][f] \notin Unmade /\ memory[d][f] \notin Unmade
    /\ \A f \in File : canon[f] \notin Unmade
    /\ \A c \in conflicts : c.body \notin Unmade
    /\ \A s \in Syncer : body[s] \notin Unmade
    /\ \A v \in Version : /\ includes[v] \cap Unmade = {}
                          /\ v \in Unmade => includes[v] = {}

\* What a version was made from was made from what it was made from.
IsTransitive == \A w \in Version : \A v \in includes[w] : includes[v] \subseteq includes[w]

\* Where u is, v is that or was made from it.
Reaches(v, u) == u # None => v # None /\ Covers(v, u)

\* Files of which every version is compared before it is replaced.
Compared == File \ (blind \cup Leftover)

\* The hashes a process goes by are behind the server's head, and the base hashes
\* of a device also behind its save.
TracedHead ==
    \A f \in Compared :
        /\ \A d \in Device : Reaches(canon[f], saved[d][f])
        /\ \A s \in Syncer : Reaches(canon[f], base[s][f]) /\ Reaches(canon[f], manifest[s][f])

TracedSave ==
    \A f \in Compared :
        /\ \A d \in Device : Reaches(local[d][f], saved[d][f])
        /\ \A s \in Syncer : Reaches(local[Home[s]][f], base[s][f])

\* What is received is not older than what it was asked for as.
TracedBody ==
    \A s \in Syncer :
        pc[s] = "place" /\ file[s] \in Compared =>
            /\ Reaches(body[s], manifest[s][file[s]])
            /\ Reaches(body[s], saved[Home[s]][file[s]])

\* What the pull loop is done with.
TracedPull ==
    \A s \in Syncer :
        pc[s] \in {"pull", "place"} /\ clean[s] =>
            \A f \in Compared \ (Hidden \cup todo[s]) : Reaches(local[Home[s]][f], manifest[s][f])

Traced == TracedHead /\ TracedSave /\ TracedBody /\ TracedPull
Remembers == TurnsHold /\ HeadsHold /\ FreshHolds /\ IsTransitive /\ Traced

-----------------------------------------------------------------------------
\* Nothing and parts are not versions to come.
LEMMA UnmadeIs == TypeOK => Unmade \subseteq Version /\ None \notin Unmade /\ 0 \notin Unmade /\ Torn \notin Unmade
BY BoundAssumption, NoneAssumption, TornAssumption DEF Unmade, TypeOK, Version

\* Before the first write there are copies, made from nothing.
LEMMA InitRemembers == Init => Remembers
<1> SUFFICES ASSUME Init PROVE Remembers
  OBVIOUS
<1>1. TurnsHold /\ HeadsHold
  BY DEF Init, TurnsHold, HeadsHold, Nothing
<1>2. TypeOK
  BY InitHolds DEF Holds
<1>3. None \notin Unmade /\ \A v \in 0 .. LastCopy : v \notin Unmade
  BY <1>2, UnmadeIs, BoundAssumption DEF Init, Unmade
<1>4. FreshHolds /\ IsTransitive
  <2>1. \A d \in Device, f \in File : local[d][f] \notin Unmade
    BY <1>3 DEF Init
  <2> QED
    BY <1>3, <2>1 DEF Init, FreshHolds, IsTransitive, Nothing
<1>5. Traced
  BY HomeAssumption
  DEF Init, Traced, TracedHead, TracedSave, TracedBody, TracedPull, Reaches, Nothing, Compared
<1> QED
  BY <1>1, <1>4, <1>5 DEF Remembers

-----------------------------------------------------------------------------
(* What any step may do.                                                   *)

\* A process does what it does to itself and to its device.
LEMMA StepIsOwn ==
    ASSUME Holds, NEW s \in Syncer, StepOf(s)
    PROVE  /\ UNCHANGED <<running, memory, made, includes>>
           /\ \A t \in Syncer : t # s =>
                /\ pc'[t] = pc[t] /\ base'[t] = base[t] /\ hashes'[t] = hashes[t]
                /\ manifest'[t] = manifest[t] /\ todo'[t] = todo[t] /\ file'[t] = file[t]
                /\ body'[t] = body[t] /\ clean'[t] = clean[t]
<1> USE DEF Holds, TypeOK
<1>1. CASE Start(s) \/ Stop(s) \/ Kill(s)
  BY <1>1 DEF Start, Stop, Kill, Leave, Reset, Goto, Set, device, ghost
<1>2. CASE BeginPush(s) \/ BeginPull(s) \/ SaveState(s)
  BY <1>2 DEF BeginPush, BeginPull, SaveState, Reset, Goto, Set, device, ghost
<1>3. CASE PushManifest(s) \/ OpenFile(s) \/ UploadFails(s)
  BY <1>3 DEF PushManifest, OpenFile, UploadFails, FileFails, NextFile, Goto, Set, device, ghost
<1>4. CASE Upload(s) \/ UploadLost(s)
  BY <1>4 DEF Upload, UploadLost, Put, Confirm, BaseSet, FileFails, NextFile, Goto, Set, device
<1>5. CASE PullHash(s) \/ Download(s)
  BY <1>5 DEF PullHash, Download, Goto, Set, device, ghost
<1>6. CASE DownloadFails(s) \/ Place(s)
  BY <1>6 DEF DownloadFails, Place, BaseSet, FileFails, NextFile, Goto, Set, ghost
<1> QED
  BY <1>1, <1>2, <1>3, <1>4, <1>5, <1>6 DEF StepOf, Work

\* It writes files only in the place step, and only where it downloads to.
LEMMA StepWrites ==
    ASSUME Holds, NEW s \in Syncer, StepOf(s)
    PROVE  /\ Home[s] \in Device
           /\ \A d \in Device : d # Home[s] => local'[d] = local[d] /\ saved'[d] = saved[d]
           /\ pc[s] # "place" => local' = local
           /\ \A f \in File \ Leftover :
                local'[Home[s]][f] # local[Home[s]][f] =>
                    Place(s) /\ file[s] = f /\ local'[Home[s]][f] = body[s]
<1>1. Home[s] \in Device /\ TypeOK /\ LoopAt(s)
  BY HomeAssumption DEF Holds, LoopHolds
<1>2. CASE Kill(s)
  <2>1. UNCHANGED saved
    BY <1>2 DEF Kill, Leave
  <2>2. CASE UNCHANGED local
    BY <1>1, <2>1, <2>2
  <2>3. CASE At(s, "place") /\ file[s] \in DOMAIN TempName
    <3>1. PICK content \in {body[s], Torn} : local' = [local EXCEPT ![Home[s]][TempName[file[s]]] = content]
      BY <1>2, <2>3 DEF Kill
    <3>2. \A d \in Device : d # Home[s] => local'[d] = local[d]
      BY <1>1, <3>1 DEF TypeOK
    <3>3. \A f \in File \ Leftover : local'[Home[s]][f] = local[Home[s]][f]
      BY <1>1, <2>3, <3>1, TempType DEF TypeOK, Files
    <3> QED
      BY <1>1, <2>1, <2>3, <3>2, <3>3 DEF At
  <2> QED
    BY <1>2, <2>2, <2>3 DEF Kill
<1>3. CASE DownloadFails(s) \/ Place(s)
  <2>1. pc[s] = "place" /\ file[s] \in File /\ body[s] \in Known /\ UNCHANGED saved
    BY <1>1, <1>3 DEF DownloadFails, Place, At, LoopAt, TypeOK
  <2>2. \A d \in Device : d # Home[s] => local'[d] = local[d]
    BY <1>1, <1>3, <2>1 DEF DownloadFails, Place, Written, WithoutTemp, TypeOK
  <2>3. CASE DownloadFails(s)
    <3>1. \A f \in File \ Leftover : WithoutTemp(Home[s], file[s])[Home[s]][f] = local[Home[s]][f]
      BY <1>1, <2>1, WithoutTempIs, TempType
    <3>2. \A f \in File \ Leftover : local'[Home[s]][f] = local[Home[s]][f]
      BY <2>3, <3>1 DEF DownloadFails
    <3> QED
      BY <1>1, <2>1, <2>2, <3>2
  <2>4. CASE Place(s)
    <3>1. \A f \in File \ Leftover : WithoutTemp(Home[s], file[s])[Home[s]][f] = local[Home[s]][f]
      BY <1>1, <2>1, WithoutTempIs, TempType
    <3>2. \A f \in File \ Leftover :
            local'[Home[s]][f] = IF f = file[s] THEN body[s] ELSE local[Home[s]][f]
      BY <1>1, <2>1, <2>4, <3>1, WrittenIs DEF Place
    <3> QED
      BY <1>1, <2>1, <2>2, <2>4, <3>2
  <2> QED
    BY <1>3, <2>3, <2>4
<1>4. CASE SaveState(s)
  BY <1>1, <1>4 DEF SaveState, TypeOK
<1>5. ASSUME ~(Kill(s) \/ DownloadFails(s) \/ Place(s) \/ SaveState(s)) PROVE UNCHANGED <<local, saved>>
  BY <1>5
  DEF StepOf, Work, Start, Stop, Leave, BeginPush, BeginPull, PushManifest, OpenFile, Upload, UploadLost,
      UploadFails, PullHash, Download, device
<1> QED
  BY <1>1, <1>2, <1>3, <1>4, <1>5

\* The emulators and the users do nothing to a process.
LEMMA AroundIs ==
    ASSUME Around
    PROVE  UNCHANGED <<saved, pc, base, hashes, manifest, todo, file, body, clean>>
BY DEF Around, Resolve, Launch, Exit, WriteSave, device, process

-----------------------------------------------------------------------------
(* Turns.                                                                  *)

\* A process whose emulator runs is between commands, and begins none.
LEMMA QuietKeeps ==
    ASSUME Holds, Alone, TurnsHold, NEW s \in Syncer, StepOf(s), running[Home[s]]
    PROVE  pc[s] \in {"down", "idle"} /\ pc'[s] \in {"down", "idle"}
<1>1. pc[s] \in {"down", "idle"} /\ ~Overlap
  BY HomeAssumption DEF TurnsHold, Quiet, Alone
<1> QED
  BY <1>1
  DEF StepOf, Work, Start, Stop, Kill, Leave, BeginPush, BeginPull, MaySync, SaveState, PushManifest, OpenFile,
      Upload, UploadLost, UploadFails, PullHash, Download, DownloadFails, Place, At, Goto, Holds, TypeOK

\* What a process hashed and opened it has hashed and opened since.
LEMMA OwnTurnKeeps ==
    ASSUME Holds, TurnsHold, NEW s \in Syncer, StepOf(s)
    PROVE  /\ pc'[s] \in {"pushManifest", "push", "put"} => hashes'[s] = local'[Home[s]]
           /\ pc'[s] = "put" => body'[s] = hashes'[s][file'[s]]
<1>1. pc[s] # "place" => local' = local
  BY StepWrites
<1> USE <1>1 DEF TurnsHold, Holds, TypeOK, Goto, Set, At
<1>2. CASE Start(s) \/ Stop(s) \/ Kill(s) \/ SaveState(s)
  BY <1>2 DEF Start, Stop, Kill, Leave, SaveState
<1>3. CASE BeginPush(s) \/ BeginPull(s)
  BY <1>3 DEF BeginPush, BeginPull
<1>4. CASE PushManifest(s)
  BY <1>4 DEF PushManifest
<1>5. CASE OpenFile(s)
  <2>1. PICK f \in todo[s] : file' = [file EXCEPT ![s] = f] /\ body' = [body EXCEPT ![s] = local[Home[s]][f]]
    BY <1>5 DEF OpenFile
  <2> QED
    BY <1>5, <2>1 DEF OpenFile
<1>6. CASE Upload(s) \/ UploadLost(s) \/ UploadFails(s)
  BY <1>6 DEF Upload, UploadLost, UploadFails, FileFails, NextFile
<1>7. CASE PullHash(s) \/ Download(s) \/ DownloadFails(s) \/ Place(s)
  BY <1>7 DEF PullHash, Download, DownloadFails, Place, FileFails, NextFile
<1> QED
  BY <1>2, <1>3, <1>4, <1>5, <1>6, <1>7 DEF StepOf, Work

\* An emulator writes while nobody pushes, on the disk as in memory.
LEMMA TurnsKeep == ASSUME Holds, Alone, TurnsHold, Next PROVE TurnsHold'
<1>1. ASSUME NEW s \in Syncer, StepOf(s) PROVE TurnsHold'
  <2>1. ASSUME NEW d \in Device, running'[d] PROVE Quiet(d)' /\ memory'[d] = local'[d]
    <3>1. running[d] /\ Quiet(d) /\ memory[d] = local[d] /\ memory' = memory
      BY <1>1, <2>1, StepIsOwn DEF TurnsHold
    <3>2. CASE Home[s] = d
      <4>1. pc'[s] \in {"down", "idle"} /\ local' = local
        BY <1>1, <3>1, <3>2, QuietKeeps, StepWrites
      <4>2. \A t \in Syncer : Home[t] = d => pc'[t] \in {"down", "idle"}
        BY <1>1, <3>1, <4>1, StepIsOwn DEF Quiet
      <4> QED
        BY <3>1, <4>1, <4>2 DEF Quiet
    <3>3. CASE Home[s] # d
      BY <1>1, <3>1, <3>3, StepIsOwn, StepWrites DEF Quiet
    <3> QED
      BY <3>2, <3>3
  <2>2. ASSUME NEW t \in Syncer
        PROVE  /\ pc'[t] \in {"pushManifest", "push", "put"} => hashes'[t] = local'[Home[t]]
               /\ pc'[t] = "put" => body'[t] = hashes'[t][file'[t]]
    <3>1. CASE t = s
      BY <1>1, <3>1, OwnTurnKeeps
    <3>2. CASE t # s
      <4>1. local'[Home[t]] = local[Home[t]]
        BY <1>1, <3>2, StepWrites, HomeAssumption DEF Alone, OnePerDevice
      <4> QED
        BY <1>1, <3>2, <4>1, StepIsOwn DEF TurnsHold
    <3> QED
      BY <3>1, <3>2
  <2> QED
    BY <2>1, <2>2 DEF TurnsHold
<1>2. ASSUME NEW c \in conflicts, Resolve(c) PROVE TurnsHold'
  BY <1>2 DEF Resolve, TurnsHold, Quiet, device, process
<1>3. ASSUME NEW d \in Device, Launch(d) \/ Exit(d) PROVE TurnsHold'
  <2>1. /\ UNCHANGED <<pc, hashes, body, file, local>>
        /\ \A e \in Device : running'[e] => Quiet(e) /\ memory'[e] = local[e]
    BY <1>3 DEF Launch, Exit, process, Alone, TurnsHold, Holds, TypeOK
  <2> QED
    BY <2>1 DEF TurnsHold, Quiet
<1>4. ASSUME NEW d \in Device, NEW f \in File, WriteSave(d, f) PROVE TurnsHold'
  <2>1. running[d] /\ Quiet(d) /\ UNCHANGED <<running, pc, hashes, body, file>>
    BY <1>4 DEF WriteSave, process, TurnsHold
  <2>2. \A e \in Device : (e # d => local'[e] = local[e]) /\ (running[e] => memory'[e] = local'[e])
    BY <1>4, <2>1 DEF WriteSave, TurnsHold, Holds, TypeOK
  <2>3. ASSUME NEW s \in Syncer, pc[s] \in {"pushManifest", "push", "put"} PROVE local'[Home[s]] = local[Home[s]]
    BY <2>1, <2>2, <2>3, HomeAssumption DEF Quiet
  <2> QED
    BY <2>1, <2>2, <2>3 DEF TurnsHold, Quiet
<1> QED
  BY <1>1, <1>2, <1>3, <1>4 DEF Next, StepOf

-----------------------------------------------------------------------------
(* Ancestry.                                                               *)

\* Made from versions that are there.
Rooted ==
    \A v \in Version : includes[v] \cap Unmade = {} /\ (v \in Unmade => includes[v] = {})

\* Whoever resolves makes one version supersede another, and all that the other did.
LEMMA SupersedingKeeps ==
    ASSUME TypeOK, Rooted, IsTransitive, NEW v \in Version \ Unmade, NEW u \in Version \ Unmade,
           includes' = Superseding(v, u), made' = made
    PROVE  /\ Rooted' /\ IsTransitive'
           /\ \A w \in Version : includes[w] \subseteq includes'[w]
           /\ {u} \cup includes[u] \subseteq includes'[v]
<1> DEFINE Over(w) == w = v \/ v \in includes[w]
<1>1. \A w \in Version : includes'[w] =
            IF Over(w) THEN includes[w] \cup {u} \cup includes[u] ELSE includes[w]
  BY DEF Superseding
<1>2. includes \in [Version -> SUBSET Version] /\ Unmade' = Unmade
  BY DEF TypeOK, Unmade
<1>3. Rooted'
  BY <1>1, <1>2 DEF Rooted
<1>4. ASSUME NEW w \in Version, NEW x \in includes'[w], NEW y \in includes'[x] PROVE y \in includes'[w]
  <2>1. x \in Version
    BY <1>1, <1>2
  <2>2. CASE Over(w)
    <3>1. x \in includes[w] => includes[x] \subseteq includes[w]
      BY <1>2 DEF IsTransitive
    <3>2. x \in includes[u] => includes[x] \subseteq includes[u]
      BY <1>2 DEF IsTransitive
    <3> QED
      BY <1>1, <2>1, <2>2, <3>1, <3>2
  <2>3. CASE ~Over(w)
    <3>1. x \in includes[w] /\ includes[x] \subseteq includes[w]
      BY <1>1, <2>3 DEF IsTransitive
    <3>2. ~Over(x)
      BY <2>3, <3>1
    <3> QED
      BY <1>1, <2>1, <2>3, <3>1, <3>2
  <2> QED
    BY <2>2, <2>3
<1>5. IsTransitive'
  BY <1>4 DEF IsTransitive
<1>6. \A w \in Version : includes[w] \subseteq includes'[w]
  BY <1>1
<1>7. {u} \cup includes[u] \subseteq includes'[v]
  BY <1>1
<1> QED
  BY <1>3, <1>5, <1>6, <1>7

\* A new version is made from one that is there, and all that that was made from.
LEMMA WritingKeeps ==
    ASSUME Holds, FreshHolds, IsTransitive, NEW d \in Device, NEW f \in File, WriteSave(d, f)
    PROVE  /\ Rooted' /\ IsTransitive'
           /\ made + 1 \in Unmade /\ made + 1 \notin Unmade' /\ Unmade' \subseteq Unmade
           /\ \A w \in Version : includes[w] \subseteq includes'[w]
           /\ memory[d][f] # None => memory[d][f] \in includes'[made + 1]
<1> DEFINE m == memory[d][f]
           new == made + 1
<1>1. /\ includes \in [Version -> SUBSET Version] /\ m \in Known /\ m \notin Unmade
      /\ \A v \in Version : includes[v] \cap Unmade = {} /\ (v \in Unmade => includes[v] = {})
  BY DEF Holds, TypeOK, Files, FreshHolds
<1>2. /\ new \in Unmade /\ Unmade' = Unmade \ {new} /\ new \in Version
  BY BoundAssumption DEF WriteSave, Holds, TypeOK, Unmade, Version
<1>3. /\ \A w \in Version : w # new => includes'[w] = includes[w]
      /\ includes'[new] = IF m = None THEN {} ELSE {m} \cup includes[m]
  BY <1>1, <1>2 DEF WriteSave
<1>4. m # None => m \in Version /\ m # new /\ includes[m] \cap Unmade = {} /\ includes[m] \subseteq Version
  BY <1>1, <1>2 DEF Known
<1> HIDE DEF m, new
<1>5. Rooted'
  <2>1. \A w \in Version : includes'[w] \cap Unmade' = {}
    BY <1>1, <1>2, <1>3, <1>4
  <2>2. \A w \in Version : w \in Unmade' => includes'[w] = {}
    BY <1>1, <1>2, <1>3
  <2> QED
    BY <2>1, <2>2 DEF Rooted
<1>6. ASSUME NEW w \in Version, NEW x \in includes'[w] PROVE includes'[x] \subseteq includes'[w]
  <2>1. CASE w # new
    <3>1. x \in includes[w] /\ x # new /\ x \in Version /\ includes[x] \subseteq includes[w]
      BY <1>1, <1>2, <1>3, <1>6, <2>1 DEF IsTransitive
    <3> QED
      BY <1>3, <2>1, <3>1
  <2>2. CASE w = new
    <3>1. m # None /\ x \in {m} \cup includes[m]
      BY <1>3, <1>6, <2>2
    <3>2. x # new /\ x \in Version /\ includes[x] \subseteq includes[m]
      BY <1>2, <1>4, <3>1 DEF IsTransitive
    <3> QED
      BY <1>3, <2>2, <3>1, <3>2
  <2> QED
    BY <2>1, <2>2
<1>7. IsTransitive'
  BY <1>6 DEF IsTransitive
<1>8. \A w \in Version : includes[w] \subseteq includes'[w]
  BY <1>1, <1>2, <1>3
<1>9. m # None => m \in includes'[new]
  BY <1>3
<1> QED
  BY <1>2, <1>5, <1>7, <1>8, <1>9 DEF m, new

\* The versions a resolution is about are there, and so is the head it meets.
LEMMA Resolved ==
    ASSUME Holds, FreshHolds, NEW c \in conflicts
    PROVE  /\ c.file \in File /\ c.body \in Version \ Unmade /\ canon[c.file] \in Version \ Unmade
           /\ c.sha \in Version
BY DEF Holds, StoreHolds, TypeOK, Conflict, Files, Known, FreshHolds

\* What any step does to what versions are made from.
LEMMA AncestryKeeps ==
    ASSUME Holds, FreshHolds, IsTransitive, Next
    PROVE  /\ Rooted' /\ IsTransitive' /\ Unmade' \subseteq Unmade
           /\ \A w \in Version : includes[w] \subseteq includes'[w]
<1>1. Rooted
  BY DEF FreshHolds, Rooted
<1>2. CASE UNCHANGED <<made, includes>>
  BY <1>1, <1>2 DEF Rooted, IsTransitive, Unmade
<1>3. ASSUME NEW c \in conflicts, Resolve(c), includes' # includes
      PROVE  /\ Rooted' /\ IsTransitive' /\ Unmade' \subseteq Unmade
             /\ \A w \in Version : includes[w] \subseteq includes'[w]
  <2>1. PICK v \in Version \ Unmade, u \in Version \ Unmade : includes' = Superseding(v, u) /\ made' = made
    BY <1>3, Resolved DEF Resolve, ResolveLocal, ResolveRemote, ResolveKeepBoth
  <2> QED
    BY <1>1, <2>1, SupersedingKeeps DEF Holds, Unmade
<1>4. ASSUME NEW s \in Syncer, StepOf(s) PROVE UNCHANGED <<made, includes>>
  BY <1>4, StepIsOwn
<1>5. ASSUME NEW d \in Device, NEW f \in File, WriteSave(d, f)
      PROVE  /\ Rooted' /\ IsTransitive' /\ Unmade' \subseteq Unmade
             /\ \A w \in Version : includes[w] \subseteq includes'[w]
  BY <1>5, WritingKeeps
<1>6. CASE Around
  BY <1>2, <1>3, <1>5, <1>6 DEF Around, Resolve, Launch, Exit, ghost
<1> QED
  BY <1>2, <1>4, <1>6 DEF Next, StepOf, Around

\* What a process may put in a directory: what it received, a part of it, or nothing.
LEMMA WrittenFrom ==
    ASSUME Holds, NEW s \in Syncer, StepOf(s), NEW d \in Device, NEW f \in File
    PROVE  local'[d][f] \in {local[d][f], body[s], Torn, None}
<1>1. CASE Kill(s) /\ local' # local
  <2>1. PICK content \in {body[s], Torn} : local' = [local EXCEPT ![Home[s]][TempName[file[s]]] = content]
    BY <1>1 DEF Kill
  <2>2. file[s] \in DOMAIN TempName
    BY <1>1 DEF Kill
  <2> QED
    BY <2>1, <2>2, TempType, HomeAssumption DEF Holds, TypeOK, Files
<1>2. CASE DownloadFails(s) \/ Place(s)
  <2>1. file[s] \in File /\ body[s] \in Known /\ Home[s] \in Device /\ TypeOK
    BY <1>2, HomeAssumption DEF DownloadFails, Place, At, Holds, TypeOK, LoopHolds, LoopAt
  <2>2. WithoutTemp(Home[s], file[s])[d][f] \in {local[d][f], None}
    BY <2>1, WithoutTempIs
  <2>3. Written(Home[s], file[s], body[s])[d][f] \in {local[d][f], body[s], None}
    BY <2>1, <2>2, WrittenIs
  <2> QED
    BY <1>2, <2>2, <2>3 DEF DownloadFails, Place
<1>3. local' = local \/ Kill(s) \/ DownloadFails(s) \/ Place(s)
  BY DEF StepOf, Work, Start, Stop, BeginPush, BeginPull, SaveState, PushManifest, OpenFile, Upload,
         UploadLost, UploadFails, PullHash, Download, device
<1> QED
  BY <1>1, <1>2, <1>3

\* An emulator has in memory what it found on the disk when it started.
LEMMA LoadedFrom ==
    ASSUME Holds, NEW d \in Device, Launch(d) \/ Exit(d), NEW e \in Device, NEW f \in File
    PROVE  memory'[e][f] \in {memory[e][f], local[e][f], None}
<1>1. memory \in [Device -> Files]
  BY DEF Holds, TypeOK
<1>2. memory' = [memory EXCEPT ![d] = local[d]] \/ memory' = [memory EXCEPT ![d] = Nothing]
  BY DEF Launch, Exit
<1>3. memory'[e] \in {memory[e], local[e], Nothing}
  BY <1>1, <1>2
<1> QED
  BY <1>3 DEF Nothing

\* Where versions come from: a device, the server, a conflict.
LEMMA FreshKeeps == ASSUME Holds, FreshHolds, IsTransitive, Next PROVE FreshHolds'
<1>1. Unmade' \subseteq Unmade /\ Rooted'
  BY AncestryKeeps
<1>2. None \notin Unmade /\ Torn \notin Unmade
  BY UnmadeIs DEF Holds
<1> DEFINE Elsewhere ==
        /\ \A d \in Device, f \in File : local'[d][f] \notin Unmade' /\ memory'[d][f] \notin Unmade'
        /\ \A f \in File : canon'[f] \notin Unmade'
        /\ \A c \in conflicts' : c.body \notin Unmade'
        /\ \A s \in Syncer : body'[s] \notin Unmade'
<1> SUFFICES Elsewhere
  BY <1>1 DEF FreshHolds, Rooted
<1>9. ASSUME NEW s \in Syncer, StepOf(s), NEW d \in Device, NEW f \in File PROVE local'[d][f] \notin Unmade
  <2>1. local'[d][f] \in {local[d][f], body[s], Torn, None}
    BY <1>9, WrittenFrom
  <2>2. local[d][f] \notin Unmade /\ body[s] \notin Unmade
    BY DEF FreshHolds
  <2> QED
    BY <1>2, <2>1, <2>2
<1> USE DEF Holds, TypeOK
<1>3. ASSUME NEW s \in Syncer, StepOf(s) PROVE Elsewhere
  <2>1. \A d \in Device, f \in File : local'[d][f] \notin Unmade
    BY <1>3, <1>9
  <2>2. \A d \in Device, f \in File : memory'[d][f] \notin Unmade
    <3>1. memory' = memory
      BY <1>3, StepIsOwn
    <3>2. \A d \in Device, f \in File : memory[d][f] \notin Unmade
      BY DEF FreshHolds
    <3> QED
      BY <3>1, <3>2
  <2>3. CASE Upload(s) \/ UploadLost(s)
    <3>1. /\ file[s] \in File /\ body[s] \notin Unmade
          /\ Put(Home[s], file[s], hashes[s][file[s]], body[s], base[s][file[s]]) /\ NextFile(s, "push")
      BY <2>3, Sent DEF Upload, UploadLost, FileFails, FreshHolds
    <3>2. \A f \in File : canon'[f] \in {canon[f], body[s]}
      BY <3>1 DEF Put, Files
    <3>3. \A c \in conflicts' : c \in conflicts \/ c.body = body[s]
      BY <3>1 DEF Put
    <3>4. \A t \in Syncer : body'[t] \notin Unmade
      BY <1>2, <3>1 DEF NextFile, Set, FreshHolds
    <3> QED
      BY <1>1, <2>1, <2>2, <3>1, <3>2, <3>3, <3>4 DEF FreshHolds
  <2>4. ASSUME ~(Upload(s) \/ UploadLost(s)) PROVE UNCHANGED <<canon, conflicts>>
    BY <1>3, <2>4
    DEF StepOf, Work, Start, Stop, Kill, Leave, BeginPush, BeginPull, SaveState, PushManifest, OpenFile,
        UploadFails, PullHash, Download, DownloadFails, Place, server
  <2>5. ASSUME ~(Upload(s) \/ UploadLost(s)) PROVE \A t \in Syncer : body'[t] \notin Unmade
    <3>1. CASE OpenFile(s) \/ Download(s)
      <4>1. PICK f \in todo[s] : body' = Set(body, s, local[Home[s]][f]) \/ body' = Set(body, s, canon[f])
        BY <3>1 DEF OpenFile, Download
      <4>2. local[Home[s]][f] \notin Unmade /\ canon[f] \notin Unmade
        BY HomeAssumption DEF FreshHolds
      <4> QED
        BY <4>1, <4>2 DEF Set, FreshHolds
    <3>2. body' = body \/ body' = Set(body, s, None) \/ OpenFile(s) \/ Download(s)
      BY <1>3, <2>5
      DEF StepOf, Work, Start, Stop, Kill, Leave, Reset, BeginPush, BeginPull, SaveState, PushManifest,
          UploadFails, PullHash, DownloadFails, Place, FileFails, NextFile
    <3> QED
      BY <1>2, <3>1, <3>2 DEF Set, FreshHolds
  <2> QED
    BY <1>1, <2>1, <2>2, <2>3, <2>4, <2>5 DEF FreshHolds
<1>4. ASSUME NEW c \in conflicts, Resolve(c) PROVE Elsewhere
  <2>1. UNCHANGED <<local, memory, body>> /\ conflicts' \subseteq conflicts
    BY <1>4 DEF Resolve, device, process
  <2>2. \A f \in File : canon'[f] \in {canon[f], c.body}
    BY <1>4, KeepBothAssumption DEF Resolve, ResolveLocal, ResolveRemote, ResolveKeepBoth, Files
  <2> QED
    BY <1>1, <2>1, <2>2 DEF FreshHolds
<1>5. ASSUME NEW d \in Device, Launch(d) \/ Exit(d) PROVE Elsewhere
  <2>1. UNCHANGED <<local, canon, conflicts, body>>
    BY <1>5 DEF Launch, Exit, server, process
  <2>2. \A e \in Device, f \in File : memory'[e][f] \in {memory[e][f], local[e][f], None}
    BY <1>5, LoadedFrom
  <2>3. \A e \in Device, f \in File : memory'[e][f] \notin Unmade
    BY <1>2, <2>2 DEF FreshHolds
  <2> QED
    BY <1>1, <2>1, <2>3 DEF FreshHolds
<1>6. ASSUME NEW d \in Device, NEW f \in File, WriteSave(d, f) PROVE Elsewhere
  <2>1. UNCHANGED <<canon, conflicts, body>>
    BY <1>6 DEF WriteSave, server, process
  <2>2. \A e \in Device, g \in File :
            local'[e][g] \in {local[e][g], made + 1} /\ memory'[e][g] \in {memory[e][g], made + 1}
    BY <1>6 DEF WriteSave, Files
  <2>3. made + 1 \notin Unmade'
    BY <1>6, WritingKeeps
  <2> QED
    BY <1>1, <2>1, <2>2, <2>3 DEF FreshHolds
<1> QED
  BY <1>3, <1>4, <1>5, <1>6 DEF Next, StepOf

-----------------------------------------------------------------------------
(* Heads.                                                                  *)

\* An upload sends the save, as what it is.
LEMMA Uploads ==
    ASSUME Holds, TurnsHold, NEW s \in Syncer, Upload(s) \/ UploadLost(s)
    PROVE  /\ pc[s] = "put" /\ pc'[s] = "push"
           /\ file[s] \in File /\ body[s] \in Version /\ body[s] # None
           /\ hashes[s][file[s]] = body[s] /\ body[s] = local[Home[s]][file[s]]
           /\ UNCHANGED <<local, saved, running, memory, hashes, manifest, made, includes, unsent>>
           /\ Put(Home[s], file[s], body[s], body[s], base[s][file[s]])
           /\ todo'[s] = todo[s] \ {file[s]}
<1>1. pc[s] = "put" /\ NextFile(s, "push") /\ UNCHANGED <<device, hashes, manifest>>
      /\ Put(Home[s], file[s], hashes[s][file[s]], body[s], base[s][file[s]])
  BY DEF Upload, UploadLost, FileFails, At
<1>2. file[s] \in File /\ body[s] \in Version /\ body[s] # None
  BY <1>1, Sent, NoneAssumption DEF At
<1>3. hashes[s][file[s]] = body[s] /\ hashes[s] = local[Home[s]]
  BY <1>1 DEF TurnsHold
<1>4. pc'[s] = "push" /\ todo'[s] = todo[s] \ {file[s]}
  BY <1>1 DEF NextFile, Goto, Set, Holds, TypeOK
<1>5. UNCHANGED <<made, includes, unsent>>
  BY <1>1 DEF Put
<1> QED
  BY <1>1, <1>2, <1>3, <1>4, <1>5 DEF device

\* Only uploads and resolutions change what the server has.
LEMMA ServerChanges ==
    ASSUME Next
    PROVE  \/ UNCHANGED <<server, blind>>
           \/ \E s \in Syncer : Upload(s) \/ UploadLost(s)
           \/ \E c \in conflicts : Resolve(c)
BY DEF Next, Start, Stop, Kill, Leave, BeginPush, BeginPull, Work, SaveState, PushManifest, OpenFile,
       UploadFails, PullHash, Download, DownloadFails, Place, Launch, Exit, WriteSave, ghost

\* What was compared with everything before is not again.
LEMMA BlindGrows == Next => blind \subseteq blind' /\ Compared' \subseteq Compared
<1> SUFFICES ASSUME Next PROVE blind \subseteq blind'
  BY DEF Compared
<1> QED
  BY ServerChanges
  DEF Upload, UploadLost, Put, Displaced, Resolve, ResolveLocal, ResolveRemote, ResolveKeepBoth

\* What is displaced unseen is not compared afterwards.
LEMMA DisplacedIs ==
    ASSUME NEW f \in File, NEW content, blind' = Displaced(f, content), f \notin blind'
    PROVE  canon[f] \in {None, content}
BY DEF Displaced

\* Whatever becomes canonical or a conflict has its own hash.
LEMMA HeadsKeep == ASSUME Holds, TurnsHold, HeadsHold, Next PROVE HeadsHold'
<1> USE DEF HeadsHold
<1>1. meta \in Files /\ canon \in Files
  BY DEF Holds, TypeOK
<1>2. ASSUME NEW s \in Syncer, Upload(s) \/ UploadLost(s) PROVE HeadsHold'
  <2>1. file[s] \in File /\ Put(Home[s], file[s], body[s], body[s], base[s][file[s]])
    BY <1>2, Uploads
  <2> QED
    BY <1>1, <2>1 DEF Put, Files
<1>3. ASSUME NEW c \in conflicts, Resolve(c) PROVE HeadsHold'
  <2>1. conflicts' \subseteq conflicts /\ c.sha = c.body
    BY <1>3 DEF Resolve
  <2>2. CASE ResolveRemote(c)
    BY <2>1, <2>2 DEF ResolveRemote
  <2>3. ASSUME NEW g \in File, meta' = [meta EXCEPT ![g] = c.sha], canon' = [canon EXCEPT ![g] = c.body]
        PROVE  HeadsHold'
    BY <1>1, <2>1, <2>3 DEF Files
  <2>4. c.file \in File /\ (ResolveKeepBoth(c) => Beside(c) \in File)
    BY BesideIs DEF Holds, TypeOK, Conflict, ResolveKeepBoth
  <2> QED
    BY <1>3, <2>2, <2>3, <2>4 DEF Resolve, ResolveLocal, ResolveKeepBoth
<1>4. CASE UNCHANGED <<server, blind>>
  BY <1>4 DEF server
<1> QED
  BY <1>2, <1>3, <1>4, ServerChanges

-----------------------------------------------------------------------------
(* What moves.                                                             *)

Settled == Holds /\ Alone /\ Remembers

\* The parts of what is assumed of a step.
LEMMA SettledParts ==
    Settled => /\ Holds /\ Alone /\ TurnsHold /\ HeadsHold /\ FreshHolds /\ IsTransitive
               /\ TracedHead /\ TracedSave /\ TracedBody /\ TracedPull
BY DEF Settled, Remembers, Traced

\* A head gives way only to a version that supersedes it.
LEMMA HeadMoves ==
    ASSUME Settled, Next, NEW f \in Compared', canon[f] # None
    PROVE  canon'[f] # None /\ (canon[f] = canon'[f] \/ canon[f] \in includes'[canon'[f]])
<1>1. f \in Compared /\ f \in File /\ f \notin blind'
  BY BlindGrows DEF Compared
<1>2. canon'[f] # None
  BY <1>1, SettledParts, StoreKeeps
<1>3. canon \in Files
  BY SettledParts DEF Holds, TypeOK
<1>4. ASSUME NEW s \in Syncer, Upload(s) \/ UploadLost(s)
      PROVE  canon[f] = canon'[f] \/ canon[f] \in includes'[canon'[f]]
  <2>1. /\ file[s] \in File /\ Put(Home[s], file[s], body[s], body[s], base[s][file[s]])
        /\ body[s] = local[Home[s]][file[s]] /\ UNCHANGED includes
    BY <1>4, Uploads, SettledParts
  <2>2. CASE f = file[s] /\ Accepts(f, base[s][f])
    <3>1. canon'[f] = body[s]
      BY <1>3, <2>1, <2>2 DEF Put, Files
    <3>2. CASE base[s][f] = None
      BY <1>1, <2>1, <2>2, <3>1, <3>2, DisplacedIs DEF Put
    <3>3. CASE base[s][f] # None
      <4>1. canon[f] = base[s][f]
        BY <1>1, <2>2, <3>3, SettledParts DEF Accepts, HeadsHold
      <4>2. Reaches(local[Home[s]][f], base[s][f])
        BY <1>1, SettledParts DEF TracedSave
      <4> QED
        BY <2>1, <2>2, <3>1, <3>3, <4>1, <4>2 DEF Reaches, Covers
    <3> QED
      BY <3>2, <3>3
  <2>3. CASE ~Accepts(file[s], base[s][file[s]])
    BY <2>1, <2>3 DEF Put
  <2>4. CASE f # file[s]
    BY <1>1, <1>3, <2>1, <2>4 DEF Put, Files
  <2> QED
    BY <2>2, <2>3, <2>4
<1>5. ASSUME NEW c \in conflicts, Resolve(c)
      PROVE  canon[f] = canon'[f] \/ canon[f] \in includes'[canon'[f]]
  <2>1. c.file \in File /\ c.body \in Version \ Unmade /\ canon[c.file] \in Version \ Unmade
    BY Resolved, SettledParts
  <2>2. CASE ResolveLocal(c)
    BY <1>3, <2>1, <2>2 DEF ResolveLocal, Superseding, Files
  <2>3. CASE ResolveRemote(c)
    BY <2>3 DEF ResolveRemote
  <2>4. CASE ResolveKeepBoth(c)
    BY <1>1, <1>3, <2>4, DisplacedIs, KeepBothAssumption DEF ResolveKeepBoth, Files
  <2> QED
    BY <1>5, <2>2, <2>3, <2>4 DEF Resolve
<1>6. CASE UNCHANGED <<server, blind>>
  BY <1>6 DEF server
<1> QED
  BY <1>2, <1>4, <1>5, <1>6, ServerChanges

\* A save gives way to a download, or to a version that was made from it.
LEMMA SaveMoves ==
    ASSUME Settled, Next, NEW d \in Device, NEW f \in File \ Leftover
    PROVE  \/ local'[d][f] = local[d][f]
           \/ \E s \in Syncer : Home[s] = d /\ Place(s) /\ file[s] = f /\ local'[d][f] = body[s]
           \/ /\ d \in unsent' /\ UNCHANGED <<saved, pc, base, manifest, todo, clean>>
              /\ local[d][f] # None =>
                    local'[d][f] # None /\ local[d][f] \in includes'[local'[d][f]]
<1>1. ASSUME NEW s \in Syncer, StepOf(s), local'[d][f] # local[d][f]
      PROVE  Home[s] = d /\ Place(s) /\ file[s] = f /\ local'[d][f] = body[s]
  BY <1>1, StepWrites, SettledParts
<1>2. ASSUME NEW e \in Device, NEW g \in File, WriteSave(e, g), local'[d][f] # local[d][f]
      PROVE  /\ d \in unsent' /\ UNCHANGED <<saved, pc, base, manifest, todo, clean>>
             /\ local[d][f] # None =>
                    local'[d][f] # None /\ local[d][f] \in includes'[local'[d][f]]
  <2>1. e = d /\ g = f /\ local'[d][f] = made + 1
    BY <1>2, SettledParts DEF WriteSave, Holds, TypeOK, Files
  <2>2. memory[d] = local[d]
    BY <1>2, <2>1, SettledParts DEF WriteSave, TurnsHold
  <2>3. made + 1 \in Unmade /\ (memory[d][f] # None => memory[d][f] \in includes'[made + 1])
    BY <1>2, <2>1, WritingKeeps, SettledParts
  <2>4. made + 1 # None
    BY <2>3, UnmadeIs, SettledParts DEF Holds
  <2>5. d \in unsent' /\ UNCHANGED <<saved, pc, base, manifest, todo, clean>>
    BY <1>2, <2>1 DEF WriteSave, process
  <2> QED
    BY <2>1, <2>2, <2>3, <2>4, <2>5
<1>3. CASE local' = local
  BY <1>3
<1> QED
  BY <1>1, <1>2, <1>3 DEF Next, StepOf, Resolve, Launch, Exit, device

\* Where the base hashes of a state file come from.
LEMMA SavedFrom ==
    ASSUME Settled, Next, NEW d \in Device
    PROVE  \/ saved'[d] = saved[d]
           \/ \E s \in Syncer : Home[s] = d /\ SaveState(s) /\ saved'[d] = base[s]
<1>1. ASSUME NEW s \in Syncer, SaveState(s)
      PROVE  saved'[d] = saved[d] \/ (Home[s] = d /\ saved'[d] = base[s])
  BY <1>1, SettledParts DEF SaveState, Holds, TypeOK
<1>2. ASSUME NEW s \in Syncer, StepOf(s), ~SaveState(s) PROVE UNCHANGED saved
  BY <1>2
  DEF StepOf, Work, Start, Stop, Kill, Leave, BeginPush, BeginPull, PushManifest, OpenFile, Upload, UploadLost,
      UploadFails, PullHash, Download, DownloadFails, Place, device
<1> QED
  BY <1>1, <1>2, AroundIs DEF Next, StepOf, Around

\* Where the base hashes of a process come from: the state file, an upload that was
\* accepted, or the manifest its download was chosen by.
LEMMA BaseFrom ==
    ASSUME Settled, Next, NEW s \in Syncer, NEW f \in File
    PROVE  \/ base'[s][f] \in {None, base[s][f], saved[Home[s]][f]}
           \/ Place(s) /\ file[s] = f /\ base'[s][f] = manifest[s][f]
           \/ /\ Upload(s) /\ file[s] = f /\ UNCHANGED local
              /\ base'[s][f] = local[Home[s]][f] /\ base'[s][f] = canon'[f]
<1>1. base \in [Syncer -> Files] /\ canon \in Files
  BY SettledParts DEF Holds, TypeOK
<1>2. CASE Upload(s)
  <2>1. /\ file[s] \in File /\ Put(Home[s], file[s], body[s], body[s], base[s][file[s]])
        /\ hashes[s][file[s]] = body[s] /\ body[s] = local[Home[s]][file[s]] /\ UNCHANGED local
    BY <1>2, Uploads, SettledParts
  <2>2. base' = IF Accepts(file[s], base[s][file[s]]) THEN [base EXCEPT ![s][file[s]] = body[s]] ELSE base
    BY <1>2, <2>1 DEF Upload, Confirm, BaseSet
  <2>3. CASE Accepts(file[s], base[s][file[s]]) /\ f = file[s]
    <3>1. canon' = [canon EXCEPT ![f] = body[s]]
      BY <2>1, <2>3 DEF Put
    <3> QED
      BY <1>1, <1>2, <2>1, <2>2, <2>3, <3>1 DEF Files
  <2>4. CASE ~(Accepts(file[s], base[s][file[s]]) /\ f = file[s])
    BY <1>1, <2>2, <2>4 DEF Files
  <2> QED
    BY <2>3, <2>4
<1>3. CASE Place(s)
  BY <1>1, <1>3 DEF Place, BaseSet, Files
<1>4. ASSUME StepOf(s), ~(Upload(s) \/ Place(s)) PROVE base'[s][f] \in {None, base[s][f], saved[Home[s]][f]}
  BY <1>1, <1>4
  DEF StepOf, Work, Start, Loaded, Stop, Kill, Leave, BeginPush, BeginPull, SaveState, PushManifest, OpenFile,
      UploadLost, UploadFails, PullHash, Download, DownloadFails, Set, Nothing
<1>5. ASSUME NEW t \in Syncer, StepOf(t), t # s PROVE base'[s] = base[s]
  BY <1>5, StepIsOwn, SettledParts
<1> QED
  BY <1>2, <1>3, <1>4, <1>5, AroundIs DEF Next, StepOf, Around

\* Where the manifest of a process comes from, and that it keeps it while it pulls.
LEMMA ManifestFrom ==
    ASSUME Settled, Next, NEW s \in Syncer, NEW f \in File
    PROVE  /\ manifest'[s][f] \in {None, manifest[s][f], canon[f]}
           /\ pc'[s] \in {"pull", "place"} => manifest'[s] = manifest[s]
<1>1. manifest \in [Syncer -> Files] /\ meta[f] = canon[f] /\ pc \in [Syncer -> Steps]
  BY SettledParts DEF Holds, TypeOK, HeadsHold
<1>2. CASE StepOf(s)
  BY <1>1, <1>2
  DEF StepOf, Work, Start, Stop, Kill, Leave, Reset, BeginPush, BeginPull, Listed, SaveState, PushManifest,
      OpenFile, Upload, UploadLost, UploadFails, PullHash, Download, DownloadFails, Place, FileFails,
      NextFile, Goto, Set, Nothing
<1>3. ASSUME NEW t \in Syncer, StepOf(t), t # s PROVE manifest'[s] = manifest[s]
  BY <1>3, StepIsOwn, SettledParts
<1> QED
  BY <1>2, <1>3, AroundIs DEF Next, StepOf, Around

-----------------------------------------------------------------------------
(* Traces.                                                                 *)

\* What the head reached, the next one reaches.
LEMMA HeadReaches ==
    ASSUME Settled, Next, NEW f \in Compared', NEW x, Reaches(canon[f], x)
    PROVE  x # None => canon'[f] # None /\ (x = canon'[f] \/ x \in includes'[canon'[f]])
<1> SUFFICES ASSUME x # None
             PROVE  canon'[f] # None /\ (x = canon'[f] \/ x \in includes'[canon'[f]])
  OBVIOUS
<1>1. f \in File /\ canon[f] # None /\ canon[f] \in Version
  BY SettledParts DEF Reaches, Compared, Holds, TypeOK, Files, Known
<1>2. x = canon[f] \/ x \in includes'[canon[f]]
  BY <1>1, AncestryKeeps, SettledParts DEF Reaches, Covers
<1>3. canon'[f] # None /\ (canon[f] = canon'[f] \/ canon[f] \in includes'[canon'[f]])
  BY <1>1, HeadMoves
<1>4. IsTransitive' /\ canon'[f] \in Version
  BY <1>1, <1>3, AncestryKeeps, TypeKeeps, SettledParts DEF TypeOK, Files, Known
<1> QED
  BY <1>2, <1>3, <1>4 DEF IsTransitive

\* Hashes are handed on from what was behind the head before, or are the head.
LEMMA TracedHeadKeeps == ASSUME Settled, Next PROVE TracedHead'
<1> SUFFICES ASSUME NEW f \in Compared'
             PROVE  /\ \A d \in Device : Reaches(canon[f], saved[d][f])'
                    /\ \A s \in Syncer : Reaches(canon[f], base[s][f])' /\ Reaches(canon[f], manifest[s][f])'
  BY DEF TracedHead
<1>1. /\ f \in Compared /\ f \in File
      /\ \A s \in Syncer : Home[s] \in Device
      /\ \A d \in Device : Reaches(canon[f], saved[d][f])
      /\ \A s \in Syncer : Reaches(canon[f], base[s][f]) /\ Reaches(canon[f], manifest[s][f])
  BY BlindGrows, SettledParts, HomeAssumption DEF TracedHead, Compared
<1>2. Reaches(canon[f], canon[f]) /\ Reaches(canon[f], None)
  BY DEF Reaches, Covers
<1>3. ASSUME NEW d \in Device PROVE Reaches(canon[f], saved[d][f])'
  <2>1. PICK x : x = saved'[d][f]
    OBVIOUS
  <2>2. Reaches(canon[f], x)
    BY <1>1, <2>1, SavedFrom
  <2> QED
    BY <2>1, <2>2, HeadReaches DEF Reaches, Covers
<1>4. ASSUME NEW s \in Syncer PROVE Reaches(canon[f], base[s][f])'
  <2>1. PICK x : x = base'[s][f]
    OBVIOUS
  <2>2. Reaches(canon[f], x) \/ x = canon'[f]
    BY <1>1, <1>2, <2>1, BaseFrom
  <2> QED
    BY <2>1, <2>2, HeadReaches DEF Reaches, Covers
<1>5. ASSUME NEW s \in Syncer PROVE Reaches(canon[f], manifest[s][f])'
  <2>1. PICK x : x = manifest'[s][f]
    OBVIOUS
  <2>2. Reaches(canon[f], x)
    BY <1>1, <1>2, <2>1, ManifestFrom
  <2> QED
    BY <2>1, <2>2, HeadReaches DEF Reaches, Covers
<1> QED
  BY <1>3, <1>4, <1>5

\* What a save reached, the one that took its place reaches, unless it was downloaded.
LEMMA SaveReaches ==
    ASSUME Settled, Next, NEW d \in Device, NEW f \in File \ Leftover, NEW x, Reaches(local[d][f], x),
           \A s \in Syncer : ~(Home[s] = d /\ Place(s) /\ file[s] = f)
    PROVE  x # None => local'[d][f] # None /\ (x = local'[d][f] \/ x \in includes'[local'[d][f]])
<1> SUFFICES ASSUME x # None
             PROVE  local'[d][f] # None /\ (x = local'[d][f] \/ x \in includes'[local'[d][f]])
  OBVIOUS
<1>1. local[d][f] # None /\ local[d][f] \in Version
  BY SettledParts DEF Reaches, Holds, TypeOK, Files, Known
<1>2. x = local[d][f] \/ x \in includes'[local[d][f]]
  BY <1>1, AncestryKeeps, SettledParts DEF Reaches, Covers
<1>3. local'[d][f] # None /\ (local[d][f] = local'[d][f] \/ local[d][f] \in includes'[local'[d][f]])
  BY <1>1, SaveMoves
<1>4. IsTransitive' /\ local'[d][f] \in Version
  BY <1>3, AncestryKeeps, TypeKeeps, SettledParts DEF TypeOK, Files, Known
<1> QED
  BY <1>2, <1>3, <1>4 DEF IsTransitive

\* What is received reaches what it was received for, whatever else happens.
LEMMA PlacedReaches ==
    ASSUME Settled, Next, NEW s \in Syncer, Place(s), file[s] \in Compared'
    PROVE  /\ local'[Home[s]][file[s]] = body[s] /\ body[s] # None
           /\ UNCHANGED <<saved, includes>>
           /\ Reaches(body[s], manifest[s][file[s]]) /\ Reaches(body[s], saved[Home[s]][file[s]])
<1>1. pc[s] = "place" /\ file[s] \in Compared /\ file[s] \in File
  BY BlindGrows DEF Place, At, Compared
<1>2. /\ body[s] # None /\ body[s] \in Known /\ Home[s] \in Device /\ TypeOK
      /\ Reaches(body[s], manifest[s][file[s]]) /\ Reaches(body[s], saved[Home[s]][file[s]])
  BY <1>1, SettledParts, HomeAssumption DEF TracedBody, Holds, LoopHolds, LoopAt, TypeOK
<1>3. local'[Home[s]][file[s]] = body[s]
  BY <1>1, <1>2, WrittenIs DEF Place
<1> QED
  BY <1>2, <1>3 DEF Place, ghost

\* A device notes as base what it has, or what it got.
LEMMA TracedSaveKeeps == ASSUME Settled, Next PROVE TracedSave'
<1> SUFFICES ASSUME NEW f \in Compared'
             PROVE  /\ \A d \in Device : Reaches(local[d][f], saved[d][f])'
                    /\ \A s \in Syncer : Reaches(local[Home[s]][f], base[s][f])'
  BY DEF TracedSave
<1>1. /\ f \in Compared /\ f \in File \ Leftover
      /\ \A s \in Syncer : Home[s] \in Device
      /\ \A d \in Device : Reaches(local[d][f], saved[d][f])
      /\ \A s \in Syncer : Reaches(local[Home[s]][f], base[s][f])
      /\ \A s, t \in Syncer : Home[s] = Home[t] => s = t
  BY BlindGrows, SettledParts, HomeAssumption DEF TracedSave, Compared, Alone, OnePerDevice
<1>2. ASSUME NEW s \in Syncer, Place(s), file[s] = f
      PROVE  Reaches(local[Home[s]][f], saved[Home[s]][f])' /\ Reaches(local[Home[s]][f], base[s][f])'
  <2>1. /\ local'[Home[s]][f] = body[s] /\ UNCHANGED <<saved, includes>>
        /\ Reaches(body[s], manifest[s][f]) /\ Reaches(body[s], saved[Home[s]][f])
    BY <1>2, PlacedReaches
  <2>2. base'[s][f] = manifest[s][f]
    BY <1>1, <1>2, SettledParts DEF Place, BaseSet, Holds, TypeOK, Files
  <2> QED
    BY <2>1, <2>2 DEF Reaches, Covers
<1>3. ASSUME NEW d \in Device, \A s \in Syncer : ~(Home[s] = d /\ Place(s) /\ file[s] = f)
      PROVE  Reaches(local[d][f], saved[d][f])'
  <2>1. PICK x : x = saved'[d][f]
    OBVIOUS
  <2>2. Reaches(local[d][f], x)
    BY <1>1, <2>1, SavedFrom
  <2> QED
    BY <1>1, <1>3, <2>1, <2>2, SaveReaches DEF Reaches, Covers
<1>4. ASSUME NEW s \in Syncer, ~(Place(s) /\ file[s] = f)
      PROVE  Reaches(local[Home[s]][f], base[s][f])'
  <2>1. PICK x : x = base'[s][f]
    OBVIOUS
  <2>2. Reaches(local[Home[s]][f], x)
    <3>1. Reaches(local[Home[s]][f], local[Home[s]][f]) /\ Reaches(local[Home[s]][f], None)
      BY DEF Reaches, Covers
    <3> QED
      BY <1>1, <1>4, <2>1, <3>1, BaseFrom
  <2>3. \A t \in Syncer : ~(Home[t] = Home[s] /\ Place(t) /\ file[t] = f)
    BY <1>1, <1>4
  <2> QED
    BY <1>1, <2>1, <2>2, <2>3, SaveReaches DEF Reaches, Covers
<1>5. ASSUME NEW d \in Device PROVE Reaches(local[d][f], saved[d][f])'
  BY <1>2, <1>3
<1>6. ASSUME NEW s \in Syncer PROVE Reaches(local[Home[s]][f], base[s][f])'
  BY <1>2, <1>4
<1> QED
  BY <1>5, <1>6

\* A download sets out for what the server has now.
LEMMA TracedBodyKeeps == ASSUME Settled, Next PROVE TracedBody'
<1> SUFFICES ASSUME NEW s \in Syncer, pc'[s] = "place", file'[s] \in Compared'
             PROVE  /\ Reaches(body[s], manifest[s][file[s]])'
                    /\ Reaches(body[s], saved[Home[s]][file[s]])'
  BY DEF TracedBody
<1> DEFINE Same == /\ pc'[s] = pc[s] /\ file'[s] = file[s] /\ body'[s] = body[s]
                   /\ manifest'[s] = manifest[s] /\ saved'[Home[s]] = saved[Home[s]]
<1>1. /\ Home[s] \in Device /\ Compared' \subseteq Compared
      /\ \A v \in Version : includes[v] \subseteq includes'[v]
  BY BlindGrows, AncestryKeeps, SettledParts, HomeAssumption
<1>2. CASE Same
  <2>1. Reaches(body[s], manifest[s][file[s]]) /\ Reaches(body[s], saved[Home[s]][file[s]])
    BY <1>1, <1>2, SettledParts DEF TracedBody
  <2>2. body[s] \in Known
    BY SettledParts DEF Holds, TypeOK
  <2> QED
    BY <1>1, <1>2, <2>1, <2>2 DEF Reaches, Covers, Known
<1>3. CASE Download(s)
  <2>1. PICK f \in todo[s] : file' = Set(file, s, f) /\ body' = Set(body, s, canon[f])
    BY <1>3 DEF Download
  <2>2. /\ f \in Compared /\ file'[s] = f /\ body'[s] = canon[f]
        /\ UNCHANGED <<saved, manifest, includes>>
    BY <1>1, <1>3, <2>1, SettledParts DEF Download, Set, Holds, TypeOK, device, ghost
  <2>3. Reaches(canon[f], manifest[s][f]) /\ Reaches(canon[f], saved[Home[s]][f])
    BY <1>1, <2>2, SettledParts DEF TracedHead
  <2> QED
    BY <2>2, <2>3 DEF Reaches, Covers
<1>4. ASSUME StepOf(s), ~Download(s) PROVE FALSE
  BY <1>4, SettledParts
  DEF StepOf, Work, Start, Stop, Kill, Leave, BeginPush, BeginPull, SaveState, PushManifest, OpenFile,
      Upload, UploadLost, UploadFails, PullHash, DownloadFails, Place, FileFails, NextFile, Goto, At,
      Holds, TypeOK
<1>5. ASSUME NEW t \in Syncer, StepOf(t), t # s PROVE Same
  BY <1>1, <1>5, StepIsOwn, StepWrites, SettledParts DEF Alone, OnePerDevice
<1>6. CASE Around
  BY <1>2, <1>6, AroundIs
<1> QED
  BY <1>2, <1>3, <1>4, <1>5, <1>6 DEF Next, StepOf, Around

\* A file the pull loop has passed over or passed is as new as the manifest says.
LEMMA TracedPullKeeps == ASSUME Settled, Next PROVE TracedPull'
<1> SUFFICES ASSUME NEW s \in Syncer, pc'[s] \in {"pull", "place"}, clean'[s],
                    NEW f \in Compared' \ (Hidden \cup todo'[s])
             PROVE  Reaches(local[Home[s]][f], manifest[s][f])'
  BY DEF TracedPull
<1>1. /\ Home[s] \in Device /\ f \in Compared /\ f \in File \ Leftover
      /\ \A t \in Syncer : Home[t] = Home[s] => t = s
      /\ manifest'[s] = manifest[s]
  BY BlindGrows, ManifestFrom, SettledParts, HomeAssumption DEF Compared, Alone, OnePerDevice
<1>2. CASE Place(s) /\ file[s] = f
  BY <1>2, PlacedReaches, <1>1 DEF Reaches, Covers
<1>3. CASE ~(Place(s) /\ file[s] = f)
  <2>1. Reaches(local[Home[s]][f], manifest[s][f])
    <3>1. CASE PullHash(s)
      <4>1. f \notin ToPull(s)
        BY <3>1, SettledParts DEF PullHash, Set, Holds, TypeOK
      <4> QED
        BY <1>1, <4>1 DEF ToPull, Reaches, Covers
    <3>2. CASE pc[s] \in {"pull", "place"} /\ clean[s] /\ f \notin todo[s]
      BY <1>1, <3>2, SettledParts DEF TracedPull
    <3>3. CASE Download(s) \/ DownloadFails(s) \/ Place(s)
      <4>1. pc[s] \in {"pull", "place"} /\ clean[s] /\ f \notin todo[s]
        BY <1>3, <3>3, SettledParts
        DEF Download, DownloadFails, Place, FileFails, NextFile, Set, At, Holds, TypeOK
      <4> QED
        BY <3>2, <4>1
    <3>4. ASSUME StepOf(s), ~(PullHash(s) \/ Download(s) \/ DownloadFails(s) \/ Place(s)) PROVE FALSE
      BY <3>4, SettledParts
      DEF StepOf, Work, Start, Stop, Kill, Leave, BeginPush, BeginPull, SaveState, PushManifest, OpenFile,
          Upload, UploadLost, UploadFails, FileFails, NextFile, Goto, Holds, TypeOK
    <3>5. ASSUME NEW t \in Syncer, StepOf(t), t # s
          PROVE  pc'[s] = pc[s] /\ clean'[s] = clean[s] /\ todo'[s] = todo[s]
      BY <3>5, StepIsOwn, SettledParts
    <3> QED
      BY <3>1, <3>2, <3>3, <3>4, <3>5, AroundIs DEF Next, StepOf, Around
  <2>2. PICK x : x = manifest[s][f]
    OBVIOUS
  <2>3. x # None => local'[Home[s]][f] # None
                    /\ (x = local'[Home[s]][f] \/ x \in includes'[local'[Home[s]][f]])
    BY <1>1, <1>3, <2>1, <2>2, SaveReaches
  <2> QED
    BY <1>1, <2>2, <2>3 DEF Reaches, Covers
<1> QED
  BY <1>2, <1>3

\* All of it is inductive.
LEMMA StepRemembers == ASSUME Alone PROVE Holds /\ Remembers /\ [Next]_vars => Remembers'
<1> SUFFICES ASSUME Holds, Remembers, [Next]_vars PROVE Remembers'
  OBVIOUS
<1>1. Settled
  BY DEF Settled
<1>2. CASE Next
  <2>1. TurnsHold' /\ HeadsHold' /\ FreshHolds' /\ IsTransitive'
    BY <1>1, <1>2, SettledParts, TurnsKeep, HeadsKeep, FreshKeeps, AncestryKeeps
  <2>2. Traced'
    BY <1>1, <1>2, TracedHeadKeeps, TracedSaveKeeps, TracedBodyKeeps, TracedPullKeeps DEF Traced
  <2> QED
    BY <1>1, <1>2, <2>1, <2>2 DEF Remembers
<1>3. CASE UNCHANGED vars
  <2>1. TurnsHold' /\ HeadsHold' /\ FreshHolds' /\ IsTransitive'
    BY <1>3 DEF vars, Remembers, TurnsHold, Quiet, HeadsHold, FreshHolds, Unmade, IsTransitive
  <2>2. Traced'
    BY <1>3
    DEF vars, Remembers, Traced, TracedHead, TracedSave, TracedBody, TracedPull, Compared,
        Reaches, Covers
  <2> QED
    BY <2>1, <2>2 DEF Remembers
<1> QED
  BY <1>2, <1>3

\* What StepRemembers is for.
LEMMA SpecRemembers == ASSUME Alone PROVE Spec => [](Holds /\ Remembers)
BY InitHolds, InitRemembers, StepHolds, StepRemembers, PTL DEF Spec

-----------------------------------------------------------------------------
(* What follows.                                                           *)

\* The base hash a device sends with an upload is that of the save it has or of one
\* that save was made from: one command at a time, with no emulator running under
\* it, keeps the state file behind the save directory through kills, lost answers
\* and state files that cannot be written (syncer.go setBaseHash, saveState).
THEOREM BaseStaysBehind == ASSUME Alone PROVE Spec => []BaseIsBehindSave
<1>1. ASSUME Remembers PROVE BaseIsBehindSave
  <2> SUFFICES ASSUME NEW s \in Syncer, NEW f \in File \ Leftover, base[s][f] # None, f \notin blind
               PROVE  local[Home[s]][f] # None /\ Covers(local[Home[s]][f], base[s][f])
    BY DEF BaseIsBehindSave
  <2>1. f \in Compared
    BY DEF Compared
  <2> QED
    BY <1>1, <2>1 DEF Remembers, Traced, TracedSave, Reaches
<1> QED
  BY <1>1, SpecRemembers, PTL

\* After a pull without an error no save is older than the manifest the pull began
\* with, whatever other devices and users did to the server between the manifest
\* and the last download (syncer.go SyncBeforeLaunch).
THEOREM PullsCatchUp == ASSUME Alone PROVE Spec => []PullCatchesUp
<1>1. ASSUME Remembers PROVE PullCatchesUp
  <2> SUFFICES ASSUME NEW s \in Syncer, pc[s] = "pull", todo[s] = {}, clean[s],
                      NEW f \in File \ (blind \cup Leftover \cup Hidden), manifest[s][f] # None
               PROVE  local[Home[s]][f] # None /\ Covers(local[Home[s]][f], manifest[s][f])
    BY DEF PullCatchesUp, At
  <2>1. f \in Compared \ (Hidden \cup todo[s])
    BY DEF Compared
  <2> QED
    BY <1>1, <2>1 DEF Remembers, Traced, TracedPull, Reaches
<1> QED
  BY <1>1, SpecRemembers, PTL

\* An upload that names a base replaces only a version it was made from, whatever
\* was uploaded and resolved since the base hash was noted (storage.go WriteFile's
\* test of the base against the metadata).
THEOREM UploadsSupersede == ASSUME Alone PROVE Spec => SupersedesWhatItReplaces
<1>1. ASSUME Holds, Remembers, [Next]_vars, NEW s \in Syncer, Replaces(s), base[s][file[s]] # None,
             file[s] \notin blind \cup Leftover
      PROVE  Covers(canon'[file[s]], canon[file[s]])
  <2>1. pc[s] = "put" /\ pc'[s] = "push" /\ canon[file[s]] # None /\ canon'[file[s]] # canon[file[s]]
    BY <1>1 DEF Replaces, At
  <2>2. Next
    BY <1>1, <2>1 DEF vars
  <2>3. ~Around /\ \A t \in Syncer : StepOf(t) => t = s
    BY <1>1, <2>1, AroundIs, StepIsOwn
  <2>4. StepOf(s)
    BY <2>2, <2>3 DEF Next, StepOf, Around
  <2>5. Upload(s) \/ UploadLost(s)
    BY <2>1, <2>4
    DEF StepOf, Work, Start, Stop, Kill, Leave, BeginPush, BeginPull, SaveState, PushManifest, OpenFile,
        UploadFails, PullHash, Download, DownloadFails, Place, server
  <2>6. /\ file[s] \in File /\ Put(Home[s], file[s], body[s], body[s], base[s][file[s]])
        /\ body[s] = local[Home[s]][file[s]]
    BY <1>1, <2>5, Uploads DEF Remembers
  <2>7. Accepts(file[s], base[s][file[s]]) /\ canon'[file[s]] = body[s]
    BY <1>1, <2>1, <2>6 DEF Put, Holds, TypeOK, Files
  <2>8. canon[file[s]] = base[s][file[s]]
    BY <1>1, <2>1, <2>6, <2>7 DEF Accepts, Remembers, HeadsHold
  <2>9. Reaches(local[Home[s]][file[s]], base[s][file[s]])
    BY <1>1, <2>6 DEF Remembers, Traced, TracedSave, Compared
  <2> QED
    BY <1>1, <2>6, <2>7, <2>8, <2>9 DEF Reaches
<1>2. Holds /\ Remembers /\ [Next]_vars =>
        [\A s \in Syncer :
            Replaces(s) /\ base[s][file[s]] # None /\ file[s] \notin blind \cup Leftover =>
                Covers(canon'[file[s]], canon[file[s]])]_vars
  BY <1>1
<1> QED
  BY <1>2, SpecRemembers, PTL DEF Spec, SupersedesWhatItReplaces

-----------------------------------------------------------------------------
(* What the server has been sent.  From here on emulators may write while  *)
(* their device syncs, and an upload may have another content than its     *)
(* hash says; a device still has one process, which begins a command when  *)
(* the one before has ended (syncer.go, mu).                               *)

\* Heads, backups, and what a keep-both has written over.
Held == ({canon[f] : f \in File} \ {None}) \cup history \cup overwritten

\* The server has v or what was made from it, unless a keep-both has written over it.
Arrived(v) == \E w \in Held \cup {c.body : c \in conflicts} : Covers(w, v)

\* After u: v is u or was made from it.
After(v, u) == v # None /\ Covers(v, u)

\* What the server claims to have, under a hash that may be the wrong one.
ClaimsHold ==
    /\ \A f \in File : meta[f] # None => Arrived(meta[f])
    /\ \A c \in conflicts : Arrived(c.sha)

\* An emulator does not know of a download that went over its save, but the
\* server has what was downloaded.
MemoryHolds ==
    \A d \in Device, f \in File \ Leftover :
        running[d] /\ local[d][f] # None => Arrived(local[d][f]) \/ memory[d][f] = local[d][f]

\* What a push has hashed the server has, or it is what was written since, and
\* what will be written, that was made from it.
HashesHold ==
    \A s \in Syncer :
        pc[s] \in {"pushManifest", "push", "put"} =>
            /\ \A f \in Leftover : hashes[s][f] = local[Home[s]][f]
            /\ \A f \in File \ Leftover :
                hashes[s][f] # None =>
                    \/ Arrived(hashes[s][f])
                    \/ /\ After(local[Home[s]][f], hashes[s][f])
                       /\ running[Home[s]] => After(memory[Home[s]][f], hashes[s][f])

\* So is what it has opened.
OpenedHolds ==
    \A s \in Syncer :
        pc[s] = "put" => Arrived(hashes[s][file[s]]) \/ Covers(body[s], hashes[s][file[s]])

\* What the server has: what was downloaded, what the push loop is done with,
\* the saves of devices that have sent everything.
SentHolds ==
    /\ \A s \in Syncer : pc[s] = "place" => Arrived(body[s])
    /\ \A s \in Syncer :
        pc[s] \in {"push", "put"} /\ clean[s] =>
            \A f \in File \ todo[s] : hashes[s][f] # None => Arrived(hashes[s][f])
    /\ \A d \in Device \ unsent :
        \A f \in File \ Leftover : local[d][f] # None => Arrived(local[d][f])

Delivers ==
    /\ FreshHolds /\ IsTransitive
    /\ ClaimsHold /\ MemoryHolds /\ HashesHold /\ OpenedHolds /\ SentHolds

Sending == Holds /\ OnePerDevice /\ Delivers

\* The parts of what is assumed of a step.
LEMMA SendingParts ==
    Sending => /\ Holds /\ OnePerDevice /\ FreshHolds /\ IsTransitive
               /\ ClaimsHold /\ MemoryHolds /\ HashesHold /\ OpenedHolds /\ SentHolds
BY DEF Sending, Delivers

\* Before anything is sent there is nothing to keep.
LEMMA InitDelivers == Init => Delivers
<1> SUFFICES ASSUME Init PROVE Delivers
  OBVIOUS
<1>1. FreshHolds /\ IsTransitive
  BY InitRemembers DEF Remembers
<1>2. ClaimsHold /\ MemoryHolds /\ HashesHold /\ OpenedHolds /\ SentHolds
  BY DEF Init, ClaimsHold, MemoryHolds, HashesHold, OpenedHolds, SentHolds, Nothing
<1> QED
  BY <1>1, <1>2 DEF Delivers

\* What was made from a version stays so.
LEMMA AfterGrows ==
    ASSUME Sending, Next, NEW v \in Version, NEW u, Covers(v, u) PROVE After(v, u)'
<1>1. includes[v] \subseteq includes'[v]
  BY AncestryKeeps, SendingParts
<1> QED
  BY <1>1, NoneAssumption DEF After, Covers

\* A head that goes is backed up, or a keep-both has written over it.
LEMMA HeldGrows == ASSUME Holds, Next PROVE Held \subseteq Held'
<1>1. canon \in Files
  BY DEF Holds, TypeOK
<1>2. ASSUME NEW g \in File, NEW content, canon' = [canon EXCEPT ![g] = content],
             canon[g] \in {None} \cup history' \cup overwritten',
             history \subseteq history', overwritten \subseteq overwritten'
      PROVE  Held \subseteq Held'
  <2>1. \A f \in File : f # g => canon'[f] = canon[f]
    BY <1>1, <1>2 DEF Files
  <2> QED
    BY <1>2, <2>1 DEF Held
<1>3. CASE UNCHANGED <<canon, history, overwritten>>
  BY <1>3 DEF Held
<1>4. ASSUME NEW s \in Syncer, Upload(s) \/ UploadLost(s) PROVE Held \subseteq Held'
  <2>1. file[s] \in File /\ Put(Home[s], file[s], hashes[s][file[s]], body[s], base[s][file[s]])
    BY <1>4, Sent DEF Upload, UploadLost
  <2>2. CASE Accepts(file[s], base[s][file[s]])
    BY <1>2, <2>1, <2>2 DEF Put, BackUp
  <2>3. CASE ~Accepts(file[s], base[s][file[s]])
    BY <1>3, <2>1, <2>3 DEF Put
  <2> QED
    BY <2>2, <2>3
<1>5. ASSUME NEW c \in conflicts, Resolve(c) PROVE Held \subseteq Held'
  <2>1. CASE ResolveLocal(c)
    <3>1. c.file \in File
      BY DEF Holds, TypeOK, Conflict
    <3> QED
      BY <1>2, <2>1, <3>1 DEF ResolveLocal, BackUp
  <2>2. CASE ResolveRemote(c)
    BY <1>3, <2>2 DEF ResolveRemote
  <2>3. CASE ResolveKeepBoth(c)
    <3>1. Beside(c) \in File
      BY <2>3, BesideIs DEF ResolveKeepBoth
    <3> QED
      BY <1>2, <2>3, <3>1 DEF ResolveKeepBoth
  <2> QED
    BY <1>5, <2>1, <2>2, <2>3 DEF Resolve
<1>6. UNCHANGED <<server, blind>> /\ (\A s \in Syncer : ~Upload(s) /\ ~UploadLost(s))
      /\ (\A c \in conflicts : ~Resolve(c)) => UNCHANGED <<canon, history, overwritten>>
  BY DEF Next, Start, Stop, Kill, Leave, BeginPush, BeginPull, Work, SaveState, PushManifest, OpenFile,
         UploadFails, PullHash, Download, DownloadFails, Place, Launch, Exit, WriteSave, ghost, server
<1> QED
  BY <1>3, <1>4, <1>5, <1>6, ServerChanges

\* What has arrived stays so: the candidate of a conflict that is closed is a head,
\* or the head that was chosen over it supersedes it.
LEMMA KeptGrows ==
    ASSUME Holds, FreshHolds, IsTransitive, Next, NEW v, Arrived(v) PROVE Arrived(v)'
<1>1. PICK w \in Held \cup {c.body : c \in conflicts} : Covers(w, v)
  BY DEF Arrived
<1>2. w \in Version
  BY DEF Held, Holds, TypeOK, Conflict, Files, Known
<1>3. /\ Rooted' /\ IsTransitive' /\ \A x \in Version : includes[x] \subseteq includes'[x]
  BY AncestryKeeps
<1>4. Covers(w, v)'
  BY <1>1, <1>2, <1>3 DEF Covers
<1>5. CASE w \in Held' \cup {c.body : c \in conflicts'}
  BY <1>4, <1>5 DEF Arrived
<1>6. CASE w \notin Held' \cup {c.body : c \in conflicts'}
  <2>1. PICK c \in conflicts : w = c.body /\ c \notin conflicts'
    BY <1>1, <1>6, HeldGrows
  <2>2. ResolveRemote(c)
    <3>1. ~UNCHANGED <<server, blind>>
      BY <2>1 DEF server
    <3>2. ASSUME NEW s \in Syncer, Upload(s) \/ UploadLost(s) PROVE FALSE
      BY <2>1, <3>2 DEF Upload, UploadLost, Put
    <3>3. PICK e \in conflicts : Resolve(e)
      BY <3>1, <3>2, ServerChanges
    <3>4. e = c
      BY <2>1, <3>3 DEF Resolve
    <3>5. c.file \in File /\ c.body # None /\ canon \in Files
      BY NoneAssumption DEF Holds, TypeOK, Conflict
    <3>6. ASSUME NEW g \in File, canon' = [canon EXCEPT ![g] = c.body] PROVE FALSE
      <4>1. canon'[g] = c.body
        BY <3>5, <3>6 DEF Files
      <4> QED
        BY <1>6, <2>1, <3>5, <4>1 DEF Held
    <3> QED
      BY <3>3, <3>4, <3>5, <3>6, BesideIs DEF Resolve, ResolveLocal, ResolveKeepBoth
  <2>3. c.file \in File /\ c.body \in Version \ Unmade /\ canon[c.file] \in Version \ Unmade
    BY Resolved
  <2>4. includes' = Superseding(canon[c.file], c.body) /\ canon' = canon
    BY <2>2 DEF ResolveRemote
  <2>5. c.body \in includes'[canon[c.file]]
    BY <2>3, <2>4 DEF Superseding
  <2>6. canon[c.file] \in Held'
    BY <2>3, <2>4, NoneAssumption DEF Held
  <2>7. Covers(canon[c.file], v)'
    <3>1. v \in {w} \cup includes'[w]
      BY <1>4 DEF Covers
    <3>2. includes'[w] \subseteq includes'[canon[c.file]]
      BY <1>3, <2>1, <2>3, <2>5 DEF IsTransitive
    <3> QED
      BY <2>1, <2>4, <2>5, <3>1, <3>2 DEF Covers
  <2> QED
    BY <2>4, <2>6, <2>7 DEF Arrived
<1> QED
  BY <1>5, <1>6

\* What the server has, it keeps.
LEMMA SendingKeeps == ASSUME Sending, Next, NEW v, Arrived(v) PROVE Arrived(v)'
BY KeptGrows, SendingParts

\* An upload brings what was hashed, or what was made from it, under whichever
\* hash and to whichever place.
LEMMA UploadBrings ==
    ASSUME Sending, Next, NEW s \in Syncer, Upload(s) \/ UploadLost(s), NEW x, x = hashes[s][file[s]]
    PROVE  /\ Put(Home[s], file[s], x, body[s], base[s][file[s]]) /\ file[s] \in File
           /\ hashes' = hashes /\ Arrived(x)'
<1>1. pc[s] = "put" /\ Put(Home[s], file[s], x, body[s], base[s][file[s]]) /\ hashes' = hashes /\ file[s] \in File
  BY Sent, SendingParts DEF Upload, UploadLost, At
<1>2. CASE Arrived(x)
  BY <1>1, <1>2, SendingKeeps
<1>3. CASE Covers(body[s], x)
  <2>1. PICK b : b = body[s]
    OBVIOUS
  <2>2. b \in Held' \cup {c.body : c \in conflicts'}
    <3>1. ASSUME Accepts(file[s], base[s][file[s]]) PROVE b \in Held'
      <4>1. canon'[file[s]] = b /\ b # None
        BY <1>1, <2>1, <3>1, SendingParts, NoneAssumption, Sent DEF Put, Holds, TypeOK, Files, At
      <4> QED
        BY <1>1, <4>1 DEF Held
    <3>2. ASSUME ~Accepts(file[s], base[s][file[s]]) PROVE b \in {c.body : c \in conflicts'}
      <4>1. PICK c : c = [file |-> file[s], from |-> Home[s], sha |-> x, body |-> b]
        OBVIOUS
      <4>2. c \in conflicts' /\ c.body = b
        BY <1>1, <2>1, <3>2, <4>1 DEF Put
      <4> QED
        BY <4>2
    <3> QED
      BY <3>1, <3>2
  <2>3. Covers(b, x)'
    BY <1>1, <1>3, <2>1 DEF Put, Covers
  <2> QED
    BY <1>1, <2>2, <2>3 DEF Arrived
<1> QED
  BY <1>1, <1>2, <1>3, SendingParts DEF OpenedHolds

-----------------------------------------------------------------------------
(* Step by step.                                                           *)

\* A hash becomes the metadata's or a conflict's with what it was declared for, or
\* the metadata's as that of a conflict that is resolved.
LEMMA ClaimsKeep == ASSUME Sending, Next PROVE ClaimsHold'
<1> USE SendingParts
<1>1. meta \in Files
  BY DEF Holds, TypeOK
<1>2. ASSUME NEW f \in File, meta'[f] # None PROVE Arrived(meta[f])'
  <2>1. PICK x : x = meta'[f]
    OBVIOUS
  <2>2. CASE x = meta[f]
    BY <1>2, <2>1, <2>2, SendingKeeps DEF ClaimsHold, Arrived, Held
  <2>3. ASSUME NEW s \in Syncer, Upload(s) \/ UploadLost(s), x # meta[f] PROVE Arrived(x)'
    <3>1. PICK h : h = hashes[s][file[s]]
      OBVIOUS
    <3>2. x = h
      BY <1>1, <2>1, <2>3, <3>1, UploadBrings DEF Put, Files
    <3> QED
      BY <2>3, <3>1, <3>2, UploadBrings
  <2>4. ASSUME NEW c \in conflicts, Resolve(c), x # meta[f] PROVE Arrived(x)'
    <3>1. x = c.sha
      BY <1>1, <2>1, <2>4 DEF Resolve, ResolveLocal, ResolveRemote, ResolveKeepBoth, Files
    <3> QED
      BY <3>1, SendingKeeps DEF ClaimsHold
  <2>5. UNCHANGED <<server, blind>> => x = meta[f]
    BY <2>1 DEF server
  <2>6. Arrived(x)'
    BY <2>1, <2>2, <2>3, <2>4, <2>5, ServerChanges DEF Arrived, Held
  <2> QED
    BY <2>1, <2>6 DEF Arrived, Held
<1>3. ASSUME NEW c \in conflicts' PROVE Arrived(c.sha)'
  <2>1. PICK x : x = c.sha
    OBVIOUS
  <2>2. CASE c \in conflicts
    BY <2>1, <2>2, SendingKeeps DEF ClaimsHold, Arrived, Held
  <2>3. ASSUME NEW s \in Syncer, Upload(s) \/ UploadLost(s), c \notin conflicts PROVE Arrived(x)'
    <3>1. PICK h : h = hashes[s][file[s]]
      OBVIOUS
    <3>2. x = h
      BY <1>3, <2>1, <2>3, <3>1, UploadBrings DEF Put
    <3> QED
      BY <2>3, <3>1, <3>2, UploadBrings
  <2>4. ASSUME NEW e \in conflicts, Resolve(e) PROVE c \in conflicts
    BY <1>3, <2>4 DEF Resolve
  <2>5. UNCHANGED <<server, blind>> => c \in conflicts
    BY <1>3 DEF server
  <2>6. Arrived(x)'
    BY <2>1, <2>2, <2>3, <2>4, <2>5, ServerChanges DEF Arrived, Held
  <2> QED
    BY <2>1, <2>6 DEF Arrived, Held
<1> QED
  BY <1>2, <1>3 DEF ClaimsHold

\* How a save changes: it is downloaded, or written by the emulator.
LEMMA SaveChanges ==
    ASSUME Sending, Next, NEW d \in Device, NEW f \in File \ Leftover
    PROVE  \/ local'[d][f] = local[d][f]
           \/ \E s \in Syncer : Home[s] = d /\ Place(s) /\ local'[d][f] = body[s]
           \/ WriteSave(d, f) /\ local'[d][f] = made + 1
<1>1. ASSUME NEW s \in Syncer, StepOf(s), local'[d][f] # local[d][f]
      PROVE  Home[s] = d /\ Place(s) /\ local'[d][f] = body[s]
  BY <1>1, StepWrites, SendingParts
<1>2. ASSUME NEW e \in Device, NEW g \in File, WriteSave(e, g), local'[d][f] # local[d][f]
      PROVE  e = d /\ g = f /\ local'[d][f] = made + 1
  BY <1>2, SendingParts DEF WriteSave, Holds, TypeOK, Files
<1> QED
  BY <1>1, <1>2 DEF Next, StepOf, Resolve, Launch, Exit, device

\* What is downloaded the server has, before and after.
LEMMA PlacedIsKept ==
    ASSUME Sending, Next, NEW s \in Syncer, Place(s), NEW x, x = body[s] PROVE Arrived(x)'
<1>1. Arrived(x)
  BY SendingParts DEF SentHolds, Place, At
<1> QED
  BY <1>1, SendingKeeps

\* An emulator writes what it has in memory, and starts with what it finds.
LEMMA MemoryKeeps == ASSUME Sending, Next PROVE MemoryHolds'
<1> SUFFICES ASSUME NEW d \in Device, NEW f \in File \ Leftover, running'[d], local'[d][f] # None
             PROVE  Arrived(local[d][f])' \/ memory'[d][f] = local'[d][f]
  BY DEF MemoryHolds
<1> USE SendingParts
<1>1. PICK x : x = local'[d][f]
  OBVIOUS
<1>2. CASE \E s \in Syncer : Place(s) /\ x = body[s]
  <2>1. Arrived(x)'
    BY <1>2, PlacedIsKept
  <2> QED
    BY <1>1, <2>1 DEF Arrived, Held
<1>3. CASE WriteSave(d, f)
  BY <1>3 DEF WriteSave, Holds, TypeOK, Files
<1>4. CASE running[d] /\ memory'[d][f] = memory[d][f] /\ x = local[d][f]
  <2>1. Arrived(x) \/ memory[d][f] = x
    BY <1>1, <1>4 DEF MemoryHolds
  <2>2. Arrived(x) => Arrived(x)'
    BY SendingKeeps
  <2> QED
    BY <1>1, <1>4, <2>1, <2>2 DEF Arrived, Held
<1>5. ASSUME x = local[d][f], ~WriteSave(d, f)
      PROVE  memory'[d][f] = x \/ (running[d] /\ memory'[d][f] = memory[d][f])
  <2>1. ASSUME NEW s \in Syncer, StepOf(s) PROVE UNCHANGED <<running, memory>>
    BY <2>1, StepIsOwn
  <2>2. ASSUME NEW c \in conflicts, Resolve(c) PROVE UNCHANGED <<running, memory>>
    BY <2>2 DEF Resolve, device
  <2>3. ASSUME NEW e \in Device, Launch(e) \/ Exit(e)
        PROVE  memory'[d][f] = x \/ (running[d] /\ memory'[d][f] = memory[d][f])
    BY <1>5, <2>3 DEF Launch, Exit, Holds, TypeOK
  <2>4. ASSUME NEW e \in Device, NEW g \in File, WriteSave(e, g)
        PROVE  running[d] /\ memory'[d][f] = memory[d][f]
    BY <1>5, <2>4 DEF WriteSave, Holds, TypeOK, Files
  <2> QED
    BY <2>1, <2>2, <2>3, <2>4 DEF Next, StepOf
<1> QED
  BY <1>1, <1>2, <1>3, <1>4, <1>5, SaveChanges

\* While a device pushes, only its emulator writes there.
LEMMA PushingStays ==
    ASSUME Sending, Next, NEW s \in Syncer, pc[s] # "place",
           NEW f \in File, local'[Home[s]][f] # local[Home[s]][f]
    PROVE  WriteSave(Home[s], f)
<1> USE SendingParts
<1>1. Home[s] \in Device
  BY HomeAssumption
<1>2. ASSUME NEW t \in Syncer, StepOf(t) PROVE FALSE
  BY <1>1, <1>2, StepWrites, HomeAssumption DEF OnePerDevice
<1>3. ASSUME NEW e \in Device, NEW g \in File, WriteSave(e, g) PROVE e = Home[s] /\ g = f
  BY <1>1, <1>3 DEF WriteSave, Holds, TypeOK, Files
<1> QED
  BY <1>2, <1>3 DEF Next, StepOf, Resolve, Launch, Exit, device

\* What an emulator writes was made from what it has in memory, and from all that
\* that was made from.
LEMMA WrittenAfter ==
    ASSUME Sending, NEW d \in Device, NEW f \in File, WriteSave(d, f), NEW u, After(memory[d][f], u)
    PROVE  /\ local'[d][f] = made + 1 /\ memory'[d][f] = made + 1
           /\ made + 1 # None /\ u \in includes'[made + 1]
<1> USE SendingParts
<1>1. local'[d][f] = made + 1 /\ memory'[d][f] = made + 1
  BY DEF WriteSave, Holds, TypeOK, Files
<1>2. /\ made + 1 \in Unmade /\ memory[d][f] \in includes'[made + 1]
      /\ IsTransitive' /\ \A w \in Version : includes[w] \subseteq includes'[w]
  BY WritingKeeps DEF After
<1>3. made + 1 \in Version /\ made + 1 # None /\ memory[d][f] \in Version
  BY <1>2, UnmadeIs DEF Holds, TypeOK, Files, Known, After
<1>4. includes'[memory[d][f]] \subseteq includes'[made + 1]
  BY <1>2, <1>3 DEF IsTransitive
<1> QED
  BY <1>1, <1>2, <1>3, <1>4 DEF After, Covers

\* What a push has hashed is in memory as long as the emulator runs on.
LEMMA HashedStays ==
    ASSUME Sending, Next, NEW s \in Syncer, pc[s] \in {"pushManifest", "push", "put"},
           NEW f \in File \ Leftover, NEW x, x = hashes[s][f], x # None
    PROVE  \/ Arrived(x)'
           \/ /\ After(local[Home[s]][f], x)'
              /\ running'[Home[s]] => After(memory[Home[s]][f], x)'
<1> DEFINE d == Home[s]
<1> USE SendingParts
<1>1. d \in Device
  BY HomeAssumption
<1>2. CASE Arrived(x)
  BY <1>2, SendingKeeps
<1>3. CASE After(local[d][f], x) /\ (running[d] => After(memory[d][f], x))
  <2>1. CASE WriteSave(d, f)
    <3>1. running[d]
      BY <2>1 DEF WriteSave
    <3> QED
      BY <1>1, <1>3, <2>1, <3>1, WrittenAfter DEF After, Covers
  <2>2. CASE ~WriteSave(d, f)
    <3>1. local'[d][f] = local[d][f]
      BY <2>2, PushingStays
    <3>2. PICK v : v = local[d][f]
      OBVIOUS
    <3>3. v \in Version /\ Covers(v, x)
      BY <1>1, <1>3, <3>2 DEF After, Holds, TypeOK, Files, Known
    <3>4. After(v, x)'
      BY <3>3, AfterGrows
    <3>5. ASSUME running'[d] PROVE After(memory[d][f], x)'
      <4>1. PICK m : m = memory'[d][f]
        OBVIOUS
      <4>2. m = v \/ (running[d] /\ m = memory[d][f])
        <5>1. ASSUME NEW t \in Syncer, StepOf(t) PROVE UNCHANGED <<running, memory>>
          BY <5>1, StepIsOwn
        <5>2. ASSUME NEW c \in conflicts, Resolve(c) PROVE UNCHANGED <<running, memory>>
          BY <5>2 DEF Resolve, device
        <5>3. ASSUME NEW e \in Device, Launch(e) \/ Exit(e)
              PROVE  m = v \/ (running[d] /\ m = memory[d][f])
          BY <1>1, <3>2, <3>5, <4>1, <5>3 DEF Launch, Exit, Holds, TypeOK
        <5>4. ASSUME NEW e \in Device, NEW g \in File, WriteSave(e, g)
              PROVE  running[d] /\ m = memory[d][f]
          BY <1>1, <2>2, <3>5, <4>1, <5>4 DEF WriteSave, Holds, TypeOK, Files
        <5> QED
          BY <3>5, <4>1, <5>1, <5>2, <5>3, <5>4 DEF Next, StepOf
      <4>3. m \in Version /\ Covers(m, x)
        BY <1>1, <1>3, <3>3, <4>2 DEF After, Holds, TypeOK, Files, Known
      <4>4. After(m, x)'
        BY <4>3, AfterGrows
      <4> QED
        BY <4>1, <4>4 DEF After, Covers
    <3> QED
      BY <3>1, <3>2, <3>4, <3>5 DEF After, Covers
  <2> QED
    BY <2>1, <2>2
<1> QED
  BY <1>2, <1>3 DEF HashesHold

\* A push begins with what is there, and goes on with what it hashed.
LEMMA HashesKeep == ASSUME Sending, Next PROVE HashesHold'
<1> SUFFICES ASSUME NEW s \in Syncer, pc'[s] \in {"pushManifest", "push", "put"}
             PROVE  /\ \A f \in Leftover : hashes'[s][f] = local'[Home[s]][f]
                    /\ \A f \in File \ Leftover :
                        hashes'[s][f] # None =>
                            \/ Arrived(hashes[s][f])'
                            \/ /\ After(local[Home[s]][f], hashes[s][f])'
                               /\ running'[Home[s]] => After(memory[Home[s]][f], hashes[s][f])'
  BY DEF HashesHold
<1> USE SendingParts
<1>1. Home[s] \in Device
  BY HomeAssumption
<1>2. CASE BeginPush(s)
  <2>1. hashes'[s] = local[Home[s]] /\ UNCHANGED <<local, running, memory, includes, canon, history, overwritten, conflicts>>
    BY <1>2 DEF BeginPush, Set, Holds, TypeOK, device, server, ghost
  <2>2. ASSUME NEW f \in File \ Leftover, hashes'[s][f] # None
        PROVE  \/ Arrived(hashes[s][f])'
               \/ /\ After(local[Home[s]][f], hashes[s][f])'
                  /\ running'[Home[s]] => After(memory[Home[s]][f], hashes[s][f])'
    BY <1>1, <2>1, <2>2 DEF MemoryHolds, After, Covers, Arrived, Held
  <2> QED
    BY <2>1, <2>2
<1>3. CASE pc[s] \in {"pushManifest", "push", "put"} /\ hashes'[s] = hashes[s]
  <2>1. ASSUME NEW f \in Leftover PROVE hashes'[s][f] = local'[Home[s]][f]
    <3>1. f \in File /\ hashes[s][f] = local[Home[s]][f]
      BY <1>3, TempType DEF HashesHold, Leftover
    <3> QED
      BY <1>3, <3>1, PushingStays DEF WriteSave
  <2>2. ASSUME NEW f \in File \ Leftover, hashes'[s][f] # None
        PROVE  \/ Arrived(hashes[s][f])'
               \/ /\ After(local[Home[s]][f], hashes[s][f])'
                  /\ running'[Home[s]] => After(memory[Home[s]][f], hashes[s][f])'
    <3>1. PICK x : x = hashes[s][f]
      OBVIOUS
    <3> QED
      BY <1>3, <2>2, <3>1, HashedStays DEF After, Covers, Arrived, Held
  <2> QED
    BY <2>1, <2>2
<1>4. ASSUME StepOf(s), ~BeginPush(s) PROVE pc[s] \in {"pushManifest", "push", "put"} /\ hashes'[s] = hashes[s]
  BY <1>4
  DEF StepOf, Work, Start, Stop, Kill, Leave, BeginPull, SaveState, PushManifest, OpenFile, Upload, UploadLost,
      UploadFails, PullHash, Download, DownloadFails, Place, FileFails, NextFile, Goto, At, Holds, TypeOK
<1>5. ASSUME NEW t \in Syncer, StepOf(t), t # s PROVE pc'[s] = pc[s] /\ hashes'[s] = hashes[s]
  BY <1>5, StepIsOwn
<1> QED
  BY <1>2, <1>3, <1>4, <1>5, AroundIs DEF Next, StepOf, Around

\* What is opened is what was hashed, or what was made from it.
LEMMA OpenedKeeps == ASSUME Sending, Next PROVE OpenedHolds'
<1> SUFFICES ASSUME NEW s \in Syncer, pc'[s] = "put"
             PROVE  Arrived(hashes[s][file[s]])' \/ Covers(body[s], hashes[s][file[s]])'
  BY DEF OpenedHolds
<1> USE SendingParts
<1>1. CASE OpenFile(s)
  <2>1. PICK f \in todo[s] : file' = Set(file, s, f) /\ body' = Set(body, s, local[Home[s]][f])
    BY <1>1 DEF OpenFile
  <2>2. /\ f \in File /\ file'[s] = f /\ body'[s] = local[Home[s]][f] /\ hashes' = hashes
        /\ UNCHANGED <<includes, canon, history, overwritten, conflicts>> /\ pc[s] = "push" /\ hashes[s][f] # None
    BY <1>1, <2>1 DEF OpenFile, Set, At, Holds, LoopHolds, LoopAt, TypeOK, server, ghost
  <2>3. Arrived(hashes[s][f]) \/ Covers(local[Home[s]][f], hashes[s][f])
    BY <2>2 DEF HashesHold, After, Covers
  <2> QED
    BY <2>2, <2>3 DEF Arrived, Held, Covers
<1>2. CASE pc[s] = "put" /\ UNCHANGED <<hashes[s], file[s], body[s]>>
  <2>1. PICK x, b : x = hashes[s][file[s]] /\ b = body[s]
    OBVIOUS
  <2>2. Arrived(x) \/ Covers(b, x)
    BY <1>2, <2>1 DEF OpenedHolds
  <2>3. Arrived(x) => Arrived(x)'
    BY SendingKeeps
  <2>4. b \in Version
    BY <1>2, <2>1, Sent DEF At
  <2>5. Covers(b, x) => After(b, x)'
    BY <2>4, AfterGrows
  <2> QED
    BY <1>2, <2>1, <2>2, <2>3, <2>5 DEF Arrived, Held, After, Covers
<1>3. ASSUME StepOf(s), ~OpenFile(s) PROVE FALSE
  BY <1>3
  DEF StepOf, Work, Start, Stop, Kill, Leave, BeginPush, BeginPull, SaveState, PushManifest, Upload, UploadLost,
      UploadFails, PullHash, Download, DownloadFails, Place, FileFails, NextFile, Goto, At, Holds, TypeOK
<1>4. ASSUME NEW t \in Syncer, StepOf(t), t # s
      PROVE  pc'[s] = pc[s] /\ UNCHANGED <<hashes[s], file[s], body[s]>>
  BY <1>4, StepIsOwn
<1> QED
  BY <1>1, <1>2, <1>3, <1>4, AroundIs DEF Next, StepOf, Around

\* What a push loop is done with, the server has.
LEMMA PushedIs ==
    ASSUME Sending, Next, NEW s \in Syncer, pc'[s] \in {"push", "put"}, clean'[s],
           NEW f \in File \ todo'[s], hashes'[s][f] # None
    PROVE  Arrived(hashes[s][f])'
<1>1. CASE PushManifest(s)
  <2>1. f \notin ToPush(s) /\ hashes' = hashes /\ UNCHANGED <<server, includes, overwritten>>
    BY <1>1, SendingParts DEF PushManifest, Set, Holds, TypeOK, ghost
  <2>2. hashes[s][f] = meta[f] /\ Arrived(meta[f])
    BY <1>1, <2>1, SendingParts DEF ToPush, ClaimsHold
  <2> QED
    BY <2>1, <2>2 DEF Arrived, Held, Covers, server
<1>2. CASE Upload(s) /\ f = file[s]
  <2>1. PICK x : x = hashes[s][f]
    OBVIOUS
  <2> QED
    BY <1>2, <2>1, UploadBrings DEF Arrived, Held
<1>3. CASE pc[s] \in {"push", "put"} /\ clean[s] /\ f \notin todo[s] /\ hashes'[s] = hashes[s]
  <2>1. PICK x : x = hashes[s][f]
    OBVIOUS
  <2>2. Arrived(x)
    BY <1>3, <2>1, SendingParts DEF SentHolds
  <2>3. Arrived(x)'
    BY <2>2, SendingKeeps
  <2> QED
    BY <1>3, <2>1, <2>3 DEF Arrived, Held
<1>4. CASE OpenFile(s) \/ (Upload(s) /\ f # file[s])
  <2>1. pc[s] \in {"push", "put"} /\ clean[s] /\ f \notin todo[s] /\ hashes'[s] = hashes[s]
    BY <1>4, SendingParts DEF OpenFile, Upload, NextFile, Set, At, Holds, TypeOK
  <2> QED
    BY <1>3, <2>1
<1>5. ASSUME StepOf(s), ~(PushManifest(s) \/ OpenFile(s) \/ Upload(s)) PROVE FALSE
  BY <1>5, SendingParts
  DEF StepOf, Work, Start, Stop, Kill, Leave, BeginPush, BeginPull, SaveState, PullHash, Download,
      DownloadFails, Place, UploadLost, UploadFails, FileFails, NextFile, Goto, Set, Holds, TypeOK
<1>6. ASSUME NEW t \in Syncer, StepOf(t), t # s
      PROVE  pc'[s] = pc[s] /\ clean'[s] = clean[s] /\ todo'[s] = todo[s] /\ hashes'[s] = hashes[s]
  BY <1>6, StepIsOwn, SendingParts
<1> QED
  BY <1>1, <1>2, <1>3, <1>4, <1>5, <1>6, AroundIs DEF Next, StepOf, Around

\* What a pull loop receives, the server has.
LEMMA ReceivedIs ==
    ASSUME Sending, Next, NEW s \in Syncer, pc'[s] = "place" PROVE Arrived(body[s])'
<1>1. CASE Download(s)
  <2>1. PICK f \in todo[s] : body' = Set(body, s, canon[f])
    BY <1>1 DEF Download
  <2>2. /\ f \in File /\ body'[s] = canon[f] /\ UNCHANGED <<server, includes>>
        /\ canon[f] # None
    BY <1>1, <2>1, SendingParts DEF Download, Set, At, Holds, LoopHolds, LoopAt, TypeOK, ghost
  <2>3. canon[f] \in Held
    BY <2>2 DEF Held
  <2> QED
    BY <2>2, <2>3 DEF Arrived, Held, Covers, server
<1>2. CASE pc[s] = "place" /\ body'[s] = body[s]
  <2>1. PICK x : x = body[s]
    OBVIOUS
  <2>2. Arrived(x)'
    BY <1>2, <2>1, SendingKeeps, SendingParts DEF SentHolds
  <2> QED
    BY <1>2, <2>1, <2>2 DEF Arrived, Held
<1>3. ASSUME StepOf(s), ~Download(s) PROVE FALSE
  BY <1>3, SendingParts
  DEF StepOf, Work, Start, Stop, Kill, Leave, BeginPush, BeginPull, SaveState, PushManifest, OpenFile,
      Upload, UploadLost, UploadFails, PullHash, DownloadFails, Place, FileFails, NextFile, Goto, At,
      Holds, TypeOK
<1>4. ASSUME NEW t \in Syncer, StepOf(t), t # s PROVE pc'[s] = pc[s] /\ body'[s] = body[s]
  BY <1>4, StepIsOwn, SendingParts
<1> QED
  BY <1>1, <1>2, <1>3, <1>4, AroundIs DEF Next, StepOf, Around

\* What a device has that has nothing to send, the server has.
LEMMA NothingUnsent ==
    ASSUME Sending, Next, NEW d \in Device \ unsent', NEW f \in File \ Leftover, local'[d][f] # None
    PROVE  Arrived(local[d][f])'
<1>1. CASE \E s \in Syncer : Place(s) /\ local'[d][f] = body[s]
  <2>1. PICK s \in Syncer : Place(s) /\ local'[d][f] = body[s]
    BY <1>1
  <2>2. PICK x : x = body[s]
    OBVIOUS
  <2>3. Arrived(x)
    BY <2>1, <2>2, SendingParts DEF SentHolds, Place, At
  <2>4. Arrived(x)'
    BY <2>3, SendingKeeps
  <2> QED
    BY <2>1, <2>2, <2>4 DEF Arrived, Held
<1>2. CASE local'[d][f] = local[d][f]
  <2>1. PICK x : x = local[d][f]
    OBVIOUS
  <2>2. Arrived(x)
    <3>1. CASE d \notin unsent
      BY <1>2, <2>1, <3>1, SendingParts DEF SentHolds
    <3>2. CASE d \in unsent
      <4>1. ASSUME NEW s \in Syncer, StepOf(s), ~SaveState(s) PROVE UNCHANGED unsent
        BY <4>1
        DEF StepOf, Work, Start, Stop, Kill, Leave, BeginPush, BeginPull, PushManifest, OpenFile, Upload,
            UploadLost, Put, UploadFails, PullHash, Download, DownloadFails, Place, ghost
      <4>2. ASSUME Around PROVE FALSE
        BY <3>2, <4>2 DEF Around, Resolve, Launch, Exit, WriteSave, ghost
      <4>3. PICK s \in Syncer : SaveState(s)
        BY <3>2, <4>1, <4>2 DEF Next, StepOf, Around
      <4>4. d = Home[s] /\ pc[s] = "push" /\ clean[s] /\ hashes[s] = local[d] /\ todo[s] = {}
        BY <3>2, <4>3 DEF SaveState, At
      <4> QED
        BY <1>2, <2>1, <4>4, SendingParts DEF SentHolds
    <3> QED
      BY <3>1, <3>2
  <2>3. Arrived(x)'
    BY <2>2, SendingKeeps
  <2> QED
    BY <1>2, <2>1, <2>3 DEF Arrived, Held
<1>3. CASE WriteSave(d, f)
  BY <1>3 DEF WriteSave
<1> QED
  BY <1>1, <1>2, <1>3, SaveChanges

\* Together.
LEMMA SentKeeps == ASSUME Sending, Next PROVE SentHolds'
BY PushedIs, ReceivedIs, NothingUnsent DEF SentHolds

\* All of it is inductive.
LEMMA StepDelivers == ASSUME OnePerDevice PROVE Holds /\ Delivers /\ [Next]_vars => Delivers'
<1> SUFFICES ASSUME Holds, Delivers, [Next]_vars PROVE Delivers'
  OBVIOUS
<1>1. Sending
  BY DEF Sending
<1>2. CASE Next
  <2>1. FreshHolds' /\ IsTransitive'
    BY <1>1, <1>2, SendingParts, FreshKeeps, AncestryKeeps
  <2> QED
    BY <1>1, <1>2, <2>1, ClaimsKeep, MemoryKeeps, HashesKeep, OpenedKeeps, SentKeeps DEF Delivers
<1>3. CASE UNCHANGED vars
  <2>1. FreshHolds' /\ IsTransitive'
    BY <1>3 DEF vars, Delivers, FreshHolds, Unmade, IsTransitive
  <2>2. ClaimsHold' /\ MemoryHolds' /\ HashesHold' /\ OpenedHolds' /\ SentHolds'
    BY <1>3
    DEF vars, Delivers, ClaimsHold, MemoryHolds, HashesHold, OpenedHolds, SentHolds, Arrived, Held, Covers, After
  <2> QED
    BY <2>1, <2>2 DEF Delivers
<1> QED
  BY <1>2, <1>3

\* What StepDelivers is for.
LEMMA SpecDelivers == ASSUME OnePerDevice PROVE Spec => [](Holds /\ Delivers)
BY InitHolds, InitDelivers, StepHolds, StepDelivers, PTL DEF Spec

\* What has arrived is kept, or a keep-both has written over it.
LEMMA HeldIs == ASSUME NEW v, Arrived(v) PROVE Kept(v) \/ WrittenOver(v)
BY DEF Arrived, Held, Kept, Stored, WrittenOver, Covers

\* After a push without an error the server has every file of the device as it was
\* when the push began: as the head, in the history, in an open conflict, or as part
\* of what a later version was made from; or a keep-both resolution has written over
\* what it was (syncer.go SyncAfterExit, storage.go:368).
THEOREM PushedStaysStored == ASSUME OnePerDevice PROVE Spec => []PushedIsStored
<1>1. ASSUME Delivers PROVE PushedIsStored
  BY <1>1, HeldIs DEF Delivers, SentHolds, PushedIsStored, At
<1> QED
  BY <1>1, SpecDelivers, PTL

\* A pull replaces nothing that was pushed and is not on the server: once a push
\* without an error has seen a device's saves, and until an emulator writes another, the
\* server has each of them, or a version that was made from it, or had it until a
\* keep-both resolution wrote over it.
THEOREM PullsKeepPushedSaves == ASSUME OnePerDevice PROVE Spec => PullKeepsPushedSaves
<1>1. ASSUME Holds, Delivers, NEW s \in Syncer, At(s, "place"), file[s] \notin Leftover, Home[s] \notin unsent
      PROVE  \/ local[Home[s]][file[s]] = None
             \/ Kept(local[Home[s]][file[s]])
             \/ WrittenOver(local[Home[s]][file[s]])
  <2>1. file[s] \in File \ Leftover /\ Home[s] \in Device \ unsent
    BY <1>1, HomeAssumption DEF At, Holds, LoopHolds, LoopAt
  <2> QED
    BY <1>1, <2>1, HeldIs DEF Delivers, SentHolds
<1>2. Holds /\ Delivers /\ [Next]_vars =>
        [\A s \in Syncer :
            At(s, "place") /\ pc'[s] = "pull" /\ local' # local
            /\ file[s] \notin Leftover /\ Home[s] \notin unsent =>
                \/ local[Home[s]][file[s]] = None
                \/ Kept(local[Home[s]][file[s]])
                \/ WrittenOver(local[Home[s]][file[s]])]_vars
  BY <1>1
<1> QED
  BY <1>2, SpecDelivers, PTL DEF Spec, PullKeepsPushedSaves
=============================================================================
