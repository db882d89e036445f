---------------------------- MODULE SetupProofs ----------------------------
(***************************************************************************)
(* Theorems about Setup, for any commands, answers and profiles.  Three    *)
(* parts make the inductive invariant: the types; the server, whose lock   *)
(* lets one PUT run at a time; and the device, where what the temporary    *)
(* file holds is known by the step of the one command that writes.  The    *)
(* last part is about commands that do not overlap.                        *)
(***************************************************************************)
EXTENDS Setup, FiniteSetTheorems, TLAPS

\* The list a device could be given, and the numbers of profiles: what came by PUT
\* is valid, what lies in the temporary file is the list of the PUT that is under
\* way, and one that is about to be answered is served.
ServerRight ==
    /\ Number > 0 => Valid(profile.doc)
    /\ put # None =>
        /\ Valid(put.doc)
        /\ put.step # "answer" => put.number = Number + 1
        /\ put.step = "rename" => profileTmp = [doc |-> put.doc, number |-> put.number]
        /\ put.step = "answer" => put.number = Number
    /\ acked <= Number

\* A list that pull-profile may install.
Installable(cfg) == cfg.emulators # << >> /\ (cfg.number > 0 => Valid(cfg.emulators))

\* The names of inodes: a command makes its own when it opens the temporary file.
InodesRight ==
    /\ tmp # "user"
    /\ tmp # None => tmp # path
    /\ \A c \in Command : c \in {path, tmp} => step[c] \in {"write", "rename", "done"}

DraftsRight ==
    \A c \in Command :
        /\ step[c] \in WritingSteps \cup {"fetch"} => draft[c] \in Config
        /\ kind[c] = "pull" /\ step[c] \in WritingSteps => Installable(draft[c])
        /\ step[c] = "ask" => kind[c] # "pull"

OneWriter ==
    \A c, d \in Command : step[c] \in WritingSteps /\ step[d] \in WritingSteps => c = d

\* What the steps of Save and of the backup find.
WriterRight ==
    \A c \in Command :
        /\ step[c] \in {"write", "rename"} => tmp # None /\ fd[c] = tmp
        /\ step[c] = "write" => data[tmp] = Torn
        /\ step[c] = "rename" => data[tmp] = Normalized(draft[c])
        /\ step[c] = "copy" => path # None /\ prev[c] = data[path]
        /\ kind[c] = "pull" /\ step[c] \in {"open", "write", "rename"} /\ path # None =>
            bak = data[path]

DeviceRight ==
    ~Overlap =>
        /\ InodesRight
        /\ OneWriter
        /\ WriterRight
        /\ path # None => data[path] # Torn

Inductive == TypeOK /\ ServerRight /\ DraftsRight /\ DeviceRight

-----------------------------------------------------------------------------
(* Configurations.                                                         *)

\* Load and Save make a configuration of a configuration.
LEMMA NormalizedType == ASSUME NEW cfg \in Config PROVE Normalized(cfg) \in Config /\ Normalized(cfg) # Torn
<1>1. Normalize(cfg.quotes) \in 0 .. Quotes
  BY BoundAssumption DEF Config, Normalize
<1>2. Normalized(cfg) \in Config
  BY <1>1 DEF Config, Normalized
<1> QED
  BY <1>2, ConfigAssumption

\* What the wizard and init write is a configuration.
LEMMA AnsweredType ==
    ASSUME NEW a \in Answers, NEW emulators \in {Bundled, << >>}
    PROVE  Answered(a, emulators) \in Config
BY PathAssumption, BoundAssumption DEF Answered, Config, Typed

\* The skeleton init writes is a configuration.
LEMMA SkeletonType == Skeleton \in Config
BY PathAssumption, BoundAssumption DEF Skeleton, Config

-----------------------------------------------------------------------------
\* The configuration was made by setup, and no command runs.
LEMMA InitInductive == Init => Inductive
<1> SUFFICES ASSUME Init PROVE Inductive
  OBVIOUS
<1>1. PICK a \in Answers :
        data = [i \in Inode |-> IF i = path THEN Normalized(Answered(a, Bundled)) ELSE Torn]
  BY DEF Init
<1>2. Normalized(Answered(a, Bundled)) \in Config /\ Normalized(Answered(a, Bundled)) # Torn
  BY AnsweredType, NormalizedType
<1>3. TypeOK
  BY <1>1, <1>2, BoundAssumption DEF Init, TypeOK, Inode, Profile, Step
<1>4. ServerRight
  BY BoundAssumption DEF Init, ServerRight, Number
<1>5. DraftsRight /\ OneWriter /\ WriterRight
  BY DEF Init, DraftsRight, OneWriter, WriterRight, WritingSteps
<1>6. InodesRight
  BY InodeAssumption DEF Init, InodesRight
<1>7. path # None => data[path] # Torn
  BY <1>1, <1>2 DEF Init, Inode
<1> QED
  BY <1>3, <1>4, <1>5, <1>6, <1>7 DEF Inductive, DeviceRight

-----------------------------------------------------------------------------
(* Types.                                                                  *)

\* The number of the profile that is served is among those that were put.
LEMMA NumberType == ASSUME TypeOK PROVE Number \in 0 .. MaxPut
BY BoundAssumption DEF TypeOK, Number, Profile

\* The steps of the commands.
LEMMA CommandType ==
    ASSUME TypeOK, DraftsRight, NEW c \in Command, Run(c) PROVE TypeOK'
<1> USE DEF TypeOK, Goto, Finish, Begin, Step, Inode, files, server
<1>1. CASE StartInit(c)
  BY <1>1, SkeletonType DEF StartInit
<1>2. CASE StartSetup(c)
  BY <1>2 DEF StartSetup
<1>3. CASE StartPull(c)
  <2>1. data[path] \in Config
    BY <1>3, InodeAssumption DEF StartPull
  <2> QED
    BY <1>3, <2>1, NormalizedType DEF StartPull
<1>4. CASE \E a \in Answers, emulators \in {Bundled, << >>} : Ask(c, a, emulators)
  BY <1>4, AnsweredType DEF Ask
<1>5. CASE Fetch(c)
  <2>1. Served \in Doc \cup {Bundled, << >>} /\ Number \in 0 .. MaxPut /\ draft[c] \in Config
    BY <1>5, NumberType DEF Fetch, Served, Profile, DraftsRight
  <2>2. [draft[c] EXCEPT !.emulators = Served, !.number = Number] \in Config
    BY <2>1 DEF Config
  <2> QED
    BY <1>5, <2>2 DEF Fetch
<1>6. CASE Backup(c)
  BY <1>6 DEF Backup
<1>7. CASE Copy(c)
  BY <1>7 DEF Copy
<1>8. CASE Open(c)
  BY <1>8 DEF Open
<1>9. CASE Write(c)
  <2>1. draft[c] \in Config
    BY <1>9 DEF Write, DraftsRight, WritingSteps
  <2>2. Normalized(draft[c]) \in Config
    BY <2>1, NormalizedType
  <2>3. PICK d \in {Normalized(draft[c]), Torn} : data' = [data EXCEPT ![fd[c]] = d]
    BY <1>9 DEF Write
  <2>4. data' \in [Inode -> Config \cup {Torn}]
    BY <2>2, <2>3
  <2> QED
    BY <1>9, <2>4 DEF Write
<1>10. CASE Rename(c)
  BY <1>10 DEF Rename
<1>11. CASE SaveFails(c)
  BY <1>11 DEF SaveFails
<1>12. CASE Stop(c)
  BY <1>12 DEF Stop
<1> QED
  BY <1>1, <1>2, <1>3, <1>4, <1>5, <1>6, <1>7, <1>8, <1>9, <1>10, <1>11, <1>12 DEF Run

\* The user and the server share little with the commands.
LEMMA UserType == ASSUME TypeOK, Edit \/ Delete PROVE TypeOK'
<1> USE DEF TypeOK, Inode, commands, server
<1>1. CASE Edit
  <2>1. data[path] \in Config
    BY <1>1, InodeAssumption DEF Edit
  <2>2. [data[path] EXCEPT !.edited = TRUE] \in Config
    BY <2>1 DEF Config
  <2> QED
    BY <1>1, <2>2 DEF Edit
<1>2. CASE Delete
  BY <1>2 DEF Delete
<1> QED
  BY <1>1, <1>2

Serving == (\E doc \in Doc : ReceivePut(doc)) \/ WriteProfile \/ RenameProfile \/ AnswerPut \/ Crash

\* The steps of the server, a stop included.
LEMMA ServingType == ASSUME TypeOK, ServerRight, Serving PROVE TypeOK'
<1> USE DEF TypeOK, ServerRight, Put, Profile, files, commands
<1>1. Number \in 0 .. MaxPut
  BY NumberType
<1>2. CASE \E doc \in Doc : ReceivePut(doc)
  BY <1>1, <1>2, BoundAssumption DEF ReceivePut
<1>3. CASE WriteProfile
  BY <1>1, <1>3, BoundAssumption DEF WriteProfile
<1>4. CASE RenameProfile
  BY <1>1, <1>4, BoundAssumption DEF RenameProfile
<1>5. CASE AnswerPut
  BY <1>1, <1>5 DEF AnswerPut
<1>6. CASE Crash
  BY <1>6 DEF Crash
<1> QED
  BY <1>2, <1>3, <1>4, <1>5, <1>6 DEF Serving

-----------------------------------------------------------------------------
(* The server.                                                             *)

\* What was acknowledged is in the file that is served, and what a stopped
\* PUT leaves is replaced by the next.
LEMMA ServingKeeps == ASSUME TypeOK, ServerRight, Serving PROVE ServerRight'
<1> USE DEF ServerRight
<1>1. Number \in 0 .. MaxPut
  BY NumberType
<1>2. CASE \E doc \in Doc : ReceivePut(doc)
  BY <1>2, ProfileAssumption DEF ReceivePut, Number, TypeOK, Put
<1>3. CASE WriteProfile
  BY <1>3 DEF WriteProfile, Number, TypeOK, Put
<1>4. CASE RenameProfile
  <2>1. /\ profile' = [doc |-> put.doc, number |-> Number + 1]
        /\ Valid(put.doc)
        /\ put'.step = "answer" /\ put'.doc = put.doc /\ put'.number = Number + 1
    BY <1>4, ProfileAssumption DEF RenameProfile, TypeOK, Put
  <2>2. [doc |-> put.doc, number |-> Number + 1] \in Profile
    BY <1>1, <1>4, BoundAssumption, ProfileAssumption DEF RenameProfile, TypeOK, Put, Profile
  <2>3. Number' = Number + 1
    BY <2>1, <2>2, ProfileAssumption DEF Number
  <2> QED
    BY <1>1, <1>4, <2>1, <2>3 DEF RenameProfile, TypeOK
<1>5. CASE AnswerPut
  BY <1>1, <1>5 DEF AnswerPut, Number
<1>6. CASE Crash
  BY <1>6 DEF Crash, Number
<1> QED
  BY <1>2, <1>3, <1>4, <1>5, <1>6 DEF Serving

-----------------------------------------------------------------------------
(* Drafts.                                                                 *)

\* A command has in its draft what it asked for or fetched, when it writes.
LEMMA CommandDrafts ==
    ASSUME TypeOK, ServerRight, DraftsRight, NEW c \in Command, Run(c) PROVE DraftsRight'
<1> SUFFICES ASSUME NEW d \in Command
             PROVE  /\ step'[d] \in WritingSteps \cup {"fetch"} => draft'[d] \in Config
                    /\ kind'[d] = "pull" /\ step'[d] \in WritingSteps => Installable(draft'[d])
                    /\ step'[d] = "ask" => kind'[d] # "pull"
  BY DEF DraftsRight
<1> USE DEF TypeOK, DraftsRight, WritingSteps, Goto, Finish, Begin
<1>1. CASE StartInit(c)
  BY <1>1, SkeletonType DEF StartInit
<1>2. CASE StartSetup(c)
  BY <1>2 DEF StartSetup
<1>3. CASE StartPull(c)
  <2>1. data[path] \in Config
    BY <1>3, InodeAssumption DEF StartPull
  <2> QED
    BY <1>3, <2>1, NormalizedType DEF StartPull
<1>4. CASE \E a \in Answers, emulators \in {Bundled, << >>} : Ask(c, a, emulators)
  BY <1>4, AnsweredType DEF Ask
<1>5. CASE Fetch(c)
  <2>1. /\ draft[c] \in Config /\ Number \in 0 .. MaxPut
        /\ Served \in Doc \cup {Bundled, << >>} /\ Served # << >>
        /\ Number > 0 => Valid(Served)
    BY <1>5, NumberType DEF Fetch, Served, Number, ServerRight, Profile
  <2>2. [draft[c] EXCEPT !.emulators = Served, !.number = Number] \in Config
    BY <2>1 DEF Config
  <2>3. Installable([draft[c] EXCEPT !.emulators = Served, !.number = Number])
    BY <2>1 DEF Config, Installable
  <2> QED
    BY <1>5, <2>1, <2>2, <2>3 DEF Fetch
<1>6. CASE Backup(c) \/ Copy(c) \/ Open(c) \/ Write(c)
  BY <1>6 DEF Backup, Copy, Open, Write
<1>7. CASE Rename(c) \/ SaveFails(c) \/ Stop(c)
  BY <1>7 DEF Rename, SaveFails, Stop
<1> QED
  BY <1>1, <1>2, <1>3, <1>4, <1>5, <1>6, <1>7 DEF Run
-----------------------------------------------------------------------------
(* The device.                                                             *)

WholeConfig == path # None => data[path] # Torn

Device == InodesRight /\ OneWriter /\ WriterRight /\ WholeConfig

\* A command that has not begun to write changes no file.
LEMMA StartsQuietly ==
    ASSUME TypeOK, Device, NEW c \in Command, StartSetup(c) \/ StartPull(c) PROVE Device'
<1>1. /\ UNCHANGED files /\ UNCHANGED <<fd, prev>>
      /\ step[c] = "idle" /\ step'[c] \in {"ask", "fetch"}
      /\ \A d \in Command \ {c} : step'[d] = step[d] /\ kind'[d] = kind[d] /\ draft'[d] = draft[d]
  BY DEF TypeOK, StartSetup, StartPull, Begin, Goto
<1> USE <1>1 DEF Device, files
<1>2. InodesRight'
  BY DEF InodesRight
<1>3. OneWriter'
  BY DEF OneWriter, WritingSteps
<1>4. WriterRight'
  BY DEF WriterRight
<1> QED
  BY <1>2, <1>3, <1>4 DEF WholeConfig

\* One begins to write where nobody writes.
LEMMA BeginsAlone ==
    ASSUME TypeOK, DraftsRight, Device, ~Overlap, NEW c \in Command,
           \/ StartInit(c) \/ Fetch(c)
           \/ \E a \in Answers, emulators \in {Bundled, << >>} : Ask(c, a, emulators)
    PROVE  Device'
<1>1. /\ UNCHANGED files /\ UNCHANGED <<fd, prev>>
      /\ step[c] \in {"idle", "fetch", "ask"} /\ step'[c] \in {"open", "backup"}
      /\ step'[c] = "open" => kind'[c] # "pull"
      /\ \A d \in Command \ {c} : step'[d] = step[d] /\ kind'[d] = kind[d] /\ draft'[d] = draft[d]
  BY DEF TypeOK, DraftsRight, StartInit, Fetch, Ask, Begin, Goto
<1>2. \A d \in Command : step[d] \notin WritingSteps
  BY DEF StartInit, Fetch, Ask, Quiet
<1> USE <1>1 DEF Device, files
<1>3. InodesRight'
  BY DEF InodesRight
<1>4. OneWriter'
  BY <1>2 DEF OneWriter, WritingSteps
<1>5. WriterRight'
  BY <1>2 DEF WriterRight, WritingSteps
<1> QED
  BY <1>3, <1>4, <1>5 DEF WholeConfig

\* The steps of the one that writes: nobody else is at any of them.
LEMMA Alone ==
    ASSUME Device, NEW c \in Command, step[c] \in WritingSteps
    PROVE  \A d \in Command \ {c} : step[d] \notin WritingSteps
BY DEF Device, OneWriter

\* The backup is made.
LEMMA BackupKeeps ==
    ASSUME TypeOK, Device, NEW c \in Command, Backup(c) \/ Copy(c) PROVE Device'
<1>1. /\ UNCHANGED <<path, tmp, data, kind, draft, fd>>
      /\ step[c] \in WritingSteps
      /\ step' = [step EXCEPT ![c] = step'[c]] /\ step'[c] \in {"copy", "open"}
  BY DEF TypeOK, Backup, Copy, Goto, WritingSteps
<1>2. \A d \in Command \ {c} : step[d] \notin WritingSteps
  BY <1>1, Alone
<1> USE <1>1, <1>2 DEF Device, TypeOK
<1>3. InodesRight'
  BY DEF InodesRight, WritingSteps, Backup, Copy
<1>4. OneWriter'
  BY DEF OneWriter, WritingSteps
<1>5. WriterRight'
  BY DEF WriterRight, WritingSteps, Backup, Copy, Goto
<1> QED
  BY <1>3, <1>4, <1>5 DEF WholeConfig

\* The temporary file is not the configuration, whoever left it there.
LEMMA OpenKeeps ==
    ASSUME TypeOK, Device, NEW c \in Command, Open(c) PROVE Device'
<1> DEFINE inode == IF tmp = None THEN c ELSE tmp
<1>1. \A d \in Command \ {c} : step[d] \notin WritingSteps
  BY Alone DEF Open, WritingSteps
<1>2. /\ inode # path /\ inode # None /\ inode # "user" /\ inode \in Inode
      /\ tmp' = inode /\ fd'[c] = inode
      /\ data' = [data EXCEPT ![inode] = Torn]
      /\ UNCHANGED <<path, bak, kind, draft, prev>>
      /\ step[c] = "open" /\ step'[c] = "write"
      /\ \A d \in Command \ {c} : step'[d] = step[d]
  BY InodeAssumption DEF Open, Goto, TypeOK, Device, InodesRight, Inode
<1> HIDE DEF inode
<1> USE <1>1, <1>2 DEF Device
<1>3. path # None => data'[path] = data[path]
  BY DEF TypeOK
<1>4. data'[inode] = Torn
  BY DEF TypeOK
<1>5. InodesRight'
  BY DEF InodesRight, inode
<1>6. OneWriter'
  BY DEF OneWriter, WritingSteps
<1>7. WriterRight'
  BY <1>3, <1>4 DEF WriterRight, WritingSteps
<1> QED
  BY <1>3, <1>5, <1>6, <1>7 DEF WholeConfig

\* What Encode writes to a fresh file is the draft.
LEMMA WriteKeeps ==
    ASSUME TypeOK, Device, NEW c \in Command, Write(c) PROVE Device'
<1>1. \A d \in Command \ {c} : step[d] \notin WritingSteps
  BY Alone DEF Write, WritingSteps
<1>2. /\ tmp # None /\ fd[c] = tmp /\ tmp # path /\ tmp \in Inode
      /\ data' = [data EXCEPT ![tmp] = Normalized(draft[c])]
      /\ UNCHANGED <<path, tmp, bak, kind, draft, fd, prev>>
      /\ step[c] = "write" /\ step'[c] = "rename"
      /\ \A d \in Command \ {c} : step'[d] = step[d]
  BY DEF Write, Goto, TypeOK, Device, InodesRight, WriterRight
<1> USE <1>1, <1>2 DEF Device
<1>3. path # None => data'[path] = data[path]
  BY DEF TypeOK
<1>4. data'[tmp] = Normalized(draft[c])
  BY DEF TypeOK
<1>5. InodesRight'
  BY DEF InodesRight
<1>6. OneWriter'
  BY DEF OneWriter, WritingSteps
<1>7. WriterRight'
  BY <1>3, <1>4 DEF WriterRight, WritingSteps
<1> QED
  BY <1>3, <1>5, <1>6, <1>7 DEF WholeConfig

\* The rename puts a whole file in place.
LEMMA RenameIsWhole ==
    ASSUME TypeOK, DraftsRight, Device, NEW c \in Command, Rename(c)
    PROVE  /\ path' = tmp /\ tmp # None
           /\ draft[c] \in Config /\ data'[tmp] = Normalized(draft[c]) /\ data'[tmp] # Torn
<1>1. /\ path' = tmp /\ tmp # None /\ tmp \in Inode
      /\ draft[c] \in Config /\ data[tmp] = Normalized(draft[c])
  BY DEF Rename, TypeOK, DraftsRight, Device, WriterRight, WritingSteps
<1>2. data'[tmp] = data[tmp]
  BY <1>1 DEF Rename
<1> QED
  BY <1>1, <1>2, NormalizedType

\* A writer ends, and nobody writes then.
LEMMA EndKeeps ==
    ASSUME TypeOK, DraftsRight, Device, NEW c \in Command, Rename(c) \/ SaveFails(c) \/ Stop(c)
    PROVE  Device'
<1>1. /\ step'[c] = "done" /\ \A d \in Command \ {c} : step'[d] = step[d] /\ kind'[d] = kind[d]
                                  /\ draft'[d] = draft[d] /\ fd'[d] = fd[d] /\ prev'[d] = prev[d]
      /\ UNCHANGED bak
  BY DEF Rename, SaveFails, Stop, Finish, Goto, TypeOK, files
<1> USE DEF Device
<1>2. OneWriter'
  BY <1>1 DEF OneWriter, WritingSteps
<1>3. CASE step[c] \in WritingSteps
  <2>1. \A d \in Command : step'[d] \notin WritingSteps
    BY <1>1, <1>3, Alone DEF WritingSteps
  <2>2. WriterRight'
    BY <2>1 DEF WriterRight, WritingSteps
  <2>3. InodesRight' /\ WholeConfig'
    <3>1. CASE Rename(c)
      BY <1>1, <3>1, RenameIsWhole, InodeAssumption DEF InodesRight, WholeConfig, Rename
    <3>2. CASE SaveFails(c)
      BY <1>1, <3>2, InodeAssumption DEF InodesRight, WholeConfig, SaveFails
    <3>3. CASE Stop(c)
      BY <1>1, <3>3 DEF InodesRight, WholeConfig, Stop, files
    <3> QED
      BY <3>1, <3>2, <3>3
  <2> QED
    BY <1>2, <2>2, <2>3
<1>4. CASE step[c] \notin WritingSteps
  <2>1. UNCHANGED files
    BY <1>4 DEF Rename, SaveFails, Stop, WritingSteps
  <2>2. InodesRight' /\ WholeConfig'
    BY <1>1, <2>1 DEF InodesRight, WholeConfig, files
  <2>3. WriterRight'
    BY <1>1, <2>1 DEF WriterRight, files
  <2> QED
    BY <1>2, <2>2, <2>3
<1> QED
  BY <1>3, <1>4

\* The user waits for those that write.
LEMMA UserKeeps ==
    ASSUME TypeOK, Device, ~Overlap, Edit \/ Delete PROVE Device'
<1>1. \A d \in Command : step[d] \notin WritingSteps
  BY DEF Edit, Delete, Quiet
<1>2. OneWriter' /\ WriterRight'
  BY <1>1 DEF Edit, Delete, commands, OneWriter, WriterRight, WritingSteps
<1>3. CASE Edit
  <2>1. data[path] \in Config
    BY <1>3, InodeAssumption DEF Edit, TypeOK, Inode
  <2>2. [data[path] EXCEPT !.edited = TRUE] \in Config
    BY <2>1 DEF Config
  <2>3. data'["user"] # Torn
    BY <1>3, <2>2, ConfigAssumption DEF Edit, TypeOK, Inode
  <2> QED
    BY <1>2, <1>3, <2>3, InodeAssumption DEF Edit, commands, Device, InodesRight, WholeConfig
<1>4. CASE Delete
  BY <1>2, <1>4, InodeAssumption DEF Delete, commands, Device, InodesRight, WholeConfig
<1> QED
  BY <1>3, <1>4

-----------------------------------------------------------------------------
(* All steps.                                                              *)

\* While a command is about to rename, only its rename changes what config.toml is.
LEMMA RenamesAlone ==
    ASSUME TypeOK, Device, ~Overlap, Next, NEW c \in Command, step[c] = "rename", path' # path
    PROVE  Rename(c)
<1>1. \A d \in Command \ {c} : step[d] \notin WritingSteps
  BY Alone DEF WritingSteps
<1>2. ~Edit /\ ~Delete
  BY DEF Edit, Delete, Quiet, WritingSteps
<1>3. ~Serving /\ ~Ended
  BY DEF Serving, ReceivePut, WriteProfile, RenameProfile, AnswerPut, Crash, Ended, vars, files
<1>4. PICK d \in Command : Run(d)
  BY <1>2, <1>3 DEF Next, Serving
<1>5. Rename(d)
  BY <1>4 DEF Run, StartInit, StartSetup, StartPull, Begin, Ask, Fetch, Backup, Copy, Open, Write,
              SaveFails, Stop, files
<1> QED
  BY <1>1, <1>5 DEF Rename, WritingSteps

\* The three parts are inductive together.
LEMMA StepInductive == Inductive /\ [Next]_vars => Inductive'
<1> SUFFICES ASSUME Inductive, [Next]_vars PROVE Inductive'
  OBVIOUS
<1> USE DEF Inductive
<1>1. CASE UNCHANGED vars
  <2>1. TypeOK' /\ ServerRight'
    BY <1>1 DEF vars, TypeOK, ServerRight, Number
  <2>2. DraftsRight' /\ DeviceRight'
    BY <1>1 DEF vars, DraftsRight, DeviceRight, InodesRight, OneWriter, WriterRight
  <2> QED
    BY <2>1, <2>2
<1>2. ASSUME NEW c \in Command, Run(c) PROVE Inductive'
  <2>1. UNCHANGED server
    BY <1>2 DEF Run, StartInit, StartSetup, StartPull, Begin, Ask, Fetch, Backup, Copy, Open,
                Write, Rename, SaveFails, Stop
  <2>2. TypeOK' /\ DraftsRight' /\ ServerRight'
    BY <1>2, <2>1, CommandType, CommandDrafts DEF server, ServerRight, Number
  <2>3. ASSUME ~Overlap PROVE Device'
    <3> Device
      BY <2>3 DEF DeviceRight, Device, WholeConfig
    <3>1. CASE StartSetup(c) \/ StartPull(c)
      BY <3>1, StartsQuietly
    <3>2. CASE \/ StartInit(c) \/ Fetch(c)
               \/ \E a \in Answers, emulators \in {Bundled, << >>} : Ask(c, a, emulators)
      BY <2>3, <3>2, BeginsAlone
    <3>3. CASE Backup(c) \/ Copy(c)
      BY <3>3, BackupKeeps
    <3>4. CASE Open(c)
      BY <3>4, OpenKeeps
    <3>5. CASE Write(c)
      BY <3>5, WriteKeeps
    <3>6. CASE Rename(c) \/ SaveFails(c) \/ Stop(c)
      BY <3>6, EndKeeps
    <3> QED
      BY <1>2, <3>1, <3>2, <3>3, <3>4, <3>5, <3>6 DEF Run
  <2> QED
    BY <2>2, <2>3 DEF DeviceRight, Device, WholeConfig
<1>3. CASE Edit \/ Delete
  <2>1. UNCHANGED <<commands, server>>
    BY <1>3 DEF Edit, Delete
  <2>2. TypeOK' /\ DraftsRight' /\ ServerRight'
    BY <1>3, <2>1, UserType DEF commands, server, DraftsRight, ServerRight, Number
  <2>3. ASSUME ~Overlap PROVE Device'
    BY <1>3, <2>3, UserKeeps DEF DeviceRight, Device, WholeConfig
  <2> QED
    BY <2>2, <2>3 DEF DeviceRight, Device, WholeConfig
<1>4. CASE Serving
  <2>1. UNCHANGED <<files, commands>>
    BY <1>4 DEF Serving, ReceivePut, WriteProfile, RenameProfile, AnswerPut, Crash
  <2>2. DraftsRight' /\ DeviceRight'
    BY <2>1 DEF files, commands, DraftsRight, DeviceRight, InodesRight, OneWriter, WriterRight
  <2> QED
    BY <1>4, <2>2, ServingType, ServingKeeps
<1> QED
  BY <1>1, <1>2, <1>3, <1>4 DEF Next, Ended, Serving

\* The invariant holds in every state of every behaviour.
THEOREM InductiveCorrect == Spec => []Inductive
BY InitInductive, StepInductive, PTL DEF Spec

\* Types: among them, that what Save writes and pull-profile reads is always a
\* configuration.
THEOREM TypeCorrect == Spec => []TypeOK
<1>1. Inductive => TypeOK
  BY DEF Inductive
<1> QED
  BY <1>1, InductiveCorrect, PTL

\* Wherever a command is killed, config.toml is whole (Save).
THEOREM ConfigStaysWhole == Spec => []ConfigIsWhole
<1>1. Inductive => ConfigIsWhole
  BY DEF Inductive, DeviceRight, ConfigIsWhole
<1> QED
  BY <1>1, InductiveCorrect, PTL

\* Of a PUT that was answered, the list is served, or a later one: its rename came
\* before the answer, and no stop of a later one undoes it (WriteProfile).
THEOREM AckedStaysServed == Spec => []AckedIsServed
<1>1. Inductive => AckedIsServed
  BY DEF Inductive, ServerRight, AckedIsServed
<1> QED
  BY <1>1, InductiveCorrect, PTL

\* What pull-profile puts in place is not empty, and of a list that came to the server
\* by PUT every entry can be used (pull_profile.go, handleAdminPutProfile).
THEOREM PulledStaysUsable == Spec => PulledIsUsable
<1> DEFINE Usable(c) ==
      kind[c] = "pull" /\ step[c] = "rename" /\ path' # path /\ ~Overlap =>
          Installable(data'[path'])
<1>1. Inductive /\ [Next]_vars => [\A c \in Command : Usable(c)]_vars
  <2> SUFFICES ASSUME Inductive, Next, NEW c \in Command,
                      kind[c] = "pull", step[c] = "rename", path' # path, ~Overlap
               PROVE  Installable(data'[path'])
    OBVIOUS
  <2>1. Device
    BY DEF Inductive, DeviceRight, Device, WholeConfig
  <2>2. Rename(c)
    BY <2>1, RenamesAlone DEF Inductive
  <2>3. /\ path' = tmp /\ draft[c] \in Config /\ data'[tmp] = Normalized(draft[c])
        /\ Installable(draft[c])
    BY <2>1, <2>2, RenameIsWhole DEF Inductive, DraftsRight, WritingSteps
  <2>4. data'[tmp].emulators = draft[c].emulators /\ data'[tmp].number = draft[c].number
    BY <2>3 DEF Normalized, Config
  <2> QED
    BY <2>3, <2>4 DEF Installable
<1>2. [\A c \in Command : Usable(c)]_vars =>
      [\A c \in Command :
        kind[c] = "pull" /\ step[c] = "rename" /\ path' # path /\ ~Overlap =>
            LET installed == data'[path']
            IN /\ installed.emulators # << >>
               /\ installed.number > 0 => Valid(installed.emulators)]_vars
  BY DEF Installable
<1> QED
  BY <1>1, <1>2, InductiveCorrect, PTL DEF Spec, PulledIsUsable

\* What pull-profile replaces is in the backup (backupConfig).
THEOREM ReplacedStaysInBak == Spec => ReplacedIsInBak
<1> DEFINE Kept(c) ==
      kind[c] = "pull" /\ step[c] = "rename" /\ path' # path /\ path # None /\ ~Overlap =>
          bak = data[path]
<1>1. Inductive /\ [Next]_vars => [\A c \in Command : Kept(c)]_vars
  BY DEF Inductive, DeviceRight, WriterRight
<1> QED
  BY <1>1, InductiveCorrect, PTL DEF Spec, ReplacedIsInBak

-----------------------------------------------------------------------------
(* Cleaned paths.                                                          *)

\* There is a least of some numbers.  Each stands for the interval below it, and
\* finite sets are well-founded under inclusion: the library's theorems on numbers
\* take an operator, this one a set.
LEMMA LeastNumber == ASSUME NEW T, T \subseteq Nat, T # {} PROVE \E x \in T : \A y \in T : x <= y
<1> DEFINE Below == {1 .. m : m \in T}
<1>1. Below \subseteq FiniteSubsetsOf(Nat) /\ Below # {}
  <2>1. \A m \in Nat : 1 .. m \subseteq Nat /\ IsFiniteSet(1 .. m)
    BY FS_Interval
  <2>2. \A m \in T : 1 .. m \in FiniteSubsetsOf(Nat)
    BY <2>1 DEF FiniteSubsetsOf
  <2> QED
    BY <2>2
<1>2. PICK s \in Below : \A r \in Below : <<r, s>> \notin StrictSubsetOrdering(Nat)
  <2> HIDE DEF Below
  <2> QED
    BY <1>1, FS_StrictSubsetOrderingWellFounded, WFMin
<1>3. PICK x \in T : s = 1 .. x
  OBVIOUS
<1>4. ASSUME NEW y \in T, y < x PROVE FALSE
  <2>1. 1 .. y \subseteq 1 .. x /\ x \in 1 .. x /\ x \notin 1 .. y /\ 1 .. y \subseteq Nat /\ 1 .. x \subseteq Nat
    BY <1>4
  <2>2. <<1 .. y, 1 .. x>> \in StrictSubsetOrdering(Nat)
    BY <2>1 DEF StrictSubsetOrdering
  <2> QED
    BY <1>2, <1>3, <2>2
<1> QED
  BY <1>4

UpTo(S, i) == {j \in S : j <= i}

\* The components that are not empty and not ".".
Blank == {"", "."}

Named(p) == {i \in DOMAIN p : p[i] \notin Blank}

\* What Clean computes, in these terms.
LEMMA CleanIs ==
    ASSUME NEW p
    PROVE  Clean(p) = [k \in 1 .. Cardinality(Named(p)) |->
                          p[CHOOSE i \in Named(p) : Cardinality(UpTo(Named(p), i)) = k]]
BY DEF Clean, Named, Blank, UpTo

Within(S, n) == \A j \in S : 1 <= j /\ j <= n

\* A set of indices is finite, and so is what it has up to one.
LEMMA UpToFinite ==
    ASSUME NEW n \in Nat, NEW S \in SUBSET Nat, Within(S, n), NEW i
    PROVE  /\ IsFiniteSet(S) /\ Cardinality(S) \in Nat
           /\ IsFiniteSet(UpTo(S, i)) /\ Cardinality(UpTo(S, i)) \in Nat
<1>1. IsFiniteSet(1 .. n)
  BY FS_Interval
<1>0. S \subseteq 1 .. n
  BY DEF Within
<1>2. UpTo(S, i) \subseteq S
  BY DEF UpTo
<1>3. IsFiniteSet(S) /\ IsFiniteSet(UpTo(S, i))
  BY <1>0, <1>1, <1>2, FS_Subset
<1> QED
  BY <1>3, FS_CardinalityType

\* Every position of the cleaned path is that of a component.
LEMMA RankIsTaken ==
    ASSUME NEW n \in Nat, NEW S \in SUBSET Nat, Within(S, n), NEW k \in 1 .. Cardinality(S)
    PROVE  \E i \in S : Cardinality(UpTo(S, i)) = k
<1> DEFINE M == {m \in 0 .. n : Cardinality(UpTo(S, m)) >= k}
<1>1. k \in Nat /\ k >= 1 /\ Cardinality(S) >= k
  BY UpToFinite
<1>2. UpTo(S, n) = S /\ UpTo(S, 0) = {}
  <2> HIDE DEF M
  <2>1. \A j \in S : j <= n /\ ~(j <= 0)
    BY DEF Within
  <2> QED
    BY <2>1, Zenon DEF UpTo
<1>3. n \in M
  BY <1>1, <1>2
<1>4. PICK m \in M : \A y \in M : m <= y
  <2>1. M \subseteq Nat /\ M # {}
    BY <1>3
  <2> HIDE DEF M
  <2> QED
    BY <2>1, LeastNumber
<1>5. m \in Nat /\ m <= n /\ Cardinality(UpTo(S, m)) >= k
  OBVIOUS
<1>6. \A y \in 0 .. n : Cardinality(UpTo(S, y)) >= k => m <= y
  BY <1>4
<1> HIDE DEF M
<1>7. m # 0
  BY <1>1, <1>2, <1>5, FS_EmptySet
<1> DEFINE l == m - 1
<1>8. l \in 0 .. n /\ ~(m <= l) /\ \A j \in S : (j <= m <=> (j <= l \/ j = m)) /\ ~(m <= l)
  BY <1>5, <1>7
<1> HIDE DEF l
<1>9. Cardinality(UpTo(S, l)) \in Nat /\ IsFiniteSet(UpTo(S, l)) /\ ~(Cardinality(UpTo(S, l)) >= k)
  BY <1>6, <1>8, UpToFinite
<1>10. m \in S
  <2>1. m \notin S => UpTo(S, m) = UpTo(S, l)
    BY <1>8, Zenon DEF UpTo
  <2> QED
    BY <1>5, <1>9, <2>1
<1>11. Cardinality(UpTo(S, m)) = Cardinality(UpTo(S, l)) + 1
  <2>1. UpTo(S, m) = UpTo(S, l) \cup {m}
    BY <1>8, <1>10 DEF UpTo
  <2>2. m \notin UpTo(S, l)
    BY <1>8 DEF UpTo
  <2> QED
    BY <1>9, <2>1, <2>2, FS_AddElement
<1> QED
  BY <1>1, <1>5, <1>9, <1>10, <1>11

\* No two components have one position.
LEMMA RankIsUnique ==
    ASSUME NEW n \in Nat, NEW S \in SUBSET Nat, Within(S, n), NEW i \in S, NEW j \in S, i < j
    PROVE  Cardinality(UpTo(S, i)) < Cardinality(UpTo(S, j))
<1>0. ~(j <= i) /\ j <= j /\ \A l \in S : l <= i => l <= j
  OBVIOUS
<1>1. UpTo(S, i) \subseteq UpTo(S, j) /\ j \in UpTo(S, j) /\ j \notin UpTo(S, i)
  BY <1>0, Zenon DEF UpTo
<1>2. IsFiniteSet(UpTo(S, j)) /\ Cardinality(UpTo(S, i)) \in Nat /\ Cardinality(UpTo(S, j)) \in Nat
  BY UpToFinite
<1> QED
  BY <1>1, <1>2, FS_Subset

\* The components Clean keeps are components, counted as the sequence counts them.
LEMMA NamedWithin ==
    ASSUME NEW A, NEW p \in Seq(A)
    PROVE  /\ Len(p) \in Nat /\ Named(p) \in SUBSET Nat /\ Within(Named(p), Len(p))
           /\ \A i \in Named(p) : p[i] \in A /\ p[i] \notin Blank
<1>1. Len(p) \in Nat /\ DOMAIN p = 1 .. Len(p) /\ \A i \in 1 .. Len(p) : p[i] \in A
  OBVIOUS
<1>2. \A i \in Named(p) : i \in 1 .. Len(p) /\ p[i] \notin Blank
  BY <1>1, Zenon DEF Named
<1>3. \A i \in Named(p) : i \in Nat /\ 1 <= i /\ i <= Len(p)
  BY <1>1, <1>2
<1> QED
  BY <1>1, <1>2, <1>3, Zenon DEF Within

\* A set of indices has at least as many elements as it has up to one.
LEMMA UpToIsLess ==
    ASSUME NEW n \in Nat, NEW S \in SUBSET Nat, Within(S, n), NEW i
    PROVE  Cardinality(UpTo(S, i)) <= Cardinality(S)
<1>1. UpTo(S, i) \subseteq S
  BY Zenon DEF UpTo
<1> QED
  BY <1>1, UpToFinite, FS_Subset

\* A cleaned path has no empty component and no ".".
LEMMA CleanIsClean ==
    ASSUME NEW A, NEW p \in Seq(A)
    PROVE  /\ Clean(p) \in Seq(A) /\ Len(Clean(p)) = Cardinality(Named(p))
           /\ \A k \in 1 .. Len(Clean(p)) : Clean(p)[k] \notin Blank
<1> DEFINE Position(k) == CHOOSE i \in Named(p) : Cardinality(UpTo(Named(p), i)) = k
           C == Cardinality(Named(p))
<1>1. Clean(p) = [k \in 1 .. C |-> p[Position(k)]]
  BY CleanIs
<1>2. C \in Nat
  BY NamedWithin, UpToFinite
<1>3. \A k \in 1 .. C : Position(k) \in Named(p)
  BY NamedWithin, RankIsTaken
<1> HIDE DEF Position, C
<1>4. \A k \in 1 .. C : p[Position(k)] \in A /\ p[Position(k)] \notin Blank
  BY <1>3, NamedWithin
<1>5. Clean(p) \in Seq(A) /\ Len(Clean(p)) = C
  BY <1>1, <1>2, <1>4
<1>6. \A k \in 1 .. C : Clean(p)[k] \notin Blank
  BY <1>1, <1>4
<1> QED
  BY <1>5, <1>6 DEF C

\* The first component stays the first.
LEMMA CleanKeepsFirst ==
    ASSUME NEW A, NEW p \in Seq(A), p # << >>, p[1] \notin Blank
    PROVE  Clean(p) # << >> /\ Clean(p)[1] = p[1]
<1> DEFINE N == Named(p)
<1>1. Len(p) \in Nat /\ N \in SUBSET Nat /\ Within(N, Len(p))
  BY NamedWithin
<1>2. 1 \in N
  <2>1. 1 \in DOMAIN p
    OBVIOUS
  <2> QED
    BY <2>1, Zenon DEF Named
<1> HIDE DEF N
<1>3. Cardinality(UpTo(N, 1)) = 1
  <2>1. \A j \in N : j <= 1 <=> j = 1
    BY <1>1 DEF Within
  <2>2. UpTo(N, 1) = {1}
    BY <1>2, <2>1, Zenon DEF UpTo
  <2> QED
    BY <2>2, FS_Singleton
<1>4. Cardinality(N) \in Nat /\ 1 <= Cardinality(N)
  BY <1>1, <1>3, UpToFinite, UpToIsLess
<1>5. \A i \in N : Cardinality(UpTo(N, i)) = 1 => i = 1
  <2> SUFFICES ASSUME NEW i \in N, i # 1 PROVE Cardinality(UpTo(N, i)) # 1
    OBVIOUS
  <2>1. 1 < i
    BY <1>1 DEF Within
  <2>2. Cardinality(UpTo(N, 1)) < Cardinality(UpTo(N, i))
    BY <1>1, <1>2, <2>1, RankIsUnique
  <2> QED
    BY <1>3, <2>2
<1>6. (CHOOSE i \in N : Cardinality(UpTo(N, i)) = 1) = 1
  BY <1>2, <1>3, <1>5
<1>7. 1 \in 1 .. Cardinality(N)
  BY <1>4
<1>8. Clean(p)[1] = p[1]
  BY <1>6, <1>7, CleanIs DEF N
<1> QED
  BY <1>4, <1>8, CleanIsClean DEF N

\* A clean path is what it is.
LEMMA CleanTwice ==
    ASSUME NEW A, NEW p \in Seq(A), \A k \in 1 .. Len(p) : p[k] \notin Blank
    PROVE  Clean(p) = p
<1> DEFINE N == Named(p)
<1>1. Len(p) \in Nat /\ DOMAIN p = 1 .. Len(p)
  OBVIOUS
<1>2. N = 1 .. Len(p)
  BY <1>1, Zenon DEF Named
<1> HIDE DEF N
<1>3. \A k \in 1 .. Len(p) : Cardinality(UpTo(N, k)) = k
  <2> SUFFICES ASSUME NEW k \in 1 .. Len(p) PROVE Cardinality(UpTo(N, k)) = k
    OBVIOUS
  <2>1. \A j \in UpTo(N, k) : j \in 1 .. k
    BY <1>1, <1>2 DEF UpTo
  <2>2. \A j \in 1 .. k : j \in UpTo(N, k)
    BY <1>1, <1>2 DEF UpTo
  <2>3. UpTo(N, k) = 1 .. k
    BY <2>1, <2>2
  <2> QED
    BY <1>1, <2>3, FS_Interval
<1>4. Cardinality(N) = Len(p)
  BY <1>1, <1>2, FS_Interval
<1>5. \A k \in 1 .. Len(p) : (CHOOSE i \in N : Cardinality(UpTo(N, i)) = k) = k
  <2> SUFFICES ASSUME NEW k \in N PROVE (CHOOSE i \in N : Cardinality(UpTo(N, i)) = k) = k
    BY <1>2
  <2>1. \A i \in N : Cardinality(UpTo(N, i)) = i
    BY <1>2, <1>3
  <2> QED
    BY <2>1, Zenon
<1>6. Clean(p) = [k \in 1 .. Len(p) |-> p[CHOOSE i \in N : Cardinality(UpTo(N, i)) = k]]
  BY <1>4, CleanIs DEF N
<1>7. Clean(p) = [k \in 1 .. Len(p) |-> p[k]]
  BY <1>5, <1>6
<1> QED
  BY <1>1, <1>7

-----------------------------------------------------------------------------
(* A path that is written with "~" is read back as it was meant.           *)

\* What paths are made of: that a literal is a string is beyond the provers.
Component == STRING \cup {"/", "home", "~"}

\* A sequence of strings is a path.
LEMMA IsPath == ASSUME NEW p \in Seq(STRING) PROVE p \in Seq(Component)
<1>1. Len(p) \in Nat /\ \A k \in 1 .. Len(p) : p[k] \in STRING
  OBVIOUS
<1>2. \A k \in 1 .. Len(p) : p[k] \in Component
  BY <1>1, Zenon DEF Component
<1> QED
  BY <1>1, <1>2

\* The home directory has two components.
LEMMA HomeIs == Home \in Seq(Component) /\ Len(Home) = 2 /\ <<"~">> \in Seq(Component)
<1>1. "/" \in Component /\ "home" \in Component /\ "~" \in Component
  BY Zenon DEF Component
<1> QED
  BY <1>1 DEF Home

\* The two components, and then those of the rest.
LEMMA Joined ==
    ASSUME NEW h \in Seq(Component), NEW r \in Seq(Component)
    PROVE  h \o r \in Seq(Component) /\ Len(h \o r) = Len(h) + Len(r)
OBVIOUS

\* What is under the home directory is shortened and expanded again.
LEMMA UnderHome ==
    ASSUME NEW r \in Seq(Component), r # << >>, \A k \in 1 .. Len(r) : r[k] \notin Blank
    PROVE  Expand(Shorten(Home \o r)) = Home \o r
<1>0. Len(r) \in Nat /\ Len(r) # 0
  OBVIOUS
<1>1. Home \o r \in Seq(Component) /\ Len(Home \o r) = Len(r) + 2 /\ Len(r) \in Nat \ {0}
  <2>1. Home \o r \in Seq(Component) /\ Len(Home \o r) = Len(Home) + Len(r)
    BY HomeIs, Joined
  <2> QED
    BY <1>0, <2>1, HomeIs
<1>2. Home \o r # Home
  BY <1>1, HomeIs
<1>3. SubSeq(Home \o r, 1, 2) = Home /\ SubSeq(Home \o r, 3, Len(Home \o r)) = r
  BY <1>1, HomeIs
<1>4. IsUnder(Home \o r, Home)
  BY <1>1, <1>3, HomeIs DEF IsUnder
<1>5. Shorten(Home \o r) = <<"~">> \o r
  BY <1>2, <1>3, <1>4, HomeIs DEF Shorten
<1>6. Len(<<"~">> \o r) = Len(r) + 1 /\ (<<"~">> \o r)[1] = "~" /\ Tail(<<"~">> \o r) = r
  BY <1>1
<1>7. Clean(r) = r
  BY CleanTwice
<1>8. Len(<<"~">> \o r) > 1
  BY <1>1, <1>6
<1>9. Expand(<<"~">> \o r) = Home \o Clean(r)
  BY <1>6, <1>8 DEF Expand
<1> QED
  BY <1>5, <1>7, <1>9

\* Setup writes what was meant, in a form from which it is read back.
LEMMA ReadBack ==
    ASSUME NEW t \in Seq(Component), t # << >>, Meant(t) # Home
    PROVE  Expand(Shorten(Meant(t))) = Meant(t)
<1>1. CASE t[1] = "/"
  <2> DEFINE m == Clean(t)
  <2>1. Meant(t) = m
    BY <1>1 DEF Meant
  <2>2. m \in Seq(Component) /\ m # << >> /\ m[1] = "/" /\ \A k \in 1 .. Len(m) : m[k] \notin Blank
    <3>1. t[1] \notin Blank
      BY <1>1 DEF Blank
    <3> QED
      BY <1>1, <3>1, CleanIsClean, CleanKeepsFirst
  <2> HIDE DEF m
  <2>3. CASE IsUnder(m, Home)
    <3> DEFINE r == SubSeq(m, 3, Len(m))
    <3>1. Len(m) > 2 /\ SubSeq(m, 1, 2) = Home
      BY <2>3, HomeIs DEF IsUnder
    <3>2. r \in Seq(Component) /\ Len(r) = Len(m) - 2 /\ \A k \in 1 .. Len(r) : r[k] = m[k + 2]
      BY <2>2, <3>1
    <3>3. \A k \in 1 .. Len(r) : k + 2 \in 1 .. Len(m)
      BY <2>2, <3>1, <3>2
    <3>5. Len(r) # 0 /\ Len(<< >>) = 0
      BY <2>2, <3>1, <3>2
    <3>6. r # << >> /\ \A k \in 1 .. Len(r) : r[k] \notin Blank
      BY <2>2, <3>2, <3>3, <3>5, Zenon
    <3>4. m = SubSeq(m, 1, 2) \o r
      BY <2>2, <3>1
    <3> HIDE DEF r
    <3> QED
      BY <2>1, <3>1, <3>2, <3>4, <3>6, UnderHome
  <2>4. CASE ~IsUnder(m, Home)
    <3>1. Shorten(m) = m
      BY <2>1, <2>4 DEF Shorten
    <3> QED
      BY <2>1, <2>2, <3>1 DEF Expand
  <2> QED
    BY <2>3, <2>4
<1>2. CASE t[1] # "/"
  <2>1. PICK s \in Seq(Component) : Meant(t) = Home \o Clean(s)
    <3>1. CASE t[1] = "~" /\ Len(t) > 1
      <4>1. Meant(t) = Home \o Clean(Tail(t))
        BY <1>2, <3>1 DEF Meant
      <4>2. Tail(t) \in Seq(Component)
        OBVIOUS
      <4> QED
        BY <4>1, <4>2
    <3>2. CASE ~(t[1] = "~" /\ Len(t) > 1)
      BY <1>2, <3>2 DEF Meant
    <3> QED
      BY <3>1, <3>2
  <2>2. Clean(s) \in Seq(Component) /\ \A k \in 1 .. Len(Clean(s)) : Clean(s)[k] \notin Blank
    BY CleanIsClean
  <2>3. Clean(s) # << >>
    <3>1. Home \o << >> = Home
      BY HomeIs
    <3> QED
      BY <2>1, <3>1
  <2> QED
    BY <2>1, <2>2, <2>3, UnderHome
<1> QED
  BY <1>1, <1>2

-----------------------------------------------------------------------------
(* What setup was told is in every configuration.                          *)

\* The sections of a configuration are what its answers meant.
Means(cfg) ==
    cfg.answers # None => cfg.answers \in Answers /\ cfg.saves = Shorten(Meant(cfg.answers.saves))

\* In the files, and in the memory of the commands that read and write them.
AllMeant ==
    /\ \A i \in Inode : data[i] # Torn => Means(data[i])
    /\ \A c \in Command : draft[c] # None => Means(draft[c])

\* Load and Save keep the sections.
LEMMA NormalizedMeans == ASSUME NEW cfg \in Config PROVE Means(Normalized(cfg)) <=> Means(cfg)
<1>1. Normalized(cfg).answers = cfg.answers /\ Normalized(cfg).saves = cfg.saves
  BY DEF Config, Normalized
<1> QED
  BY <1>1 DEF Means

\* What the wizard and init write.
LEMMA WrittenMeans ==
    /\ Means(Skeleton)
    /\ \A a \in Answers, emulators \in {Bundled, << >>} : Means(Answered(a, emulators))
BY DEF Means, Skeleton, Answered

\* At first there is nothing but what setup wrote.
LEMMA InitMeant == Init => AllMeant
<1> SUFFICES ASSUME Init PROVE AllMeant
  OBVIOUS
<1>1. PICK a \in Answers :
        data = [i \in Inode |-> IF i = path THEN Normalized(Answered(a, Bundled)) ELSE Torn]
  BY DEF Init
<1>2. Means(Normalized(Answered(a, Bundled)))
  BY WrittenMeans, AnsweredType, NormalizedMeans
<1> QED
  BY <1>1, <1>2 DEF Init, AllMeant

\* A command takes its draft from the file, from the answers and from the profile,
\* and writes it.
LEMMA CommandMeant ==
    ASSUME TypeOK, DraftsRight, AllMeant, NEW c \in Command, Run(c) PROVE AllMeant'
<1>1. /\ data \in [Inode -> Config \cup {Torn}]
      /\ draft \in [Command -> Config \cup {None}]
      /\ path \in Inode \cup {None}
      /\ \A i \in Inode : data[i] # Torn => Means(data[i])
      /\ \A d \in Command : draft[d] # None => Means(draft[d])
  BY DEF TypeOK, AllMeant
<1>2. ASSUME UNCHANGED data, NEW cfg, Means(cfg), draft' = [draft EXCEPT ![c] = cfg] PROVE AllMeant'
  BY <1>1, <1>2 DEF AllMeant
<1>3. ASSUME UNCHANGED draft, NEW i, NEW cfg \in Config \cup {Torn}, cfg # Torn => Means(cfg),
             data' = [data EXCEPT ![i] = cfg]
      PROVE  AllMeant'
  BY <1>1, <1>3 DEF AllMeant
<1>4. CASE StartInit(c)
  BY <1>2, <1>4, WrittenMeans DEF StartInit, Begin, files
<1>5. CASE StartSetup(c)
  BY <1>5 DEF StartSetup, Begin, files, AllMeant
<1>6. CASE StartPull(c)
  <2>1. data[path] \in Config /\ Means(data[path])
    BY <1>1, <1>6, InodeAssumption DEF StartPull
  <2>2. Means(Normalized(data[path]))
    BY <2>1, NormalizedMeans
  <2> QED
    BY <1>2, <1>6, <2>2 DEF StartPull, Begin, files
<1>7. CASE \E a \in Answers, emulators \in {Bundled, << >>} : Ask(c, a, emulators)
  BY <1>2, <1>7, WrittenMeans DEF Ask, files
<1>8. CASE Fetch(c)
  <2>1. draft[c] \in Config /\ draft[c] # None
    BY <1>8, ConfigAssumption DEF Fetch, DraftsRight
  <2>2. Means([draft[c] EXCEPT !.emulators = Served, !.number = Number])
    BY <1>1, <2>1 DEF Means, Config
  <2> QED
    BY <1>2, <1>8, <2>2 DEF Fetch, files
<1>9. CASE Backup(c) \/ Copy(c)
  BY <1>9 DEF Backup, Copy, AllMeant
<1>10. CASE Open(c)
  BY <1>3, <1>10 DEF Open
<1>11. CASE Write(c)
  <2>1. draft[c] \in Config /\ draft[c] # None
    BY <1>11, ConfigAssumption DEF Write, DraftsRight, WritingSteps
  <2>2. Normalized(draft[c]) \in Config /\ Means(Normalized(draft[c]))
    BY <1>1, <2>1, NormalizedType, NormalizedMeans
  <2>3. PICK d \in {Normalized(draft[c]), Torn} : data' = [data EXCEPT ![fd[c]] = d]
    BY <1>11 DEF Write
  <2> QED
    BY <1>3, <1>11, <2>2, <2>3 DEF Write
<1>12. CASE Rename(c) \/ SaveFails(c) \/ Stop(c)
  <2>1. \A i \in Inode : data'[i] \in {data[i], Torn}
    BY <1>1, <1>12 DEF Rename, SaveFails, Stop, files
  <2>2. \A d \in Command : draft'[d] \in {draft[d], None}
    BY <1>1, <1>12 DEF Rename, SaveFails, Stop, Finish
  <2> QED
    BY <1>1, <2>1, <2>2 DEF AllMeant
<1> QED
  BY <1>4, <1>5, <1>6, <1>7, <1>8, <1>9, <1>10, <1>11, <1>12 DEF Run

\* The user edits other sections.
LEMMA UserMeant == ASSUME TypeOK, AllMeant, Edit \/ Delete PROVE AllMeant'
<1>1. CASE Edit
  <2>1. /\ data \in [Inode -> Config \cup {Torn}]
        /\ data[path] \in Config /\ Means(data[path])
    BY <1>1, InodeAssumption DEF Edit, TypeOK, AllMeant
  <2>2. Means([data[path] EXCEPT !.edited = TRUE])
    BY <2>1 DEF Means, Config
  <2> QED
    BY <1>1, <2>1, <2>2 DEF Edit, AllMeant, commands
<1>2. CASE Delete
  BY <1>2 DEF Delete, AllMeant, commands
<1> QED
  BY <1>1, <1>2

\* Whoever overlaps with whom.
LEMMA SpecMeant == Spec => []AllMeant
<1>1. Inductive /\ AllMeant /\ [Next]_vars => AllMeant'
  <2> SUFFICES ASSUME Inductive, AllMeant, [Next]_vars PROVE AllMeant'
    OBVIOUS
  <2>1. CASE \E c \in Command : Run(c)
    BY <2>1, CommandMeant DEF Inductive
  <2>2. CASE Edit \/ Delete
    BY <2>2, UserMeant DEF Inductive
  <2>3. CASE Serving \/ UNCHANGED vars
    BY <2>3 DEF Serving, ReceivePut, WriteProfile, RenameProfile, AnswerPut, Crash, files, commands,
                vars, AllMeant
  <2> QED
    BY <2>1, <2>2, <2>3 DEF Next, Ended, Serving
<1> QED
  BY <1>1, InitMeant, InductiveCorrect, PTL DEF Spec

\* A device gets in and syncs what was meant, also when commands overlap: Load and
\* Save are applied to what they wrote, and strip what is there only once.  Normalize
\* strips one pair of quotes, so the administrator may have written one.
THEOREM SetupStaysUsed == ASSUME Quotes <= 1 PROVE Spec => []SetupIsUsed
<1>1. ASSUME TypeOK, AllMeant PROVE SetupIsUsed
  <2> SUFFICES ASSUME path # None, data[path] # Torn, data[path].answers # None,
                      Meant(data[path].answers.saves) # Home
               PROVE  /\ Accepted(Normalized(data[path]).quotes)
                      /\ Expand(Normalized(data[path]).saves) = Meant(data[path].answers.saves)
    BY DEF SetupIsUsed
  <2>1. data[path] \in Config /\ Means(data[path])
    BY <1>1 DEF TypeOK, AllMeant
  <2>2. Accepted(Normalized(data[path]).quotes)
    BY <2>1, BoundAssumption DEF Accepted, Normalized, Normalize, Config
  <2>3. PICK a \in Answers : a = data[path].answers /\ data[path].saves = Shorten(Meant(a.saves))
    BY <2>1 DEF Means
  <2>4. a.saves \in Seq(STRING) /\ a.saves # << >>
    BY PathAssumption DEF Typed
  <2>5. Expand(Shorten(Meant(a.saves))) = Meant(a.saves)
    BY <2>3, <2>4, IsPath, ReadBack
  <2>6. Normalized(data[path]).saves = data[path].saves
    BY <2>1 DEF Normalized, Config
  <2> QED
    BY <2>2, <2>3, <2>5, <2>6
<1> QED
  BY <1>1, TypeCorrect, SpecMeant, PTL
=============================================================================
