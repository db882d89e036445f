------------------------------- MODULE Setup -------------------------------
(***************************************************************************)
(* The configuration of a device and the emulator profile of the server:   *)
(* `emusync init`, `setup` and `pull-profile` (cmd, internal/setup) with   *)
(* Load and Save (internal/config), and the admin API's profile            *)
(* (internal/server/profile.go, admin.go).                                 *)
(*                                                                         *)
(* Commands are processes of their own.  They share the configuration      *)
(* file, the one temporary file Save writes it through, and the backup     *)
(* pull-profile makes; they wait for answers and for the network with a    *)
(* file they read before.  A user edits and deletes the file meanwhile.    *)
(*                                                                         *)
(* Of a configuration the model has the token and the saves path, the      *)
(* emulators, and whether the rest was edited.  A token is the number of   *)
(* pairs of quotes around it; a path is the sequence of its components, of *)
(* which the first may be "/" or "~".                                      *)
(***************************************************************************)
EXTENDS Naturals, Sequences, FiniteSets

CONSTANTS
    Command,        \* invocations of emusync
    Answers,        \* what users answer to setup's prompts
    Quotes,         \* pairs of quotes in EMUSYNC_AUTH_TOKEN
    Doc,            \* emulator lists an administrator may send
    Bundled,        \* DefaultEmulators
    MaxPut,         \* bound: profiles stored
    Overlap,        \* may a command touch the files between the steps of another?
    None, Torn

Home == <<"/", "home">>

ASSUME BoundAssumption == MaxPut \in Nat /\ Quotes \in Nat /\ Overlap \in BOOLEAN
ASSUME InodeAssumption == "user" \notin Command /\ None \notin Command \cup {"user", Torn}

VARIABLES
    \* files of the device
    path,       \* the inode of config.toml
    tmp,        \* that of config.toml.tmp
    data,       \* what is in each inode, which has the name of its creator
    bak,        \* config.toml.pull-profile.bak
    \* commands
    kind,
    step,
    draft,      \* the configuration a command has in memory
    fd,         \* the inode Save writes to
    prev,       \* what pull-profile read back
    \* the server's profile
    profile,
    profileTmp,
    put,        \* the PUT that holds Storage.mu
    acked       \* history: number of the last PUT that was answered

files == <<path, tmp, data, bak>>
commands == <<kind, step, draft, fd, prev>>
server == <<profile, profileTmp, put, acked>>
vars == <<path, tmp, data, bak, kind, step, draft, fd, prev, profile, profileTmp, put, acked>>

-----------------------------------------------------------------------------
(* Tokens, paths and emulator lists.                                       *)

\* Faulty variants of definitions stand before them under a name that says what
\* they do; no specification uses them.  They show which property notices.
NormalizeNothing(quotes) == quotes

\* authtoken.Normalize strips one pair.
Normalize(quotes) == IF quotes = 0 THEN 0 ELSE quotes - 1

\* What AuthMiddleware compares: EMUSYNC_AUTH_TOKEN and what a request carries
\* are both normalized.
Accepted(quotes) == Normalize(quotes) = Normalize(Quotes)

\* filepath.Join and filepath.Clean, without "..": empty components and "." go, the
\* others keep their order.  (SelectSeq, said in a way that proofs can use.)
Clean(p) ==
    LET named == {i \in DOMAIN p : p[i] \notin {"", "."}}
        UpTo(i) == {j \in named : j <= i}
    IN [k \in 1 .. Cardinality(named) |-> p[CHOOSE i \in named : Cardinality(UpTo(i)) = k]]

IsUnder(p, dir) == Len(p) > Len(dir) /\ SubSeq(p, 1, Len(dir)) = dir

\* expandPathAgainstHome: what a typed path means.
Meant(typed) ==
    CASE typed[1] = "/" -> Clean(typed)
      [] typed[1] = "~" /\ Len(typed) > 1 -> Home \o Clean(Tail(typed))
      [] OTHER -> Home \o Clean(typed)

\* ShortenHome.
Shorten(abs) ==
    CASE abs = Home -> <<"~">>
      [] IsUnder(abs, Home) -> <<"~">> \o SubSeq(abs, Len(Home) + 1, Len(abs))
      [] OTHER -> abs

\* expandHome: a lone "~" is left as it is, the name of a directory.
Expand(p) == IF p[1] = "~" /\ Len(p) > 1 THEN Home \o Clean(Tail(p)) ELSE p

\* handleAdminPutProfile: a non-empty list of complete entries, no name twice.
Valid(doc) ==
    /\ doc # << >>
    /\ \A i, j \in DOMAIN doc : i # j => doc[i].name # doc[j].name
    /\ \A i \in DOMAIN doc : doc[i].complete

Typed == [quotes : 0 .. Quotes, saves : Seq(STRING)]

\* The answers are there for the properties: what the sections were made from.  So
\* is the number of the PUT that the emulators are from; 0 when they are from none.
Config == [answers : Typed \cup {None}, quotes : 0 .. Quotes, saves : Seq(STRING),
           emulators : Doc \cup {Bundled, << >>}, number : 0 .. MaxPut, edited : BOOLEAN]

Skeleton == [answers |-> None, quotes |-> 0, saves |-> <<"~", "Emulation", "saves">>,
             emulators |-> << >>, number |-> 0, edited |-> FALSE]

Answered(a, emulators) ==
    [answers |-> a, quotes |-> a.quotes, saves |-> Shorten(Meant(a.saves)),
     emulators |-> emulators, number |-> 0, edited |-> FALSE]

\* Normalize of Config, in Load and in Save.
Normalized(cfg) == [cfg EXCEPT !.quotes = Normalize(@)]

\* What Bundled is, that every path has a component (of an empty one it is empty),
\* and that a cleaned and shortened path is a path again.
ASSUME BundledAssumption == Valid(Bundled)
ASSUME PathAssumption ==
    /\ Skeleton.saves \in Seq(STRING)
    /\ \A a \in Answers : /\ a \in Typed /\ a.saves # << >>
                          /\ Answered(a, Bundled).saves \in Seq(STRING)
ASSUME ConfigAssumption == {None, Torn} \cap Config = {}

-----------------------------------------------------------------------------
Inode == Command \cup {"user"}
Profile == [doc : Doc \cup {<< >>}, number : 0 .. MaxPut]
Step == {"idle", "ask", "fetch", "backup", "copy",
         "open", "write", "rename", "done"}
Put == [doc : Doc, number : 0 .. MaxPut, step : {"write", "rename", "answer"}]

ASSUME ProfileAssumption == None \notin Profile /\ None \notin Put

TypeOK ==
    /\ path \in Inode \cup {None}
    /\ tmp \in Inode \cup {None}
    /\ data \in [Inode -> Config \cup {Torn}]
    /\ bak \in Config \cup {Torn, None}
    /\ kind \in [Command -> {"init", "setup", "force", "pull", None}]
    /\ step \in [Command -> Step]
    /\ draft \in [Command -> Config \cup {None}]
    /\ fd \in [Command -> Inode \cup {None}]
    /\ prev \in [Command -> Config \cup {Torn, None}]
    /\ profile \in Profile \cup {None}
    /\ profileTmp \in Profile \cup {None, Torn}
    /\ put \in Put \cup {None}
    /\ acked \in 0 .. MaxPut

\* setup may have been run before, and an administrator may have left a profile by
\* hand, which nobody checks: ReadProfile takes any list of version 1.
Init ==
    /\ path \in {None, "user"}
    /\ tmp = None
    /\ \E a \in Answers :
        data = [i \in Inode |-> IF i = path THEN Normalized(Answered(a, Bundled)) ELSE Torn]
    /\ bak = None
    /\ kind = [c \in Command |-> None]
    /\ step = [c \in Command |-> "idle"]
    /\ draft = [c \in Command |-> None]
    /\ fd = [c \in Command |-> None]
    /\ prev = [c \in Command |-> None]
    /\ profile \in {None} \cup [doc : Doc \cup {<< >>}, number : {0}]
    /\ profileTmp = None
    /\ put = None
    /\ acked = 0

-----------------------------------------------------------------------------
(* Commands, up to the point where they begin to write.                    *)

WritingSteps == {"backup", "copy", "open", "write", "rename"}

Quiet == Overlap \/ \A c \in Command : step[c] \notin WritingSteps

Goto(c, s) == step' = [step EXCEPT ![c] = s]

\* The process ends, and its memory is gone.
Finish(c) ==
    /\ Goto(c, "done")
    /\ kind' = [kind EXCEPT ![c] = None]
    /\ draft' = [draft EXCEPT ![c] = None]
    /\ fd' = [fd EXCEPT ![c] = None]
    /\ prev' = [prev EXCEPT ![c] = None]

Begin(c, k) ==
    /\ step[c] = "idle"
    /\ kind' = [kind EXCEPT ![c] = k]
    /\ UNCHANGED <<files, fd, prev, server>>

StartInit(c) ==
    /\ Begin(c, "init")
    /\ path = None
    /\ Quiet
    /\ Goto(c, "open")
    /\ draft' = [draft EXCEPT ![c] = Skeleton]

\* With --force the check is left out.
StartSetup(c) ==
    /\ \/ Begin(c, "setup") /\ path = None
       \/ Begin(c, "force")
    /\ Goto(c, "ask")
    /\ UNCHANGED draft

\* PersistentPreRunE loads the configuration, which has to be whole.
StartPull(c) ==
    /\ Begin(c, "pull")
    /\ path # None
    /\ data[path] # Torn
    /\ Goto(c, "fetch")
    /\ draft' = [draft EXCEPT ![c] = Normalized(data[path])]

\* Lookup (in Discovery), which takes time and may fail, and the prompts.
Ask(c, a, emulators) ==
    /\ step[c] = "ask"
    /\ Quiet
    /\ Goto(c, "open")
    /\ draft' = [draft EXCEPT ![c] = Answered(a, emulators)]
    /\ UNCHANGED <<files, kind, fd, prev, server>>

\* What GET answers: ReadProfile has a default for a file that is missing.
Number == IF profile = None THEN 0 ELSE profile.number

Served == IF profile = None THEN Bundled ELSE profile.doc

FetchAnything(c) ==
    /\ step[c] = "fetch"
    /\ Quiet
    /\ Goto(c, "backup")
    /\ draft' = [draft EXCEPT ![c].emulators = Served, ![c].number = Number]
    /\ UNCHANGED <<files, kind, fd, prev, server>>

\* An empty list is refused.
Fetch(c) ==
    /\ step[c] = "fetch"
    /\ Served # << >>
    /\ Quiet
    /\ Goto(c, "backup")
    /\ draft' = [draft EXCEPT ![c].emulators = Served, ![c].number = Number]
    /\ UNCHANGED <<files, kind, fd, prev, server>>

-----------------------------------------------------------------------------
(* pull-profile's backup, and Save.                                        *)

\* ReadFile, and the truncation in os.WriteFile.  No file, no backup.
Backup(c) ==
    /\ step[c] = "backup"
    /\ IF path = None
       THEN /\ Goto(c, "open")
            /\ UNCHANGED <<bak, prev>>
       ELSE /\ Goto(c, "copy")
            /\ prev' = [prev EXCEPT ![c] = data[path]]
            /\ bak' = Torn
    /\ UNCHANGED <<path, tmp, data, kind, draft, fd, server>>

CopyDraft(c) ==
    /\ step[c] = "copy"
    /\ Goto(c, "open")
    /\ bak' = draft[c]
    /\ prev' = [prev EXCEPT ![c] = None]
    /\ UNCHANGED <<path, tmp, data, kind, draft, fd, server>>

Copy(c) ==
    /\ step[c] = "copy"
    /\ Goto(c, "open")
    /\ bak' = prev[c]
    /\ prev' = [prev EXCEPT ![c] = None]
    /\ UNCHANGED <<path, tmp, data, kind, draft, fd, server>>

OpenInPlace(c) ==
    /\ step[c] = "open"
    /\ Goto(c, "write")
    /\ LET inode == IF path = None THEN c ELSE path
       IN /\ path' = inode
          /\ fd' = [fd EXCEPT ![c] = inode]
          /\ data' = [data EXCEPT ![inode] = Torn]
    /\ UNCHANGED <<tmp, bak, kind, draft, prev, server>>

\* O_CREATE with O_TRUNC: a temporary file that is there is used again.
Open(c) ==
    /\ step[c] = "open"
    /\ Goto(c, "write")
    /\ LET inode == IF tmp = None THEN c ELSE tmp
       IN /\ tmp' = inode
          /\ fd' = [fd EXCEPT ![c] = inode]
          /\ data' = [data EXCEPT ![inode] = Torn]
    /\ UNCHANGED <<path, bak, kind, draft, prev, server>>

\* Encode.  Over what somebody else has written to the inode nothing is sure.
Write(c) ==
    /\ step[c] = "write"
    /\ Goto(c, "rename")
    /\ \E d \in IF data[fd[c]] = Torn
                THEN {Normalized(draft[c])}
                ELSE {Normalized(draft[c]), Torn} :
        data' = [data EXCEPT ![fd[c]] = d]
    /\ UNCHANGED <<path, tmp, bak, kind, draft, fd, prev, server>>

\* Nothing to rename is an error.  What has no name any more is gone, unless
\* somebody has it open.
Rename(c) ==
    /\ step[c] = "rename"
    /\ Finish(c)
    /\ path' = IF tmp = None THEN path ELSE tmp
    /\ tmp' = None
    /\ data' = [i \in Inode |->
                   IF i = path' \/ \E d \in Command : fd'[d] = i THEN data[i] ELSE Torn]
    /\ UNCHANGED <<bak, server>>

\* An error of Encode, Close or Rename: the temporary file is removed.
SaveFails(c) ==
    /\ step[c] \in {"write", "rename"}
    /\ Finish(c)
    /\ tmp' = None
    /\ UNCHANGED <<path, data, bak, server>>

\* A kill, and errors before Save: a refused answer, no server, a full disk.
Stop(c) ==
    /\ step[c] \notin {"idle", "done"}
    /\ Finish(c)
    /\ UNCHANGED <<files, server>>

-----------------------------------------------------------------------------
(* The user.                                                               *)

\* An editor writes a file of its own and renames it.
Edit ==
    /\ Quiet
    /\ path # None
    /\ data[path] # Torn
    /\ ~data[path].edited
    /\ data' = [data EXCEPT !["user"] = [data[path] EXCEPT !.edited = TRUE]]
    /\ path' = "user"
    /\ UNCHANGED <<tmp, bak, commands, server>>

Delete ==
    /\ Quiet
    /\ path # None
    /\ path' = None
    /\ UNCHANGED <<tmp, data, bak, commands, server>>

-----------------------------------------------------------------------------
(* The server: handleAdminPutProfile and WriteProfile, with the lock held. *)

ReceivePut(doc) ==
    /\ put = None
    /\ Valid(doc)
    /\ Number < MaxPut
    /\ put' = [doc |-> doc, number |-> Number + 1, step |-> "write"]
    /\ profileTmp' = Torn
    /\ UNCHANGED <<files, commands, profile, acked>>

WriteProfile ==
    /\ put # None
    /\ put.step = "write"
    /\ put' = [put EXCEPT !.step = "rename"]
    /\ profileTmp' = [doc |-> put.doc, number |-> put.number]
    /\ UNCHANGED <<files, commands, profile, acked>>

RenameUnchecked ==
    /\ put # None
    /\ put.step = "rename"
    /\ put' = [put EXCEPT !.step = "answer"]
    /\ \/ profile' = profileTmp /\ profileTmp' = None
       \/ UNCHANGED <<profile, profileTmp>>
    /\ UNCHANGED <<files, commands, acked>>

RenameProfile ==
    /\ put # None
    /\ put.step = "rename"
    /\ put' = [put EXCEPT !.step = "answer"]
    /\ profile' = profileTmp
    /\ profileTmp' = None
    /\ UNCHANGED <<files, commands, acked>>

AnswerPut ==
    /\ put # None
    /\ put.step = "answer"
    /\ put' = None
    /\ acked' = put.number
    /\ UNCHANGED <<files, commands, profile, profileTmp>>

\* A kill, or an error of one of the steps.
Crash ==
    /\ put # None
    /\ put' = None
    /\ UNCHANGED <<files, commands, profile, profileTmp, acked>>

-----------------------------------------------------------------------------
Run(c) ==
    \/ StartInit(c) \/ StartSetup(c) \/ StartPull(c)
    \/ Fetch(c) \/ Backup(c) \/ Copy(c)
    \/ Open(c) \/ Write(c) \/ Rename(c) \/ SaveFails(c) \/ Stop(c)
    \/ \E a \in Answers, emulators \in {Bundled, << >>} : Ask(c, a, emulators)

Ended == (\A c \in Command : step[c] = "done") /\ UNCHANGED vars

Next ==
    \/ \E c \in Command : Run(c)
    \/ Edit \/ Delete
    \/ (\E doc \in Doc : ReceivePut(doc)) \/ WriteProfile \/ RenameProfile \/ AnswerPut \/ Crash
    \/ Ended

Spec == Init /\ [][Next]_vars

-----------------------------------------------------------------------------
(* Properties.                                                             *)

\* Whenever a command is killed, or one of its steps fails, config.toml is what
\* it was or what the command meant it to be (Save).
ConfigIsWhole == ~Overlap /\ path # None => data[path] # Torn

\* A device that setup was run on with the server's token, quoted as the server's
\* administrator quoted it or not, gets in, and syncs the directory that was meant,
\* however often pull-profile has read and written the file since.
SetupIsUsed ==
    path # None /\ data[path] # Torn =>
        LET a == data[path].answers
            loaded == Normalized(data[path])
        IN a # None /\ Meant(a.saves) # Home =>
            /\ Accepted(loaded.quotes)
            /\ Expand(loaded.saves) = Meant(a.saves)

\* pull-profile never leaves a device without emulators, whatever the server has; and
\* a list that came to the server by PUT arrives there with names that are unique and
\* entries that are complete, whatever was left before it or is refused meanwhile
\* (pull_profile.go:59, handleAdminPutProfile).  One that somebody left in the server's
\* directory is installed as it is.
PulledIsUsable ==
    [][\A c \in Command :
        kind[c] = "pull" /\ step[c] = "rename" /\ path' # path /\ ~Overlap =>
            LET installed == data'[path']
            IN /\ installed.emulators # << >>
               /\ installed.number > 0 => Valid(installed.emulators)]_vars

\* What pull-profile replaces is in its backup, when it does not overlap with
\* others, wherever an earlier one was killed.
ReplacedIsInBak ==
    [][\A c \in Command :
        kind[c] = "pull" /\ step[c] = "rename" /\ path' # path /\ path # None /\ ~Overlap =>
            bak = data[path]]_vars

\* Once a PUT was answered, devices get its list or a later one, also when the server
\* was killed, or one of its steps failed, in the middle of another.
AckedIsServed == acked <= Number

-----------------------------------------------------------------------------
(* What the documents say and the code does not do.                        *)

\* config.go:191 "replacing atomically", also when two commands overlap.
ReplacesAtomically == path # None => data[path] # Torn

\* pull_profile.go:21 "other sections unchanged": but those are written as they
\* were when the command began.
OtherSectionsUnchanged ==
    [][\A c \in Command :
        kind[c] = "pull" /\ step[c] = "rename" /\ path' # path /\ path # None =>
            data'[path'].edited = data[path].edited]_vars

\* wizard.go:53 "config already exists at %s (delete it, use --force, or edit
\* manually)": without --force no file is replaced.
ExistingIsKept ==
    [][\A c \in Command : kind[c] = "setup" /\ step[c] = "rename" /\ path' # path => path = None]_vars

\* detect.go:95 "ShortenHome returns path as ~/rel when abs is under home": the
\* home directory itself becomes a name that nothing expands again.
HomeIsUsed ==
    \A a \in Answers : Expand(Shorten(Meant(a.saves))) = Meant(a.saves)
=============================================================================
