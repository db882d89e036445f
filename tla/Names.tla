------------------------------- MODULE Names -------------------------------
(***************************************************************************)
(* Which emulator a process of /proc belongs to: resolveNames and the      *)
(* matching of poll (internal/watcher), MatchesProcess (internal/model).   *)
(*                                                                         *)
(* A file name is a word, the case it is written in, and an extension; the *)
(* directories before it are left out, as filepath.Base leaves them out.   *)
(***************************************************************************)
EXTENDS Naturals, Sequences, FiniteSets, FiniteSetsExt

CONSTANTS
    Emulators,      \* the configured ones, in order: sets of process names
    Args,           \* lists of arguments that programs are called with
    NoName

\* Extensions that are looked at.
Extension == {"", ".AppImage", ".appimage", ".exe", ".EXE", " (deleted)"}

Name(word, upper, ext) == [word |-> word, upper |-> upper, ext |-> ext]
Plain(word) == Name(word, FALSE, "")

\* An argument is a flag, an absolute path, or a word.
Arg(name, form) == [name |-> name, form |-> form]
Separator == Arg(Plain("--"), "flag")

Argument == [name : [word : STRING, upper : BOOLEAN, ext : Extension], form : {"flag", "path", "word"}]

ASSUME ArgsAssumption == \A a \in Args : a \in Seq(Argument)

Wrappers == {Plain("bwrap"), Plain("flatpak")}
Launchers == {Plain(w) : w \in {"pressure-vessel-wrap", "wine-preloader", "wine64-preloader", "proton"}}

-----------------------------------------------------------------------------
(* MatchesProcess.                                                         *)

Lower(ext) == CASE ext = ".AppImage" -> ".appimage" [] ext = ".EXE" -> ".exe" [] OTHER -> ext

Fold(n) == [n EXCEPT !.upper = FALSE, !.ext = Lower(@)]

Stripped(n) == IF n.ext = ".AppImage" THEN [n EXCEPT !.ext = ""] ELSE n

Same(n, m) == Fold(n) = Fold(m) \/ Fold(Stripped(n)) = Fold(Stripped(m))

-----------------------------------------------------------------------------
(* resolveNames.                                                           *)

IsFlatpak(p) ==
    \/ p.comm = Plain("bwrap")
    \/ p.cmdline # << >> /\ p.cmdline[1].name \in Wrappers

\* The first argument after "--", or else the last that is neither flag nor path.
FlatpakBinary(p) ==
    LET separators == {i \in DOMAIN p.cmdline : p.cmdline[i] = Separator}
        after == {i \in DOMAIN p.cmdline :
                    p.cmdline[i] # Separator /\ \E s \in separators : s < i}
        words == {i \in 2 .. Len(p.cmdline) : p.cmdline[i].form = "word"}
    IN CASE after # {} -> p.cmdline[Min(after)].name
         [] after = {} /\ words # {} -> p.cmdline[Max(words)].name
         [] OTHER -> NoName

IsProton(p) == \E i \in DOMAIN p.cmdline : p.cmdline[i].name \in Launchers

ProtonExe(p) ==
    LET exes == {i \in DOMAIN p.cmdline : Lower(p.cmdline[i].name.ext) = ".exe"}
    IN IF exes = {} THEN NoName ELSE p.cmdline[Min(exes)].name

\* The executable, or else argv[0], or else comm.
BinaryName(p) ==
    CASE p.exe # NoName -> p.exe
      [] p.exe = NoName /\ p.cmdline # << >> -> p.cmdline[1].name
      [] OTHER -> p.comm

\* Faulty variants of definitions stand before them under a name that says what
\* they do; no specification uses them.  They show which property notices.
OnlyTheBinary(p) == {BinaryName(p)} \ {NoName}

AllNames(p) ==
    ({BinaryName(p), p.comm} \cup {p.cmdline[i].name : i \in {1} \cap DOMAIN p.cmdline}) \ {NoName}

\* A wrapper whose program is not found is a process like any other.
ResolveNames(p) ==
    CASE IsFlatpak(p) /\ FlatpakBinary(p) # NoName -> {FlatpakBinary(p)}
      [] ~(IsFlatpak(p) /\ FlatpakBinary(p) # NoName) /\ IsProton(p) /\ ProtonExe(p) # NoName
            -> {ProtonExe(p)}
      [] OTHER -> AllNames(p)

\* The first emulator that has one of the names; 0 if there is none.
EmulatorWith(names) ==
    LET found == {e \in DOMAIN Emulators : \E n \in names, m \in Emulators[e] : Same(n, m)}
    IN IF found = {} THEN 0 ELSE Min(found)

EmulatorOf(p) == EmulatorWith(ResolveNames(p))

-----------------------------------------------------------------------------
(* Properties.                                                             *)

Process(comm, exe, cmdline) == [comm |-> comm, exe |-> exe, cmdline |-> cmdline]

Word(n) == Arg(n, "word")

\* An argument list with a program, or a separator, in the middle.
Line(first, before, middle, after) == <<first>> \o before \o <<middle>> \o after

Upper(n) == [n EXCEPT !.upper = ~@]
Deleted(n) == [n EXCEPT !.ext = " (deleted)"]
Image(n) == [n EXCEPT !.ext = IF @ = "" THEN ".AppImage" ELSE @]

Unseparated == {a \in Args : \A i \in DOMAIN a : a[i] # Separator}
Trailing == {a \in Unseparated : \A i \in DOMAIN a : a[i].form # "word"}
Unlaunched == {a \in Args : \A i \in DOMAIN a : a[i].name \notin Launchers}
WithoutExe == {a \in Args : \A i \in DOMAIN a : Lower(a[i].name.ext) # ".exe"}

\* How a program that nothing wraps shows in /proc: an AppImage runs from a mount,
\* the file is replaced while it runs, exe cannot be read, comm is cut after 15
\* characters or set by the program.  Of one whose argv cannot be read comm is all.
Started(n) ==
    {Process(comm, exe, <<Word(argv0)>> \o a) :
        comm \in {n, Upper(n), Plain("main")}, exe \in {n, Deleted(n), Plain("AppRun"), NoName},
        argv0 \in {n, Image(n)}, a \in Unlaunched}
    \cup {Process(comm, NoName, << >>) : comm \in {n, Upper(n)}}

\* In a sandbox that separates its own arguments from the program's.
Separated(n) ==
    {Process(Plain("bwrap"), Plain("bwrap"),
             Line(Word(Plain("bwrap")), before, Separator, <<Arg(n, form)>> \o after)) :
        before \in Unseparated, form \in {"path", "word"}, after \in Args}

\* In one that does not.
Sandboxed(n, calls) ==
    {Process(Plain("bwrap"), Plain("bwrap"), Line(Word(Plain("bwrap")), before, Word(n), after)) :
        before \in Unseparated, after \in calls}

\* Under Wine or Proton.
InWine(n) ==
    {Process(Plain("main"), Plain("wine-preloader"),
             Line(Word(launcher), before, Arg([n EXCEPT !.ext = ext], form), after)) :
        launcher \in Launchers, before \in WithoutExe, ext \in {".exe", ".EXE"},
        form \in {"path", "word"}, after \in Args}

\* The ways in which resolveNames finds a program, whatever the arguments are.
Shown(n) ==
    Started(n) \cup Separated(n) \cup Sandboxed(n, Trailing)
    \cup IF n.ext = ".exe" THEN InWine(n) ELSE {}

\* Emulators whose programs are taken for theirs in all of these ways.
Recognised ==
    {e \in DOMAIN Emulators : \A n \in Emulators[e] : \A p \in Shown(n) : EmulatorOf(p) = e}

\* A program that is no wrapper is not taken for an emulator because of what it
\* is called with, be it another program's name (AllNames).
OthersAreIgnored ==
    \A n \in UNION {Emulators[e] : e \in DOMAIN Emulators}, a \in Unlaunched :
        EmulatorOf(Process(Plain("vi"), Plain("vi"), <<Word(Plain("vi")), Word(n)>> \o a)) = 0

-----------------------------------------------------------------------------
(* What a comment says and the code does not do.                           *)

\* flatpak.go:22 "extracts the actual emulator binary name from a Flatpak/bwrap process
\* cmdline": without "--" the last plain argument is taken, be it the game's.
SandboxIsSeenThrough ==
    \A e \in Recognised : \A n \in Emulators[e] : \A p \in Sandboxed(n, Unseparated) :
        EmulatorOf(p) = e
=============================================================================
