------------------------------ MODULE MCWatch ------------------------------
(* Instances of WatchedNames for TLC.                                       *)
EXTENDS WatchedNames, TLC

CONSTANTS p1, p2

Pids == {p1, p2}
OneEmulator == {1}
TwoEmulators == {1, 2}

\* From DefaultEmulators, and a game under Proton.  The third shares a name with
\* the first, which comes before it.
Configured ==
    << {Plain("citra-qt"), Name("azahar", FALSE, ".AppImage"), Name("game", FALSE, ".exe")},
       {Name("pcsx2-qt", FALSE, ""), Name("pcsx2-qt", TRUE, ".AppImage")},
       {Plain("dolphin-emu"), Plain("citra-qt")} >>

Arguments ==
    {Separator, Arg(Plain("bind"), "flag"), Arg(Plain("mnt"), "path"), Word(Plain("game")),
     Word(Plain("pcsx2-qt")), Word(Name("setup", TRUE, ".EXE"))}
UpToTwo == {<< >>} \cup {<<a>> : a \in Arguments} \cup {<<a, b>> : a, b \in Arguments}
=============================================================================
