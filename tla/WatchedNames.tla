---------------------------- MODULE WatchedNames ----------------------------
(***************************************************************************)
(* Watch with Names: an emulator is its place in the configuration, and    *)
(* the processes of /proc have the names their programs show.              *)
(***************************************************************************)
EXTENDS Watch, Names

\* The emulator a process has in Watch is the one resolveNames and MatchesProcess
\* find, whatever the program and its wrapper are called with, and when its file is
\* replaced while it runs: the watcher sees neither a launch nor an exit that did not
\* happen.  It holds for programs that stand where resolveNames looks: after "--" or
\* as the last plain argument in a sandbox, as the first .exe under Wine, and not with
\* a launcher among their arguments.  Where there is no process of an emulator there
\* may be any other.
EmulatorIsRight ==
    \A p \in Pid : IF proc[p] = None THEN OthersAreIgnored ELSE proc[p] \in Recognised
=============================================================================
