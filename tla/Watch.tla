------------------------------- MODULE Watch -------------------------------
(***************************************************************************)
(* `emusync watch`: cmd/watch.go with internal/watcher/watcher.go.         *)
(*                                                                         *)
(* Three kinds of goroutines: the watcher polls /proc and offers events to *)
(* a bounded channel without ever waiting for room; the main loop receives *)
(* them and pulls on a launch before it receives the next; every exit gets *)
(* a goroutine that sleeps for postExitDelay and pushes.  Syncer.mu lets   *)
(* one pull or push run at a time; what those do is modelled in Sync.      *)
(*                                                                         *)
(* The processes of /proc are the environment: they start and end whenever *)
(* they like, between the reads of a poll too.  Which process belongs to   *)
(* which emulator (resolveNames, MatchesProcess) is given by the process.  *)
(***************************************************************************)
EXTENDS Naturals, Sequences, FiniteSets, Functions

CONSTANTS
    Pid,
    Emulator,       \* configured emulators
    Capacity,       \* of the event channel: 32 in NewWatcher
    MaxLaunch,      \* bound on the processes of emulators
    AutoSyncOnLaunch,
    AutoSyncOnClose,
    Stoppable,      \* may SIGINT or SIGTERM arrive?
    None

ASSUME PidAssumption == IsFiniteSet(Pid)
ASSUME CapacityAssumption == Capacity \in Nat \ {0}
ASSUME BoundAssumption == MaxLaunch \in Nat
ASSUME SwitchAssumption == {AutoSyncOnLaunch, AutoSyncOnClose, Stoppable} \subseteq BOOLEAN
ASSUME NoneAssumption == None \notin Emulator

Tracked == [Pid -> Emulator \cup {None}]
Event == [type : {"launched", "exited"}, pid : Pid, emulator : Emulator]
Holder == [op : {"pull", "push"}, emulator : Emulator]

ASSUME HolderAssumption == None \notin Holder

VARIABLES
    \* /proc
    proc,       \* emulator that runs under each PID
    started,    \* processes that PID has had
    due,        \* an emulator's processes that have ended and were not pushed for
    \* watcher goroutine
    phase,      \* where poll is
    todo,       \* PIDs the current loop of poll has yet to visit
    seen,       \* currentPIDs
    tracked,
    events,     \* the channel
    \* main loop and post-exit goroutines
    loop,       \* what the loop does, for which emulator
    sleeping,   \* post-exit goroutines of an emulator in time.Sleep
    waiting,    \* those that wait for Syncer.mu
    mu,         \* who holds Syncer.mu, for what
    cancelled   \* ctx.Done

env == <<proc, started, due>>
watcher == <<phase, todo, seen, tracked>>
client == <<loop, sleeping, waiting, mu>>
vars == <<proc, started, due, phase, todo, seen, tracked, events,
          loop, sleeping, waiting, mu, cancelled>>

Phases == {"tick", "read", "launches", "exits", "closed"}
Loop == [step : {"receive", "lock", "pull", "done"}, emulator : Emulator \cup {None}]
Receiving == [step |-> "receive", emulator |-> None]

TypeOK ==
    /\ proc \in Tracked
    /\ started \in [Pid -> Nat]
    /\ due \in [Emulator -> Nat]
    /\ phase \in Phases
    /\ todo \subseteq Pid
    /\ seen \in Tracked
    /\ tracked \in Tracked
    /\ events \in Seq(Event)
    /\ Len(events) <= Capacity
    /\ loop \in Loop
    /\ sleeping \in [Emulator -> Nat]
    /\ waiting \in [Emulator -> Nat]
    /\ mu \in Holder \cup {None}
    /\ cancelled \in BOOLEAN

Nobody == [p \in Pid |-> None]

Init ==
    /\ proc = Nobody
    /\ started = [p \in Pid |-> 0]
    /\ due = [e \in Emulator |-> 0]
    /\ phase = "tick"
    /\ todo = {}
    /\ seen = Nobody
    /\ tracked = Nobody
    /\ events = << >>
    /\ loop = Receiving
    /\ sleeping = [e \in Emulator |-> 0]
    /\ waiting = [e \in Emulator |-> 0]
    /\ mu = None
    /\ cancelled = FALSE

-----------------------------------------------------------------------------
(* The environment.                                                        *)

Processes == FoldFunction(+, 0, started)

\* Under a PID that may have been used before, perhaps since the last poll.
Launch(p, e) ==
    /\ proc[p] = None
    /\ Processes < MaxLaunch
    /\ proc' = [proc EXCEPT ![p] = e]
    /\ started' = [started EXCEPT ![p] = @ + 1]
    /\ UNCHANGED <<due, watcher, events, client, cancelled>>

Exit(p) ==
    /\ proc[p] # None
    /\ proc' = [proc EXCEPT ![p] = None]
    /\ due' = [due EXCEPT ![proc[p]] = @ + 1]
    /\ UNCHANGED <<started, watcher, events, client, cancelled>>

Signal ==
    /\ Stoppable
    /\ ~cancelled
    /\ cancelled' = TRUE
    /\ UNCHANGED <<env, watcher, events, client>>

-----------------------------------------------------------------------------
(* Run and poll.                                                           *)

\* ListProcesses: os.ReadDir("/proc"), then the processes one by one.
Poll ==
    /\ phase = "tick"
    /\ phase' = "read"
    /\ todo' = {p \in Pid : proc[p] # None}
    /\ seen' = Nobody
    /\ UNCHANGED <<env, tracked, events, client, cancelled>>

\* readProcessInfo, which finds nothing if the process has ended meanwhile.
ReadProc(p) ==
    /\ phase = "read"
    /\ p \in todo
    /\ seen' = [seen EXCEPT ![p] = proc[p]]
    /\ todo' = todo \ {p}
    /\ UNCHANGED <<env, phase, tracked, events, client, cancelled>>

\* Faulty variants of definitions stand before them under a name that says what
\* they do; no specification uses them.  They show which property notices.
LaunchedAgain == {p \in Pid : seen[p] # None}

NewlyLaunched == {p \in Pid : seen[p] # None /\ tracked[p] = None}
NewlyExited == {p \in Pid : tracked[p] # None /\ seen[p] = None}

ReadDone ==
    /\ phase = "read"
    /\ todo = {}
    /\ phase' = "launches"
    /\ todo' = NewlyLaunched
    /\ UNCHANGED <<env, seen, tracked, events, client, cancelled>>

OfferToIdleLoop(type, p, e) ==
    events' = IF events = << >>
              THEN Append(events, [type |-> type, pid |-> p, emulator |-> e])
              ELSE events

\* A full channel drops the event.
Offer(type, p, e) ==
    events' = IF Len(events) < Capacity
              THEN Append(events, [type |-> type, pid |-> p, emulator |-> e])
              ELSE events

SendLaunch(p) ==
    /\ phase = "launches"
    /\ p \in todo
    /\ Offer("launched", p, seen[p])
    /\ todo' = todo \ {p}
    /\ UNCHANGED <<env, phase, seen, tracked, client, cancelled>>

LaunchesDone ==
    /\ phase = "launches"
    /\ todo = {}
    /\ phase' = "exits"
    /\ todo' = NewlyExited
    /\ UNCHANGED <<env, seen, tracked, events, client, cancelled>>

SendExit(p) ==
    /\ phase = "exits"
    /\ p \in todo
    /\ Offer("exited", p, tracked[p])
    /\ todo' = todo \ {p}
    /\ UNCHANGED <<env, phase, seen, tracked, client, cancelled>>

PollDoneForgetsNothing ==
    /\ phase = "exits"
    /\ todo = {}
    /\ phase' = "tick"
    /\ tracked' = [p \in Pid |-> IF seen[p] = None THEN tracked[p] ELSE seen[p]]
    /\ seen' = Nobody
    /\ UNCHANGED <<env, todo, events, client, cancelled>>

PollDone ==
    /\ phase = "exits"
    /\ todo = {}
    /\ phase' = "tick"
    /\ tracked' = seen
    /\ seen' = Nobody
    /\ UNCHANGED <<env, todo, events, client, cancelled>>

CloseForgotten == phase = "tick" /\ cancelled /\ UNCHANGED vars

\* Run sees ctx.Done between two polls; select may prefer another tick.
Close ==
    /\ phase = "tick"
    /\ cancelled
    /\ phase' = "closed"
    /\ UNCHANGED <<env, todo, seen, tracked, events, client, cancelled>>

-----------------------------------------------------------------------------
(* The main loop.                                                          *)

ReceiveLaunch ==
    /\ loop = Receiving
    /\ events # << >>
    /\ Head(events).type = "launched"
    /\ events' = Tail(events)
    /\ loop' = IF AutoSyncOnLaunch
               THEN [step |-> "lock", emulator |-> Head(events).emulator]
               ELSE Receiving
    /\ UNCHANGED <<env, watcher, sleeping, waiting, mu, cancelled>>

ReceiveExit ==
    /\ loop = Receiving
    /\ events # << >>
    /\ Head(events).type = "exited"
    /\ events' = Tail(events)
    /\ sleeping' = IF AutoSyncOnClose
                   THEN [sleeping EXCEPT ![Head(events).emulator] = @ + 1]
                   ELSE sleeping
    /\ UNCHANGED <<env, watcher, loop, waiting, mu, cancelled>>

\* SyncBeforeLaunch.
LockPull ==
    /\ loop.step = "lock"
    /\ mu = None
    /\ mu' = [op |-> "pull", emulator |-> loop.emulator]
    /\ loop' = [loop EXCEPT !.step = "pull"]
    /\ UNCHANGED <<env, watcher, events, sleeping, waiting, cancelled>>

EndPull ==
    /\ loop.step = "pull"
    /\ mu' = None
    /\ loop' = Receiving
    /\ UNCHANGED <<env, watcher, events, sleeping, waiting, cancelled>>

\* range over the closed channel ends once it is drained; then the command
\* returns and the process takes its goroutines with it.
LoopEnds ==
    /\ loop = Receiving
    /\ phase = "closed"
    /\ events = << >>
    /\ loop' = [loop EXCEPT !.step = "done"]
    /\ sleeping' = [e \in Emulator |-> 0]
    /\ waiting' = [e \in Emulator |-> 0]
    /\ mu' = None
    /\ UNCHANGED <<env, watcher, events, cancelled>>

-----------------------------------------------------------------------------
(* Post-exit goroutines.                                                   *)

Wake(e) ==
    /\ sleeping[e] > 0
    /\ sleeping' = [sleeping EXCEPT ![e] = @ - 1]
    /\ waiting' = [waiting EXCEPT ![e] = @ + 1]
    /\ UNCHANGED <<env, watcher, events, loop, mu, cancelled>>

\* SyncAfterExit.
LockPush(e) ==
    /\ waiting[e] > 0
    /\ mu = None
    /\ waiting' = [waiting EXCEPT ![e] = @ - 1]
    /\ mu' = [op |-> "push", emulator |-> e]
    /\ UNCHANGED <<env, watcher, events, loop, sleeping, cancelled>>

Pushing(e) == mu = [op |-> "push", emulator |-> e]

EndPushKeepsLock(e) == Pushing(e) /\ UNCHANGED vars

EndPush(e) ==
    /\ Pushing(e)
    /\ mu' = None
    /\ due' = [due EXCEPT ![e] = @ - 1]
    /\ UNCHANGED <<proc, started, watcher, events, loop, sleeping, waiting, cancelled>>

-----------------------------------------------------------------------------
Polling ==
    \/ Poll \/ ReadDone \/ LaunchesDone \/ PollDone
    \/ \E p \in Pid : ReadProc(p) \/ SendLaunch(p) \/ SendExit(p)

Receiver == ReceiveLaunch \/ ReceiveExit \/ EndPull \/ LoopEnds

Ended == loop.step = "done" /\ UNCHANGED vars

Next ==
    \/ \E p \in Pid : Exit(p) \/ \E e \in Emulator : Launch(p, e)
    \/ Signal \/ Polling \/ Close \/ Receiver \/ LockPull
    \/ \E e \in Emulator : Wake(e) \/ LockPush(e) \/ EndPush(e)
    \/ Ended

Spec == Init /\ [][Next]_vars

\* Goroutines are scheduled, sleeps end, and a pull or push ends because every
\* request has a timeout.  A sync.Mutex does not starve a waiter: one that has
\* waited long enough is handed the lock; select picks at random among the
\* cases that are ready, so Run does not prefer its ticker forever.
FairSpec ==
    /\ Spec
    /\ WF_vars(Polling) /\ SF_vars(Close) /\ WF_vars(Receiver) /\ SF_vars(LockPull)
    /\ \A e \in Emulator :
        WF_vars(Wake(e)) /\ SF_vars(LockPush(e)) /\ WF_vars(EndPush(e))

-----------------------------------------------------------------------------
(* Properties.                                                             *)

\* The exits of e the client is still busy with.
Workflows(e) ==
    sleeping[e] + waiting[e] + (IF Pushing(e) THEN 1 ELSE 0)
        + Cardinality({i \in DOMAIN events : events[i].type = "exited" /\ events[i].emulator = e})

\* Each process of an emulator is pushed for at most once, and only when it has
\* really ended: there are never more exits in the channel, slept over, waited
\* for and pushed than are due, though /proc changes while poll reads it and PIDs
\* are used again.
NoSpuriousPush == \A e \in Emulator : Workflows(e) <= due[e]

\* The loop never handles the exit of a process before its launch, nor either
\* of them twice, whatever a full channel drops.  The processes of a PID that is
\* used again cannot be told apart.
EventsInOrder ==
    \A i, j \in DOMAIN events :
        i < j /\ events[i].pid = events[j].pid /\ started[events[i].pid] = 1 =>
            events[i].type = "launched" /\ events[j].type = "exited"

\* Liveness: when a process that the last poll tracked has ended, a goroutine
\* comes to push its saves.  A full channel, where its event may be dropped, the
\* end of the watcher, and a new process under the same PID excuse from that: the
\* new one is taken for the old, and if it is another emulator's, the watcher
\* never reports the end of the old one.
ExitIsNoticed ==
    \A p \in Pid, e \in Emulator :
        (phase = "tick" /\ tracked[p] = e /\ proc[p] = None)
            ~> (waiting[e] > 0 \/ Len(events) = Capacity \/ cancelled \/ proc[p] # None)

\* Liveness: who waits for Syncer.mu gets it, however many pulls and pushes
\* compete, unless the process ends.
PushIsNotStarved ==
    \A e \in Emulator : waiting[e] > 0 ~> (Pushing(e) \/ loop.step = "done")

\* Liveness: after a signal the command ends, whatever is queued or running.
SignalEndsWatch == cancelled ~> loop.step = "done"

-----------------------------------------------------------------------------
(* What the documents say and the code does not do.                        *)

\* syncer.go:24 "serializes sync operations end-to-end so launch/exit workflows
\* never interleave": no pull of an emulator's saves between the exit of an earlier
\* process and the push for it.
WorkflowsDoNotInterleave ==
    \A e \in Emulator :
        mu = [op |-> "pull", emulator |-> e] => sleeping[e] + waiting[e] = 0
=============================================================================
