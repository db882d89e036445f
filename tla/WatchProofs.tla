---------------------------- MODULE WatchProofs ----------------------------
(***************************************************************************)
(* Theorems about Watch, for any PIDs, emulators, capacity and number of   *)
(* processes.  What goes through the channel and the goroutines never      *)
(* exceeds the exits that have happened: the inductive invariant counts,   *)
(* besides those, the exits the watcher has yet to report, for what it     *)
(* knows of a PID may be older than /proc.  What it has reported of a PID  *)
(* with one process gives the order of events.  The last part is about the *)
(* names of WatchedNames, for any configuration.                           *)
(***************************************************************************)
EXTENDS WatchedNames, FiniteSetTheorems, SequenceTheorems, TLAPS

\* The exits of e in the channel.
Exits(q, e) == {i \in DOMAIN q : q[i].type = "exited" /\ q[i].emulator = e}

\* The current poll has found nothing under p, which may be news.
Missed(p) ==
    /\ phase \in {"read", "launches", "exits"}
    /\ seen[p] = None
    /\ phase = "read" => p \notin todo

Sent(p) == phase = "exits" /\ seen[p] = None /\ p \notin todo

\* PIDs under which the watcher has, or is about to have, a process of e that has ended.
Owed(e) ==
    {p \in Pid : \/ tracked[p] = e /\ (proc[p] # e \/ Missed(p)) /\ ~Sent(p)
                 \/ seen[p] = e /\ tracked[p] # e /\ proc[p] # e}

Polled ==
    /\ phase \in {"tick", "closed"} => seen = Nobody
    /\ phase = "read" => \A p \in todo : seen[p] = None
    /\ phase = "launches" => todo \subseteq NewlyLaunched
    /\ phase = "exits" => todo \subseteq NewlyExited
    /\ loop.step \in {"lock", "pull"} => loop.emulator \in Emulator

Balance == \A e \in Emulator : Workflows(e) + Cardinality(Owed(e)) <= due[e]

Inductive == TypeOK /\ Polled /\ Balance

-----------------------------------------------------------------------------
(* Counting.                                                               *)

\* The sets that are counted are finite.
LEMMA FiniteExits ==
    ASSUME NEW q \in Seq(Event), NEW e PROVE IsFiniteSet(Exits(q, e)) /\ Cardinality(Exits(q, e)) \in Nat
<1>1. IsFiniteSet(1 .. Len(q)) /\ Exits(q, e) \in SUBSET (1 .. Len(q))
  BY FS_Interval DEF Exits
<1> QED
  BY <1>1, FS_Subset, FS_CardinalityType

\* There are finitely many processes, so what they owe can be counted.
LEMMA FiniteOwed ==
    ASSUME NEW e PROVE IsFiniteSet(Owed(e)) /\ Cardinality(Owed(e)) \in Nat
<1>1. Owed(e) \in SUBSET Pid
  BY DEF Owed
<1> QED
  BY <1>1, PidAssumption, FS_Subset, FS_CardinalityType

\* An event that is put into the channel.
LEMMA AppendExits ==
    ASSUME NEW q \in Seq(Event), NEW x \in Event, NEW e
    PROVE  Cardinality(Exits(Append(q, x), e)) =
               Cardinality(Exits(q, e)) + (IF x.type = "exited" /\ x.emulator = e THEN 1 ELSE 0)
<1>1. Exits(Append(q, x), e) = IF x.type = "exited" /\ x.emulator = e
                               THEN Exits(q, e) \cup {Len(q) + 1}
                               ELSE Exits(q, e)
  <2>1. /\ DOMAIN Append(q, x) = DOMAIN q \cup {Len(q) + 1}
        /\ Append(q, x)[Len(q) + 1] = x
        /\ \A i \in DOMAIN q : Append(q, x)[i] = q[i]
    OBVIOUS
  <2> QED
    BY <2>1 DEF Exits
<1>2. Len(q) + 1 \notin Exits(q, e)
  BY DEF Exits
<1>3. Cardinality(Exits(q, e) \cup {Len(q) + 1}) = Cardinality(Exits(q, e)) + 1
  BY <1>2, FiniteExits, FS_AddElement
<1> QED
  BY <1>1, <1>3, FiniteExits

\* An event that is received.
LEMMA TailExits ==
    ASSUME NEW q \in Seq(Event), q # << >>, NEW e
    PROVE  Cardinality(Exits(q, e)) = Cardinality(Exits(Tail(q), e))
               + (IF Head(q).type = "exited" /\ Head(q).emulator = e THEN 1 ELSE 0)
<1> DEFINE S == Exits(Tail(q), e)
           T == Exits(q, e) \ {1}
           f == [i \in S |-> i + 1]
<1>1. Tail(q) \in Seq(Event)
  OBVIOUS
<1>2. \A i \in S : i \in Nat /\ i + 1 \in T
  BY DEF Exits
<1>3. \A j \in T : j - 1 \in S
  BY DEF Exits
<1>4. f \in Bijection(S, T)
  <2>1. f \in Injection(S, T)
    BY <1>2 DEF Injection, IsInjective
  <2>2. f \in Surjection(S, T)
    <3>1. ASSUME NEW j \in T PROVE \E i \in S : f[i] = j
      <4>1. j - 1 \in S /\ j \in Nat
        BY <1>3 DEF Exits
      <4> QED
        BY <4>1
    <3> QED
      BY <1>2, <3>1 DEF Surjection
  <2> QED
    BY <2>1, <2>2 DEF Bijection
<1>5. Cardinality(T) = Cardinality(S)
  <2>1. IsFiniteSet(S) /\ ExistsBijection(S, T)
    BY <1>1, <1>4, FiniteExits DEF ExistsBijection
  <2> QED
    BY <2>1, FS_Bijection
<1>6. 1 \in Exits(q, e) <=> Head(q).type = "exited" /\ Head(q).emulator = e
  BY DEF Exits
<1>7. Cardinality(T) = IF 1 \in Exits(q, e) THEN Cardinality(Exits(q, e)) - 1
                                              ELSE Cardinality(Exits(q, e))
  BY FiniteExits, FS_RemoveElement
<1> QED
  BY <1>5, <1>6, <1>7, FiniteExits

\* What is left of the exits owed for.
LEMMA FewerOwed ==
    ASSUME NEW S \in SUBSET Pid, NEW T \in SUBSET S
    PROVE  Cardinality(T) \in Nat /\ Cardinality(S) \in Nat /\ Cardinality(T) <= Cardinality(S)
<1>1. IsFiniteSet(S)
  BY PidAssumption, FS_Subset
<1>2. IsFiniteSet(T)
  BY <1>1, FS_Subset
<1> QED
  BY <1>1, <1>2, FS_Subset, FS_CardinalityType

\* The definition again, by the set that is counted.
LEMMA WorkflowsAre ==
    ASSUME TypeOK, NEW e \in Emulator
    PROVE  /\ Workflows(e) = sleeping[e] + waiting[e] + (IF Pushing(e) THEN 1 ELSE 0)
                                 + Cardinality(Exits(events, e))
           /\ Workflows(e) \in Nat
<1>1. Cardinality(Exits(events, e)) \in Nat
  BY FiniteExits DEF TypeOK
<1> QED
  BY <1>1 DEF TypeOK, Workflows, Exits

\* And in the next state.
LEMMA WorkflowsWillBe ==
    ASSUME TypeOK', NEW e \in Emulator
    PROVE  /\ Workflows(e)' = sleeping'[e] + waiting'[e] + (IF Pushing(e)' THEN 1 ELSE 0)
                                 + Cardinality(Exits(events', e))
           /\ Workflows(e)' \in Nat
<1>1. Cardinality(Exits(events', e)) \in Nat
  BY FiniteExits DEF TypeOK
<1> QED
  BY <1>1 DEF TypeOK, Workflows, Exits

-----------------------------------------------------------------------------
(* Types.                                                                  *)

\* Nothing has run, nothing is owed.
LEMMA InitInductive == Init => Inductive
<1> SUFFICES ASSUME Init PROVE Inductive
  OBVIOUS
<1>1. TypeOK
  <2>1. << >> \in Seq(Event) /\ Len(<< >>) = 0
    OBVIOUS
  <2>2. events \in Seq(Event) /\ Len(events) <= Capacity
    BY <2>1, CapacityAssumption DEF Init
  <2> QED
    BY <2>2 DEF Init, TypeOK, Tracked, Nobody, Phases, Loop, Receiving
<1>2. Polled
  BY DEF Init, Polled, Receiving
<1>3. ASSUME NEW e \in Emulator PROVE Workflows(e) + Cardinality(Owed(e)) <= due[e]
  <2>1. Owed(e) = {} /\ Exits(events, e) = {}
    BY NoneAssumption DEF Init, Owed, Missed, Nobody, Exits
  <2>2. ~Pushing(e)
    BY HolderAssumption DEF Init, Pushing, Holder
  <2>3. Cardinality(Owed(e)) = 0 /\ Cardinality(Exits(events, e)) = 0
    BY <2>1, FS_EmptySet
  <2>4. Workflows(e) = sleeping[e] + waiting[e] + 0 + 0
    BY <1>1, <2>2, <2>3, WorkflowsAre
  <2> QED
    BY <2>3, <2>4 DEF Init
<1> QED
  BY <1>1, <1>2, <1>3 DEF Inductive, Balance

\* Processes come and go.
LEMMA EnvironmentType ==
    ASSUME TypeOK, NEW p \in Pid, Exit(p) \/ \E e \in Emulator : Launch(p, e) PROVE TypeOK'
<1> USE DEF TypeOK, Tracked, watcher, client
<1>1. CASE Exit(p)
  BY <1>1 DEF Exit
<1>2. ASSUME NEW e \in Emulator, Launch(p, e) PROVE TypeOK'
  BY <1>2 DEF Launch
<1> QED
  BY <1>1, <1>2

\* A signal arrives.
LEMMA SignalType == ASSUME TypeOK, Signal PROVE TypeOK'
BY DEF TypeOK, Signal, env, watcher, client

\* An event is put into the channel where there is room for it.
LEMMA OfferType ==
    ASSUME TypeOK, NEW type \in {"launched", "exited"}, NEW p \in Pid, NEW e \in Emulator, Offer(type, p, e)
    PROVE  events' \in Seq(Event) /\ Len(events') <= Capacity
<1>1. [type |-> type, pid |-> p, emulator |-> e] \in Event
  BY DEF Event
<1> QED
  BY <1>1, CapacityAssumption DEF TypeOK, Offer

\* The steps of poll, and Stop closing the channel.
LEMMA WatcherType == ASSUME TypeOK, Polled, Polling \/ Close PROVE TypeOK'
<1> USE DEF TypeOK, Tracked, Phases, env, client
<1>1. CASE Poll \/ ReadDone \/ LaunchesDone \/ PollDone \/ Close
  BY <1>1 DEF Poll, ReadDone, LaunchesDone, PollDone, Close, Nobody, NewlyLaunched, NewlyExited
<1>2. ASSUME NEW p \in Pid, ReadProc(p) PROVE TypeOK'
  BY <1>2 DEF ReadProc
<1>3. ASSUME NEW p \in Pid, SendLaunch(p) PROVE TypeOK'
  <2>1. seen[p] \in Emulator
    BY <1>3 DEF SendLaunch, Polled, NewlyLaunched
  <2>2. events' \in Seq(Event) /\ Len(events') <= Capacity
    BY <1>3, <2>1, OfferType DEF SendLaunch
  <2> QED
    BY <1>3, <2>2 DEF SendLaunch
<1>4. ASSUME NEW p \in Pid, SendExit(p) PROVE TypeOK'
  <2>1. tracked[p] \in Emulator
    BY <1>4 DEF SendExit, Polled, NewlyExited
  <2>2. events' \in Seq(Event) /\ Len(events') <= Capacity
    BY <1>4, <2>1, OfferType DEF SendExit
  <2> QED
    BY <1>4, <2>2 DEF SendExit
<1> QED
  BY <1>1, <1>2, <1>3, <1>4 DEF Polling

\* The main goroutine.
LEMMA LoopType == ASSUME TypeOK, Polled, Receiver \/ LockPull PROVE TypeOK'
<1> USE DEF TypeOK, env, watcher, Loop, Receiving, Holder
<1>1. CASE ReceiveLaunch \/ ReceiveExit
  <2>1. Tail(events) \in Seq(Event) /\ Len(Tail(events)) <= Capacity /\ Head(events) \in Event
    BY <1>1, CapacityAssumption DEF ReceiveLaunch, ReceiveExit
  <2>2. Head(events).emulator \in Emulator
    BY <2>1 DEF Event
  <2> HIDE DEF Event
  <2>3. CASE ReceiveLaunch
    BY <2>1, <2>2, <2>3 DEF ReceiveLaunch
  <2>4. CASE ReceiveExit
    BY <2>1, <2>2, <2>4 DEF ReceiveExit
  <2> QED
    BY <1>1, <2>3, <2>4
<1>2. CASE LockPull
  BY <1>2 DEF LockPull, Polled
<1>3. CASE EndPull
  BY <1>3 DEF EndPull
<1>4. CASE LoopEnds
  BY <1>4 DEF LoopEnds
<1> QED
  BY <1>1, <1>2, <1>3, <1>4 DEF Receiver

\* The post-exit goroutines.  Balance has it that a push that ends was due.
LEMMA PushType ==
    ASSUME TypeOK, Balance, NEW e \in Emulator, Wake(e) \/ LockPush(e) \/ EndPush(e) PROVE TypeOK'
<1> USE DEF TypeOK, watcher
<1>1. CASE Wake(e)
  BY <1>1 DEF Wake, env
<1>2. CASE LockPush(e)
  BY <1>2 DEF LockPush, Holder, env
<1>3. CASE EndPush(e)
  <2>1. due[e] >= 1
    BY <1>3, WorkflowsAre, FiniteOwed, FiniteExits DEF EndPush, Balance
  <2> QED
    BY <1>3, <2>1 DEF EndPush
<1> QED
  BY <1>1, <1>2, <1>3

-----------------------------------------------------------------------------
(* What the watcher is at.                                                 *)

\* What poll works through was found by this poll.
LEMMA PolledKeeps == ASSUME TypeOK, Polled, Next PROVE Polled'
<1> USE DEF TypeOK, Polled, NewlyLaunched, NewlyExited, env, client, watcher
<1>1. ASSUME NEW p \in Pid, Exit(p) \/ \E e \in Emulator : Launch(p, e) PROVE Polled'
  BY <1>1 DEF Exit, Launch
<1>2. CASE Signal \/ Ended
  BY <1>2 DEF Signal, Ended, vars
<1>3. CASE Poll \/ ReadDone \/ LaunchesDone \/ PollDone \/ Close
  BY <1>3 DEF Poll, ReadDone, LaunchesDone, PollDone, Close, Nobody
<1>4. ASSUME NEW p \in Pid, ReadProc(p) PROVE Polled'
  BY <1>4 DEF ReadProc
<1>5. ASSUME NEW p \in Pid, SendLaunch(p) \/ SendExit(p) PROVE Polled'
  BY <1>5 DEF SendLaunch, SendExit
<1>6. CASE ReceiveLaunch
  <2>1. Head(events).emulator \in Emulator
    <3>1. Head(events) \in Event
      BY <1>6 DEF ReceiveLaunch
    <3> QED
      BY <3>1 DEF Event
  <2> QED
    BY <1>6, <2>1 DEF ReceiveLaunch, Receiving
<1>7. CASE ReceiveExit
  BY <1>7 DEF ReceiveExit
<1>8. CASE EndPull \/ LoopEnds \/ LockPull
  <2>1. loop' = Receiving \/ loop'.step = "done"
            \/ (loop.step = "lock" /\ loop'.emulator = loop.emulator)
    BY <1>8 DEF EndPull, LoopEnds, LockPull, Loop
  <2> QED
    BY <1>8, <2>1 DEF EndPull, LoopEnds, LockPull, Receiving
<1>9. ASSUME NEW e \in Emulator, Wake(e) \/ LockPush(e) \/ EndPush(e) PROVE Polled'
  BY <1>9 DEF Wake, LockPush, EndPush
<1> QED
  BY <1>1, <1>2, <1>3, <1>4, <1>5, <1>6, <1>7, <1>8, <1>9 DEF Next, Polling, Receiver

-----------------------------------------------------------------------------
(* The balance.                                                            *)

Balanced(e) == Workflows(e) + Cardinality(Owed(e)) <= due[e]

\* Nothing new is owed and nothing new is on its way.
LEMMA NothingNew ==
    ASSUME TypeOK, TypeOK', Balance, NEW e \in Emulator,
           Owed(e)' \subseteq Owed(e), Workflows(e)' <= Workflows(e), due'[e] >= due[e]
    PROVE  Balanced(e)'
<1>1. Owed(e) \in SUBSET Pid
  BY DEF Owed
<1>2. Cardinality(Owed(e)') <= Cardinality(Owed(e)) /\ Cardinality(Owed(e)') \in Nat
      /\ Cardinality(Owed(e)) \in Nat
  BY <1>1, FewerOwed
<1>3. Workflows(e) \in Nat /\ Workflows(e)' \in Nat
  BY WorkflowsAre, WorkflowsWillBe
<1> QED
  BY <1>2, <1>3 DEF Balance, Balanced, TypeOK

\* Nothing of the watcher or of /proc changes.
LEMMA SameOwed ==
    ASSUME UNCHANGED <<proc, watcher>>, NEW e \in Emulator PROVE Owed(e)' = Owed(e)
BY DEF watcher, Owed, Missed, Sent

\* Who leaves channel and goroutines alone leaves the workflows alone.
LEMMA SameWorkflows ==
    ASSUME UNCHANGED <<events, client>>, NEW e \in Emulator PROVE Workflows(e)' = Workflows(e)
BY DEF client, Workflows, Pushing

\* A launch hides what is owed; an exit is due at once.
LEMMA EnvironmentBalance ==
    ASSUME TypeOK, TypeOK', Polled, Balance, NEW p \in Pid,
           Exit(p) \/ \E f \in Emulator : Launch(p, f), NEW e \in Emulator
    PROVE  Balanced(e)'
<1>1. UNCHANGED <<watcher, events, client>>
  BY DEF Exit, Launch
<1>2. Workflows(e)' = Workflows(e)
  BY <1>1, SameWorkflows
<1>3. Workflows(e) \in Nat
  BY WorkflowsAre
<1>4. /\ proc \in Tracked /\ seen \in Tracked /\ tracked \in Tracked /\ due \in [Emulator -> Nat]
      /\ due[e] \in Nat /\ e # None
  BY NoneAssumption DEF TypeOK
<1>5. ASSUME proc[p] # e, \A q \in Pid \ {p} : proc'[q] = proc[q] PROVE Owed(e)' \subseteq Owed(e)
  BY <1>1, <1>5 DEF watcher, Owed, Missed, Sent
<1>6. CASE \E f \in Emulator : Launch(p, f)
  <2>1. PICK f \in Emulator : Launch(p, f)
    BY <1>6
  <2>2. proc[p] # e /\ \A q \in Pid \ {p} : proc'[q] = proc[q]
    BY <1>4, <2>1 DEF Launch, Tracked
  <2>3. Workflows(e)' <= Workflows(e) /\ due'[e] >= due[e]
    BY <1>2, <1>3, <1>4, <2>1 DEF Launch
  <2> QED
    BY <1>5, <2>2, <2>3, NothingNew
<1>7. ASSUME Exit(p) PROVE \A q \in Pid \ {p} : proc'[q] = proc[q]
  BY <1>4, <1>7 DEF Exit, Tracked
<1>8. CASE Exit(p) /\ proc[p] # e
  <2>1. due'[e] = due[e]
    BY <1>4, <1>8 DEF Exit
  <2>2. Workflows(e)' <= Workflows(e) /\ due'[e] >= due[e]
    BY <1>2, <1>3, <1>4, <2>1
  <2> QED
    BY <1>5, <1>7, <1>8, <2>2, NothingNew
<1>9. CASE Exit(p) /\ proc[p] = e
  <2>1. Owed(e)' \subseteq Owed(e) \cup {p}
    BY <1>1, <1>7, <1>9 DEF watcher, Owed, Missed, Sent
  <2>2. Owed(e) \in SUBSET Pid /\ IsFiniteSet(Owed(e))
    BY FiniteOwed DEF Owed
  <2>3. Cardinality(Owed(e) \cup {p}) <= Cardinality(Owed(e)) + 1
    <3>1. Cardinality(Owed(e) \cup {p}) =
              IF p \in Owed(e) THEN Cardinality(Owed(e)) ELSE Cardinality(Owed(e)) + 1
      BY <2>2, FS_AddElement
    <3>2. Cardinality(Owed(e)) \in Nat
      BY FiniteOwed
    <3> QED
      BY <3>1, <3>2
  <2>4. /\ Cardinality(Owed(e)') \in Nat /\ Cardinality(Owed(e) \cup {p}) \in Nat
        /\ Cardinality(Owed(e)') <= Cardinality(Owed(e) \cup {p})
    BY <2>1, <2>2, FewerOwed
  <2>5. due'[e] = due[e] + 1
    BY <1>4, <1>9 DEF Exit
  <2>6. Cardinality(Owed(e)) \in Nat /\ Workflows(e) + Cardinality(Owed(e)) <= due[e]
    BY FiniteOwed DEF Balance
  <2> QED
    BY <1>2, <1>3, <1>4, <2>3, <2>4, <2>5, <2>6 DEF Balanced
<1> QED
  BY <1>6, <1>8, <1>9

-----------------------------------------------------------------------------
(* The balance: the watcher.                                               *)

\* A poll finds out what has been true since the exit.
LEMMA PollBalance ==
    ASSUME TypeOK, TypeOK', Polled, Balance,
           \/ Poll \/ ReadDone \/ LaunchesDone \/ PollDone \/ Close
           \/ \E p \in Pid : ReadProc(p) \/ SendLaunch(p),
           NEW e \in Emulator
    PROVE  Balanced(e)'
<1>1. Owed(e)' \subseteq Owed(e)
  <2> USE NoneAssumption DEF TypeOK, Tracked, Polled, Owed, Missed, Sent, env, client
  <2>1. CASE Poll
    BY <2>1 DEF Poll, Nobody
  <2>2. CASE ReadDone \/ LaunchesDone \/ Close
    BY <2>2 DEF ReadDone, LaunchesDone, Close, NewlyExited, Nobody
  <2>3. CASE PollDone
    BY <2>3 DEF PollDone, Nobody
  <2>4. ASSUME NEW p \in Pid, ReadProc(p) PROVE Owed(e)' \subseteq Owed(e)
    BY <2>4 DEF ReadProc
  <2>5. ASSUME NEW p \in Pid, SendLaunch(p) PROVE Owed(e)' \subseteq Owed(e)
    BY <2>5 DEF SendLaunch
  <2> QED
    BY <2>1, <2>2, <2>3, <2>4, <2>5
<1>2. Workflows(e)' <= Workflows(e)
  <2> Workflows(e) \in Nat
    BY WorkflowsAre
  <2>1. ASSUME NEW p \in Pid, SendLaunch(p) PROVE Workflows(e)' <= Workflows(e)
    <3>1. /\ UNCHANGED client
          /\ [type |-> "launched", pid |-> p, emulator |-> seen[p]] \in Event
          /\ \/ events' = events
             \/ events' = Append(events, [type |-> "launched", pid |-> p, emulator |-> seen[p]])
      BY <2>1 DEF SendLaunch, Offer, Event, TypeOK, Tracked, Polled, NewlyLaunched
    <3>2. Cardinality(Exits(events', e)) = Cardinality(Exits(events, e))
      <4> DEFINE x == [type |-> "launched", pid |-> p, emulator |-> seen[p]]
      <4>1. x.type # "exited"
        OBVIOUS
      <4> HIDE DEF x
      <4>2. CASE events' = Append(events, x)
        <5>1. Cardinality(Exits(Append(events, x), e)) = Cardinality(Exits(events, e)) + 0
          BY <3>1, <4>1, AppendExits DEF TypeOK, x
        <5> QED
          BY <4>2, <5>1, FiniteExits DEF TypeOK
      <4> QED
        BY <3>1, <4>2 DEF x
    <3> QED
      BY <3>1, <3>2, WorkflowsAre, WorkflowsWillBe DEF client, Pushing
  <2>2. CASE ~\E p \in Pid : SendLaunch(p)
    <3>1. UNCHANGED <<events, client>>
      BY <2>2 DEF Poll, ReadDone, LaunchesDone, PollDone, Close, ReadProc
    <3> QED
      BY <3>1, SameWorkflows
  <2> QED
    BY <2>1, <2>2
<1>3. due' = due /\ due[e] \in Nat
  BY DEF Poll, ReadDone, LaunchesDone, PollDone, Close, ReadProc, SendLaunch, env, TypeOK
<1>4. due'[e] >= due[e]
  BY <1>3
<1> QED
  BY <1>1, <1>2, <1>4, NothingNew

\* An exit that is reported is no longer owed, whether its event finds room or not.
LEMMA SendExitBalance ==
    ASSUME TypeOK, TypeOK', Polled, Balance, NEW p \in Pid, SendExit(p), NEW e \in Emulator
    PROVE  Balanced(e)'
<1> DEFINE x == [type |-> "exited", pid |-> p, emulator |-> tracked[p]]
<1>1. /\ x \in Event /\ x.type = "exited" /\ x.emulator = tracked[p]
      /\ UNCHANGED <<client, proc, due>>
      /\ events' = Append(events, x) \/ events' = events
  BY NoneAssumption DEF SendExit, Offer, Event, TypeOK, Tracked, Polled, NewlyExited, env
<1> HIDE DEF x
<1>2. Workflows(e)' <= Workflows(e) + (IF tracked[p] = e THEN 1 ELSE 0)
  <2>1. Cardinality(Exits(Append(events, x), e))
            = Cardinality(Exits(events, e)) + (IF tracked[p] = e THEN 1 ELSE 0)
    BY <1>1, AppendExits DEF TypeOK
  <2>2. Cardinality(Exits(events, e)) \in Nat
    BY FiniteExits DEF TypeOK
  <2>3. Cardinality(Exits(events', e))
            <= Cardinality(Exits(events, e)) + (IF tracked[p] = e THEN 1 ELSE 0)
    <3>1. CASE events' = Append(events, x)
      <4>1. Cardinality(Exits(events', e)) = Cardinality(Exits(Append(events, x), e))
        BY <3>1
      <4> QED
        BY <2>1, <2>2, <4>1
    <3>2. CASE events' = events
      <4>1. Cardinality(Exits(events', e)) = Cardinality(Exits(events, e))
        BY <3>2
      <4> QED
        BY <2>2, <4>1
    <3> QED
      BY <1>1, <3>1, <3>2
  <2>4. Pushing(e)' = Pushing(e) /\ UNCHANGED <<sleeping, waiting>>
    BY <1>1 DEF client, Pushing
  <2>5. Cardinality(Exits(events', e)) \in Nat
    BY FiniteExits DEF TypeOK
  <2>6. /\ Workflows(e) = sleeping[e] + waiting[e] + (IF Pushing(e) THEN 1 ELSE 0)
                              + Cardinality(Exits(events, e))
        /\ Workflows(e)' = sleeping[e] + waiting[e] + (IF Pushing(e) THEN 1 ELSE 0)
                               + Cardinality(Exits(events', e))
    BY <2>4, WorkflowsAre, WorkflowsWillBe
  <2>7. sleeping[e] \in Nat /\ waiting[e] \in Nat
    BY DEF TypeOK
  <2> QED
    BY <2>2, <2>3, <2>5, <2>6, <2>7
<1>3. Owed(e)' \subseteq Owed(e) \ {p}
  <2>1. ~Sent(p) /\ Sent(p)' /\ tracked' = tracked /\ seen' = seen /\ seen[p] = None /\ tracked[p] # None
    BY DEF SendExit, Sent, Polled, NewlyExited
  <2>2. \A q \in Pid \ {p} : Sent(q)' = Sent(q)
    BY DEF SendExit, Sent
  <2>3. \A q \in Pid : Missed(q)' = Missed(q)
    BY DEF SendExit, Missed
  <2> QED
    BY <1>1, <2>1, <2>2, <2>3, NoneAssumption DEF Owed
<1>4. tracked[p] = e => p \in Owed(e)
  BY DEF SendExit, Owed, Missed, Sent, Polled, NewlyExited
<1>5. /\ Cardinality(Owed(e)') <= Cardinality(Owed(e) \ {p})
      /\ Cardinality(Owed(e)') \in Nat
      /\ Cardinality(Owed(e) \ {p}) = IF p \in Owed(e) THEN Cardinality(Owed(e)) - 1
                                                       ELSE Cardinality(Owed(e))
  <2>1. Owed(e) \ {p} \in SUBSET Pid
    BY DEF Owed
  <2> QED
    BY <1>3, <2>1, FewerOwed, FiniteOwed, FS_RemoveElement
<1>6. Workflows(e) \in Nat /\ Workflows(e)' \in Nat /\ Cardinality(Owed(e)) \in Nat
  BY WorkflowsAre, WorkflowsWillBe, FiniteOwed
<1>7. due[e] \in Nat /\ due'[e] = due[e] /\ Workflows(e) + Cardinality(Owed(e)) <= due[e]
  BY <1>1 DEF Balance, TypeOK
<1> QED
  BY <1>2, <1>4, <1>5, <1>6, <1>7 DEF Balanced

-----------------------------------------------------------------------------
(* The balance: the loop and its goroutines.                               *)

\* An exit moves on, or is lost, or is done with when it is pushed for.
LEMMA LoopBalance ==
    ASSUME TypeOK, TypeOK', Polled, Balance, Receiver \/ LockPull, NEW e \in Emulator
    PROVE  Balanced(e)'
<1>1. Owed(e)' \subseteq Owed(e) /\ due' = due
  BY SameOwed DEF Receiver, ReceiveLaunch, ReceiveExit, EndPull, LoopEnds, LockPull, env
<1>2. Workflows(e)' <= Workflows(e)
  <2>1. /\ Cardinality(Exits(events, e)) \in Nat /\ Cardinality(Exits(events', e)) \in Nat
        /\ Workflows(e) = sleeping[e] + waiting[e] + (IF Pushing(e) THEN 1 ELSE 0)
                              + Cardinality(Exits(events, e))
        /\ Workflows(e)' = sleeping'[e] + waiting'[e] + (IF Pushing(e)' THEN 1 ELSE 0)
                               + Cardinality(Exits(events', e))
    BY WorkflowsAre, WorkflowsWillBe, FiniteExits DEF TypeOK
  <2>2. sleeping[e] \in Nat /\ waiting[e] \in Nat
    BY DEF TypeOK
  <2>3. CASE ReceiveLaunch \/ ReceiveExit
    <3>1. /\ events # << >> /\ events' = Tail(events) /\ UNCHANGED <<waiting, mu>>
          /\ Pushing(e)' = Pushing(e)
      BY <2>3 DEF ReceiveLaunch, ReceiveExit, Pushing
    <3>2. Cardinality(Exits(events, e)) = Cardinality(Exits(events', e))
              + (IF Head(events).type = "exited" /\ Head(events).emulator = e THEN 1 ELSE 0)
      BY <3>1, TailExits DEF TypeOK
    <3>3. sleeping'[e] <= sleeping[e]
              + (IF Head(events).type = "exited" /\ Head(events).emulator = e THEN 1 ELSE 0)
      <4>1. CASE ReceiveLaunch
        BY <2>2, <4>1 DEF ReceiveLaunch
      <4>2. CASE ReceiveExit /\ Head(events).emulator = e
        BY <2>2, <4>2 DEF ReceiveExit, TypeOK
      <4>3. CASE ReceiveExit /\ Head(events).emulator # e
        BY <2>2, <4>3 DEF ReceiveExit, TypeOK
      <4> QED
        BY <2>3, <4>1, <4>2, <4>3
    <3>4. sleeping'[e] \in Nat
      BY DEF TypeOK
    <3> QED
      BY <2>1, <2>2, <3>1, <3>2, <3>3, <3>4
  <2>4. CASE LockPull
    BY <2>1, <2>2, <2>4, HolderAssumption DEF LockPull, Pushing
  <2>5. CASE EndPull
    BY <2>1, <2>2, <2>5, HolderAssumption DEF EndPull, Pushing, Holder
  <2>6. CASE LoopEnds
    BY <2>1, <2>2, <2>6, HolderAssumption DEF LoopEnds, Pushing, Holder
  <2> QED
    BY <2>3, <2>4, <2>5, <2>6 DEF Receiver
<1>3. due'[e] >= due[e]
  BY <1>1 DEF TypeOK
<1> QED
  BY <1>1, <1>2, <1>3, NothingNew

\* A post-exit goroutine moves its push on, and takes it off when it ends.
LEMMA PushBalance ==
    ASSUME TypeOK, TypeOK', Polled, Balance, NEW f \in Emulator, Wake(f) \/ LockPush(f) \/ EndPush(f),
           NEW e \in Emulator
    PROVE  Balanced(e)'
<1>1. UNCHANGED <<proc, watcher, events>>
  BY DEF Wake, LockPush, EndPush, env
<1>2. Owed(e)' = Owed(e)
  BY <1>1, SameOwed
<1>3. /\ Cardinality(Exits(events, e)) \in Nat
      /\ Workflows(e) = sleeping[e] + waiting[e] + (IF Pushing(e) THEN 1 ELSE 0)
                            + Cardinality(Exits(events, e))
      /\ Workflows(e)' = sleeping'[e] + waiting'[e] + (IF Pushing(e)' THEN 1 ELSE 0)
                             + Cardinality(Exits(events, e))
  BY <1>1, WorkflowsAre, WorkflowsWillBe, FiniteExits DEF TypeOK
<1>4. sleeping[e] \in Nat /\ waiting[e] \in Nat /\ due[e] \in Nat
  BY DEF TypeOK
<1>5. CASE Wake(f)
  <2>1. Workflows(e)' = Workflows(e)
    <3>1. UNCHANGED mu /\ Pushing(e)' = Pushing(e)
      BY <1>5 DEF Wake, Pushing
    <3>2. sleeping'[e] + waiting'[e] = sleeping[e] + waiting[e]
      <4>1. /\ sleeping' = [sleeping EXCEPT ![f] = @ - 1] /\ sleeping \in [Emulator -> Nat]
            /\ waiting' = [waiting EXCEPT ![f] = @ + 1] /\ waiting \in [Emulator -> Nat]
        BY <1>5 DEF Wake, TypeOK
      <4>2. CASE e = f
        BY <1>4, <4>1, <4>2
      <4>3. CASE e # f
        BY <1>4, <4>1, <4>3
      <4> QED
        BY <4>2, <4>3
    <3>3. sleeping'[e] \in Nat /\ waiting'[e] \in Nat
      BY DEF TypeOK
    <3> QED
      BY <1>3, <1>4, <3>1, <3>2, <3>3
  <2> QED
    BY <1>2, <1>5, <2>1 DEF Wake, env, Balance, Balanced
<1>6. CASE LockPush(f)
  <2>1. Workflows(e)' = Workflows(e)
    <3>1. /\ waiting' = [waiting EXCEPT ![f] = @ - 1] /\ waiting \in [Emulator -> Nat]
          /\ UNCHANGED sleeping /\ waiting[f] > 0
      BY <1>6 DEF LockPush, TypeOK
    <3>2. ~Pushing(e) /\ (Pushing(e)' <=> e = f)
      BY <1>6, HolderAssumption DEF LockPush, Pushing, Holder
    <3>3. CASE e = f
      BY <1>3, <1>4, <3>1, <3>2, <3>3
    <3>4. CASE e # f
      BY <1>3, <1>4, <3>1, <3>2, <3>4
    <3> QED
      BY <3>3, <3>4
  <2> QED
    BY <1>2, <1>6, <2>1 DEF LockPush, env, Balance, Balanced
<1>7. CASE EndPush(f)
  <2>1. Workflows(e)' = IF f = e THEN Workflows(e) - 1 ELSE Workflows(e)
    BY <1>3, <1>4, <1>7, HolderAssumption DEF EndPush, Pushing, TypeOK, Holder
  <2>2. due'[e] = IF f = e THEN due[e] - 1 ELSE due[e]
    BY <1>4, <1>7 DEF EndPush, TypeOK
  <2>3. Workflows(e) \in Nat /\ Cardinality(Owed(e)) \in Nat
    BY WorkflowsAre, FiniteOwed
  <2> QED
    BY <1>2, <1>4, <2>1, <2>2, <2>3 DEF Balance, Balanced
<1> QED
  BY <1>5, <1>6, <1>7

-----------------------------------------------------------------------------

\* Every step keeps the invariant.
LEMMA StepInductive == Inductive /\ [Next]_vars => Inductive'
<1> SUFFICES ASSUME Inductive, [Next]_vars PROVE Inductive'
  OBVIOUS
<1> USE DEF Inductive
<1>1. CASE UNCHANGED vars
  <2>1. TypeOK' /\ Polled'
    BY <1>1 DEF vars, TypeOK, Polled, NewlyLaunched, NewlyExited
  <2>2. \A e \in Emulator : Owed(e)' = Owed(e) /\ Workflows(e)' = Workflows(e)
    BY <1>1, SameOwed, SameWorkflows DEF vars, watcher, client
  <2> QED
    BY <1>1, <2>1, <2>2 DEF vars, Balance
<1>2. CASE Next
  <2>1. TypeOK'
    <3>1. CASE \/ Signal \/ \E p \in Pid : Exit(p) \/ \E e \in Emulator : Launch(p, e)
      BY <3>1, EnvironmentType, SignalType
    <3>2. CASE Polling \/ Close
      BY <3>2, WatcherType
    <3>3. CASE Receiver \/ LockPull
      BY <3>3, LoopType
    <3>4. CASE \E e \in Emulator : Wake(e) \/ LockPush(e) \/ EndPush(e)
      BY <3>4, PushType
    <3>5. CASE Ended
      BY <3>5 DEF Ended, vars, TypeOK
    <3> QED
      BY <1>2, <3>1, <3>2, <3>3, <3>4, <3>5 DEF Next
  <2>2. Polled'
    BY <1>2, PolledKeeps
  <2>3. ASSUME NEW e \in Emulator PROVE Balanced(e)'
    <3>1. CASE Signal \/ Ended
      <4>1. Owed(e)' = Owed(e) /\ Workflows(e)' = Workflows(e) /\ due' = due
        BY <3>1, SameOwed, SameWorkflows DEF Signal, Ended, vars, env, watcher, client
      <4> QED
        BY <4>1 DEF Balance, Balanced
    <3>2. CASE \E p \in Pid : Exit(p) \/ \E f \in Emulator : Launch(p, f)
      BY <2>1, <3>2, EnvironmentBalance
    <3>3. CASE Polling \/ Close
      BY <2>1, <3>3, PollBalance, SendExitBalance DEF Polling
    <3>4. CASE Receiver \/ LockPull
      BY <2>1, <3>4, LoopBalance
    <3>5. CASE \E f \in Emulator : Wake(f) \/ LockPush(f) \/ EndPush(f)
      BY <2>1, <3>5, PushBalance
    <3> QED
      BY <1>2, <3>1, <3>2, <3>3, <3>4, <3>5 DEF Next
  <2>4. Balance'
    BY <2>3 DEF Balance, Balanced
  <2> QED
    BY <2>1, <2>2, <2>4
<1> QED
  BY <1>1, <1>2

\* The invariant holds in every state of every behaviour.
THEOREM InductiveCorrect == Spec => []Inductive
BY InitInductive, StepInductive, PTL DEF Spec

\* Types: among them, that the channel never holds more events than it has room for.
THEOREM TypeCorrect == Spec => []TypeOK
<1>1. Inductive => TypeOK
  BY DEF Inductive
<1> QED
  BY <1>1, InductiveCorrect, PTL

\* Nothing is pushed for a process that has not ended, nor twice (poll, runWatch).
THEOREM PushesAreDue == Spec => []NoSpuriousPush
<1>1. Inductive => NoSpuriousPush
  <2> SUFFICES ASSUME Inductive, NEW e \in Emulator PROVE Workflows(e) <= due[e]
    BY DEF NoSpuriousPush
  <2>1. Workflows(e) \in Nat /\ Cardinality(Owed(e)) \in Nat /\ due[e] \in Nat
    BY WorkflowsAre, FiniteOwed DEF Inductive, TypeOK
  <2> QED
    BY <2>1 DEF Inductive, Balance
<1> QED
  BY <1>1, InductiveCorrect, PTL

-----------------------------------------------------------------------------
(* The order of events.                                                    *)

Has(q, type, p) == \E i \in DOMAIN q : q[i].type = type /\ q[i].pid = p

InOrder(q, p) ==
    \A i, j \in DOMAIN q :
        i < j /\ q[i].pid = p /\ q[j].pid = p => q[i].type = "launched" /\ q[j].type = "exited"

\* There is nothing anywhere of a PID that no emulator has had.
Unused(p) ==
    /\ proc[p] = None /\ seen[p] = None /\ tracked[p] = None
    /\ ~Has(events, "launched", p) /\ ~Has(events, "exited", p)

\* The launch under p has been reported: poll will not find it new again.
Reported(p) ==
    \/ tracked[p] # None
    \/ seen[p] # None /\ (phase = "exits" \/ (phase = "launches" /\ p \notin todo))
    \/ seen[p] = None /\ proc[p] = None

\* One process has run under p.  What poll misses of it has ended, what is in the
\* channel was reported once, and an exit that was reported is the last of it.
Once(p) ==
    /\ tracked[p] # None /\ Missed(p) => proc[p] = None
    /\ Has(events, "launched", p) \/ Has(events, "exited", p) => Reported(p)
    /\ Has(events, "exited", p) =>
        proc[p] = None /\ seen[p] = None /\ (tracked[p] = None \/ Sent(p))
    /\ InOrder(events, p)

Ordered ==
    \A p \in Pid :
        /\ started[p] = 0 => Unused(p)
        /\ started[p] <= 1 => Once(p)

\* What is received is no longer in the channel.
LEMMA TailHas ==
    ASSUME NEW q \in Seq(Event), q # << >>, NEW p, NEW type
    PROVE  /\ Has(Tail(q), type, p) => Has(q, type, p)
           /\ InOrder(q, p) => InOrder(Tail(q), p)
<1>1. \A i \in DOMAIN Tail(q) : i \in Nat /\ i + 1 \in DOMAIN q /\ Tail(q)[i] = q[i + 1]
  OBVIOUS
<1>2. Has(Tail(q), type, p) => Has(q, type, p)
  BY <1>1 DEF Has
<1>3. ASSUME InOrder(q, p), NEW i \in DOMAIN Tail(q), NEW j \in DOMAIN Tail(q), i < j,
             Tail(q)[i].pid = p, Tail(q)[j].pid = p
      PROVE  Tail(q)[i].type = "launched" /\ Tail(q)[j].type = "exited"
  <2>1. i + 1 \in DOMAIN q /\ j + 1 \in DOMAIN q /\ i + 1 < j + 1
    BY <1>1, <1>3
  <2>2. q[i + 1].pid = p /\ q[j + 1].pid = p
    BY <1>1, <1>3
  <2> QED
    BY <1>1, <1>3, <2>1, <2>2 DEF InOrder
<1> QED
  BY <1>2, <1>3 DEF InOrder

\* What is sent comes after what is there.
LEMMA AppendHas ==
    ASSUME NEW q \in Seq(Event), NEW x \in Event, NEW p, NEW type
    PROVE  /\ Has(Append(q, x), type, p) <=> Has(q, type, p) \/ (x.type = type /\ x.pid = p)
           /\ InOrder(q, p) /\ x.pid # p => InOrder(Append(q, x), p)
           /\ InOrder(q, p) /\ x.type = "exited" /\ ~Has(q, "exited", p) => InOrder(Append(q, x), p)
           /\ ~Has(q, "launched", p) /\ ~Has(q, "exited", p) => InOrder(Append(q, x), p)
<1>1. /\ DOMAIN Append(q, x) = DOMAIN q \cup {Len(q) + 1}
      /\ Append(q, x)[Len(q) + 1] = x
      /\ \A i \in DOMAIN q : Append(q, x)[i] = q[i] /\ i \in Nat /\ i < Len(q) + 1
  OBVIOUS
<1>2. \A i \in DOMAIN q : q[i] \in Event
  OBVIOUS
<1>3. \A i \in DOMAIN q : q[i].type \in {"launched", "exited"}
  BY <1>2 DEF Event
<1>4. Has(Append(q, x), type, p) <=> Has(q, type, p) \/ (x.type = type /\ x.pid = p)
  BY <1>1 DEF Has
<1>5. ASSUME InOrder(q, p), x.pid = p => x.type = "exited" /\ ~Has(q, "exited", p)
      PROVE  InOrder(Append(q, x), p)
  <2> SUFFICES ASSUME NEW i \in DOMAIN Append(q, x), NEW j \in DOMAIN Append(q, x), i < j,
                      Append(q, x)[i].pid = p, Append(q, x)[j].pid = p
               PROVE  Append(q, x)[i].type = "launched" /\ Append(q, x)[j].type = "exited"
    BY DEF InOrder
  <2>1. i \in DOMAIN q
    BY <1>1
  <2>2. CASE j \in DOMAIN q
    BY <1>1, <1>5, <2>1, <2>2 DEF InOrder
  <2>3. CASE j = Len(q) + 1
    BY <1>1, <1>3, <1>5, <2>1, <2>3 DEF Has
  <2> QED
    BY <1>1, <2>2, <2>3
<1>6. ASSUME ~Has(q, "launched", p), ~Has(q, "exited", p) PROVE InOrder(Append(q, x), p)
  <2>1. \A i \in DOMAIN q : q[i].pid # p
    BY <1>3, <1>6 DEF Has
  <2>2. \A i, j \in DOMAIN Append(q, x) : i < j => Append(q, x)[i].pid # p
    BY <1>1, <2>1
  <2> QED
    BY <2>2 DEF InOrder
<1> QED
  BY <1>4, <1>5, <1>6

\* What an event that is sent changes, and what it does not.
LEMMA Offered ==
    ASSUME TypeOK, NEW type \in {"launched", "exited"}, NEW p \in Pid, NEW e \in Emulator,
           Offer(type, p, e), NEW q
    PROVE  /\ \A t : Has(events', t, q) => Has(events, t, q) \/ (t = type /\ q = p)
           /\ q # p /\ InOrder(events, q) => InOrder(events', q)
           /\ type = "exited" /\ ~Has(events, "exited", q) /\ InOrder(events, q) => InOrder(events', q)
           /\ ~Has(events, "launched", q) /\ ~Has(events, "exited", q) /\ InOrder(events, q)
                => InOrder(events', q)
<1> DEFINE x == [type |-> type, pid |-> p, emulator |-> e]
<1>1. x \in Event /\ x.type = type /\ x.pid = p
  BY DEF Event
<1>2. events \in Seq(Event) /\ events' \in {events, Append(events, x)}
  BY DEF TypeOK, Offer
<1> HIDE DEF x
<1>3. \A t : Has(Append(events, x), t, q) <=> Has(events, t, q) \/ (x.type = t /\ x.pid = q)
  BY <1>1, <1>2, AppendHas
<1>4. /\ q # p /\ InOrder(events, q) => InOrder(Append(events, x), q)
      /\ type = "exited" /\ ~Has(events, "exited", q) /\ InOrder(events, q)
           => InOrder(Append(events, x), q)
      /\ ~Has(events, "launched", q) /\ ~Has(events, "exited", q) => InOrder(Append(events, x), q)
  BY <1>1, <1>2, AppendHas
<1>5. CASE events' = Append(events, x)
  BY <1>1, <1>3, <1>4, <1>5
<1>6. CASE events' = events
  BY <1>6
<1> QED
  BY <1>2, <1>5, <1>6

\* A process that starts is the first under its PID, or the order is no matter.
LEMMA EnvironmentOrdered ==
    ASSUME TypeOK, Ordered, NEW p \in Pid, Exit(p) \/ \E e \in Emulator : Launch(p, e) PROVE Ordered'
<1> SUFFICES ASSUME NEW q \in Pid
             PROVE  /\ started'[q] = 0 => Unused(q)'
                    /\ started'[q] <= 1 => Once(q)'
  BY DEF Ordered
<1>1. UNCHANGED <<phase, todo, seen, tracked, events>>
  BY DEF Exit, Launch, watcher
<1>2. started \in [Pid -> Nat] /\ proc \in Tracked /\ started[q] \in Nat
  BY DEF TypeOK
<1>3. CASE q # p
  <2>1. started'[q] = started[q] /\ proc'[q] = proc[q]
    BY <1>2, <1>3 DEF Exit, Launch, Tracked
  <2> QED
    BY <1>1, <2>1 DEF Ordered, Unused, Once, Missed, Reported, Sent
<1>4. CASE q = p /\ Exit(p)
  <2>1. started'[p] = started[p] /\ proc'[p] = None /\ proc[p] # None
    BY <1>2, <1>4 DEF Exit, Tracked
  <2> QED
    BY <1>1, <1>4, <2>1 DEF Ordered, Unused, Once, Missed, Reported, Sent
<1>5. CASE q = p /\ \E e \in Emulator : Launch(p, e)
  <2>1. started'[p] = started[p] + 1
    BY <1>2, <1>5 DEF Launch
  <2>2. started[p] = 0 => Unused(p) /\ Once(p)
    BY DEF Ordered
  <2> QED
    BY <1>1, <1>2, <1>5, <2>1, <2>2 DEF Unused, Once, Missed, Reported, Sent
<1> QED
  BY <1>3, <1>4, <1>5

\* Poll looks at processes one after the other, and keeps what it has found.
LEMMA PollOrdered ==
    ASSUME TypeOK, Polled, Ordered,
           Poll \/ ReadDone \/ LaunchesDone \/ PollDone \/ Close \/ \E p \in Pid : ReadProc(p)
    PROVE  Ordered'
<1> SUFFICES ASSUME NEW q \in Pid
             PROVE  /\ started[q] = 0 => Unused(q)'
                    /\ started[q] <= 1 => Once(q)'
  BY DEF Ordered, Poll, ReadDone, LaunchesDone, PollDone, Close, ReadProc, env
<1>1. UNCHANGED <<proc, started, events>>
  BY DEF Poll, ReadDone, LaunchesDone, PollDone, Close, ReadProc, env
<1>2. /\ seen \in Tracked /\ started[q] \in Nat
      /\ phase \in {"tick", "closed"} => seen[q] = None
      /\ started[q] = 0 => Unused(q) /\ Once(q)
      /\ started[q] <= 1 => Once(q)
  BY DEF TypeOK, Polled, Nobody, Ordered
<1>3. CASE Poll
  <2>1. phase = "tick" /\ phase' = "read" /\ seen'[q] = None /\ tracked' = tracked
        /\ (q \in todo' <=> proc[q] # None)
    BY <1>3 DEF Poll, Nobody
  <2> QED
    BY <1>1, <1>2, <2>1 DEF Unused, Once, Missed, Reported, Sent
<1>4. ASSUME NEW p \in Pid, ReadProc(p) PROVE (started[q] = 0 => Unused(q)') /\ (started[q] <= 1 => Once(q)')
  <2>1. /\ phase = "read" /\ phase' = "read" /\ tracked' = tracked
        /\ seen'[q] = IF q = p THEN proc[p] ELSE seen[q]
        /\ q \in todo' <=> q \in todo /\ q # p
    BY <1>2, <1>4 DEF ReadProc, Tracked
  <2> QED
    BY <1>1, <1>2, <2>1 DEF Unused, Once, Missed, Reported, Sent
<1>5. CASE ReadDone
  <2>1. /\ phase = "read" /\ phase' = "launches" /\ tracked' = tracked /\ seen' = seen
        /\ q \notin todo /\ (q \in todo' <=> seen[q] # None /\ tracked[q] = None)
    BY <1>5 DEF ReadDone, NewlyLaunched
  <2> QED
    BY <1>1, <1>2, <2>1 DEF Unused, Once, Missed, Reported, Sent
<1>6. CASE LaunchesDone
  <2>1. /\ phase = "launches" /\ phase' = "exits" /\ tracked' = tracked /\ seen' = seen
        /\ q \notin todo /\ (q \in todo' <=> tracked[q] # None /\ seen[q] = None)
    BY <1>6 DEF LaunchesDone, NewlyExited
  <2> QED
    BY <1>1, <1>2, <2>1 DEF Unused, Once, Missed, Reported, Sent
<1>7. CASE PollDone
  <2>1. phase = "exits" /\ phase' = "tick" /\ tracked' = seen /\ seen'[q] = None
    BY <1>7 DEF PollDone, Nobody
  <2> QED
    BY <1>1, <1>2, <2>1 DEF Unused, Once, Missed, Reported, Sent
<1>8. CASE Close
  <2>1. phase = "tick" /\ phase' = "closed" /\ tracked' = tracked /\ seen' = seen
    BY <1>8 DEF Close
  <2> QED
    BY <1>1, <1>2, <2>1 DEF Unused, Once, Missed, Reported, Sent
<1> QED
  BY <1>3, <1>4, <1>5, <1>6, <1>7, <1>8

\* A launch is reported before anything else about its process.
LEMMA SendLaunchOrdered ==
    ASSUME TypeOK, Polled, Ordered, NEW p \in Pid, SendLaunch(p) PROVE Ordered'
<1> SUFFICES ASSUME NEW q \in Pid
             PROVE  /\ started[q] = 0 => Unused(q)'
                    /\ started[q] <= 1 => Once(q)'
  BY DEF Ordered, SendLaunch, env
<1>1. /\ UNCHANGED <<proc, started, phase, seen, tracked>> /\ phase = "launches"
      /\ todo' = todo \ {p} /\ p \in todo
      /\ seen[p] \in Emulator /\ seen[p] # None /\ tracked[p] = None
  BY NoneAssumption DEF SendLaunch, env, TypeOK, Tracked, Polled, NewlyLaunched
<1>2. /\ started[q] \in Nat
      /\ started[q] = 0 => Unused(q) /\ Once(q)
      /\ started[q] <= 1 => Once(q)
  BY DEF TypeOK, Ordered
<1>3. /\ \A t : Has(events', t, q) => Has(events, t, q) \/ (t = "launched" /\ q = p)
      /\ q # p /\ InOrder(events, q) => InOrder(events', q)
      /\ ~Has(events, "launched", q) /\ ~Has(events, "exited", q) /\ InOrder(events, q)
           => InOrder(events', q)
  BY <1>1, Offered DEF SendLaunch
<1>4. CASE q # p
  BY <1>1, <1>2, <1>3, <1>4 DEF Unused, Once, Missed, Reported, Sent
<1>5. CASE q = p
  <2>1. started[q] # 0
    BY <1>1, <1>2, <1>5 DEF Unused
  <2>2. started[q] <= 1 => ~Has(events, "launched", q) /\ ~Has(events, "exited", q)
    BY <1>1, <1>2, <1>5 DEF Once, Reported
  <2> QED
    BY <1>1, <1>2, <1>3, <1>5, <2>1, <2>2 DEF Once, Missed, Reported, Sent
<1> QED
  BY <1>4, <1>5

\* An exit is reported when it has not been.
LEMMA SendExitOrdered ==
    ASSUME TypeOK, Polled, Ordered, NEW p \in Pid, SendExit(p) PROVE Ordered'
<1> SUFFICES ASSUME NEW q \in Pid
             PROVE  /\ started[q] = 0 => Unused(q)'
                    /\ started[q] <= 1 => Once(q)'
  BY DEF Ordered, SendExit, env
<1>1. /\ UNCHANGED <<proc, started, phase, seen, tracked>> /\ phase = "exits"
      /\ todo' = todo \ {p} /\ p \in todo
      /\ tracked[p] \in Emulator /\ tracked[p] # None /\ seen[p] = None
  BY NoneAssumption DEF SendExit, env, TypeOK, Tracked, Polled, NewlyExited
<1>2. /\ started[q] \in Nat
      /\ started[q] = 0 => Unused(q) /\ Once(q)
      /\ started[q] <= 1 => Once(q)
  BY DEF TypeOK, Ordered
<1>3. /\ \A t : Has(events', t, q) => Has(events, t, q) \/ (t = "exited" /\ q = p)
      /\ q # p /\ InOrder(events, q) => InOrder(events', q)
      /\ ~Has(events, "exited", q) /\ InOrder(events, q) => InOrder(events', q)
  BY <1>1, Offered DEF SendExit
<1>4. CASE q # p
  BY <1>1, <1>2, <1>3, <1>4 DEF Unused, Once, Missed, Reported, Sent
<1>5. CASE q = p
  <2>1. started[q] # 0
    BY <1>1, <1>2, <1>5 DEF Unused
  <2>2. started[q] <= 1 => ~Has(events, "exited", q) /\ proc[q] = None
    BY <1>1, <1>2, <1>5 DEF Once, Missed, Sent
  <2> QED
    BY <1>1, <1>2, <1>3, <1>5, <2>1, <2>2 DEF Once, Missed, Reported, Sent
<1> QED
  BY <1>4, <1>5

\* The other goroutines take from the channel, at most.
LEMMA OthersOrdered ==
    ASSUME TypeOK, Ordered, UNCHANGED <<proc, started, watcher>>,
           \/ UNCHANGED events
           \/ events # << >> /\ events' = Tail(events)
    PROVE  Ordered'
<1> SUFFICES ASSUME NEW q \in Pid
             PROVE  /\ started[q] = 0 => Unused(q)'
                    /\ started[q] <= 1 => Once(q)'
  BY DEF Ordered
<1>1. UNCHANGED <<proc, started, phase, todo, seen, tracked>>
  BY DEF watcher
<1>2. /\ \A t : Has(events', t, q) => Has(events, t, q)
      /\ InOrder(events, q) => InOrder(events', q)
  BY TailHas DEF TypeOK
<1>3. /\ started[q] = 0 => Unused(q)
      /\ started[q] <= 1 => Once(q)
  BY DEF Ordered
<1> QED
  BY <1>1, <1>2, <1>3 DEF Unused, Once, Missed, Reported, Sent

\* Every step keeps the order.
LEMMA StepOrdered == Inductive /\ Ordered /\ [Next]_vars => Ordered'
<1> SUFFICES ASSUME Inductive, Ordered, [Next]_vars PROVE Ordered'
  OBVIOUS
<1> USE DEF Inductive
<1>1. CASE Signal \/ Ended \/ UNCHANGED vars
  BY <1>1, OthersOrdered DEF Signal, Ended, vars, env, watcher
<1>2. CASE \E p \in Pid : Exit(p) \/ \E e \in Emulator : Launch(p, e)
  BY <1>2, EnvironmentOrdered
<1>3. CASE Polling \/ Close
  BY <1>3, PollOrdered, SendLaunchOrdered, SendExitOrdered DEF Polling
<1>4. CASE Receiver \/ LockPull
  BY <1>4, OthersOrdered DEF Receiver, ReceiveLaunch, ReceiveExit, EndPull, LoopEnds, LockPull, env
<1>5. CASE \E e \in Emulator : Wake(e) \/ LockPush(e) \/ EndPush(e)
  BY <1>5, OthersOrdered DEF Wake, LockPush, EndPush, env
<1> QED
  BY <1>1, <1>2, <1>3, <1>4, <1>5 DEF Next

\* At first there is no process and no event.
LEMMA InitOrdered == Init => Ordered
<1> SUFFICES ASSUME Init, NEW p \in Pid PROVE Unused(p) /\ Once(p)
  BY DEF Ordered
<1>1. events = << >> /\ proc[p] = None /\ seen[p] = None /\ tracked[p] = None
  BY DEF Init, Nobody
<1>2. (\A t : ~Has(events, t, p)) /\ InOrder(events, p)
  BY <1>1 DEF Has, InOrder
<1> QED
  BY <1>1, <1>2 DEF Unused, Once

\* The loop gets the launch of a process before its exit and each of them once at
\* most, whatever is dropped, however /proc changes while it is read, and however
\* large the channel is (poll).
THEOREM EventsStayInOrder == Spec => []EventsInOrder
<1>1. TypeOK /\ Ordered => EventsInOrder
  <2> SUFFICES ASSUME TypeOK, Ordered, NEW i \in DOMAIN events, NEW j \in DOMAIN events,
                      i < j, events[i].pid = events[j].pid, started[events[i].pid] = 1
               PROVE  events[i].type = "launched" /\ events[j].type = "exited"
    BY DEF EventsInOrder
  <2>1. events[i] \in Event
    BY DEF TypeOK
  <2>2. InOrder(events, events[i].pid)
    BY <2>1 DEF Event, Ordered, Once
  <2> QED
    BY <2>2 DEF InOrder
<1> QED
  BY <1>1, InitOrdered, StepOrdered, InductiveCorrect, TypeCorrect, PTL DEF Spec

-----------------------------------------------------------------------------
(* Whose process it is.                                                    *)

\* Words that are no emulator's: wrappers, launchers, and what stands beside a
\* program's name when it is started in one of those ways.
Foreign == {"bwrap", "flatpak", "pressure-vessel-wrap", "wine-preloader", "wine64-preloader", "proton",
            "AppRun", "main", "vi"}

Named == [word : STRING \cup Foreign, upper : BOOLEAN, ext : Extension]

\* A configuration in which names can be told apart: an emulator has no word of
\* those that come before it.
Distinct(e) ==
    \A d \in DOMAIN Emulators : d < e =>
        \A n \in Emulators[e], m \in Emulators[d] : n.word # m.word

Configuration ==
    /\ Emulators \in Seq(SUBSET Named)
    /\ \A e \in DOMAIN Emulators : \A n \in Emulators[e] : n.word \notin Foreign /\ n.ext # " (deleted)"
    /\ NoName \notin Named

\* The parts of a name.
LEMMA NamedParts ==
    ASSUME NEW n \in Named
    PROVE  n.upper \in BOOLEAN /\ n.ext \in Extension /\ n = Name(n.word, n.upper, n.ext)
BY DEF Named, Name

\* A change of case or of extension does not change the word.
LEMMA SameWord ==
    ASSUME NEW n \in Named, NEW m \in Named, Same(n, m) PROVE n.word = m.word
<1>1. \A k \in Named : Fold(k).word = k.word
  BY DEF Fold, Named
<1>2. \A k \in Named : Stripped(k) \in Named /\ Stripped(k).word = k.word
  BY DEF Named, Stripped, Extension
<1>3. CASE Fold(n) = Fold(m)
  BY <1>1, <1>3
<1>4. CASE Fold(Stripped(n)) = Fold(Stripped(m))
  BY <1>1, <1>2, <1>4
<1> QED
  BY <1>3, <1>4 DEF Same

\* What MatchesProcess takes for the same program: a name in another case, an
\* AppImage, a program for Windows in capitals.
LEMMA SameName ==
    ASSUME NEW n \in Named
    PROVE  /\ Same(n, n)
           /\ Same(Upper(n), n)
           /\ Same(Image(n), n)
           /\ n.ext = ".exe" => \A ext \in {".exe", ".EXE"} : Same([n EXCEPT !.ext = ext], n)
<1>1. PICK w \in {n.word}, u \in BOOLEAN, x \in Extension : n = Name(w, u, x)
  BY NamedParts, Zenon
<1>2. Same(n, n)
  BY DEF Same
<1>3. Fold(Upper(n)) = Fold(n)
  BY <1>1 DEF Fold, Name, Upper
<1>4. Same(Upper(n), n)
  BY <1>3 DEF Same
<1>5. Same(Image(n), n)
  <2>1. CASE x = ""
    BY <1>1, <2>1 DEF Same, Fold, Stripped, Name, Lower, Image
  <2>2. CASE x # ""
    BY <1>1, <1>2, <2>2 DEF Name, Image
  <2> QED
    BY <2>1, <2>2
<1>6. n.ext = ".exe" => \A ext \in {".exe", ".EXE"} : Same([n EXCEPT !.ext = ext], n)
  <2> SUFFICES ASSUME x = ".exe", NEW ext \in {".exe", ".EXE"}
               PROVE  Fold([n EXCEPT !.ext = ext]) = Fold(n)
    BY <1>1 DEF Name, Same
  <2> QED
    BY <1>1 DEF Fold, Name, Lower
<1> QED
  BY <1>2, <1>4, <1>5, <1>6

\* Emulators have numbers, and sets of names.
LEMMA EmulatorNames ==
    ASSUME Configuration
    PROVE  DOMAIN Emulators \subseteq Nat /\ \A d \in DOMAIN Emulators : Emulators[d] \subseteq Named
<1>0. ASSUME NEW S, NEW q \in Seq(S)
      PROVE  DOMAIN q = 1 .. Len(q) /\ \A d \in 1 .. Len(q) : q[d] \in S
  OBVIOUS
<1>1. DOMAIN Emulators = 1 .. Len(Emulators)
      /\ \A d \in 1 .. Len(Emulators) : Emulators[d] \in SUBSET Named
  BY <1>0 DEF Configuration
<1>2. 1 .. Len(Emulators) \subseteq Nat
  OBVIOUS
<1> QED
  BY <1>1, <1>2, Zenon

\* The first emulator with one of the names.
LEMMA First ==
    ASSUME Configuration, NEW e \in DOMAIN Emulators, Distinct(e), NEW n \in Emulators[e],
           NEW names \in SUBSET Named,
           \A k \in names : k.word = n.word \/ k.word \in Foreign,
           NEW k \in names, Same(k, n)
    PROVE  EmulatorWith(names) = e
<1> DEFINE found == {d \in DOMAIN Emulators : \E l \in names, m \in Emulators[d] : Same(l, m)}
<1>1. DOMAIN Emulators \subseteq Nat /\ \A d \in DOMAIN Emulators : Emulators[d] \subseteq Named
  BY EmulatorNames
<1>2. e \in found
  OBVIOUS
<1>3. ASSUME NEW d \in found PROVE e <= d
  <2>1. PICK l \in names, m \in Emulators[d] : Same(l, m)
    BY <1>3
  <2>2. l.word = m.word
    BY <1>1, <2>1, SameWord
  <2>3. m.word \notin Foreign
    BY <2>1 DEF Configuration
  <2>4. l.word = n.word
    BY <2>1, <2>2, <2>3
  <2>5. ~(d < e)
    BY <2>2, <2>4 DEF Distinct
  <2> QED
    BY <1>1, <2>5
<1>4. found \subseteq Nat
  BY <1>1
<1> HIDE DEF found
<1>5. Min(found) = e
  <2>1. \A x \in found : (\A y \in found : x <= y) => x = e
    BY <1>2, <1>3, <1>4
  <2> QED
    BY <1>2, <1>3, <2>1, Zenon DEF Min
<1> QED
  BY <1>2, <1>5 DEF EmulatorWith, found

\* A program that no wrapper and no launcher starts is found under all of its names.
LEMMA NotWrapped ==
    ASSUME NEW p, p.comm # Plain("bwrap"),
           p.cmdline # << >> => p.cmdline[1].name \notin Wrappers,
           \A i \in DOMAIN p.cmdline : p.cmdline[i].name \notin Launchers
    PROVE  ResolveNames(p) = AllNames(p)
<1>1. ~IsFlatpak(p)
  BY DEF IsFlatpak
<1>2. ~IsProton(p)
  BY DEF IsProton
<1> QED
  BY <1>1, <1>2 DEF ResolveNames

\* The literals of the model among the names.
Literals == {Plain(w) : w \in Foreign}

\* A name with a word of its own is none of the literals, nor what was not found.
LEMMA NoLiteral ==
    ASSUME Configuration
    PROVE  /\ Literals \subseteq Named /\ Wrappers \cup Launchers \subseteq Literals
           /\ \A k \in Named : k # NoName
           /\ \A k \in Named : k.word \notin Foreign => k \notin Literals
<1>1. \A w \in Foreign : Plain(w) \in Named /\ Plain(w).word = w
  <2>1. FALSE \in BOOLEAN /\ "" \in Extension
    BY DEF Extension
  <2> QED
    BY <2>1 DEF Named, Plain, Name
<1>2. Wrappers \cup Launchers \subseteq Literals
  BY DEF Wrappers, Launchers, Literals, Foreign
<1>3. Literals \subseteq Named
  BY <1>1, Zenon DEF Literals
<1>4. \A k \in Named : k.word \notin Foreign => k \notin Literals
  BY <1>1, Zenon DEF Literals
<1> QED
  BY <1>2, <1>3, <1>4 DEF Configuration

\* The name of a program as /proc may have it.
Alias(n) == {k \in Named : k.word = n.word}

\* Those of the model.
LEMMA Aliases ==
    ASSUME NEW n \in Named
    PROVE  /\ n \in Alias(n)
           /\ {Upper(n), Deleted(n), Image(n)} \subseteq Alias(n)
           /\ \A ext \in Extension : [n EXCEPT !.ext = ext] \in Alias(n)
<1>1. {" (deleted)", ".AppImage"} \subseteq Extension
  BY DEF Extension
<1> QED
  BY <1>1 DEF Alias, Named, Upper, Deleted, Image

\* A program that is started as what it is.
LEMMA Itself ==
    ASSUME Configuration, NEW e \in DOMAIN Emulators, Distinct(e), NEW n \in Emulators[e],
           NEW p, ResolveNames(p) \subseteq Alias(n) \cup Literals,
           NEW k \in ResolveNames(p), Same(k, n)
    PROVE  EmulatorOf(p) = e
<1>1. ResolveNames(p) \subseteq Named
  BY NoLiteral DEF Alias
<1>2. \A w \in Foreign : Plain(w).word = w
  BY DEF Plain, Name
<1>3. \A l \in ResolveNames(p) : l.word = n.word \/ l.word \in Foreign
  BY <1>2, Zenon DEF Alias, Literals
<1> QED
  BY <1>1, <1>3, First DEF EmulatorOf

-----------------------------------------------------------------------------
(* Argument lists.                                                         *)

\* The least and the greatest of some places.
LEMMA Least ==
    ASSUME NEW S, S \subseteq Nat, NEW x \in S, \A y \in S : x <= y PROVE Min(S) = x
<1>1. \A z \in S : (\A y \in S : z <= y) => z = x
  OBVIOUS
<1> QED
  BY <1>1, Zenon DEF Min

\* The same from above.
LEMMA Greatest ==
    ASSUME NEW S, S \subseteq Nat, NEW x \in S, \A y \in S : x >= y PROVE Max(S) = x
<1>1. \A z \in S : (\A y \in S : z >= y) => z = x
  OBVIOUS
<1> QED
  BY <1>1, Zenon DEF Max

\* A program with its arguments.
LEMMA Called ==
    ASSUME NEW a, a \in Seq(Argument), NEW f
    PROVE  LET s == <<f>> \o a
           IN /\ s # << >> /\ DOMAIN s = 1 .. Len(a) + 1 /\ s[1] = f
              /\ \A i \in 2 .. Len(a) + 1 : i - 1 \in DOMAIN a /\ s[i] = a[i - 1]
<1> DEFINE S == Argument \cup {f}
           s == <<f>> \o a
<1>1. a \in Seq(S) /\ <<f>> \in Seq(S) /\ Len(<<f>>) = 1 /\ <<f>>[1] = f
  BY SeqMonotonic
<1>2. Len(a) \in Nat /\ DOMAIN a = 1 .. Len(a)
  BY LenProperties
<1> HIDE DEF S
<1>3. s \in Seq(S) /\ Len(s) = Len(a) + 1
  BY <1>1, <1>2, ConcatProperties
<1>4. DOMAIN s = 1 .. Len(a) + 1
  BY <1>3, LenProperties
<1>5. \A i \in 1 .. Len(a) + 1 : s[i] = IF i <= 1 THEN <<f>>[i] ELSE a[i - 1]
  BY <1>1, <1>2, ConcatProperties
<1>6. s # << >>
  BY <1>2, <1>3
<1> QED
  BY <1>1, <1>2, <1>4, <1>5, <1>6

\* A list with something in the middle.
LEMMA Placed ==
    ASSUME NEW f, NEW a, a \in Seq(Argument), NEW m, NEW S, NEW b, b \in Seq(S)
    PROVE  LET s == Line(f, a, m, b)
           IN /\ Len(a) \in Nat /\ Len(b) \in Nat /\ Len(s) = Len(a) + Len(b) + 2
              /\ s # << >> /\ DOMAIN s = 1 .. Len(s)
              /\ s[1] = f /\ s[Len(a) + 2] = m
              /\ \A i \in 2 .. Len(a) + 1 : i - 1 \in DOMAIN a /\ s[i] = a[i - 1]
              /\ \A i \in Len(a) + 3 .. Len(s) :
                    i - Len(a) - 2 \in DOMAIN b /\ s[i] = b[i - Len(a) - 2]
<1> DEFINE T == Argument \cup {f, m} \cup S
           s1 == <<f>> \o a
           s2 == s1 \o <<m>>
           s == s2 \o b
<1>1. /\ a \in Seq(T) /\ b \in Seq(T)
      /\ <<f>> \in Seq(T) /\ Len(<<f>>) = 1 /\ <<f>>[1] = f
      /\ <<m>> \in Seq(T) /\ Len(<<m>>) = 1 /\ <<m>>[1] = m
  <2>1. a \in Seq(T) /\ b \in Seq(T)
    BY SeqMonotonic
  <2> QED
    BY <2>1
<1>2. Len(a) \in Nat /\ DOMAIN a = 1 .. Len(a) /\ Len(b) \in Nat /\ DOMAIN b = 1 .. Len(b)
  BY LenProperties
<1> HIDE DEF T
<1>3. /\ s1 \in Seq(T) /\ Len(s1) = Len(a) + 1
      /\ \A i \in 1 .. Len(a) + 1 : s1[i] = IF i <= 1 THEN <<f>>[i] ELSE a[i - 1]
  BY <1>1, <1>2, ConcatProperties
<1> HIDE DEF s1
<1>4. /\ s2 \in Seq(T) /\ Len(s2) = Len(a) + 2
      /\ \A i \in 1 .. Len(a) + 2 : s2[i] = IF i <= Len(a) + 1 THEN s1[i] ELSE <<m>>[i - (Len(a) + 1)]
  BY <1>1, <1>2, <1>3, ConcatProperties
<1> HIDE DEF s2
<1>5. /\ s \in Seq(T) /\ Len(s) = Len(a) + 2 + Len(b)
      /\ \A i \in 1 .. Len(a) + 2 + Len(b) :
            s[i] = IF i <= Len(a) + 2 THEN s2[i] ELSE b[i - (Len(a) + 2)]
  <2>1. s2 \in Seq(T) /\ b \in Seq(T)
    BY <1>1, <1>4
  <2>2. /\ s \in Seq(T) /\ Len(s) = Len(s2) + Len(b)
        /\ \A i \in 1 .. Len(s2) + Len(b) :
              s[i] = IF i <= Len(s2) THEN s2[i] ELSE b[i - Len(s2)]
    BY <2>1, ConcatProperties
  <2> QED
    BY <1>4, <2>2
<1>6. DOMAIN s = 1 .. Len(s)
  BY <1>5, LenProperties
<1>7. s = Line(f, a, m, b)
  BY DEF Line, s1, s2
<1> HIDE DEF s
<1>8. s # << >>
  BY <1>2, <1>5
<1>9. \A i \in 1 .. Len(a) + 1 : s[i] = s1[i]
  BY <1>2, <1>4, <1>5
<1>10. s[Len(a) + 2] = m
  BY <1>1, <1>2, <1>4, <1>5
<1>11. s[1] = f /\ \A i \in 2 .. Len(a) + 1 : i - 1 \in DOMAIN a /\ s[i] = a[i - 1]
  BY <1>1, <1>2, <1>3, <1>9
<1>12. \A i \in Len(a) + 3 .. Len(s) : i - Len(a) - 2 \in DOMAIN b /\ s[i] = b[i - Len(a) - 2]
  BY <1>2, <1>5
<1> QED
  BY <1>2, <1>5, <1>6, <1>7, <1>8, <1>10, <1>11, <1>12

-----------------------------------------------------------------------------
(* The ways in which a program is started.                                 *)

\* What the names of a configured program are.
LEMMA OwnNames ==
    ASSUME Configuration, NEW e \in DOMAIN Emulators, NEW n \in Emulators[e]
    PROVE  /\ n \in Named /\ n.word \notin Foreign
           /\ \A k \in Alias(n) : k # NoName /\ k \notin Literals /\ k \notin Wrappers \cup Launchers
           /\ \A w \in Foreign : Plain(w) \in Literals /\ Plain(w) # NoName
<1>1. n \in Named /\ n.word \notin Foreign
  <2>1. Emulators[e] \subseteq Named
    BY EmulatorNames
  <2> QED
    BY <2>1 DEF Configuration
<1>2. \A k \in Alias(n) : k # NoName /\ k \notin Literals /\ k \notin Wrappers \cup Launchers
  BY <1>1, NoLiteral DEF Alias
<1> QED
  BY <1>1, <1>2, NoLiteral DEF Literals

\* Without a wrapper: one of the names is the program's, and the others are too, or
\* nobody's.
LEMMA StartedIsFound ==
    ASSUME Configuration, NEW e \in DOMAIN Emulators, Distinct(e), NEW n \in Emulators[e],
           NEW p \in Started(n)
    PROVE  EmulatorOf(p) = e
<1>1. /\ n \in Named
      /\ \A k \in Alias(n) : k # NoName /\ k \notin Literals /\ k \notin Wrappers \cup Launchers
      /\ \A w \in Foreign : Plain(w) \in Literals /\ Plain(w) # NoName
  BY OwnNames
<1>2. /\ {n, Upper(n), Deleted(n), Image(n)} \subseteq Alias(n)
      /\ Same(n, n) /\ Same(Upper(n), n) /\ Same(Image(n), n)
  BY <1>1, Aliases, SameName
<1>3. /\ {Plain("main"), Plain("AppRun"), Plain("bwrap")} \subseteq Literals
      /\ Plain("main") # NoName /\ Plain("AppRun") # NoName /\ Plain("main") # Plain("bwrap")
  BY <1>1 DEF Foreign, Plain, Name
<1>4. CASE \E comm \in {n, Upper(n), Plain("main")}, exe \in {n, Deleted(n), Plain("AppRun"), NoName},
              argv0 \in {n, Image(n)}, a \in Unlaunched :
                p = Process(comm, exe, <<Word(argv0)>> \o a)
  <2>1. PICK comm \in {n, Upper(n), Plain("main")}, exe \in {n, Deleted(n), Plain("AppRun"), NoName},
             argv0 \in {n, Image(n)}, a \in Unlaunched :
                p = Process(comm, exe, <<Word(argv0)>> \o a)
    BY <1>4
  <2>2. a \in Seq(Argument) /\ \A i \in DOMAIN a : a[i].name \notin Launchers
    BY ArgsAssumption DEF Unlaunched
  <2> DEFINE s == <<Word(argv0)>> \o a
  <2>3. /\ s # << >> /\ DOMAIN s = 1 .. Len(a) + 1 /\ s[1] = Word(argv0)
        /\ \A i \in 2 .. Len(a) + 1 : i - 1 \in DOMAIN a /\ s[i] = a[i - 1]
    BY <2>2, Called
  <2> HIDE DEF s
  <2>4. Len(a) \in Nat
    BY <2>2, LenProperties
  <2>5. Word(argv0).name = argv0
    BY DEF Word, Arg
  <2>6. p.comm = comm /\ p.exe = exe /\ p.cmdline = s
    BY <2>1 DEF Process, s
  <2>7. \A i \in DOMAIN s : i = 1 \/ i \in 2 .. Len(a) + 1
    BY <2>3, <2>4
  <2>8. ResolveNames(p) = AllNames(p)
    <3>1. p.comm # Plain("bwrap")
      BY <1>1, <1>2, <1>3, <2>6
    <3>2. p.cmdline[1].name \notin Wrappers
      BY <1>1, <1>2, <2>3, <2>5, <2>6
    <3>3. \A i \in DOMAIN p.cmdline : p.cmdline[i].name \notin Launchers
      BY <1>1, <1>2, <2>2, <2>3, <2>5, <2>6, <2>7
    <3> QED
      BY <3>1, <3>2, <3>3, NotWrapped
  <2>9. AllNames(p) = {IF exe # NoName THEN exe ELSE argv0, comm, argv0}
    <3>1. 1 \in DOMAIN s
      BY <2>3, <2>4
    <3>2. {p.cmdline[i].name : i \in {1} \cap DOMAIN p.cmdline} = {argv0}
      BY <2>3, <2>5, <2>6, <3>1
    <3>3. BinaryName(p) = IF exe # NoName THEN exe ELSE argv0
      BY <2>3, <2>5, <2>6 DEF BinaryName
    <3>4. comm # NoName /\ argv0 # NoName
      BY <1>1, <1>2, <1>3
    <3> QED
      BY <2>6, <3>2, <3>3, <3>4 DEF AllNames
  <2>10. ResolveNames(p) \subseteq Alias(n) \cup Literals
    BY <1>2, <1>3, <2>8, <2>9
  <2>11. argv0 \in ResolveNames(p) /\ Same(argv0, n)
    BY <1>2, <2>8, <2>9
  <2> QED
    BY <2>10, <2>11, Itself
<1>5. CASE \E comm \in {n, Upper(n)} : p = Process(comm, NoName, << >>)
  <2>1. PICK comm \in {n, Upper(n)} : p = Process(comm, NoName, << >>)
    BY <1>5
  <2>2. p.comm = comm /\ p.exe = NoName /\ p.cmdline = << >>
    BY <2>1 DEF Process
  <2>3. ResolveNames(p) = AllNames(p)
    BY <1>1, <1>2, <1>3, <2>2, NotWrapped
  <2>4. AllNames(p) = {comm}
    BY <1>1, <1>2, <2>2 DEF AllNames, BinaryName
  <2> QED
    BY <1>2, <2>3, <2>4, Itself
<1> QED
  BY <1>4, <1>5 DEF Started

\* What a sandbox and Wine are called with.
LEMMA Arguments ==
    /\ \A k, form : Arg(k, form).name = k /\ Arg(k, form).form = form
    /\ \A k : Word(k).name = k /\ Word(k).form = "word" /\ Word(k) # Separator
    /\ \A k, form : form # "flag" => Arg(k, form) # Separator
<1>1. \A k, form : Arg(k, form).name = k /\ Arg(k, form).form = form
  BY DEF Arg
<1>2. Separator.form = "flag"
  BY DEF Separator, Arg
<1> QED
  BY <1>1, <1>2 DEF Word

\* Behind the first separator, whatever stands before it and follows.
LEMMA SeparatedIsFound ==
    ASSUME Configuration, NEW e \in DOMAIN Emulators, Distinct(e), NEW n \in Emulators[e],
           NEW p \in Separated(n)
    PROVE  EmulatorOf(p) = e
<1>1. /\ n \in Named /\ n \in Alias(n) /\ Same(n, n) /\ n # NoName
  BY OwnNames, Aliases, SameName
<1>2. PICK before \in Unseparated, form \in {"path", "word"}, after \in Args :
        p = Process(Plain("bwrap"), Plain("bwrap"),
                    Line(Word(Plain("bwrap")), before, Separator, <<Arg(n, form)>> \o after))
  BY DEF Separated
<1> DEFINE b == <<Arg(n, form)>> \o after
           s == Line(Word(Plain("bwrap")), before, Separator, b)
           k == Len(before) + 3
<1>3. before \in Seq(Argument) /\ after \in Seq(Argument) /\ \A i \in DOMAIN before : before[i] # Separator
  BY ArgsAssumption DEF Unseparated
<1>4. /\ b[1] = Arg(n, form) /\ Len(b) >= 1 /\ b \in Seq(Argument \cup {Arg(n, form)})
  <2> DEFINE S == Argument \cup {Arg(n, form)}
  <2>1. after \in Seq(S) /\ <<Arg(n, form)>> \in Seq(S) /\ Len(<<Arg(n, form)>>) = 1
        /\ <<Arg(n, form)>>[1] = Arg(n, form)
    BY <1>3, SeqMonotonic
  <2> HIDE DEF S
  <2>2. b \in Seq(S) /\ Len(b) = 1 + Len(after) /\ b[1] = Arg(n, form) /\ Len(after) \in Nat
    BY <2>1, ConcatProperties, LenProperties
  <2> QED
    BY <2>2 DEF S
<1> HIDE DEF b
<1>5. /\ Len(before) \in Nat /\ Len(b) \in Nat /\ Len(s) = Len(before) + Len(b) + 2
      /\ DOMAIN s = 1 .. Len(s)
      /\ s[1] = Word(Plain("bwrap")) /\ s[Len(before) + 2] = Separator
      /\ \A i \in 2 .. Len(before) + 1 : i - 1 \in DOMAIN before /\ s[i] = before[i - 1]
      /\ \A i \in Len(before) + 3 .. Len(s) :
            i - Len(before) - 2 \in DOMAIN b /\ s[i] = b[i - Len(before) - 2]
  BY <1>3, <1>4, Placed
<1> HIDE DEF s
<1>6. p.comm = Plain("bwrap") /\ p.cmdline = s
  BY <1>2 DEF Process, s, b
<1>7. k \in DOMAIN s /\ s[k] = Arg(n, form) /\ s[k] # Separator /\ s[k].name = n
  <2>1. k \in Len(before) + 3 .. Len(s) /\ k - Len(before) - 2 = 1
    BY <1>4, <1>5
  <2>2. s[k] = Arg(n, form)
    BY <1>4, <1>5, <2>1
  <2> QED
    BY <1>5, <2>1, <2>2, Arguments
<1>8. \A i \in 1 .. Len(before) + 1 : s[i] # Separator
  BY <1>3, <1>5, Arguments
<1> DEFINE separators == {i \in DOMAIN p.cmdline : p.cmdline[i] = Separator}
           found == {i \in DOMAIN p.cmdline :
                        p.cmdline[i] # Separator /\ \E j \in separators : j < i}
<1>9. k \in found
  BY <1>5, <1>6, <1>7
<1>10. ASSUME NEW i \in found PROVE k <= i
  <2>1. PICK j \in separators : j < i
    OBVIOUS
  <2>2. j \in 1 .. Len(s) /\ i \in 1 .. Len(s) /\ j > Len(before) + 1
    BY <1>5, <1>6, <1>8
  <2> QED
    BY <1>5, <2>1, <2>2
<1>11. found \subseteq Nat
  BY <1>5, <1>6
<1> HIDE DEF found, k
<1>12. Min(found) = k
  BY <1>9, <1>10, <1>11, Least
<1>13. FlatpakBinary(p) = n
  BY <1>6, <1>7, <1>9, <1>12 DEF FlatpakBinary, found
<1>14. ResolveNames(p) = {n}
  BY <1>1, <1>6, <1>13 DEF ResolveNames, IsFlatpak
<1> QED
  BY <1>1, <1>14, Itself

\* Without a separator: the last plain argument.
LEMMA SandboxedIsFound ==
    ASSUME Configuration, NEW e \in DOMAIN Emulators, Distinct(e), NEW n \in Emulators[e],
           NEW p \in Sandboxed(n, Trailing)
    PROVE  EmulatorOf(p) = e
<1>1. /\ n \in Named /\ n \in Alias(n) /\ Same(n, n) /\ n # NoName
  BY OwnNames, Aliases, SameName
<1>2. PICK before \in Unseparated, after \in Trailing :
        p = Process(Plain("bwrap"), Plain("bwrap"), Line(Word(Plain("bwrap")), before, Word(n), after))
  BY DEF Sandboxed
<1> DEFINE s == Line(Word(Plain("bwrap")), before, Word(n), after)
           k == Len(before) + 2
<1>3. /\ before \in Seq(Argument) /\ \A i \in DOMAIN before : before[i] # Separator
      /\ after \in Seq(Argument)
      /\ \A i \in DOMAIN after : after[i] # Separator /\ after[i].form # "word"
  BY ArgsAssumption DEF Unseparated, Trailing
<1>4. /\ Len(before) \in Nat /\ Len(after) \in Nat /\ Len(s) = Len(before) + Len(after) + 2
      /\ DOMAIN s = 1 .. Len(s)
      /\ s[1] = Word(Plain("bwrap")) /\ s[Len(before) + 2] = Word(n)
      /\ \A i \in 2 .. Len(before) + 1 : i - 1 \in DOMAIN before /\ s[i] = before[i - 1]
      /\ \A i \in Len(before) + 3 .. Len(s) :
            i - Len(before) - 2 \in DOMAIN after /\ s[i] = after[i - Len(before) - 2]
  BY <1>3, Placed
<1> HIDE DEF s
<1>5. p.comm = Plain("bwrap") /\ p.cmdline = s
  BY <1>2 DEF Process, s
<1>6. s[k] # Separator /\ s[k].form = "word" /\ s[k].name = n
  BY <1>4, Arguments
<1>7. \A i \in 1 .. Len(s) :
        i = 1 \/ i \in 2 .. Len(before) + 1 \/ i = k \/ i \in Len(before) + 3 .. Len(s)
  BY <1>4
<1>8. ASSUME NEW i \in DOMAIN s PROVE s[i] # Separator
  <2>1. CASE i = 1
    BY <1>4, <2>1, Arguments
  <2>2. CASE i \in 2 .. Len(before) + 1
    BY <1>3, <1>4, <2>2
  <2>3. CASE i = k
    BY <1>6, <2>3
  <2>4. CASE i \in Len(before) + 3 .. Len(s)
    BY <1>3, <1>4, <2>4
  <2> QED
    BY <1>4, <1>7, <2>1, <2>2, <2>3, <2>4
<1> DEFINE words == {i \in 2 .. Len(p.cmdline) : p.cmdline[i].form = "word"}
<1>9. k \in words /\ words \subseteq Nat
  BY <1>4, <1>5, <1>6
<1>10. ASSUME NEW i \in words PROVE k >= i
  <2>1. i \in 2 .. Len(s) /\ s[i].form = "word"
    BY <1>5
  <2>2. i \notin Len(before) + 3 .. Len(s)
    BY <1>3, <1>4, <2>1
  <2> QED
    BY <1>4, <2>1, <2>2
<1> HIDE DEF words, k
<1>11. Max(words) = k
  BY <1>9, <1>10, Greatest
<1>12. {i \in DOMAIN p.cmdline : p.cmdline[i] = Separator} = {}
  BY <1>5, <1>8
<1>13. FlatpakBinary(p) = n
  BY <1>5, <1>6, <1>9, <1>11, <1>12 DEF FlatpakBinary, words
<1>14. ResolveNames(p) = {n}
  BY <1>1, <1>5, <1>13 DEF ResolveNames, IsFlatpak
<1> QED
  BY <1>1, <1>14, Itself

\* Under Wine: the first program for Windows.
LEMMA InWineIsFound ==
    ASSUME Configuration, NEW e \in DOMAIN Emulators, Distinct(e), NEW n \in Emulators[e],
           n.ext = ".exe", NEW p \in InWine(n)
    PROVE  EmulatorOf(p) = e
<1>1. PICK launcher \in Launchers, before \in WithoutExe, ext \in {".exe", ".EXE"},
           form \in {"path", "word"}, after \in Args :
        p = Process(Plain("main"), Plain("wine-preloader"),
                    Line(Word(launcher), before, Arg([n EXCEPT !.ext = ext], form), after))
  BY DEF InWine
<1> DEFINE name == [n EXCEPT !.ext = ext]
           s == Line(Word(launcher), before, Arg(name, form), after)
           k == Len(before) + 2
<1>2. /\ n \in Named /\ name \in Alias(n) /\ Same(name, n) /\ name # NoName /\ Lower(name.ext) = ".exe"
  <2>1. n \in Named /\ \A l \in Alias(n) : l # NoName
    BY OwnNames
  <2>2. ext \in Extension
    BY DEF Extension
  <2>3. name \in Alias(n) /\ Same(name, n)
    BY <2>1, <2>2, Aliases, SameName
  <2>4. name.ext = ext
    BY <2>1 DEF Named
  <2> QED
    BY <2>1, <2>3, <2>4 DEF Lower
<1>3. /\ before \in Seq(Argument) /\ after \in Seq(Argument)
      /\ \A i \in DOMAIN before : Lower(before[i].name.ext) # ".exe"
  BY ArgsAssumption DEF WithoutExe
<1> HIDE DEF name
<1>4. /\ Len(before) \in Nat /\ Len(after) \in Nat /\ Len(s) = Len(before) + Len(after) + 2
      /\ s # << >> /\ DOMAIN s = 1 .. Len(s)
      /\ s[1] = Word(launcher) /\ s[Len(before) + 2] = Arg(name, form)
      /\ \A i \in 2 .. Len(before) + 1 : i - 1 \in DOMAIN before /\ s[i] = before[i - 1]
  BY <1>3, Placed
<1> HIDE DEF s
<1>5. p.comm = Plain("main") /\ p.cmdline = s
  BY <1>1 DEF Process, s, name
<1>6. s[k].name = name /\ s[1].name = launcher
  BY <1>4, Arguments
<1>7. launcher \notin Wrappers /\ Lower(launcher.ext) # ".exe" /\ Plain("main") # Plain("bwrap")
  <2>1. PICK w \in {"pressure-vessel-wrap", "wine-preloader", "wine64-preloader", "proton"} :
          launcher = Plain(w)
    BY DEF Launchers
  <2> QED
    BY <2>1 DEF Wrappers, Plain, Name, Lower
<1>8. ~IsFlatpak(p)
  BY <1>5, <1>6, <1>7 DEF IsFlatpak
<1>9. IsProton(p)
  <2>1. 1 \in DOMAIN s
    BY <1>4
  <2> QED
    BY <1>5, <1>6, <2>1 DEF IsProton
<1> DEFINE exes == {i \in DOMAIN p.cmdline : Lower(p.cmdline[i].name.ext) = ".exe"}
<1>10. k \in exes /\ exes \subseteq Nat
  BY <1>2, <1>4, <1>5, <1>6
<1>11. ASSUME NEW i \in exes PROVE k <= i
  <2>1. i \in 1 .. Len(s) /\ Lower(s[i].name.ext) = ".exe"
    BY <1>4, <1>5
  <2>2. i # 1
    BY <1>6, <1>7, <2>1
  <2>3. i \notin 2 .. Len(before) + 1
    BY <1>3, <1>4, <2>1
  <2> QED
    BY <1>4, <2>1, <2>2, <2>3
<1> HIDE DEF exes, k
<1>12. Min(exes) = k
  BY <1>10, <1>11, Least
<1>13. ProtonExe(p) = name
  BY <1>5, <1>6, <1>10, <1>12 DEF ProtonExe, exes
<1>14. ResolveNames(p) = {name}
  BY <1>2, <1>8, <1>9, <1>13 DEF ResolveNames
<1> QED
  BY <1>2, <1>14, Itself

\* In all of these ways.
LEMMA ShownIsFound ==
    ASSUME Configuration, NEW e \in DOMAIN Emulators, Distinct(e), NEW n \in Emulators[e], NEW p \in Shown(n)
    PROVE  EmulatorOf(p) = e
BY StartedIsFound, SeparatedIsFound, SandboxedIsFound, InWineIsFound DEF Shown

\* What a program is called with is none of its names.
LEMMA OthersStayIgnored == ASSUME Configuration PROVE OthersAreIgnored
<1> SUFFICES ASSUME NEW e \in DOMAIN Emulators, NEW n \in Emulators[e], NEW a \in Unlaunched
             PROVE  EmulatorOf(Process(Plain("vi"), Plain("vi"), <<Word(Plain("vi")), Word(n)>> \o a)) = 0
  BY DEF OthersAreIgnored
<1> DEFINE s == <<Word(Plain("vi")), Word(n)>> \o a
           p == Process(Plain("vi"), Plain("vi"), s)
           vi == Plain("vi")
<1>1. /\ n \in Named /\ n.word \notin Foreign
      /\ \A d \in DOMAIN Emulators : Emulators[d] \subseteq Named
  <2>1. \A d \in DOMAIN Emulators : Emulators[d] \subseteq Named
    BY EmulatorNames
  <2> QED
    BY <2>1 DEF Configuration
<1>2. vi \in Literals /\ vi \in Named /\ vi # NoName /\ n \notin Wrappers \cup Launchers
  BY <1>1, NoLiteral DEF Literals, Foreign
<1>3. vi # Plain("bwrap") /\ vi \notin Wrappers \cup Launchers /\ vi.word = "vi"
  BY DEF Wrappers, Launchers, Plain, Name
<1>4. /\ p.comm = vi /\ p.exe = vi /\ 1 \in DOMAIN p.cmdline /\ p.cmdline[1].name = vi
      /\ \A i \in DOMAIN p.cmdline : p.cmdline[i].name \notin Launchers
  <2> DEFINE l == <<Word(Plain("vi")), Word(n)>>
             S == Argument \cup {Word(Plain("vi")), Word(n)}
  <2>1. a \in Seq(Argument) /\ \A i \in DOMAIN a : a[i].name \notin Launchers
    BY ArgsAssumption DEF Unlaunched
  <2>2. /\ a \in Seq(S) /\ l \in Seq(S) /\ Len(l) = 2 /\ l[1] = Word(vi) /\ l[2] = Word(n)
        /\ Len(a) \in Nat /\ DOMAIN a = 1 .. Len(a)
    BY <2>1, SeqMonotonic, LenProperties
  <2> HIDE DEF l, S
  <2>3. s \in Seq(S) /\ Len(s) = Len(a) + 2
        /\ \A i \in 1 .. Len(a) + 2 : s[i] = IF i <= 2 THEN l[i] ELSE a[i - 2]
    BY <2>2, ConcatProperties DEF l
  <2>4. DOMAIN s = 1 .. Len(a) + 2
    BY <2>3, LenProperties
  <2> HIDE DEF s
  <2>5. s[1].name = vi /\ s[2].name = n
    BY <2>2, <2>3, Arguments
  <2>6. ASSUME NEW i \in DOMAIN s PROVE s[i].name \notin Launchers
    <3>1. CASE i \in {1, 2}
      BY <1>2, <1>3, <2>5, <3>1
    <3>2. CASE i \in 3 .. Len(a) + 2
      <4>1. s[i] = a[i - 2] /\ i - 2 \in DOMAIN a
        BY <2>2, <2>3, <3>2
      <4> QED
        BY <2>1, <4>1
    <3> QED
      BY <2>2, <2>4, <3>1, <3>2
  <2>7. 1 \in DOMAIN s
    BY <2>2, <2>4
  <2> QED
    BY <2>5, <2>6, <2>7 DEF Process
<1> HIDE DEF p, vi
<1>5. ResolveNames(p) = AllNames(p)
  BY <1>2, <1>3, <1>4, NotWrapped DEF vi
<1>6. AllNames(p) = {vi}
  <2>1. {p.cmdline[i].name : i \in {1} \cap DOMAIN p.cmdline} = {vi}
    BY <1>4
  <2> QED
    BY <1>2, <1>4, <2>1 DEF AllNames, BinaryName
<1>7. ASSUME NEW d \in DOMAIN Emulators, NEW m \in Emulators[d], Same(vi, m) PROVE FALSE
  <2>1. m \in Named /\ m.word \notin Foreign
    BY <1>1 DEF Configuration
  <2>2. m.word = "vi"
    BY <1>2, <1>3, <1>7, <2>1, SameWord
  <2> QED
    BY <2>1, <2>2 DEF Foreign
<1>8. EmulatorWith({vi}) = 0
  BY <1>7 DEF EmulatorWith
<1> QED
  BY <1>5, <1>6, <1>8 DEF EmulatorOf, p, s

\* The process that runs under a PID is of the emulator the watcher finds for it,
\* whatever it and its wrapper are called with, if its program stands where
\* resolveNames looks (Shown), and every emulator that has processes has words of its
\* own in the configuration.
THEOREM EmulatorsStayRight ==
    ASSUME Configuration, Emulator \subseteq DOMAIN Emulators, \A e \in Emulator : Distinct(e)
    PROVE  Spec => []EmulatorIsRight
<1>1. Emulator \subseteq Recognised
  BY ShownIsFound DEF Recognised
<1>2. TypeOK => EmulatorIsRight
  BY <1>1, OthersStayIgnored DEF TypeOK, Tracked, EmulatorIsRight
<1> QED
  BY <1>2, TypeCorrect, PTL
=============================================================================
