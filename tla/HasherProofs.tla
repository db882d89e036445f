---------------------------- MODULE HasherProofs ----------------------------
(***************************************************************************)
(* Theorems about Hasher, for every directory, number of workers and       *)
(* channel capacity.  The inductive invariant follows a file on its way:   *)
(* it is with the walk, in the channel, with one worker or in the map,     *)
(* and it leaves that way only when an error is recorded.                  *)
(***************************************************************************)
EXTENDS Hasher, FiniteSetTheorems, TLAPS

InHand == {at[w] : w \in Worker}

\* No file is in two places at once.
OnePlace ==
    /\ toWalk \cap jobs = {}
    /\ \A w \in Worker : at[w] \notin toWalk \cup jobs
    /\ OneWorkerPerFile

\* Nothing is forgotten without an error.
Accounted == ~walkError /\ ~errs => disk \subseteq toWalk \cup jobs \cup InHand \cup result

\* The order in which the goroutines end.
Ending ==
    /\ closed => toWalk = {}
    /\ \A w \in done : closed /\ jobs = {} /\ at[w] = None
    /\ outcome # "running" => done = Worker
    /\ outcome = "ok" => ~walkError /\ ~errs

Inductive == TypeOK /\ IsFiniteSet(jobs) /\ OnePlace /\ Accounted /\ Ending

\* A new call has everything still to walk.
LEMMA InitInductive == Init => Inductive
<1> SUFFICES ASSUME Init PROVE Inductive
  OBVIOUS
<1>1. IsFiniteSet(jobs) /\ Cardinality(jobs) = 0
  <2>1. jobs = {}
    BY DEF Init
  <2> QED
    BY <2>1, FS_EmptySet, Zenon
<1>2. TypeOK
  <2>1. Cardinality(jobs) <= Capacity
    BY <1>1, CapacityAssumption
  <2> QED
    BY <2>1 DEF Init, TypeOK
<1>3. OnePlace
  BY NoneAssumption DEF Init, OnePlace, OneWorkerPerFile
<1> QED
  BY <1>1, <1>2, <1>3 DEF Init, Inductive, Accounted, Ending

\* A send needs room, so the channel never exceeds its capacity.
LEMMA EnqueueKeeps == ASSUME Inductive, NEW f \in File, Enqueue(f) PROVE Inductive'
<1>1. IsFiniteSet(jobs') /\ Cardinality(jobs') <= Capacity
  <2>1. Cardinality(jobs) \in Nat
    BY FS_CardinalityType DEF Inductive
  <2>2. f \notin jobs
    BY DEF Inductive, OnePlace, Enqueue
  <2>3. IsFiniteSet(jobs') /\ Cardinality(jobs') = Cardinality(jobs) + 1
    BY <2>2, FS_AddElement DEF Inductive, Enqueue
  <2> QED
    BY <2>1, <2>3, CapacityAssumption DEF Enqueue
<1>2. OnePlace'
  BY DEF Inductive, OnePlace, OneWorkerPerFile, Enqueue
<1>3. Accounted'
  BY DEF Inductive, Accounted, InHand, Enqueue
<1>4. Ending'
  BY DEF Inductive, Ending, Enqueue
<1> QED
  BY <1>1, <1>2, <1>3, <1>4 DEF Inductive, TypeOK, Enqueue

\* The other steps of the walk and of the directory.
LEMMA WalkKeeps ==
    ASSUME Inductive, Close \/ Return \/ WalkFails \/ \E f \in File : NotListed(f) \/ Vanish(f)
    PROVE  Inductive'
<1> USE DEF Inductive, TypeOK, OnePlace, OneWorkerPerFile, Accounted, InHand, Ending
<1>1. CASE Close
  BY <1>1 DEF Close
<1>2. CASE Return
  BY <1>2 DEF Return
<1>3. CASE WalkFails
  BY <1>3, WorkerAssumption DEF WalkFails
<1>4. ASSUME NEW f \in File, NotListed(f) PROVE Inductive'
  BY <1>4 DEF NotListed
<1>5. ASSUME NEW f \in File, Vanish(f) PROVE Inductive'
  BY <1>5 DEF Vanish, walker
<1> QED
  BY <1>1, <1>2, <1>3, <1>4, <1>5

\* A worker takes a file out of the channel, and nobody else can.
LEMMA TakeKeeps ==
    ASSUME Inductive, NEW w \in Worker, NEW f \in File, Take(w, f) PROVE Inductive'
<1>1. IsFiniteSet(jobs') /\ Cardinality(jobs') <= Capacity
  <2>1. Cardinality(jobs) \in Nat
    BY FS_CardinalityType DEF Inductive
  <2>2. IsFiniteSet(jobs') /\ Cardinality(jobs') = Cardinality(jobs) - 1
    BY FS_RemoveElement DEF Inductive, Take
  <2> QED
    BY <2>1, <2>2, CapacityAssumption DEF Inductive, TypeOK
<1>2. TypeOK'
  BY <1>1 DEF Inductive, TypeOK, Take, walker
<1>3. OnePlace'
  BY DEF Inductive, TypeOK, OnePlace, OneWorkerPerFile, Take, walker
<1>4. Accounted'
  <2>1. at[w] = None /\ at'[w] = f /\ \A v \in Worker : v # w => at'[v] = at[v]
    BY DEF Inductive, TypeOK, Take, Idle
  <2>2. InHand \subseteq InHand' \cup {None} /\ f \in InHand'
    BY <2>1 DEF InHand
  <2> QED
    BY <2>2, NoneAssumption DEF Inductive, TypeOK, Accounted, Take, walker
<1>5. Ending'
  BY DEF Inductive, TypeOK, Ending, Take, Idle, walker
<1> QED
  BY <1>1, <1>2, <1>3, <1>4, <1>5 DEF Inductive

\* A hashed file goes to the map, a failed one leaves an error.
LEMMA WorkKeeps ==
    ASSUME Inductive, NEW w \in Worker, HashFile(w) \/ HashFails(w) \/ Done(w)
    PROVE  Inductive'
<1> USE DEF Inductive, TypeOK, walker
<1>1. CASE HashFile(w)
  <2>1. at[w] \in File /\ w \notin done
    BY <1>1, NoneAssumption DEF HashFile, Ending
  <2>2. TypeOK' /\ IsFiniteSet(jobs')
    BY <1>1, <2>1 DEF HashFile
  <2>3. OnePlace'
    BY <1>1, NoneAssumption DEF HashFile, OnePlace, OneWorkerPerFile
  <2>4. InHand \subseteq InHand' \cup {at[w]}
    BY <1>1 DEF HashFile, InHand
  <2>5. Accounted'
    BY <1>1, <2>4 DEF HashFile, Accounted
  <2>6. Ending'
    BY <1>1, <2>1 DEF HashFile, Ending
  <2> QED
    BY <2>2, <2>3, <2>5, <2>6
<1>2. CASE HashFails(w)
  <2>1. w \notin done
    BY <1>2 DEF HashFails, Ending
  <2>2. TypeOK' /\ IsFiniteSet(jobs')
    BY <1>2 DEF HashFails
  <2>3. OnePlace'
    BY <1>2, NoneAssumption DEF HashFails, OnePlace, OneWorkerPerFile
  <2>4. Accounted'
    BY <1>2 DEF HashFails, Accounted
  <2>5. Ending'
    BY <1>2, <2>1 DEF HashFails, Ending
  <2> QED
    BY <2>2, <2>3, <2>4, <2>5
<1>3. CASE Done(w)
  BY <1>3 DEF Done, Idle, OnePlace, OneWorkerPerFile, Accounted, InHand, Ending
<1> QED
  BY <1>1, <1>2, <1>3

\* Every step of HashDirectory keeps the invariant.
LEMMA StepInductive == Inductive /\ [Next]_vars => Inductive'
<1> SUFFICES ASSUME Inductive, [Next]_vars PROVE Inductive'
  OBVIOUS
<1>1. CASE UNCHANGED vars
  BY <1>1 DEF vars, Inductive, TypeOK, OnePlace, OneWorkerPerFile, Accounted, InHand, Ending
<1>2. CASE Next
  BY <1>1, <1>2, EnqueueKeeps, WalkKeeps, TakeKeeps, WorkKeeps DEF Next, Walk, Work, Returned
<1> QED
  BY <1>1, <1>2

\* The invariant holds in every state of every call.
THEOREM InductiveCorrect == Spec => []Inductive
BY InitInductive, StepInductive, PTL DEF Spec

\* The types, and with them: the job channel never holds more than its capacity.
THEOREM TypeCorrect == Spec => []TypeOK
<1>1. Inductive => TypeOK
  BY DEF Inductive
<1> QED
  BY <1>1, InductiveCorrect, PTL

\* No two workers hash one file, whatever the order of sends and receives.
THEOREM WorkersAreDisjoint == Spec => []OneWorkerPerFile
<1>1. Inductive => OneWorkerPerFile
  BY DEF Inductive, OnePlace
<1> QED
  BY <1>1, InductiveCorrect, PTL

\* HashDirectory returns without an error only with a hash of every file that
\* was there all the time.
THEOREM CompleteOrError == Spec => []ResultIsComplete
<1>1. Inductive => ResultIsComplete
  <2> SUFFICES ASSUME Inductive, outcome = "ok" PROVE disk \subseteq result
    BY DEF ResultIsComplete
  <2>1. done = Worker /\ ~walkError /\ ~errs
    BY DEF Inductive, Ending
  <2>2. toWalk = {} /\ jobs = {} /\ \A w \in Worker : at[w] = None
    BY <2>1, WorkerAssumption DEF Inductive, Ending
  <2> QED
    BY <2>1, <2>2, NoneAssumption DEF Inductive, TypeOK, Accounted, InHand
<1> QED
  BY <1>1, InductiveCorrect, PTL

\* Once HashDirectory has returned, no goroutine writes the map it returned.
THEOREM NoWriteAfterReturn == Spec => ReturnedMapIsFinal
<1>1. Inductive /\ [Next]_vars => [outcome # "running" => result' = result]_vars
  <2> SUFFICES ASSUME Inductive, Next, outcome # "running" PROVE result' = result
    BY DEF vars
  <2>1. \A w \in Worker : at[w] = None
    BY DEF Inductive, Ending
  <2>2. \A w \in Worker : ~HashFile(w)
    BY <2>1, NoneAssumption DEF HashFile, Inductive, TypeOK
  <2> QED
    BY <2>2 DEF Next, Walk, Work, Returned, Close, Return, WalkFails, Enqueue, NotListed,
        Vanish, HashFails, Done, Take, vars
<1> QED
  BY <1>1, InductiveCorrect, PTL DEF Spec, ReturnedMapIsFinal
=============================================================================
