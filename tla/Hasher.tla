------------------------------- MODULE Hasher -------------------------------
(***************************************************************************)
(* HashDirectory of internal/hasher/hasher.go, which every sync starts     *)
(* with: the caller walks the directory and puts files into a bounded      *)
(* channel, workers take them out and hash them, the first error is kept   *)
(* in a channel of one, and the caller returns once all workers have.      *)
(*                                                                         *)
(* The directory is alive meanwhile: files may vanish.  The order of the   *)
(* channel decides nothing, so it is a set; the mutex around the result    *)
(* map is one step.                                                        *)
(***************************************************************************)
EXTENDS FiniteSets, Naturals

CONSTANTS
    File,           \* regular files in the directory when the call begins
    Worker,         \* goroutines: the CPUs, at least 2
    Capacity,       \* of the job channel: 100 in the code
    Fault,          \* "vanish", "unreadable", "walk"
    None

ASSUME WorkerAssumption == Worker # {}
ASSUME CapacityAssumption == Capacity \in Nat \ {0}
ASSUME FaultAssumption == Fault \subseteq {"vanish", "unreadable", "walk"}
ASSUME NoneAssumption == None \notin File

VARIABLES
    disk,       \* files that are still there
    toWalk,     \* files WalkDir has yet to visit
    walkError,  \* what WalkDir returned
    jobs,       \* the channel
    closed,     \* close(jobs) was called
    at,         \* the file each worker hashes
    done,       \* workers that called wg.Done
    result,     \* files with a hash in the map
    errs,       \* is there an error in the channel of one?
    outcome     \* what the call returned

walker == <<toWalk, walkError, closed, outcome>>
vars == <<disk, toWalk, walkError, jobs, closed, at, done, result, errs, outcome>>

TypeOK ==
    /\ disk \subseteq File
    /\ toWalk \subseteq File
    /\ walkError \in BOOLEAN
    /\ jobs \subseteq File
    /\ Cardinality(jobs) <= Capacity
    /\ closed \in BOOLEAN
    /\ at \in [Worker -> File \cup {None}]
    /\ done \subseteq Worker
    /\ result \subseteq File
    /\ errs \in BOOLEAN
    /\ outcome \in {"running", "ok", "error"}

Init ==
    /\ disk = File
    /\ toWalk = File
    /\ walkError = FALSE
    /\ jobs = {}
    /\ closed = FALSE
    /\ at = [w \in Worker |-> None]
    /\ done = {}
    /\ result = {}
    /\ errs = FALSE
    /\ outcome = "running"

-----------------------------------------------------------------------------
(* Another program removes or renames a file.                              *)

Vanish(f) ==
    /\ "vanish" \in Fault
    /\ outcome = "running"
    /\ f \in disk
    /\ disk' = disk \ {f}
    /\ UNCHANGED <<walker, jobs, at, done, result, errs>>

-----------------------------------------------------------------------------
(* The walk.                                                               *)

\* A send blocks while the channel is full.
Enqueue(f) ==
    /\ f \in toWalk
    /\ Cardinality(jobs) < Capacity
    /\ toWalk' = toWalk \ {f}
    /\ jobs' = jobs \cup {f}
    /\ UNCHANGED <<disk, walkError, closed, at, done, result, errs, outcome>>

\* A file that was gone when its directory was listed.
NotListed(f) ==
    /\ f \in toWalk \ disk
    /\ toWalk' = toWalk \ {f}
    /\ UNCHANGED <<disk, walkError, jobs, closed, at, done, result, errs, outcome>>

\* WalkDir gives the callback an error, and the callback gives it back.
WalkFails ==
    /\ "walk" \in Fault
    /\ toWalk # {}
    /\ toWalk' = {}
    /\ walkError' = TRUE
    /\ UNCHANGED <<disk, jobs, closed, at, done, result, errs, outcome>>

Close ==
    /\ toWalk = {}
    /\ ~closed
    /\ closed' = TRUE
    /\ UNCHANGED <<disk, toWalk, walkError, jobs, at, done, result, errs, outcome>>

\* Faulty variants of definitions stand before them under a name that says what
\* they do; no specification uses them.  They show which property notices.
ReturnAtOnce ==
    /\ closed
    /\ outcome = "running"
    /\ outcome' = IF walkError \/ errs THEN "error" ELSE "ok"
    /\ UNCHANGED <<disk, toWalk, walkError, jobs, closed, at, done, result, errs>>

\* wg.Wait, then the error of the walk or of a worker.
Return ==
    /\ closed
    /\ done = Worker
    /\ outcome = "running"
    /\ outcome' = IF walkError \/ errs THEN "error" ELSE "ok"
    /\ UNCHANGED <<disk, toWalk, walkError, jobs, closed, at, done, result, errs>>

-----------------------------------------------------------------------------
(* The workers.                                                            *)

Idle(w) == w \notin done /\ at[w] = None

Take(w, f) ==
    /\ Idle(w)
    /\ f \in jobs
    /\ jobs' = jobs \ {f}
    /\ at' = [at EXCEPT ![w] = f]
    /\ UNCHANGED <<disk, walker, done, result, errs>>

HashFile(w) ==
    /\ at[w] \in disk
    /\ result' = result \cup {at[w]}
    /\ at' = [at EXCEPT ![w] = None]
    /\ UNCHANGED <<disk, walker, jobs, done, errs>>

HashFailsUnnoticed(w) ==
    /\ at[w] # None
    /\ at[w] \notin disk \/ "unreadable" \in Fault
    /\ at' = [at EXCEPT ![w] = None]
    /\ UNCHANGED <<disk, walker, jobs, done, result, errs>>

HashFailsAndStops(w) ==
    /\ at[w] # None
    /\ at[w] \notin disk \/ "unreadable" \in Fault
    /\ errs' = TRUE
    /\ at' = [at EXCEPT ![w] = None]
    /\ done' = done \cup {w}
    /\ UNCHANGED <<disk, walker, jobs, result>>

\* The worker keeps the first error, drops the others, and goes on.
HashFails(w) ==
    /\ at[w] # None
    /\ at[w] \notin disk \/ "unreadable" \in Fault
    /\ errs' = TRUE
    /\ at' = [at EXCEPT ![w] = None]
    /\ UNCHANGED <<disk, walker, jobs, done, result>>

\* range over the closed channel ends once it is empty.
Done(w) ==
    /\ Idle(w)
    /\ closed
    /\ jobs = {}
    /\ done' = done \cup {w}
    /\ UNCHANGED <<disk, walker, jobs, at, result, errs>>

-----------------------------------------------------------------------------
Walk == Close \/ Return \/ \E f \in File : Enqueue(f)
Work(w) == HashFile(w) \/ HashFails(w) \/ Done(w) \/ \E f \in File : Take(w, f)

Returned == outcome # "running" /\ UNCHANGED vars

Next ==
    \/ Walk \/ WalkFails \/ Returned
    \/ \E f \in File : NotListed(f) \/ Vanish(f)
    \/ \E w \in Worker : Work(w)

Spec == Init /\ [][Next]_vars

\* Goroutines that can go on do.  Nothing makes a fault happen.
FairSpec == Spec /\ WF_vars(Walk) /\ \A w \in Worker : WF_vars(Work(w))

-----------------------------------------------------------------------------
(* Properties.                                                             *)

\* A call that returns without an error has a hash of every file that was there
\* all the time: no failure of a worker or of the walk is lost, although only
\* one error is kept.  A file missing from the map would be taken for one the
\* device does not have.
ResultIsComplete == outcome = "ok" => disk \subseteq result

\* No two workers have one file.
OneWorkerPerFile == \A v, w \in Worker : at[v] # None /\ at[v] = at[w] => v = w

\* Once the call has returned no goroutine writes the map any more: the caller
\* reads it without the mutex.
ReturnedMapIsFinal == [][outcome # "running" => result' = result]_vars

\* Liveness: the call returns, however many files fail and however small the
\* channel: the walk never waits for room that nobody will make.
CallReturns == <>(outcome # "running")
=============================================================================
