----------------------------- MODULE SaveStore -----------------------------
(***************************************************************************)
(* What the server's store promises its clients, without files, locks or   *)
(* crashes: every path has one head version; an upload is judged against   *)
(* the head that is current when it takes effect, in one step; an upload   *)
(* that loses is held beside the head until somebody closes the conflict,  *)
(* and only a held version can be brought back.                            *)
(***************************************************************************)
CONSTANTS Request, Path, Content, Device, KeepBothName, None

Version == [sha : Content, device : Device]
Ask == [path : Path, version : Version, base : Content \cup {None}]
Held == [path : Path, version : Version]

VARIABLES head,     \* the current version of each path
          asked,    \* uploads received and not yet answered
          held      \* open conflicts, under the request that raised them

vars == <<head, asked, held>>

TypeOK ==
    /\ head \in [Path -> Version \cup {None}]
    /\ asked \in [Request -> Ask \cup {None}]
    /\ held \in [Request -> Held \cup {None}]

Init ==
    /\ head \in [Path -> Version \cup {None}]
    /\ asked = [r \in Request |-> None]
    /\ held = [r \in Request |-> None]

UpToDate(a) == a.base = None \/ head[a.path] = None \/ head[a.path].sha = a.base

Receive(r) ==
    /\ asked[r] = None
    /\ \E a \in Ask : asked' = [asked EXCEPT ![r] = a]
    /\ UNCHANGED <<head, held>>

Accept(r) ==
    /\ asked[r] # None
    /\ UpToDate(asked[r])
    /\ head' = [head EXCEPT ![asked[r].path] = asked[r].version]
    /\ asked' = [asked EXCEPT ![r] = None]
    /\ UNCHANGED held

Park(r) ==
    /\ asked[r] # None
    /\ ~UpToDate(asked[r])
    /\ held' = [held EXCEPT ![r] = [path |-> asked[r].path, version |-> asked[r].version]]
    /\ asked' = [asked EXCEPT ![r] = None]
    /\ UNCHANGED head

\* The upload failed: it has no effect.
Forget(r) ==
    /\ asked[r] # None
    /\ asked' = [asked EXCEPT ![r] = None]
    /\ UNCHANGED <<head, held>>

\* Resolution "local", and "keep-both" under a name of its own.
Promote(id, p) ==
    /\ held[id] # None
    /\ p \in {held[id].path, KeepBothName[held[id].path][held[id].version.device]}
    /\ head' = [head EXCEPT ![p] = held[id].version]
    /\ UNCHANGED <<asked, held>>

Close(id) ==
    /\ held[id] # None
    /\ held' = [held EXCEPT ![id] = None]
    /\ UNCHANGED <<head, asked>>

Next == \E r \in Request :
    \/ Receive(r) \/ Accept(r) \/ Park(r) \/ Forget(r) \/ Close(r)
    \/ \E p \in Path : Promote(r, p)

Spec == Init /\ [][Next]_vars
=============================================================================
