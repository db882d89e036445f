------------------------------ MODULE MCClient ------------------------------
(* Instances of Client for TLC: two users, and a device that may push what *)
(* it has twice.                                                           *)
EXTENDS Client, TLC

CONSTANTS u1, u2, p1, p2, v0, v1, v2

Users == {u1, u2}
Pushes == {p1, p2}
Versions == {v0, v1, v2}
Again == [p \in Pushes |-> v2]
Older == {v0}

Idle(u) == call[u] = None /\ screen[u] = {} /\ \A m \in UnderWay : m.from # u

\* Bound: the second push does not meet the second user, nor, while an upload is
\* waited for, the first.
Few ==
    p2 \in begun =>
        /\ Idle(u2)
        /\ Idle(u1) \/ \A p \in Pushes : call[p] = None

FewSpec == Init /\ [][Next /\ Few']_vars /\ \A u \in User : WF_vars(Do(u))
=============================================================================
