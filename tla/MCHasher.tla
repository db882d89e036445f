----------------------------- MODULE MCHasher ------------------------------
(* An instance of Hasher for TLC.                                          *)
EXTENDS Hasher

CONSTANTS f1, f2, f3, f4, w1, w2

FourFiles == {f1, f2, f3, f4}
TwoWorkers == {w1, w2}
=============================================================================
