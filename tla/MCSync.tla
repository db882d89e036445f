------------------------------- MODULE MCSync -------------------------------
(* Instances of Sync for TLC: two devices that share one file, with one    *)
(* process each or a second one on the first.                              *)
EXTENDS Sync, TLC

CONSTANTS d1, d2, s1, s2, s3, f1, f2, f3, f4

OneFile == {f1}
ThreeFiles == {f1, f2, f3}
FourFiles == {f1, f2, f3, f4}
FourthFile == {f4}
Devices == {d1, d2}
OneDevice == {d1}
OneProcess == {s1}
OneProcessHome == s1 :> d1
OneEach == {s1, s2}
TwoOnFirst == {s1, s2, s3}
OneEachHome == (s1 :> d1) @@ (s2 :> d2)
TwoOnFirstHome == (s1 :> d1) @@ (s2 :> d2) @@ (s3 :> d1)
NoKeepBoth == << >>
FirstAsSecond == <<f1, d1>> :> f2
NoTemp == << >>
NoCopy == << >>
FirstCopied == f1 :> 0
TwoCopied == (f1 :> 0) @@ (f2 :> 1)
ThirdForSecond == f2 :> f3

\* A device and its process for the other device and its own.
SwapDevices == {(d1 :> d2) @@ (d2 :> d1) @@ (s1 :> s2) @@ (s2 :> s1)}
=============================================================================
