------------------------------ MODULE MCSetup ------------------------------
(* Instances of Setup for TLC, and of Discovery beside it.  A search shares *)
(* nothing with the rest, so it is followed from the initial states only.   *)
EXTENDS Setup, Discovery, TLC

CONSTANTS k1, k2, h1

TwoCommands == {k1, k2}
OneServer == {h1}

Typing(quotes, saves) == [quotes |-> quotes, saves |-> saves]
TwoAnswers == {Typing(0, <<"~", "saves">>), Typing(1, <<"/", "mnt", "home">>)}
HomeAnswer == {Typing(0, <<"~", "">>)}

Entry(name, complete) == [name |-> name, complete |-> complete]
Docs == {<<Entry("dolphin", TRUE)>>, <<Entry("ryujinx", TRUE), Entry("ryujinx", TRUE)>>,
         <<Entry("azahar", FALSE)>>}
BundledDoc == <<Entry("azahar", TRUE), Entry("dolphin", TRUE)>>
Beginning == put = None /\ Number = 0 /\ \A c \in Command : step[c] = "idle"

BothInit == Init /\ DiscoveryInit

BothNext ==
    \/ Beginning /\ DiscoveryNext /\ UNCHANGED vars
    \/ stage = "idle" /\ Next /\ UNCHANGED discoveryVars

Both == BothInit /\ [][BothNext]_<<vars, discoveryVars>> /\ DiscoveryFairness
=============================================================================
