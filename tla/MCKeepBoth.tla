----------------------------- MODULE MCKeepBoth -----------------------------
(* An instance of Sync for TLC: one device with a save, a file that has the *)
(* name keep-both stores the save's candidate as, and the temporary file of *)
(* that; once with answers that get lost, and once with kills.              *)
EXTENDS MCSync

\* Where answers get lost the device starts with both saves: a base that is too
\* old makes a conflict.  Where processes are killed it starts with none, and the
\* emulator runs while they work.
Answers == INSTANCE Sync WITH Fault <- {"lostReply"}, Overlap <- FALSE
Kills == INSTANCE Sync WITH Fault <- {"kill", "unsaved"}, Overlap <- TRUE

VARIABLE trouble

EitherInit ==
    /\ trouble \in {"answers", "kills"}
    /\ Init
    /\ \A d \in Device : local[d] = IF trouble = "kills" THEN Nothing ELSE
            [f \in File |-> IF f \in DOMAIN Copied THEN Copied[f] ELSE None]

EitherNext ==
    /\ UNCHANGED trouble
    /\ \/ trouble = "answers" /\ Answers!Next
       \/ trouble = "kills" /\ Kills!Next

Either == EitherInit /\ [][EitherNext]_<<vars, trouble>>
=============================================================================
