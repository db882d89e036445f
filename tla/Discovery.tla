----------------------------- MODULE Discovery -----------------------------
(***************************************************************************)
(* Lookup of internal/discovery/discovery.go: a goroutine runs the query   *)
(* of the mDNS library, which puts what answers into a channel; the caller *)
(* collects it until the channel is closed or the deadline passes, and     *)
(* does not wait for the goroutine then.                                   *)
(***************************************************************************)
EXTENDS Naturals, Sequences

CONSTANTS
    Server,         \* addresses, host and port, that servers announce
    NoAddress,      \* an answer without a usable address
    Room,           \* capacity of the channel of entries: 32
    MaxAnswers      \* bound: answers to one query

ASSUME RoomAssumption == Room \in Nat \ {0} /\ MaxAnswers \in Nat
ASSUME NoAddressAssumption == NoAddress \notin Server

VARIABLES
    stage,      \* of Lookup
    list,       \* what it has collected
    worker,     \* what the goroutine has yet to do
    entries,    \* the channel it closes at its end
    closed,
    errCh,      \* a channel of one
    answered    \* history: what the library put into the channel

discoveryVars == <<stage, list, worker, entries, closed, errCh, answered>>

Stage == {"idle", "collect", "ok", "failed"}
Errors == {"ok", "failed"}

DiscoveryTypeOK ==
    /\ stage \in Stage
    /\ list \in Seq(Server)
    /\ worker \in {"query", "close", "done"}
    /\ entries \in Seq(Server \cup {NoAddress})
    /\ Len(entries) <= Room
    /\ closed \in BOOLEAN
    /\ errCh \in Seq(Errors)
    /\ answered \in Seq(Server \cup {NoAddress})

DiscoveryInit ==
    /\ stage = "idle"
    /\ list = << >>
    /\ worker = "done"
    /\ entries = << >>
    /\ closed = FALSE
    /\ errCh = << >>
    /\ answered = << >>

\* The list is used, and the process that made it ends, with its goroutine if that
\* still runs: the caller does not wait for it.
Forget ==
    /\ stage \in Errors
    /\ stage' = "idle"
    /\ list' = << >>
    /\ worker' = "done"
    /\ entries' = << >>
    /\ closed' = FALSE
    /\ errCh' = << >>
    /\ answered' = << >>

Call ==
    /\ stage = "idle"
    /\ stage' = "collect"
    /\ list' = << >>
    /\ worker' = "query"
    /\ entries' = << >>
    /\ closed' = FALSE
    /\ errCh' = << >>
    /\ answered' = << >>

-----------------------------------------------------------------------------
(* The goroutine.  The query is the library's: it ends by itself.          *)

Answer(s) ==
    /\ worker = "query"
    /\ Len(answered) < MaxAnswers
    /\ Len(entries) < Room
    /\ entries' = Append(entries, s)
    /\ answered' = Append(answered, s)
    /\ UNCHANGED <<stage, list, worker, closed, errCh>>

\* Faulty variants of definitions stand before them under a name that says what
\* they do; no specification uses them.  They show which property notices.
QueryEndsUnbuffered(err) ==
    /\ worker = "query"
    /\ stage = "collect" /\ closed
    /\ errCh' = <<err>>
    /\ worker' = "close"
    /\ UNCHANGED <<stage, list, entries, closed, answered>>

\* The error goes into its channel, which has room, before the other is closed.
QueryEnds(err) ==
    /\ worker = "query"
    /\ errCh' = <<err>>
    /\ worker' = "close"
    /\ UNCHANGED <<stage, list, entries, closed, answered>>

CloseEntries ==
    /\ worker = "close"
    /\ closed' = TRUE
    /\ worker' = "done"
    /\ UNCHANGED <<stage, list, entries, errCh, answered>>

-----------------------------------------------------------------------------
(* The caller.                                                             *)

Known(s) == \E i \in DOMAIN list : list[i] = s

CollectAgain ==
    /\ stage = "collect"
    /\ entries # << >>
    /\ entries' = Tail(entries)
    /\ list' = IF Head(entries) = NoAddress THEN list ELSE Append(list, Head(entries))
    /\ UNCHANGED <<stage, worker, closed, errCh, answered>>

Collect ==
    /\ stage = "collect"
    /\ entries # << >>
    /\ entries' = Tail(entries)
    /\ list' = IF Head(entries) = NoAddress \/ Known(Head(entries))
               THEN list
               ELSE Append(list, Head(entries))
    /\ UNCHANGED <<stage, worker, closed, errCh, answered>>

\* A closed channel is drained first.
Return ==
    /\ stage = "collect"
    /\ closed
    /\ entries = << >>
    /\ errCh # << >>
    /\ stage' = errCh[1]
    /\ errCh' = << >>
    /\ UNCHANGED <<list, worker, entries, closed, answered>>

\* The deadline has passed.  select picks any case that is ready, so that others
\* may still come first.
ReturnLate ==
    /\ stage = "collect"
    /\ stage' = "failed"
    /\ UNCHANGED <<list, worker, entries, closed, errCh, answered>>

Worker == CloseEntries \/ \E err \in Errors : QueryEnds(err)

Caller == Collect \/ Return \/ ReturnLate

DiscoveryNext ==
    \/ \E s \in Server \cup {NoAddress} : Answer(s)
    \/ Call \/ Worker \/ Caller \/ Forget

\* Goroutines are scheduled, and the library's query ends.
DiscoveryFairness == WF_discoveryVars(Worker) /\ WF_discoveryVars(Caller)

DiscoverySpec == DiscoveryInit /\ [][DiscoveryNext]_discoveryVars /\ DiscoveryFairness

-----------------------------------------------------------------------------
(* Properties.                                                             *)

\* Without an error the list is complete: every address that answered is in it
\* (the select of Lookup takes its cases in any order).  And the wizard never
\* offers one server twice, error or not.
FoundIsComplete ==
    /\ stage = "ok" =>
        \A i \in DOMAIN answered : answered[i] # NoAddress => Known(answered[i])
    /\ \A i, j \in DOMAIN list : i # j => list[i] # list[j]

\* Liveness: Lookup returns, and its goroutine ends too, though nobody reads from
\* its channels once the deadline has passed.
LookupEnds == stage = "collect" ~> (stage # "collect" /\ worker = "done")
=============================================================================
