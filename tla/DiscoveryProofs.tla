-------------------------- MODULE DiscoveryProofs --------------------------
(***************************************************************************)
(* Theorems about Discovery, for any servers, any number of answers and    *)
(* any room in the channel.  The inductive invariant follows an answer     *)
(* from the library's hands into the list, and relates the two channels    *)
(* to where the goroutine is.                                              *)
(***************************************************************************)
EXTENDS Discovery, TLAPS

\* An answer is in the channel until it is in the list.
NothingIsDropped ==
    \A i \in DOMAIN answered :
        answered[i] # NoAddress =>
            Known(answered[i]) \/ \E j \in DOMAIN entries : entries[j] = answered[i]

NoServerTwice == \A i, j \in DOMAIN list : i # j => list[i] # list[j]

\* The channel of entries is closed last, and an end without an error leaves
\* nobody who could still put something into it.
Ending ==
    /\ closed => worker = "done"
    /\ stage = "ok" => worker = "done" /\ entries = << >>
    /\ stage = "idle" => worker = "done"

Inductive == DiscoveryTypeOK /\ NothingIsDropped /\ NoServerTwice /\ Ending

-----------------------------------------------------------------------------
(* Sequences.                                                              *)

\* Empty channels and an empty list.
LEMMA EmptySequences ==
    /\ << >> \in Seq(Server)
    /\ << >> \in Seq(Server \cup {NoAddress})
    /\ << >> \in Seq(Errors)
    /\ Len(<< >>) = 0
OBVIOUS

\* A channel of one that is full.
LEMMA FullChannel == ASSUME NEW err \in Errors PROVE <<err>> \in Seq(Errors)
OBVIOUS

\* What Append does to the elements.
LEMMA AppendElements ==
    ASSUME NEW S, NEW q \in Seq(S), NEW x \in S
    PROVE  /\ Append(q, x) \in Seq(S)
           /\ DOMAIN Append(q, x) = DOMAIN q \cup {Len(q) + 1}
           /\ Append(q, x)[Len(q) + 1] = x
           /\ \A i \in DOMAIN q : Append(q, x)[i] = q[i]
OBVIOUS

\* What Tail does to the elements.
LEMMA TailElements ==
    ASSUME NEW S, NEW q \in Seq(S), q # << >>
    PROVE  /\ Tail(q) \in Seq(S)
           /\ Len(Tail(q)) = Len(q) - 1
           /\ Head(q) \in S
           /\ \A i \in DOMAIN q : q[i] = Head(q) \/ \E j \in DOMAIN Tail(q) : Tail(q)[j] = q[i]
<1>1. Tail(q) \in Seq(S) /\ Len(Tail(q)) = Len(q) - 1 /\ Head(q) \in S
  OBVIOUS
<1>2. DOMAIN q = 1 .. Len(q) /\ Len(q) \in Nat /\ DOMAIN Tail(q) = 1 .. Len(Tail(q))
  BY <1>1
<1>3. \A j \in 1 .. Len(Tail(q)) : Tail(q)[j] = q[j + 1]
  BY <1>1
<1>4. ASSUME NEW i \in DOMAIN q, i # 1
      PROVE  \E j \in DOMAIN Tail(q) : Tail(q)[j] = q[i]
  <2>1. i - 1 \in 1 .. Len(Tail(q)) /\ (i - 1) + 1 = i
    BY <1>1, <1>2, <1>4
  <2>2. Tail(q)[i - 1] = q[i]
    BY <1>3, <2>1
  <2> QED
    BY <1>2, <2>1, <2>2
<1>5. q[1] = Head(q)
  OBVIOUS
<1> QED
  BY <1>1, <1>4, <1>5

-----------------------------------------------------------------------------
(* The steps.                                                              *)

\* Nothing has been asked for yet.
LEMMA InitInductive == DiscoveryInit => Inductive
<1> SUFFICES ASSUME DiscoveryInit PROVE Inductive
  OBVIOUS
<1>1. DiscoveryTypeOK
  <2>1. list \in Seq(Server) /\ errCh \in Seq(Errors)
    BY EmptySequences DEF DiscoveryInit
  <2>2. entries \in Seq(Server \cup {NoAddress}) /\ answered \in Seq(Server \cup {NoAddress})
    BY EmptySequences DEF DiscoveryInit
  <2>3. Len(entries) <= Room
    BY RoomAssumption, EmptySequences DEF DiscoveryInit
  <2> QED
    BY <2>1, <2>2, <2>3 DEF DiscoveryInit, DiscoveryTypeOK, Stage
<1> QED
  BY <1>1 DEF DiscoveryInit, Inductive, NothingIsDropped, NoServerTwice, Ending

\* A call begins, or what it returned is used up.
LEMMA FreshKeeps == ASSUME Inductive, Call \/ Forget PROVE Inductive'
<1>1. /\ list' = << >> /\ entries' = << >> /\ errCh' = << >> /\ answered' = << >>
      /\ closed' = FALSE /\ stage' \in {"idle", "collect"}
      /\ worker' \in {"query", "done"} /\ (stage' = "idle" => worker' = "done")
  BY DEF Call, Forget
<1>2. DiscoveryTypeOK'
  <2>1. list' \in Seq(Server) /\ errCh' \in Seq(Errors)
    BY <1>1, EmptySequences
  <2>2. entries' \in Seq(Server \cup {NoAddress}) /\ answered' \in Seq(Server \cup {NoAddress})
    BY <1>1, EmptySequences
  <2>3. Len(entries') <= Room
    BY <1>1, RoomAssumption, EmptySequences
  <2> QED
    BY <1>1, <2>1, <2>2, <2>3 DEF DiscoveryTypeOK, Stage
<1> QED
  BY <1>1, <1>2 DEF Inductive, NothingIsDropped, NoServerTwice, Ending

\* An answer arrives, which the goroutine is still there for.
LEMMA AnswerKeeps ==
    ASSUME Inductive, NEW s \in Server \cup {NoAddress}, Answer(s) PROVE Inductive'
<1> USE DEF Inductive, DiscoveryTypeOK, Answer
<1>1. /\ entries' \in Seq(Server \cup {NoAddress})
      /\ Len(entries') = Len(entries) + 1
      /\ Len(entries) + 1 \in DOMAIN entries' /\ entries'[Len(entries) + 1] = s
      /\ \A i \in DOMAIN entries : i \in DOMAIN entries' /\ entries'[i] = entries[i]
  BY AppendElements
<1>2. /\ answered' \in Seq(Server \cup {NoAddress})
      /\ \A i \in DOMAIN answered' :
            answered'[i] = s \/ (i \in DOMAIN answered /\ answered'[i] = answered[i])
  BY AppendElements
<1>3. DiscoveryTypeOK'
  BY <1>1, <1>2, RoomAssumption
<1>4. NothingIsDropped'
  <2> SUFFICES ASSUME NEW i \in DOMAIN answered', answered'[i] # NoAddress
               PROVE  \/ \E k \in DOMAIN list' : list'[k] = answered'[i]
                      \/ \E j \in DOMAIN entries' : entries'[j] = answered'[i]
    BY DEF NothingIsDropped, Known
  <2>1. ASSUME NEW j \in DOMAIN entries
        PROVE  j \in DOMAIN entries' /\ entries'[j] = entries[j]
    BY <1>1
  <2>2. CASE answered'[i] = s
    BY <1>1, <2>2
  <2>3. CASE i \in DOMAIN answered /\ answered'[i] = answered[i]
    <3>1. \/ \E k \in DOMAIN list : list[k] = answered[i]
          \/ \E j \in DOMAIN entries : entries[j] = answered[i]
      BY <2>3 DEF NothingIsDropped, Known
    <3> QED
      BY <2>1, <2>3, <3>1
  <2> QED
    BY <1>2, <2>2, <2>3
<1> QED
  BY <1>3, <1>4 DEF NoServerTwice, Ending

\* Where the element in front of the channel goes.
LEMMA CollectKeeps == ASSUME Inductive, Collect PROVE Inductive'
<1> USE DEF Inductive, DiscoveryTypeOK, Collect
<1> DEFINE head == Head(entries)
<1>1. /\ entries' \in Seq(Server \cup {NoAddress})
      /\ Len(entries') = Len(entries) - 1
      /\ head \in Server \cup {NoAddress}
      /\ \A i \in DOMAIN entries :
            entries[i] = head \/ \E j \in DOMAIN entries' : entries'[j] = entries[i]
  BY TailElements
<1>2. list' \in Seq(Server) /\ \A i \in DOMAIN list : i \in DOMAIN list' /\ list'[i] = list[i]
  BY <1>1, AppendElements
<1>3. head # NoAddress => \E i \in DOMAIN list' : list'[i] = head
  <2>1. CASE Known(head)
    BY <1>2, <2>1 DEF Known
  <2>2. CASE ~Known(head) /\ head # NoAddress
    BY <1>1, <2>2, AppendElements
  <2> QED
    BY <2>1, <2>2
<1>4. DiscoveryTypeOK'
  BY <1>1, <1>2, RoomAssumption
<1>5. NothingIsDropped'
  <2> SUFFICES ASSUME NEW i \in DOMAIN answered, answered[i] # NoAddress
               PROVE  \/ \E k \in DOMAIN list' : list'[k] = answered[i]
                      \/ \E j \in DOMAIN entries' : entries'[j] = answered[i]
    BY DEF NothingIsDropped, Known
  <2>1. CASE Known(answered[i])
    BY <1>2, <2>1 DEF Known
  <2>2. CASE \E j \in DOMAIN entries : entries[j] = answered[i]
    BY <1>1, <1>3, <2>2
  <2> QED
    BY <2>1, <2>2 DEF NothingIsDropped
<1>6. NoServerTwice'
  <2>1. CASE head = NoAddress \/ Known(head)
    BY <2>1 DEF NoServerTwice
  <2>2. CASE head # NoAddress /\ ~Known(head)
    <3>1. list' = Append(list, head) /\ head \in Server
      BY <1>1, <2>2
    <3>2. /\ DOMAIN list' = DOMAIN list \cup {Len(list) + 1}
          /\ list'[Len(list) + 1] = head
          /\ \A i \in DOMAIN list : list'[i] = list[i]
      BY <3>1, AppendElements
    <3>3. \A i \in DOMAIN list : list[i] # head
      BY <2>2 DEF Known
    <3> QED
      BY <3>2, <3>3 DEF NoServerTwice
  <2> QED
    BY <2>1, <2>2
<1> QED
  BY <1>4, <1>5, <1>6 DEF Ending

\* The goroutine ends; Lookup returns, in time or late.
LEMMA EndKeeps ==
    ASSUME Inductive, Return \/ ReturnLate \/ Worker PROVE Inductive'
<1> USE DEF Inductive, DiscoveryTypeOK
<1>1. /\ UNCHANGED <<list, entries, answered>>
      /\ worker' \in {"query", "close", "done"}
      /\ closed' \in BOOLEAN
  BY DEF Return, ReturnLate, Worker, CloseEntries, QueryEnds
<1>2. stage' \in Stage /\ errCh' \in Seq(Errors)
  <2>1. CASE Return
    <3>1. errCh[1] \in Errors
      BY <2>1 DEF Return
    <3> QED
      BY <2>1, <3>1, EmptySequences DEF Return, Stage, Errors
  <2>2. CASE ReturnLate
    BY <2>2 DEF ReturnLate, Stage
  <2>3. CASE Worker
    BY <2>3, FullChannel DEF Worker, CloseEntries, QueryEnds
  <2> QED
    BY <2>1, <2>2, <2>3
<1>3. DiscoveryTypeOK'
  BY <1>1, <1>2 DEF Inductive, DiscoveryTypeOK
<1>4. NothingIsDropped' /\ NoServerTwice'
  BY <1>1 DEF Inductive, NothingIsDropped, NoServerTwice, Known
<1>5. Ending'
  <2>1. CASE Return
    BY <2>1 DEF Inductive, DiscoveryTypeOK, Ending, Return, Errors
  <2>2. CASE ReturnLate
    BY <2>2 DEF Inductive, Ending, ReturnLate
  <2>3. CASE Worker
    BY <2>3 DEF Inductive, Ending, Worker, CloseEntries, QueryEnds
  <2> QED
    BY <2>1, <2>2, <2>3
<1> QED
  BY <1>3, <1>4, <1>5 DEF Inductive

\* Every step of a search keeps the invariant.
LEMMA StepInductive == Inductive /\ [DiscoveryNext]_discoveryVars => Inductive'
<1> SUFFICES ASSUME Inductive, [DiscoveryNext]_discoveryVars PROVE Inductive'
  OBVIOUS
<1>1. CASE UNCHANGED discoveryVars
  BY <1>1 DEF discoveryVars, Inductive, DiscoveryTypeOK, NothingIsDropped, NoServerTwice, Ending, Known
<1>2. CASE DiscoveryNext
  BY <1>1, <1>2, FreshKeeps, AnswerKeeps, CollectKeeps, EndKeeps DEF DiscoveryNext, Caller
<1> QED
  BY <1>1, <1>2

-----------------------------------------------------------------------------

\* The invariant holds in every state of every search.
THEOREM InductiveCorrect == DiscoverySpec => []Inductive
BY InitInductive, StepInductive, PTL DEF DiscoverySpec

\* The types, and with them: the channel never holds more than it has room for.
THEOREM TypeCorrect == DiscoverySpec => []DiscoveryTypeOK
<1>1. Inductive => DiscoveryTypeOK
  BY DEF Inductive
<1> QED
  BY <1>1, InductiveCorrect, PTL

\* A list without an error is complete, and no list has a server twice (Lookup).
THEOREM ListIsComplete == DiscoverySpec => []FoundIsComplete
<1>1. Inductive => FoundIsComplete
  BY DEF Inductive, NothingIsDropped, NoServerTwice, Ending, FoundIsComplete
<1> QED
  BY <1>1, InductiveCorrect, PTL
=============================================================================
