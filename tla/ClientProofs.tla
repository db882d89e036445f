---------------------------- MODULE ClientProofs ----------------------------
(***************************************************************************)
(* Theorems about Client, for any users, pushes, versions, attempts and     *)
(* number of late requests.  The inductive invariant says where a push can *)
(* be: one that the server has not judged has one request at most; a       *)
(* resolution is of a conflict that was raised; and an answer that was     *)
(* read is about a candidate that is gone.                                 *)
(***************************************************************************)
EXTENDS Client, TLAPS

Judged == accepted \cup raised

CallsRight ==
    /\ \A x \in Caller : call[x] # None =>
        /\ call[x].message.from = x
        /\ x \in User => call[x].message.op \in Choice /\ call[x].message.push \in raised
        /\ x \in Push => call[x].message.op = "put" /\ call[x].message.push = x /\ x \in begun
    /\ \A u \in User : screen[u] \subseteq raised

\* An upload is sent once.
SentOnce ==
    \A p \in Push : call[p] # None /\ call[p].step = "try" =>
        p \notin Judged /\ \A n \in inbox : n.from # p

InboxRight ==
    /\ \A m \in inbox :
        /\ m.op = "put" => m.from = m.push /\ m.push \in begun \ Judged
        /\ m.op # "put" => m.from \in User /\ m.push \in raised
    /\ \A m, n \in inbox : m.from = n.from /\ m.op = "put" => m = n

\* A push is judged after it has begun, and once.
VerdictsRight == Judged \subseteq begun /\ OneVerdictPerUpload

LockRight ==
    lock # None =>
        /\ lock.op \in Choice
        /\ lock.from \in User
        /\ lock.push \in raised
        /\ lock.op = "local" => lock.push \in moved
        /\ lock.op = "keep-both" => lock.push \in beside

ToldRight ==
    \A a \in told : a.result = "ok" =>
        /\ a.push \in raised \ candidate
        /\ a.choice = "local" => a.push \in moved
        /\ a.choice = "keep-both" => a.push \in beside

Inductive ==
    TypeOK /\ CallsRight /\ SentOnce /\ InboxRight /\ VerdictsRight /\ LockRight /\ ToldRight

-----------------------------------------------------------------------------
\* Nobody has called, and nobody was told anything.
LEMMA InitInductive == Init => Inductive
<1> SUFFICES ASSUME Init PROVE Inductive
  OBVIOUS
<1>1. TypeOK /\ VerdictsRight
  BY VersionAssumption, RegularAssumption DEF Init, TypeOK, VerdictsRight, Judged, OneVerdictPerUpload
<1>2. CallsRight /\ SentOnce
  BY DEF Init, CallsRight, SentOnce, Caller
<1> QED
  BY <1>1, <1>2 DEF Init, Inductive, InboxRight, LockRight, ToldRight

-----------------------------------------------------------------------------
(* Clients.                                                                *)

\* A device begins an upload.
LEMMA UploadKeeps ==
    ASSUME Inductive, NEW p \in Push, NEW b \in Version \cup {None}, Upload(p, b) PROVE Inductive'
<1> DEFINE m == [from |-> p, op |-> "put", push |-> p, base |-> b]
           c == [message |-> m, attempt |-> 1, step |-> "try"]
<1>1. c \in Call /\ c # None
  BY AttemptsAssumption, MessageAssumption DEF Call, Message, Caller
<1>2. /\ call' = [call EXCEPT ![p] = c] /\ p \in Caller /\ p \notin User
      /\ p \notin begun /\ begun' = begun \cup {p}
      /\ UNCHANGED <<life, store, queue, screen, told>>
  BY CallerAssumption DEF Upload, Begin, Caller
<1>3. p \notin Judged /\ \A n \in inbox : n.from # p
  <2>1. \A n \in inbox : n.from = p => n.op = "put" /\ n.push \in begun
    BY <1>2 DEF Inductive, InboxRight, Choice
  <2>2. \A n \in inbox : n.op = "put" => n.push = n.from
    BY DEF Inductive, InboxRight
  <2> QED
    BY <1>2, <2>1, <2>2 DEF Inductive, VerdictsRight
<1> USE <1>1, <1>2, <1>3 DEF Inductive, store, queue
<1>4. TypeOK'
  BY DEF TypeOK
<1>5. CallsRight' /\ SentOnce'
  BY DEF CallsRight, SentOnce, Judged, TypeOK
<1>6. InboxRight' /\ VerdictsRight'
  BY DEF InboxRight, VerdictsRight, Judged, OneVerdictPerUpload
<1> QED
  BY <1>4, <1>5, <1>6 DEF LockRight, ToldRight

\* The resolve command lists and skips.
LEMMA ListKeeps ==
    ASSUME Inductive, NEW u \in User, List(u) \/ \E p \in Push : Skip(u, p) PROVE Inductive'
<1>1. /\ UNCHANGED <<life, store, queue, call, begun, told>>
      /\ screen' \in [User -> SUBSET Push] /\ \A w \in User : screen'[w] \subseteq raised
  <2>1. \A w \in User : screen[w] \subseteq raised /\ open \subseteq raised /\ raised \subseteq Push
    BY DEF Inductive, CallsRight, TypeOK
  <2> QED
    BY <2>1 DEF List, Skip, Prompted, Inductive, TypeOK
<1> USE <1>1 DEF Inductive, store, queue
<1>2. TypeOK'
  BY DEF TypeOK
<1>3. CallsRight' /\ SentOnce'
  BY DEF CallsRight, SentOnce, Judged
<1>4. InboxRight' /\ VerdictsRight' /\ LockRight' /\ ToldRight'
  BY DEF InboxRight, VerdictsRight, OneVerdictPerUpload, LockRight, ToldRight, Judged
<1> QED
  BY <1>2, <1>3, <1>4

\* It sends a choice.
LEMMA ChooseKeeps ==
    ASSUME Inductive, NEW u \in User, NEW p \in Push, NEW choice \in Choice, Choose(u, p, choice)
    PROVE  Inductive'
<1> DEFINE m == [from |-> u, op |-> choice, push |-> p, base |-> None]
           c == [message |-> m, attempt |-> 1, step |-> "try"]
<1>1. c \in Call /\ c # None
  BY AttemptsAssumption, MessageAssumption DEF Call, Message, Caller
<1>2. /\ call' = [call EXCEPT ![u] = c] /\ u \in Caller /\ u \notin Push /\ p \in raised
      /\ screen' = [screen EXCEPT ![u] = @ \ {p}]
      /\ UNCHANGED <<life, store, queue, begun, told>>
  BY CallerAssumption DEF Choose, Prompted, Begin, Inductive, CallsRight, Caller, TypeOK
<1> USE <1>1, <1>2 DEF Inductive, store, queue
<1>3. TypeOK'
  BY DEF TypeOK
<1>4. CallsRight' /\ SentOnce'
  BY DEF CallsRight, SentOnce, Judged, TypeOK
<1>5. InboxRight' /\ VerdictsRight'
  BY DEF InboxRight, VerdictsRight, OneVerdictPerUpload, Judged
<1> QED
  BY <1>3, <1>4, <1>5 DEF LockRight, ToldRight

\* What a client sends is what it is in.
LEMMA SendKeeps == ASSUME Inductive, NEW x \in Caller, Send(x) PROVE Inductive'
<1> DEFINE m == call[x].message
<1>1. /\ call[x] # None /\ call[x] \in Call /\ call[x].step = "try"
      /\ m \in Message /\ m.from = x
      /\ inbox' = inbox \cup {m}
      /\ call' = [call EXCEPT ![x].step = "await"]
      /\ UNCHANGED <<life, store, lock, screen, begun, told>>
  BY DEF Inductive, Send, CallsRight, TypeOK, Call
<1>2. /\ [call[x] EXCEPT !.step = "await"] \in Call
      /\ [call[x] EXCEPT !.step = "await"] # None
      /\ [call[x] EXCEPT !.step = "await"].message = m
      /\ [call[x] EXCEPT !.step = "await"].step # "try"
  BY <1>1, MessageAssumption DEF Call
<1>3. x \in User \cup Push
  BY DEF Caller
<1>4. /\ x \in User => m.op \in Choice /\ m.push \in raised
      /\ x \in Push => m.op = "put" /\ m.push = x /\ x \in begun \ Judged /\ \A n \in inbox : n.from # x
  BY <1>1 DEF Inductive, CallsRight, SentOnce
<1> USE DEF Inductive, store
<1>5. TypeOK'
  BY <1>1, <1>2 DEF TypeOK
<1>6. CallsRight'
  BY <1>1, <1>2 DEF CallsRight, TypeOK
<1>7. SentOnce'
  <2> SUFFICES ASSUME NEW v \in Push, call'[v] # None, call'[v].step = "try"
               PROVE  v \notin Judged' /\ \A n \in inbox' : n.from # v
    BY DEF SentOnce
  <2>1. v # x /\ call'[v] = call[v]
    BY <1>1, <1>2 DEF TypeOK, Caller
  <2> QED
    BY <1>1, <2>1 DEF SentOnce, Judged
<1>8. InboxRight'
  <2>1. \A n \in inbox : n.op = "put" => n.from \in Push /\ n.from = n.push
    BY DEF InboxRight, TypeOK, Message
  <2>2. CASE x \in Push
    BY <1>1, <1>4, <2>2, CallerAssumption DEF InboxRight, Judged, Caller
  <2>3. CASE x \in User
    <3>1. x \notin Push /\ m.op # "put" /\ m.push \in raised
      BY <1>4, <2>3, CallerAssumption DEF Choice
    <3> QED
      BY <1>1, <2>1, <2>3, <3>1 DEF InboxRight, Judged
  <2> QED
    BY <1>3, <2>2, <2>3
<1> QED
  BY <1>1, <1>5, <1>6, <1>7, <1>8 DEF VerdictsRight, OneVerdictPerUpload, LockRight, ToldRight, Judged

\* The end of a call that told nothing about a resolution that succeeded.
LEMMA EndTells ==
    ASSUME Inductive, NEW x \in Caller, call[x] # None, NEW result, End(x, result)
    PROVE  /\ call' = [call EXCEPT ![x] = None]
           /\ told' \in SUBSET Answer
           /\ \A a \in told' : \/ a \in told
                               \/ /\ x \in User /\ a.result = result
                                  /\ a.push = call[x].message.push
                                  /\ a.choice = call[x].message.op
BY DEF End, Inductive, TypeOK

\* Less is called, and what users read is true: nothing else is to be looked at
\* when an answer arrives or is lost.
LEMMA FewerCalls ==
    ASSUME Inductive, NEW x \in Caller, call' = [call EXCEPT ![x] = None]
    PROVE  /\ call' \in [Caller -> Call \cup {None}]
           /\ \A y \in Caller : call'[y] # None => call'[y] = call[y]
BY DEF Inductive, TypeOK

\* An attempt fails.
LEMMA FailKeeps ==
    ASSUME Inductive, NEW x \in Caller, Unsent(x) \/ GiveUp(x) PROVE Inductive'
<1>1. UNCHANGED <<life, store, queue, screen, begun>> /\ call[x] # None
  BY DEF Unsent, GiveUp
<1> USE <1>1 DEF store, queue
<1>2. CASE End(x, "error")
  <2>1. /\ call' = [call EXCEPT ![x] = None] /\ told' \in SUBSET Answer
        /\ \A a \in told' : a \in told \/ a.result = "error"
    BY <1>2, EndTells
  <2>2. /\ call' \in [Caller -> Call \cup {None}]
        /\ \A y \in Caller : call'[y] # None => call'[y] = call[y]
    BY <2>1, FewerCalls
  <2>3. TypeOK'
    BY <2>1, <2>2 DEF Inductive, TypeOK
  <2>4. CallsRight' /\ SentOnce'
    BY <2>2 DEF Inductive, CallsRight, SentOnce, Judged, Caller
  <2>5. InboxRight' /\ VerdictsRight' /\ LockRight' /\ ToldRight'
    BY <2>1 DEF Inductive, InboxRight, LockRight, ToldRight, Judged, VerdictsRight, OneVerdictPerUpload
  <2> QED
    BY <2>3, <2>4, <2>5 DEF Inductive
<1>3. CASE ~End(x, "error")
  <2> DEFINE c == [call[x] EXCEPT !.attempt = @ + 1]
  <2>1. /\ call' = [call EXCEPT ![x] = c] /\ told' = told
        /\ call[x].attempt < Attempts /\ call[x] \in Call /\ call[x].step = "try"
    BY <1>3 DEF Unsent, GiveUp, Spent, Retry, Inductive, TypeOK
  <2>2. c \in Call /\ c.message = call[x].message /\ c.step = "try"
    BY <2>1, AttemptsAssumption DEF Call
  <2>3. TypeOK'
    BY <2>1, <2>2 DEF Inductive, TypeOK
  <2>4. CallsRight' /\ SentOnce'
    BY <2>1, <2>2 DEF Inductive, CallsRight, SentOnce, Judged, Caller, TypeOK
  <2>5. InboxRight' /\ VerdictsRight' /\ LockRight' /\ ToldRight'
    BY <2>1 DEF Inductive, InboxRight, LockRight, ToldRight, Judged, VerdictsRight, OneVerdictPerUpload
  <2> QED
    BY <2>3, <2>4, <2>5 DEF Inductive
<1> QED
  BY <1>2, <1>3

-----------------------------------------------------------------------------
(* Handlers.                                                               *)

\* Whoever awaits an answer gets it or not.
LEMMA ReplyTells ==
    ASSUME Inductive, NEW m \in Message, NEW result, Reply(m, result)
    PROVE  /\ call' \in [Caller -> Call \cup {None}]
           /\ \A y \in Caller : call'[y] # None => call'[y] = call[y]
           /\ told' \in SUBSET Answer
           /\ \A a \in told' : \/ a \in told
                               \/ /\ m.from \in User /\ a.result = result
                                  /\ a.push = m.push /\ a.choice = m.op
<1>1. CASE Awaited(m) /\ End(m.from, result)
  <2>1. m.from \in Caller /\ call[m.from] # None /\ call[m.from].message = m
    BY <1>1 DEF Awaited, Message
  <2> QED
    BY <1>1, <2>1, EndTells, FewerCalls
<1>2. CASE UNCHANGED <<call, told>>
  BY <1>2 DEF Inductive, TypeOK
<1> QED
  BY <1>1, <1>2 DEF Reply

\* What a request in the server is.
LEMMA UnderWayType == ASSUME Inductive, NEW m \in UnderWay PROVE m \in Message
BY DEF Inductive, TypeOK, UnderWay

\* Requests that change nothing.
LEMMA RefuseKeeps ==
    ASSUME Inductive, NEW m \in Message, RefuseId(m) \/ Missing(m) PROVE Inductive'
<1>1. /\ inbox' = inbox \ {m} /\ UNCHANGED <<life, store, lock, screen, begun>>
      /\ \E result \in {"invalid", "error"} : Reply(m, result)
  BY DEF RefuseId, Missing, Resolution, Take
<1>2. /\ call' \in [Caller -> Call \cup {None}]
      /\ \A y \in Caller : call'[y] # None => call'[y] = call[y]
      /\ told' \in SUBSET Answer
      /\ \A a \in told' : a \in told \/ a.result # "ok"
  BY <1>1, ReplyTells
<1> USE <1>1, <1>2 DEF Inductive, store
<1>3. TypeOK'
  BY DEF TypeOK
<1>4. CallsRight' /\ SentOnce'
  BY DEF CallsRight, SentOnce, Judged, Caller
<1>5. InboxRight' /\ VerdictsRight' /\ LockRight' /\ ToldRight'
  BY DEF InboxRight, LockRight, ToldRight, Judged, VerdictsRight, OneVerdictPerUpload
<1> QED
  BY <1>3, <1>4, <1>5

\* An upload that is judged has not been judged before, and is not there again.
LEMMA Judging ==
    ASSUME Inductive, NEW m \in inbox, m.op = "put"
    PROVE  /\ m \in Message /\ m.from = m.push /\ m.push \in Push /\ m.push \in begun \ Judged
           /\ \A n \in inbox \ {m} : n.op = "put" => n.push # m.push
           /\ m.from \notin User
BY CallerAssumption DEF Inductive, InboxRight, TypeOK, Message

\* What is not about the upload stays right when it is judged.
LEMMA JudgedKeeps ==
    ASSUME Inductive, NEW m \in inbox, m.op = "put", inbox' = inbox \ {m},
           Judged' = Judged \cup {m.push}, raised \subseteq raised',
           call' \in [Caller -> Call \cup {None}],
           \A y \in Caller : call'[y] # None => call'[y] = call[y],
           UNCHANGED <<screen, begun>>
    PROVE  CallsRight' /\ SentOnce' /\ InboxRight'
<1>1. /\ m.push \in begun \ Judged /\ m.from = m.push
      /\ \A n \in inbox \ {m} : n.op = "put" => n.push # m.push
  BY Judging
<1>2. CallsRight'
  BY DEF Inductive, CallsRight, Caller
<1>3. SentOnce'
  BY <1>1 DEF Inductive, SentOnce, Caller
<1>4. InboxRight'
  BY <1>1 DEF Inductive, InboxRight
<1> QED
  BY <1>2, <1>3, <1>4

\* An upload that is in order.
LEMMA AcceptKeeps == ASSUME Inductive, NEW m \in inbox, Accept(m) PROVE Inductive'
<1>1. /\ m.op = "put" /\ inbox' = inbox \ {m}
      /\ head' = Sends[m.push] /\ accepted' = accepted \cup {m.push}
      /\ Reply(m, "ok")
      /\ UNCHANGED <<regular, life, raised, open, candidate, moved, beside, lock, screen, begun>>
  BY DEF Accept, Take
<1>2. /\ m \in Message /\ m.push \in Push /\ m.push \in begun \ Judged /\ m.from \notin User
  BY <1>1, Judging
<1>3. /\ call' \in [Caller -> Call \cup {None}]
      /\ \A y \in Caller : call'[y] # None => call'[y] = call[y]
      /\ told' \subseteq told /\ told' \in SUBSET Answer
  BY <1>1, <1>2, ReplyTells
<1>4. CallsRight' /\ SentOnce' /\ InboxRight'
  BY <1>1, <1>3, JudgedKeeps DEF Judged
<1> USE <1>1, <1>2, <1>3 DEF Inductive
<1>5. TypeOK'
  BY VersionAssumption DEF TypeOK
<1>6. VerdictsRight'
  BY DEF VerdictsRight, OneVerdictPerUpload, Judged
<1>7. LockRight' /\ ToldRight'
  BY DEF LockRight, ToldRight
<1> QED
  BY <1>4, <1>5, <1>6, <1>7

\* An upload that conflicts: the conflict is new.
LEMMA ParkKeeps == ASSUME Inductive, NEW m \in inbox, Park(m) PROVE Inductive'
<1>1. /\ m.op = "put" /\ inbox' = inbox \ {m}
      /\ raised' = raised \cup {m.push} /\ open' = open \cup {m.push}
      /\ candidate' = candidate \cup {m.push}
      /\ Reply(m, "error")
      /\ UNCHANGED <<regular, life, head, accepted, moved, beside, lock, screen, begun>>
  BY DEF Park, Take
<1>2. /\ m \in Message /\ m.push \in Push /\ m.push \in begun \ Judged
  BY <1>1, Judging
<1>3. /\ call' \in [Caller -> Call \cup {None}]
      /\ \A y \in Caller : call'[y] # None => call'[y] = call[y]
      /\ told' \in SUBSET Answer
      /\ \A a \in told' : a \in told \/ a.result # "ok"
  BY <1>1, <1>2, ReplyTells
<1>4. CallsRight' /\ SentOnce' /\ InboxRight'
  BY <1>1, <1>3, JudgedKeeps DEF Judged
<1> USE <1>1, <1>2, <1>3 DEF Inductive
<1>5. TypeOK'
  BY DEF TypeOK
<1>6. VerdictsRight'
  BY DEF VerdictsRight, OneVerdictPerUpload, Judged
<1>7. LockRight' /\ ToldRight'
  BY DEF LockRight, ToldRight, Judged
<1> QED
  BY <1>4, <1>5, <1>6, <1>7

\* The first half of a resolution, with the lock.
LEMMA MoveKeeps == ASSUME Inductive, NEW m \in inbox, Move(m) PROVE Inductive'
<1>1. /\ m \in Message /\ m.op \in Choice /\ m.from \in User /\ m.push \in raised
      /\ inbox' = inbox \ {m} /\ lock' = m
      /\ head' = IF m.op = "local" THEN Sends[m.push] ELSE head
      /\ moved' = IF m.op = "local" THEN moved \cup {m.push} ELSE moved
      /\ beside' = IF m.op = "keep-both" THEN beside \cup {m.push} ELSE beside
      /\ UNCHANGED <<regular, life, raised, open, candidate, accepted, client>>
  BY DEF Move, Resolution, Movable, Take, Inductive, InboxRight, TypeOK, Message
<1> USE <1>1 DEF Inductive, client
<1>2. m.push \in Push
  BY DEF Message
<1>3. TypeOK'
  BY <1>2, VersionAssumption DEF TypeOK
<1>4. CallsRight' /\ SentOnce'
  BY DEF CallsRight, SentOnce, Judged
<1>5. InboxRight' /\ VerdictsRight'
  BY DEF InboxRight, VerdictsRight, OneVerdictPerUpload, Judged
<1>6. LockRight'
  BY DEF LockRight
<1>7. ToldRight'
  BY DEF ToldRight
<1> QED
  BY <1>3, <1>4, <1>5, <1>6, <1>7

\* The second half: whoever reads of it reads the truth.
LEMMA SettleKeeps == ASSUME Inductive, NEW m \in Message, Settle(m) PROVE Inductive'
<1>1. /\ lock = m /\ lock # None /\ lock' = None
      /\ open' = open \ {m.push} /\ candidate' = candidate \ {m.push}
      /\ Reply(m, "ok")
      /\ UNCHANGED <<regular, life, head, raised, accepted, moved, beside, inbox, screen, begun>>
  BY MessageAssumption DEF Settle
<1>2. /\ call' \in [Caller -> Call \cup {None}]
      /\ \A y \in Caller : call'[y] # None => call'[y] = call[y]
      /\ told' \in SUBSET Answer
      /\ \A a \in told' : a \in told \/ (a.push = m.push /\ a.choice = m.op)
  BY <1>1, ReplyTells
<1> USE <1>1, <1>2 DEF Inductive
<1>3. TypeOK'
  BY DEF TypeOK
<1>4. CallsRight' /\ SentOnce'
  BY DEF CallsRight, SentOnce, Judged, Caller
<1>5. InboxRight' /\ VerdictsRight' /\ LockRight'
  BY DEF InboxRight, VerdictsRight, OneVerdictPerUpload, LockRight, Judged
<1>6. ToldRight'
  BY DEF ToldRight, LockRight
<1> QED
  BY <1>3, <1>4, <1>5, <1>6

\* The process of the server ends or starts.
LEMMA LifeKeeps == ASSUME Inductive, Signal \/ Exit \/ Start PROVE Inductive'
<1> USE DEF Inductive, store, queue, client
<1>1. CASE Signal \/ Start
  BY <1>1 DEF Signal, Start, TypeOK, CallsRight, SentOnce, InboxRight, LockRight, ToldRight, Judged, VerdictsRight, OneVerdictPerUpload
<1>2. CASE Exit
  <2>1. TypeOK'
    BY <1>2 DEF Exit, TypeOK
  <2>2. CallsRight' /\ SentOnce'
    BY <1>2 DEF Exit, CallsRight, SentOnce, Judged
  <2>3. InboxRight' /\ VerdictsRight' /\ LockRight' /\ ToldRight'
    BY <1>2 DEF Exit, InboxRight, VerdictsRight, OneVerdictPerUpload, LockRight, ToldRight, Judged
  <2> QED
    BY <1>2, <2>1, <2>2, <2>3 DEF Exit
<1> QED
  BY <1>1, <1>2

-----------------------------------------------------------------------------

\* Every step keeps the invariant.
LEMMA StepInductive == Inductive /\ [Next]_vars => Inductive'
<1> SUFFICES ASSUME Inductive, [Next]_vars PROVE Inductive'
  OBVIOUS
<1>1. CASE UNCHANGED vars
  BY <1>1 DEF vars, Inductive, TypeOK, CallsRight, SentOnce, InboxRight, LockRight, ToldRight, Judged, VerdictsRight, OneVerdictPerUpload
<1>2. CASE \E p \in Push : \E b \in Version \cup {None} : Upload(p, b)
  BY <1>2, UploadKeeps
<1>3. CASE \E u \in User : \/ List(u)
                           \/ \E p \in Push : Skip(u, p) \/ \E c \in Choice : Choose(u, p, c)
  BY <1>3, ListKeeps, ChooseKeeps
<1>4. CASE \E x \in Caller : Do(x)
  BY <1>4, SendKeeps, FailKeeps DEF Do
<1>5. CASE \E m \in UnderWay : Handle(m)
  <2>1. PICK m \in UnderWay : Handle(m)
    BY <1>5
  <2>2. m \in Message
    BY <2>1, UnderWayType
  <2>3. CASE RefuseId(m) \/ Missing(m)
    BY <2>2, <2>3, RefuseKeeps
  <2>4. CASE Accept(m) \/ Park(m) \/ Move(m)
    <3>1. m \in inbox
      BY <2>4 DEF Accept, Park, Move, Resolution, Take
    <3> QED
      BY <2>4, <3>1, AcceptKeeps, ParkKeeps, MoveKeeps
  <2>5. CASE Settle(m)
    BY <2>2, <2>5, SettleKeeps
  <2> QED
    BY <2>1, <2>3, <2>4, <2>5 DEF Handle
<1>6. CASE Signal \/ Exit \/ Start
  BY <1>6, LifeKeeps
<1> QED
  BY <1>1, <1>2, <1>3, <1>4, <1>5, <1>6 DEF Next

\* The invariant holds in every state of every behaviour.
THEOREM InductiveCorrect == Spec => []Inductive
BY InitInductive, StepInductive, PTL DEF Spec

\* Types, for any number of attempts and of requests that arrive late.
THEOREM TypeCorrect == Spec => []TypeOK
<1>1. Inductive => TypeOK
  BY DEF Inductive
<1> QED
  BY <1>1, InductiveCorrect, PTL

\* No call of UploadFile is judged twice: what was accepted is in no conflict that the
\* same call has raised (canRetry).
THEOREM UploadsGetOneVerdict == Spec => []OneVerdictPerUpload
<1>1. Inductive => OneVerdictPerUpload
  BY DEF Inductive, VerdictsRight
<1> QED
  BY <1>1, InductiveCorrect, PTL

\* Who reads that a conflict was resolved has got what they chose (ResolveConflict).
THEOREM WhatIsToldIsTrue == Spec => []ToldIsTrue
<1>1. Inductive => ToldIsTrue
  BY DEF Inductive, ToldRight, ToldIsTrue
<1> QED
  BY <1>1, InductiveCorrect, PTL

\* And nothing puts the candidate in place afterwards.
THEOREM WhatIsToldIsFinal == Spec => AnswerIsFinal
<1>1. Inductive /\ [Next]_vars =>
        [\A a \in told :
            a.result = "ok" /\ lock' \notin {None, lock} /\ lock'.push = a.push =>
                UNCHANGED <<head, moved, beside>>]_vars
  <2> SUFFICES ASSUME Inductive, Next, NEW a \in told, a.result = "ok",
                      lock' \notin {None, lock}, lock'.push = a.push
               PROVE  UNCHANGED <<head, moved, beside>>
    OBVIOUS
  <2>1. a.push \notin candidate
    BY DEF Inductive, ToldRight
  <2>2. PICK m \in UnderWay : Move(m)
    BY DEF Next, Upload, List, Skip, Choose, Prompted, Do, Send, Unsent, GiveUp, Handle, RefuseId,
           Accept, Park, Missing, Resolution, Take, Settle, Signal, Exit, Start, store, queue
  <2>3. m.op = "remote"
    BY <2>1, <2>2 DEF Move, Movable
  <2> QED
    BY <2>2, <2>3 DEF Move
<1> QED
  BY <1>1, InductiveCorrect, PTL DEF Spec, AnswerIsFinal
=============================================================================
