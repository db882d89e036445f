------------------------------- MODULE Client -------------------------------
(***************************************************************************)
(* Calls between clients and the server, where answers get lost: the retry *)
(* loop of internal/client/httpclient.go, `emusync resolve` (cmd/          *)
(* resolve.go), and the life of the server process (internal/server/       *)
(* server.go), around the store of Storage seen through SaveStore.         *)
(*                                                                         *)
(* All calls are about one save file.  A push is one call of UploadFile: the *)
(* next one of the device sends the same content again when the answer got  *)
(* lost.  A conflict is known by the push that raised it.  A request that    *)
(* its client has given up may still be in the server, behind the lock,      *)
(* when the client's next one arrives.                                       *)
(***************************************************************************)
EXTENDS Naturals, FiniteSets

CONSTANTS
    User,           \* who settles conflicts, at a terminal or the admin page
    Push,           \* bound: the calls of UploadFile
    Version,        \* contents, and their hashes
    Sends,          \* the version each push sends
    First,          \* the version the server has at the start
    Past,           \* versions it had before
    Attempts,       \* maxAttempts: 3 in do
    Late,           \* bound: requests in the server that their clients gave up,
                    \* when a call begins
    Regular,        \* may the file's name be regular, may it be irregular?
    None

ASSUME VersionAssumption == Sends \in [Push -> Version] /\ First \in Version /\ Past \subseteq Version
ASSUME AttemptsAssumption == Attempts \in Nat \ {0} /\ Late \in Nat
ASSUME RegularAssumption == Regular \subseteq BOOLEAN
ASSUME CallerAssumption == User \cap Push = {}
ASSUME NoneAssumption == None \notin Version

Caller == User \cup Push
Choice == {"local", "remote", "keep-both"}

\* A request: an upload against a base hash, or the resolution of the conflict a
\* push has raised.
Message == [from : Caller, op : Choice \cup {"put"},
            push : Push, base : Version \cup {None}]
Call == [message : Message, attempt : 1 .. Attempts, step : {"try", "await"}]
Answer == [push : Push, choice : Choice, result : {"ok", "invalid"}]

ASSUME MessageAssumption == None \notin Message /\ None \notin Call

VARIABLES
    regular,    \* does the file's name, which is part of every conflict's id,
                \* have only characters that ValidateName lets through?
    \* server
    life,       \* of the process
    head,       \* the canonical version
    raised,     \* conflicts that have metadata
    open,       \* those not marked resolved
    candidate,  \* those that have a candidate file
    inbox,      \* requests that have not changed anything yet
    lock,       \* the resolution that holds Storage.mu between its two halves
    \* clients
    call,       \* what a caller is in
    screen,     \* conflicts a user was shown and not asked about yet
    \* history
    begun,      \* pushes that have begun
    accepted,   \* pushes WriteFile has made the head
    moved,      \* conflicts whose candidate was made the head
    beside,     \* conflicts whose candidate was stored under keep-both's name
    told        \* lines users read, those about errors of the server left out

store == <<regular, head, raised, open, candidate, accepted, moved, beside>>
queue == <<inbox, lock>>
client == <<call, screen, begun, told>>
vars == <<regular, life, head, raised, open, candidate, inbox, lock,
          call, screen, begun, accepted, moved, beside, told>>

TypeOK ==
    /\ regular \in BOOLEAN
    /\ life \in {"up", "closed", "down"}
    /\ head \in Version
    /\ raised \subseteq Push
    /\ open \subseteq raised
    /\ candidate \subseteq raised
    /\ inbox \subseteq Message
    /\ lock \in Message \cup {None}
    /\ call \in [Caller -> Call \cup {None}]
    /\ screen \in [User -> SUBSET Push]
    /\ begun \subseteq Push
    /\ accepted \subseteq Push
    /\ moved \subseteq Push
    /\ beside \subseteq Push
    /\ told \subseteq Answer

Init ==
    /\ regular \in Regular
    /\ life = "up"
    /\ head = First
    /\ raised = {}
    /\ open = {}
    /\ candidate = {}
    /\ inbox = {}
    /\ lock = None
    /\ call = [x \in Caller |-> None]
    /\ screen = [u \in User |-> {}]
    /\ begun = {}
    /\ accepted = {}
    /\ moved = {}
    /\ beside = {}
    /\ told = {}

-----------------------------------------------------------------------------
(* Clients: UploadFile, and the loop of resolve.                           *)

\* Requests the server has and has not answered.
UnderWay == inbox \cup ({lock} \ {None})

\* Versions that are or have been the head.
Been == Past \cup {First} \cup {Sends[p] : p \in accepted \cup moved}

Awaited(m) ==
    call[m.from] # None /\ call[m.from].step = "await" /\ call[m.from].message = m

Begin(x, m) ==
    /\ Cardinality({n \in UnderWay : ~Awaited(n)}) <= Late
    /\ call' = [call EXCEPT ![x] = [message |-> m, attempt |-> 1, step |-> "try"]]

\* A device uploads what it has against a version it once had, whatever an earlier
\* push of the same has come to.
Upload(p, b) ==
    /\ p \notin begun
    /\ begun' = begun \cup {p}
    /\ b \in Been \cup {None}
    /\ Begin(p, [from |-> p, op |-> "put", push |-> p, base |-> b])
    /\ UNCHANGED <<life, store, queue, screen, told>>

\* GetConflicts; a list that cannot be had ends the command.
List(u) ==
    /\ life = "up"
    /\ call[u] = None
    /\ screen[u] = {}
    /\ open # {}
    /\ screen' = [screen EXCEPT ![u] = open]
    /\ UNCHANGED <<life, store, queue, call, begun, told>>

Prompted(u, p) ==
    /\ call[u] = None
    /\ p \in screen[u]
    /\ screen' = [screen EXCEPT ![u] = @ \ {p}]

Skip(u, p) ==
    /\ Prompted(u, p)
    /\ UNCHANGED <<life, store, queue, call, begun, told>>

Choose(u, p, c) ==
    /\ Prompted(u, p)
    /\ Begin(u, [from |-> u, op |-> c, push |-> p, base |-> None])
    /\ UNCHANGED <<life, store, queue, begun, told>>

-----------------------------------------------------------------------------
(* do.                                                                     *)

\* The body of a resolution has a GetBody, an *os.File has none.
CanRetry(m) == m.op # "put"

Send(x) ==
    /\ call[x] # None
    /\ call[x].step = "try"
    /\ life = "up"
    /\ inbox' = inbox \cup {call[x].message}
    /\ call' = [call EXCEPT ![x].step = "await"]
    /\ UNCHANGED <<life, store, lock, screen, begun, told>>

\* The call is over; what a command prints about a resolution.
End(x, result) ==
    /\ call' = [call EXCEPT ![x] = None]
    /\ told' = told \cup {a \in Answer : /\ x \in User
                                       /\ a.push = call[x].message.push
                                       /\ a.choice = call[x].message.op
                                       /\ a.result = result}

\* Faulty variants of definitions stand before them under a name that says what
\* they do; no specification uses them.  They show which property notices.
RetryForever(x) ==
    IF CanRetry(call[x].message)
    THEN UNCHANGED <<call, told>>
    ELSE End(x, "error")

\* An attempt whose body was not read: the next one, or the end of the call.
Retry(x) ==
    IF CanRetry(call[x].message) /\ call[x].attempt < Attempts
    THEN /\ call' = [call EXCEPT ![x].attempt = @ + 1]
         /\ UNCHANGED told
    ELSE End(x, "error")

\* No connection; a cancelled context is one more reason for that.
Unsent(x) ==
    /\ call[x] # None
    /\ call[x].step = "try"
    /\ Retry(x)
    /\ UNCHANGED <<life, store, queue, screen, begun>>

BodyIsRewound(x) ==
    IF call[x].attempt < Attempts
    THEN /\ call' = [call EXCEPT ![x].attempt = @ + 1, ![x].step = "try"]
         /\ UNCHANGED told
    ELSE End(x, "error")

\* An attempt whose body was read.  do passes the same request again and never
\* calls GetBody: what is left of the loop finds the body empty, where the
\* length says it is not, and nothing more is sent.
Spent(x) == End(x, "error")

\* The connection breaks, or Client.Timeout is over; the server may not notice.
GiveUp(x) ==
    /\ call[x] # None
    /\ call[x].step = "await"
    /\ Spent(x)
    /\ UNCHANGED <<life, store, queue, screen, begun>>

\* The server's answer to m, which only a client that still waits can read, and
\* which may get lost.
Reply(m, result) ==
    \/ Awaited(m) /\ End(m.from, result)
    \/ UNCHANGED <<call, told>>

-----------------------------------------------------------------------------
(* Handlers.  RefuseId does not need the lock, the others take it with     *)
(* their first step; nothing that others see changes before that.          *)

RefuseId(m) ==
    /\ m \in inbox
    /\ m.op # "put"
    /\ ~regular
    /\ inbox' = inbox \ {m}
    /\ Reply(m, "invalid")
    /\ UNCHANGED <<life, store, lock, screen, begun>>

Take(m) ==
    /\ m \in inbox
    /\ lock = None
    /\ inbox' = inbox \ {m}

\* WriteFile: SaveStore's Accept.
Accept(m) ==
    /\ m.op = "put"
    /\ m.base \in {None, head}
    /\ Take(m)
    /\ head' = Sends[m.push]
    /\ accepted' = accepted \cup {m.push}
    /\ Reply(m, "ok")
    /\ UNCHANGED <<regular, life, raised, open, candidate, moved, beside, lock, screen, begun>>

\* SaveStore's Park.
Park(m) ==
    /\ m.op = "put"
    /\ m.base \notin {None, head}
    /\ Take(m)
    /\ raised' = raised \cup {m.push}
    /\ open' = open \cup {m.push}
    /\ candidate' = candidate \cup {m.push}
    /\ Reply(m, "error")
    /\ UNCHANGED <<regular, life, head, accepted, moved, beside, lock, screen, begun>>

Resolution(m) == m.op # "put" /\ regular /\ Take(m)

\* ResolveConflict never looks whether the conflict is still open: what stops
\* a second resolution is that the candidate is gone.
Movable(m) == m.op = "remote" \/ m.push \in candidate

MissingIsDone(m) ==
    /\ Resolution(m)
    /\ ~Movable(m)
    /\ Reply(m, "ok")
    /\ UNCHANGED <<life, store, lock, screen, begun>>

Missing(m) ==
    /\ Resolution(m)
    /\ ~Movable(m)
    /\ Reply(m, "error")
    /\ UNCHANGED <<life, store, lock, screen, begun>>

\* The first half: the candidate becomes the head, or a file beside it.
Move(m) ==
    /\ Resolution(m)
    /\ Movable(m)
    /\ lock' = m
    /\ head' = IF m.op = "local" THEN Sends[m.push] ELSE head
    /\ moved' = IF m.op = "local" THEN moved \cup {m.push} ELSE moved
    /\ beside' = IF m.op = "keep-both" THEN beside \cup {m.push} ELSE beside
    /\ UNCHANGED <<regular, life, raised, open, candidate, accepted, client>>

SettleKeepsFile(m) ==
    /\ lock = m
    /\ lock' = None
    /\ open' = open \ {m.push}
    /\ Reply(m, "ok")
    /\ UNCHANGED <<regular, life, head, raised, candidate, accepted, moved, beside, inbox, screen, begun>>

\* The second half: the conflict is marked and its candidate removed.
Settle(m) ==
    /\ lock = m
    /\ lock' = None
    /\ open' = open \ {m.push}
    /\ candidate' = candidate \ {m.push}
    /\ Reply(m, "ok")
    /\ UNCHANGED <<regular, life, head, raised, accepted, moved, beside, inbox, screen, begun>>

-----------------------------------------------------------------------------
(* Run.                                                                    *)

\* The first thing Shutdown does is to close the listener; ListenAndServe
\* returns because of it.
Signal ==
    /\ life = "up"
    /\ life' = "closed"
    /\ UNCHANGED <<store, queue, client>>

\* Run returns with ListenAndServe, and the process ends with it: handlers and
\* the goroutine that is in Shutdown are cut off, as they are by a kill.
Exit ==
    /\ life = "closed"
    /\ life' = "down"
    /\ inbox' = {}
    /\ lock' = None
    /\ UNCHANGED <<store, client>>

Start ==
    /\ life = "down"
    /\ life' = "up"
    /\ UNCHANGED <<store, queue, client>>

-----------------------------------------------------------------------------
Do(x) == Send(x) \/ Unsent(x) \/ GiveUp(x)

Handle(m) ==
    \/ RefuseId(m) \/ Accept(m) \/ Park(m)
    \/ Missing(m) \/ Move(m) \/ Settle(m)

Next ==
    \/ \E p \in Push : \E b \in Version \cup {None} : Upload(p, b)
    \/ \E u \in User :
        \/ List(u)
        \/ \E p \in Push : Skip(u, p) \/ \E c \in Choice : Choose(u, p, c)
    \/ \E x \in Caller : Do(x)
    \/ \E m \in UnderWay : Handle(m)
    \/ Signal \/ Exit \/ Start

Spec == Init /\ [][Next]_vars

\* An attempt ends: http.Client has a timeout, and the sleep between two of them
\* does too.  Nothing makes the server run, answer, or be started again.
FairSpec == Spec /\ \A u \in User : WF_vars(Do(u))

-----------------------------------------------------------------------------
(* Properties.                                                             *)

\* A call of UploadFile gets one verdict, whatever answers get lost: what it sends is
\* never the head and then, sent once more, in a conflict with that head (do,
\* canRetry).  The next push of the same content is another call.
OneVerdictPerUpload == accepted \cap raised = {}

\* Who reads "Resolved: local" or "Resolved: keep-both" has got it, whoever else
\* settles the conflict, however often the request was sent (cmd/resolve.go:76).
ToldIsTrue ==
    \A a \in told : a.result = "ok" =>
        /\ a.choice = "local" => a.push \in moved
        /\ a.choice = "keep-both" => a.push \in beside

\* Once somebody has read that a conflict is resolved, no attempt that is still
\* under way, and no other user with an old list, puts its candidate in place:
\* what begins a resolution of it then changes nothing that is served.
AnswerIsFinal ==
    [][\A a \in told :
        a.result = "ok" /\ lock' \notin {None, lock} /\ lock'.push = a.push =>
            UNCHANGED <<head, moved, beside>>]_vars

\* Liveness: a prompt that was answered ends with a line about it, also when
\* the server does not run.
ChoiceIsAnswered == \A u \in User : call[u] # None ~> call[u] = None

-----------------------------------------------------------------------------
(* What the documents say and the code does not do.                        *)

\* server.go:65 "Run starts the HTTP server with graceful shutdown": the process
\* does not end on a signal while a handler is under way.
ShutdownIsGraceful == [][life = "closed" /\ life' = "down" => UnderWay = {}]_vars

\* cmd/resolve.go:18 "Interactively resolve unresolved save file conflicts": a
\* choice for a conflict the server lists is not refused for the conflict's id.
ListedCanBeResolved == \A a \in told : a.result # "invalid"

\* docs/prd-emulator-save-sync.md:16 "Detect and surface conflicts when saves have
\* diverged": what a conflict is about differs from what the server has.
ConflictsHaveDiverged == [][\A p \in raised' \ raised : Sends[p] # head]_vars
=============================================================================
