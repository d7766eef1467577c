----------------------------- MODULE ClientList -----------------------------
(***************************************************************************)
(* The list of connections of one server, and what ends a connection: the  *)
(* peer, a handler's error, or main, whose deferred Server.Close walks     *)
(* through the list and closes clients that are still being served.        *)
(*                                                                         *)
(* Three kinds of goroutines: main, one per connection that runs           *)
(* Server.runClient with Client.Run in it, and one per connection that     *)
(* reads its lines (Client.ircReadLoop).                                   *)
(*                                                                         *)
(* Server.mu guards the list.  Two goroutines keep it from one step to     *)
(* another: main while it is "walking", and a client for which Server.     *)
(* session connects to Discord ("creating").  If that turns out to be a    *)
(* user who has a session already, by another token, the client never      *)
(* gives the mutex back ("stuck").  Other critical sections are one step.  *)
(***************************************************************************)
EXTENDS Integers, Sequences, FiniteSets

CONSTANTS
    Clients,    \* the connections, numbered as runClient appends them
    Main,       \* the main goroutine
    Nil,        \* the null pointer
    Peers       \* bound: how many lines each peer may send, and who may hang up

ASSUME ClientListAssumption ==
    /\ Clients \subseteq Nat /\ IsFiniteSet(Clients)
    /\ Main \notin Clients /\ Nil \notin Clients
    /\ Peers \subseteq [Clients -> [lines : Nat, hangup : BOOLEAN]]

VARIABLES
    array,      \* the array behind the slice Server.clients, as long as its capacity
    len,        \* the length of that slice
    walk,       \* the range loop of Server.Close, see Walks
    pc,         \* what main and the goroutine of a client do next
    serving,    \* whether Client.Run is in its second loop, with events
    session,    \* whether Client.session is not nil
    owed,       \* sessions the client was handed less those given back for it (Unref)
    reader,     \* what the goroutine of ircReadLoop does
    netconn,    \* the connection as our side sees it
    closes,     \* history: how often Client.Close was called
    peer        \* how many lines a peer may still send, and whether it may hang up

list == <<array, len>>
loop == <<pc, serving, session, owed>>
socket == <<reader, netconn, peer>>
vars == <<array, len, walk, pc, serving, session, owed, reader, netconn, closes, peer>>

Goroutines == Clients \cup {Main}

(***************************************************************************)
(* none      not accepted, or runClient has not appended it yet            *)
(* running   in Client.Run, between two messages                           *)
(* locking   in HandlePassword, waiting for the mutex in Server.session    *)
(* creating  in Server.session, with the mutex, connecting to Discord      *)
(* stuck     in Server.session, with the mutex and waiting for it          *)
(* leaving   removeClient, before it has the mutex                         *)
(* closing   in Client.Close, before it looks for a session                *)
(* unref     in Client.Close, before it gives the session back             *)
(* gone      Client.Close is done, and runClient will return               *)
(*                                                                         *)
(* Main is waiting for a signal, stopping (waiting for the mutex), walking *)
(* (with the mutex), in Client.Close like a client, taking the mutex back  *)
(* (relock), or exited.  A goroutine that crashed has dereferenced nil,    *)
(* which ends the process.                                                 *)
(***************************************************************************)
CloseSteps == {"closing", "unref", "crashed"}
ClientSteps ==
    {"none", "running", "locking", "creating", "stuck", "leaving", "gone"} \cup CloseSteps
MainSteps == {"waiting", "stopping", "walking", "relock", "exited"} \cup CloseSteps

(***************************************************************************)
(* `for _, cl := range s.clients` reads the elements 1 to n of the array   *)
(* the list had when the loop began.  That array is `old` once append has  *)
(* moved the list to a larger one, and `array` itself before.              *)
(***************************************************************************)
Walks == [i : Nat, n : Nat, old : Seq(Clients \cup {Nil}),
          listed : SUBSET Clients,  \* history: the list when the loop began
          swept : SUBSET Clients,   \* history: the clients the loop removed
          at : Clients \cup {Nil}]  \* the client the loop is closing

TypeOK ==
    /\ array \in Seq(Clients \cup {Nil})
    /\ len \in 0..Len(array)
    /\ walk \in Walks
    /\ pc[Main] \in MainSteps
    /\ \A c \in Clients : pc[c] \in ClientSteps
    /\ serving \in [Clients -> BOOLEAN]
    /\ session \in [Clients -> BOOLEAN]
    /\ owed \in [Clients -> -1..1]
    /\ reader \in [Clients -> {"none", "reading", "sending", "failing", "done"}]
    /\ netconn \in [Clients -> {"open", "closed"}]
    /\ closes \in [Clients -> Nat]
    /\ peer \in [Clients -> [lines : Nat, hangup : BOOLEAN]]

Init ==
    /\ array = <<>> /\ len = 0
    /\ walk = [i |-> 1, n |-> 0, old |-> <<>>, listed |-> {}, swept |-> {}, at |-> Nil]
    /\ pc = [g \in Goroutines |-> IF g = Main THEN "waiting" ELSE "none"]
    /\ serving = [c \in Clients |-> FALSE]
    /\ session = [c \in Clients |-> FALSE]
    /\ owed = [c \in Clients |-> 0]
    /\ reader = [c \in Clients |-> "none"]
    /\ netconn = [c \in Clients |-> "open"]
    /\ closes = [c \in Clients |-> 0]
    /\ peer \in Peers

----------------------------------------------------------------------------
Free == pc[Main] # "walking" /\ \A c \in Clients : pc[c] \notin {"creating", "stuck"}

Stuck == \E c \in Clients : pc[c] = "stuck"

Ended == pc[Main] = "exited" \/ \E g \in Goroutines : pc[g] = "crashed"

Begun == pc[Main] \notin {"waiting", "stopping"}

Goto(g, step) == pc' = [pc EXCEPT ![g] = step]

Listed == {array[i] : i \in 1..len}

(***************************************************************************)
(* append writes behind the last element while there is room; then the     *)
(* elements move to an array of twice the size (external: Go's append for  *)
(* short slices), and a range loop goes on with the one it began with.     *)
(***************************************************************************)
Append1(c) ==
    /\ len' = len + 1
    /\ IF len < Len(array)
       THEN array' = [array EXCEPT ![len + 1] = c] /\ UNCHANGED walk
       ELSE /\ array' = [i \in 1..(IF len = 0 THEN 1 ELSE 2 * len) |->
                            IF i <= len THEN array[i] ELSE IF i = len + 1 THEN c ELSE Nil]
            /\ walk' = [walk EXCEPT !.old = IF @ = <<>> /\ Begun THEN array ELSE @]

(***************************************************************************)
(* What removeClientLock does with the slice: the last element takes the   *)
(* place of the removed one, and its own place is cleared.                 *)
(***************************************************************************)
RemoveClearedFirst(c) ==
    LET i == CHOOSE k \in 1..len : array[k] = c IN
    /\ array' = [array EXCEPT ![len] = Nil, ![i] = Nil]
    /\ len' = len - 1

RemoveKeepingLast(c) ==
    LET i == CHOOSE k \in 1..len : array[k] = c IN
    /\ array' = [array EXCEPT ![i] = array[len]]
    /\ UNCHANGED len

Remove(c) ==
    LET i == CHOOSE k \in 1..len : array[k] = c IN
    /\ array' = [array EXCEPT ![i] = array[len], ![len] = Nil]
    /\ len' = len - 1

----------------------------------------------------------------------------
(***************************************************************************)
(* The listener accepts a connection; runClient appends the client and     *)
(* calls Run, which starts the goroutine that reads.  Server.Close leaves  *)
(* the listener open until its walk is over.                               *)
(***************************************************************************)
Accept(c) ==
    /\ pc[c] = "none" /\ Free
    /\ \A d \in Clients : d < c => pc[d] # "none"
    /\ Append1(c)
    /\ Goto(c, "running")
    /\ reader' = [reader EXCEPT ![c] = "reading"]
    /\ UNCHANGED <<serving, session, owed, netconn, closes, peer>>

(***************************************************************************)
(* ircReadLoop: a line, which may be left in the buffer of a connection    *)
(* that is closed; the end of the input; the error of a connection our     *)
(* side has closed.  Then it waits until Run receives from the channel.    *)
(***************************************************************************)
ReadLine(c) ==
    /\ reader[c] = "reading" /\ peer[c].lines > 0
    /\ peer' = [peer EXCEPT ![c].lines = @ - 1]
    /\ reader' = [reader EXCEPT ![c] = "sending"]
    /\ UNCHANGED <<list, walk, loop, netconn, closes>>

ReadFails(c) ==
    /\ reader[c] = "reading"
    /\ peer[c].hangup \/ netconn[c] = "closed"
    /\ reader' = [reader EXCEPT ![c] = "failing"]
    /\ UNCHANGED <<list, walk, loop, netconn, peer, closes>>

(***************************************************************************)
(* Run receives a line.  It handles it and goes on, with its second loop   *)
(* if the line completes the registration, or returns the handler's error. *)
(***************************************************************************)
Receives(c) ==
    /\ pc[c] = "running" /\ reader[c] = "sending"
    /\ reader' = [reader EXCEPT ![c] = "reading"]
    /\ UNCHANGED <<list, walk, netconn, peer, closes>>

Line(c) ==
    /\ Receives(c)
    /\ UNCHANGED <<session, owed>>
    /\ \/ UNCHANGED <<pc, serving>>
       \/ session[c] /\ serving' = [serving EXCEPT ![c] = TRUE] /\ UNCHANGED pc
       \/ Goto(c, "leaving") /\ UNCHANGED serving

(***************************************************************************)
(* A PASS, at any time: the session of an earlier one is given back, then  *)
(* Server.session is asked for another under the mutex.  Which sessions    *)
(* there are, how they count their references and what the last Unref does *)
(* is the matter of SessionRegistry.                                       *)
(***************************************************************************)
UnrefPasswordForgotten(c) == session' = [session EXCEPT ![c] = FALSE] /\ UNCHANGED owed

UnrefPasswordKeepsSession(c) ==
    /\ owed' = [owed EXCEPT ![c] = IF session[c] THEN @ - 1 ELSE @]
    /\ UNCHANGED session

UnrefPassword(c) ==
    /\ owed' = [owed EXCEPT ![c] = IF session[c] THEN @ - 1 ELSE @]
    /\ session' = [session EXCEPT ![c] = FALSE]

Password(c) ==
    /\ Receives(c)
    /\ UnrefPassword(c)
    /\ Goto(c, "locking")
    /\ UNCHANGED serving

(***************************************************************************)
(* HandlePassword is handed a session.  It goes on, maybe with the second  *)
(* loop, or fails over the server that PASS names.                         *)
(***************************************************************************)
Answered(c) ==
    /\ owed' = [owed EXCEPT ![c] = @ + 1]
    /\ session' = [session EXCEPT ![c] = TRUE]
    /\ \/ serving' \in {serving, [serving EXCEPT ![c] = TRUE]} /\ Goto(c, "running")
       \/ UNCHANGED serving /\ Goto(c, "leaving")
    /\ UNCHANGED <<list, walk, socket, closes>>

(***************************************************************************)
(* Server.session with the mutex: there is a session for the token, or one *)
(* is created with the mutex held until Discord answers.  Discord refuses  *)
(* the login; or it is the first of its user; or, under another token, the *)
(* second, and Close of the new session waits for the mutex (removeFunc).  *)
(***************************************************************************)
SessionFound(c) == pc[c] = "locking" /\ Free /\ Answered(c)

SessionMissing(c) ==
    /\ pc[c] = "locking" /\ Free
    /\ Goto(c, "creating")
    /\ UNCHANGED <<list, walk, serving, session, owed, socket, closes>>

SessionCreated(c) == pc[c] = "creating" /\ Answered(c)

SessionFailed(c) ==
    /\ pc[c] = "creating"
    /\ Goto(c, "leaving")
    /\ UNCHANGED <<list, walk, serving, session, owed, socket, closes>>

SessionDuplicate(c) ==
    /\ pc[c] = "creating"
    /\ Goto(c, "stuck")
    /\ UNCHANGED <<list, walk, serving, session, owed, socket, closes>>

(***************************************************************************)
(* The other ways out of Run: the reader's error, or that of an event,     *)
(* which may come while the reader waits to hand over a line.              *)
(***************************************************************************)
ReaderError(c) ==
    /\ pc[c] = "running" /\ reader[c] = "failing"
    /\ reader' = [reader EXCEPT ![c] = "done"]
    /\ Goto(c, "leaving")
    /\ UNCHANGED <<list, walk, serving, session, owed, netconn, peer, closes>>

EventFails(c) ==
    /\ pc[c] = "running" /\ serving[c]
    /\ Goto(c, "leaving")
    /\ UNCHANGED <<list, walk, serving, session, owed, socket, closes>>

----------------------------------------------------------------------------
(***************************************************************************)
(* removeClientLock, after the search: the client is taken out of the      *)
(* list, the mutex given up, and Client.Close called.                      *)
(***************************************************************************)
RemoveAndClose(g, c) ==
    /\ Remove(c)
    /\ closes' = [closes EXCEPT ![c] = @ + 1]
    /\ Goto(g, "closing")

InListButLast(c) == \E i \in 1..(len - 1) : array[i] = c
InList(c) == c \in Listed

(***************************************************************************)
(* removeClient, deferred in runClient: nothing to do if Server.Close has  *)
(* removed the client before.                                              *)
(***************************************************************************)
RemoveClient(c) ==
    /\ pc[c] = "leaving" /\ Free
    /\ IF InList(c)
       THEN RemoveAndClose(c, c)
       ELSE Goto(c, "gone") /\ UNCHANGED <<list, closes>>
    /\ UNCHANGED <<walk, serving, session, owed, socket>>

(***************************************************************************)
(* Client.Close, by the goroutine of the client or by main, without the    *)
(* mutex and without regard for Client.Run: it reads the session twice,    *)
(* leaves it set, and closes the connection.  The goroutine of a client    *)
(* takes the mutex back only to give it up and return; main goes on with   *)
(* its loop.                                                               *)
(***************************************************************************)
Target(g) == IF g = Main THEN walk.at ELSE g

HangupForgotten(g) == UNCHANGED netconn /\ Goto(g, IF g = Main THEN "relock" ELSE "gone")

Hangup(g) ==
    /\ netconn' = [netconn EXCEPT ![Target(g)] = "closed"]
    /\ Goto(g, IF g = Main THEN "relock" ELSE "gone")

CheckSession(g) ==
    /\ pc[g] = "closing"
    /\ IF session[Target(g)] THEN Goto(g, "unref") /\ UNCHANGED netconn
                             ELSE Hangup(g)
    /\ UNCHANGED <<list, walk, serving, session, owed, reader, peer, closes>>

UnrefSession(g) ==
    /\ pc[g] = "unref"
    /\ IF session[Target(g)]
       THEN Hangup(g) /\ owed' = [owed EXCEPT ![Target(g)] = @ - 1]
       ELSE Goto(g, "crashed") /\ UNCHANGED <<owed, netconn>>
    /\ UNCHANGED <<list, walk, serving, session, reader, peer, closes>>

----------------------------------------------------------------------------
(***************************************************************************)
(* main: a signal or an error of the listener, then Server.Close.          *)
(***************************************************************************)
Signal ==
    /\ pc[Main] = "waiting"
    /\ Goto(Main, "stopping")
    /\ UNCHANGED <<list, walk, serving, session, owed, socket, closes>>

BeginWalk ==
    /\ pc[Main] = "stopping" /\ Free
    /\ walk' = [walk EXCEPT !.n = len, !.listed = Listed]
    /\ Goto(Main, "walking")
    /\ UNCHANGED <<list, serving, session, owed, socket, closes>>

AdvanceForgotten == walk' = [walk EXCEPT !.at = Nil]
Advance == walk' = [walk EXCEPT !.at = Nil, !.i = @ + 1]

Relock ==
    /\ pc[Main] = "relock" /\ Free
    /\ Goto(Main, "walking")
    /\ Advance
    /\ UNCHANGED <<list, serving, session, owed, socket, closes>>

(***************************************************************************)
(* The element the loop is at; nothing happens if it is nil or no longer   *)
(* in the list.                                                            *)
(***************************************************************************)
Element == IF walk.old = <<>> THEN array[walk.i] ELSE walk.old[walk.i]

Visit ==
    /\ pc[Main] = "walking" /\ walk.i <= walk.n
    /\ IF InList(Element)
       THEN /\ RemoveAndClose(Main, Element)
            /\ walk' = [walk EXCEPT !.at = Element, !.swept = @ \cup {Element}]
       ELSE Advance /\ UNCHANGED <<list, pc, closes>>
    /\ UNCHANGED <<serving, session, owed, socket>>

(***************************************************************************)
(* The listener is closed, Server.Close and main return, and the process   *)
(* is over.                                                                *)
(***************************************************************************)
Exit ==
    /\ pc[Main] = "walking" /\ walk.i > walk.n
    /\ Goto(Main, "exited")
    /\ UNCHANGED <<list, walk, serving, session, owed, socket, closes>>

Close(g) == CheckSession(g) \/ UnrefSession(g)

Login(c) ==
    \/ SessionFound(c) \/ SessionMissing(c)
    \/ SessionCreated(c) \/ SessionFailed(c) \/ SessionDuplicate(c)

Handle(c) == Line(c) \/ Password(c) \/ Login(c) \/ ReaderError(c)

ClientStep(c) == Handle(c) \/ RemoveClient(c) \/ Close(c)

MainStep == BeginWalk \/ Visit \/ Relock \/ Exit \/ Close(Main)

Next ==
    \/ /\ ~Ended
       /\ \/ MainStep \/ Signal
          \/ \E c \in Clients : \/ ClientStep(c)
                                \/ Accept(c) \/ ReadLine(c) \/ ReadFails(c) \/ EventFails(c)
    \/ (Ended \/ Stuck) /\ UNCHANGED vars

Spec == Init /\ [][Next]_vars

(***************************************************************************)
(* Goroutines that can go on do; reading from a closed connection fails;   *)
(* Discord answers a login.  A sync.Mutex is handed to a goroutine that    *)
(* waits too long for it, which is strong fairness; with the lines of the  *)
(* peers bounded the mutex is taken finitely often, and weak fairness says *)
(* the same.  Peers, events and signals need not come.                     *)
(***************************************************************************)
Fairness ==
    /\ WF_vars(~Ended /\ MainStep)
    /\ \A c \in Clients :
        /\ WF_vars(~Ended /\ ClientStep(c))
        /\ WF_vars(~Ended /\ netconn[c] = "closed" /\ ReadFails(c))

FairSpec == Spec /\ Fairness

----------------------------------------------------------------------------
(***************************************************************************)
(* No client is closed twice, although its own goroutine and Server.Close  *)
(* may both be about to remove it, and the mutex is given up in between.   *)
(***************************************************************************)
ClosedOnce == \A c \in Clients : closes[c] <= 1

(***************************************************************************)
(* The swap in removeClientLock and the append in runClient, in any order  *)
(* and during a walk, keep every client that was added and not closed in   *)
(* the list, once, and nothing else; no removed client stays behind in the *)
(* array.                                                                  *)
(***************************************************************************)
ListExact ==
    /\ Listed = {c \in Clients : pc[c] # "none" /\ closes[c] = 0}
    /\ Cardinality(Listed) = len
    /\ \A i \in 1..Len(array) : i > len => array[i] = Nil

(***************************************************************************)
(* Server.Close misses at most every second client of the list it began    *)
(* with: the last one takes the place that the loop has just visited.      *)
(***************************************************************************)
HalfClosed ==
    pc[Main] = "exited" =>
        Cardinality({c \in walk.listed : closes[c] = 0}) <= Cardinality(walk.listed) \div 2

(***************************************************************************)
(* With its slice, its swaps, the arrays append leaves behind and the loop *)
(* that goes on in them, the server does what ClientSet says.              *)
(***************************************************************************)
Closed == {c \in Clients : closes[c] > 0}

Phase ==
    IF pc[Main] = "exited" THEN "closed"
    ELSE IF Begun THEN "closing" ELSE "serving"

Kept == INSTANCE ClientSet WITH
            members <- Listed, closed <- Closed, phase <- Phase, due <- walk.listed

ImplementsClientSet == Kept!Spec

(***************************************************************************)
(* A client gives back every session it was handed, once: the last when it *)
(* is gone, the others at the next PASS, wherever that fails.  A client    *)
(* that Server.Close closed while its own goroutine went on does so too,   *)
(* or gives one back that is no longer its own, but never two.             *)
(***************************************************************************)
Holds(c) == IF session[c] THEN 1 ELSE 0

RefsBalanced ==
    \A c \in Clients :
        /\ pc[c] # "crashed"
        /\ IF c \in walk.swept THEN owed[c] \in {Holds(c) - 1, Holds(c)}
           ELSE owed[c] = IF pc[c] = "gone" THEN 0 ELSE Holds(c)

(***************************************************************************)
(* Unless a login keeps the mutex for ever, a client that leaves Run, and  *)
(* one whose connection Server.Close closes while it is served, come to    *)
(* their end: Run returns, the connection is closed, and its reader does   *)
(* not go on reading.                                                      *)
(***************************************************************************)
LeavesCleanly ==
    \A c \in Clients :
        pc[c] = "leaving" \/ netconn[c] = "closed" ~>
            Ended \/ Stuck \/ (pc[c] = "gone" /\ netconn[c] = "closed" /\ reader[c] # "reading")

(***************************************************************************)
(* Unless a login keeps the mutex for ever, Server.Close comes to its end, *)
(* whatever clients come, leave and log in while it has given up the mutex *)
(* and however long it waits for Discord to answer them.                   *)
(***************************************************************************)
CloseReturns == pc[Main] = "stopping" ~> Ended \/ Stuck
=============================================================================
