----------------------------- MODULE SessionNames ---------------------------
(***************************************************************************)
(* The nicks of one guild in a session that many goroutines share          *)
(* (internal/session): safeGetMap, which finds or creates the guild's map; *)
(* harvestNick and UserName, which put names in and call the subscribers;  *)
(* and SubscribeUserList, which tells a subscriber all names there are and *)
(* then every change.                                                      *)
(*                                                                         *)
(* Gateway events run in goroutines of their own, and so does every call   *)
(* of a subscriber: names go in, and changes come out, in any order.  How  *)
(* an IDMap keeps names apart is the subject of module IDMap; here a user  *)
(* has the name it was last inserted under, or none.                       *)
(***************************************************************************)
EXTENDS Integers, FiniteSets

CONSTANTS
    Workers,        \* goroutines in harvestNick or UserName
    Subscribers,    \* calls of SubscribeUserList
    Users,
    Nicks,          \* what users can be called
    MaxMaps,        \* bound: how many maps are created
    NoNick

ASSUME SessionNamesAssumption ==
    /\ Workers \cap Subscribers = {}
    /\ NoNick \notin Nicks
    /\ IsFiniteSet(Workers \cup Subscribers)
    /\ MaxMaps \in Nat /\ MaxMaps >= Cardinality(Workers \cup Subscribers)

(***************************************************************************)
(* Maps are numbered as they are created.  Nobody creates one after having *)
(* found one, so there are never more of them than goroutines.             *)
(***************************************************************************)
Maps == 1..MaxMaps
NoMap == 0

VARIABLES
    nickMap,    \* Session.nickMaps[guild]
    forward,    \* the names in a map
    pc,         \* what a goroutine does next
    map,        \* the map it works with
    call,       \* the name a worker inserts: user, nick, and the name read before
    left,       \* the users a subscriber has still to be told of at first
    handlers,   \* Session.internalHandler: who is called with changes
    calls,      \* goroutines on their way to a subscriber with a change
    told,       \* the names a subscriber has been told
    crashed     \* the process has ended: a map read while written, or a panic of Insert

vars == <<nickMap, forward, pc, map, call, left, handlers, calls, told, crashed>>

Goroutines == Workers \cup Subscribers

(***************************************************************************)
(* idle      before or after the call; a subscriber when it has left       *)
(* lookup    safeGetMap, before the read lock                              *)
(* create    safeGetMap, before the write lock                             *)
(* reread    safeGetMap, before the second look, which takes no lock       *)
(* peek      UserName, before it asks for the name in the map              *)
(* read      Insert, before the read lock                                  *)
(* write     Insert, before the write lock                                 *)
(* event     before the subscribers are called                             *)
(* snapshot  in Access, with the map's read lock                           *)
(* in        subscribed                                                    *)
(***************************************************************************)
Steps == {"idle", "lookup", "create", "reread", "peek", "read", "write", "event", "snapshot", "in"}

Asking == [kind : {"ask"}, user : Users]
Inserting == [kind : {"insert"}, user : Users, nick : Nicks, old : Nicks \cup {NoNick}]
NoCall == [kind |-> "none"]

TypeOK ==
    /\ nickMap \in Maps \cup {NoMap}
    /\ forward \in [Maps -> [Users -> Nicks \cup {NoNick}]]
    /\ pc \in [Goroutines -> Steps]
    /\ map \in [Goroutines -> Maps \cup {NoMap}]
    /\ call \in [Workers -> {NoCall} \cup Asking \cup Inserting]
    /\ left \in [Subscribers -> SUBSET Users]
    /\ handlers \subseteq Subscribers
    /\ calls \subseteq Subscribers \X Users \X Nicks
    /\ told \in [Subscribers -> SUBSET (Users \X Nicks)]
    /\ crashed \in BOOLEAN
    /\ \A g \in Goroutines :
        pc[g] \in {"peek", "read", "write", "event", "snapshot", "in"} => map[g] # NoMap

Init ==
    /\ nickMap = NoMap
    /\ forward = [m \in Maps |-> [u \in Users |-> NoNick]]
    /\ pc = [g \in Goroutines |-> "idle"]
    /\ map = [g \in Goroutines |-> NoMap]
    /\ call = [w \in Workers |-> NoCall]
    /\ left = [s \in Subscribers |-> {}]
    /\ handlers = {}
    /\ calls = {}
    /\ told = [s \in Subscribers |-> {}]
    /\ crashed = FALSE

----------------------------------------------------------------------------
Goto(g, step) == pc' = [pc EXCEPT ![g] = step]

names == <<nickMap, forward>>
subscriptions == <<left, handlers, calls, told>>

(***************************************************************************)
(* What a goroutine wants a map for.                                       *)
(***************************************************************************)
Purpose(g) ==
    IF g \in Subscribers THEN "snapshot"
    ELSE IF call[g].kind = "ask" THEN "peek" ELSE "read"

(***************************************************************************)
(* safeGetMap looks for the map under the read lock, and creates one under *)
(* the write lock without looking again.  What it returns it reads a third *)
(* time, without a lock: the Go runtime ends the process if it notices a   *)
(* writer at that moment.                                                  *)
(***************************************************************************)
FoundUnchecked == TRUE
Found == nickMap # NoMap

Lookup(g) ==
    /\ pc[g] = "lookup"
    /\ map' = [map EXCEPT ![g] = nickMap]
    /\ Goto(g, IF Found THEN Purpose(g) ELSE "create")
    /\ UNCHANGED <<names, call, subscriptions, crashed>>

Create(g) ==
    /\ pc[g] = "create"
    /\ nickMap < MaxMaps
    /\ nickMap' = nickMap + 1
    /\ Goto(g, "reread")
    /\ UNCHANGED <<forward, map, call, subscriptions, crashed>>

Reread(g) ==
    /\ pc[g] = "reread"
    /\ \/ /\ map' = [map EXCEPT ![g] = nickMap]
          /\ Goto(g, Purpose(g))
          /\ UNCHANGED crashed
       \/ /\ \E other \in Goroutines : pc[other] = "create"
          /\ crashed' = TRUE
          /\ UNCHANGED <<pc, map>>
    /\ UNCHANGED <<names, call, subscriptions>>

----------------------------------------------------------------------------
(***************************************************************************)
(* harvestNick is called with a nick, UserName without one.  UserName      *)
(* returns the name in the map, or inserts the one the state has.          *)
(***************************************************************************)
Harvest(w, user, nick) ==
    /\ pc[w] = "idle"
    /\ call' = [call EXCEPT ![w] = [kind |-> "insert", user |-> user, nick |-> nick, old |-> NoNick]]
    /\ Goto(w, "lookup")
    /\ UNCHANGED <<names, map, subscriptions, crashed>>

UserName(w, user) ==
    /\ pc[w] = "idle"
    /\ call' = [call EXCEPT ![w] = [kind |-> "ask", user |-> user]]
    /\ Goto(w, "lookup")
    /\ UNCHANGED <<names, map, subscriptions, crashed>>

(***************************************************************************)
(* The end of a call, and what a goroutine forgets with it.                *)
(***************************************************************************)
Return(w) ==
    /\ Goto(w, "idle")
    /\ call' = [call EXCEPT ![w] = NoCall]
    /\ map' = [map EXCEPT ![w] = NoMap]

Peek(w) ==
    /\ pc[w] = "peek"
    /\ LET user == call[w].user IN
        \/ forward[map[w]][user] # NoNick /\ Return(w)
        \/ /\ forward[map[w]][user] = NoNick
           /\ \E nick \in Nicks :
                call' = [call EXCEPT ![w] =
                            [kind |-> "insert", user |-> user, nick |-> nick, old |-> NoNick]]
           /\ Goto(w, "read")
           /\ UNCHANGED map
        \/ forward[map[w]][user] = NoNick /\ Return(w)
    /\ UNCHANGED <<names, subscriptions, crashed>>

(***************************************************************************)
(* Insert, in two critical sections.  The second waits for the subscribers *)
(* that are in Access.                                                     *)
(***************************************************************************)
Read(w) ==
    /\ pc[w] = "read"
    /\ LET old == forward[map[w]][call[w].user] IN
        \/ old = call[w].nick /\ Return(w)
        \/ /\ old # call[w].nick
           /\ call' = [call EXCEPT ![w].old = old]
           /\ Goto(w, "write")
           /\ UNCHANGED map
    /\ UNCHANGED <<names, subscriptions, crashed>>

UnlockedAlways(m) == m \in Maps
Unlocked(m) == \A s \in Subscribers : pc[s] = "snapshot" => map[s] # m

(***************************************************************************)
(* If another Insert has renamed the user since, the old name may be gone: *)
(* Insert panics then, over the name it wants to delete, and that ends the *)
(* process.  It is not gone if the other one had read an older name yet    *)
(* (see IDMap), so both can happen.                                        *)
(***************************************************************************)
Stale(w) == call[w].old \notin {NoNick, forward[map[w]][call[w].user]}

Write(w) ==
    /\ pc[w] = "write"
    /\ Unlocked(map[w])
    /\ forward' = [forward EXCEPT ![map[w]][call[w].user] = call[w].nick]
    /\ Goto(w, "event")
    /\ UNCHANGED crashed \/ (Stale(w) /\ crashed' = TRUE)
    /\ UNCHANGED <<nickMap, map, call, subscriptions>>

(***************************************************************************)
(* The change is passed on after the lock is released, to everyone who has *)
(* subscribed by then.                                                     *)
(***************************************************************************)
ChangesOfOld(w) == IF call[w].old = NoNick THEN {} ELSE handlers
Informed(w) == handlers

Event(w) ==
    /\ pc[w] = "event"
    /\ calls' = calls \cup (Informed(w) \X {call[w].user} \X {call[w].nick})
    /\ Return(w)
    /\ UNCHANGED <<names, left, handlers, told, crashed>>

----------------------------------------------------------------------------
(***************************************************************************)
(* SubscribeUserList: in Access, with the read lock of the map, the        *)
(* subscriber is told of one user after the other, and then becomes one of *)
(* the handlers before the lock is released.                               *)
(***************************************************************************)
Subscribe(s) ==
    /\ pc[s] = "idle"
    /\ left' = [left EXCEPT ![s] = Users]
    /\ Goto(s, "lookup")
    /\ UNCHANGED <<names, map, call, handlers, calls, told, crashed>>

Learn(s, user, nick) == told' = [told EXCEPT ![s] = @ \cup {<<user, nick>>}]

TellInitial(s, user) ==
    /\ pc[s] = "snapshot"
    /\ user \in left[s]
    /\ left' = [left EXCEPT ![s] = @ \ {user}]
    /\ IF forward[map[s]][user] = NoNick THEN UNCHANGED told
                                         ELSE Learn(s, user, forward[map[s]][user])
    /\ UNCHANGED <<names, pc, map, call, handlers, calls, crashed>>

AllToldUnchecked(s) == TRUE
AllTold(s) == left[s] = {}

AddHandler(s) ==
    /\ pc[s] = "snapshot"
    /\ AllTold(s)
    /\ handlers' = handlers \cup {s}
    /\ Goto(s, "in")
    /\ UNCHANGED <<names, map, call, left, calls, told, crashed>>

(***************************************************************************)
(* A goroutine of the handler reaches the subscriber with a change.        *)
(***************************************************************************)
Deliver(s, user, nick) ==
    /\ <<s, user, nick>> \in calls
    /\ calls' = calls \ {<<s, user, nick>>}
    /\ Learn(s, user, nick)
    /\ UNCHANGED <<names, pc, map, call, left, handlers, crashed>>

(***************************************************************************)
(* The cancel function of a subscription.  Calls on their way reach nobody *)
(* any more, and the next subscription starts with nothing.                *)
(***************************************************************************)
Cancel(s) ==
    /\ pc[s] = "in"
    /\ handlers' = handlers \ {s}
    /\ calls' = {c \in calls : c[1] # s}
    /\ told' = [told EXCEPT ![s] = {}]
    /\ map' = [map EXCEPT ![s] = NoMap]
    /\ Goto(s, "idle")
    /\ UNCHANGED <<names, call, left, crashed>>

----------------------------------------------------------------------------
GetMap(g) == Lookup(g) \/ Create(g) \/ Reread(g)
Work(w) == GetMap(w) \/ Peek(w) \/ Read(w) \/ Write(w) \/ Event(w)
Join(s) == GetMap(s) \/ AddHandler(s) \/ \E user \in Users : TellInitial(s, user)

Begin(w) == \E user \in Users : UserName(w, user) \/ \E nick \in Nicks : Harvest(w, user, nick)

Next ==
    \/ /\ ~crashed
       /\ \/ \E w \in Workers : Begin(w) \/ Work(w)
          \/ \E s \in Subscribers : Subscribe(s) \/ Join(s) \/ Cancel(s)
          \/ \E s \in Subscribers, user \in Users, nick \in Nicks : Deliver(s, user, nick)
    \/ crashed /\ UNCHANGED vars

Spec == Init /\ [][Next]_vars

(***************************************************************************)
(* Goroutines go on when they can; new events and subscriptions need not   *)
(* come.  A writer gets the write lock, because sync.RWMutex holds new     *)
(* readers back as soon as one waits.                                      *)
(***************************************************************************)
Fairness ==
    /\ \A w \in Workers : WF_vars(~crashed /\ Work(w)) /\ SF_vars(~crashed /\ Write(w))
    /\ \A s \in Subscribers : WF_vars(~crashed /\ Join(s))
    /\ \A s \in Subscribers, user \in Users, nick \in Nicks :
        WF_vars(~crashed /\ Deliver(s, user, nick))

FairSpec == Spec /\ Fairness

----------------------------------------------------------------------------
Pending(s, user, nick) ==
    \/ <<user, nick>> \in told[s]
    \/ <<s, user, nick>> \in calls
    \/ \E w \in Workers :
        pc[w] = "event" /\ call[w].user = user /\ call[w].nick = nick

(***************************************************************************)
(* A subscriber misses no name: whatever the map of the guild says now, it *)
(* has been told, is being told, or is about to be told, although names    *)
(* go in before, during and after the subscription.  It takes both: the    *)
(* first list and the subscription under one lock, and the call after the  *)
(* write (session.go:221-237, harvest.go:49-58).  A subscriber that holds  *)
(* a map which another safeGetMap has replaced is not covered.             *)
(***************************************************************************)
NoNameMissed ==
    \A s \in handlers, user \in Users :
        LET nick == forward[nickMap][user] IN
        map[s] = nickMap /\ nick # NoNick => Pending(s, user, nick)

(***************************************************************************)
(* "While IsInitial is true, the callback will only be called in one       *)
(* goroutine.  This function blocks until all events with IsInitial are    *)
(* sent." (session.go:219-220): no change is on its way to a subscriber    *)
(* that has not heard all of the first list.  HandleJoin relies on it when *)
(* it collects names without a lock (irc.go:156-163).                      *)
(***************************************************************************)
InitialAlone == \A c \in calls : left[c[1]] = {}

(***************************************************************************)
(* A subscriber learns the name a user has, unless the name changes again, *)
(* the map is replaced or the subscription ends first.                     *)
(***************************************************************************)
NamesArrive ==
    \A s \in Subscribers, user \in Users, nick \in Nicks :
        s \in handlers /\ map[s] = nickMap /\ forward[nickMap][user] = nick
            ~> \/ <<user, nick>> \in told[s]
               \/ s \notin handlers \/ map[s] # nickMap \/ forward[nickMap][user] # nick
               \/ crashed
=============================================================================
