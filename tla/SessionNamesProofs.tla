------------------------- MODULE SessionNamesProofs -------------------------
(***************************************************************************)
(* What holds of SessionNames for any number of goroutines, subscribers,   *)
(* users and nicks.                                                        *)
(***************************************************************************)
EXTENDS SessionNames, FiniteSetTheorems, TLAPS

----------------------------------------------------------------------------
(* Types, and who can be where. *)

(***************************************************************************)
(* A worker is in a call as long as it is not idle, and has a nick to      *)
(* insert from "read" on; a subscriber asks for a map in order to read it. *)
(***************************************************************************)
WorkerPlace(w) ==
    /\ pc[w] \notin {"snapshot", "in"}
    /\ pc[w] \in {"lookup", "create", "reread"} => call[w] # NoCall
    /\ pc[w] = "peek" => call[w] \in Asking
    /\ pc[w] \in {"read", "write", "event"} => call[w] \in Inserting

SubscriberPlace(s) == pc[s] \notin {"peek", "read", "write", "event"}

(***************************************************************************)
(* The maps are numbered in the order of their creation.                   *)
(***************************************************************************)
MapKnown(g) == map[g] <= nickMap /\ (pc[g] = "reread" => nickMap # NoMap)

Places ==
    /\ TypeOK
    /\ \A w \in Workers : WorkerPlace(w)
    /\ \A s \in Subscribers : SubscriberPlace(s)
    /\ \A g \in Goroutines : MapKnown(g)

LEMMA InitPlaces == Init => Places
<1> SUFFICES ASSUME Init PROVE Places
  OBVIOUS
<1> USE DEF Init
<1>1. MaxMaps \in Nat
  BY SessionNamesAssumption
<1>2. nickMap \in Maps \cup {NoMap} /\ map \in [Goroutines -> Maps \cup {NoMap}]
  BY DEF NoMap
<1>3. TypeOK
  BY <1>2 DEF TypeOK, Steps
<1>4. \A g \in Goroutines : pc[g] = "idle" /\ map[g] = NoMap
  OBVIOUS
<1>5. \A g \in Goroutines : MapKnown(g)
  BY <1>4 DEF MapKnown, NoMap
<1>6. (\A w \in Workers : WorkerPlace(w)) /\ \A s \in Subscribers : SubscriberPlace(s)
  BY <1>4 DEF WorkerPlace, SubscriberPlace, Goroutines
<1> QED
  BY <1>3, <1>5, <1>6 DEF Places

(***************************************************************************)
(* A step of one goroutine g that leaves the other goroutines where they   *)
(* are and takes no map away.                                              *)
(***************************************************************************)
LEMMA OneMoves ==
    ASSUME Places, NEW g \in Goroutines,
           nickMap' \in Maps \cup {NoMap}, nickMap <= nickMap',
           NEW step \in Steps, Goto(g, step),
           NEW m \in Maps \cup {NoMap}, map' = [map EXCEPT ![g] = m], m <= nickMap',
           step = "reread" => nickMap' # NoMap,
           step \in {"peek", "read", "write", "event", "snapshot", "in"} => m # NoMap,
           call' \in [Workers -> {NoCall} \cup Asking \cup Inserting],
           \A w \in Workers \ {g} : call'[w] = call[w],
           g \in Workers => WorkerPlace(g)',
           g \in Subscribers => SubscriberPlace(g)',
           forward' \in [Maps -> [Users -> Nicks \cup {NoNick}]],
           left' \in [Subscribers -> SUBSET Users],
           handlers' \subseteq Subscribers,
           calls' \subseteq Subscribers \X Users \X Nicks,
           told' \in [Subscribers -> SUBSET (Users \X Nicks)],
           crashed' \in BOOLEAN
    PROVE  Places'
<1>1. pc' = [pc EXCEPT ![g] = step] /\ pc \in [Goroutines -> Steps]
      /\ map \in [Goroutines -> Maps \cup {NoMap}]
  BY DEF Goto, Places, TypeOK
<1>2. pc' \in [Goroutines -> Steps] /\ map' \in [Goroutines -> Maps \cup {NoMap}]
  BY <1>1
<1>3. pc'[g] = step /\ map'[g] = m
  BY <1>1
<1>4. \A h \in Goroutines \ {g} : pc'[h] = pc[h] /\ map'[h] = map[h]
  BY <1>1
<1>5. TypeOK'
  <2>1. \A h \in Goroutines :
          pc'[h] \in {"peek", "read", "write", "event", "snapshot", "in"} => map'[h] # NoMap
    BY <1>3, <1>4 DEF Places, TypeOK
  <2> QED
    BY <1>2, <2>1 DEF TypeOK
<1>6. ASSUME NEW w \in Workers PROVE WorkerPlace(w)'
  <2>1. w \in Goroutines
    BY DEF Goroutines
  <2> QED
    BY <1>4, <2>1 DEF Places, WorkerPlace
<1>7. ASSUME NEW s \in Subscribers PROVE SubscriberPlace(s)'
  <2>1. s \in Goroutines
    BY DEF Goroutines
  <2> QED
    BY <1>4, <2>1 DEF Places, SubscriberPlace
<1>8. ASSUME NEW h \in Goroutines PROVE MapKnown(h)'
  <2>1. nickMap \in Nat /\ nickMap' \in Nat /\ map[h] \in Nat /\ NoMap = 0
    BY <1>1, SessionNamesAssumption DEF Places, TypeOK, Maps, NoMap
  <2>2. CASE h = g
    BY <1>3, <2>2 DEF MapKnown
  <2>3. CASE h # g
    BY <1>4, <2>1, <2>3 DEF MapKnown, Places
  <2> QED
    BY <2>2, <2>3
<1> QED
  BY <1>5, <1>6, <1>7, <1>8 DEF Places

(***************************************************************************)
(* A goroutine that gets a map, whatever it wants it for.                  *)
(***************************************************************************)
LEMMA PurposeIsPlace ==
    ASSUME Places, NEW g \in Goroutines, pc[g] \in {"lookup", "create", "reread"},
           nickMap # NoMap, Goto(g, Purpose(g)), map' = [map EXCEPT ![g] = nickMap],
           UNCHANGED <<names, call, subscriptions>>, crashed' \in BOOLEAN
    PROVE  Places'
<1>1. nickMap \in Maps \cup {NoMap} /\ nickMap' = nickMap /\ nickMap <= nickMap'
  BY SessionNamesAssumption DEF Places, TypeOK, names, Maps, NoMap
<1>2. pc'[g] = Purpose(g)
  BY DEF Places, TypeOK, Goto
<1>3. CASE g \in Subscribers
  <2>1. Purpose(g) = "snapshot" /\ g \notin Workers
    BY <1>3, SessionNamesAssumption DEF Purpose
  <2>2. SubscriberPlace(g)'
    BY <1>2, <2>1 DEF SubscriberPlace
  <2> QED
    BY <1>1, <1>3, <2>1, <2>2, OneMoves DEF Places, TypeOK, Steps, names, subscriptions
<1>4. CASE g \in Workers
  <2>1. g \notin Subscribers
    BY <1>4, SessionNamesAssumption
  <2>2. call[g] \in Asking \cup Inserting
    BY <1>4 DEF Places, TypeOK, WorkerPlace
  <2>3. \/ call[g] \in Asking /\ Purpose(g) = "peek"
        \/ call[g] \in Inserting /\ Purpose(g) = "read"
    BY <2>1, <2>2 DEF Purpose, Asking, Inserting
  <2>4. WorkerPlace(g)'
    BY <1>2, <2>3 DEF WorkerPlace
  <2> QED
    BY <1>1, <1>4, <2>1, <2>3, <2>4, OneMoves DEF Places, TypeOK, Steps, names, subscriptions
<1> QED
  BY <1>3, <1>4 DEF Goroutines

LEMMA GetMapPlaces ==
    ASSUME Places, NEW g \in Goroutines, GetMap(g)
    PROVE  Places'
<1>1. /\ nickMap \in Maps \cup {NoMap} /\ Maps = 1..MaxMaps /\ MaxMaps \in Nat /\ NoMap = 0
      /\ pc \in [Goroutines -> Steps] /\ map \in [Goroutines -> Maps \cup {NoMap}]
  BY SessionNamesAssumption DEF Places, TypeOK, Maps, NoMap
<1>2. CASE Lookup(g) /\ Found
  BY <1>2, PurposeIsPlace DEF Lookup, Found, Places, TypeOK
<1>3. CASE Lookup(g) /\ ~Found
  <2>1. Goto(g, "create") /\ nickMap = NoMap
    BY <1>3 DEF Lookup, Found
  <2>2. pc'[g] = "create" /\ pc[g] = "lookup"
    BY <1>1, <1>3, <2>1 DEF Goto, Lookup
  <2>3. g \in Workers => WorkerPlace(g)'
    BY <1>3, <2>2 DEF WorkerPlace, Places, Lookup
  <2>4. SubscriberPlace(g)'
    BY <2>2 DEF SubscriberPlace
  <2>5. /\ UNCHANGED <<nickMap, forward, call, left, handlers, calls, told, crashed>>
        /\ map' = [map EXCEPT ![g] = nickMap]
    BY <1>3 DEF Lookup, names, subscriptions
  <2>6. TypeOK /\ "create" \in Steps
    BY DEF Places, Steps
  <2>7. nickMap' \in Maps \cup {NoMap} /\ nickMap <= nickMap' /\ nickMap \in Maps \cup {NoMap}
    BY <1>1, <2>5
  <2> QED
    BY <2>1, <2>3, <2>4, <2>5, <2>6, <2>7, OneMoves DEF TypeOK
<1>4. CASE Create(g)
  <2>1. nickMap' = nickMap + 1 /\ nickMap' \in Maps /\ pc[g] = "create" /\ Goto(g, "reread")
    BY <1>1, <1>4 DEF Create
  <2>2. pc'[g] = "reread"
    BY <1>1, <2>1 DEF Goto
  <2>3. g \in Workers => WorkerPlace(g)'
    BY <1>4, <2>1, <2>2 DEF WorkerPlace, Places, Create
  <2>4. SubscriberPlace(g)'
    BY <2>2 DEF SubscriberPlace
  <2>5. map' = [map EXCEPT ![g] = map[g]] /\ map[g] \in Maps \cup {NoMap} /\ map[g] <= nickMap'
    <3>1. map[g] <= nickMap /\ map[g] \in Nat
      BY <1>1 DEF Places, MapKnown
    <3> QED
      BY <1>1, <1>4, <2>1, <3>1 DEF Create
  <2>6. nickMap' \in Maps \cup {NoMap} /\ nickMap <= nickMap' /\ nickMap' # NoMap
    BY <1>1, <2>1
  <2>7. UNCHANGED <<forward, call, left, handlers, calls, told, crashed>>
    BY <1>4 DEF Create, subscriptions
  <2>8. TypeOK /\ "reread" \in Steps
    BY DEF Places, Steps
  <2> DEFINE m == map[g]
  <2>9. map' = [map EXCEPT ![g] = m] /\ m \in Maps \cup {NoMap} /\ m <= nickMap'
    BY <2>5
  <2> HIDE DEF m
  <2> QED
    BY <2>1, <2>3, <2>4, <2>6, <2>7, <2>8, <2>9, OneMoves DEF TypeOK
<1>5. CASE Reread(g) /\ crashed' = crashed
  <2>1. pc[g] = "reread" /\ nickMap # NoMap
    BY <1>5 DEF Reread, Places, MapKnown
  <2>2. CASE map' = [map EXCEPT ![g] = nickMap] /\ Goto(g, Purpose(g))
    BY <1>5, <2>1, <2>2, PurposeIsPlace DEF Reread, Places, TypeOK
  <2>3. CASE UNCHANGED <<pc, map>>
    BY <1>5, <2>3 DEF Reread, Places, TypeOK, WorkerPlace, SubscriberPlace, MapKnown, names, subscriptions
  <2> QED
    BY <1>5, <2>2, <2>3 DEF Reread
<1>6. CASE Reread(g) /\ crashed' # crashed
  <2>1. UNCHANGED <<pc, map, names, call, subscriptions>> /\ crashed' = TRUE
    BY <1>6 DEF Reread
  <2> QED
    BY <2>1 DEF Places, TypeOK, WorkerPlace, SubscriberPlace, MapKnown, names, subscriptions
<1> QED
  BY <1>2, <1>3, <1>4, <1>5, <1>6 DEF GetMap

(***************************************************************************)
(* A worker that goes on with its map, and one that returns.               *)
(***************************************************************************)
LEMMA WorkerMoves ==
    ASSUME Places, NEW w \in Workers,
           NEW step \in {"lookup", "read", "write", "event"}, Goto(w, step),
           NEW c \in Asking \cup Inserting, call' = [call EXCEPT ![w] = c],
           step \in {"read", "write", "event"} => map[w] # NoMap /\ c \in Inserting,
           UNCHANGED <<nickMap, map, left, handlers, calls, told>>, crashed' \in BOOLEAN,
           forward' \in [Maps -> [Users -> Nicks \cup {NoNick}]]
    PROVE  Places'
<1>1. w \in Goroutines /\ w \notin Subscribers /\ step \in Steps /\ TypeOK
  BY SessionNamesAssumption DEF Goroutines, Steps, Places
<1>2. nickMap \in Int /\ nickMap' \in Maps \cup {NoMap} /\ nickMap <= nickMap'
  BY <1>1, SessionNamesAssumption DEF TypeOK, Maps, NoMap
<1>3. /\ map' = [map EXCEPT ![w] = map[w]] /\ map[w] \in Maps \cup {NoMap}
      /\ map[w] <= nickMap'
  BY <1>1 DEF TypeOK, Places, MapKnown
<1>4. c # NoCall
  BY DEF Asking, Inserting, NoCall
<1>5. call' \in [Workers -> {NoCall} \cup Asking \cup Inserting] /\ call'[w] = c
  BY <1>1 DEF TypeOK
<1>6. pc'[w] = step
  BY <1>1 DEF TypeOK, Goto
<1>7. WorkerPlace(w)'
  BY <1>4, <1>5, <1>6 DEF WorkerPlace
<1>8. \A v \in Workers \ {w} : call'[v] = call[v]
  BY <1>1 DEF TypeOK
<1> DEFINE m == map[w]
<1>9. map' = [map EXCEPT ![w] = m] /\ m \in Maps \cup {NoMap} /\ m <= nickMap'
      /\ (step \in {"read", "write", "event"} => m # NoMap)
  BY <1>3
<1> HIDE DEF m
<1>10. /\ left' \in [Subscribers -> SUBSET Users]
       /\ handlers' \subseteq Subscribers
       /\ calls' \subseteq Subscribers \X Users \X Nicks
       /\ told' \in [Subscribers -> SUBSET (Users \X Nicks)]
       /\ crashed' \in BOOLEAN
  BY <1>1 DEF TypeOK
<1> QED
  BY <1>1, <1>2, <1>5, <1>7, <1>8, <1>9, <1>10, OneMoves

LEMMA WorkerReturns ==
    ASSUME Places, NEW w \in Workers, Return(w),
           UNCHANGED <<nickMap, forward, left, handlers, told, crashed>>,
           calls' \subseteq Subscribers \X Users \X Nicks
    PROVE  Places'
<1>1. w \in Goroutines /\ w \notin Subscribers /\ "idle" \in Steps /\ TypeOK
  BY SessionNamesAssumption DEF Goroutines, Steps, Places
<1>2. /\ nickMap \in Nat /\ nickMap' \in Maps \cup {NoMap} /\ NoMap = 0
      /\ nickMap <= nickMap' /\ NoMap \in Maps \cup {NoMap}
  BY <1>1, SessionNamesAssumption DEF TypeOK, Maps, NoMap
<1>3. /\ Goto(w, "idle") /\ map' = [map EXCEPT ![w] = NoMap] /\ NoMap <= nickMap'
      /\ call' = [call EXCEPT ![w] = NoCall]
  BY <1>2 DEF Return
<1>4. /\ call' \in [Workers -> {NoCall} \cup Asking \cup Inserting]
      /\ \A v \in Workers \ {w} : call'[v] = call[v]
  BY <1>1, <1>3 DEF TypeOK
<1>5. pc'[w] = "idle"
  BY <1>1, <1>3 DEF TypeOK, Goto
<1>6. WorkerPlace(w)'
  BY <1>5 DEF WorkerPlace
<1>7. /\ forward' \in [Maps -> [Users -> Nicks \cup {NoNick}]]
      /\ left' \in [Subscribers -> SUBSET Users]
      /\ handlers' \subseteq Subscribers
      /\ told' \in [Subscribers -> SUBSET (Users \X Nicks)]
      /\ crashed' \in BOOLEAN
  BY <1>1 DEF TypeOK
<1> QED
  BY <1>1, <1>2, <1>3, <1>4, <1>6, <1>7, OneMoves

LEMMA WorkerPlaces ==
    ASSUME Places, NEW w \in Workers, Begin(w) \/ Peek(w) \/ Read(w) \/ Write(w) \/ Event(w)
    PROVE  Places'
<1>1. TypeOK /\ WorkerPlace(w) /\ w \in Goroutines
  BY DEF Places, Goroutines
<1>2. ASSUME NEW user \in Users, UserName(w, user) PROVE Places'
  <2>1. [kind |-> "ask", user |-> user] \in Asking \cup Inserting
    BY DEF Asking
  <2> QED
    BY <1>1, <1>2, <2>1, WorkerMoves DEF UserName, TypeOK, names, subscriptions
<1>3. ASSUME NEW user \in Users, NEW nick \in Nicks, Harvest(w, user, nick) PROVE Places'
  <2>1. [kind |-> "insert", user |-> user, nick |-> nick, old |-> NoNick] \in Asking \cup Inserting
    BY DEF Inserting
  <2> QED
    BY <1>1, <1>3, <2>1, WorkerMoves DEF Harvest, TypeOK, names, subscriptions
<1>4. CASE Peek(w)
  <2>1. pc[w] = "peek" /\ map[w] # NoMap /\ call[w] \in Asking
    BY <1>1, <1>4 DEF Peek, TypeOK, WorkerPlace
  <2>2. UNCHANGED <<nickMap, forward, left, handlers, calls, told, crashed>>
    BY <1>4 DEF Peek, names, subscriptions
  <2>3. CASE Return(w)
    BY <1>1, <2>2, <2>3, WorkerReturns DEF TypeOK
  <2>4. CASE ~Return(w)
    <3>1. PICK nick \in Nicks :
            /\ call' = [call EXCEPT ![w] =
                   [kind |-> "insert", user |-> call[w].user, nick |-> nick, old |-> NoNick]]
            /\ Goto(w, "read") /\ UNCHANGED map
      BY <1>4, <2>4 DEF Peek
    <3>2. [kind |-> "insert", user |-> call[w].user, nick |-> nick, old |-> NoNick] \in Inserting
      BY <2>1 DEF Asking, Inserting
    <3> QED
      BY <1>1, <2>1, <2>2, <3>1, <3>2, WorkerMoves DEF TypeOK
  <2> QED
    BY <2>3, <2>4
<1>5. CASE Read(w)
  <2>1. pc[w] = "read" /\ map[w] \in Maps /\ call[w] \in Inserting
    BY <1>1, <1>5 DEF Read, TypeOK, WorkerPlace
  <2>2. UNCHANGED <<nickMap, forward, left, handlers, calls, told, crashed>>
    BY <1>5 DEF Read, names, subscriptions
  <2>3. CASE Return(w)
    BY <1>1, <2>2, <2>3, WorkerReturns DEF TypeOK
  <2>4. CASE ~Return(w)
    <3> DEFINE old == forward[map[w]][call[w].user]
               c == [call[w] EXCEPT !.old = old]
    <3>1. call' = [call EXCEPT ![w].old = old] /\ Goto(w, "write") /\ UNCHANGED map
      BY <1>5, <2>4 DEF Read
    <3>2. call[w].user \in Users /\ old \in Nicks \cup {NoNick}
      BY <1>1, <2>1 DEF Inserting, TypeOK
    <3>3. call' = [call EXCEPT ![w] = c]
      BY <1>1, <3>1 DEF TypeOK
    <3>4. c \in Inserting
      BY <2>1, <3>2 DEF Inserting
    <3> HIDE DEF c
    <3> QED
      BY <1>1, <2>1, <2>2, <3>1, <3>3, <3>4, WorkerMoves DEF TypeOK, Maps, NoMap
  <2> QED
    BY <2>3, <2>4
<1>6. CASE Write(w)
  <2>1. pc[w] = "write" /\ map[w] \in Maps /\ map[w] # NoMap /\ call[w] \in Inserting
    BY <1>1, <1>6 DEF Write, TypeOK, WorkerPlace
  <2>2. call[w].user \in Users /\ call[w].nick \in Nicks
    BY <2>1 DEF Inserting
  <2>3. forward' \in [Maps -> [Users -> Nicks \cup {NoNick}]]
    BY <1>1, <1>6, <2>1, <2>2 DEF Write, TypeOK
  <2> DEFINE c == call[w]
  <2>4. call' = [call EXCEPT ![w] = c] /\ c \in Inserting
    BY <1>1, <1>6, <2>1 DEF Write, TypeOK
  <2> HIDE DEF c
  <2>5. crashed' \in BOOLEAN
    BY <1>1, <1>6 DEF Write, TypeOK
  <2> QED
    BY <1>6, <2>1, <2>3, <2>4, <2>5, WorkerMoves DEF Write, subscriptions
<1>7. CASE Event(w)
  <2>1. pc[w] = "event" /\ call[w] \in Inserting
    BY <1>1, <1>7 DEF Event, WorkerPlace
  <2>2. call[w].user \in Users /\ call[w].nick \in Nicks
    BY <2>1 DEF Inserting
  <2>3. calls' \subseteq Subscribers \X Users \X Nicks
    BY <1>1, <1>7, <2>2 DEF Event, Informed, TypeOK
  <2> QED
    BY <1>7, <2>3, WorkerReturns DEF Event, names
<1> QED
  BY <1>2, <1>3, <1>4, <1>5, <1>6, <1>7 DEF Begin

(***************************************************************************)
(* A subscriber that goes on, and steps that move no goroutine.            *)
(***************************************************************************)
LEMMA SubscriberMoves ==
    ASSUME Places, NEW s \in Subscribers,
           NEW step \in {"idle", "lookup", "in"}, Goto(s, step),
           UNCHANGED <<nickMap, forward, call, crashed>>,
           NEW m \in {map[s], NoMap}, map' = [map EXCEPT ![s] = m],
           step = "in" => m # NoMap,
           left' \in [Subscribers -> SUBSET Users],
           handlers' \subseteq Subscribers,
           calls' \subseteq Subscribers \X Users \X Nicks,
           told' \in [Subscribers -> SUBSET (Users \X Nicks)]
    PROVE  Places'
<1>1. s \in Goroutines /\ s \notin Workers /\ step \in Steps /\ TypeOK
  BY SessionNamesAssumption DEF Goroutines, Steps, Places
<1>2. /\ nickMap \in Nat /\ nickMap' \in Maps \cup {NoMap} /\ nickMap <= nickMap'
      /\ NoMap = 0 /\ map[s] \in Maps \cup {NoMap} /\ map[s] <= nickMap
  BY <1>1, SessionNamesAssumption DEF TypeOK, Maps, NoMap, Places, MapKnown
<1>3. m \in Maps \cup {NoMap} /\ m <= nickMap'
  BY <1>2
<1>4. pc'[s] = step
  BY <1>1 DEF TypeOK, Goto
<1>5. SubscriberPlace(s)'
  BY <1>4 DEF SubscriberPlace
<1>6. /\ call' \in [Workers -> {NoCall} \cup Asking \cup Inserting]
      /\ forward' \in [Maps -> [Users -> Nicks \cup {NoNick}]]
      /\ crashed' \in BOOLEAN /\ \A w \in Workers \ {s} : call'[w] = call[w]
  BY <1>1 DEF TypeOK
<1> QED
  BY <1>1, <1>2, <1>3, <1>5, <1>6, OneMoves

LEMMA NobodyMoves ==
    ASSUME Places, UNCHANGED <<nickMap, forward, pc, map, call, handlers, crashed>>,
           left' \in [Subscribers -> SUBSET Users],
           calls' \subseteq Subscribers \X Users \X Nicks,
           told' \in [Subscribers -> SUBSET (Users \X Nicks)]
    PROVE  Places'
BY DEF Places, TypeOK, WorkerPlace, SubscriberPlace, MapKnown

LEMMA LearnTyped ==
    ASSUME TypeOK, NEW s \in Subscribers, NEW user \in Users, NEW nick \in Nicks,
           Learn(s, user, nick)
    PROVE  /\ told' \in [Subscribers -> SUBSET (Users \X Nicks)]
           /\ told'[s] = told[s] \cup {<<user, nick>>}
           /\ \A r \in Subscribers \ {s} : told'[r] = told[r]
BY DEF Learn, TypeOK

LEMMA SubscriberPlaces ==
    ASSUME Places, NEW s \in Subscribers,
           Subscribe(s) \/ AddHandler(s) \/ Cancel(s)
             \/ \E user \in Users : TellInitial(s, user) \/ \E nick \in Nicks : Deliver(s, user, nick)
    PROVE  Places'
<1>1. /\ TypeOK /\ s \in Goroutines
      /\ map = [map EXCEPT ![s] = map[s]]
      /\ pc[s] = "snapshot" => map[s] # NoMap
  BY DEF Places, Goroutines, TypeOK
<1> DEFINE m == map[s]
<1>2. m \in {map[s], NoMap} /\ map = [map EXCEPT ![s] = m] /\ (pc[s] = "snapshot" => m # NoMap)
  BY <1>1
<1> HIDE DEF m
<1>3. CASE Subscribe(s)
  <2>1. left' \in [Subscribers -> SUBSET Users]
    BY <1>1, <1>3 DEF Subscribe, TypeOK
  <2> QED
    BY <1>1, <1>2, <1>3, <2>1, SubscriberMoves DEF Subscribe, TypeOK, names
<1>4. CASE AddHandler(s)
  <2>1. handlers' \subseteq Subscribers
    BY <1>1, <1>4 DEF AddHandler, TypeOK
  <2> QED
    BY <1>1, <1>2, <1>4, <2>1, SubscriberMoves DEF AddHandler, TypeOK, names
<1>5. CASE Cancel(s)
  <2>1. /\ handlers' \subseteq Subscribers
        /\ calls' \subseteq Subscribers \X Users \X Nicks
        /\ told' \in [Subscribers -> SUBSET (Users \X Nicks)]
    BY <1>1, <1>5 DEF Cancel, TypeOK
  <2> QED
    BY <1>1, <1>5, <2>1, SubscriberMoves DEF Cancel, TypeOK, names
<1>6. ASSUME NEW user \in Users, TellInitial(s, user) PROVE Places'
  <2>1. left' \in [Subscribers -> SUBSET Users]
    BY <1>1, <1>6 DEF TellInitial, TypeOK
  <2>2. forward[map[s]][user] \in Nicks \cup {NoNick}
    BY <1>1, <1>6 DEF TellInitial, TypeOK
  <2>3. told' \in [Subscribers -> SUBSET (Users \X Nicks)]
    BY <1>1, <1>6, <2>2, LearnTyped DEF TellInitial, TypeOK
  <2> QED
    BY <1>1, <1>6, <2>1, <2>3, NobodyMoves DEF TellInitial, TypeOK, names
<1>7. ASSUME NEW user \in Users, NEW nick \in Nicks, Deliver(s, user, nick) PROVE Places'
  <2>1. told' \in [Subscribers -> SUBSET (Users \X Nicks)]
    BY <1>1, <1>7, LearnTyped DEF Deliver
  <2>2. calls' \subseteq Subscribers \X Users \X Nicks
    BY <1>1, <1>7 DEF Deliver, TypeOK
  <2> QED
    BY <1>1, <1>7, <2>1, <2>2, NobodyMoves DEF Deliver, TypeOK, names
<1> QED
  BY <1>3, <1>4, <1>5, <1>6, <1>7

LEMMA StepPlaces == Places /\ [Next]_vars => Places'
<1> SUFFICES ASSUME Places, [Next]_vars PROVE Places'
  OBVIOUS
<1>1. CASE UNCHANGED vars
  BY <1>1, NobodyMoves DEF vars, Places, TypeOK
<1>2. ASSUME NEW g \in Goroutines, GetMap(g) PROVE Places'
  BY <1>2, GetMapPlaces
<1>3. ASSUME NEW w \in Workers, Begin(w) \/ Work(w) PROVE Places'
  BY <1>2, <1>3, WorkerPlaces DEF Work, Goroutines
<1>4. ASSUME NEW s \in Subscribers,
             Subscribe(s) \/ Join(s) \/ Cancel(s)
               \/ \E user \in Users, nick \in Nicks : Deliver(s, user, nick)
      PROVE  Places'
  BY <1>2, <1>4, SubscriberPlaces DEF Join, Goroutines
<1> QED
  BY <1>1, <1>3, <1>4 DEF Next

LEMMA AlwaysPlaces == Spec => []Places
BY InitPlaces, StepPlaces, PTL DEF Spec

(***************************************************************************)
(* The types of the variables, among them that a goroutine has a map       *)
(* whenever it works with one.                                             *)
(***************************************************************************)
THEOREM TypeCorrect == Spec => []TypeOK
<1>1. Places => TypeOK
  BY DEF Places
<1> QED
  BY <1>1, AlwaysPlaces, PTL

----------------------------------------------------------------------------
(* The bound on the maps. *)

Creating == {g \in Goroutines : pc[g] = "create"}

(***************************************************************************)
(* A goroutine that is about to create a map found none, and then none of  *)
(* the others that did so is far behind.                                   *)
(***************************************************************************)
MapsCounted == nickMap + Cardinality(Creating) <= Cardinality(Goroutines)

(***************************************************************************)
(* The bound MaxMaps keeps no goroutine from creating its map.             *)
(***************************************************************************)
BoundNotReached == \A g \in Goroutines : pc[g] = "create" => nickMap < MaxMaps

LEMMA CreatingFinite ==
    /\ IsFiniteSet(Goroutines) /\ Cardinality(Goroutines) \in Nat
    /\ IsFiniteSet(Creating) /\ Cardinality(Creating) \in Nat
    /\ Cardinality(Creating) <= Cardinality(Goroutines)
<1>1. IsFiniteSet(Goroutines)
  BY SessionNamesAssumption DEF Goroutines
<1>2. Creating \subseteq Goroutines
  BY DEF Creating
<1> QED
  BY <1>1, <1>2, FS_Subset, FS_CardinalityType

LEMMA StepCounted == Places /\ MapsCounted /\ [Next]_vars => MapsCounted'
<1> SUFFICES ASSUME Places, MapsCounted, [Next]_vars PROVE MapsCounted'
  OBVIOUS
<1>1. nickMap \in Nat /\ NoMap = 0 /\ pc \in [Goroutines -> Steps]
  BY SessionNamesAssumption DEF Places, TypeOK, Maps, NoMap
<1>2. Creating' \subseteq Goroutines
  BY DEF Creating
<1>3. ASSUME nickMap' = nickMap, Creating' \subseteq Creating PROVE MapsCounted'
  <2>1. Cardinality(Creating') <= Cardinality(Creating) /\ Cardinality(Creating') \in Nat
    BY <1>3, CreatingFinite, FS_Subset, FS_CardinalityType
  <2> QED
    BY <1>1, <1>3, <2>1, CreatingFinite DEF MapsCounted
<1>4. ASSUME NEW g \in Goroutines, NEW step, step # "create", Goto(g, step), nickMap' = nickMap
      PROVE  MapsCounted'
  <2>1. Creating' \subseteq Creating
    BY <1>1, <1>4 DEF Creating, Goto
  <2> QED
    BY <1>3, <1>4, <2>1
<1>5. CASE UNCHANGED <<pc, nickMap>>
  BY <1>3, <1>5 DEF Creating
<1>6. ASSUME NEW g \in Goroutines, GetMap(g) PROVE MapsCounted'
  <2>1. CASE Lookup(g) /\ ~Found
    <3>1. nickMap' = 0
      BY <1>1, <2>1 DEF Lookup, Found, names
    <3>2. Cardinality(Creating') \in Nat /\ Cardinality(Creating') <= Cardinality(Goroutines)
      BY <1>2, CreatingFinite, FS_Subset, FS_CardinalityType
    <3> QED
      BY <3>1, <3>2, CreatingFinite DEF MapsCounted
  <2>2. CASE (Lookup(g) /\ Found) \/ Reread(g)
    <3>1. Purpose(g) # "create"
      BY DEF Purpose
    <3>2. nickMap' = nickMap /\ (UNCHANGED pc \/ Goto(g, Purpose(g)))
      BY <2>2 DEF Lookup, Reread, names
    <3> QED
      BY <1>4, <1>5, <3>1, <3>2
  <2>3. CASE Create(g)
    <3>1. nickMap' = nickMap + 1 /\ g \in Creating
      BY <2>3 DEF Create, Creating
    <3>2. Creating' = Creating \ {g}
      BY <1>1, <2>3 DEF Create, Creating, Goto
    <3>3. Cardinality(Creating') = Cardinality(Creating) - 1
      BY <3>1, <3>2, CreatingFinite, FS_RemoveElement
    <3> QED
      BY <1>1, <3>1, <3>3, CreatingFinite DEF MapsCounted
  <2> QED
    BY <1>6, <2>1, <2>2, <2>3 DEF GetMap
<1>7. ASSUME NEW w \in Workers, Begin(w) \/ Peek(w) \/ Read(w) \/ Write(w) \/ Event(w)
      PROVE  MapsCounted'
  <2>1. w \in Goroutines /\ nickMap' = nickMap
    BY <1>7 DEF Goroutines, Begin, UserName, Harvest, Peek, Read, Write, Event, names
  <2>2. \E step \in {"lookup", "read", "write", "event", "idle"} : Goto(w, step)
    BY <1>7 DEF Begin, UserName, Harvest, Peek, Read, Write, Event, Return
  <2> QED
    BY <1>4, <2>1, <2>2
<1>8. ASSUME NEW s \in Subscribers, Subscribe(s) \/ AddHandler(s) \/ Cancel(s)
      PROVE  MapsCounted'
  <2>1. s \in Goroutines /\ nickMap' = nickMap
    BY <1>8 DEF Goroutines, Subscribe, AddHandler, Cancel, names
  <2>2. \E step \in {"lookup", "in", "idle"} : Goto(s, step)
    BY <1>8 DEF Subscribe, AddHandler, Cancel
  <2> QED
    BY <1>4, <2>1, <2>2
<1>9. ASSUME NEW s \in Subscribers, NEW user \in Users,
             TellInitial(s, user) \/ \E nick \in Nicks : Deliver(s, user, nick)
      PROVE  MapsCounted'
  BY <1>5, <1>9 DEF TellInitial, Deliver, names
<1> QED
  BY <1>5, <1>6, <1>7, <1>8, <1>9 DEF Next, Work, Join, Goroutines, vars

(***************************************************************************)
(* However many goroutines find no map at the same time, MaxMaps are       *)
(* enough: the bound is no restriction.                                    *)
(***************************************************************************)
THEOREM BoundNeverReached == Spec => []BoundNotReached
<1>1. Init => MapsCounted
  <2> SUFFICES ASSUME Init PROVE MapsCounted
    OBVIOUS
  <2>1. nickMap = 0
    BY DEF Init, NoMap
  <2> QED
    BY <2>1, CreatingFinite DEF MapsCounted
<1>2. Places /\ MapsCounted => BoundNotReached
  <2> SUFFICES ASSUME Places, MapsCounted, NEW g \in Goroutines, pc[g] = "create"
               PROVE  nickMap < MaxMaps
    BY DEF BoundNotReached
  <2>1. Cardinality(Creating) # 0
    BY CreatingFinite, FS_EmptySet DEF Creating
  <2>2. nickMap \in Nat /\ MaxMaps \in Nat /\ Cardinality(Goroutines) <= MaxMaps
    BY SessionNamesAssumption DEF Places, TypeOK, Maps, NoMap, Goroutines
  <2> QED
    BY <2>1, <2>2, CreatingFinite DEF MapsCounted
<1> QED
  BY <1>1, <1>2, StepCounted, AlwaysPlaces, PTL DEF Spec

----------------------------------------------------------------------------
(* What the subscribers know. *)

Subscribed ==
    \A s \in Subscribers :
        /\ s \in handlers <=> pc[s] = "in"
        /\ pc[s] = "in" => left[s] = {}
        /\ pc[s] \in {"lookup", "create", "reread"} => left[s] = Users

CalledSubscribed == \A c \in calls : c[1] \in handlers

(***************************************************************************)
(* A subscriber in Access has been told the names of the users behind it:  *)
(* nobody can write to its map.                                            *)
(***************************************************************************)
SnapshotTold ==
    \A s \in Subscribers, user \in Users :
        LET nick == forward[map[s]][user] IN
        pc[s] = "snapshot" /\ user \notin left[s] /\ nick # NoNick => <<user, nick>> \in told[s]

IInv == Places /\ Subscribed /\ CalledSubscribed /\ SnapshotTold /\ NoNameMissed

LEMMA InitIInv == Init => IInv
<1> SUFFICES ASSUME Init PROVE IInv
  OBVIOUS
<1>1. \A g \in Goroutines : pc[g] = "idle"
  BY DEF Init
<1>2. Subscribed /\ SnapshotTold
  BY <1>1 DEF Init, Subscribed, SnapshotTold, Goroutines
<1>3. CalledSubscribed /\ NoNameMissed
  BY DEF Init, CalledSubscribed, NoNameMissed
<1> QED
  BY <1>2, <1>3, InitPlaces DEF IInv

Knowledge == Subscribed /\ CalledSubscribed /\ SnapshotTold /\ NoNameMissed

(***************************************************************************)
(* A step that tells nobody anything: a subscriber may move up to its      *)
(* first list, and a new map may replace the one there is.                 *)
(***************************************************************************)
LEMMA QuietStep ==
    ASSUME IInv, UNCHANGED <<forward, handlers, calls, told>>,
           nickMap <= nickMap', nickMap' \in Nat,
           \A w \in Workers : pc[w] = "event" => pc'[w] = "event" /\ call'[w] = call[w],
           \A s \in Subscribers :
             \/ pc'[s] = pc[s] /\ map'[s] = map[s] /\ left'[s] = left[s]
             \/ /\ pc[s] \in {"idle", "lookup", "create", "reread"}
                /\ pc'[s] \in {"lookup", "create", "reread", "snapshot"}
                /\ left'[s] = Users
    PROVE  Knowledge'
<1> USE DEF IInv
<1>1. \A s \in Subscribers : s \in handlers => pc[s] = "in" /\ map[s] \in Nat /\ map[s] <= nickMap
  BY SessionNamesAssumption DEF Subscribed, Places, TypeOK, MapKnown, Goroutines, Maps, NoMap
<1>2. Subscribed'
  BY DEF Subscribed
<1>3. CalledSubscribed'
  BY DEF CalledSubscribed
<1>4. SnapshotTold'
  BY DEF SnapshotTold
<1>5. NoNameMissed'
  <2> SUFFICES ASSUME NEW s \in handlers, NEW user \in Users,
                      NEW nick, nick = forward[nickMap'][user], map'[s] = nickMap',
                      nick # NoNick
               PROVE  Pending(s, user, nick)'
    BY DEF NoNameMissed, Pending
  <2>1. s \in Subscribers /\ pc[s] = "in" /\ map'[s] = map[s]
    BY <1>1 DEF Places, TypeOK
  <2>2. nickMap' = nickMap
    BY <1>1, <2>1 DEF Places, TypeOK, Maps, NoMap
  <2>3. Pending(s, user, nick)
    BY <2>1, <2>2 DEF NoNameMissed
  <2> QED
    BY <2>2, <2>3 DEF Pending
<1> QED
  BY <1>2, <1>3, <1>4, <1>5 DEF Knowledge

LEMMA GetMapKnowledge ==
    ASSUME IInv, NEW g \in Goroutines, GetMap(g)
    PROVE  Knowledge'
<1>1. /\ pc \in [Goroutines -> Steps] /\ map \in [Goroutines -> Maps \cup {NoMap}]
      /\ nickMap \in Nat /\ Workers \cap Subscribers = {}
  BY SessionNamesAssumption DEF IInv, Places, TypeOK, Maps, NoMap
<1>2. UNCHANGED <<forward, call, left, handlers, calls, told>>
  BY DEF GetMap, Lookup, Create, Reread, names, subscriptions
<1>3. nickMap <= nickMap' /\ nickMap' \in Nat
  BY <1>1 DEF GetMap, Lookup, Create, Reread, names
<1>4. pc[g] \in {"lookup", "create", "reread"}
  BY DEF GetMap, Lookup, Create, Reread
<1>5. /\ \A h \in Goroutines \ {g} : pc'[h] = pc[h] /\ map'[h] = map[h]
      /\ \/ UNCHANGED <<pc, map>>
         \/ pc'[g] \in {"create", "reread", Purpose(g)}
  BY <1>1 DEF GetMap, Lookup, Create, Reread, Goto
<1>6. \A w \in Workers : pc[w] = "event" => pc'[w] = "event" /\ call'[w] = call[w]
  BY <1>2, <1>4, <1>5 DEF Goroutines
<1>7. ASSUME NEW s \in Subscribers
      PROVE  \/ pc'[s] = pc[s] /\ map'[s] = map[s] /\ left'[s] = left[s]
             \/ /\ pc[s] \in {"idle", "lookup", "create", "reread"}
                /\ pc'[s] \in {"lookup", "create", "reread", "snapshot"}
                /\ left'[s] = Users
  <2>1. CASE s = g
    <3>1. Purpose(s) = "snapshot"
      BY DEF Purpose
    <3>2. left'[s] = left[s] /\ left[s] = Users
      BY <1>2, <1>4, <2>1 DEF IInv, Subscribed
    <3> QED
      BY <1>4, <1>5, <2>1, <3>1, <3>2
  <2>2. CASE s # g
    BY <1>2, <1>5, <2>2 DEF Goroutines
  <2> QED
    BY <2>1, <2>2
<1> QED
  BY <1>2, <1>3, <1>6, <1>7, QuietStep

LEMMA WorkerKnowledge ==
    ASSUME IInv, NEW w \in Workers, Begin(w) \/ Peek(w) \/ Read(w)
    PROVE  Knowledge'
<1>1. /\ pc \in [Goroutines -> Steps] /\ map \in [Goroutines -> Maps \cup {NoMap}]
      /\ call \in [Workers -> {NoCall} \cup Asking \cup Inserting]
      /\ nickMap \in Nat /\ w \in Goroutines /\ w \notin Subscribers
  BY SessionNamesAssumption DEF IInv, Places, TypeOK, Maps, NoMap, Goroutines
<1>2. UNCHANGED <<nickMap, forward, left, handlers, calls, told>>
  BY DEF Begin, UserName, Harvest, Peek, Read, names, subscriptions
<1>3. pc[w] # "event"
  BY DEF Begin, UserName, Harvest, Peek, Read
<1>4. \A g \in Goroutines \ {w} : pc'[g] = pc[g] /\ map'[g] = map[g]
  BY <1>1 DEF Begin, UserName, Harvest, Peek, Read, Goto, Return
<1>5. \A v \in Workers \ {w} : call'[v] = call[v]
  BY <1>1 DEF Begin, UserName, Harvest, Peek, Read, Return
<1>6. \A v \in Workers : pc[v] = "event" => pc'[v] = "event" /\ call'[v] = call[v]
  BY <1>3, <1>4, <1>5 DEF Goroutines
<1>7. \A s \in Subscribers : pc'[s] = pc[s] /\ map'[s] = map[s] /\ left'[s] = left[s]
  BY <1>1, <1>2, <1>4 DEF Goroutines
<1> QED
  BY <1>1, <1>2, <1>6, <1>7, QuietStep

(***************************************************************************)
(* A write waits until nobody is in Access; the name is then on its way.   *)
(***************************************************************************)
LEMMA WriteKnowledge ==
    ASSUME IInv, NEW w \in Workers, Write(w)
    PROVE  Knowledge'
<1>1. /\ TypeOK /\ w \in Goroutines /\ w \notin Subscribers /\ pc[w] = "write"
      /\ call[w] \in Inserting /\ map[w] \in Maps
  BY SessionNamesAssumption DEF IInv, Places, TypeOK, Goroutines, Write, WorkerPlace
<1>2. call[w].user \in Users
  BY <1>1 DEF Inserting
<1>3. UNCHANGED <<nickMap, map, call, left, handlers, calls, told>>
  BY DEF Write, subscriptions
<1>4. (\A g \in Goroutines \ {w} : pc'[g] = pc[g]) /\ pc'[w] = "event"
  BY <1>1 DEF Write, Goto, TypeOK
<1>5. \A m \in Maps, user \in Users :
        forward'[m][user] = IF m = map[w] /\ user = call[w].user THEN call[w].nick
                                                                 ELSE forward[m][user]
  BY <1>1, <1>2 DEF Write, TypeOK
<1>6. \A s \in Subscribers : pc'[s] = pc[s]
  BY <1>1, <1>4 DEF Goroutines
<1>7. Subscribed' /\ CalledSubscribed'
  BY <1>3, <1>6 DEF IInv, Subscribed, CalledSubscribed
<1>8. SnapshotTold'
  <2> SUFFICES ASSUME NEW s \in Subscribers, NEW user \in Users,
                      pc[s] = "snapshot", user \notin left[s], forward'[map[s]][user] # NoNick
               PROVE  <<user, forward'[map[s]][user]>> \in told[s]
    BY <1>3, <1>6 DEF SnapshotTold
  <2>1. map[s] # map[w] /\ map[s] \in Maps
    BY <1>1 DEF Write, Unlocked, TypeOK, Goroutines
  <2>2. forward'[map[s]][user] = forward[map[s]][user]
    BY <1>5, <2>1
  <2> QED
    BY <2>2 DEF IInv, SnapshotTold
<1>9. NoNameMissed'
  <2> SUFFICES ASSUME NEW s \in handlers, NEW user \in Users,
                      NEW nick, nick = forward'[nickMap][user], map[s] = nickMap,
                      nick # NoNick
               PROVE  Pending(s, user, nick)'
    BY <1>3 DEF NoNameMissed, Pending
  <2>1. nickMap \in Maps
    <3>1. s \in Goroutines /\ pc[s] = "in"
      BY <1>1 DEF IInv, Subscribed, TypeOK, Goroutines
    <3> QED
      BY <1>1, <3>1 DEF TypeOK
  <2>2. CASE nickMap = map[w] /\ user = call[w].user
    <3>1. nick = call'[w].nick /\ user = call'[w].user /\ pc'[w] = "event"
      BY <1>3, <1>4, <1>5, <2>1, <2>2
    <3> QED
      BY <3>1 DEF Pending
  <2>3. CASE ~(nickMap = map[w] /\ user = call[w].user)
    <3>1. nick = forward[nickMap][user]
      BY <1>5, <2>1, <2>3
    <3>2. Pending(s, user, nick)
      BY <3>1 DEF IInv, NoNameMissed
    <3>3. \A v \in Workers : pc[v] = "event" => pc'[v] = "event"
      BY <1>1, <1>4 DEF Goroutines
    <3> QED
      BY <1>3, <3>1, <3>2, <3>3 DEF Pending
  <2> QED
    BY <2>2, <2>3
<1> QED
  BY <1>7, <1>8, <1>9 DEF Knowledge

(***************************************************************************)
(* Everyone who has subscribed by then is called with the change.          *)
(***************************************************************************)
LEMMA EventKnowledge ==
    ASSUME IInv, NEW w \in Workers, Event(w)
    PROVE  Knowledge'
<1>1. TypeOK /\ w \in Goroutines /\ w \notin Subscribers /\ pc[w] = "event"
  BY SessionNamesAssumption DEF IInv, Places, Goroutines, Event
<1>2. UNCHANGED <<nickMap, forward, left, handlers, told>>
  BY DEF Event, names
<1>3. calls' = calls \cup (handlers \X {call[w].user} \X {call[w].nick})
  BY DEF Event, Informed
<1>4. /\ \A g \in Goroutines \ {w} : pc'[g] = pc[g] /\ map'[g] = map[g]
      /\ \A v \in Workers \ {w} : call'[v] = call[v]
  BY <1>1 DEF Event, Return, Goto, TypeOK
<1>5. \A s \in Subscribers : pc'[s] = pc[s] /\ map'[s] = map[s]
  BY <1>1, <1>4 DEF Goroutines
<1>6. Subscribed' /\ SnapshotTold'
  BY <1>2, <1>5 DEF IInv, Subscribed, SnapshotTold
<1>7. CalledSubscribed'
  BY <1>2, <1>3 DEF IInv, CalledSubscribed
<1>8. NoNameMissed'
  <2> SUFFICES ASSUME NEW s \in handlers, NEW user \in Users,
                      map[s] = nickMap, forward[nickMap][user] # NoNick
               PROVE  Pending(s, user, forward[nickMap][user])'
    BY <1>1, <1>2, <1>5 DEF NoNameMissed, TypeOK
  <2> DEFINE nick == forward[nickMap][user]
  <2>1. Pending(s, user, nick)
    BY DEF IInv, NoNameMissed
  <2>2. CASE call[w].user = user /\ call[w].nick = nick
    <3>1. <<s, user, nick>> \in calls'
      BY <1>3, <2>2
    <3> QED
      BY <1>2, <3>1 DEF Pending
  <2>3. CASE ~(call[w].user = user /\ call[w].nick = nick)
    <3>1. \A v \in Workers \ {w} : pc'[v] = pc[v] /\ call'[v] = call[v]
      BY <1>4 DEF Goroutines
    <3> QED
      BY <1>2, <1>3, <2>1, <2>3, <3>1 DEF Pending
  <2> QED
    BY <2>2, <2>3
<1> QED
  BY <1>6, <1>7, <1>8 DEF Knowledge

(***************************************************************************)
(* A subscription begins and ends without hearing anything.                *)
(***************************************************************************)
LEMMA SubscribeKnowledge ==
    ASSUME IInv, NEW s \in Subscribers, Subscribe(s)
    PROVE  Knowledge'
<1>1. TypeOK /\ s \in Goroutines /\ s \notin Workers /\ pc[s] = "idle"
  BY SessionNamesAssumption DEF IInv, Places, Goroutines, Subscribe
<1>2. /\ UNCHANGED <<nickMap, forward, map, call, handlers, calls, told>>
      /\ nickMap \in Nat
  BY <1>1, SessionNamesAssumption DEF Subscribe, names, TypeOK, Maps, NoMap
<1>3. /\ \A g \in Goroutines \ {s} : pc'[g] = pc[g]
      /\ pc'[s] = "lookup" /\ left'[s] = Users
      /\ \A r \in Subscribers \ {s} : left'[r] = left[r]
  BY <1>1 DEF Subscribe, Goto, TypeOK
<1>4. \A w \in Workers : pc[w] = "event" => pc'[w] = "event" /\ call'[w] = call[w]
  BY <1>1, <1>2, <1>3 DEF Goroutines
<1>5. ASSUME NEW r \in Subscribers
      PROVE  \/ pc'[r] = pc[r] /\ map'[r] = map[r] /\ left'[r] = left[r]
             \/ /\ pc[r] \in {"idle", "lookup", "create", "reread"}
                /\ pc'[r] \in {"lookup", "create", "reread", "snapshot"}
                /\ left'[r] = Users
  <2>1. CASE r = s
    BY <1>1, <1>3, <2>1
  <2>2. CASE r # s
    BY <1>2, <1>3, <2>2 DEF Goroutines
  <2> QED
    BY <2>1, <2>2
<1> QED
  BY <1>2, <1>4, <1>5, QuietStep

LEMMA TellKnowledge ==
    ASSUME IInv, NEW s \in Subscribers, NEW user \in Users, TellInitial(s, user)
    PROVE  Knowledge'
<1>1. TypeOK /\ s \in Goroutines /\ pc[s] = "snapshot" /\ user \in left[s] /\ s \notin handlers
  BY DEF IInv, Places, Goroutines, TellInitial, Subscribed
<1>2. UNCHANGED <<nickMap, forward, pc, map, call, handlers, calls>>
  BY DEF TellInitial, names
<1>3. /\ left'[s] = left[s] \ {user}
      /\ \A r \in Subscribers \ {s} : left'[r] = left[r]
  BY <1>1 DEF TellInitial, TypeOK
<1> DEFINE nick == forward[map[s]][user]
<1>4. nick \in Nicks \cup {NoNick}
  BY <1>1 DEF TypeOK
<1>5. /\ told[s] \subseteq told'[s]
      /\ nick # NoNick => <<user, nick>> \in told'[s]
      /\ \A r \in Subscribers \ {s} : told'[r] = told[r]
  BY <1>1, <1>4, LearnTyped DEF TellInitial
<1>6. Subscribed'
  BY <1>1, <1>2, <1>3 DEF IInv, Subscribed
<1>7. CalledSubscribed'
  BY <1>2 DEF IInv, CalledSubscribed
<1>8. SnapshotTold'
  <2> SUFFICES ASSUME NEW r \in Subscribers, NEW u \in Users,
                      pc[r] = "snapshot", u \notin left'[r], forward[map[r]][u] # NoNick
               PROVE  <<u, forward[map[r]][u]>> \in told'[r]
    BY <1>2 DEF SnapshotTold
  <2>1. CASE r = s /\ u = user
    BY <1>5, <2>1
  <2>2. CASE ~(r = s /\ u = user)
    <3>1. u \notin left[r]
      BY <1>3, <2>2
    <3>2. <<u, forward[map[r]][u]>> \in told[r]
      BY <3>1 DEF IInv, SnapshotTold
    <3> QED
      BY <1>5, <3>2
  <2> QED
    BY <2>1, <2>2
<1>9. NoNameMissed'
  BY <1>1, <1>2, <1>5 DEF IInv, NoNameMissed, Pending, TypeOK
<1> QED
  BY <1>6, <1>7, <1>8, <1>9 DEF Knowledge

(***************************************************************************)
(* The one lock over the first list and the subscription: what it has been *)
(* told is what the map says when it becomes a handler.                    *)
(***************************************************************************)
LEMMA AddKnowledge ==
    ASSUME IInv, NEW s \in Subscribers, AddHandler(s)
    PROVE  Knowledge'
<1>1. /\ TypeOK /\ s \in Goroutines /\ s \notin Workers /\ pc[s] = "snapshot" /\ left[s] = {}
  BY SessionNamesAssumption DEF IInv, Places, Goroutines, AddHandler, AllTold
<1>2. UNCHANGED <<nickMap, forward, map, call, left, calls, told>>
  BY DEF AddHandler, names
<1>3. /\ handlers' = handlers \cup {s}
      /\ pc'[s] = "in" /\ \A g \in Goroutines \ {s} : pc'[g] = pc[g]
  BY <1>1 DEF AddHandler, Goto, TypeOK
<1>4. (\A r \in Subscribers \ {s} : pc'[r] = pc[r]) /\ \A w \in Workers : pc'[w] = pc[w]
  BY <1>1, <1>3 DEF Goroutines
<1>5. Subscribed'
  BY <1>1, <1>2, <1>3, <1>4 DEF IInv, Subscribed
<1>6. CalledSubscribed'
  BY <1>2, <1>3 DEF IInv, CalledSubscribed
<1>7. SnapshotTold'
  BY <1>2, <1>3, <1>4 DEF IInv, SnapshotTold
<1>8. NoNameMissed'
  <2> SUFFICES ASSUME NEW r \in handlers', NEW user \in Users,
                      NEW nick, nick = forward[nickMap][user], map[r] = nickMap, nick # NoNick
               PROVE  Pending(r, user, nick)'
    BY <1>2 DEF NoNameMissed, Pending
  <2>1. CASE r = s
    BY <1>1, <1>2, <2>1 DEF IInv, SnapshotTold, Pending
  <2>2. CASE r # s
    BY <1>2, <1>3, <1>4, <2>2 DEF IInv, NoNameMissed, Pending
  <2> QED
    BY <2>1, <2>2
<1> QED
  BY <1>5, <1>6, <1>7, <1>8 DEF Knowledge

LEMMA DeliverKnowledge ==
    ASSUME IInv, NEW s \in Subscribers, NEW user \in Users, NEW nick \in Nicks,
           Deliver(s, user, nick)
    PROVE  Knowledge'
<1>1. TypeOK
  BY DEF IInv, Places
<1>2. UNCHANGED <<nickMap, forward, pc, map, call, left, handlers>>
  BY DEF Deliver, names
<1>3. /\ calls' = calls \ {<<s, user, nick>>}
      /\ told'[s] = told[s] \cup {<<user, nick>>}
      /\ \A r \in Subscribers \ {s} : told'[r] = told[r]
  BY <1>1, LearnTyped DEF Deliver
<1>4. Subscribed' /\ CalledSubscribed'
  BY <1>2, <1>3 DEF IInv, Subscribed, CalledSubscribed
<1>5. SnapshotTold'
  BY <1>2, <1>3 DEF IInv, SnapshotTold
<1>6. NoNameMissed'
  <2> SUFFICES ASSUME NEW r \in handlers, NEW u \in Users,
                      NEW n, n = forward[nickMap][u], map[r] = nickMap, n # NoNick
               PROVE  Pending(r, u, n)'
    BY <1>2 DEF NoNameMissed, Pending
  <2>1. Pending(r, u, n) /\ r \in Subscribers
    BY <1>1 DEF IInv, NoNameMissed, TypeOK
  <2>2. CASE r = s /\ u = user /\ n = nick
    BY <1>3, <2>2 DEF Pending
  <2>3. CASE ~(r = s /\ u = user /\ n = nick)
    BY <1>2, <1>3, <2>1, <2>3 DEF Pending
  <2> QED
    BY <2>2, <2>3
<1> QED
  BY <1>4, <1>5, <1>6 DEF Knowledge

LEMMA CancelKnowledge ==
    ASSUME IInv, NEW s \in Subscribers, Cancel(s)
    PROVE  Knowledge'
<1>1. TypeOK /\ s \in Goroutines /\ s \notin Workers /\ pc[s] = "in"
  BY SessionNamesAssumption DEF IInv, Places, Goroutines, Cancel
<1>2. UNCHANGED <<nickMap, forward, call, left>>
  BY DEF Cancel, names
<1>3. /\ handlers' = handlers \ {s}
      /\ calls' = {c \in calls : c[1] # s}
      /\ \A r \in Subscribers \ {s} : told'[r] = told[r] /\ map'[r] = map[r] /\ pc'[r] = pc[r]
      /\ pc'[s] = "idle" /\ \A w \in Workers : pc'[w] = pc[w]
  BY <1>1 DEF Cancel, Goto, TypeOK, Goroutines
<1>4. Subscribed'
  BY <1>2, <1>3 DEF IInv, Subscribed
<1>5. CalledSubscribed'
  BY <1>3 DEF IInv, CalledSubscribed
<1>6. SnapshotTold'
  BY <1>2, <1>3 DEF IInv, SnapshotTold
<1>7. NoNameMissed'
  <2> SUFFICES ASSUME NEW r \in handlers \ {s}, NEW u \in Users,
                      NEW n, n = forward[nickMap][u], map'[r] = nickMap, n # NoNick
               PROVE  Pending(r, u, n)'
    BY <1>2, <1>3 DEF NoNameMissed, Pending
  <2>1. r \in Subscribers \ {s}
    BY <1>1 DEF TypeOK
  <2>2. Pending(r, u, n)
    BY <1>3, <2>1 DEF IInv, NoNameMissed
  <2> QED
    BY <1>2, <1>3, <2>1, <2>2 DEF Pending
<1> QED
  BY <1>4, <1>5, <1>6, <1>7 DEF Knowledge

----------------------------------------------------------------------------
LEMMA StepIInv == IInv /\ [Next]_vars => IInv'
<1> SUFFICES ASSUME IInv, [Next]_vars PROVE Knowledge'
  BY StepPlaces DEF IInv, Knowledge
<1>1. CASE UNCHANGED vars
  BY <1>1 DEF vars, IInv, Knowledge, Subscribed, CalledSubscribed, SnapshotTold, NoNameMissed,
              Pending
<1>2. ASSUME NEW g \in Goroutines, GetMap(g) PROVE Knowledge'
  BY <1>2, GetMapKnowledge
<1>3. ASSUME NEW w \in Workers, Begin(w) \/ Work(w) PROVE Knowledge'
  BY <1>2, <1>3, WorkerKnowledge, WriteKnowledge, EventKnowledge DEF Work, Goroutines
<1>4. ASSUME NEW s \in Subscribers,
             Subscribe(s) \/ Join(s) \/ Cancel(s)
               \/ \E user \in Users, nick \in Nicks : Deliver(s, user, nick)
      PROVE  Knowledge'
  BY <1>2, <1>4, SubscribeKnowledge, TellKnowledge, AddKnowledge, DeliverKnowledge,
     CancelKnowledge DEF Join, Goroutines
<1> QED
  BY <1>1, <1>3, <1>4 DEF Next

LEMMA AlwaysIInv == Spec => []IInv
BY InitIInv, StepIInv, PTL DEF Spec

(***************************************************************************)
(* No subscriber misses a name, for any number of writers and subscribers. *)
(***************************************************************************)
THEOREM NoNameEverMissed == Spec => []NoNameMissed
<1>1. IInv => NoNameMissed
  BY DEF IInv
<1> QED
  BY <1>1, AlwaysIInv, PTL

(***************************************************************************)
(* No change is on its way to a subscriber during its first list.          *)
(***************************************************************************)
THEOREM FirstListAlone == Spec => []InitialAlone
<1>1. IInv => InitialAlone
  BY DEF IInv, Subscribed, CalledSubscribed, InitialAlone, Places, TypeOK
<1> QED
  BY <1>1, AlwaysIInv, PTL
=============================================================================
