-------------------------- MODULE MessageFlowProofs --------------------------
(***************************************************************************)
(* Theorems about MessageFlow, for every set of chats and names, every     *)
(* size of a backlog and any number of messages and edits.                 *)
(***************************************************************************)
EXTENDS MessageFlow, FiniteSetTheorems, TLAPS

(***************************************************************************)
(* What the events at Discord are: a message has its position as its id,   *)
(* and an edit the author and the id of an earlier message.                *)
(***************************************************************************)
History ==
    \A i \in 1..Len(stream) :
        LET m == stream[i].id IN
        /\ m \in 1..i
        /\ stream[i].kind = "create" => m = i
        /\ stream[m].kind = "create" /\ stream[m].by = stream[i].by

(***************************************************************************)
(* lastMessageID is the newest message of the peer.                        *)
(***************************************************************************)
Ours(i) == stream[i].kind = "create" /\ stream[i].by = "here"

LastIsNewest ==
    /\ lastMessageID # 0 => Ours(lastMessageID)
    /\ \A i \in 1..Len(stream) : Ours(i) => i <= lastMessageID

(***************************************************************************)
(* A join is caused by an event that the gateway has delivered.            *)
(***************************************************************************)
JoinDelivered == joining # None => joining.id <= received

Typed == TypeOK /\ History /\ JoinDelivered

IInv == Typed /\ LastIsNewest /\ EchoOnlyWhenOvertaken /\ NoMessageLost

LEMMA InitIInv == Init => IInv
BY FlowAssumption DEF Init, IInv, Typed, TypeOK, History, JoinDelivered, LastIsNewest, Ours,
    EchoOnlyWhenOvertaken, NoMessageLost, None, Events

(***************************************************************************)
(* The stream only grows at its end.                                       *)
(***************************************************************************)
LEMMA AddGrows ==
    ASSUME TypeOK, NEW e \in Events, Add(e)
    PROVE  /\ stream' \in Seq(Events)
           /\ Len(stream') = Len(stream) + 1 /\ Len(stream') <= MaxEvents
           /\ Len(stream) \in Nat
           /\ stream'[Len(stream) + 1] = e
           /\ \A i \in 1..Len(stream) : stream'[i] = stream[i]
BY FlowAssumption DEF TypeOK, Add

LEMMA CreateIsEvent ==
    ASSUME TypeOK, NEW chat \in Chats, NEW by \in Others \cup {"here"}, Len(stream) < MaxEvents
    PROVE  [id |-> Len(stream) + 1, chat |-> chat, by |-> by, kind |-> "create"] \in Events
BY FlowAssumption DEF TypeOK, Events, Positions

LEMMA UpdateIsEvent ==
    ASSUME TypeOK, NEW id \in 1..Len(stream)
    PROVE  LET e == [stream[id] EXCEPT !.kind = "update"] IN
           /\ e \in Events
           /\ e.id = stream[id].id /\ e.by = stream[id].by /\ e.kind = "update"
<1>1. stream[id] \in Events
    BY DEF TypeOK
<1> QED
    BY <1>1 DEF Events

(***************************************************************************)
(* A set of positions that grows does not shrink in number.                *)
(***************************************************************************)
LEMMA MoreNewer ==
    ASSUME NEW n \in Nat, NEW S \in SUBSET (1..n), NEW T, T \subseteq S, Limit \in Nat,
           Cardinality(T) >= Limit
    PROVE  Cardinality(S) >= Limit
<1>1. IsFiniteSet(1..n)
    BY FS_Interval, n \in Nat, 1 \in Int, n \in Int
<1>2. IsFiniteSet(S)
    BY <1>1, FS_Subset
<1>3. Cardinality(S) \in Nat /\ IsFiniteSet(T) /\ Cardinality(T) <= Cardinality(S)
    BY <1>2, FS_Subset, FS_CardinalityType
<1>4. Cardinality(T) \in Nat
    BY <1>3, FS_CardinalityType
<1> QED
    BY <1>3, <1>4

(***************************************************************************)
(* What happens at Discord, whatever is added to the stream: an event that *)
(* is a new message or an edit of an old one, and lastMessageID with it if *)
(* the message is the peer's.                                              *)
(***************************************************************************)
Extends(e) ==
    \/ e.kind = "create" /\ e.id = Len(stream) + 1
    \/ /\ e.kind = "update" /\ e.id \in 1..Len(stream)
       /\ stream[e.id].kind = "create" /\ stream[e.id].by = e.by

Remembered(e) ==
    IF e.kind = "create" /\ e.by = "here" THEN lastMessageID' = Len(stream) + 1
                                          ELSE UNCHANGED lastMessageID

LEMMA AddKeepsIInv ==
    ASSUME IInv, NEW e \in Events, Add(e), Extends(e), Remembered(e),
           UNCHANGED <<run, settings, received, waiting, name, channels, joining, shown>>
    PROVE  IInv'
<1> USE FlowAssumption
<1>0. TypeOK /\ History /\ JoinDelivered
    BY DEF IInv, Typed
<1>1. /\ stream' \in Seq(Events)
      /\ Len(stream') = Len(stream) + 1 /\ Len(stream') <= MaxEvents
      /\ Len(stream) \in Nat
      /\ stream'[Len(stream) + 1] = e
      /\ \A i \in 1..Len(stream) : stream'[i] = stream[i]
    BY <1>0, AddGrows
<1>2. /\ run' = run /\ isGuild' = isGuild /\ echo' = echo /\ received' = received
      /\ waiting' = waiting /\ name' = name /\ channels' = channels /\ joining' = joining
      /\ live' = live /\ past' = past /\ astray' = astray
    BY DEF settings, shown
<1>3. lastMessageID' \in 0..(Len(stream) + 1)
    BY <1>0, <1>1 DEF Remembered, TypeOK
<1>4. TypeOK'
    BY <1>0, <1>1, <1>2, <1>3 DEF TypeOK
<1>5. JoinDelivered'
    BY <1>0, <1>2 DEF JoinDelivered
<1>6. History'
    <2> SUFFICES ASSUME NEW i \in 1..(Len(stream) + 1)
                 PROVE  LET m == stream'[i].id IN
                        /\ m \in 1..i
                        /\ stream'[i].kind = "create" => m = i
                        /\ stream'[m].kind = "create" /\ stream'[m].by = stream'[i].by
        BY <1>1 DEF History
    <2>1. CASE i \in 1..Len(stream)
        BY <1>0, <1>1, <2>1 DEF History
    <2>2. CASE i = Len(stream) + 1
        BY <1>1, <2>2 DEF Extends
    <2> QED
        BY <1>1, <2>1, <2>2
<1>7. LastIsNewest'
    <2>1. CASE e.kind = "create" /\ e.by = "here"
        BY <1>1, <2>1 DEF Remembered, LastIsNewest, Ours
    <2>2. CASE ~(e.kind = "create" /\ e.by = "here")
        <3>1. lastMessageID' = lastMessageID /\ lastMessageID \in 0..Len(stream)
            BY <1>0, <2>2 DEF Remembered, TypeOK
        <3>2. \A i \in 1..Len(stream') : Ours(i)' => i \in 1..Len(stream) /\ Ours(i)
            BY <1>1, <2>2 DEF Ours
        <3>3. \A i \in 1..Len(stream) : Ours(i) => Ours(i)'
            BY <1>1 DEF Ours
        <3> QED
            BY <1>1, <3>1, <3>2, <3>3 DEF IInv, LastIsNewest
    <2> QED
        BY <2>1, <2>2
<1>8. EchoOnlyWhenOvertaken'
    <2> SUFFICES ASSUME ~echo, NEW k \in live, stream'[k].by = "here"
                 PROVE  \E j \in 1..Len(stream') :
                            j > stream'[k].id /\ stream'[j].kind = "create" /\ stream'[j].by = "here"
        BY <1>2 DEF EchoOnlyWhenOvertaken
    <2>1. k \in 1..Len(stream) /\ stream'[k] = stream[k]
        BY <1>0, <1>1 DEF TypeOK
    <2>2. PICK j \in 1..Len(stream) :
                j > stream[k].id /\ stream[j].kind = "create" /\ stream[j].by = "here"
        BY <2>1 DEF IInv, EchoOnlyWhenOvertaken
    <2> QED
        BY <1>1, <2>1, <2>2
<1>9. NoMessageLost'
    <2> SUFFICES ASSUME run = "serve", NEW k \in 1..Len(stream'), stream'[k].kind = "create",
                        DealtWith(k)', k \notin live \cup past, ~(stream'[k].by = "blocked"),
                        ~(stream'[k].by = "here" /\ ~echo), k \notin astray
                 PROVE  Cardinality(Newer(k, Len(stream))') >= Limit
        BY <1>2 DEF NoMessageLost, Visible
    <2>1. k \in 1..Len(stream) /\ stream'[k] = stream[k] /\ DealtWith(k)
        BY <1>0, <1>1, <1>2 DEF DealtWith, TypeOK
    <2>2. Cardinality(Newer(k, Len(stream))) >= Limit
        BY <2>1 DEF IInv, NoMessageLost, Visible
    <2>3. /\ Newer(k, Len(stream))' \subseteq 1..(Len(stream) + 1)
          /\ Newer(k, Len(stream)) \subseteq Newer(k, Len(stream))'
        BY <1>1, <2>1 DEF Newer, Messages
    <2>4. Len(stream) + 1 \in Nat
        BY <1>1
    <2> QED
        BY <2>2, <2>3, <2>4, MoreNewer
<1> QED
    BY <1>4, <1>5, <1>6, <1>7, <1>8, <1>9 DEF IInv, Typed

(***************************************************************************)
(* The kinds of steps that add to the stream.                              *)
(***************************************************************************)
LEMMA DiscordAdds ==
    ASSUME IInv,
           \/ \E chat \in Chats, by \in Others : Post(chat, by)
           \/ \E id \in Positions : Edit(id)
    PROVE  IInv'
<1>0. TypeOK /\ History
    BY DEF IInv, Typed
<1>1. ASSUME NEW chat \in Chats, NEW by \in Others, Post(chat, by)
      PROVE  IInv'
    <2> DEFINE e == [id |-> Len(stream) + 1, chat |-> chat, by |-> by, kind |-> "create"]
    <2>1. e \in Events
        BY <1>0, <1>1, CreateIsEvent DEF Post, Create, Add
    <2>2. Add(e)
        BY <1>1 DEF Post, Create
    <2>3. Extends(e) /\ Remembered(e)
        BY <1>1 DEF Post, Extends, Remembered, Others
    <2>4. UNCHANGED <<run, settings, received, waiting, name, channels, joining, shown>>
        BY <1>1 DEF Post
    <2> QED
        BY <2>1, <2>2, <2>3, <2>4, AddKeepsIInv
<1>2. ASSUME NEW id \in Positions, Edit(id)
      PROVE  IInv'
    <2> DEFINE e == [stream[id] EXCEPT !.kind = "update"]
    <2>1. id \in 1..Len(stream) /\ stream[id].kind = "create"
        BY <1>2 DEF Edit
    <2>2. e \in Events /\ e.id = stream[id].id /\ e.by = stream[id].by /\ e.kind = "update"
        BY <1>0, <2>1, UpdateIsEvent
    <2>3. Add(e)
        BY <1>2 DEF Edit, Update
    <2>4. stream[id].id = id
        BY <1>0, <2>1 DEF History
    <2>5. Extends(e) /\ Remembered(e)
        <3> HIDE DEF e
        <3> QED
            BY <1>2, <2>1, <2>2, <2>4 DEF Edit, Extends, Remembered
    <2>6. UNCHANGED <<run, settings, received, waiting, name, channels, joining, shown>>
        BY <1>2 DEF Edit
    <2> QED
        BY <2>2, <2>3, <2>5, <2>6, AddKeepsIInv
<1> QED
    BY <1>1, <1>2

LEMMA PeerAdds ==
    ASSUME IInv, NEW typed \in Names, Say(typed) \/ EditOwn(typed)
    PROVE  IInv'
<1>0. TypeOK /\ History
    BY DEF IInv, Typed
<1>1. CASE Say(typed)
    <2>0. PICK chat \in Chats : Create(chat, "here")
        BY <1>1 DEF Say
    <2> DEFINE e == [id |-> Len(stream) + 1, chat |-> chat, by |-> "here", kind |-> "create"]
    <2>1. e \in Events
        BY <1>0, <2>0, CreateIsEvent DEF Create, Add
    <2>2. Add(e)
        BY <2>0 DEF Create
    <2>3. Extends(e) /\ Remembered(e)
        BY <1>1 DEF Say, Remember, Extends, Remembered
    <2>4. UNCHANGED <<run, settings, received, waiting, name, channels, joining, shown>>
        BY <1>1 DEF Say
    <2> QED
        BY <2>1, <2>2, <2>3, <2>4, AddKeepsIInv
<1>2. CASE EditOwn(typed)
    <2>0. PICK chat \in Chats, n \in Views : \E i \in Backlog(chat, n) : Update(i)
        BY <1>2 DEF EditOwn
    <2>1. PICK id \in Backlog(chat, n) : Update(id)
        BY <2>0
    <2> DEFINE e == [stream[id] EXCEPT !.kind = "update"]
    <2>2. id \in 1..Len(stream) /\ stream[id].kind = "create"
        BY <1>0 DEF Backlog, Messages, Views, TypeOK
    <2>3. e \in Events /\ e.id = stream[id].id /\ e.by = stream[id].by /\ e.kind = "update"
        BY <1>0, <2>2, UpdateIsEvent
    <2>4. Add(e)
        BY <2>1 DEF Update
    <2>5. stream[id].id = id
        BY <1>0, <2>2 DEF History
    <2>6. Extends(e) /\ Remembered(e)
        <3> HIDE DEF e
        <3> QED
            BY <1>2, <2>2, <2>3, <2>5 DEF EditOwn, Extends, Remembered
    <2>7. UNCHANGED <<run, settings, received, waiting, name, channels, joining, shown>>
        BY <1>2 DEF EditOwn
    <2> QED
        BY <2>3, <2>4, <2>6, <2>7, AddKeepsIInv
<1> QED
    BY <1>1, <1>2

----------------------------------------------------------------------------
(***************************************************************************)
(* All other steps leave the stream alone.  Four of the parts of the       *)
(* invariant follow from what such a step may do to the other variables.   *)
(***************************************************************************)
LEMMA SameStream ==
    ASSUME IInv, UNCHANGED <<stream, lastMessageID>>
    PROVE  History' /\ LastIsNewest'
BY DEF IInv, Typed, History, LastIsNewest, Ours

LEMMA SameLive ==
    ASSUME IInv, UNCHANGED <<stream, echo, live>>
    PROVE  EchoOnlyWhenOvertaken'
BY DEF IInv, EchoOnlyWhenOvertaken

(***************************************************************************)
(* Who deals with no new message loses none.                               *)
(***************************************************************************)
LEMMA NothingNewDealtWith ==
    ASSUME IInv, UNCHANGED <<stream, echo>>, run' = "serve" => run = "serve",
           live \subseteq live', past \subseteq past', astray \subseteq astray',
           \A k \in 1..Len(stream) : DealtWith(k)' => DealtWith(k)
    PROVE  NoMessageLost'
BY DEF IInv, NoMessageLost, Newer, Messages, Visible

(***************************************************************************)
(* Who deals with message k must show it, or have a reason not to.         *)
(***************************************************************************)
LEMMA OneDealtWith ==
    ASSUME IInv, UNCHANGED <<stream, echo>>, run = "serve",
           live \subseteq live', past \subseteq past', astray \subseteq astray',
           NEW k,
           \A i \in 1..Len(stream) : DealtWith(i)' => DealtWith(i) \/ i = k,
           run' = "serve" /\ k \in 1..Len(stream) /\ stream[k].kind = "create" =>
               \/ k \in live' \cup past'
               \/ stream[k].by = "blocked"
               \/ stream[k].by = "here" /\ ~echo
               \/ Cardinality(Newer(k, Len(stream))) >= Limit
               \/ k \in astray'
    PROVE  NoMessageLost'
<1> SUFFICES ASSUME run' = "serve", NEW i \in 1..Len(stream), stream[i].kind = "create",
                    DealtWith(i)'
             PROVE  \/ i \in live' \cup past'
                    \/ stream[i].by = "blocked"
                    \/ stream[i].by = "here" /\ ~echo
                    \/ Cardinality(Newer(i, Len(stream))) >= Limit
                    \/ i \in astray'
    BY DEF NoMessageLost, Visible, Newer, Messages
<1>1. CASE i = k
    BY <1>1
<1>2. CASE DealtWith(i)
    BY <1>2 DEF IInv, NoMessageLost, Visible
<1> QED
    BY <1>1, <1>2

(***************************************************************************)
(* Renaming and delivering.                                                *)
(***************************************************************************)
LEMMA RenameKeepsIInv ==
    ASSUME IInv, NEW chat \in Chats, NEW new \in Names, Rename(chat, new)
    PROVE  IInv'
<1>1. TypeOK' /\ JoinDelivered'
    BY DEF IInv, Typed, Rename, TypeOK, JoinDelivered, settings, shown
<1>2. History' /\ LastIsNewest' /\ EchoOnlyWhenOvertaken'
    BY SameStream, SameLive DEF Rename, settings, shown
<1>3. NoMessageLost'
    BY NothingNewDealtWith DEF Rename, settings, shown, DealtWith
<1> QED
    BY <1>1, <1>2, <1>3 DEF IInv, Typed

LEMMA ReceiveKeepsIInv ==
    ASSUME IInv, Receive
    PROVE  IInv'
<1>0. TypeOK /\ JoinDelivered /\ received \in Nat /\ Len(stream) \in Nat
    BY DEF IInv, Typed, TypeOK
<1>1. TypeOK'
    BY <1>0 DEF Receive, TypeOK, settings, shown
<1>2. JoinDelivered'
    BY <1>0, FlowAssumption DEF Receive, JoinDelivered, TypeOK, Joins, Positions
<1>3. History' /\ LastIsNewest' /\ EchoOnlyWhenOvertaken'
    BY SameStream, SameLive DEF Receive, settings, shown
<1>4. \A k \in 1..Len(stream) : DealtWith(k)' => DealtWith(k)
    BY <1>0 DEF Receive, DealtWith
<1>5. NoMessageLost'
    BY <1>4, NothingNewDealtWith DEF Receive, settings, shown
<1> QED
    BY <1>1, <1>2, <1>3, <1>5 DEF IInv, Typed

----------------------------------------------------------------------------
(***************************************************************************)
(* The loop takes an event.                                                *)
(***************************************************************************)
LEMMA TakenDealsWithOne ==
    ASSUME IInv, NEW k, Taken(k)
    PROVE  /\ k \in 1..received /\ received \in 0..Len(stream) /\ Len(stream) \in Nat
           /\ stream[k] \in Events /\ stream[k].id \in 1..k
           /\ joining = None /\ run = "serve"
           /\ \A i \in 1..Len(stream) : DealtWith(i)' => DealtWith(i) \/ i = k
           /\ History' /\ LastIsNewest'
           /\ UNCHANGED <<isGuild, echo, stream, received, name, channels, lastMessageID, past, astray>>
           /\ waiting' \subseteq waiting
<1>1. TypeOK /\ History
    BY DEF IInv, Typed
<1>2. UNCHANGED <<isGuild, echo, stream, received, name, channels, lastMessageID, past, astray>>
    BY DEF Taken, settings
<1>3. k \in 1..received /\ received \in 0..Len(stream) /\ Len(stream) \in Nat
    BY <1>1 DEF TypeOK, Taken
<1>4. stream[k] \in Events /\ stream[k].id \in 1..k
    BY <1>1, <1>3 DEF TypeOK, History
<1>5. joining = None /\ run = "serve" /\ waiting' = waiting \ {k}
    BY DEF Taken, Idle
<1>6. \A i \in 1..Len(stream) : DealtWith(i)' => DealtWith(i) \/ i = k
    BY <1>2, <1>5 DEF DealtWith, None
<1>7. History' /\ LastIsNewest'
    BY <1>2, SameStream
<1> QED
    BY <1>2, <1>3, <1>4, <1>5, <1>6, <1>7

LEMMA DroppedKeepsIInv ==
    ASSUME IInv, NEW k \in Positions, Dropped(k)
    PROVE  IInv'
<1>0. Taken(k) /\ UNCHANGED <<run, joining, live>>
    BY DEF Dropped
<1>1. /\ k \in 1..received /\ received \in 0..Len(stream) /\ run = "serve"
      /\ stream[k].id \in 1..k
      /\ \A i \in 1..Len(stream) : DealtWith(i)' => DealtWith(i) \/ i = k
      /\ History' /\ LastIsNewest' /\ waiting' \subseteq waiting
      /\ UNCHANGED <<isGuild, echo, stream, received, name, channels, lastMessageID, past, astray>>
    BY <1>0, TakenDealsWithOne
<1>2. TypeOK' /\ JoinDelivered'
    BY <1>0, <1>1 DEF IInv, Typed, TypeOK, JoinDelivered
<1>3. EchoOnlyWhenOvertaken'
    BY <1>0, <1>1, SameLive
<1>4. stream[k].kind = "create" =>
        stream[k].by = "blocked" \/ (stream[k].by = "here" /\ ~echo)
    BY <1>1 DEF Dropped, Own, Visible, IInv, Typed, History, LastIsNewest, Ours
<1>5. NoMessageLost'
    BY <1>0, <1>1, <1>4, OneDealtWith
<1> QED
    BY <1>1, <1>2, <1>3, <1>5 DEF IInv, Typed

(***************************************************************************)
(* An event that is shown is not by the newest message of the peer, so a   *)
(* newer one exists if it is the peer's at all.                            *)
(***************************************************************************)
LEMMA ShownKeepsIInv ==
    ASSUME IInv, NEW k \in Positions, Shown(k)
    PROVE  IInv'
<1>0. Taken(k) /\ ~Own(k) /\ UNCHANGED <<run, joining>> /\ live' = live \cup {k}
    BY DEF Shown
<1>1. /\ k \in 1..received /\ received \in 0..Len(stream) /\ run = "serve"
      /\ Len(stream) \in Nat /\ stream[k].id \in 1..k
      /\ \A i \in 1..Len(stream) : DealtWith(i)' => DealtWith(i) \/ i = k
      /\ History' /\ LastIsNewest' /\ waiting' \subseteq waiting
      /\ UNCHANGED <<isGuild, echo, stream, received, name, channels, lastMessageID, past, astray>>
    BY <1>0, TakenDealsWithOne
<1>2. TypeOK' /\ JoinDelivered'
    BY <1>0, <1>1 DEF IInv, Typed, TypeOK, JoinDelivered
<1>3. EchoOnlyWhenOvertaken'
    <2> SUFFICES ASSUME ~echo, NEW i \in live \cup {k}, stream[i].by = "here"
                 PROVE  \E j \in 1..Len(stream) :
                            j > stream[i].id /\ stream[j].kind = "create" /\ stream[j].by = "here"
        BY <1>0, <1>1 DEF EchoOnlyWhenOvertaken
    <2>1. CASE i \in live
        BY <2>1 DEF IInv, EchoOnlyWhenOvertaken
    <2>2. CASE i = k
        <3> DEFINE m == stream[k].id
        <3>1. m \in 1..Len(stream) /\ Ours(m)
            BY <1>1, <2>2 DEF IInv, Typed, History, Ours
        <3>2. m <= lastMessageID /\ m # lastMessageID /\ lastMessageID \in 0..Len(stream)
            BY <1>0, <3>1 DEF IInv, Typed, TypeOK, LastIsNewest, Own
        <3>3. lastMessageID \in 1..Len(stream) /\ lastMessageID > m /\ Ours(lastMessageID)
            BY <1>1, <3>1, <3>2 DEF IInv, LastIsNewest
        <3> QED
            BY <2>2, <3>3 DEF Ours
    <2> QED
        BY <2>1, <2>2
<1>4. NoMessageLost'
    BY <1>0, <1>1, OneDealtWith
<1> QED
    BY <1>1, <1>2, <1>3, <1>4 DEF IInv, Typed

(***************************************************************************)
(* An event that causes a join is not dealt with yet.                      *)
(***************************************************************************)
LEMMA JoinFirstKeepsIInv ==
    ASSUME IInv, NEW k \in Positions, JoinFirst(k)
    PROVE  IInv'
<1>0. /\ Taken(k) /\ UNCHANGED <<run, live>>
      /\ joining' = [id |-> k, name |-> name[stream[k].chat]]
    BY DEF JoinFirst
<1>1. /\ k \in 1..received /\ received \in 0..Len(stream) /\ run = "serve"
      /\ Len(stream) \in Nat /\ stream[k] \in Events
      /\ \A i \in 1..Len(stream) : DealtWith(i)' => DealtWith(i) \/ i = k
      /\ History' /\ LastIsNewest' /\ waiting' \subseteq waiting
      /\ UNCHANGED <<isGuild, echo, stream, received, name, channels, lastMessageID, past, astray>>
    BY <1>0, TakenDealsWithOne
<1>2. joining' \in Joins
    BY <1>0, <1>1 DEF IInv, Typed, TypeOK, Joins, Events
<1>3. TypeOK' /\ JoinDelivered'
    BY <1>0, <1>1, <1>2 DEF IInv, Typed, TypeOK, JoinDelivered
<1>4. EchoOnlyWhenOvertaken'
    BY <1>0, <1>1, SameLive
<1>5. ~DealtWith(k)'
    BY <1>0 DEF DealtWith
<1>6. NoMessageLost'
    BY <1>0, <1>1, <1>5, NothingNewDealtWith
<1> QED
    BY <1>1, <1>3, <1>4, <1>6 DEF IInv, Typed

(***************************************************************************)
(* Once Run has returned there is nothing to lose.                         *)
(***************************************************************************)
LEMMA EndedLosesNothing ==
    ASSUME run' = "ended"
    PROVE  NoMessageLost'
BY DEF NoMessageLost

LEMMA EndingKeepsIInv ==
    ASSUME IInv, (\E k \in Positions : EventFails(k)) \/ Disconnect
    PROVE  IInv'
<1>1. /\ run' = "ended" /\ waiting' \subseteq waiting
      /\ UNCHANGED <<isGuild, echo, stream, received, name, channels, lastMessageID, joining,
                     live, past, astray>>
    BY DEF EventFails, Taken, Disconnect, Fail, settings, discord, shown
<1>2. TypeOK' /\ JoinDelivered'
    BY <1>1 DEF IInv, Typed, TypeOK, JoinDelivered
<1>3. History' /\ LastIsNewest' /\ EchoOnlyWhenOvertaken' /\ NoMessageLost'
    BY <1>1, SameStream, SameLive, EndedLosesNothing
<1> QED
    BY <1>2, <1>3 DEF IInv, Typed

----------------------------------------------------------------------------
(***************************************************************************)
(* The two joins.                                                          *)
(***************************************************************************)
LEMMA EnterTyped ==
    ASSUME IInv, NEW chat \in Chats, NEW as \in Names, Enter(chat, as), UNCHANGED stream
    PROVE  /\ run' \in {"serve", "ended"} /\ (run' = "serve" => run = "serve")
           /\ channels' \subseteq Names
           /\ past \subseteq past' /\ past' \subseteq 1..Len(stream)
<1>1. TypeOK
    BY DEF IInv, Typed
<1>2. \A n \in Views : Backlog(chat, n) \subseteq 1..Len(stream)
    BY <1>1 DEF TypeOK, Views, Backlog, Messages
<1> QED
    BY <1>1, <1>2 DEF Enter, Fail, TypeOK

LEMMA JoinKeepsIInv ==
    ASSUME IInv, NEW typed \in Names, NEW asKept \in BOOLEAN, Join(typed, asKept)
    PROVE  IInv'
<1>0. UNCHANGED <<isGuild, echo, stream, received, waiting, name, lastMessageID, joining, live, astray>>
    BY DEF Join, settings, discord
<1>1. PICK chat \in Chats : Enter(chat, typed)
    BY DEF Join
<1>2. /\ run' \in {"serve", "ended"} /\ (run' = "serve" => run = "serve")
      /\ channels' \subseteq Names
      /\ past \subseteq past' /\ past' \subseteq 1..Len(stream)
    BY <1>0, <1>1, EnterTyped
<1>3. TypeOK' /\ JoinDelivered'
    BY <1>0, <1>2 DEF IInv, Typed, TypeOK, JoinDelivered
<1>4. History' /\ LastIsNewest' /\ EchoOnlyWhenOvertaken'
    BY <1>0, SameStream, SameLive
<1>5. \A k \in 1..Len(stream) : DealtWith(k)' => DealtWith(k)
    BY <1>0 DEF DealtWith
<1>6. NoMessageLost'
    BY <1>0, <1>2, <1>5, NothingNewDealtWith
<1> QED
    BY <1>3, <1>4, <1>6 DEF IInv, Typed

(***************************************************************************)
(* The message that caused the join had been delivered when its backlog    *)
(* was asked for, so only newer messages of its chat can keep it out.      *)
(***************************************************************************)
LEMMA BacklogReaches ==
    ASSUME IInv, joining # None, NEW chat \in Chats, NEW n \in Views,
           NEW k, k = joining.id, k \in 1..Len(stream),
           stream[k].kind = "create", stream[k].chat = chat, k \notin Backlog(chat, n)
    PROVE  Cardinality(Newer(k, Len(stream))) >= Limit
<1>0. TypeOK /\ JoinDelivered
    BY DEF IInv, Typed
<1>1. n \in received..Len(stream) /\ received \in 0..Len(stream) /\ Len(stream) \in Nat
    BY <1>0 DEF Views, TypeOK
<1>2. k \in Messages(chat, n)
    BY <1>0, <1>1 DEF JoinDelivered, Messages
<1>3. Newer(k, n) \subseteq Newer(k, Len(stream)) /\ Newer(k, Len(stream)) \subseteq 1..Len(stream)
    BY <1>1 DEF Newer, Messages
<1>4. IsFiniteSet(1..Len(stream))
    BY <1>1, FS_Interval, 1 \in Int
<1>5. IsFiniteSet(Newer(k, n))
    BY <1>3, <1>4, FS_Subset
<1>6. Cardinality(Newer(k, n)) \in Nat /\ Limit \in Nat
    BY <1>5, FS_CardinalityType, FlowAssumption
<1>7. Cardinality(Newer(k, n)) >= Limit
    BY <1>2, <1>6 DEF Backlog
<1> QED
    BY <1>1, <1>3, <1>6, <1>7, MoreNewer

LEMMA AutoJoinKeepsIInv ==
    ASSUME IInv, AutoJoin
    PROVE  IInv'
<1> DEFINE k == joining.id
<1>0. /\ UNCHANGED <<isGuild, echo, stream, received, waiting, name, lastMessageID, live>>
      /\ joining' = None /\ joining # None /\ run = "serve"
    BY DEF AutoJoin, settings, discord
<1>1. TypeOK /\ JoinDelivered /\ joining \in Joins
    BY <1>0 DEF IInv, Typed, TypeOK
<1>2. k \in 1..received /\ received \in 0..Len(stream) /\ joining.name \in Names
    BY <1>0, <1>1, FlowAssumption DEF TypeOK, JoinDelivered, Joins, Positions
<1>3. History' /\ LastIsNewest' /\ EchoOnlyWhenOvertaken'
    BY <1>0, SameStream, SameLive
<1>4. JoinDelivered'
    BY <1>0 DEF JoinDelivered
<1>5. ASSUME NEW chat \in Chats, Enter(chat, joining.name),
             astray' = IF stream[joining.id].chat = chat THEN astray ELSE astray \cup {joining.id}
      PROVE  TypeOK' /\ NoMessageLost'
    <2>1. /\ run' \in {"serve", "ended"} /\ (run' = "serve" => run = "serve")
          /\ channels' \subseteq Names
          /\ past \subseteq past' /\ past' \subseteq 1..Len(stream)
        BY <1>0, <1>2, <1>5, EnterTyped
    <2>2. astray \subseteq astray' /\ astray' \subseteq 1..received
        BY <1>1, <1>2, <1>5 DEF TypeOK
    <2>3. TypeOK'
        BY <1>0, <1>1, <2>1, <2>2 DEF TypeOK
    <2>4. \A i \in 1..Len(stream) : DealtWith(i)' => DealtWith(i) \/ i = k
        BY <1>0 DEF DealtWith
    <2>5. ASSUME run' = "serve", k \in 1..Len(stream), stream[k].kind = "create"
          PROVE  \/ k \in live' \cup past'
                 \/ stream[k].by = "blocked"
                 \/ Cardinality(Newer(k, Len(stream))) >= Limit
                 \/ k \in astray'
        <3>1. CASE stream[k].chat # chat
            BY <1>5, <3>1
        <3>2. CASE stream[k].chat = chat
            <4>1. PICK n \in Views : past' = past \cup {i \in Backlog(chat, n) : Visible(i)}
                BY <1>5, <2>5 DEF Enter, Fail
            <4>2. CASE k \in Backlog(chat, n)
                BY <4>1, <4>2 DEF Visible
            <4>3. CASE k \notin Backlog(chat, n)
                BY <1>0, <2>5, <3>2, <4>3, BacklogReaches
            <4> QED
                BY <4>2, <4>3
        <3> QED
            BY <3>1, <3>2
    <2>6. NoMessageLost'
        BY <1>0, <2>1, <2>2, <2>4, <2>5, OneDealtWith
    <2> QED
        BY <2>3, <2>6
<1>6. ASSUME Fail, UNCHANGED <<channels, past, astray>>
      PROVE  TypeOK' /\ NoMessageLost'
    BY <1>0, <1>1, <1>6, EndedLosesNothing DEF TypeOK, Fail
<1>7. TypeOK' /\ NoMessageLost'
    BY <1>5, <1>6 DEF AutoJoin
<1> QED
    BY <1>3, <1>4, <1>7 DEF IInv, Typed

LEMMA StutterKeepsIInv ==
    ASSUME IInv, UNCHANGED vars
    PROVE  IInv'
<1>1. /\ UNCHANGED <<isGuild, echo, stream, received, waiting, name, lastMessageID, joining>>
      /\ UNCHANGED <<run, channels, live, past, astray>>
    BY DEF vars
<1>2. TypeOK' /\ JoinDelivered'
    BY <1>1 DEF IInv, Typed, TypeOK, JoinDelivered
<1>3. \A k \in 1..Len(stream) : DealtWith(k)' => DealtWith(k)
    BY <1>1 DEF DealtWith
<1>4. NoMessageLost'
    BY <1>1, <1>3, NothingNewDealtWith
<1> QED
    BY <1>1, <1>2, <1>4, SameStream, SameLive DEF IInv, Typed

----------------------------------------------------------------------------
LEMMA StepIInv == IInv /\ [Next]_vars => IInv'
<1> SUFFICES ASSUME IInv, [Next]_vars PROVE IInv'
    OBVIOUS
<1>1. CASE \/ \E chat \in Chats, by \in Others : Post(chat, by)
           \/ \E id \in Positions : Edit(id)
    BY <1>1, DiscordAdds
<1>2. CASE \E chat \in Chats, new \in Names : Rename(chat, new)
    BY <1>2, RenameKeepsIInv
<1>3. CASE Receive
    BY <1>3, ReceiveKeepsIInv
<1>4. CASE \E k \in Positions : Dropped(k) \/ Shown(k) \/ JoinFirst(k)
    BY <1>4, DroppedKeepsIInv, ShownKeepsIInv, JoinFirstKeepsIInv
<1>5. CASE (\E k \in Positions : EventFails(k)) \/ Disconnect
    BY <1>5, EndingKeepsIInv
<1>6. CASE AutoJoin
    BY <1>6, AutoJoinKeepsIInv
<1>7. CASE \E typed \in Names : Say(typed) \/ EditOwn(typed)
    BY <1>7, PeerAdds
<1>8. CASE \E typed \in Names, asKept \in BOOLEAN : Join(typed, asKept)
    BY <1>8, JoinKeepsIInv
<1>9. CASE UNCHANGED vars
    BY <1>9, StutterKeepsIInv
<1> QED
    BY <1>1, <1>2, <1>3, <1>4, <1>5, <1>6, <1>7, <1>8, <1>9 DEF Next, Over

LEMMA AlwaysIInv == Spec => []IInv
<1> QED
    BY InitIInv, StepIInv, PTL DEF Spec

(***************************************************************************)
(* The types of the messages, events and joins.                            *)
(***************************************************************************)
THEOREM TypeCorrect == Spec => []TypeOK
<1>1. IInv => TypeOK
    BY DEF IInv, Typed
<1> QED
    BY <1>1, AlwaysIInv, PTL

(***************************************************************************)
(* A message that makes the client join its chat, or that the loop shows,  *)
(* is not lost, however its event is delayed and whatever else is written, *)
(* but in the cases NoMessageLost lists (discord.go:53-59, irc.go:171-180).*)
(***************************************************************************)
THEOREM MessagesNotLost == Spec => []NoMessageLost
<1>1. IInv => NoMessageLost
    BY DEF IInv
<1> QED
    BY <1>1, AlwaysIInv, PTL

(***************************************************************************)
(* Without echo-message only a message that another one of the peer has    *)
(* overtaken is ever echoed (discord.go:142, irc.go:216).                  *)
(***************************************************************************)
THEOREM EchoedOnlyWhenOvertaken == Spec => []EchoOnlyWhenOvertaken
<1>1. IInv => EchoOnlyWhenOvertaken
    BY DEF IInv
<1> QED
    BY <1>1, AlwaysIInv, PTL
=============================================================================
