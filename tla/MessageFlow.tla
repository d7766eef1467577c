----------------------------- MODULE MessageFlow ----------------------------
(***************************************************************************)
(* The second loop of Client.Run: messages from Discord on their way to    *)
(* one registered IRC client, and the JOIN and PRIVMSG of its peer         *)
(* (internal/client: HandleJoin, HandleMessage, handleRegexEdit,           *)
(* handleDiscordMessage, sendDiscordMessage).                              *)
(*                                                                         *)
(* The gateway delivers events in order, but every event gets a goroutine  *)
(* that waits to hand it to the loop, so the loop takes them in any order, *)
(* in between the lines of the peer.  The client is in a guild, where chats*)
(* are the text channels, or outside, where chats are direct messages and  *)
(* have the name of the user at the other end.                             *)
(***************************************************************************)
EXTENDS Integers, Sequences, FiniteSets

CONSTANTS
    Chats,      \* text channels of the guild, or users one can write to
    Names,      \* IRC names of chats
    FirstName,  \* the name a chat has at first
    Limit,      \* external: how many messages Discord hands out as a backlog
    MaxEvents   \* bound: how many messages and edits there are

ASSUME FlowAssumption ==
    /\ FirstName \in [Chats -> Names]
    /\ \A a, b \in Chats : a # b => FirstName[a] # FirstName[b]
    /\ Limit \in Nat \ {0}
    /\ MaxEvents \in Nat

VARIABLES
    run,            \* "serve" in the loop, "ended" when Run has returned
    isGuild,        \* the client logged in to a guild
    echo,           \* the peer asked for the capability echo-message
    stream,         \* the events at Discord, oldest first
    received,       \* how many of them the gateway has delivered
    waiting,        \* events whose goroutine waits for the loop
    name,           \* the IRC name of a chat
    channels,       \* ilayer.Client.channels: names joined
    lastMessageID,  \* Client.lastMessageID, 0 for none
    joining,        \* the join that an event causes, before HandleJoin
    live,           \* history: events shown when they were handled
    past,           \* history: messages shown as part of a backlog
    astray          \* history: messages whose join led to another chat

vars == <<run, isGuild, echo, stream, received, waiting, name, channels,
          lastMessageID, joining, live, past, astray>>

(***************************************************************************)
(* An event creates a message or updates one.  A message has the position  *)
(* of its first event as its id.  It is written by somebody else, by       *)
(* somebody the user has blocked, by the user in another program, or here, *)
(* by a PRIVMSG of the peer.                                               *)
(***************************************************************************)
Positions == 1..MaxEvents
Others == {"friend", "blocked", "elsewhere"}
Events == [id : Positions, chat : Chats, by : Others \cup {"here"}, kind : {"create", "update"}]

None == [id |-> 0]
Joins == [id : Positions, name : Names]

TypeOK ==
    /\ run \in {"serve", "ended"}
    /\ isGuild \in BOOLEAN /\ echo \in BOOLEAN
    /\ stream \in Seq(Events) /\ Len(stream) <= MaxEvents
    /\ received \in 0..Len(stream)
    /\ waiting \subseteq 1..received
    /\ name \in [Chats -> Names]
    /\ channels \subseteq Names
    /\ lastMessageID \in 0..Len(stream)
    /\ joining \in {None} \cup Joins
    /\ live \subseteq 1..received
    /\ past \subseteq 1..Len(stream)
    /\ astray \subseteq 1..received

Init ==
    /\ run = "serve"
    /\ isGuild \in BOOLEAN
    /\ echo \in BOOLEAN
    /\ stream = <<>>
    /\ received = 0
    /\ waiting = {}
    /\ name = FirstName
    /\ channels = {}
    /\ lastMessageID = 0
    /\ joining = None
    /\ live = {}
    /\ past = {}
    /\ astray = {}

----------------------------------------------------------------------------
Idle == run = "serve" /\ joining = None
Fail == run' = "ended"

settings == <<isGuild, echo>>
discord == <<stream, received, waiting, name>>
shown == <<live, past, astray>>

Add(event) ==
    /\ Len(stream) < MaxEvents
    /\ stream' = Append(stream, event)

Create(chat, by) ==
    Add([id |-> Len(stream) + 1, chat |-> chat, by |-> by, kind |-> "create"])

Update(id) == Add([stream[id] EXCEPT !.kind = "update"])

(***************************************************************************)
(* The messages of a chat among the first n events, and the newest of them *)
(* that a request for the messages of the chat returns.  The answer comes  *)
(* from the cache, which knows what the gateway has delivered, or from     *)
(* Discord, which may know more.                                           *)
(***************************************************************************)
Messages(chat, n) == {i \in 1..n : stream[i].kind = "create" /\ stream[i].chat = chat}

Newer(i, n) == {j \in Messages(stream[i].chat, n) : j > i}

Backlog(chat, n) == {i \in Messages(chat, n) : Cardinality(Newer(i, n)) < Limit}

Views == received..Len(stream)

(***************************************************************************)
(* The chat that a name leads to (UserFromName, ChannelFromName).          *)
(***************************************************************************)
Leads(typed, chat) == name[chat] = typed
Known(typed) == \E chat \in Chats : Leads(typed, chat)

----------------------------------------------------------------------------
(***************************************************************************)
(* What happens at Discord: messages are written and edited (by their      *)
(* authors, or by Discord, which adds previews of links), users change     *)
(* their names, and the gateway delivers one event after the other.  The   *)
(* names of channels never change here: their events are ignored.          *)
(***************************************************************************)
Post(chat, by) ==
    /\ Create(chat, by)
    /\ UNCHANGED <<run, settings, received, waiting, name, channels, lastMessageID, joining, shown>>

Edit(id) ==
    /\ id \in 1..Len(stream) /\ stream[id].kind = "create"
    /\ Update(id)
    /\ UNCHANGED <<run, settings, received, waiting, name, channels, lastMessageID, joining, shown>>

Rename(chat, new) ==
    /\ ~isGuild
    /\ ~Known(new)
    /\ name' = [name EXCEPT ![chat] = new]
    /\ UNCHANGED <<run, settings, stream, received, waiting, channels, lastMessageID, joining, shown>>

Receive ==
    /\ received < Len(stream)
    /\ received' = received + 1
    /\ waiting' = waiting \cup {received + 1}
    /\ UNCHANGED <<run, settings, stream, name, channels, lastMessageID, joining, shown>>

----------------------------------------------------------------------------
(***************************************************************************)
(* sendDiscordMessage shows nothing by users that are blocked.             *)
(***************************************************************************)
Visible(i) == stream[i].by # "blocked"

(***************************************************************************)
(* HandleJoin once it has found the chat: the join is confirmed under the  *)
(* name that was asked for, and the backlog follows.                       *)
(***************************************************************************)
Enter(chat, as) ==
    /\ channels' = channels \cup {as}
    /\ \/ \E n \in Views : past' = past \cup {i \in Backlog(chat, n) : Visible(i)}
          /\ UNCHANGED run
       \/ Fail /\ UNCHANGED past

(***************************************************************************)
(* handleDiscordMessage drops the message sent last, unless the peer wants *)
(* its own messages echoed.                                                *)
(***************************************************************************)
OwnAsNewer(k) == stream[k].id <= lastMessageID /\ ~echo

Own(k) == stream[k].id = lastMessageID /\ ~echo

Taken(k) ==
    /\ Idle
    /\ k \in waiting
    /\ waiting' = waiting \ {k}
    /\ UNCHANGED <<settings, stream, received, name, channels, lastMessageID, past, astray>>

Dropped(k) ==
    /\ Taken(k)
    /\ Own(k) \/ ~Visible(k)
    /\ UNCHANGED <<run, joining, live>>

(***************************************************************************)
(* A message in a guild is sent to the peer whether it joined the channel  *)
(* or not.  One outside of a guild makes the client join its chat first,   *)
(* and is then left to the backlog.                                        *)
(***************************************************************************)
Shown(k) ==
    /\ Taken(k)
    /\ ~Own(k) /\ Visible(k)
    /\ isGuild \/ name[stream[k].chat] \in channels
    /\ live' = live \cup {k}
    /\ UNCHANGED <<run, joining>>

JoinFirst(k) ==
    /\ Taken(k)
    /\ ~Own(k) /\ Visible(k)
    /\ ~isGuild /\ name[stream[k].chat] \notin channels
    /\ joining' = [id |-> k, name |-> name[stream[k].chat]]
    /\ UNCHANGED <<run, live>>

EventFails(k) ==
    /\ Taken(k)
    /\ Fail
    /\ UNCHANGED <<joining, live>>

(***************************************************************************)
(* The join an event causes looks the name up that the event just got from *)
(* the map; the user may have changed it in between.                       *)
(***************************************************************************)
AutoJoin ==
    /\ run = "serve"
    /\ joining # None
    /\ \/ \E chat \in Chats :
            /\ Leads(joining.name, chat)
            /\ Enter(chat, joining.name)
            /\ astray' = IF stream[joining.id].chat = chat THEN astray
                                                           ELSE astray \cup {joining.id}
       \/ /\ ~Known(joining.name)
          /\ Fail
          /\ UNCHANGED <<channels, past, astray>>
    /\ joining' = None
    /\ UNCHANGED <<settings, discord, lastMessageID, live>>

----------------------------------------------------------------------------
(***************************************************************************)
(* JOIN.  In a guild the # in front of a channel may be left out; but the  *)
(* channels the client is in are kept with it, so that a name typed        *)
(* without it is never found there.  Every error ends the connection.  A   *)
(* JOIN of several channels is one of each, in turn.                       *)
(***************************************************************************)
Join(typed, asKept) ==
    /\ Idle
    /\ IF asKept THEN typed \notin channels ELSE isGuild
    /\ \E chat \in Chats : Leads(typed, chat) /\ Enter(chat, typed)
    /\ UNCHANGED <<settings, discord, lastMessageID, joining, live, astray>>

(***************************************************************************)
(* PRIVMSG.  The request to Discord has been answered, and the id of the   *)
(* new message is known, before the loop takes another event.              *)
(***************************************************************************)
RememberNothing(id) == UNCHANGED lastMessageID
RememberNext(id) == lastMessageID' = id + 1

Remember(id) == lastMessageID' = id

Say(typed) ==
    /\ Idle
    /\ \E chat \in Chats : Leads(typed, chat) /\ Create(chat, "here")
    /\ Remember(Len(stream) + 1)
    /\ UNCHANGED <<run, settings, received, waiting, name, channels, joining, shown>>

(***************************************************************************)
(* PRIVMSG with s/…/…/ edits the newest message of the user in the         *)
(* backlog.  Only channels of a guild are found.                           *)
(***************************************************************************)
EditOwn(typed) ==
    /\ Idle
    /\ isGuild
    /\ \E chat \in Chats, n \in Views :
        LET mine == {i \in Backlog(chat, n) : stream[i].by \in {"here", "elsewhere"}} IN
        /\ Leads(typed, chat)
        /\ \E id \in mine : (\A i \in mine : i <= id) /\ Update(id)
    /\ UNCHANGED <<run, settings, received, waiting, name, channels, lastMessageID, joining, shown>>

(***************************************************************************)
(* Any command may fail, for a name that is not known, a channel the       *)
(* client is in already, or an error of Discord; or the peer leaves.       *)
(***************************************************************************)
Disconnect ==
    /\ Idle
    /\ Fail
    /\ UNCHANGED <<settings, discord, channels, lastMessageID, joining, shown>>

Over == run = "ended" /\ UNCHANGED vars

Next ==
    \/ /\ run = "serve"
       /\ \/ \E chat \in Chats, by \in Others : Post(chat, by)
          \/ \E id \in Positions : Edit(id)
          \/ \E chat \in Chats, new \in Names : Rename(chat, new)
          \/ Receive
    \/ \E k \in Positions : Dropped(k) \/ Shown(k) \/ JoinFirst(k) \/ EventFails(k)
    \/ AutoJoin
    \/ \E typed \in Names :
        Say(typed) \/ EditOwn(typed) \/ \E asKept \in BOOLEAN : Join(typed, asKept)
    \/ Disconnect
    \/ Over

Spec == Init /\ [][Next]_vars

----------------------------------------------------------------------------
(***************************************************************************)
(* No message is lost: one that the loop has dealt with was shown, by      *)
(* itself or in the backlog of the join it caused, although that request   *)
(* knows nothing of the message.  The exceptions: messages by blocked      *)
(* users; the peer's own without echo-message; those with so many newer    *)
(* ones in their chat that the backlog does not reach back to them; and    *)
(* those whose user changed names with another one during the join         *)
(* (discord.go:53-59, irc.go:171-180).                                     *)
(***************************************************************************)
DealtWith(k) == k <= received /\ k \notin waiting /\ joining.id # k

NoMessageLost ==
    run = "serve" => \A k \in 1..Len(stream) :
        stream[k].kind = "create" /\ DealtWith(k) =>
            \/ k \in live \cup past
            \/ ~Visible(k)
            \/ stream[k].by = "here" /\ ~echo
            \/ Cardinality(Newer(k, Len(stream))) >= Limit
            \/ k \in astray

(***************************************************************************)
(* Without echo-message, a message of the peer or an edit of it comes back *)
(* to the peer only if the peer has sent another message after it: however *)
(* late its event, and however many events there are before it, one        *)
(* message at a time is never echoed (discord.go:142, irc.go:216).         *)
(***************************************************************************)
EchoOnlyWhenOvertaken ==
    ~echo => \A k \in live : stream[k].by = "here" =>
        \E j \in 1..Len(stream) : j > stream[k].id /\ stream[j].kind = "create" /\ stream[j].by = "here"
=============================================================================
