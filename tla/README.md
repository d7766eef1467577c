# A formal model of ircdiscord

ircdiscord is an IRC server whose clients see Discord guilds as IRC networks.
An IRC connection logs in with a Discord token in its `PASS`; connections of
the same Discord user share one gateway connection.  This directory holds TLA+
modules for the parts of the program in which goroutines, locks and orders of
commands matter, TLC configurations that check them on small instances, and
proofs of what they promise for instances of any size.

Contents: [1 the system](#1-the-system), [2 the modules](#2-the-modules),
[3 the runs](#3-the-runs), [4 the proofs](#4-the-proofs),
[5 what was found](#5-what-was-found), [6 limits](#6-limits),
[7 plan](#7-plan).

## 1. The system

    main ── server.Server ──┬── client.Client ── ilayer.Client ── IRC peer
              registry      │      one per connection
                            └── session.Session ── Discord (arikawa, ningen)
                                   one per Discord user
                                      ├── idmap.IDMap: guilds, users
                                      └── idmap.IDMap per guild: channels, nicks

| component | state | operations | interacts with |
|---|---|---|---|
| `server.Server` | `mu`, `sessions` (by user), `ids` (token to user), `clients` | `Run`, `runClient`, `session`, `removeSession`, `removeClientLock`, `Close` | starts a goroutine per client; is called back by a session that closes |
| `session.Session` | `refs` (atomic), the gateway state, `internalHandlers` | `New`, `Ref`, `Unref`, `Close` | `Close` calls the `removeFunc` of its server |
| session names | `guildMap`, `userMap`, `channelMaps`, `nickMaps` | `safeGetMap`, `UserName`, `ChannelName`, `SubscribeUserList`, `harvest…` | Discord events and every client of the session call in, each from its own goroutine |
| `idmap.IDMap` | `forward` (id to name), `backward` (name to id), an RW mutex | `Insert`, `DeleteSnowflake`, `Snowflake`, `Name`, `Access` | called by the session |
| `ilayer.Client` | nickname, username, realname, `isCapBlocked`, `isRegistered`, capabilities, channels | one handler per IRC command, `maybeCompleteRegistration`, `Join`, `Message` | calls the `Server` interface, which `client.Client` implements |
| `client.Client` | `session`, `guild`, `lastMessageID`, `lastMessageAuthor…` | `Run`, `HandlePassword`, `HandleRegister`, `HandleNickname`, `HandleJoin`, `HandleMessage`, … | the goroutine that reads lines, and the events of the session |
| `names.Map` | one mutex; tables of users, nicks and channels, forward and backward | `UpdateUser`, `UpdateNick`, `UpdateChannel`, six look-ups | only its own test uses it |
| `main` | flags, sockets | starts the server, waits for a signal or an error | its deferred `Server.Close` walks through the clients |
| `replies`, `render`, `color` | none | formatting | |

What is hard, component by component, and what makes it correct:

* **idmap** keeps two maps in step with two critical sections per call: it
  reads under the read lock and writes under the write lock.  In between
  another goroutine may have changed what was read.  The maps must stay inverse
  to each other, two ids must never share a name, the assertions must not
  panic, and the loop that looks for a free name, which has no bound, must end.
* **server and session** decide the life of a shared object with a mutex that
  is given up half way through removing a client, a reference count that this
  mutex does not guard, and a callback from the object into the registry.  A
  client must never work with a closed session, a closed session must never be
  handed out, no gateway connection may be lost, and every login must be
  answered.
* **ilayer and client** register a connection by commands that come in any
  order, repeatedly, before and after the registration, while `PASS` replaces
  the session below.  Each command must notice when it is the last one; the
  registration must happen once; nothing may run without a session.
* **server and clients** share a slice of clients that `Server.Close` ranges over
  while it gives the mutex up around every `Client.Close`.  Clients come, leave
  and log in meanwhile, the removal swaps elements, and `append` may move the
  slice to another array.  The list must stay exact, nobody may be closed twice,
  references must be given back once, and everyone must come to an end.
* **names.Map** has one lock for everything, and its difficulty is the code
  itself: three copies of one function over different tables, which must keep
  every table inverse to its twin.
* **session names** create maps on first use under check-then-create, update
  the nick map and `userMap` separately, and send events after the lock is
  gone.
* **messages** meet two orders that are not the same: lines from the peer and
  events from Discord.  A message must not be shown twice or lost while a
  channel is joined, and one's own message must not be echoed.

`PROJECT.json` lists each of these hazards at its line, with the properties
that cover it.

## 2. The modules

| module | models | for |
|---|---|---|
| `IrcNames` | `mangle`, `demangle` and the candidates of `getNewNameHeldRLock` | `idmap.go` |
| `NameTable` | what a name map promises, without locks | `idmap.go` |
| `IDMap` | `Insert` and `DeleteSnowflake` by any number of goroutines | `idmap.go` |
| `IDMapProofs` | theorems about `IDMap` | |
| `SharedSessions` | what the server does with shared sessions, without mutex, tables and counts | `server.go`, `session.go` |
| `SessionRegistry` | registry, reference count, life of clients and sessions | `server.go`, `session.go`, `client.go`, `irc.go` |
| `Registration` | one IRC connection, from its first line to the end of `Run` | `commands.go`, `capabilities.go`, `irc.go`, `client.go` |
| `SessionRegistryProofs` | theorems about the reference count and the connections in `SessionRegistry` | |
| `SharedSessionsProofs` | theorems about its mutex, what closing removes, and the refinement of `SharedSessions` | |
| `RegistrationProofs` | theorems about `Registration` | |
| `SessionNames` | the nick map of a guild: its creation, its writers, its subscribers | `session.go`, `harvest.go`, `irc.go` |
| `MessageFlow` | messages and events on their way to one client, joins and backlogs | `irc.go`, `discord.go`, `client.go` |
| `ClientSet` | what the server keeps of its clients, as a set | `server.go` |
| `ClientList` | the list of clients, what ends a connection, and `Server.Close` with its walk | `server.go`, `client.go`, `irc.go`, `main.go` |
| `NamesMap` | the update functions of `names.Map` | `names/map.go` |
| `SessionNamesProofs`, `MessageFlowProofs`, `ClientListProofs`, `NamesMapProofs` | theorems about these four | |
| `MCIDMap`, `MCSessionRegistry`, `MCRegistration`, `MCSessionNames`, `MCMessageFlow`, `MCClientList`, `MCNamesMap` | values for TLC | |

### Names: `IrcNames`

An IRC name is a base, the text before the first `#`, and a tag, the digits
after it.  A name is modelled as the pair `<<base, tag>>`.  `Tag(id, n)` is the
tag after `n` rounds of `mangle`: the first `n` digits of the id, padded with
`#` when the id has fewer.  `Candidate(base, id, k)` is the name the loop tries
in round `k`.  The texts are constants: `Ideals` are what callers ask for,
`Sanitize` is the function of that name, `Digits` are the decimal digits of an
id.  The empty base in round 0 is the empty string, which is no name.

### The map: `IDMap` and `NameTable`

`forward` and `backward` are the two Go maps, with `EmptyName` and
`NoSnowflake` for a missing key.  `op[t]` is the call goroutine `t` is in, with
what it read under the read lock.  A call is two actions, one per critical
section: `InsertRead`, `InsertWrite`, `DeleteRead`, `DeleteWrite`; between the
two every other goroutine may act.  A call that returns after its read section
changes nothing and is not an action.  `panicked` is the process after one of
the assertions fired: `Insert` panics when the old name it read is gone,
`DeleteSnowflake` when only one of the maps knows the pair.  `Name`, `Snowflake`
and `Access` only read.

`NameTable` is the abstract table: one variable, `Bind` and `Unbind`.  `Bind`
says more than that names differ: who asks for a free name gets exactly it.

`overlapped` is a history variable: an `Insert` and another call on its id have
been between their sections at the same time.  Nothing in the code prevents that,
and after it the map is not what it promises to be: two ids may have one name,
and `Insert` may panic.  So `Bijective`, `MangleLoopEnds`, `ImplementsNameTable`
and `PanicsOnlyOverlapped` speak of the time before.  They cover calls on different
ids in every order, and any deletions of one id.  `NoNameStolen` holds after an
overlap too; `NewNameResolves` then only for ideals that `sanitize` leaves as they
are.  In `NameTable` the same fact is `misused`, after which its next step is free.

`Spec` is every interleaving.  `InsertSpec` is what the rest of the program does:
every interleaving of `Insert`, no `DeleteSnowflake`.

### The registry: `SessionRegistry`

`mu` is the holder of the server's mutex across steps (only a login that
creates a session holds it longer than one step); `pc[c]` is the place of the
goroutine of client `c`.  Every place where a goroutine waits for the mutex,
gives it up, or waits for Discord is a step of its own; `Unref` is one step
(an atomic addition) and `Close` two (`RemoveSession`, under the mutex, then
`CloseState`).

| action | code |
|---|---|
| `Accept`, `AddClient` | `Server.Run`, `runClient` |
| `HandlePassword` | `HandlePassword` up to the call of `Server.session` |
| `SessionFound`, `SessionMissing` | `Server.session`, first look-up |
| `SessionCreated`, `SessionDuplicate`, `SessionFailed`, `SessionFailedOpen` | `session.New` with its error paths, and the rest of `Server.session` |
| `RemoveSession`, `CloseState` | `Session.Close` |
| `Disconnect`, `RemoveClient`, `UnrefOnClose`, `Relock` | the end of `Run`, `removeClientLock`, `Client.Close` |

The step `stuck` is a goroutine that waits for a mutex it holds itself: Go's
mutexes are not reentrant, and no action leads on from it.  `panicked` is the
process after `removeSession` did not find the session it removes.  `rejoined` is
a history variable: the sessions a login was given when a goroutine had decided
to close them already (`Closing`).

`SharedSessions` is the same server as its clients and Discord see it: who uses
which session (`using`), which one is handed out for a user (`shared`), who has
undertaken to close one (`closer`), and the connections (`conn`).  It has no
mutex, no table of tokens and no reference count: a client closes the session it
leaves exactly if one other client is left, which is what the count that is one
short comes to.  `SessionRegistry` maps its registry, the session a client holds
and the places of the goroutines to these four.

| `SharedSessions` | `SessionRegistry` |
|---|---|
| `Join` | `SessionFound` |
| `Open` | `SessionCreated` |
| `Stray` | `SessionDuplicate`, `SessionFailedOpen` |
| `Leave` | `HandlePassword` with a session, `UnrefOnClose` |
| `Withdraw`, `Close` | `RemoveSession`, `CloseState` |
| no step | all else |

### A connection: `Registration`

The peer may send any command at any time.  Each handler runs to its end before
the next line is read, so each is one action; what the server behind it answers
is chosen freely.  `run` tells the two loops of `Client.Run` apart, and the end
of the process by a call on the nil session.  The strings are abstracted to
whether they are empty, which is all `maybeCompleteRegistration` asks.

### The names of a guild: `SessionNames`

`nickMap` is the entry of one guild in `Session.nickMaps`; maps are numbered in
the order of their creation, since one that is replaced is still used by the
goroutines that got it before.  Workers are the goroutines of Discord events
and of messages on their way to a peer; subscribers are clients that hold a
subscription of `SubscribeUserList`.  `pc[g]` is the place of a goroutine
between two locks.

| action | code |
|---|---|
| `Lookup`, `Create`, `Reread` | `safeGetMap`: under the read lock, under the write lock without a second look, and without a lock |
| `Harvest`, `UserName`, `Peek` | `harvestNick`, `UserName`: what a goroutine wants of the map |
| `Read`, `Write` | `Insert`, its two critical sections; `Write` waits for subscribers inside `Access` |
| `Event` | the call of the handlers after the write |
| `Subscribe`, `TellInitial`, `AddHandler`, `Cancel` | `SubscribeUserList` and the function it returns |
| `Deliver` | a goroutine of a handler reaching the subscriber |

`told[s]` is what subscriber `s` has heard since it subscribed, and `calls` what
is on its way.  The naming loop of `Insert` and its `backward` map are the
matter of `IDMap` and left out: a nick here is the name the loop has found.
`crashed` is the process after the Go runtime has noticed an unlocked read of a
map while another goroutine writes it, or after the panic of an `Insert` whose old
name an overlapping call for the same user has deleted (`Stale`; the call may also
get away with it, which depends on the order of the two).

### Messages: `MessageFlow`

One client in the second loop of `Run`.  `stream` is everything that happens at
Discord, in order; `received` is how much of it the gateway has delivered, and
`waiting` the delivered events whose goroutine has not handed them to the loop
yet.  The loop takes any of these, or a line of the peer.

| action | code |
|---|---|
| `Post`, `Edit`, `Rename`, `Receive` | Discord and the gateway |
| `Dropped`, `Shown`, `JoinFirst`, `EventFails` | `handleDiscordMessage`, `sendDiscordMessage` for one event |
| `AutoJoin` | the join that an event outside of a guild causes; between its two steps a user may change names |
| `Join` | `JOIN`: `HandleJoin` with its backlog |
| `Say`, `EditOwn` | `PRIVMSG`: `HandleMessage`, `handleRegexEdit` |
| `Disconnect` | every error of a handler, and a peer that leaves |

`live`, `past` and `astray` are history variables: what was shown when its event
came, what was shown as part of a backlog, and which messages caused the join of
a chat other than their own.  A request for a backlog sees the stream up to
some point between what the gateway has delivered and its end, since the answer
comes from the cache or from Discord.

### The list of clients: `ClientList`

Three kinds of goroutines: `main`, one per connection that runs `runClient` with
`Client.Run` in it, and one per connection that reads lines.  `array` and `len`
are the slice: the array behind it with its whole capacity, and its length.
`walk` is the range loop of `Server.Close`.  Go evaluates the slice of a range
loop once, so the loop goes on with the array it began with (`walk.old`) when
`append` has moved the list to a larger one, and sees every swap as long as it
has not.

`Server.mu` needs no variable, since its holder can be told from `pc`.  Two
goroutines keep it from one step to the next: `main` while it is `walking`, and a
client for which `Server.session` connects to Discord (`creating`).  If the new
session turns out to belong to a user who has one by another token, the login
never gives the mutex back (`stuck`, item 3 of section 5).  Every other critical
section is one step, and needs the mutex to be `Free`.  Clients are numbered in the
order in which `runClient` appends them, which is no loss, since nothing else tells
them apart before.

| action | code |
|---|---|
| `Accept` | `Server.Run` and `runClient` up to the call of `Client.Run` |
| `ReadLine`, `ReadFails` | `ircReadLoop`: a line, the end of the input, the error of a closed connection; then it waits at the channel |
| `Line` | a line that `Run` receives, with what its handler does |
| `Password` | `HandlePassword`, up to the call of `Server.session`: the old session is given back |
| `SessionFound`, `SessionMissing` | `Server.session` with the mutex: the session of the token is handed out, or one has to be created |
| `SessionCreated`, `SessionFailed`, `SessionDuplicate` | the answer of Discord: a session, an error, or a user who has a session already |
| `ReaderError`, `EventFails` | the other ways out of `Run` |
| `RemoveClient` | `removeClient` and `removeClientLock` up to the call of `Client.Close` |
| `CheckSession`, `UnrefSession` | `Client.Close`, by the goroutine of the client or by `main`; the session is read twice |
| `Signal`, `BeginWalk`, `Visit`, `Relock`, `Exit` | `main` and `Server.Close` |

`ClientSet` is the list as a set.  Its `EndClosing` says how many clients closing
may miss: there is a map from the missed clients to closed ones of the same list
that takes no two to the same.  `Visit`, `Relock` and everything that happens
within a connection are no steps of it, but for `RemoveClient` and the removals
of the loop, which are its `Close`.

The goroutine of a client takes the mutex back after `Client.Close` only to give
it up and return; this is part of the step before.  `owed` counts the sessions
the client was handed, found or created, less the calls of `Unref` for it.  It is
not the reference count: a created session has none for its creator
(`session.go:59`), which is what `RefsOneShort` of `SessionRegistry` is about.  What
an `Unref` does that takes the count to zero (wait for the mutex, close the
connection, panic) is the matter of that module as well.

### The other map: `NamesMap`

A method of `names.Map` holds one mutex from its beginning to its end and is one
action.  `f` and `b` are the forward and backward maps by table.  `UpdateUser`,
`UpdateNick` and `UpdateChannel` are the same code over different tables, but
for one line: where `UpdateUser` deletes the old name from its own backward
map, `userb`, the copies for nicks and channels do so as well (`DeletedFrom`).
`Round` is the name after `k` rounds of its `mangle`, which is the one of
`idmap`, except that nothing sanitizes the text before: an ideal may itself have
a tag, and the empty string, which removes an entry, is a name like any other.
`erased` is a history variable: the names of users that a change in another
table took away.

## 3. The runs

| run | checks | shows |
|---|---|---|
| `idmap` | `TypeOK`, `Bijective`, `PanicsOnlyOverlapped`, `MangleLoopEnds`, `ImplementsNameTable`, `NoNameStolen`, `NewNameResolves` | two goroutines call in any order, with ids that share digits, an id with one digit, the empty ideal and an ideal with a `#`: until an `Insert` overlaps with a call on its id the maps stay inverse, nothing panics, the loop ends and the map implements the abstract table; no name is ever taken from another id |
| `idmap_overlap` | `NamesDistinct` (violated) | two overlapping calls of `Insert` for one id give two ids one name |
| `registry_safety` | `TypeOK`, `RefsOneShort`, `NoOtherLeak`, `LockHolder`, `PanicsOnlyRejoined`, `HandedOutOpen`, `ImplementsSharedSessions` | three clients, two tokens of one user: the count is always exactly one short, no closed session is handed out, nothing is lost but what failed logins leave open, the mutex is kept only for Discord or behind a second token, a session is removed twice (a panic, which happens here) only if a login took it while it was being closed, and the whole implements `SharedSessions` |
| `registry_live` | `LoginAnswered`, `DisconnectFinishes` | with one token per user every login and every disconnect comes to its end |
| `registry_two_tokens` | `LoginAnswered` (violated) | with a second token of the same user the server locks up |
| `registry_use_after_close` | `NoUseAfterClose` (violated) | the client that leaves first closes the session under the other |
| `registration` | `TypeOK`, `NotForgotten`, `ServesSession`, `WelcomedOnce` | every order of commands completes the registration when it should, once, and with a session |
| `registration_order` | `CalledAfterRegistration` (violated) | commands reach the session before there is one |
| `names` | `TypeOK`, `NoNameMissed`, `InitialAlone`, `NamesArrive` | a subscriber misses no nick that is set before, during or after its subscription, and hears the first list from one goroutine only |
| `messages` | `TypeOK`, `NoMessageLost`, `EchoOnlyWhenOvertaken` | a message outside of a guild is not lost in the join it causes, and one message of the peer at a time is never echoed, in any order of events |
| `client_list` | `TypeOK`, `ClosedOnce`, `ListExact`, `HalfClosed`, `RefsBalanced`, `ImplementsClientSet`, `LeavesCleanly`, `CloseReturns` | four connections come, log in and leave while `main` walks through the list: the list stays exact, nobody is closed twice, at most every second client is missed, every session handed out is given back once (by a client that `Server.Close` closes meanwhile, once too often at most), the slice implements `ClientSet`, and everyone comes to an end unless a login with a second token keeps the mutex for ever |
| `names_map` | `TypeOK`, `NicksResolve`, `UsersResolve` | nicks and channel names resolve to their owner; users resolve unless a nick or channel name of that very name was changed |

### Bounds

* `idmap`: three ids (1, 10, 2), three ideals, two goroutines.
  `MaxMangles = 4` is the number of ids plus one, which `MangleLoopAlwaysEnds`
  proves enough for every instance.  The action constraint `AfterOverlap` lets only
  the calls under way go on after an overlap, since the stale names that further
  calls leave behind have no bound; the panics and the lost names come with the
  calls under way, and the theorems are about all steps.
* `registry_safety`: three clients are needed for one to take a session over
  while two others, one closing it and one using it, hold it, and for the panic
  of section 5.  Four session objects suffice, since an object nothing refers to
  is garbage and its identity is used again.  `RefMod = 4` scales 2^32 down, larger than the
  number of clients as it is in reality; the wrap below zero happens.
  `MaxLeaks = 1` bounds the connections that failed logins leave open.
* `registry_live`: two clients, two users with a token each, which both may use;
  `MaxLeaks = 0`, since the abandoned connections are without influence on progress.
* `registration`: two sessions so that a `PASS` can change it, one guild, two
  capabilities; `welcomes` is counted up to two, one more than is allowed.
* `names`: two workers, so that one inserts between the sections of the other
  and two maps are created at once, one subscriber, one user whose nick changes
  between two, and back.  `MaxMaps = 3` is the number of goroutines and no
  restriction: a goroutine that has found a map creates none any more, and at
  most all goroutines look at once before there is one (`BoundNeverReached`
  proves this for every number of them).
* `messages`: two chats and three names, so that a chat can take over the name
  of the other.  `MaxEvents = 3` events (messages and edits) are enough for a
  message, one that overtakes it and a third that pushes the first out of the
  backlog of `Limit = 1` message.  The constraint `FewEvents` leaves one event
  less outside of a guild, where renaming multiplies the states, and lets at
  most one event be by a blocked user or from another program of the user.
* `client_list`: four clients, so that the list, whose array grows to 1, 2 and 4,
  can outgrow it while the loop is walking.  `Peers` are four scenarios, which
  bound the lines that peers send: one logs in twice and leaves; one sends a line
  while its neighbour leaves; the first three leave, or the last three.  A peer
  that leaves may do so at any time, or never.  Every line may be a `PASS`, and every
  login may find a session, create one, fail, or keep the mutex for ever.
* `names_map`: two ids that share their first digit, the users and the nicks of
  one guild, and three names to ask for: a plain one, the one that `mangle` makes
  of it for one of the ids, and the empty one.  Calls that need
  more than `MaxMangles = 2` rounds are left out: they come when an entry is
  renamed and removed over and over, since no nick is ever free again.  The
  theorems hold for every bound.

Symmetry is used over chats with their first names (`messages`), and over
goroutines, clients and session objects, and only in runs without liveness
properties.  Three runs are checked with `CHECK_DEADLOCK FALSE`: the
registry runs that reach the self-made deadlock, `registry_safety`,
`registry_two_tokens` and `registry_use_after_close`, because the server really
stops there.  All other runs check for deadlock; the ways a process ends (a panic,
a crash, `Exit`) and, in `ClientList`, the login that keeps the mutex (`Stuck`) are
written as a step that changes nothing.

### Fairness

`registry_live` and `registry_two_tokens` assume, per client: strong fairness
of the steps that wait for the mutex, because Go's `sync.Mutex` passes to its
longest waiter once that has waited a millisecond; weak fairness of the steps a
goroutine takes by itself; weak fairness of Discord's answer, since a request
that is neither answered nor failed is beyond the program.  Peers are not fair:
they may stay silent for ever, and never have to disconnect.

`names` assumes weak fairness of each goroutine, which the Go scheduler gives;
strong fairness of `Write`, because a `sync.RWMutex` holds new readers back as
soon as a writer waits; and weak fairness of `Deliver`, since the handler's
goroutine waits for a loop that goes on taking events while the subscription
lasts.  Events and subscriptions need not come.

`client_list` assumes weak fairness of the goroutines that can go on, which
includes that Discord answers a login, and that reading from a connection our side
has closed fails.  Several of them wait for one mutex, and Go hands it to whoever
waits too long, which is strong fairness; but peers send finitely many lines here, so
that the mutex is taken finitely often and weak fairness says the same.
`LeavesCleanly` and `CloseReturns` exempt the state in which a login with a second
token keeps the mutex (`Stuck`): nobody can take it then, and `registry_two_tokens`
shows that the program does get there.  Peers, events and the signal need not come.

## 4. The proofs

`IDMapProofs`, for every set of ids, bases, ideals and goroutines:

| theorem | says |
|---|---|
| `TypeCorrect` | `Spec => []TypeOK` |
| `AlwaysBijective` | `Spec => []Bijective` |
| `DistinctUntilOverlap` | `Spec => []` (`NamesDistinct`, or an overlap has happened) |
| `PanicsNeedOverlap` | `Spec => []PanicsOnlyOverlapped` |
| `MangleLoopAlwaysEnds` | `Spec => []MangleLoopEnds` |
| `MapImplementsNameTable` | `Spec => ImplementsNameTable` |
| `NamesNotStolen` | `Spec => NoNameStolen` |
| `NamesResolve` | `Spec => NewNameResolves` |

Assumptions: `MapAssumption` (`NoSnowflake` is not an id), `NamesAssumption` (the
sanitized ideals are bases, each id has a sequence of digits) and, for the theorem
on the loop alone, `BoundAssumption` (finitely many ids, `MaxMangles` above their
number).

`Bijective` alone is not inductive: `InsertWrite` deletes the name that
`InsertRead` saw.  The inductive invariant is

    Sound == TypeOK /\ Inverses /\ InsertAlone /\ ReadStillHolds /\ ~panicked
    IInv == TypeOK /\ NeededWhenRead /\ (~overlapped => Sound)

where `InsertAlone` says that nobody else works on the id of an `Insert` and
`ReadStillHolds` that what it read is still true when it writes.  The
latter is exactly what an overlapping call destroys.  That nothing has panicked has
to be part of it because a step after a panic would not keep the maps inverse.
`DeleteSnowflake` reads the name again under the write lock, and so needs neither.

The loop ends by counting.  The candidates of an id differ in the length of
their tags (`CandidatesDiffer`), and by `Bijective` a taken name has an owner
of which it is the only name.  If rounds 1 to N+1 all met taken names, two of
them would have the same owner by the pigeonhole principle, and then be the
same name.

`NamesResolve` has two cases.  Before an overlap, `ReadStillHolds` says that the old
name still belongs to the call's id, so that the new name, which was free, is
another one.  After it, the old name may be free and the call may take it again and
then delete it; that cannot be if `sanitize` leaves the ideal alone, since the new
name has the ideal as its base and the old one, which is why the call went on, has
not (`NeededWhenRead`).

`MapImplementsNameTable` maps `binding` to `forward` and `misused` to `overlapped`;
the two write sections are `Bind` and `Unbind`, all else stutters.

`RegistrationProofs`, for every set of sessions, guilds and capabilities:

| theorem | says |
|---|---|
| `TypeCorrect` | `Spec => []TypeOK` |
| `RegistrationNotForgotten` | `Spec => []NotForgotten` |
| `AlwaysServesSession` | `Spec => []ServesSession` |
| `NeverWelcomedTwice` | `Spec => []WelcomedOnce` |

The only assumption is `RegistrationAssumption` (`NoSession` and `NoGuild` are
no session and no guild).  The inductive invariant adds two facts to the four:
nobody is welcomed before being registered (`NotWelcomedBefore`), without which
`WelcomedOnce` says nothing about the next welcome, and the second loop runs for
registered clients only (`ServesRegistered`).  The handlers that may complete
the registration share one lemma, `Completion`; those that end the connection
another, `Ending`.

`SessionRegistryProofs`, for every set of clients, tokens, users and sessions
and every modulus above the number of clients:

| theorem | says |
|---|---|
| `TypeCorrect` | `Spec => []TypeOK` |
| `OnlyFailuresLeak` | `Spec => []NoOtherLeak` |
| `AlwaysOneShort` | `Spec => []RefsOneShort` |
| `NeverHandedOutClosed` | `Spec => HandedOutOpen` |

The assumption is `RegistryAssumption`: every token has a user, the clients are
finite in number and fewer than the modulus of the count, and the null values
are none of the objects.  The inductive invariant is

    IInv == TypeOK /\ Places /\ RegisteredOpen /\ ClosingUnregistered /\ NoOtherLeak

`Places` says which steps of a goroutine hold a session and which log in.
`HandedOutOpen` follows from `RegisteredOpen`, the registry holds open sessions
only, and that one needs `ClosingUnregistered`: who is about to close a
connection has taken its session out of the registry before.  It is the order
of `removeFunc` and the closing of the gateway in `Session.Close` that makes it
inductive.  `RefsOneShort` is inductive relative to `IInv`: each step adds or
takes one client from the holders of at most one session (`CountUp`,
`CountDown`), and the wrap below zero is undone by the next increment.  `Counted`
is the same for every session that is in the registry or still used, which the
refinement below needs.

`SharedSessionsProofs`, about the same module and from the same assumption:

| theorem | says |
|---|---|
| `MutexKeptForDiscord` | `Spec => []LockHolder` |
| `OneTokenNeverStuck` | if no user has two tokens, `Spec => []` no goroutine waits for itself |
| `ServerImplementsSharing` | `Spec => ImplementsSharedSessions` |
| `PanicNeedsRejoin` | `Spec => []PanicsOnlyRejoined` |

The first two rest on `LockInv`, inductive relative to the types and `Places`:
the holder of the mutex is creating a session (`Mutex`), with a token the
registry does not answer (`CreatingUnknown`: it cannot change meanwhile, since
whoever changes it needs the mutex); a token that is known leads to its user
(`IdsRight`); and a user has a session only after a token of it logged in
(`LoggedIn`).  So whoever finds a session of its user after creating one, found
the work of another token.

The refinement maps each action to the one of the table in section 2.  Its one
hard step is `Leave`: that the count hits zero exactly if one other client is
left (`ZeroMeansTwo`).  It follows from `Counted`, which says that the count plus
one is the number of the users modulo `RefMod`, and from there being fewer
clients than `RefMod`.  `SharedSessions` says it with sets, "the users are the
two of them", rather than with `Cardinality`: for the prover, an operator of an
instantiated module's library is another operator than the same one here.

`PanicNeedsRejoin` is about a panic that three clients of one user cause (section
5), for any number of clients.  `RemoveInv` speaks of the sessions that were not
handed out while being closed: one that two clients use is in the registry and
nobody is closing it, one that is being closed is in the registry, and one client at
a time closes it.  It is a login that joins the user of a dying session which
breaks the first of these, and the history remembers it; leaving with one client
left, creating a session and using an identity again keep all three.

`SessionNamesProofs`, for every set of users, nicks, workers and subscribers:

| theorem | says |
|---|---|
| `TypeCorrect` | `Spec => []TypeOK` |
| `BoundNeverReached` | the bound on the number of maps is no restriction |
| `NoNameEverMissed` | `Spec => []NoNameMissed` |
| `FirstListAlone` | `Spec => []InitialAlone` |

`Places` says, on top of the types, where a goroutine between two locks is and
what it holds there.  The bound follows from counting: the number of the current
map and the goroutines that are about to create one are together never more than
all goroutines, for who found a map creates none.  The inductive invariant is

    IInv == Places /\ Subscribed /\ CalledSubscribed /\ SnapshotTold /\ NoNameMissed

`NoNameMissed` is about subscribers only; what makes it true at the moment of
the subscription is `SnapshotTold`, that one inside `Access` has been told all
names but those still left, and that needs the read lock which keeps writers
away.  `InitialAlone` follows from `Subscribed` and `CalledSubscribed`: only
subscribers are called, and nothing is left of their first list.

`MessageFlowProofs`, for every set of chats and names, any number of events and
any size of a backlog:

| theorem | says |
|---|---|
| `TypeCorrect` | `Spec => []TypeOK` |
| `MessagesNotLost` | `Spec => []NoMessageLost` |
| `EchoedOnlyWhenOvertaken` | `Spec => []EchoOnlyWhenOvertaken` |

The invariant adds three facts to the properties: `History` (an edit carries
the author of its message), `LastIsNewest` (`lastMessageID` is the newest message
of the peer, so that whatever is not suppressed has a newer one) and
`JoinDelivered` (a join is caused by an event the gateway has delivered, so that
every backlog asked for afterwards may contain it: `BacklogReaches`).

`ClientListProofs`, for every number of connections and every behaviour of
their peers:

| theorem | says |
|---|---|
| `TypeCorrect` | `Spec => []TypeOK` |
| `ListAlwaysExact` | `Spec => []ListExact` |
| `NobodyClosedTwice` | `Spec => []ClosedOnce` |
| `AlwaysRefsBalanced` | `Spec => []RefsBalanced` |
| `HalfAlwaysClosed` | `Spec => []HalfClosed` |
| `ListImplementsSet` | `Spec => ImplementsClientSet` |

`ListInv` says `ListExact` by positions: the elements are clients, each at one
place, with nothing behind them, and they are those that were added and not
closed.  The number of elements then follows from a bijection.  The references
need `Progress`, what each place says about the session and the closing, and
tell the clients that `main` has closed (`SweptReference`) from the others
(`OwnReference`): of a swept client at most one session is given back too many,
and the nil session that `Client.Close` may meet ends `main` and never the goroutine
of a client.

`HalfAlwaysClosed` argues by places.  Clients only ever move towards the front,
into the place of one that was closed.  With the list as the loop found it,
`orig`, the invariant says: before a client of that list that is still open every
place has the client it had, or that one is closed (`Filled`); and behind the
loop no such client is in its old place (`PassedTo`).  So each client the loop has
missed is in the place of one that is closed, no two in the same, and they are
at most half.  Since `orig` is an order and not in the state, the invariant claims
that one exists.  The map from missed to closed clients (`MissedInPlaces`) is also what the
refinement needs for `EndClosing`; its other steps follow from `ListInv`, that a
removal takes one client off the list and closes that one (`RemovalCloses`).

`NamesMapProofs`, for every set of ids, tables and names to ask for:

| theorem | says |
|---|---|
| `TypeCorrect` | `Spec => []TypeOK` |
| `NicksAlwaysResolve` | `Spec => []NicksResolve` |
| `UsersAlwaysResolve` | `Spec => []UsersResolve` |

`NicksResolve` and `UsersResolve` are inductive given the types.  The assumption
`NamesMapAssumption` says that `NoName` is no name and `NoId` no id.  For users the
history `erased` grows by the name that a change in another table deletes from
`userb`, and by no other.

Model-checked only: liveness (`LoginAnswered`, `DisconnectFinishes`,
`NamesArrive`, `LeavesCleanly`, `CloseReturns`), which the prover does not do.
Every invariant, every action property and every refinement of the passing runs
is proved, without the bounds and constraints of the runs.

## 5. What was found

1. `idmap.go:78`: `Insert` deletes the old name it read before it let the lock
   go.  Overlapping calls for one id leave two ids with one name, against
   `idmap.go:14`, or make the second of them panic.
2. `session.go:59`: a session is created with no reference for its creator.
   The count is one short for ever (`RefsOneShort`): the first of two clients
   to leave closes the session, and a single client wraps the count and never
   closes it.
3. `server.go:180`: the duplicate session that a second token opens is closed
   with the mutex held that its `removeFunc` takes.
4. `commands.go:184` and the handlers after it: `JOIN`, `PRIVMSG`, `LIST` and
   `WHOIS` before `PASS` call methods of a nil session, against
   `ilayer/server.go:10`.

These four are the runs that end in a violation.  The passing runs and the
proofs show other things that a reader of the code may not expect:

* `session.go:85`: `Unref` decides to close before the registry knows.  A client
  of the same user that logs in before `removeSession` has the mutex gets the
  dying session; if it leaves again before that, while the client that was left
  behind stays, the count hits zero a second time.  The second `removeSession`
  does not find the session and panics (`server.go:209`), which ends the process.
  Three clients do that in `registry_safety`; asked for `[]~panicked`, TLC prints
  how.  It takes such a login (`PanicsOnlyRejoined`).
* `server.go:180` again: while a login with a second token keeps the mutex,
  `Server.Close` and every client that leaves wait for ever (`Stuck` of
  `ClientList`).
* `server.go:54`: `Server.Close` may miss every second client of its list, because
  the last one takes the place the loop has just visited (`HalfClosed` is the
  best that holds).
* `server.go:121`: `Server.Close` calls `Client.Close` while `Client.Run` goes on.
  A `PASS` at that moment leaves a reference behind or gives one back twice, or
  makes the session nil between the two reads of `Client.Close`, which ends the
  process (`RefsBalanced` bounds it by one session too many for a client, and
  excludes the crash for the goroutines of clients).
* `client.go:98`: when `Run` has returned, the goroutine of `ircReadLoop` may wait
  for ever to hand over a line or its error (`LeavesCleanly` asks only that it has
  stopped reading).
* `names/map.go:237` and `276`: changing a nick or a channel name deletes the old
  one from the names of users and leaves it among the nicks.  This is against
  `map.go:14-17` (bidirectional maps) and `286-288` (a removed entry is no longer in the
  map): a user of that name no longer resolves (`UsersResolve` says that no other
  loses its name), the old nick still leads to its former owner and is never free
  again.  Removed entries are kept under the empty name, the second one under a tag,
  against `map.go:174`.  No run requires these effects, and none excludes them.
* `irc.go:216`: the client remembers one message of its peer, the last.  If the
  peer sends a second one before the event of the first is handled, the first is
  shown to the peer, although `client.go:26` keeps `lastMessageID` to prevent that
  (`EchoOnlyWhenOvertaken` is the best that holds).

## 6. Limits

Not modelled: `replies`, one formatted line per call and nothing else; `render`,
a walk over a parsed document without state that outlives a call; `color`, a
minimum over floating-point distances, which TLC does not have; flags, TLS and
sockets.  The Discord libraries are external: a gateway connection is open or
closed, a request succeeds or fails.
`setHeldLock` of `idmap` is called by nothing.

Of the session, the maps of channels and the guild and user maps are not
modelled: they are created the same way, and channels have no subscribers.
`harvestUsername` writes a second map, `userMap`, after the nick map; the two
may disagree in between.  `NoNameMissed` does not cover a subscriber whose map
another `safeGetMap` has replaced: such a subscriber is left with a map nobody
writes to, a real consequence of the unlocked creation.

Of the client, `HandleList` and `HandleWhois` only read and appear in
`Registration` as commands that need a session.  In `MessageFlow` the order of
the lines of one backlog, the goroutine that reads lines from the socket, and a
negotiation of capabilities in the second loop are left out; `echo-message` is
settled from the start.

In `ClientList` a client that is accepted but not appended yet is not told from
one that has not come, and the goroutines that accept and read are as fast as
they like.  `append` doubles the array, as Go does for short slices.

## 7. Plan

In this order:

1. `userMap` as a second map in `SessionNames`, written after the nick map, and
   a user seen by two guilds; what the two maps may disagree about, and that a
   quiet session makes them agree or keeps the difference for ever.
2. A connection in one piece: `Registration` above `ClientList`, with the
   registration as the abstract specification of the two loops.
3. Negotiation of capabilities in the second loop of `MessageFlow`.
4. What a subscriber of `SessionNames` and a peer of `MessageFlow` see, as abstract
   specifications that the two implement.
