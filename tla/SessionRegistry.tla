--------------------------- MODULE SessionRegistry --------------------------
(***************************************************************************)
(* The sessions the clients of one server share: the registry of           *)
(* internal/server (session, removeSession, runClient, removeClient), the  *)
(* reference count of internal/session (New, Ref, Unref, Close) and the    *)
(* calls internal/client makes on them (HandlePassword, Close).            *)
(*                                                                         *)
(* One mutex guards the registry.  It is held while a new session connects *)
(* to Discord, and it is taken again by the function that a closing        *)
(* session calls to leave the registry; the reference count is atomic and  *)
(* not guarded by it.                                                      *)
(***************************************************************************)
EXTENDS Integers, FiniteSets

CONSTANTS
    Clients,    \* the IRC connections, each served by a goroutine of its own
    Tokens,     \* the Discord tokens that clients log in with
    Users,      \* the Discord users
    UserOf,     \* external: the user Discord knows a token by
    Sessions,   \* identities of session.Session objects
    RefMod,     \* the modulus of the uint32 reference count, scaled down
    MaxLeaks,   \* bound: how many connections failing logins may leave open
    NoClient, NoToken, NoUser, NoSession

ASSUME RegistryAssumption ==
    /\ UserOf \in [Tokens -> Users]
    /\ IsFiniteSet(Clients)
    /\ RefMod \in Nat /\ RefMod > Cardinality(Clients)
    /\ MaxLeaks \in Nat
    /\ NoClient \notin Clients /\ NoToken \notin Tokens
    /\ NoUser \notin Users /\ NoSession \notin Sessions

VARIABLES
    mu,         \* Server.mu: the client whose goroutine holds it, or NoClient
    ids,        \* Server.ids: the user a token logged in as before
    sessions,   \* Server.sessions: the session of a user
    clients,    \* Server.clients, as a set
    conn,       \* the gateway connection of a session
    refs,       \* Session.refs
    pc,         \* what the goroutine of a client does next
    want,       \* the token a client is logging in with, NoToken when it leaves
    held,       \* Client.session, NoSession for nil
    leaked,     \* sessions that New left connected when it failed
    panicked,   \* a goroutine panicked, which ends the process
    rejoined    \* history: sessions handed out when a goroutine was closing them

vars == <<mu, ids, sessions, clients, conn, refs, pc, want, held, leaked, panicked, rejoined>>

(***************************************************************************)
(* away      no connection                                                 *)
(* adding    runClient, before it appends to s.clients                     *)
(* running   in Client.Run                                                 *)
(* removing  Session.Close, before removeFunc has the mutex                *)
(* closing   Session.Close, before the gateway connection is closed        *)
(* locking   Server.session, before it has the mutex                       *)
(* creating  in session.New, with the mutex                                *)
(* stuck     closing a second session of a user inside Server.session:     *)
(*           removeSession waits for the mutex its own goroutine holds     *)
(* leaving   removeClient, before it has the mutex                         *)
(* unref     Client.Close, before the session is given back                *)
(* relock    removeClientLock, taking the mutex back                       *)
(***************************************************************************)
Steps == {"away", "adding", "running", "removing", "closing", "locking",
          "creating", "stuck", "leaving", "unref", "relock"}

TypeOK ==
    /\ mu \in Clients \cup {NoClient}
    /\ ids \in [Tokens -> Users \cup {NoUser}]
    /\ sessions \in [Users -> Sessions \cup {NoSession}]
    /\ clients \subseteq Clients
    /\ conn \in [Sessions -> {"unused", "open", "closed"}]
    /\ refs \in [Sessions -> 0..(RefMod - 1)]
    /\ pc \in [Clients -> Steps]
    /\ want \in [Clients -> Tokens \cup {NoToken}]
    /\ held \in [Clients -> Sessions \cup {NoSession}]
    /\ leaked \subseteq Sessions
    /\ panicked \in BOOLEAN
    /\ rejoined \subseteq Sessions

Init ==
    /\ mu = NoClient
    /\ ids = [t \in Tokens |-> NoUser]
    /\ sessions = [u \in Users |-> NoSession]
    /\ clients = {}
    /\ conn = [s \in Sessions |-> "unused"]
    /\ refs = [s \in Sessions |-> 0]
    /\ pc = [c \in Clients |-> "away"]
    /\ want = [c \in Clients |-> NoToken]
    /\ held = [c \in Clients |-> NoSession]
    /\ leaked = {}
    /\ panicked = FALSE
    /\ rejoined = {}

----------------------------------------------------------------------------
Registered(s) == \E u \in Users : sessions[u] = s

(***************************************************************************)
(* A Session object nothing refers to is garbage: its identity can be used *)
(* for a new one.                                                          *)
(***************************************************************************)
Fresh(s) ==
    /\ conn[s] # "open"
    /\ ~Registered(s)
    /\ \A c \in Clients : held[c] # s

(***************************************************************************)
(* The atomic additions of 1 and of ^uint32(0) to the count.               *)
(***************************************************************************)
IncForgotten(n) == n
Inc(n) == (n + 1) % RefMod

DecBelowZero(n) == n - 1
Dec(n) == (n + RefMod - 1) % RefMod

(***************************************************************************)
(* The deferred unlock at the end of Server.session.                       *)
(***************************************************************************)
UnlockForgotten == mu' = mu
Unlock == mu' = NoClient

RegisterForgotten(u, s) == sessions
Register(u, s) == [sessions EXCEPT ![u] = s]

UnregisterForgotten(s) == sessions
Unregister(s) == [u \in Users |-> IF sessions[u] = s THEN NoSession ELSE sessions[u]]

Goto(c, step) == pc' = [pc EXCEPT ![c] = step]

(***************************************************************************)
(* Unref by client c, which goes on at step `next` unless the count        *)
(* hits zero: then it closes the session.                                  *)
(***************************************************************************)
UnrefOldCount(c, next) ==
    LET s == held[c] IN
    /\ refs' = [refs EXCEPT ![s] = Dec(refs[s])]
    /\ IF refs[s] = 0
       THEN Goto(c, "removing") /\ UNCHANGED held
       ELSE Goto(c, next) /\ held' = [held EXCEPT ![c] = NoSession]

UnrefBelowZero(c, next) ==
    LET s == held[c] IN
    /\ refs' = [refs EXCEPT ![s] = Dec(refs[s])]
    /\ IF refs[s] \in {0, 1}
       THEN Goto(c, "removing") /\ UNCHANGED held
       ELSE Goto(c, next) /\ held' = [held EXCEPT ![c] = NoSession]

UnrefThen(c, next) ==
    LET s == held[c] IN
    /\ refs' = [refs EXCEPT ![s] = Dec(refs[s])]
    /\ IF Dec(refs[s]) = 0
       THEN Goto(c, "removing") /\ UNCHANGED held
       ELSE Goto(c, next) /\ held' = [held EXCEPT ![c] = NoSession]

----------------------------------------------------------------------------
(***************************************************************************)
(* The listener accepts a connection and starts runClient, which adds the  *)
(* new client to the list and runs it.                                     *)
(***************************************************************************)
Accept(c) ==
    /\ pc[c] = "away"
    /\ Goto(c, "adding")
    /\ UNCHANGED <<mu, ids, sessions, clients, conn, refs, want, held, leaked, panicked, rejoined>>

AddClient(c) ==
    /\ pc[c] = "adding"
    /\ mu = NoClient
    /\ clients' = clients \cup {c}
    /\ Goto(c, "running")
    /\ UNCHANGED <<mu, ids, sessions, conn, refs, want, held, leaked, panicked, rejoined>>

(***************************************************************************)
(* HandlePassword: the session of an earlier PASS is given back before the *)
(* server is asked for the one of the new token.                           *)
(***************************************************************************)
HandlePassword(c, t) ==
    /\ pc[c] = "running"
    /\ want' = [want EXCEPT ![c] = t]
    /\ IF held[c] = NoSession
       THEN Goto(c, "locking") /\ UNCHANGED <<refs, held>>
       ELSE UnrefThen(c, "locking")
    /\ UNCHANGED <<mu, ids, sessions, clients, conn, leaked, panicked, rejoined>>

(***************************************************************************)
(* Session.Close: first removeFunc, which panics if the session is not in  *)
(* the registry, then the gateway connection.  Close does not look at the  *)
(* count again.                                                            *)
(***************************************************************************)
RemoveSession(c) ==
    /\ pc[c] = "removing"
    /\ mu = NoClient
    /\ IF Registered(held[c])
       THEN /\ sessions' = Unregister(held[c])
            /\ Goto(c, "closing")
            /\ UNCHANGED panicked
       ELSE /\ panicked' = TRUE
            /\ UNCHANGED <<sessions, pc>>
    /\ UNCHANGED <<mu, ids, clients, conn, refs, want, held, leaked, rejoined>>

CloseState(c) ==
    /\ pc[c] = "closing"
    /\ conn' = [conn EXCEPT ![held[c]] = "closed"]
    /\ held' = [held EXCEPT ![c] = NoSession]
    /\ Goto(c, IF want[c] = NoToken THEN "relock" ELSE "locking")
    /\ UNCHANGED <<mu, ids, sessions, clients, refs, want, leaked, panicked, rejoined>>

(***************************************************************************)
(* Server.session for a token whose user is known and has a session: the   *)
(* session gets one more reference.                                        *)
(***************************************************************************)
UnknownAlways(t) == t \notin Tokens
Known(t) == ids[t] # NoUser /\ sessions[ids[t]] # NoSession

(***************************************************************************)
(* A goroutine has brought the count of s to zero and waits for the mutex  *)
(* to take s out of the registry.                                          *)
(***************************************************************************)
Closing(s) == \E d \in Clients : pc[d] = "removing" /\ held[d] = s

SessionFound(c) ==
    /\ pc[c] = "locking"
    /\ mu = NoClient
    /\ Known(want[c])
    /\ LET s == sessions[ids[want[c]]] IN
        /\ refs' = [refs EXCEPT ![s] = Inc(refs[s])]
        /\ held' = [held EXCEPT ![c] = s]
        /\ rejoined' = IF Closing(s) THEN rejoined \cup {s} ELSE rejoined
    /\ Goto(c, "running")
    /\ UNCHANGED <<mu, ids, sessions, clients, conn, want, leaked, panicked>>

(***************************************************************************)
(* Otherwise it keeps the mutex and creates one.                           *)
(***************************************************************************)
SessionMissing(c) ==
    /\ pc[c] = "locking"
    /\ mu = NoClient
    /\ ~Known(want[c])
    /\ mu' = c
    /\ Goto(c, "creating")
    /\ UNCHANGED <<ids, sessions, clients, conn, refs, want, held, leaked, panicked, rejoined>>

(***************************************************************************)
(* session.New succeeds, with no reference counted for its creator, and    *)
(* the user has no other session.                                          *)
(***************************************************************************)
SessionCreated(c) ==
    /\ pc[c] = "creating"
    /\ LET t == want[c] IN
        /\ sessions[UserOf[t]] = NoSession
        /\ ids' = [ids EXCEPT ![t] = UserOf[t]]
        /\ \E s \in Sessions :
            /\ Fresh(s)
            /\ conn' = [conn EXCEPT ![s] = "open"]
            /\ refs' = [refs EXCEPT ![s] = 0]
            /\ rejoined' = rejoined \ {s}
            /\ sessions' = Register(UserOf[t], s)
            /\ held' = [held EXCEPT ![c] = s]
    /\ Unlock
    /\ Goto(c, "running")
    /\ UNCHANGED <<clients, want, leaked, panicked>>

(***************************************************************************)
(* session.New succeeds, but the user has a session that another token     *)
(* opened.  The new session is closed with the mutex held, and its         *)
(* removeFunc waits for the mutex: no step leads on from here.             *)
(***************************************************************************)
SessionDuplicate(c) ==
    /\ pc[c] = "creating"
    /\ LET t == want[c] IN
        /\ sessions[UserOf[t]] # NoSession
        /\ ids' = [ids EXCEPT ![t] = UserOf[t]]
        /\ \E s \in Sessions :
            /\ Fresh(s)
            /\ conn' = [conn EXCEPT ![s] = "open"]
            /\ refs' = [refs EXCEPT ![s] = 0]
            /\ rejoined' = rejoined \ {s}
            /\ held' = [held EXCEPT ![c] = s]
    /\ Goto(c, "stuck")
    /\ UNCHANGED <<mu, sessions, clients, want, leaked, panicked>>

(***************************************************************************)
(* The login fails, which ends Client.Run.  If the gateway was open        *)
(* already, when the request for the own user fails, nothing closes it.    *)
(***************************************************************************)
SessionFailed(c) ==
    /\ pc[c] = "creating"
    /\ Unlock
    /\ Goto(c, "leaving")
    /\ UNCHANGED <<ids, sessions, clients, conn, refs, want, held, leaked, panicked, rejoined>>

SessionFailedOpen(c) ==
    /\ pc[c] = "creating"
    /\ Cardinality(leaked) < MaxLeaks
    /\ \E s \in Sessions :
        /\ Fresh(s)
        /\ conn' = [conn EXCEPT ![s] = "open"]
        /\ refs' = [refs EXCEPT ![s] = 0]
        /\ rejoined' = rejoined \ {s}
        /\ leaked' = leaked \cup {s}
    /\ Unlock
    /\ Goto(c, "leaving")
    /\ UNCHANGED <<ids, sessions, clients, want, held, panicked>>

(***************************************************************************)
(* Client.Run returns: the peer is gone, or a handler returned an error.   *)
(***************************************************************************)
Disconnect(c) ==
    /\ pc[c] = "running"
    /\ Goto(c, "leaving")
    /\ UNCHANGED <<mu, ids, sessions, clients, conn, refs, want, held, leaked, panicked, rejoined>>

(***************************************************************************)
(* removeClientLock takes the client out of the list, gives up the mutex   *)
(* for Client.Close, and takes it back.                                    *)
(***************************************************************************)
RemoveClient(c) ==
    /\ pc[c] = "leaving"
    /\ mu = NoClient
    /\ clients' = clients \ {c}
    /\ want' = [want EXCEPT ![c] = NoToken]
    /\ Goto(c, IF held[c] = NoSession THEN "relock" ELSE "unref")
    /\ UNCHANGED <<mu, ids, sessions, conn, refs, held, leaked, panicked, rejoined>>

UnrefOnClose(c) ==
    /\ pc[c] = "unref"
    /\ UnrefThen(c, "relock")
    /\ UNCHANGED <<mu, ids, sessions, clients, conn, want, leaked, panicked, rejoined>>

Relock(c) ==
    /\ pc[c] = "relock"
    /\ mu = NoClient
    /\ Goto(c, "away")
    /\ UNCHANGED <<mu, ids, sessions, clients, conn, refs, want, held, leaked, panicked, rejoined>>

----------------------------------------------------------------------------
(***************************************************************************)
(* The steps that wait for the mutex, the ones a goroutine takes on its    *)
(* own, and the answer of Discord to a login.                              *)
(***************************************************************************)
LockStep(c) ==
    AddClient(c) \/ RemoveSession(c) \/ SessionFound(c) \/ SessionMissing(c)
        \/ RemoveClient(c) \/ Relock(c)

OwnStep(c) == CloseState(c) \/ UnrefOnClose(c)

Answer(c) == SessionCreated(c) \/ SessionDuplicate(c) \/ SessionFailed(c) \/ SessionFailedOpen(c)

PeerStep(c) == Accept(c) \/ Disconnect(c) \/ \E t \in Tokens : HandlePassword(c, t)

Next ==
    \/ /\ ~panicked
       /\ \E c \in Clients : LockStep(c) \/ OwnStep(c) \/ Answer(c) \/ PeerStep(c)
    \/ panicked /\ UNCHANGED vars

Spec == Init /\ [][Next]_vars

(***************************************************************************)
(* Goroutines that can go on do, and a goroutine waiting for a mutex that  *)
(* is free again and again gets it: sync.Mutex hands over to the longest   *)
(* waiter after a millisecond.  Discord answers every login in the end.    *)
(* What peers do is not fair: they may stay silent.                        *)
(***************************************************************************)
Fairness ==
    \A c \in Clients :
        /\ SF_vars(~panicked /\ LockStep(c))
        /\ WF_vars(~panicked /\ OwnStep(c))
        /\ WF_vars(~panicked /\ Answer(c))

FairSpec == Spec /\ Fairness

----------------------------------------------------------------------------
(***************************************************************************)
(* The references to s that clients hold and have not given back.          *)
(***************************************************************************)
Holders(s) == {c \in Clients : held[c] = s /\ pc[c] \notin {"removing", "closing", "stuck"}}

(***************************************************************************)
(* The count is always one short of the clients that hold the session,     *)
(* modulo 2^32, whatever the interleaving: New counts no reference for the *)
(* client it creates the session for, and no later step makes up for it or *)
(* loses another one.  A count of zero therefore means one holder left.    *)
(***************************************************************************)
RefsOneShort ==
    \A u \in Users : sessions[u] # NoSession =>
        Inc(refs[sessions[u]]) = Cardinality(Holders(sessions[u])) % RefMod

(***************************************************************************)
(* Server.session never returns a session whose gateway connection is      *)
(* closed already, although closing and looking up overlap freely.         *)
(***************************************************************************)
HandedOutOpen ==
    [][\A c \in Clients : pc[c] \in {"locking", "creating"} /\ pc'[c] = "running"
            => conn'[held'[c]] = "open"]_vars

(***************************************************************************)
(* Every open connection is in the registry, in the hands of the goroutine *)
(* that is about to close it, or one of those that failed logins leave     *)
(* behind: no other interleaving loses one.                                *)
(***************************************************************************)
NoOtherLeak ==
    \A s \in Sessions : conn[s] = "open" =>
        \/ Registered(s)
        \/ s \in leaked
        \/ \E c \in Clients : held[c] = s /\ pc[c] \in {"closing", "stuck"}

(***************************************************************************)
(* Whoever keeps the mutex across steps waits for Discord, and nobody else *)
(* is in there; it waits for itself only if the user of its token has a    *)
(* session that another token opened.  No other interleaving locks the     *)
(* server up (server.go:133-188).                                          *)
(***************************************************************************)
OtherToken(t) == \E other \in Tokens \ {t} : UserOf[other] = UserOf[t] /\ ids[other] = UserOf[t]

LockHolder ==
    \A c \in Clients :
        /\ mu = c <=> pc[c] \in {"creating", "stuck"}
        /\ pc[c] = "stuck" => OtherToken(want[c])

(***************************************************************************)
(* With its mutex, tables, places and counts the server does what          *)
(* SharedSessions says: in particular a session is closed by the client    *)
(* that leaves one other behind, whatever overlaps.                        *)
(***************************************************************************)
Using == [c \in Clients |-> IF pc[c] \in {"removing", "closing", "stuck"} THEN NoSession ELSE held[c]]

Closer == [c \in Clients |-> IF pc[c] \in {"removing", "closing"} THEN held[c] ELSE NoSession]

Sharing == INSTANCE SharedSessions WITH shared <- sessions, using <- Using, closer <- Closer

ImplementsSharedSessions == Sharing!Spec

(***************************************************************************)
(* Every PASS is answered in the end, with a session or with an error.     *)
(***************************************************************************)
LoginAnswered ==
    \A c \in Clients : pc[c] = "locking" ~> pc[c] \in {"running", "leaving"} \/ panicked

(***************************************************************************)
(* A client that disconnects is cleaned up in the end: its session is      *)
(* given back and its goroutine ends.                                      *)
(***************************************************************************)
DisconnectFinishes == \A c \in Clients : pc[c] = "leaving" ~> pc[c] = "away" \/ panicked

(***************************************************************************)
(* removeSession panics if the session is not in the registry any more     *)
(* (server.go:209), and three clients of one user get it there: one is     *)
(* about to remove the session, a second uses it, and a third logs in and  *)
(* leaves, so that the count hits zero again.  It takes such a login: a    *)
(* session is removed a second time only if session() has handed it out    *)
(* (server.go:146-154) when a goroutine had decided to close it            *)
(* (session.go:85).  A wrap of the count, giving a session back for a new  *)
(* token or two clients that leave at once never lead there.               *)
(***************************************************************************)
PanicsOnlyRejoined ==
    panicked => \E c \in Clients : pc[c] = "removing" /\ held[c] \in rejoined

(***************************************************************************)
(* A client in Run never works with a closed session: Unref calls Close    *)
(* only when the count of references hits zero (session.go:83), and every  *)
(* client of a Discord user shares its session (session.go:19).            *)
(***************************************************************************)
NoUseAfterClose ==
    \A c \in Clients : pc[c] = "running" /\ held[c] # NoSession => conn[held[c]] = "open"
=============================================================================
