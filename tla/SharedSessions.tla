---------------------------- MODULE SharedSessions --------------------------
(***************************************************************************)
(* What a server does with the sessions its clients share, as Discord and  *)
(* the clients see it: no mutex, no table of tokens, no reference count    *)
(* (internal/server and internal/session).                                 *)
(*                                                                         *)
(* A user has one shared session at a time.  Clients come to use it, and   *)
(* whoever leaves all but one of them behind closes it: first it is no     *)
(* longer shared, then its connection is closed.  That one client is still *)
(* using it is what the program does, not what it promises                 *)
(* (session.go:83).                                                        *)
(***************************************************************************)
CONSTANTS Clients, Users, Sessions, NoSession

VARIABLES
    shared,     \* the session that is handed out for a user
    using,      \* the session a client uses
    closer,     \* the session a client has undertaken to close
    conn        \* the gateway connection of a session

vars == <<shared, using, closer, conn>>

TypeOK ==
    /\ shared \in [Users -> Sessions \cup {NoSession}]
    /\ using \in [Clients -> Sessions \cup {NoSession}]
    /\ closer \in [Clients -> Sessions \cup {NoSession}]
    /\ conn \in [Sessions -> {"unused", "open", "closed"}]

Init ==
    /\ shared = [u \in Users |-> NoSession]
    /\ using = [c \in Clients |-> NoSession]
    /\ closer = [c \in Clients |-> NoSession]
    /\ conn = [s \in Sessions |-> "unused"]

----------------------------------------------------------------------------
UsedBy(s) == {c \in Clients : using[c] = s}

Shared(s) == \E u \in Users : shared[u] = s

Idle(c) == using[c] = NoSession /\ closer[c] = NoSession

(***************************************************************************)
(* A session is opened under an identity that nobody refers to.            *)
(***************************************************************************)
Connect(s) ==
    /\ conn[s] # "open"
    /\ ~Shared(s)
    /\ \A c \in Clients : using[c] # s /\ closer[c] # s
    /\ conn' = [conn EXCEPT ![s] = "open"]

(***************************************************************************)
(* A login: the user's session, or a new one if the user has none.         *)
(***************************************************************************)
Join(c, u) ==
    /\ Idle(c)
    /\ shared[u] # NoSession
    /\ using' = [using EXCEPT ![c] = shared[u]]
    /\ UNCHANGED <<shared, closer, conn>>

Open(c, u) ==
    /\ Idle(c)
    /\ shared[u] = NoSession
    /\ \E s \in Sessions :
        /\ Connect(s)
        /\ shared' = [shared EXCEPT ![u] = s]
        /\ using' = [using EXCEPT ![c] = s]
    /\ UNCHANGED closer

(***************************************************************************)
(* A login that fails half way, or in which a second token turns out to    *)
(* belong to a user who has a session: the connection is left to itself.   *)
(***************************************************************************)
Stray ==
    /\ \E s \in Sessions : Connect(s)
    /\ UNCHANGED <<shared, using, closer>>

(***************************************************************************)
(* A client gives its session back.                                        *)
(***************************************************************************)
Leave(c) ==
    /\ using[c] # NoSession
    /\ using' = [using EXCEPT ![c] = NoSession]
    /\ closer' = IF \E d \in Clients \ {c} : UsedBy(using[c]) = {c, d}
                 THEN [closer EXCEPT ![c] = using[c]]
                 ELSE closer
    /\ UNCHANGED <<shared, conn>>

(***************************************************************************)
(* A session is closed by one client or, when it was joined again in the   *)
(* meantime, by several; but it is withdrawn once.                         *)
(***************************************************************************)
Withdraw(c) ==
    /\ closer[c] # NoSession /\ Shared(closer[c])
    /\ shared' = [u \in Users |-> IF shared[u] = closer[c] THEN NoSession ELSE shared[u]]
    /\ UNCHANGED <<using, closer, conn>>

Close(c) ==
    /\ closer[c] # NoSession /\ ~Shared(closer[c])
    /\ conn' = [conn EXCEPT ![closer[c]] = "closed"]
    /\ closer' = [closer EXCEPT ![c] = NoSession]
    /\ UNCHANGED <<shared, using>>

Next ==
    \/ \E c \in Clients, u \in Users : Join(c, u) \/ Open(c, u)
    \/ Stray
    \/ \E c \in Clients : Leave(c) \/ Withdraw(c) \/ Close(c)

Spec == Init /\ [][Next]_vars
=============================================================================
