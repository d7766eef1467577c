------------------------ MODULE SharedSessionsProofs ------------------------
(***************************************************************************)
(* That the server implements SharedSessions, and who can hold its mutex,  *)
(* for any clients, tokens, users and session objects.                     *)
(***************************************************************************)
EXTENDS SessionRegistryProofs

(***************************************************************************)
(* Part one: the mutex.  Its holder logs in, with a token that the         *)
(* registry does not answer; and no other step changes the registry        *)
(* meanwhile.                                                              *)
(***************************************************************************)
Mutex == \A c \in Clients : mu = c <=> pc[c] \in {"creating", "stuck"}

(***************************************************************************)
(* Discord answers a token with its user, and a user has a session because *)
(* a token of it logged in.                                                *)
(***************************************************************************)
IdsRight == \A t \in Tokens : ids[t] \in {NoUser, UserOf[t]}

LoggedIn ==
    \A u \in Users : sessions[u] # NoSession => \E t \in Tokens : UserOf[t] = u /\ ids[t] = u

CreatingUnknown == \A c \in Clients : pc[c] = "creating" => ~Known(want[c])

StuckBehindOther ==
    \A c \in Clients : pc[c] = "stuck" => want[c] \in Tokens /\ OtherToken(want[c])

LockInv == Mutex /\ IdsRight /\ LoggedIn /\ CreatingUnknown /\ StuckBehindOther

-----------------------------------------------------------------------------
(***************************************************************************)
(* A step of a client that does not end a login leaves the tables alone,   *)
(* but for a session that it takes out while nobody logs in.               *)
(***************************************************************************)
LEMMA LockKept ==
    ASSUME Typed, LockInv, NEW c \in Clients,
           UNCHANGED <<mu, ids>>,
           \/ sessions' = sessions
           \/ /\ mu = NoClient
              /\ \A u \in Users : sessions'[u] \in {NoSession, sessions[u]},
           pc[c] \notin {"creating", "stuck"}, pc'[c] \notin {"creating", "stuck"},
           \A d \in Clients \ {c} : pc'[d] = pc[d] /\ want'[d] = want[d]
    PROVE  LockInv'
<1> USE RegistryAssumption
<1>1. Mutex'
  BY DEF LockInv, Mutex
<1>2. IdsRight' /\ LoggedIn'
  BY DEF LockInv, IdsRight, LoggedIn
<1>3. CreatingUnknown'
  <2> SUFFICES ASSUME NEW d \in Clients, pc'[d] = "creating"
               PROVE  ~Known(want[d])'
    BY DEF CreatingUnknown
  <2>1. d # c /\ pc[d] = "creating" /\ want'[d] = want[d]
    OBVIOUS
  <2>2. mu = d /\ d # NoClient
    BY <2>1 DEF LockInv, Mutex
  <2> QED
    BY <2>1, <2>2 DEF LockInv, CreatingUnknown, Known
<1>4. StuckBehindOther'
  BY DEF LockInv, StuckBehindOther, OtherToken
<1> QED
  BY <1>1, <1>2, <1>3, <1>4 DEF LockInv

(***************************************************************************)
(* A login that fails gives the mutex back, and nothing else.              *)
(***************************************************************************)
LEMMA LockGivenBack ==
    ASSUME Typed, LockInv, NEW c \in Clients,
           pc[c] = "creating", mu' = NoClient, UNCHANGED <<ids, sessions, want>>,
           pc' = [pc EXCEPT ![c] = "leaving"]
    PROVE  LockInv'
<1> USE RegistryAssumption
<1>1. mu = c
  BY DEF LockInv, Mutex
<1>2. Mutex'
  BY <1>1 DEF LockInv, Mutex, Typed, TypeOK
<1>3. IdsRight' /\ LoggedIn'
  BY DEF LockInv, IdsRight, LoggedIn
<1>4. CreatingUnknown' /\ StuckBehindOther'
  BY DEF LockInv, CreatingUnknown, Known, StuckBehindOther, OtherToken, Typed, TypeOK
<1> QED
  BY <1>2, <1>3, <1>4 DEF LockInv

(***************************************************************************)
(* A login that succeeds records the user of its token; if the user has a  *)
(* session already, another token opened it.                               *)
(***************************************************************************)
LEMMA LockRecorded ==
    ASSUME Typed, LockInv, NEW c \in Clients, NEW t \in Tokens,
           pc[c] = "creating", want[c] = t, want' = want,
           ids' = [ids EXCEPT ![t] = UserOf[t]],
           \/ /\ mu' = NoClient
              /\ pc' = [pc EXCEPT ![c] = "running"]
              /\ \A u \in Users \ {UserOf[t]} : sessions'[u] = sessions[u]
           \/ /\ UNCHANGED <<mu, sessions>>
              /\ pc' = [pc EXCEPT ![c] = "stuck"]
              /\ sessions[UserOf[t]] # NoSession
    PROVE  LockInv'
<1> USE RegistryAssumption
<1>1. mu = c
  BY DEF LockInv, Mutex
<1>2. Mutex'
  BY <1>1 DEF LockInv, Mutex, Typed, TypeOK
<1>3. IdsRight'
  BY DEF LockInv, IdsRight, Typed, TypeOK
<1>4. LoggedIn'
  <2> SUFFICES ASSUME NEW u \in Users, sessions'[u] # NoSession
               PROVE  \E r \in Tokens : UserOf[r] = u /\ ids'[r] = u
    BY DEF LoggedIn
  <2>1. CASE u = UserOf[t]
    BY <2>1 DEF Typed, TypeOK
  <2>2. CASE u # UserOf[t]
    <3>1. PICK r \in Tokens : UserOf[r] = u /\ ids[r] = u
      BY <2>2 DEF LockInv, LoggedIn
    <3> QED
      BY <2>2, <3>1 DEF Typed, TypeOK
  <2> QED
    BY <2>1, <2>2
<1>5. CreatingUnknown'
  <2>1. \A d \in Clients : pc'[d] # "creating"
    BY <1>1 DEF LockInv, Mutex, Typed, TypeOK
  <2> QED
    BY <2>1 DEF CreatingUnknown
<1>6. StuckBehindOther'
  <2> SUFFICES ASSUME NEW d \in Clients, pc'[d] = "stuck"
               PROVE  (want[d] \in Tokens /\ OtherToken(want[d]))'
    BY DEF StuckBehindOther
  <2>1. d = c
    BY <1>1 DEF LockInv, Mutex, Typed, TypeOK
  <2>2. sessions[UserOf[t]] # NoSession
    BY <2>1 DEF Typed, TypeOK
  <2>3. ids[t] # UserOf[t]
    <3>1. ~Known(t) /\ UserOf[t] # NoUser
      BY DEF LockInv, CreatingUnknown
    <3> QED
      BY <2>2, <3>1 DEF Known
  <2>4. PICK r \in Tokens : UserOf[r] = UserOf[t] /\ ids[r] = UserOf[t]
    BY <2>2 DEF LockInv, LoggedIn
  <2>5. r # t /\ ids'[r] = UserOf[t]
    BY <2>3, <2>4 DEF Typed, TypeOK
  <2> QED
    BY <2>1, <2>4, <2>5 DEF OtherToken
<1> QED
  BY <1>2, <1>3, <1>4, <1>5, <1>6 DEF LockInv

LEMMA StepLockInv ==
    ASSUME Typed, LockInv, NEW c \in Clients, Step(c)
    PROVE  LockInv'
<1> USE RegistryAssumption DEF Goto
<1>1. CASE SessionMissing(c)
  <2>1. /\ mu = NoClient /\ mu' = c /\ ~Known(want[c])
        /\ UNCHANGED <<ids, sessions, want>>
        /\ pc[c] = "locking" /\ pc' = [pc EXCEPT ![c] = "creating"]
    BY <1>1 DEF SessionMissing
  <2>2. Mutex'
    BY <2>1 DEF LockInv, Mutex, Typed, TypeOK
  <2>3. IdsRight' /\ LoggedIn'
    BY <2>1 DEF LockInv, IdsRight, LoggedIn
  <2>4. CreatingUnknown' /\ StuckBehindOther'
    BY <2>1 DEF LockInv, CreatingUnknown, Known, StuckBehindOther, OtherToken, Typed, TypeOK
  <2> QED
    BY <2>2, <2>3, <2>4 DEF LockInv
<1>2. CASE AddClient(c) \/ SessionFound(c) \/ Relock(c) \/ CloseState(c)
           \/ Accept(c) \/ Disconnect(c)
  BY <1>2, LockKept
  DEF AddClient, SessionFound, Relock, CloseState, Accept, Disconnect, Typed, TypeOK
<1>3. CASE RemoveClient(c)
  BY <1>3, LockKept DEF RemoveClient, Typed, TypeOK
<1>4. CASE RemoveSession(c)
  BY <1>4, LockKept DEF RemoveSession, Unregister, Typed, TypeOK
<1>5. CASE UnrefOnClose(c)
  <2>1. held[c] # NoSession
    BY <1>5 DEF UnrefOnClose, Typed, Places
  <2> QED
    BY <1>5, <2>1, UnrefTyped, LockKept DEF UnrefOnClose, Typed, TypeOK
<1>6. ASSUME NEW t \in Tokens, HandlePassword(c, t)
      PROVE  LockInv'
  <2>1. CASE held[c] = NoSession
    BY <1>6, <2>1, LockKept DEF HandlePassword, Typed, TypeOK
  <2>2. CASE held[c] # NoSession
    BY <1>6, <2>2, UnrefTyped, LockKept DEF HandlePassword, Typed, TypeOK
  <2> QED
    BY <2>1, <2>2
<1>7. CASE SessionFailed(c) \/ SessionFailedOpen(c)
  BY <1>7, LockGivenBack DEF SessionFailed, SessionFailedOpen, Unlock
<1>8. CASE SessionCreated(c)
  <2>1. want[c] \in Tokens
    BY <1>8 DEF SessionCreated, Typed, Places
  <2>2. \A u \in Users \ {UserOf[want[c]]} : sessions'[u] = sessions[u]
    BY <1>8 DEF SessionCreated, Register, Typed, TypeOK
  <2> QED
    BY <1>8, <2>1, <2>2, LockRecorded DEF SessionCreated, Unlock
<1>9. CASE SessionDuplicate(c)
  <2>1. want[c] \in Tokens
    BY <1>9 DEF SessionDuplicate, Typed, Places
  <2> QED
    BY <1>9, <2>1, LockRecorded DEF SessionDuplicate
<1> QED
  BY <1>1, <1>2, <1>3, <1>4, <1>5, <1>6, <1>7, <1>8, <1>9
  DEF Step, LockStep, OwnStep, Answer, PeerStep

LEMMA AlwaysLockInv == Spec => []LockInv
<1>1. Init => LockInv
  BY RegistryAssumption
  DEF Init, LockInv, Mutex, IdsRight, LoggedIn, CreatingUnknown, StuckBehindOther
<1>2. IInv /\ LockInv /\ [Next]_vars => LockInv'
  <2> SUFFICES ASSUME IInv, LockInv, [Next]_vars
               PROVE  LockInv'
    OBVIOUS
  <2>1. ASSUME NEW c \in Clients, Step(c)
        PROVE  LockInv'
    BY <2>1, StepLockInv DEF IInv
  <2>2. CASE UNCHANGED vars
    BY <2>2 DEF vars, LockInv, Mutex, IdsRight, LoggedIn, CreatingUnknown, Known,
                StuckBehindOther, OtherToken
  <2> QED
    BY <2>1, <2>2 DEF Next, Step
<1> QED
  BY <1>1, <1>2, AlwaysIInv, PTL DEF Spec

-----------------------------------------------------------------------------
(***************************************************************************)
(* The mutex is kept only by a goroutine that waits for Discord, or that   *)
(* waits for itself because another token opened a session of its user     *)
(* (server.go:133-188).                                                    *)
(***************************************************************************)
THEOREM MutexKeptForDiscord == Spec => []LockHolder
<1>1. LockInv => LockHolder
  BY DEF LockInv, LockHolder, Mutex, StuckBehindOther
<1> QED
  BY <1>1, AlwaysLockInv, PTL

(***************************************************************************)
(* Where no user has two tokens, no goroutine ever waits for itself: the   *)
(* duplicate is the only way into that (server.go:172-184).                *)
(***************************************************************************)
THEOREM OneTokenNeverStuck ==
    ASSUME \A t, other \in Tokens : UserOf[t] = UserOf[other] => t = other
    PROVE  Spec => [](\A c \in Clients : pc[c] # "stuck")
<1>1. LockInv => \A c \in Clients : pc[c] # "stuck"
  BY DEF LockInv, StuckBehindOther, OtherToken
<1> QED
  BY <1>1, AlwaysLockInv, PTL

-----------------------------------------------------------------------------
(***************************************************************************)
(* Part two: the sharing.  The users of a session are its holders, so that *)
(* the count tells the client that leaves one other behind.                *)
(***************************************************************************)
LEMMA UsedByHolders ==
    ASSUME NEW s \in Sessions
    PROVE  Sharing!UsedBy(s) = Holders(s)
BY RegistryAssumption DEF Sharing!UsedBy, Using, Holders

LEMMA ZeroMeansTwo ==
    ASSUME IInv, Counted, NEW c \in Clients, held[c] \in Sessions,
           pc[c] \in {"running", "unref"}
    PROVE  Dec(refs[held[c]]) = 0
                <=> \E d \in Clients \ {c} : Sharing!UsedBy(held[c]) = {c, d}
<1> DEFINE n == refs[held[c]]
           H == Holders(held[c])
<1>1. n \in 0..(RefMod - 1)
  BY DEF IInv, Typed, TypeOK
<1>2. c \in H /\ H \in SUBSET Clients
  BY DEF Holders
<1>3. /\ IsFiniteSet(H) /\ H # {}
      /\ Cardinality(H) \in 0..(RefMod - 1) /\ Cardinality(H) # 0
      /\ Cardinality(H) % RefMod = Cardinality(H)
  BY <1>2, HoldersBounded, FS_EmptySet
<1>4. Inc(n) = Cardinality(H)
  BY <1>2, <1>3 DEF Counted, InUse, OneShort
<1>5. Cardinality(H) = n + 1
  BY <1>1, <1>3, <1>4, IncValue
<1>6. Dec(n) = 0 <=> n = 1
  <2>1. RefMod \in Nat /\ RefMod > 1
    BY <1>3, RegistryAssumption
  <2> QED
    BY <1>1, <2>1, DecValue
<1>7. /\ IsFiniteSet(H \ {c})
      /\ Cardinality(H \ {c}) = Cardinality(H) - 1
  BY <1>2, <1>3, FS_RemoveElement
<1>8. Cardinality(H \ {c}) = 1 <=> \E d \in Clients \ {c} : H = {c, d}
  <2>1. Cardinality(H \ {c}) = 1 <=> \E d : H \ {c} = {d}
    BY <1>7, FS_Singleton
  <2>2. (\E d : H \ {c} = {d}) <=> \E d \in Clients \ {c} : H = {c, d}
    BY <1>2
  <2> QED
    BY <2>1, <2>2
<1>9. n = 1 <=> Cardinality(H \ {c}) = 1
  BY <1>1, <1>5, <1>7
<1> QED
  BY <1>6, <1>8, <1>9, UsedByHolders

(***************************************************************************)
(* The steps that are none for those who share.                            *)
(***************************************************************************)
LEMMA SharingKept ==
    ASSUME NEW c \in Clients,
           UNCHANGED <<sessions, conn>>, held'[c] = held[c],
           \/ /\ pc[c] \notin {"removing", "closing", "stuck"}
              /\ pc'[c] \notin {"removing", "closing", "stuck"}
           \/ pc'[c] = pc[c],
           \A d \in Clients \ {c} : pc'[d] = pc[d] /\ held'[d] = held[d]
    PROVE  UNCHANGED Sharing!vars
BY DEF Sharing!vars, Using, Closer

(***************************************************************************)
(* A Session object nothing refers to.                                     *)
(***************************************************************************)
LEMMA FreshConnects ==
    ASSUME Typed, NEW s \in Sessions, Fresh(s), conn' = [conn EXCEPT ![s] = "open"]
    PROVE  Sharing!Connect(s)
BY RegistryAssumption
DEF Fresh, Registered, Sharing!Connect, Sharing!Shared, Using, Closer, Typed, TypeOK

LEMMA UnrefLeaves ==
    ASSUME IInv, Counted, NEW c \in Clients, held[c] # NoSession,
           pc[c] \in {"running", "unref"},
           NEW next \in {"locking", "relock"}, UnrefThen(c, next),
           UNCHANGED <<sessions, conn>>
    PROVE  Sharing!Leave(c)
<1> USE RegistryAssumption DEF Goto
<1>0. Typed /\ held[c] \in Sessions
  BY DEF IInv, Typed, TypeOK
<1>1. Using[c] = held[c] /\ Closer[c] = NoSession
  BY DEF Using, Closer
<1>2. Using' = [Using EXCEPT ![c] = NoSession]
  BY <1>0 DEF UnrefThen, Using, Typed, TypeOK
<1>3. Closer' = IF Dec(refs[held[c]]) = 0 THEN [Closer EXCEPT ![c] = held[c]] ELSE Closer
  BY <1>0 DEF UnrefThen, Closer, Typed, TypeOK
<1> QED
  BY <1>0, <1>1, <1>2, <1>3, ZeroMeansTwo DEF Sharing!Leave

-----------------------------------------------------------------------------
LEMMA StepShares ==
    ASSUME IInv, Counted, NEW c \in Clients, Step(c)
    PROVE  [Sharing!Next]_(Sharing!vars)
<1> USE RegistryAssumption DEF Goto
<1>0. Typed
  BY DEF IInv
<1>1. CASE AddClient(c) \/ SessionMissing(c) \/ RemoveClient(c) \/ Relock(c) \/ SessionFailed(c)
           \/ Accept(c) \/ Disconnect(c)
  <2>1. /\ UNCHANGED <<sessions, conn, held>>
        /\ pc[c] \notin {"removing", "closing", "stuck"}
        /\ \E step \in Steps \ {"removing", "closing", "stuck"} : pc' = [pc EXCEPT ![c] = step]
    BY <1>1 DEF AddClient, SessionMissing, RemoveClient, Relock, SessionFailed, Accept,
                Disconnect, Steps
  <2> QED
    BY <1>0, <2>1, SharingKept DEF Typed, TypeOK
<1>2. CASE SessionFound(c)
  <2> DEFINE u == ids[want[c]]
  <2>1. u \in Users /\ sessions[u] # NoSession
    BY <1>0, <1>2 DEF SessionFound, Known, Typed, TypeOK, Places
  <2>2. Using[c] = NoSession /\ Closer[c] = NoSession
    BY <1>0, <1>2 DEF SessionFound, Using, Closer, Typed, Places
  <2>3. Using' = [Using EXCEPT ![c] = sessions[u]] /\ UNCHANGED <<sessions, Closer, conn>>
    BY <1>0, <1>2 DEF SessionFound, Using, Closer, Typed, TypeOK
  <2>4. Sharing!Join(c, u)
    BY <2>1, <2>2, <2>3 DEF Sharing!Join, Sharing!Idle
  <2> QED
    BY <2>1, <2>4 DEF Sharing!Next
<1>3. CASE UnrefOnClose(c)
  <2>1. Sharing!Leave(c)
    BY <1>0, <1>3, UnrefLeaves DEF UnrefOnClose, Typed, Places
  <2> QED
    BY <2>1 DEF Sharing!Next
<1>4. ASSUME NEW t \in Tokens, HandlePassword(c, t)
      PROVE  [Sharing!Next]_(Sharing!vars)
  <2>1. CASE held[c] = NoSession
    BY <1>0, <1>4, <2>1, SharingKept DEF HandlePassword, Typed, TypeOK
  <2>2. CASE held[c] # NoSession
    <3>1. Sharing!Leave(c)
      BY <1>4, <2>2, UnrefLeaves DEF HandlePassword
    <3> QED
      BY <3>1 DEF Sharing!Next
  <2> QED
    BY <2>1, <2>2
<1>5. CASE RemoveSession(c)
  <2>1. CASE Registered(held[c])
    <3>1. Closer[c] = held[c] /\ held[c] # NoSession
      BY <1>0, <1>5 DEF RemoveSession, Closer, Typed, Places
    <3>2. sessions' = Unregister(held[c]) /\ UNCHANGED <<Using, Closer, conn>>
      BY <1>0, <1>5, <2>1 DEF RemoveSession, Using, Closer, Typed, TypeOK
    <3>3. Sharing!Withdraw(c)
      BY <2>1, <3>1, <3>2 DEF Registered, Unregister, Sharing!Withdraw, Sharing!Shared
    <3> QED
      BY <3>3 DEF Sharing!Next
  <2>2. CASE ~Registered(held[c])
    BY <1>5, <2>2, SharingKept DEF RemoveSession
  <2> QED
    BY <2>1, <2>2
<1>6. CASE CloseState(c)
  <2>1. Closer[c] = held[c] /\ held[c] # NoSession /\ ~Registered(held[c])
    BY <1>0, <1>6 DEF CloseState, Closer, IInv, ClosingUnregistered, Typed, Places
  <2>2. Using' = Using /\ Closer' = [Closer EXCEPT ![c] = NoSession]
    BY <1>0, <1>6 DEF CloseState, Using, Closer, Typed, TypeOK
  <2>3. Sharing!Close(c)
    BY <1>6, <2>1, <2>2 DEF CloseState, Registered, Sharing!Close, Sharing!Shared
  <2> QED
    BY <2>3 DEF Sharing!Next
<1>7. CASE SessionCreated(c)
  <2> DEFINE u == UserOf[want[c]]
  <2>1. PICK s \in Sessions :
            /\ Fresh(s)
            /\ conn' = [conn EXCEPT ![s] = "open"]
            /\ sessions' = [sessions EXCEPT ![u] = s]
            /\ held' = [held EXCEPT ![c] = s]
    BY <1>7 DEF SessionCreated, Register
  <2>2. /\ u \in Users /\ sessions[u] = NoSession /\ held[c] = NoSession
        /\ pc[c] = "creating" /\ pc' = [pc EXCEPT ![c] = "running"]
    BY <1>0, <1>7 DEF SessionCreated, Typed, Places
  <2>3. Sharing!Idle(c)
    BY <2>2 DEF Sharing!Idle, Using, Closer
  <2>4. Using' = [Using EXCEPT ![c] = s] /\ Closer' = Closer
    BY <1>0, <2>1, <2>2 DEF Using, Closer, Typed, TypeOK
  <2>5. Sharing!Open(c, u)
    BY <1>0, <2>1, <2>2, <2>3, <2>4, FreshConnects DEF Sharing!Open
  <2> QED
    BY <2>2, <2>5 DEF Sharing!Next
<1>8. CASE SessionDuplicate(c) \/ SessionFailedOpen(c)
  <2>1. PICK s \in Sessions : Fresh(s) /\ conn' = [conn EXCEPT ![s] = "open"]
    BY <1>8 DEF SessionDuplicate, SessionFailedOpen
  <2>2. UNCHANGED <<sessions, Using, Closer>>
    BY <1>0, <1>8 DEF SessionDuplicate, SessionFailedOpen, Using, Closer, Typed, TypeOK, Places
  <2>3. Sharing!Stray
    BY <1>0, <2>1, <2>2, FreshConnects DEF Sharing!Stray
  <2> QED
    BY <2>3 DEF Sharing!Next
<1> QED
  BY <1>1, <1>2, <1>3, <1>4, <1>5, <1>6, <1>7, <1>8
  DEF Step, LockStep, OwnStep, Answer, PeerStep

(***************************************************************************)
(* The server shares sessions as SharedSessions says, for any number of    *)
(* clients below the modulus of the count: the client that leaves one      *)
(* other behind, and no other, closes the session, which is out of the     *)
(* registry by then (server.go:132-210, session.go:78-96).                 *)
(***************************************************************************)
THEOREM ServerImplementsSharing == Spec => ImplementsSharedSessions
<1>1. Init => Sharing!Init
  BY DEF Init, Sharing!Init, Using, Closer
<1>2. IInv /\ Counted /\ [Next]_vars => [Sharing!Next]_(Sharing!vars)
  <2> SUFFICES ASSUME IInv, Counted, [Next]_vars
               PROVE  [Sharing!Next]_(Sharing!vars)
    OBVIOUS
  <2>1. ASSUME NEW c \in Clients, Step(c)
        PROVE  [Sharing!Next]_(Sharing!vars)
    BY <2>1, StepShares
  <2>2. CASE UNCHANGED vars
    BY <2>2 DEF vars, Sharing!vars, Using, Closer
  <2> QED
    BY <2>1, <2>2 DEF Next, Step
<1> QED
  BY <1>1, <1>2, AlwaysIInv, AlwaysCounted, PTL DEF Spec, ImplementsSharedSessions, Sharing!Spec

-----------------------------------------------------------------------------
(***************************************************************************)
(* Part three: a session that is removed twice ends the process.  As long  *)
(* as it is not handed out while somebody is closing it, what two clients  *)
(* use is in the registry and nobody is closing it, so that whoever comes  *)
(* to close it is the only one and finds it there.                         *)
(***************************************************************************)
UsedTwiceRegistered ==
    \A c, d \in Clients :
        c # d /\ Using[c] # NoSession /\ Using[c] = Using[d] /\ Using[c] \notin rejoined
            => Registered(Using[c]) /\ ~Closing(Using[c])

RemovingRegistered ==
    \A c \in Clients :
        pc[c] = "removing" /\ held[c] \notin rejoined => Registered(held[c])

OneRemoves ==
    \A c, d \in Clients :
        c # d /\ pc[c] = "removing" /\ pc[d] = "removing" /\ held[c] = held[d]
            => held[c] \in rejoined

RemoveInv == UsedTwiceRegistered /\ RemovingRegistered /\ OneRemoves

(***************************************************************************)
(* The identity of a session that nobody refers to may be used again.      *)
(***************************************************************************)
LEMMA RemoveKept ==
    ASSUME RemoveInv, NEW c \in Clients, UNCHANGED sessions,
           rejoined' \subseteq rejoined,
           \A s \in rejoined \ rejoined' : \A d \in Clients : held[d] # s,
           Using'[c] \in {Using[c], NoSession}, pc'[c] # "removing",
           \A d \in Clients \ {c} : pc'[d] = pc[d] /\ held'[d] = held[d]
    PROVE  RemoveInv'
<1>1. \A d \in Clients : Using'[d] # NoSession =>
            /\ Using'[d] = Using[d] /\ Using[d] = held[d]
            /\ Using[d] \notin rejoined' => Using[d] \notin rejoined
  BY DEF Using
<1>2. \A s : /\ Registered(s)' <=> Registered(s)
             /\ Closing(s)' => Closing(s)
  BY DEF Registered, Closing
<1>3. \A d \in Clients : pc'[d] = "removing" =>
            /\ d # c /\ pc[d] = "removing" /\ held'[d] = held[d]
            /\ held[d] \notin rejoined' => held[d] \notin rejoined
  OBVIOUS
<1>4. UsedTwiceRegistered'
  BY <1>1, <1>2 DEF RemoveInv, UsedTwiceRegistered
<1>5. RemovingRegistered'
  BY <1>2, <1>3 DEF RemoveInv, RemovingRegistered
<1>6. OneRemoves'
  BY <1>3 DEF RemoveInv, OneRemoves
<1> QED
  BY <1>4, <1>5, <1>6 DEF RemoveInv

(***************************************************************************)
(* A client that comes to use one more session takes it from the registry, *)
(* and the history remembers whether somebody was closing it.              *)
(***************************************************************************)
LEMMA RemoveJoined ==
    ASSUME RemoveInv, Typed, NEW c \in Clients, NEW s \in Sessions,
           \A r \in Sessions : Registered(r) => Registered(r)', Registered(s)',
           s \in rejoined' \/ ~Closing(s),
           \A r \in Sessions \ {s} : r \in rejoined' <=> r \in rejoined,
           Using' = [Using EXCEPT ![c] = s], pc'[c] # "removing",
           \A d \in Clients \ {c} : pc'[d] = pc[d] /\ held'[d] = held[d]
    PROVE  RemoveInv'
<1>1. /\ \A d \in Clients \ {c} : Using'[d] = Using[d]
      /\ Using'[c] = s
      /\ \A d \in Clients : Using[d] \in Sessions \cup {NoSession}
  BY DEF Using, Typed, TypeOK
<1>2. \A r : Closing(r)' => Closing(r)
  BY DEF Closing
<1>3. \A d \in Clients : pc'[d] = "removing" =>
            /\ d # c /\ pc[d] = "removing" /\ held'[d] = held[d] /\ held[d] \in Sessions
            /\ held[d] = s => Closing(s)
  BY DEF Typed, Places, Closing
<1>4. UsedTwiceRegistered'
  <2> SUFFICES ASSUME NEW d \in Clients, NEW e \in Clients, d # e,
                      Using'[d] # NoSession, Using'[d] = Using'[e], Using'[d] \notin rejoined'
               PROVE  Registered(Using[d])' /\ ~Closing(Using[d])'
    BY DEF UsedTwiceRegistered
  <2>1. CASE Using'[d] = s
    <3>1. ~Closing(s)'
      BY <1>2, <2>1 DEF Closing
    <3> QED
      BY <2>1, <3>1 DEF Registered, Closing
  <2>2. CASE Using'[d] # s
    <3>1. /\ Using'[d] = Using[d] /\ Using'[e] = Using[e]
          /\ Using[d] \in Sessions /\ Using[d] \notin rejoined
      BY <1>1, <2>2
    <3>2. Registered(Using[d]) /\ ~Closing(Using[d])
      BY <3>1 DEF RemoveInv, UsedTwiceRegistered
    <3> QED
      BY <1>2, <3>1, <3>2 DEF Registered, Closing
  <2> QED
    BY <2>1, <2>2
<1>5. RemovingRegistered'
  <2> SUFFICES ASSUME NEW d \in Clients, pc'[d] = "removing", held'[d] \notin rejoined'
               PROVE  Registered(held[d])'
    BY DEF RemovingRegistered
  <2>1. held'[d] # s /\ held[d] \notin rejoined
    BY <1>3
  <2>2. Registered(held[d])
    BY <1>3, <2>1 DEF RemoveInv, RemovingRegistered
  <2> QED
    BY <1>3, <2>2 DEF Registered
<1>6. OneRemoves'
  BY <1>3 DEF RemoveInv, OneRemoves
<1> QED
  BY <1>4, <1>5, <1>6 DEF RemoveInv

LEMMA UnrefRemoves ==
    ASSUME IInv, Counted, RemoveInv, NEW c \in Clients, held[c] # NoSession,
           pc[c] \in {"running", "unref"},
           NEW next \in {"locking", "relock"}, UnrefThen(c, next),
           UNCHANGED <<sessions, rejoined>>
    PROVE  RemoveInv'
<1> USE RegistryAssumption DEF Goto
<1>0. Typed /\ held[c] \in Sessions
  BY DEF IInv, Typed, TypeOK
<1>1. CASE Dec(refs[held[c]]) # 0
  <2>1. /\ pc' = [pc EXCEPT ![c] = next] /\ held' = [held EXCEPT ![c] = NoSession]
    BY <1>1 DEF UnrefThen
  <2>2. Using'[c] = NoSession
    BY <1>0, <2>1 DEF Using, Typed, TypeOK
  <2> QED
    BY <1>0, <2>1, <2>2, RemoveKept DEF Typed, TypeOK
<1>2. CASE Dec(refs[held[c]]) = 0
  <2>1. pc' = [pc EXCEPT ![c] = "removing"] /\ held' = held
    BY <1>2 DEF UnrefThen
  <2>2. PICK d \in Clients \ {c} : Sharing!UsedBy(held[c]) = {c, d}
    BY <1>0, <1>2, ZeroMeansTwo
  <2>3. /\ Using[c] = held[c] /\ Using[d] = held[c]
        /\ \A e \in Clients : Using[e] = held[c] => e = c \/ e = d
    BY <1>0, <2>2 DEF Sharing!UsedBy, Using
  <2>4. held[c] \in rejoined \/ (Registered(held[c]) /\ ~Closing(held[c]))
    BY <1>0, <2>3 DEF RemoveInv, UsedTwiceRegistered
  <2>5. Using' = [Using EXCEPT ![c] = NoSession]
    BY <1>0, <2>1 DEF Using, Typed, TypeOK
  <2>6. \A e \in Clients : Using'[e] # NoSession =>
            e # c /\ Using'[e] = Using[e]
    BY <2>5 DEF Using
  <2>7. \A s : /\ Registered(s)' <=> Registered(s)
               /\ Closing(s)' => Closing(s) \/ s = held[c]
    BY <1>0, <2>1 DEF Registered, Closing, Typed, TypeOK
  <2>8. UsedTwiceRegistered'
    <3> SUFFICES ASSUME NEW e \in Clients, NEW f \in Clients, e # f,
                        Using'[e] # NoSession, Using'[e] = Using'[f], Using'[e] \notin rejoined
                 PROVE  Registered(Using[e])' /\ ~Closing(Using[e])'
      BY DEF UsedTwiceRegistered
    <3>1. /\ e # c /\ f # c
          /\ Using'[e] = Using[e] /\ Using'[f] = Using[f]
      BY <2>6
    <3>2. Using[e] # held[c]
      BY <2>3, <3>1
    <3>3. Registered(Using[e]) /\ ~Closing(Using[e])
      BY <3>1 DEF RemoveInv, UsedTwiceRegistered
    <3>4. \A s : s = Using[e] => ~Closing(s)' /\ Registered(s)'
      BY <2>7, <3>2, <3>3
    <3> QED
      BY <3>1, <3>4 DEF Registered, Closing
  <2>9. RemovingRegistered'
    BY <1>0, <2>1, <2>4 DEF RemoveInv, RemovingRegistered, Registered, Typed, TypeOK
  <2>10. OneRemoves'
    BY <1>0, <2>1, <2>4 DEF RemoveInv, OneRemoves, Closing, Typed, TypeOK
  <2> QED
    BY <2>8, <2>9, <2>10 DEF RemoveInv
<1> QED
  BY <1>1, <1>2

LEMMA SessionRemoved ==
    ASSUME Typed, RemoveInv, NEW c \in Clients, RemoveSession(c), Registered(held[c])
    PROVE  RemoveInv'
<1> USE RegistryAssumption DEF Goto
<1>1. /\ pc[c] = "removing" /\ pc' = [pc EXCEPT ![c] = "closing"]
      /\ sessions' = Unregister(held[c]) /\ UNCHANGED <<held, rejoined>>
  BY DEF RemoveSession
<1>2. \A s \in Sessions : Registered(s)' <=> Registered(s) /\ s # held[c]
  BY <1>1 DEF Unregister, Registered, Typed, TypeOK
<1>3. \A s : Closing(s)' => Closing(s)
  BY <1>1 DEF Closing, Typed, TypeOK
<1>4. Using' = Using /\ \A d \in Clients : Using[d] \in Sessions \cup {NoSession}
  BY <1>1 DEF Using, Typed, TypeOK
<1>5. UsedTwiceRegistered'
  <2> SUFFICES ASSUME NEW d \in Clients, NEW e \in Clients, d # e,
                      Using[d] # NoSession, Using[d] = Using[e], Using[d] \notin rejoined
               PROVE  Registered(Using[d])' /\ ~Closing(Using[d])'
    BY <1>1, <1>4 DEF UsedTwiceRegistered
  <2>1. Registered(Using[d]) /\ ~Closing(Using[d])
    BY DEF RemoveInv, UsedTwiceRegistered
  <2>2. Using[d] # held[c] /\ Using[d] \in Sessions
    BY <1>1, <1>4, <2>1 DEF Closing
  <2>3. \A s \in Sessions : s = Using[d] => Registered(s)' /\ ~Closing(s)'
    BY <1>2, <1>3, <2>1, <2>2
  <2> QED
    BY <1>4, <2>2, <2>3 DEF Registered, Closing
<1>6. RemovingRegistered'
  <2> SUFFICES ASSUME NEW d \in Clients, pc'[d] = "removing", held[d] \notin rejoined
               PROVE  Registered(held[d])'
    BY <1>1 DEF RemovingRegistered
  <2>1. d # c /\ pc[d] = "removing" /\ held'[d] = held[d] /\ held[d] \in Sessions
    BY <1>1 DEF Typed, TypeOK, Places
  <2>2. Registered(held[d]) /\ held[d] # held[c]
    BY <1>1, <2>1 DEF RemoveInv, RemovingRegistered, OneRemoves
  <2> QED
    BY <1>2, <2>1, <2>2 DEF Registered
<1>7. OneRemoves'
  BY <1>1 DEF RemoveInv, OneRemoves, Typed, TypeOK
<1> QED
  BY <1>5, <1>6, <1>7 DEF RemoveInv

LEMMA StepRemoves ==
    ASSUME IInv, Counted, RemoveInv, NEW c \in Clients, Step(c)
    PROVE  RemoveInv'
<1> USE RegistryAssumption DEF Goto
<1>0. Typed
  BY DEF IInv
<1>1. CASE AddClient(c) \/ SessionMissing(c) \/ RemoveClient(c) \/ Relock(c) \/ SessionFailed(c)
           \/ Accept(c) \/ Disconnect(c)
  <2>1. /\ UNCHANGED <<sessions, held, rejoined>>
        /\ pc[c] \notin {"removing", "closing", "stuck"}
        /\ \E step \in Steps \ {"removing", "closing", "stuck"} : pc' = [pc EXCEPT ![c] = step]
    BY <1>1 DEF AddClient, SessionMissing, RemoveClient, Relock, SessionFailed,
                Accept, Disconnect, Steps
  <2>2. Using'[c] = Using[c]
    BY <1>0, <2>1 DEF Using, Typed, TypeOK
  <2> QED
    BY <1>0, <2>1, <2>2, RemoveKept DEF Typed, TypeOK
<1>2. CASE SessionFound(c)
  <2> DEFINE s == sessions[ids[want[c]]]
  <2>1. ids[want[c]] \in Users /\ s \in Sessions
    BY <1>0, <1>2 DEF SessionFound, Known, Typed, TypeOK, Places
  <2>2. Using' = [Using EXCEPT ![c] = s]
    BY <1>0, <1>2 DEF SessionFound, Using, Typed, TypeOK
  <2>3. /\ UNCHANGED sessions /\ pc'[c] # "removing"
        /\ rejoined' = IF Closing(s) THEN rejoined \cup {s} ELSE rejoined
        /\ \A d \in Clients \ {c} : pc'[d] = pc[d] /\ held'[d] = held[d]
    BY <1>0, <1>2 DEF SessionFound, Typed, TypeOK
  <2>4. \A r : Registered(r)' <=> Registered(r)
    BY <2>3 DEF Registered
  <2>5. Registered(s)
    BY <2>1 DEF Registered
  <2>6. /\ s \in rejoined' \/ ~Closing(s)
        /\ \A r \in Sessions \ {s} : r \in rejoined' <=> r \in rejoined
    BY <2>3
  <2>7. \A r : r = s => Registered(r)'
    BY <2>4, <2>5
  <2> HIDE DEF s
  <2> QED
    BY <1>0, <2>1, <2>2, <2>3, <2>4, <2>6, <2>7, RemoveJoined
<1>3. CASE UnrefOnClose(c)
  BY <1>0, <1>3, UnrefRemoves DEF UnrefOnClose, Typed, Places
<1>4. ASSUME NEW t \in Tokens, HandlePassword(c, t)
      PROVE  RemoveInv'
  <2>1. CASE held[c] = NoSession
    <3>1. /\ UNCHANGED <<sessions, held, rejoined>>
          /\ pc[c] = "running" /\ pc' = [pc EXCEPT ![c] = "locking"]
      BY <1>4, <2>1 DEF HandlePassword
    <3>2. Using'[c] = Using[c]
      BY <1>0, <3>1 DEF Using, Typed, TypeOK
    <3> QED
      BY <1>0, <3>1, <3>2, RemoveKept DEF Typed, TypeOK
  <2>2. CASE held[c] # NoSession
    BY <1>4, <2>2, UnrefRemoves DEF HandlePassword
  <2> QED
    BY <2>1, <2>2
<1>5. CASE RemoveSession(c)
  <2>1. CASE Registered(held[c])
    BY <1>0, <1>5, <2>1, SessionRemoved
  <2>2. CASE ~Registered(held[c])
    BY <1>5, <2>2 DEF RemoveSession, RemoveInv, UsedTwiceRegistered, RemovingRegistered,
                      OneRemoves, Using, Registered, Closing
  <2> QED
    BY <2>1, <2>2
<1>6. CASE CloseState(c)
  <2>1. /\ UNCHANGED <<sessions, rejoined>> /\ pc'[c] # "removing" /\ held'[c] = NoSession
        /\ \A d \in Clients \ {c} : pc'[d] = pc[d] /\ held'[d] = held[d]
    BY <1>0, <1>6 DEF CloseState, Typed, TypeOK
  <2>2. Using'[c] = NoSession
    BY <2>1 DEF Using
  <2> QED
    BY <2>1, <2>2, RemoveKept
<1>7. CASE SessionCreated(c)
  <2> DEFINE u == UserOf[want[c]]
  <2>1. PICK s \in Sessions :
            /\ Fresh(s)
            /\ rejoined' = rejoined \ {s}
            /\ sessions' = [sessions EXCEPT ![u] = s]
            /\ held' = [held EXCEPT ![c] = s]
    BY <1>7 DEF SessionCreated, Register
  <2>2. /\ u \in Users /\ sessions[u] = NoSession
        /\ pc[c] = "creating" /\ pc' = [pc EXCEPT ![c] = "running"]
    BY <1>0, <1>7 DEF SessionCreated, Typed, Places
  <2>3. Using' = [Using EXCEPT ![c] = s]
    BY <1>0, <2>1, <2>2 DEF Using, Typed, TypeOK
  <2>4. Registered(s)' /\ \A r \in Sessions : Registered(r) => Registered(r)'
    BY <1>0, <2>1, <2>2 DEF Registered, Typed, TypeOK
  <2>5. pc'[c] # "removing" /\ \A d \in Clients \ {c} : pc'[d] = pc[d] /\ held'[d] = held[d]
    BY <1>0, <2>1, <2>2 DEF Typed, TypeOK
  <2>6. ~Closing(s) /\ \A r \in Sessions \ {s} : r \in rejoined' <=> r \in rejoined
    BY <2>1 DEF Fresh, Closing
  <2> QED
    BY <1>0, <2>3, <2>4, <2>5, <2>6, RemoveJoined
<1>8. CASE SessionDuplicate(c)
  <2>1. PICK s \in Sessions : Fresh(s) /\ rejoined' = rejoined \ {s}
    BY <1>8 DEF SessionDuplicate
  <2>2. /\ pc' = [pc EXCEPT ![c] = "stuck"] /\ UNCHANGED sessions
        /\ \A d \in Clients \ {c} : held'[d] = held[d]
    BY <1>0, <1>8 DEF SessionDuplicate, Typed, TypeOK
  <2>3. Using'[c] = NoSession
    BY <1>0, <2>2 DEF Using, Typed, TypeOK
  <2> QED
    BY <1>0, <2>1, <2>2, <2>3, RemoveKept DEF Fresh, Typed, TypeOK
<1>9. CASE SessionFailedOpen(c)
  <2>1. PICK s \in Sessions : Fresh(s) /\ rejoined' = rejoined \ {s}
    BY <1>9 DEF SessionFailedOpen
  <2>2. pc[c] = "creating" /\ pc' = [pc EXCEPT ![c] = "leaving"] /\ UNCHANGED <<sessions, held>>
    BY <1>9 DEF SessionFailedOpen
  <2>3. Using'[c] = Using[c]
    BY <1>0, <2>2 DEF Using, Typed, TypeOK
  <2> QED
    BY <1>0, <2>1, <2>2, <2>3, RemoveKept DEF Fresh, Typed, TypeOK
<1> QED
  BY <1>1, <1>2, <1>3, <1>4, <1>5, <1>6, <1>7, <1>8, <1>9
  DEF Step, LockStep, OwnStep, Answer, PeerStep

(***************************************************************************)
(* Whoever is about to panic removes a session that was handed out while   *)
(* somebody was closing it (server.go:209).                                *)
(***************************************************************************)
LEMMA StepPanics ==
    ASSUME Typed, RemoveInv, ~panicked, NEW c \in Clients, Step(c)
    PROVE  PanicsOnlyRejoined'
<1>1. CASE RemoveSession(c) /\ ~Registered(held[c])
  BY <1>1 DEF RemoveSession, RemoveInv, RemovingRegistered, PanicsOnlyRejoined
<1>2. CASE ~(RemoveSession(c) /\ ~Registered(held[c]))
  <2>1. panicked' = panicked
    BY <1>2
    DEF Step, LockStep, OwnStep, Answer, PeerStep, AddClient, RemoveSession, SessionFound,
        SessionMissing, RemoveClient, Relock, CloseState, UnrefOnClose, SessionCreated,
        SessionDuplicate, SessionFailed, SessionFailedOpen, Accept, Disconnect, HandlePassword
  <2> QED
    BY <2>1 DEF PanicsOnlyRejoined
<1> QED
  BY <1>1, <1>2

(***************************************************************************)
(* For any number of clients the panic of removeSession takes a login that *)
(* is handed a session which a goroutine has decided to close, and nothing *)
(* less (server.go:146-154 and 193-209, session.go:83-96).                 *)
(***************************************************************************)
THEOREM PanicNeedsRejoin == Spec => []PanicsOnlyRejoined
<1>1. Init => RemoveInv /\ PanicsOnlyRejoined
  BY DEF Init, RemoveInv, UsedTwiceRegistered, RemovingRegistered, OneRemoves, Using,
         PanicsOnlyRejoined
<1>2. IInv /\ Counted /\ RemoveInv /\ PanicsOnlyRejoined /\ [Next]_vars
        => RemoveInv' /\ PanicsOnlyRejoined'
  <2> SUFFICES ASSUME IInv, Counted, RemoveInv, PanicsOnlyRejoined, [Next]_vars
               PROVE  RemoveInv' /\ PanicsOnlyRejoined'
    OBVIOUS
  <2>1. ASSUME ~panicked, NEW c \in Clients, Step(c)
        PROVE  RemoveInv' /\ PanicsOnlyRejoined'
    BY <2>1, StepRemoves, StepPanics DEF IInv
  <2>2. CASE UNCHANGED vars
    BY <2>2 DEF vars, RemoveInv, UsedTwiceRegistered, RemovingRegistered, OneRemoves, Using,
                Registered, Closing, PanicsOnlyRejoined
  <2> QED
    BY <2>1, <2>2 DEF Next, Step
<1> QED
  BY <1>1, <1>2, AlwaysIInv, AlwaysCounted, PTL DEF Spec
=============================================================================
