------------------------ MODULE SessionRegistryProofs -----------------------
(***************************************************************************)
(* Theorems about SessionRegistry, for any clients, tokens, users and      *)
(* session objects.                                                        *)
(***************************************************************************)
EXTENDS SessionRegistry, FiniteSetTheorems, TLAPS

(***************************************************************************)
(* What the place of a goroutine says of its client: which steps have a    *)
(* session in their hands, which have none, and which log in.              *)
(***************************************************************************)
Places ==
    \A c \in Clients :
        /\ pc[c] \in {"removing", "closing", "stuck", "unref"} => held[c] \in Sessions
        /\ pc[c] \in {"away", "adding", "locking", "creating", "relock"} => held[c] = NoSession
        /\ pc[c] \in {"locking", "creating"} => want[c] \in Tokens

(***************************************************************************)
(* What Server.session hands out is taken from the registry, so that has   *)
(* to hold open sessions only; and a client about to close the connection  *)
(* of a session must have taken the session out before.                    *)
(***************************************************************************)
RegisteredOpen == \A u \in Users : sessions[u] # NoSession => conn[sessions[u]] = "open"

ClosingUnregistered == \A c \in Clients : pc[c] = "closing" => ~Registered(held[c])

Typed == TypeOK /\ Places

IInv == Typed /\ RegisteredOpen /\ ClosingUnregistered /\ NoOtherLeak

-----------------------------------------------------------------------------
(***************************************************************************)
(* The count modulo RefMod.                                                *)
(***************************************************************************)
LEMMA IncValue ==
    ASSUME NEW n \in 0..(RefMod - 1)
    PROVE  /\ Inc(n) = IF n = RefMod - 1 THEN 0 ELSE n + 1
           /\ Inc(n) \in 0..(RefMod - 1)
BY RegistryAssumption DEF Inc

LEMMA DecValue ==
    ASSUME NEW n \in 0..(RefMod - 1)
    PROVE  /\ Dec(n) = IF n = 0 THEN RefMod - 1 ELSE n - 1
           /\ Dec(n) \in 0..(RefMod - 1)
BY RegistryAssumption DEF Dec

(***************************************************************************)
(* Unref, wherever it is called: the count stays in its range, and the     *)
(* client goes on either to close the session it holds or without one.     *)
(***************************************************************************)
LEMMA UnrefTyped ==
    ASSUME Typed, NEW c \in Clients, held[c] # NoSession,
           NEW next \in {"locking", "relock"}, UnrefThen(c, next)
    PROVE  /\ refs' \in [Sessions -> 0..(RefMod - 1)]
           /\ \/ pc' = [pc EXCEPT ![c] = "removing"] /\ held' = held
              \/ pc' = [pc EXCEPT ![c] = next] /\ held' = [held EXCEPT ![c] = NoSession]
<1>1. held[c] \in Sessions
  BY DEF Typed, TypeOK
<1>2. Dec(refs[held[c]]) \in 0..(RefMod - 1)
  BY <1>1, DecValue DEF Typed, TypeOK
<1> QED
  BY <1>1, <1>2 DEF UnrefThen, Goto, Typed, TypeOK

-----------------------------------------------------------------------------
(***************************************************************************)
(* The types and places, one action at a time.                             *)
(***************************************************************************)
Step(c) == LockStep(c) \/ OwnStep(c) \/ Answer(c) \/ PeerStep(c)

LEMMA StepTyped ==
    ASSUME Typed, NEW c \in Clients, Step(c)
    PROVE  Typed'
<1> USE RegistryAssumption DEF Typed, Goto
<1>1. CASE AddClient(c)
  BY <1>1 DEF AddClient, TypeOK, Places, Steps
<1>2. CASE RemoveSession(c)
  <2>1. panicked' \in BOOLEAN
    BY <1>2 DEF RemoveSession, TypeOK
  <2>2. sessions' \in [Users -> Sessions \cup {NoSession}]
    BY <1>2 DEF RemoveSession, Unregister, TypeOK
  <2>3. pc' \in [Clients -> Steps]
    BY <1>2 DEF RemoveSession, TypeOK, Steps
  <2>4. TypeOK'
    BY <1>2, <2>1, <2>2, <2>3 DEF RemoveSession, TypeOK
  <2> QED
    BY <1>2, <2>4 DEF RemoveSession, TypeOK, Places
<1>3. CASE SessionFound(c)
  <2> DEFINE s == sessions[ids[want[c]]]
  <2>1. want[c] \in Tokens /\ s \in Sessions
    BY <1>3 DEF SessionFound, Known, TypeOK, Places
  <2>2. Inc(refs[s]) \in 0..(RefMod - 1)
    BY <2>1, IncValue DEF TypeOK
  <2> QED
    BY <1>3, <2>1, <2>2 DEF SessionFound, TypeOK, Places, Steps
<1>4. CASE SessionMissing(c)
  BY <1>4 DEF SessionMissing, TypeOK, Places, Steps
<1>5. CASE RemoveClient(c)
  BY <1>5 DEF RemoveClient, TypeOK, Places, Steps
<1>6. CASE Relock(c)
  BY <1>6 DEF Relock, TypeOK, Places, Steps
<1>7. CASE CloseState(c)
  BY <1>7 DEF CloseState, TypeOK, Places, Steps
<1>8. CASE UnrefOnClose(c)
  <2>1. held[c] # NoSession
    BY <1>8 DEF UnrefOnClose, Places
  <2> QED
    BY <1>8, <2>1, UnrefTyped DEF UnrefOnClose, TypeOK, Places, Steps
<1>9. CASE SessionCreated(c)
  BY <1>9 DEF SessionCreated, Unlock, Register, TypeOK, Places, Steps
<1>10. CASE SessionDuplicate(c)
  BY <1>10 DEF SessionDuplicate, TypeOK, Places, Steps
<1>11. CASE SessionFailed(c)
  BY <1>11 DEF SessionFailed, Unlock, TypeOK, Places, Steps
<1>12. CASE SessionFailedOpen(c)
  BY <1>12 DEF SessionFailedOpen, Unlock, TypeOK, Places, Steps
<1>13. CASE Accept(c)
  BY <1>13 DEF Accept, TypeOK, Places, Steps
<1>14. CASE Disconnect(c)
  BY <1>14 DEF Disconnect, TypeOK, Places, Steps
<1>15. ASSUME NEW t \in Tokens, HandlePassword(c, t)
       PROVE  Typed'
  <2>1. CASE held[c] = NoSession
    BY <1>15, <2>1 DEF HandlePassword, TypeOK, Places, Steps
  <2>2. CASE held[c] # NoSession
    BY <1>15, <2>2, UnrefTyped DEF HandlePassword, TypeOK, Places, Steps
  <2> QED
    BY <2>1, <2>2
<1> QED
  BY <1>1, <1>2, <1>3, <1>4, <1>5, <1>6, <1>7, <1>8, <1>9, <1>10, <1>11, <1>12, <1>13,
     <1>14, <1>15
  DEF Step, LockStep, OwnStep, Answer, PeerStep

LEMMA InitTyped == Init => Typed
<1> SUFFICES ASSUME Init
             PROVE  Typed
  OBVIOUS
<1>1. panicked \in BOOLEAN
  BY DEF Init
<1>2. refs \in [Sessions -> 0..(RefMod - 1)]
  <2>1. RefMod \in Nat /\ RefMod >= 1
    BY RegistryAssumption, FS_CardinalityType
  <2> QED
    BY <2>1 DEF Init
<1> QED
  BY <1>1, <1>2 DEF Init, Typed, TypeOK, Places, Steps

-----------------------------------------------------------------------------
(***************************************************************************)
(* Most steps touch neither the registry nor a connection, and concern a   *)
(* client that is not about to close one.                                  *)
(***************************************************************************)
LEMMA Quiet ==
    ASSUME IInv, NEW c \in Clients,
           UNCHANGED <<sessions, conn, leaked>>,
           pc[c] \notin {"closing", "stuck"}, pc'[c] # "closing",
           \A d \in Clients \ {c} : pc'[d] = pc[d] /\ held'[d] = held[d]
    PROVE  RegisteredOpen' /\ ClosingUnregistered' /\ NoOtherLeak'
BY DEF IInv, RegisteredOpen, ClosingUnregistered, NoOtherLeak, Registered

LEMMA StepIInv ==
    ASSUME IInv, NEW c \in Clients, Step(c)
    PROVE  IInv'
<1> USE RegistryAssumption DEF Goto
<1> DEFINE Rest == RegisteredOpen /\ ClosingUnregistered /\ NoOtherLeak
<1>0. Typed'
  BY StepTyped DEF IInv
<1> SUFFICES Rest'
  BY <1>0 DEF IInv
<1>1. CASE AddClient(c) \/ SessionMissing(c) \/ RemoveClient(c) \/ Relock(c) \/ SessionFailed(c)
           \/ Accept(c) \/ Disconnect(c)
  <2>1. /\ UNCHANGED <<sessions, conn, leaked, held>>
        /\ pc[c] \notin {"closing", "stuck"}
        /\ \E step \in Steps \ {"closing"} : pc' = [pc EXCEPT ![c] = step]
    BY <1>1 DEF AddClient, SessionMissing, RemoveClient, Relock, SessionFailed, Accept,
                Disconnect, Steps
  <2> QED
    BY <2>1, Quiet DEF IInv, Typed, TypeOK
<1>2. CASE SessionFound(c)
  BY <1>2, Quiet DEF SessionFound, IInv, Typed, TypeOK
<1>3. CASE UnrefOnClose(c)
  <2>1. held[c] # NoSession
    BY <1>3 DEF UnrefOnClose, IInv, Typed, Places
  <2> QED
    BY <1>3, <2>1, Quiet, UnrefTyped DEF UnrefOnClose, IInv, Typed, TypeOK
<1>4. ASSUME NEW t \in Tokens, HandlePassword(c, t)
      PROVE  Rest'
  <2>1. CASE held[c] = NoSession
    BY <1>4, <2>1, Quiet DEF HandlePassword, IInv, Typed, TypeOK
  <2>2. CASE held[c] # NoSession
    BY <1>4, <2>2, Quiet, UnrefTyped DEF HandlePassword, IInv, Typed, TypeOK
  <2> QED
    BY <2>1, <2>2
<1>5. CASE RemoveSession(c)
  <2>1. CASE Registered(held[c])
    <3>1. /\ sessions' = Unregister(held[c])
          /\ pc' = [pc EXCEPT ![c] = "closing"]
          /\ UNCHANGED <<conn, held, leaked>>
      BY <1>5, <2>1 DEF RemoveSession
    <3>2. held[c] # NoSession
      BY <1>5 DEF RemoveSession, IInv, Typed, Places
    <3>3. \A s \in Sessions : Registered(s)' <=> Registered(s) /\ s # held[c]
      BY <3>1 DEF Unregister, Registered, IInv, Typed, TypeOK
    <3>4. RegisteredOpen'
      BY <3>1 DEF Unregister, RegisteredOpen, IInv, Typed, TypeOK
    <3>5. ClosingUnregistered'
      BY <1>0, <3>1, <3>2, <3>3 DEF ClosingUnregistered, IInv, Typed, Places, TypeOK
    <3>6. NoOtherLeak'
      BY <3>1, <3>3, <1>5 DEF NoOtherLeak, RemoveSession, IInv, Typed, TypeOK
    <3> QED
      BY <3>4, <3>5, <3>6
  <2>2. CASE ~Registered(held[c])
    BY <1>5, <2>2, Quiet DEF RemoveSession, IInv
  <2> QED
    BY <2>1, <2>2
<1>6. CASE CloseState(c)
  <2>1. ~Registered(held[c]) /\ held[c] \in Sessions
    BY <1>6 DEF CloseState, IInv, ClosingUnregistered, Typed, Places
  <2>2. RegisteredOpen'
    BY <1>6, <2>1 DEF CloseState, Registered, RegisteredOpen, IInv, Typed, TypeOK
  <2>3. ClosingUnregistered'
    BY <1>6 DEF CloseState, Registered, ClosingUnregistered, IInv, Typed, TypeOK
  <2>4. NoOtherLeak'
    BY <1>6, <2>1 DEF CloseState, Registered, NoOtherLeak, IInv, Typed, TypeOK
  <2> QED
    BY <2>2, <2>3, <2>4
<1>7. CASE SessionCreated(c)
  <2>1. PICK s \in Sessions :
            /\ Fresh(s)
            /\ conn' = [conn EXCEPT ![s] = "open"]
            /\ sessions' = [sessions EXCEPT ![UserOf[want[c]]] = s]
            /\ held' = [held EXCEPT ![c] = s]
    BY <1>7 DEF SessionCreated, Register
  <2>2. /\ UserOf[want[c]] \in Users /\ sessions[UserOf[want[c]]] = NoSession
        /\ pc[c] = "creating" /\ pc' = [pc EXCEPT ![c] = "running"]
        /\ leaked' = leaked
    BY <1>7 DEF SessionCreated, IInv, Typed, Places
  <2>3. \A r \in Sessions : Registered(r)' <=> Registered(r) \/ r = s
    BY <2>1, <2>2 DEF Registered, IInv, Typed, TypeOK
  <2>4. RegisteredOpen'
    BY <2>1, <2>2 DEF RegisteredOpen, IInv, Typed, TypeOK
  <2>5. ClosingUnregistered'
    <3> SUFFICES ASSUME NEW d \in Clients, pc'[d] = "closing"
                 PROVE  ~Registered(held[d])'
      BY DEF ClosingUnregistered
    <3>1. d # c /\ pc[d] = "closing" /\ held'[d] = held[d] /\ held[d] \in Sessions
      BY <2>1, <2>2 DEF IInv, Typed, TypeOK, Places
    <3>2. held[d] # s /\ ~Registered(held[d])
      BY <3>1, <2>1 DEF Fresh, IInv, ClosingUnregistered
    <3> QED
      BY <3>1, <3>2, <2>3 DEF Registered
  <2>6. NoOtherLeak'
    BY <2>1, <2>2, <2>3 DEF NoOtherLeak, IInv, Typed, TypeOK
  <2> QED
    BY <2>4, <2>5, <2>6
<1>8. CASE SessionDuplicate(c)
  <2>1. PICK s \in Sessions :
            /\ Fresh(s)
            /\ conn' = [conn EXCEPT ![s] = "open"]
            /\ held' = [held EXCEPT ![c] = s]
    BY <1>8 DEF SessionDuplicate
  <2>2. /\ pc[c] = "creating" /\ pc' = [pc EXCEPT ![c] = "stuck"]
        /\ UNCHANGED <<sessions, leaked>>
    BY <1>8 DEF SessionDuplicate
  <2>3. RegisteredOpen' /\ ClosingUnregistered'
    BY <2>1, <2>2 DEF Fresh, Registered, RegisteredOpen, ClosingUnregistered, IInv, Typed, TypeOK
  <2>4. NoOtherLeak'
    BY <2>1, <2>2 DEF Registered, NoOtherLeak, IInv, Typed, TypeOK
  <2> QED
    BY <2>3, <2>4
<1>9. CASE SessionFailedOpen(c)
  <2>1. PICK s \in Sessions :
            /\ Fresh(s)
            /\ conn' = [conn EXCEPT ![s] = "open"]
            /\ leaked' = leaked \cup {s}
    BY <1>9 DEF SessionFailedOpen
  <2>2. /\ pc[c] = "creating" /\ pc' = [pc EXCEPT ![c] = "leaving"]
        /\ UNCHANGED <<sessions, held>>
    BY <1>9 DEF SessionFailedOpen
  <2>3. RegisteredOpen' /\ ClosingUnregistered'
    BY <2>1, <2>2 DEF Fresh, Registered, RegisteredOpen, ClosingUnregistered, IInv, Typed, TypeOK
  <2>4. NoOtherLeak'
    BY <2>1, <2>2 DEF Registered, NoOtherLeak, IInv, Typed, TypeOK
  <2> QED
    BY <2>3, <2>4
<1> QED
  BY <1>1, <1>2, <1>3, <1>4, <1>5, <1>6, <1>7, <1>8, <1>9
  DEF Step, LockStep, OwnStep, Answer, PeerStep

LEMMA AlwaysIInv == Spec => []IInv
<1>1. Init => IInv
  BY InitTyped, RegistryAssumption
  DEF Init, IInv, RegisteredOpen, ClosingUnregistered, NoOtherLeak
<1>2. IInv /\ [Next]_vars => IInv'
  <2> SUFFICES ASSUME IInv, [Next]_vars
               PROVE  IInv'
    OBVIOUS
  <2>1. ASSUME NEW c \in Clients, Step(c)
        PROVE  IInv'
    BY <2>1, StepIInv
  <2>2. CASE UNCHANGED vars
    BY <2>2 DEF vars, IInv, Typed, TypeOK, Places, RegisteredOpen, ClosingUnregistered,
                NoOtherLeak, Registered
  <2> QED
    BY <2>1, <2>2 DEF Next, Step
<1> QED
  BY <1>1, <1>2, PTL DEF Spec

-----------------------------------------------------------------------------
(***************************************************************************)
(* The count, step by step.  A client more or less that holds the session  *)
(* changes the count by one, and never beyond the number of clients, so    *)
(* that the modulus does not matter.                                       *)
(***************************************************************************)
OneShort(s) == Inc(refs[s]) = Cardinality(Holders(s)) % RefMod

LEMMA HoldersBounded ==
    ASSUME NEW S \in SUBSET Clients
    PROVE  /\ IsFiniteSet(S)
           /\ Cardinality(S) \in 0..(RefMod - 1)
           /\ Cardinality(S) % RefMod = Cardinality(S)
<1>1. IsFiniteSet(S) /\ Cardinality(S) <= Cardinality(Clients)
  BY RegistryAssumption, FS_Subset
<1>2. Cardinality(S) \in Nat /\ Cardinality(Clients) \in Nat
  BY <1>1, RegistryAssumption, FS_CardinalityType
<1>3. Cardinality(S) \in 0..(RefMod - 1)
  BY <1>1, <1>2, RegistryAssumption
<1>4. \A n \in 0..(RefMod - 1) : n % RefMod = n
  BY RegistryAssumption
<1> QED
  BY <1>1, <1>3, <1>4

LEMMA CountUp ==
    ASSUME NEW n \in 0..(RefMod - 1), NEW S \in SUBSET Clients, NEW c \in Clients \ S,
           Inc(n) = Cardinality(S) % RefMod
    PROVE  Inc(Inc(n)) = Cardinality(S \cup {c}) % RefMod
<1>1. Cardinality(S \cup {c}) = Cardinality(S) + 1
  BY HoldersBounded, FS_AddElement
<1>2. Inc(n) = Cardinality(S)
  BY HoldersBounded
<1>3. Cardinality(S) + 1 \in 0..(RefMod - 1)
  BY <1>1, HoldersBounded
<1>4. Inc(Inc(n)) = Inc(n) + 1
  BY <1>2, <1>3, IncValue, RegistryAssumption
<1> QED
  BY <1>1, <1>2, <1>4, HoldersBounded

LEMMA CountDown ==
    ASSUME NEW n \in 0..(RefMod - 1), NEW S \in SUBSET Clients, NEW c \in S,
           Inc(n) = Cardinality(S) % RefMod
    PROVE  Inc(Dec(n)) = Cardinality(S \ {c}) % RefMod
<1>1. Cardinality(S \ {c}) = Cardinality(S) - 1
  BY HoldersBounded, FS_RemoveElement
<1>2. Inc(n) = Cardinality(S)
  BY HoldersBounded
<1>3. Cardinality(S) - 1 \in 0..(RefMod - 1)
  BY <1>1, HoldersBounded
<1>4. Inc(Dec(n)) = Cardinality(S) - 1
  BY <1>2, <1>3, IncValue, DecValue, RegistryAssumption
<1> QED
  BY <1>1, <1>4, HoldersBounded

(***************************************************************************)
(* The count of a session that has left the registry matters as long as    *)
(* clients hold it: they give it back as well.                             *)
(***************************************************************************)
InUse(s) == Registered(s) \/ Holders(s) # {}

Counted == \A s \in Sessions : InUse(s) => OneShort(s)

LEMMA UnrefCounted ==
    ASSUME IInv, Counted, NEW c \in Clients, held[c] # NoSession,
           pc[c] \in {"running", "unref"},
           NEW next \in {"locking", "relock"}, UnrefThen(c, next), UNCHANGED sessions
    PROVE  Counted'
<1>1. held[c] \in Sessions
  BY DEF IInv, Typed, TypeOK
<1>2. \A s \in Sessions : Holders(s)' = IF s = held[c] THEN Holders(s) \ {c} ELSE Holders(s)
  BY UnrefTyped, RegistryAssumption DEF Holders, IInv, Typed, TypeOK
<1>3. refs' = [refs EXCEPT ![held[c]] = Dec(refs[held[c]])]
  BY DEF UnrefThen
<1> SUFFICES ASSUME NEW s \in Sessions, InUse(s)'
             PROVE  OneShort(s)'
  BY DEF Counted
<1>4. Registered(s)' <=> Registered(s)
  BY DEF Registered
<1>5. CASE s # held[c]
  <2>1. OneShort(s)
    BY <1>2, <1>4, <1>5 DEF Counted, InUse
  <2> QED
    BY <1>2, <1>3, <1>5, <2>1 DEF OneShort, IInv, Typed, TypeOK
<1>6. CASE s = held[c]
  <2>1. refs[s] \in 0..(RefMod - 1) /\ Holders(s) \in SUBSET Clients /\ c \in Holders(s)
    BY <1>6 DEF Holders, IInv, Typed, TypeOK
  <2>2. Inc(refs[s]) = Cardinality(Holders(s)) % RefMod
    BY <2>1 DEF Counted, InUse, OneShort
  <2>3. Inc(Dec(refs[s])) = Cardinality(Holders(s) \ {c}) % RefMod
    BY <2>1, <2>2, CountDown
  <2> QED
    BY <1>2, <1>3, <1>6, <2>3 DEF OneShort, IInv, Typed, TypeOK
<1> QED
  BY <1>5, <1>6

(***************************************************************************)
(* The steps that change neither the count nor the holders of a session    *)
(* in use.                                                                 *)
(***************************************************************************)
LEMMA CountKept ==
    ASSUME Typed, Counted,
           \A s \in Sessions : InUse(s)' =>
                InUse(s) /\ refs'[s] = refs[s] /\ Holders(s)' = Holders(s)
    PROVE  Counted'
BY DEF Counted, OneShort

LEMMA StepCounted ==
    ASSUME IInv, Counted, NEW c \in Clients, Step(c)
    PROVE  Counted'
<1> USE RegistryAssumption DEF Goto
<1>0. Typed
  BY DEF IInv
<1>1. CASE AddClient(c) \/ SessionMissing(c) \/ RemoveClient(c) \/ Relock(c) \/ SessionFailed(c)
           \/ Accept(c) \/ Disconnect(c)
  <2>1. /\ UNCHANGED <<sessions, refs, held>>
        /\ pc[c] \notin {"removing", "closing", "stuck"}
        /\ \E step \in Steps \ {"removing", "closing", "stuck"} : pc' = [pc EXCEPT ![c] = step]
    BY <1>1 DEF AddClient, SessionMissing, RemoveClient, Relock, SessionFailed, Accept,
                Disconnect, Steps
  <2>2. \A s \in Sessions : Holders(s)' = Holders(s)
    BY <1>0, <2>1 DEF Holders, Typed, TypeOK
  <2> QED
    BY <1>0, <2>1, <2>2, CountKept DEF InUse, Registered
<1>2. CASE SessionFound(c)
  <2> DEFINE s == sessions[ids[want[c]]]
  <2>1. /\ want[c] \in Tokens /\ ids[want[c]] \in Users /\ s \in Sessions
        /\ held[c] = NoSession
    BY <1>0, <1>2 DEF SessionFound, Known, Typed, TypeOK, Places
  <2>2. /\ refs' = [refs EXCEPT ![s] = Inc(refs[s])]
        /\ held' = [held EXCEPT ![c] = s]
        /\ pc' = [pc EXCEPT ![c] = "running"] /\ UNCHANGED sessions
    BY <1>2 DEF SessionFound
  <2>3. \A r \in Sessions : Holders(r)' = IF r = s THEN Holders(s) \cup {c} ELSE Holders(r)
    BY <1>0, <2>1, <2>2 DEF Holders, Typed, TypeOK
  <2>4. Inc(Inc(refs[s])) = Cardinality(Holders(s) \cup {c}) % RefMod
    <3>1. Inc(refs[s]) = Cardinality(Holders(s)) % RefMod
      BY <2>1 DEF Counted, InUse, Registered, OneShort
    <3>2. refs[s] \in 0..(RefMod - 1) /\ Holders(s) \in SUBSET Clients /\ c \in Clients \ Holders(s)
      BY <1>0, <2>1 DEF Holders, Typed, TypeOK
    <3> QED
      BY <3>1, <3>2, CountUp
  <2> SUFFICES ASSUME NEW r \in Sessions, InUse(r)'
               PROVE  OneShort(r)'
    BY DEF Counted
  <2>5. CASE r = s
    BY <1>0, <2>1, <2>2, <2>3, <2>4, <2>5 DEF OneShort, Typed, TypeOK
  <2>6. CASE r # s
    <3>1. OneShort(r)
      BY <2>2, <2>3, <2>6 DEF Counted, InUse, Registered
    <3> QED
      BY <1>0, <2>1, <2>2, <2>3, <2>6, <3>1 DEF OneShort, Typed, TypeOK
  <2> QED
    BY <2>5, <2>6
<1>3. CASE UnrefOnClose(c)
  BY <1>0, <1>3, UnrefCounted DEF UnrefOnClose, Typed, Places
<1>4. ASSUME NEW t \in Tokens, HandlePassword(c, t)
      PROVE  Counted'
  <2>1. CASE held[c] = NoSession
    <3>1. /\ UNCHANGED <<sessions, refs, held>>
          /\ pc[c] = "running" /\ pc' = [pc EXCEPT ![c] = "locking"]
      BY <1>4, <2>1 DEF HandlePassword
    <3>2. \A s \in Sessions : Holders(s)' = Holders(s)
      BY <1>0, <3>1 DEF Holders, Typed, TypeOK
    <3> QED
      BY <1>0, <3>1, <3>2, CountKept DEF InUse, Registered
  <2>2. CASE held[c] # NoSession
    BY <1>4, <2>2, UnrefCounted DEF HandlePassword
  <2> QED
    BY <2>1, <2>2
<1>5. CASE RemoveSession(c)
  <2>1. /\ \A u \in Users : sessions'[u] \in {NoSession, sessions[u]}
        /\ UNCHANGED <<refs, held>>
        /\ pc[c] = "removing" /\ (pc' = pc \/ pc' = [pc EXCEPT ![c] = "closing"])
    BY <1>5 DEF RemoveSession, Unregister
  <2>2. \A s \in Sessions : Holders(s)' = Holders(s)
    BY <1>0, <2>1 DEF Holders, Typed, TypeOK
  <2>3. \A s \in Sessions : Registered(s)' => Registered(s)
    BY <2>1 DEF Registered
  <2> QED
    BY <1>0, <2>1, <2>2, <2>3, CountKept DEF InUse
<1>6. CASE CloseState(c)
  <2>1. /\ UNCHANGED <<sessions, refs>>
        /\ pc[c] = "closing" /\ held' = [held EXCEPT ![c] = NoSession]
        /\ \A d \in Clients \ {c} : pc'[d] = pc[d]
    BY <1>0, <1>6 DEF CloseState, Typed, TypeOK
  <2>2. \A s \in Sessions : Holders(s)' = Holders(s)
    BY <1>0, <2>1 DEF Holders, Typed, TypeOK
  <2> QED
    BY <1>0, <2>1, <2>2, CountKept DEF InUse, Registered
<1>7. CASE SessionCreated(c)
  <2>1. PICK s \in Sessions :
            /\ Fresh(s)
            /\ refs' = [refs EXCEPT ![s] = 0]
            /\ sessions' = [sessions EXCEPT ![UserOf[want[c]]] = s]
            /\ held' = [held EXCEPT ![c] = s]
    BY <1>7 DEF SessionCreated, Register
  <2>2. /\ pc[c] = "creating" /\ pc' = [pc EXCEPT ![c] = "running"]
        /\ held[c] = NoSession
    BY <1>0, <1>7 DEF SessionCreated, Typed, Places
  <2>3. \A r \in Sessions : Holders(r)' = IF r = s THEN {c} ELSE Holders(r)
    BY <1>0, <2>1, <2>2 DEF Fresh, Holders, Typed, TypeOK
  <2>4. Inc(0) = Cardinality({c}) % RefMod
    <3>1. Cardinality({c}) = 1
      BY FS_Singleton
    <3>2. 0 \in 0..(RefMod - 1) /\ 1 \in 0..(RefMod - 1)
      BY <3>1, HoldersBounded
    <3> QED
      BY <3>1, <3>2, IncValue, HoldersBounded
  <2> SUFFICES ASSUME NEW r \in Sessions, InUse(r)'
               PROVE  OneShort(r)'
    BY DEF Counted
  <2>5. CASE r = s
    BY <1>0, <2>1, <2>3, <2>4, <2>5 DEF OneShort, Typed, TypeOK
  <2>6. CASE r # s
    <3>1. Registered(r)' => Registered(r)
      BY <1>0, <2>1, <2>6 DEF Registered, Typed, TypeOK
    <3>2. OneShort(r)
      BY <2>3, <2>6, <3>1 DEF Counted, InUse
    <3> QED
      BY <1>0, <2>1, <2>3, <2>6, <3>2 DEF OneShort, Typed, TypeOK
  <2> QED
    BY <2>5, <2>6
<1>8. CASE SessionDuplicate(c)
  <2>1. PICK s \in Sessions :
            /\ Fresh(s)
            /\ refs' = [refs EXCEPT ![s] = 0]
            /\ held' = [held EXCEPT ![c] = s]
    BY <1>8 DEF SessionDuplicate
  <2>2. /\ pc[c] = "creating" /\ pc' = [pc EXCEPT ![c] = "stuck"]
        /\ held[c] = NoSession /\ UNCHANGED sessions
    BY <1>0, <1>8 DEF SessionDuplicate, Typed, Places
  <2>3. \A r \in Sessions : Holders(r)' = Holders(r)
    BY <1>0, <2>1, <2>2 DEF Fresh, Holders, Typed, TypeOK
  <2>4. ~Registered(s) /\ Holders(s) = {}
    BY <2>1 DEF Fresh, Holders
  <2>5. \A r \in Sessions : InUse(r)' => InUse(r) /\ r # s
    BY <2>2, <2>3, <2>4 DEF InUse, Registered
  <2> QED
    BY <1>0, <2>1, <2>3, <2>5, CountKept DEF Typed, TypeOK
<1>9. CASE SessionFailedOpen(c)
  <2>1. PICK s \in Sessions : Fresh(s) /\ refs' = [refs EXCEPT ![s] = 0]
    BY <1>9 DEF SessionFailedOpen
  <2>2. /\ pc[c] = "creating" /\ pc' = [pc EXCEPT ![c] = "leaving"]
        /\ UNCHANGED <<sessions, held>>
    BY <1>9 DEF SessionFailedOpen
  <2>3. \A r \in Sessions : Holders(r)' = Holders(r)
    BY <1>0, <2>2 DEF Holders, Typed, TypeOK
  <2>4. ~Registered(s) /\ Holders(s) = {}
    BY <2>1 DEF Fresh, Holders
  <2>5. \A r \in Sessions : InUse(r)' => InUse(r) /\ r # s
    BY <2>2, <2>3, <2>4 DEF InUse, Registered
  <2> QED
    BY <1>0, <2>1, <2>3, <2>5, CountKept DEF Typed, TypeOK
<1> QED
  BY <1>1, <1>2, <1>3, <1>4, <1>5, <1>6, <1>7, <1>8, <1>9
  DEF Step, LockStep, OwnStep, Answer, PeerStep

LEMMA AlwaysCounted == Spec => []Counted
<1>1. Init => Counted
  BY RegistryAssumption DEF Init, Counted, InUse, Registered, Holders
<1>2. IInv /\ Counted /\ [Next]_vars => Counted'
  <2> SUFFICES ASSUME IInv, Counted, [Next]_vars
               PROVE  Counted'
    OBVIOUS
  <2>1. ASSUME NEW c \in Clients, Step(c)
        PROVE  Counted'
    BY <2>1, StepCounted
  <2>2. CASE UNCHANGED vars
    BY <2>2 DEF vars, Counted, InUse, Registered, OneShort, Holders
  <2> QED
    BY <2>1, <2>2 DEF Next, Step
<1> QED
  BY <1>1, <1>2, AlwaysIInv, PTL DEF Spec

-----------------------------------------------------------------------------
(***************************************************************************)
(* The variables keep their types, and the count stays below its modulus   *)
(* although it is decremented at zero (session.go:83).                     *)
(***************************************************************************)
THEOREM TypeCorrect == Spec => []TypeOK
<1>1. IInv => TypeOK
  BY DEF IInv, Typed
<1> QED
  BY <1>1, AlwaysIInv, PTL

(***************************************************************************)
(* No open connection is lost but those that failed logins leave behind    *)
(* (server.go:155-190, session.go:32-63).                                  *)
(***************************************************************************)
THEOREM OnlyFailuresLeak == Spec => []NoOtherLeak
<1>1. IInv => NoOtherLeak
  BY DEF IInv
<1> QED
  BY <1>1, AlwaysIInv, PTL

(***************************************************************************)
(* The count is one short of the clients that hold a session, for any      *)
(* number of clients below the modulus (session.go:59).                    *)
(***************************************************************************)
THEOREM AlwaysOneShort == Spec => []RefsOneShort
<1>1. IInv /\ Counted => RefsOneShort
  BY DEF IInv, Typed, TypeOK, RefsOneShort, Counted, InUse, Registered, OneShort
<1> QED
  BY <1>1, AlwaysIInv, AlwaysCounted, PTL

(***************************************************************************)
(* No login is answered with a session whose connection is closed          *)
(* (server.go:155-190).                                                    *)
(***************************************************************************)
THEOREM NeverHandedOutClosed == Spec => HandedOutOpen
<1> USE RegistryAssumption
<1> DEFINE Open == \A c \in Clients : pc[c] \in {"locking", "creating"} /\ pc'[c] = "running"
                        => conn'[held'[c]] = "open"
<1>1. IInv /\ [Next]_vars => [Open]_vars
  <2> SUFFICES ASSUME IInv, Next, NEW c \in Clients,
                      pc[c] \in {"locking", "creating"}, pc'[c] = "running"
               PROVE  conn'[held'[c]] = "open"
    OBVIOUS
  <2>0. Typed
    BY DEF IInv
  <2>1. PICK d \in Clients : Step(d)
    BY DEF Next, Step, vars
  <2>2. d = c
    BY <2>0, <2>1, UnrefTyped
    DEF Step, LockStep, OwnStep, Answer, PeerStep, AddClient, RemoveSession, SessionFound,
        SessionMissing, RemoveClient, Relock, CloseState, UnrefOnClose, SessionCreated,
        SessionDuplicate, SessionFailed, SessionFailedOpen, Accept, Disconnect,
        HandlePassword, UnrefThen, Goto, Typed, TypeOK
  <2>3. SessionFound(c) \/ SessionCreated(c)
    BY <2>0, <2>1, <2>2
    DEF Step, LockStep, OwnStep, Answer, PeerStep, AddClient, RemoveSession,
        SessionMissing, RemoveClient, Relock, CloseState, UnrefOnClose,
        SessionDuplicate, SessionFailed, SessionFailedOpen, Accept, Disconnect,
        HandlePassword, Goto, Typed, TypeOK
  <2>4. CASE SessionFound(c)
    <3>1. ids[want[c]] \in Users /\ sessions[ids[want[c]]] # NoSession
      BY <2>0, <2>4 DEF SessionFound, Known, Typed, TypeOK, Places
    <3> QED
      BY <2>0, <2>4, <3>1 DEF SessionFound, IInv, RegisteredOpen, Typed, TypeOK
  <2>5. CASE SessionCreated(c)
    BY <2>0, <2>5 DEF SessionCreated, Typed, TypeOK
  <2> QED
    BY <2>3, <2>4, <2>5
<1> QED
  BY <1>1, AlwaysIInv, PTL DEF Spec, HandedOutOpen
=============================================================================
