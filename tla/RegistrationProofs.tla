------------------------- MODULE RegistrationProofs -------------------------
(***************************************************************************)
(* Theorems about Registration, for any sessions, guilds and capabilities. *)
(***************************************************************************)
EXTENDS Registration, TLAPS

(***************************************************************************)
(* WelcomedOnce holds because nobody is welcomed before being registered,  *)
(* and nobody is registered twice.                                         *)
(***************************************************************************)
NotWelcomedBefore == ~isRegistered => welcomes = 0

ServesRegistered == run = "serve" => isRegistered

IInv ==
    /\ TypeOK
    /\ NotForgotten
    /\ ServesSession
    /\ WelcomedOnce
    /\ NotWelcomedBefore
    /\ ServesRegistered

LEMMA InitIInv == Init => IInv
<1> SUFFICES ASSUME Init
             PROVE  IInv
  OBVIOUS
<1>1. TypeOK
  <2>1. welcomes \in 0..2
    BY DEF Init
  <2> QED
    BY <2>1 DEF Init, TypeOK
<1>2. NotForgotten /\ ServesSession /\ NotWelcomedBefore /\ ServesRegistered
  BY DEF Init, NotForgotten, ServesSession, NotWelcomedBefore, ServesRegistered
<1>3. WelcomedOnce
  BY DEF Init, WelcomedOnce
<1> QED
  BY <1>1, <1>2, <1>3 DEF IInv

(***************************************************************************)
(* The end of a handler of PASS, NICK, USER or CAP END: whatever it has    *)
(* set, maybeCompleteRegistration leaves the invariant intact.             *)
(***************************************************************************)
LEMMA Completion ==
    ASSUME IInv, Reading, MaybeCompleteRegistration,
           nickname' \in BOOLEAN, username' \in BOOLEAN, realname' \in BOOLEAN,
           isCapBlocked' \in BOOLEAN,
           capabilities' \subseteq Capabilities,
           session' \in Logins \cup {NoSession},
           isRegistered => session' # NoSession,
           guild' \in Guilds \cup {NoGuild},
           UNCHANGED events
    PROVE  IInv'
<1>1. TypeOK'
  <2>1. welcomes' \in 0..2
    BY DEF IInv, TypeOK, MaybeCompleteRegistration, Welcome, served
  <2>2. run' \in {"login", "serve", "ended", "crashed"} /\ isRegistered' \in BOOLEAN
    BY DEF IInv, TypeOK, MaybeCompleteRegistration, Fail, served
  <2> QED
    BY <2>1, <2>2 DEF IInv, TypeOK
<1>2. NotForgotten' /\ ServesSession' /\ ServesRegistered'
  BY DEF IInv, TypeOK, NotForgotten, ServesSession, ServesRegistered, Reading,
         MaybeCompleteRegistration, Ready, HasSession, Fail, served
<1>3. WelcomedOnce' /\ NotWelcomedBefore'
  BY DEF IInv, TypeOK, WelcomedOnce, NotWelcomedBefore, MaybeCompleteRegistration, Ready,
         Welcome, served
<1> QED
  BY <1>1, <1>2, <1>3 DEF IInv

(***************************************************************************)
(* A handler that ends the connection may leave anything behind.           *)
(***************************************************************************)
LEMMA Ending ==
    ASSUME IInv, run' \in {"ended", "crashed"}, UNCHANGED <<names, served, events>>,
           isCapBlocked' \in BOOLEAN,
           capabilities' \subseteq Capabilities,
           session' \in Logins \cup {NoSession},
           guild' \in Guilds \cup {NoGuild}
    PROVE  IInv'
BY DEF IInv, TypeOK, NotForgotten, ServesSession, WelcomedOnce, NotWelcomedBefore,
       ServesRegistered, names, served

LEMMA Unchanged == IInv /\ UNCHANGED vars => IInv'
BY DEF IInv, TypeOK, NotForgotten, ServesSession, WelcomedOnce, NotWelcomedBefore,
       ServesRegistered, vars

(***************************************************************************)
(* The negotiation of capabilities: only its end may complete anything.    *)
(***************************************************************************)
LEMMA CapKeepsIInv ==
    ASSUME IInv,
           CapLs \/ CapEnd \/ \E requested \in SUBSET (Capabilities \cup {"unknown"}) : CapReq(requested)
    PROVE  IInv'
<1>1. CASE CapLs
  BY <1>1 DEF CapLs, Reading, IInv, TypeOK, NotForgotten, ServesSession, WelcomedOnce,
              NotWelcomedBefore, ServesRegistered, names, served, login
<1>2. CASE CapEnd
  <2>1. isRegistered => session' # NoSession
    BY <1>2 DEF CapEnd, Reading, IInv, ServesSession, login
  <2> QED
    BY <1>2, <2>1, Completion DEF CapEnd, IInv, TypeOK, names, login
<1>3. ASSUME NEW requested \in SUBSET (Capabilities \cup {"unknown"}), CapReq(requested)
      PROVE  IInv'
  <2>1. capabilities' \subseteq Capabilities
    BY <1>3 DEF CapReq, IInv, TypeOK
  <2>2. CASE Fail
    BY <1>3, <2>1, <2>2, Ending DEF CapReq, Fail, IInv, TypeOK, names, login
  <2>3. CASE ~Fail
    BY <1>3, <2>1, <2>3
    DEF CapReq, Fail, Reading, IInv, TypeOK, NotForgotten, ServesSession, WelcomedOnce,
        NotWelcomedBefore, ServesRegistered, names, served, login
  <2> QED
    BY <2>2, <2>3
<1> QED
  BY <1>1, <1>2, <1>3

(***************************************************************************)
(* PASS replaces the session by another one or ends the connection.        *)
(***************************************************************************)
LEMMA PassKeepsIInv ==
    ASSUME IInv, Pass
    PROVE  IInv'
<1> USE RegistrationAssumption
<1>1. CASE PassRefused
  BY <1>1, Ending DEF PassRefused, Fail, IInv, TypeOK
<1>2. ASSUME NEW s \in Logins, PassGuildUnknown(s)
      PROVE  IInv'
  BY <1>2, Ending DEF PassGuildUnknown, Fail, IInv, TypeOK
<1>3. ASSUME NEW s \in Logins, PassWithoutGuild(s)
      PROVE  IInv'
  BY <1>3, Completion DEF PassWithoutGuild, IInv, TypeOK, names
<1>4. ASSUME NEW s \in Logins, NEW g \in Guilds, PassWithGuild(s, g)
      PROVE  IInv'
  BY <1>4, Completion DEF PassWithGuild, IInv, TypeOK, names
<1> QED
  BY <1>1, <1>2, <1>3, <1>4 DEF Pass

(***************************************************************************)
(* NICK and USER keep the session they find.                               *)
(***************************************************************************)
LEMMA NamesKeepIInv ==
    ASSUME IInv,
           \/ \E given \in BOOLEAN : Nick(given)
           \/ \E name, real \in BOOLEAN : User(name, real)
    PROVE  IInv'
<1>1. Reading /\ UNCHANGED session
  BY DEF Nick, User, login
<1>2. isRegistered => session' # NoSession
  BY <1>1 DEF Reading, IInv, ServesSession
<1>3. ASSUME NEW given \in BOOLEAN, Nick(given)
      PROVE  IInv'
  BY <1>2, <1>3, Completion DEF Nick, IInv, TypeOK, login
<1>4. ASSUME NEW name \in BOOLEAN, NEW real \in BOOLEAN, User(name, real)
      PROVE  IInv'
  BY <1>2, <1>4, Completion DEF User, IInv, TypeOK, login
<1> QED
  BY <1>3, <1>4

(***************************************************************************)
(* The commands that change nothing, and the end of the first loop.        *)
(***************************************************************************)
LEMMA OthersKeepIInv ==
    ASSUME IInv, UserAgain \/ UseSession \/ Hangup \/ Subscribe
    PROVE  IInv'
<1>1. CASE UserAgain \/ Hangup
  BY <1>1, Ending DEF UserAgain, Hangup, Fail, IInv, TypeOK, login
<1>2. CASE UseSession
  <2>1. CASE run' = run
    <3>1. UNCHANGED vars
      BY <1>2, <2>1 DEF UseSession, vars, names, served, login
    <3> QED
      BY <3>1, Unchanged
  <2>2. CASE run' \in {"ended", "crashed"}
    BY <1>2, <2>2, Ending DEF UseSession, IInv, TypeOK, login
  <2> QED
    BY <1>2, <2>1, <2>2 DEF UseSession
<1>3. CASE Subscribe
  BY <1>3 DEF Subscribe, IInv, TypeOK, NotForgotten, ServesSession, WelcomedOnce,
              NotWelcomedBefore, ServesRegistered, names, served, login
<1> QED
  BY <1>1, <1>2, <1>3

LEMMA StepIInv == IInv /\ [Next]_vars => IInv'
<1> SUFFICES ASSUME IInv, [Next]_vars
             PROVE  IInv'
  OBVIOUS
<1>1. CASE NickRefused \/ Over \/ UNCHANGED vars
  BY <1>1, Unchanged DEF NickRefused, Over
<1> QED
  BY <1>1, CapKeepsIInv, PassKeepsIInv, NamesKeepIInv, OthersKeepIInv DEF Next

LEMMA AlwaysIInv == Spec => []IInv
BY InitIInv, StepIInv, PTL DEF Spec

-----------------------------------------------------------------------------
(***************************************************************************)
(* The variables keep their types; in particular only capabilities that    *)
(* are supported are ever enabled (capabilities.go:66-98).                 *)
(***************************************************************************)
THEOREM TypeCorrect == Spec => []TypeOK
<1>1. IInv => TypeOK
  BY DEF IInv
<1> QED
  BY <1>1, AlwaysIInv, PTL

(***************************************************************************)
(* The last command that the registration needs completes it, in whatever  *)
(* order they come (commands.go:36-43).                                    *)
(***************************************************************************)
THEOREM RegistrationNotForgotten == Spec => []NotForgotten
<1>1. IInv => NotForgotten
  BY DEF IInv
<1> QED
  BY <1>1, AlwaysIInv, PTL

(***************************************************************************)
(* A registered client has a session as long as it is served, however      *)
(* often it logs in again (client.go:120, irc.go:74-86).                   *)
(***************************************************************************)
THEOREM AlwaysServesSession == Spec => []ServesSession
<1>1. IInv => ServesSession
  BY DEF IInv
<1> QED
  BY <1>1, AlwaysIInv, PTL

(***************************************************************************)
(* No client is welcomed twice (commands.go:49-58).                        *)
(***************************************************************************)
THEOREM NeverWelcomedTwice == Spec => []WelcomedOnce
<1>1. IInv => WelcomedOnce
  BY DEF IInv
<1> QED
  BY <1>1, AlwaysIInv, PTL
=============================================================================
