-------------------------- MODULE ClientListProofs --------------------------
(***************************************************************************)
(* What holds of ClientList for every number of connections and every      *)
(* behaviour of their peers.                                               *)
(***************************************************************************)
EXTENDS ClientList, FiniteSetTheorems, TLAPS

----------------------------------------------------------------------------
(* The list of clients. *)

Steps == MainSteps \cup ClientSteps

ListTyped ==
    /\ array \in Seq(Clients \cup {Nil})
    /\ len \in 0..Len(array)
    /\ pc \in [Goroutines -> Steps]
    /\ closes \in [Clients -> 0..1]

(***************************************************************************)
(* ListExact in terms of positions: the elements are clients, each at one  *)
(* place, and behind them is nothing.                                      *)
(***************************************************************************)
Elements == \A i \in 1..len : array[i] \in Clients
OnePlace == \A i, j \in 1..len : array[i] = array[j] => i = j
EmptyTail == \A i \in 1..Len(array) : i > len => array[i] = Nil
Members == \A c \in Clients : c \in Listed <=> pc[c] # "none" /\ closes[c] = 0
NoneUnclosed == \A c \in Clients : pc[c] = "none" => closes[c] = 0

ListInv == ListTyped /\ Elements /\ OnePlace /\ EmptyTail /\ Members /\ NoneUnclosed

LEMMA InitListInv == Init => ListInv
<1> SUFFICES ASSUME Init PROVE ListInv
  OBVIOUS
<1> USE DEF Init
<1>1. array = <<>> /\ len = 0 /\ Len(array) = 0
  OBVIOUS
<1>2. pc = [g \in Goroutines |-> IF g = Main THEN "waiting" ELSE "none"]
  OBVIOUS
<1>3. ListTyped
  BY <1>1, <1>2 DEF ListTyped, Steps, MainSteps, ClientSteps
<1>4. Elements /\ OnePlace /\ EmptyTail
  BY <1>1 DEF Elements, OnePlace, EmptyTail
<1>5. Listed = {}
  BY <1>1 DEF Listed
<1>6. Members /\ NoneUnclosed
  BY <1>2, <1>5, ClientListAssumption DEF Members, NoneUnclosed, Goroutines
<1> QED
  BY <1>3, <1>4, <1>6 DEF ListInv

(***************************************************************************)
(* Most steps leave the list alone and move one goroutine on.              *)
(***************************************************************************)
LEMMA GotoKeepsList ==
    ASSUME ListInv, UNCHANGED <<list, closes>>,
           NEW g \in Goroutines, NEW step \in Steps \ {"none"},
           pc[g] # "none" \/ g = Main, Goto(g, step)
    PROVE  ListInv'
<1>1. Main \notin Clients
  BY ClientListAssumption
<1>2. pc' \in [Goroutines -> Steps]
  BY DEF ListInv, ListTyped, Goto
<1>3. \A c \in Clients : pc'[c] = "none" <=> pc[c] = "none"
  BY <1>1 DEF ListInv, ListTyped, Goto, Goroutines
<1>4. array' = array /\ len' = len /\ closes' = closes
  BY DEF list
<1>5. Listed' = Listed
  BY <1>4 DEF Listed
<1>6. ListTyped'
  BY <1>2, <1>4 DEF ListInv, ListTyped
<1>7. Elements' /\ OnePlace' /\ EmptyTail'
  BY <1>4 DEF ListInv, Elements, OnePlace, EmptyTail
<1>8. Members' /\ NoneUnclosed'
  BY <1>3, <1>4, <1>5 DEF ListInv, Members, NoneUnclosed
<1> QED
  BY <1>6, <1>7, <1>8 DEF ListInv

LEMMA StutterKeepsList ==
    ASSUME ListInv, UNCHANGED <<list, closes, pc>>
    PROVE  ListInv'
BY DEF ListInv, ListTyped, Elements, OnePlace, EmptyTail, Members, NoneUnclosed, Listed, list

(***************************************************************************)
(* append puts the client behind the others, whether or not the array has  *)
(* to grow.                                                                *)
(***************************************************************************)
LEMMA AppendShape ==
    ASSUME ListInv, NEW c \in Clients, Append1(c)
    PROVE  /\ array' \in Seq(Clients \cup {Nil})
           /\ len' = len + 1 /\ len' \in 0..Len(array')
           /\ \A i \in 1..len : array'[i] = array[i]
           /\ array'[len'] = c
           /\ \A i \in 1..Len(array') : i > len' => array'[i] = Nil
<1> USE DEF ListInv, ListTyped, EmptyTail
<1>1. len' = len + 1 /\ len \in Nat
  BY DEF Append1
<1>2. CASE len < Len(array)
  BY <1>1, <1>2 DEF Append1
<1>3. CASE ~(len < Len(array))
  <2> DEFINE size == IF len = 0 THEN 1 ELSE 2 * len
  <2>1. size \in Nat /\ len + 1 <= size
    BY <1>1
  <2>2. array' = [i \in 1..size |-> IF i <= len THEN array[i] ELSE IF i = len + 1 THEN c ELSE Nil]
    BY <1>3 DEF Append1
  <2> HIDE DEF size
  <2>3. \A i \in 1..size :
          (IF i <= len THEN array[i] ELSE IF i = len + 1 THEN c ELSE Nil) \in Clients \cup {Nil}
    BY <1>1
  <2>4. array' \in Seq(Clients \cup {Nil}) /\ Len(array') = size
    BY <2>1, <2>2, <2>3
  <2> QED
    BY <1>1, <2>1, <2>2, <2>4
<1> QED
  BY <1>2, <1>3

LEMMA AppendKeepsList ==
    ASSUME ListInv, NEW c \in Clients, pc[c] = "none", Append1(c), Goto(c, "running"),
           UNCHANGED closes
    PROVE  ListInv'
<1>0. /\ array' \in Seq(Clients \cup {Nil})
      /\ len \in Nat /\ len' = len + 1 /\ len' \in 0..Len(array')
      /\ \A i \in 1..len : array'[i] = array[i]
      /\ array'[len'] = c
      /\ \A i \in 1..Len(array') : i > len' => array'[i] = Nil
  BY AppendShape DEF ListInv, ListTyped
<1>1. pc' = [pc EXCEPT ![c] = "running"] /\ c \in Goroutines /\ pc \in [Goroutines -> Steps]
  BY DEF Goto, Goroutines, ListInv, ListTyped
<1>2. ListTyped'
  BY <1>0, <1>1 DEF ListInv, ListTyped, Steps, ClientSteps
<1>3. \A i \in 1..len : array[i] # c
  BY DEF Members, Listed, ListInv
<1>4. \A i \in 1..len' : (i \in 1..len /\ array'[i] = array[i]) \/ (i = len' /\ array'[i] = c)
  BY <1>0
<1>5. Elements'
  BY <1>4 DEF Elements, ListInv
<1>6. OnePlace'
  <2> SUFFICES ASSUME NEW i \in 1..len', NEW j \in 1..len', array'[i] = array'[j]
               PROVE  i = j
    BY DEF OnePlace
  <2> QED
    BY <1>3, <1>4 DEF OnePlace, ListInv
<1>7. EmptyTail'
  BY <1>0 DEF EmptyTail
<1>8. Listed' = Listed \cup {c}
  <2>1. (1..len) \subseteq 1..len' /\ len' \in 1..len'
    BY <1>0
  <2> QED
    BY ONLY <1>0, <1>4, <2>1 DEF Listed
<1>9. Members'
  BY <1>1, <1>8 DEF Members, NoneUnclosed, Goroutines, ListInv
<1>10. NoneUnclosed'
  BY <1>1 DEF NoneUnclosed, Goroutines, ListInv
<1> QED
  BY <1>2, <1>5, <1>6, <1>7, <1>9, <1>10 DEF ListInv

(***************************************************************************)
(* The swap takes the client out of the list, wherever it is.              *)
(***************************************************************************)
LEMMA RemoveShape ==
    ASSUME ListInv, NEW c \in Listed, Remove(c)
    PROVE  /\ c \in Clients /\ len \in Nat \ {0}
           /\ len' = len - 1
           /\ array' \in Seq(Clients \cup {Nil}) /\ Len(array') = Len(array)
           /\ \E i \in 1..len :
                /\ array[i] = c
                /\ \A k \in 1..Len(array) :
                     array'[k] = IF k = len THEN Nil ELSE IF k = i THEN array[len] ELSE array[k]
<1> USE DEF ListInv, ListTyped
<1> DEFINE i == CHOOSE k \in 1..len : array[k] = c
<1>1. i \in 1..len /\ array[i] = c
  BY DEF Listed
<1>2. c \in Clients
  BY <1>1 DEF Elements
<1>3. array' = [array EXCEPT ![i] = array[len], ![len] = Nil] /\ len' = len - 1
  BY DEF Remove
<1> HIDE DEF i
<1>4. len \in Nat \ {0} /\ len <= Len(array) /\ array[len] \in Clients
  BY <1>1 DEF Elements
<1>5. array' \in Seq(Clients \cup {Nil}) /\ Len(array') = Len(array)
  BY <1>1, <1>3, <1>4
<1>6. \A k \in 1..Len(array) :
        array'[k] = IF k = len THEN Nil ELSE IF k = i THEN array[len] ELSE array[k]
  BY <1>1, <1>3, <1>4
<1> QED
  BY <1>1, <1>2, <1>3, <1>4, <1>5, <1>6

LEMMA RemoveKeepsList ==
    ASSUME ListInv, NEW c \in Listed, NEW g \in Goroutines,
           pc[g] # "none" \/ g = Main, RemoveAndClose(g, c)
    PROVE  /\ ListInv'
           /\ closes[c] = 0 /\ closes' = [closes EXCEPT ![c] = 1]
<1>1. PICK i \in 1..len :
        /\ array[i] = c
        /\ \A k \in 1..Len(array) :
             array'[k] = IF k = len THEN Nil ELSE IF k = i THEN array[len] ELSE array[k]
  BY RemoveShape DEF RemoveAndClose
<1>2. /\ c \in Clients /\ len \in Nat \ {0} /\ len <= Len(array) /\ len' = len - 1
      /\ array' \in Seq(Clients \cup {Nil}) /\ Len(array') = Len(array)
  BY RemoveShape DEF RemoveAndClose, ListInv, ListTyped
<1>3. pc' = [pc EXCEPT ![g] = "closing"]
  BY DEF RemoveAndClose, Goto
<1>4. closes[c] = 0 /\ closes' = [closes EXCEPT ![c] = 1]
  <2>1. closes[c] = 0 /\ closes \in [Clients -> 0..1]
    BY <1>2 DEF ListInv, ListTyped, Members
  <2> QED
    BY <2>1, <1>2 DEF RemoveAndClose
<1>5. ListTyped'
  BY <1>2, <1>3, <1>4 DEF ListInv, ListTyped, Steps, ClientSteps, CloseSteps
<1>6. Elements'
  BY <1>1, <1>2 DEF Elements, ListInv
<1>7. OnePlace'
  <2> SUFFICES ASSUME NEW j \in 1..(len - 1), NEW k \in 1..(len - 1), array'[j] = array'[k]
               PROVE  j = k
    BY <1>2 DEF OnePlace
  <2>1. j \in 1..Len(array) /\ k \in 1..Len(array) /\ j # len /\ k # len
    BY <1>2
  <2>2. /\ array'[j] = IF j = i THEN array[len] ELSE array[j]
        /\ array'[k] = IF k = i THEN array[len] ELSE array[k]
    BY <1>1, <2>1
  <2>3. j \in 1..len /\ k \in 1..len /\ len \in 1..len
    BY <1>2
  <2> QED
    BY <2>1, <2>2, <2>3 DEF OnePlace, ListInv
<1>8. EmptyTail'
  BY <1>1, <1>2 DEF EmptyTail, ListInv
<1>9. Listed' = Listed \ {c}
  <2>1. ASSUME NEW d \in Listed' PROVE d \in Listed \ {c}
    <3>1. PICK j \in 1..(len - 1) : d = array'[j]
      BY <1>2 DEF Listed
    <3>2. j \in 1..len /\ len \in 1..len /\ j # len /\ j \in 1..Len(array)
      BY <1>2
    <3>3. d = IF j = i THEN array[len] ELSE array[j]
      BY <1>1, <3>1, <3>2
    <3> QED
      BY <1>1, <3>2, <3>3 DEF Listed, OnePlace, ListInv
  <2>2. ASSUME NEW d \in Listed, d # c PROVE d \in Listed'
    <3>1. PICK j \in 1..len : d = array[j]
      BY DEF Listed
    <3>2. CASE j = len
      <4>1. i \in 1..(len - 1) /\ i \in 1..Len(array) /\ i # len
        BY <1>1, <1>2, <2>2, <3>1, <3>2
      <4>2. array'[i] = d
        BY <1>1, <3>1, <3>2, <4>1
      <4> QED
        BY <1>2, <4>1, <4>2 DEF Listed
    <3>3. CASE j # len
      <4>1. j \in 1..(len - 1) /\ j \in 1..Len(array) /\ j # i
        BY <1>1, <1>2, <2>2, <3>1, <3>3
      <4>2. array'[j] = d
        BY <1>1, <3>1, <3>3, <4>1
      <4> QED
        BY <1>2, <4>1, <4>2 DEF Listed
    <3> QED
      BY <3>2, <3>3
  <2> QED
    BY <2>1, <2>2
<1>10. \A d \in Clients : pc'[d] = "none" <=> pc[d] = "none"
  BY <1>3, ClientListAssumption DEF ListInv, ListTyped, Goroutines
<1>11. Members'
  BY <1>2, <1>4, <1>9, <1>10 DEF Members, ListInv, ListTyped
<1>12. pc[c] # "none"
  BY <1>2 DEF Members, ListInv
<1>13. NoneUnclosed'
  BY <1>4, <1>10, <1>12 DEF NoneUnclosed, ListInv, ListTyped
<1> QED
  BY <1>4, <1>5, <1>6, <1>7, <1>8, <1>11, <1>13 DEF ListInv

(***************************************************************************)
(* Client.Close leaves the list alone, whoever runs it.                    *)
(***************************************************************************)
LEMMA CloseKeepsList ==
    ASSUME ListInv, NEW g \in Goroutines, Close(g)
    PROVE  ListInv'
<1>1. pc[g] # "none" /\ UNCHANGED <<list, closes>>
  BY DEF Close, CheckSession, UnrefSession
<1>2. \E step \in {"unref", "relock", "gone", "crashed"} : Goto(g, step)
  BY DEF Close, CheckSession, UnrefSession, Hangup
<1>3. {"unref", "relock", "gone", "crashed"} \subseteq Steps \ {"none"}
  BY DEF Steps, MainSteps, ClientSteps, CloseSteps
<1> QED
  BY <1>1, <1>2, <1>3, GotoKeepsList

(***************************************************************************)
(* A login moves its client on and gives it a session or none.             *)
(***************************************************************************)
LEMMA LoginSteps ==
    ASSUME NEW c \in Clients, Login(c)
    PROVE  /\ pc[c] \in {"locking", "creating"}
           /\ UNCHANGED <<list, walk, closes, socket>>
           /\ \E step \in {"running", "creating", "stuck", "leaving"} : Goto(c, step)
BY DEF Login, Answered, SessionFound, SessionMissing, SessionCreated, SessionFailed,
       SessionDuplicate

LEMMA ClientKeepsList ==
    ASSUME ListInv, NEW c \in Clients, ClientStep(c)
    PROVE  ListInv'
<1>1. c \in Goroutines /\ {"running", "locking", "creating", "stuck", "leaving", "gone"} \subseteq Steps \ {"none"}
  BY DEF Goroutines, Steps, ClientSteps
<1>2. CASE Handle(c)
  <2>1. pc[c] # "none" /\ UNCHANGED <<list, closes>>
    BY <1>2, LoginSteps DEF Handle, Line, Password, ReaderError, Receives
  <2>2. UNCHANGED pc \/ \E step \in {"running", "locking", "creating", "stuck", "leaving"} : Goto(c, step)
    BY <1>2, LoginSteps DEF Handle, Line, Password, ReaderError
  <2> QED
    BY <1>1, <2>1, <2>2, GotoKeepsList, StutterKeepsList
<1>3. CASE RemoveClient(c)
  <2>1. pc[c] # "none"
    BY <1>3 DEF RemoveClient
  <2>2. CASE c \in Listed
    BY <1>1, <1>3, <2>1, <2>2, RemoveKeepsList DEF RemoveClient, InList
  <2>3. CASE c \notin Listed
    BY <1>1, <1>3, <2>1, <2>3, GotoKeepsList DEF RemoveClient, InList
  <2> QED
    BY <2>2, <2>3
<1>4. CASE Close(c)
  BY <1>1, <1>4, CloseKeepsList
<1> QED
  BY <1>2, <1>3, <1>4 DEF ClientStep

LEMMA MainKeepsList ==
    ASSUME ListInv, MainStep \/ Signal
    PROVE  ListInv'
<1>1. Main \in Goroutines /\ {"stopping", "walking", "exited"} \subseteq Steps \ {"none"}
  BY DEF Goroutines, Steps, MainSteps
<1>2. CASE Signal \/ BeginWalk \/ Relock \/ Exit
  <2>1. UNCHANGED <<list, closes>>
    BY <1>2 DEF Signal, BeginWalk, Relock, Exit
  <2>2. \E step \in {"stopping", "walking", "exited"} : Goto(Main, step)
    BY <1>2 DEF Signal, BeginWalk, Relock, Exit
  <2> QED
    BY <1>1, <2>1, <2>2, GotoKeepsList
<1>3. CASE Visit
  <2>1. CASE Element \in Listed
    BY <1>1, <1>3, <2>1, RemoveKeepsList DEF Visit, InList
  <2>2. CASE Element \notin Listed
    BY <1>3, <2>2, StutterKeepsList DEF Visit, InList
  <2> QED
    BY <2>1, <2>2
<1>4. CASE Close(Main)
  BY <1>1, <1>4, CloseKeepsList
<1> QED
  BY <1>2, <1>3, <1>4 DEF MainStep

LEMMA ListStep == ListInv /\ [Next]_vars => ListInv'
<1> SUFFICES ASSUME ListInv, [Next]_vars PROVE ListInv'
  OBVIOUS
<1>1. CASE UNCHANGED vars
  BY <1>1, StutterKeepsList DEF vars, list
<1>2. CASE MainStep \/ Signal
  BY <1>2, MainKeepsList
<1>3. ASSUME NEW c \in Clients, ClientStep(c) PROVE ListInv'
  BY <1>3, ClientKeepsList
<1>4. ASSUME NEW c \in Clients, Accept(c) PROVE ListInv'
  BY <1>4, AppendKeepsList DEF Accept
<1>5. ASSUME NEW c \in Clients, ReadLine(c) \/ ReadFails(c) PROVE ListInv'
  BY <1>5, StutterKeepsList DEF ReadLine, ReadFails, loop
<1>6. ASSUME NEW c \in Clients, EventFails(c) PROVE ListInv'
  <2>1. c \in Goroutines /\ "leaving" \in Steps \ {"none"}
    BY DEF Goroutines, Steps, ClientSteps
  <2> QED
    BY <1>6, <2>1, GotoKeepsList DEF EventFails
<1> QED
  BY <1>1, <1>2, <1>3, <1>4, <1>5, <1>6 DEF Next

LEMMA AlwaysListInv == Spec => []ListInv
BY InitListInv, ListStep, PTL DEF Spec

(***************************************************************************)
(* The list has as many elements as places in use.                         *)
(***************************************************************************)
LEMMA ListInvExact == ListInv => ListExact
<1> SUFFICES ASSUME ListInv PROVE ListExact
  OBVIOUS
<1> USE DEF ListInv, ListTyped
<1>1. Listed = {c \in Clients : pc[c] # "none" /\ closes[c] = 0}
  <2>1. Listed \subseteq Clients
    BY DEF Listed, Elements
  <2> QED
    BY <2>1 DEF Members
<1>2. Cardinality(Listed) = len
  <2> DEFINE place == [i \in 1..len |-> array[i]]
  <2>1. place \in Bijection(1..len, Listed)
    <3>1. place \in [1..len -> Listed]
      BY DEF Listed
    <3>2. \A i, j \in 1..len : place[i] = place[j] => i = j
      BY DEF OnePlace
    <3>3. \A d \in Listed : \E i \in 1..len : place[i] = d
      BY DEF Listed
    <3> HIDE DEF place
    <3> QED
      BY <3>1, <3>2, <3>3 DEF Bijection, Injection, IsInjective, Surjection
  <2> QED
    BY <2>1, FS_CountingElements DEF ExistsBijection
<1> QED
  BY <1>1, <1>2 DEF ListExact, EmptyTail

(***************************************************************************)
(* However removals, additions and the walk of Server.Close interleave,    *)
(* the list holds every client that was added and not closed, once.        *)
(***************************************************************************)
THEOREM ListAlwaysExact == Spec => []ListExact
BY AlwaysListInv, ListInvExact, PTL

(***************************************************************************)
(* Nobody is closed twice.                                                 *)
(***************************************************************************)
THEOREM NobodyClosedTwice == Spec => []ClosedOnce
<1>1. ListInv => ClosedOnce
  BY DEF ListInv, ListTyped, ClosedOnce
<1> QED
  BY <1>1, AlwaysListInv, PTL

----------------------------------------------------------------------------
(* The references. *)

RestTyped ==
    /\ walk \in Walks
    /\ serving \in [Clients -> BOOLEAN]
    /\ session \in [Clients -> BOOLEAN]
    /\ owed \in [Clients -> Int]
    /\ reader \in [Clients -> {"none", "reading", "sending", "failing", "done"}]
    /\ netconn \in [Clients -> {"open", "closed"}]
    /\ peer \in [Clients -> [lines : Nat, hangup : BOOLEAN]]

(***************************************************************************)
(* How far a client is with closing, and what it owes.  If main is the one *)
(* that closes a client, its session may be given back once too often.     *)
(***************************************************************************)
Progress(c) ==
    /\ pc[c] \in {"locking", "creating", "stuck"} => ~session[c]
    /\ pc[c] = "none" => ~session[c]
    /\ pc[c] = "unref" => session[c]
    /\ pc[c] \in {"closing", "unref", "gone"} => closes[c] = 1

OwnReference(c) ==
    /\ pc[c] # "crashed"
    /\ owed[c] = IF pc[c] = "gone" THEN 0 ELSE Holds(c)
    /\ closes[c] = 1 => pc[c] \in {"closing", "unref", "gone"}

SweptReference(c) ==
    /\ closes[c] = 1
    /\ pc[c] \notin {"none", "closing", "unref", "crashed"}
    /\ owed[c] \in {Holds(c) - 1, Holds(c)}

Reference(c) ==
    /\ Progress(c)
    /\ IF c \in walk.swept THEN SweptReference(c) ELSE OwnReference(c)

(***************************************************************************)
(* What main is about to give back has not been given back yet.            *)
(***************************************************************************)
MainReference ==
    pc[Main] \in {"closing", "unref"} =>
        walk.at \in walk.swept /\ owed[walk.at] = Holds(walk.at)

References == MainReference /\ \A c \in Clients : Reference(c)

IInv == ListInv /\ RestTyped /\ References

LEMMA InitIInv == Init => IInv
<1> SUFFICES ASSUME Init PROVE RestTyped /\ References
  BY InitListInv DEF IInv
<1> USE DEF Init
<1>1. walk \in Walks
  BY DEF Walks
<1>2. RestTyped
  BY <1>1, ClientListAssumption DEF RestTyped
<1>3. MainReference
  BY DEF MainReference, Goroutines
<1>4. \A c \in Clients : Reference(c)
  BY ClientListAssumption
  DEF Reference, Progress, OwnReference, Holds, Goroutines
<1> QED
  BY <1>2, <1>3, <1>4 DEF References

(***************************************************************************)
(* A step of a client changes what concerns that client only.              *)
(***************************************************************************)
LEMMA OneClient ==
    ASSUME IInv, NEW c \in Clients,
           \A g \in Goroutines \ {c} : pc'[g] = pc[g],
           \A d \in Clients \ {c} : session'[d] = session[d] /\ owed'[d] = owed[d]
                                    /\ closes'[d] = closes[d],
           walk'.swept = walk.swept /\ walk'.at = walk.at,
           Reference(c)',
           owed[c] = Holds(c) => owed'[c] = Holds(c)' \/ c \notin walk.swept
    PROVE  References'
<1>1. Main \in Goroutines \ {c} /\ Clients \subseteq Goroutines
  BY ClientListAssumption DEF Goroutines
<1>2. ASSUME NEW d \in Clients PROVE Reference(d)'
  <2>1. CASE d = c
    BY <2>1
  <2>2. CASE d # c
    BY <1>1, <2>2 DEF IInv, References, Reference, Progress, OwnReference, SweptReference, Holds
  <2> QED
    BY <2>1, <2>2
<1>3. MainReference'
  <2> SUFFICES ASSUME pc[Main] \in {"closing", "unref"}
               PROVE  walk.at \in walk.swept /\ owed'[walk.at] = Holds(walk.at)'
    BY <1>1 DEF MainReference, Holds
  <2>1. walk.at \in walk.swept /\ owed[walk.at] = Holds(walk.at)
    BY DEF IInv, References, MainReference
  <2>2. walk.swept \subseteq Clients
    BY DEF IInv, RestTyped, Walks
  <2>3. CASE walk.at = c
    BY <2>1, <2>3
  <2>4. CASE walk.at # c
    BY <2>1, <2>2, <2>4 DEF Holds
  <2> QED
    BY <2>1, <2>3, <2>4
<1> QED
  BY <1>2, <1>3 DEF References

(***************************************************************************)
(* Client.Close by the goroutine of a client gives its reference back.     *)
(***************************************************************************)
LEMMA ClientCloses ==
    ASSUME IInv, NEW c \in Clients, Close(c)
    PROVE  RestTyped' /\ References'
<1>1. c \in Goroutines /\ c # Main /\ Target(c) = c
  BY ClientListAssumption DEF Goroutines, Target
<1>2. pc \in [Goroutines -> Steps] /\ pc[c] \in {"closing", "unref"}
  BY DEF IInv, ListInv, ListTyped, Close, CheckSession, UnrefSession
<1>3. Reference(c) /\ c \notin walk.swept
  BY <1>2 DEF IInv, References, Reference, SweptReference
<1>4. UNCHANGED <<closes, walk, session, reader, peer, serving>>
  BY DEF Close, CheckSession, UnrefSession
<1>5. RestTyped'
  <2>1. owed' \in [Clients -> Int]
    BY <1>1 DEF IInv, RestTyped, Close, CheckSession, UnrefSession
  <2>2. netconn' \in [Clients -> {"open", "closed"}]
    BY <1>1 DEF IInv, RestTyped, Close, CheckSession, UnrefSession, Hangup
  <2> QED
    BY <1>4, <2>1, <2>2 DEF IInv, RestTyped
<1>6. /\ \A g \in Goroutines \ {c} : pc'[g] = pc[g]
      /\ \A d \in Clients \ {c} : owed'[d] = owed[d]
  BY <1>1, <1>2 DEF IInv, RestTyped, Close, CheckSession, UnrefSession, Hangup, Goto
<1>7. Reference(c)'
  <2>1. CASE CheckSession(c)
    <3>1. \/ session[c] /\ pc'[c] = "unref" /\ owed' = owed
          \/ ~session[c] /\ pc'[c] = "gone" /\ owed' = owed
      BY <1>1, <1>2, <2>1 DEF CheckSession, Hangup, Goto
    <3> QED
      BY <1>2, <1>3, <1>4, <2>1, <3>1
      DEF CheckSession, Reference, Progress, OwnReference, Holds
  <2>2. CASE UnrefSession(c)
    <3>1. session[c]
      BY <1>3, <2>2 DEF UnrefSession, Reference, Progress
    <3>2. pc'[c] = "gone" /\ owed'[c] = owed[c] - 1
      BY <1>1, <1>2, <2>2, <3>1 DEF UnrefSession, Hangup, Goto, IInv, RestTyped
    <3> QED
      BY <1>3, <1>4, <2>2, <3>1, <3>2
      DEF UnrefSession, Reference, Progress, OwnReference, Holds
  <2> QED
    BY <2>1, <2>2 DEF Close
<1> QED
  BY <1>3, <1>4, <1>5, <1>6, <1>7, OneClient

(***************************************************************************)
(* A PASS gives an earlier reference back and takes another or none.       *)
(***************************************************************************)
LEMMA ClientHandles ==
    ASSUME IInv, NEW c \in Clients, Handle(c) \/ EventFails(c)
    PROVE  RestTyped' /\ References'
<1>1. c \in Goroutines /\ c # Main
  BY ClientListAssumption DEF Goroutines
<1>2. pc \in [Goroutines -> Steps]
  BY DEF IInv, ListInv, ListTyped
<1>3. Reference(c) /\ RestTyped
  BY DEF IInv, References
<1>4. UNCHANGED <<closes, walk, netconn, peer>>
  BY LoginSteps DEF Handle, Line, Password, ReaderError, EventFails, Receives, socket
<1>5. CASE Line(c) \/ ReaderError(c) \/ EventFails(c)
  <2>1. pc[c] = "running" /\ UNCHANGED <<session, owed>>
    BY <1>5 DEF Line, ReaderError, EventFails, Receives
  <2>2. UNCHANGED pc \/ pc' = [pc EXCEPT ![c] = "leaving"]
    BY <1>5 DEF Line, ReaderError, EventFails, Goto
  <2>3. serving' \in [Clients -> BOOLEAN]
    BY <1>3, <1>5 DEF RestTyped, Line, ReaderError, EventFails
  <2>4. reader' \in [Clients -> {"none", "reading", "sending", "failing", "done"}]
    BY <1>3, <1>5 DEF RestTyped, Line, Receives, ReaderError, EventFails, socket
  <2>5. RestTyped'
    BY <1>3, <1>4, <2>1, <2>3, <2>4 DEF RestTyped
  <2>6. \A g \in Goroutines \ {c} : pc'[g] = pc[g]
    BY <1>2, <2>2
  <2>7. pc'[c] \in {"running", "leaving"}
    BY <1>1, <1>2, <2>1, <2>2
  <2>8. Reference(c)'
    BY <1>3, <1>4, <2>1, <2>7
    DEF Reference, Progress, OwnReference, SweptReference, Holds
  <2> QED
    BY <1>4, <2>1, <2>5, <2>6, <2>8, OneClient DEF Holds
<1>6. CASE Password(c)
  <2>1. pc[c] = "running" /\ pc' = [pc EXCEPT ![c] = "locking"]
    BY <1>6 DEF Password, Receives, Goto
  <2>2. /\ owed' = [owed EXCEPT ![c] = IF session[c] THEN @ - 1 ELSE @]
        /\ session' = [session EXCEPT ![c] = FALSE]
    BY <1>6 DEF Password, UnrefPassword
  <2>3. RestTyped'
    BY <1>3, <1>4, <1>6, <2>2 DEF RestTyped, Password, Receives
  <2>4. /\ \A g \in Goroutines \ {c} : pc'[g] = pc[g]
        /\ pc'[c] = "locking"
    BY <1>1, <1>2, <2>1
  <2>5. /\ \A d \in Clients \ {c} : session'[d] = session[d] /\ owed'[d] = owed[d]
        /\ ~session'[c] /\ owed'[c] = owed[c] - Holds(c)
    BY <1>3, <2>2 DEF RestTyped, Holds
  <2>6. Holds(c)' = 0
    BY <2>5 DEF Holds
  <2>7. Reference(c)'
    BY <1>3, <1>4, <2>1, <2>4, <2>5, <2>6
    DEF RestTyped, Reference, Progress, OwnReference, SweptReference, Holds
  <2> QED
    BY <1>3, <1>4, <2>3, <2>4, <2>5, <2>6, <2>7, OneClient DEF RestTyped, Holds
<1>7. CASE Login(c)
  <2>1. pc[c] \in {"locking", "creating"} /\ reader' = reader /\ ~session[c]
    BY <1>3, <1>7, LoginSteps DEF socket, Reference, Progress
  <2>2. \/ Answered(c)
        \/ /\ UNCHANGED <<serving, session, owed>>
           /\ \E step \in {"creating", "stuck", "leaving"} : Goto(c, step)
    BY <1>7 DEF Login, SessionFound, SessionMissing, SessionCreated, SessionFailed,
                SessionDuplicate
  <2>3. CASE Answered(c)
    <3>1. owed' = [owed EXCEPT ![c] = @ + 1] /\ session' = [session EXCEPT ![c] = TRUE]
      BY <2>3 DEF Answered
    <3>2. pc' = [pc EXCEPT ![c] = "running"] \/ pc' = [pc EXCEPT ![c] = "leaving"]
      BY <2>3 DEF Answered, Goto
    <3>3. serving' = serving \/ serving' = [serving EXCEPT ![c] = TRUE]
      BY <2>3 DEF Answered
    <3>4. RestTyped'
      <4>1. serving' \in [Clients -> BOOLEAN]
        BY <1>3, <3>3 DEF RestTyped
      <4>2. session' \in [Clients -> BOOLEAN]
        BY <1>3, <3>1 DEF RestTyped
      <4>3. owed' \in [Clients -> Int]
        BY <1>3, <3>1 DEF RestTyped
      <4> QED
        BY <1>3, <1>4, <2>1, <4>1, <4>2, <4>3 DEF RestTyped
    <3>5. /\ \A g \in Goroutines \ {c} : pc'[g] = pc[g]
          /\ pc'[c] \in {"running", "leaving"}
      BY <1>1, <1>2, <3>2
    <3>6. /\ \A d \in Clients \ {c} : session'[d] = session[d] /\ owed'[d] = owed[d]
          /\ Holds(c) = 0 /\ session'[c] /\ owed'[c] = owed[c] + 1
      BY <1>3, <2>1, <3>1 DEF RestTyped, Holds
    <3>7. Holds(c)' = 1
      BY <3>6 DEF Holds
    <3>8. Reference(c)'
      BY <1>3, <1>4, <2>1, <3>5, <3>6, <3>7
      DEF RestTyped, Reference, Progress, OwnReference, SweptReference
    <3> QED
      BY <1>3, <1>4, <3>4, <3>5, <3>6, <3>7, <3>8, OneClient DEF RestTyped
  <2>4. CASE /\ UNCHANGED <<serving, session, owed>>
             /\ \E step \in {"creating", "stuck", "leaving"} : Goto(c, step)
    <3>1. /\ \A g \in Goroutines \ {c} : pc'[g] = pc[g]
          /\ pc'[c] \in {"creating", "stuck", "leaving"}
      BY <1>1, <1>2, <2>4 DEF Goto
    <3>2. RestTyped'
      BY <1>3, <1>4, <2>1, <2>4 DEF RestTyped
    <3>3. Reference(c)'
      BY <1>3, <1>4, <2>1, <2>4, <3>1
      DEF Reference, Progress, OwnReference, SweptReference, Holds
    <3> QED
      BY <1>4, <2>4, <3>1, <3>2, <3>3, OneClient DEF Holds
  <2> QED
    BY <2>2, <2>3, <2>4
<1> QED
  BY <1>5, <1>6, <1>7 DEF Handle

(***************************************************************************)
(* A client that finds itself in the list has not been closed by main.     *)
(***************************************************************************)
LEMMA ClientLeaves ==
    ASSUME IInv, NEW c \in Clients, RemoveClient(c)
    PROVE  RestTyped' /\ References'
<1>1. c \in Goroutines /\ c # Main
  BY ClientListAssumption DEF Goroutines
<1>2. pc \in [Goroutines -> Steps] /\ closes \in [Clients -> 0..1]
  BY DEF IInv, ListInv, ListTyped
<1>3. Reference(c) /\ RestTyped /\ pc[c] = "leaving"
  BY DEF IInv, References, RemoveClient
<1>4. UNCHANGED <<walk, serving, session, owed, reader, netconn, peer>>
  BY DEF RemoveClient, socket
<1>5. RestTyped'
  BY <1>3, <1>4 DEF RestTyped
<1>6. CASE c \in Listed
  <2>1. closes[c] = 0 /\ closes' = [closes EXCEPT ![c] = 1] /\ pc' = [pc EXCEPT ![c] = "closing"]
    BY <1>1, <1>3, <1>6, RemoveKeepsList DEF RemoveClient, InList, RemoveAndClose, Goto, IInv
  <2>2. /\ \A g \in Goroutines \ {c} : pc'[g] = pc[g]
        /\ \A d \in Clients \ {c} : closes'[d] = closes[d]
        /\ pc'[c] = "closing" /\ closes'[c] = 1
    BY <1>1, <1>2, <2>1
  <2>3. Reference(c)'
    BY <1>3, <1>4, <2>1, <2>2 DEF Reference, Progress, OwnReference, SweptReference, Holds
  <2> QED
    BY <1>4, <1>5, <2>2, <2>3, OneClient DEF Holds
<1>7. CASE c \notin Listed
  <2>1. closes' = closes /\ pc' = [pc EXCEPT ![c] = "gone"]
    BY <1>7 DEF RemoveClient, InList, Goto
  <2>2. (\A g \in Goroutines \ {c} : pc'[g] = pc[g]) /\ pc'[c] = "gone"
    BY <1>1, <1>2, <2>1
  <2>3. closes[c] = 1
    BY <1>2, <1>3, <1>7 DEF IInv, ListInv, Members
  <2>4. c \in walk.swept
    BY <1>3, <2>3 DEF Reference, OwnReference
  <2>5. Reference(c)'
    BY <1>3, <1>4, <2>1, <2>2, <2>3, <2>4 DEF Reference, Progress, SweptReference, Holds
  <2> QED
    BY <1>4, <1>5, <2>1, <2>2, <2>5, OneClient DEF Holds
<1> QED
  BY <1>6, <1>7

LEMMA ClientComes ==
    ASSUME IInv, NEW c \in Clients, Accept(c)
    PROVE  RestTyped' /\ References'
<1>1. c \in Goroutines /\ c # Main
  BY ClientListAssumption DEF Goroutines
<1>2. pc \in [Goroutines -> Steps] /\ array \in Seq(Clients \cup {Nil})
  BY DEF IInv, ListInv, ListTyped
<1>3. Reference(c) /\ RestTyped /\ pc[c] = "none" /\ closes[c] = 0
  BY DEF IInv, References, Accept, ListInv, NoneUnclosed
<1>4. UNCHANGED <<serving, session, owed, netconn, peer, closes>>
  BY DEF Accept
<1>5. walk' = walk \/ walk' = [walk EXCEPT !.old = array]
  BY <1>3 DEF Accept, Append1, RestTyped, Walks
<1>6. walk' \in Walks /\ walk'.swept = walk.swept /\ walk'.at = walk.at
  BY <1>2, <1>3, <1>5 DEF RestTyped, Walks
<1>7. RestTyped'
  BY <1>3, <1>4, <1>6 DEF RestTyped, Accept
<1>8. (\A g \in Goroutines \ {c} : pc'[g] = pc[g]) /\ pc'[c] = "running"
  BY <1>1, <1>2 DEF Accept, Goto
<1>9. Reference(c)'
  BY <1>3, <1>4, <1>6, <1>8 DEF Reference, Progress, OwnReference, SweptReference, Holds
<1> QED
  BY <1>4, <1>6, <1>7, <1>8, <1>9, OneClient DEF Holds

(***************************************************************************)
(* Steps that concern neither references nor closing.                      *)
(***************************************************************************)
LEMMA StepsAside ==
    ASSUME IInv, UNCHANGED <<session, owed, closes>>,
           \A c \in Clients : pc'[c] = pc[c],
           walk'.swept = walk.swept,
           pc'[Main] \in {"closing", "unref"} =>
               pc[Main] \in {"closing", "unref"} /\ walk'.at = walk.at
    PROVE  References'
<1>1. MainReference'
  BY DEF IInv, References, MainReference, Holds
<1>2. \A c \in Clients : Reference(c)'
  BY DEF IInv, References, Reference, Progress, OwnReference, SweptReference, Holds
<1> QED
  BY <1>1, <1>2 DEF References

LEMMA ReaderSteps ==
    ASSUME IInv, NEW c \in Clients, ReadLine(c) \/ ReadFails(c)
    PROVE  RestTyped' /\ References'
<1>1. UNCHANGED <<walk, pc, serving, session, owed, netconn, closes>>
  BY DEF ReadLine, ReadFails, loop
<1>2. peer' \in [Clients -> [lines : Nat, hangup : BOOLEAN]]
  BY DEF IInv, RestTyped, ReadLine, ReadFails
<1>3. reader' \in [Clients -> {"none", "reading", "sending", "failing", "done"}]
  BY DEF IInv, RestTyped, ReadLine, ReadFails
<1>4. RestTyped'
  BY <1>1, <1>2, <1>3 DEF IInv, RestTyped
<1> QED
  BY <1>1, <1>4, StepsAside

----------------------------------------------------------------------------
(* The walk of Server.Close. *)

LEMMA MainCloses ==
    ASSUME IInv, Close(Main)
    PROVE  RestTyped' /\ References'
<1> DEFINE c == walk.at
<1>1. Main \in Goroutines /\ Main \notin Clients /\ Clients \subseteq Goroutines /\ Target(Main) = c
  BY ClientListAssumption DEF Goroutines, Target
<1>2. pc \in [Goroutines -> Steps] /\ pc[Main] \in {"closing", "unref"} /\ RestTyped
  BY DEF IInv, ListInv, ListTyped, Close, CheckSession, UnrefSession
<1>3. c \in walk.swept /\ owed[c] = Holds(c) /\ walk.swept \subseteq Clients
  BY <1>2 DEF IInv, References, MainReference, RestTyped, Walks
<1>4. UNCHANGED <<closes, walk, session, reader, peer, serving>>
  BY DEF Close, CheckSession, UnrefSession
<1>5. \A d \in Clients : pc'[d] = pc[d]
  BY <1>1, <1>2 DEF Close, CheckSession, UnrefSession, Hangup, Goto
<1>6. netconn' \in [Clients -> {"open", "closed"}]
  BY <1>1, <1>2, <1>3 DEF RestTyped, Close, CheckSession, UnrefSession, Hangup
<1>7. CASE UNCHANGED owed
  <2>1. RestTyped'
    BY <1>2, <1>4, <1>6, <1>7 DEF RestTyped
  <2> QED
    BY <1>2, <1>4, <1>5, <1>7, <2>1, StepsAside
<1>8. CASE UnrefSession(Main) /\ session[c]
  <2>1. owed' = [owed EXCEPT ![c] = @ - 1] /\ pc' = [pc EXCEPT ![Main] = "relock"]
    BY <1>1, <1>8 DEF UnrefSession, Hangup, Goto
  <2>2. RestTyped'
    BY <1>2, <1>3, <1>4, <1>6, <2>1 DEF RestTyped
  <2>3. MainReference'
    BY <1>1, <1>2, <2>1 DEF MainReference
  <2>4. ASSUME NEW d \in Clients PROVE Reference(d)'
    <3>1. CASE d = c
      <4>1. owed'[d] = Holds(d) - 1 /\ Holds(d)' = Holds(d)
        BY <1>2, <1>3, <1>4, <2>1, <3>1 DEF RestTyped, Holds
      <4>2. Reference(d) /\ d \in walk.swept
        BY <1>3, <3>1 DEF IInv, References
      <4> QED
        BY <1>4, <1>5, <4>1, <4>2 DEF Reference, Progress, SweptReference
    <3>2. CASE d # c
      <4>1. owed'[d] = owed[d] /\ Holds(d)' = Holds(d) /\ Reference(d)
        BY <1>2, <1>4, <2>1, <3>2 DEF RestTyped, Holds, IInv, References
      <4> QED
        BY <1>4, <1>5, <4>1 DEF Reference, Progress, OwnReference, SweptReference
    <3> QED
      BY <3>1, <3>2
  <2> QED
    BY <2>2, <2>3, <2>4 DEF References
<1> QED
  BY <1>1, <1>7, <1>8 DEF Close, CheckSession, UnrefSession

LEMMA Advances ==
    ASSUME RestTyped, Advance
    PROVE  walk' \in Walks /\ walk'.swept = walk.swept
<1>1. walk = [i |-> walk.i, n |-> walk.n, old |-> walk.old, listed |-> walk.listed,
              swept |-> walk.swept, at |-> walk.at] /\ walk.i \in Nat /\ walk \in Walks
  BY DEF RestTyped, Walks
<1>2. walk' = [i |-> walk.i + 1, n |-> walk.n, old |-> walk.old, listed |-> walk.listed,
               swept |-> walk.swept, at |-> Nil]
  BY <1>1 DEF Advance
<1> QED
  BY <1>1, <1>2 DEF Walks

LEMMA MainVisits ==
    ASSUME IInv, Visit
    PROVE  RestTyped' /\ References'
<1> DEFINE c == Element
<1>1. Main \in Goroutines /\ Main \notin Clients /\ Clients \subseteq Goroutines
  BY ClientListAssumption DEF Goroutines
<1>2. /\ pc \in [Goroutines -> Steps] /\ pc[Main] = "walking" /\ RestTyped
      /\ closes \in [Clients -> 0..1]
  BY DEF IInv, ListInv, ListTyped, Visit
<1>3. UNCHANGED <<session, owed, reader, netconn, peer, serving>>
  BY DEF Visit, socket
<1>4. CASE c \notin Listed
  <2>1. UNCHANGED <<pc, closes>> /\ walk' = [walk EXCEPT !.at = Nil, !.i = @ + 1]
    BY <1>4 DEF Visit, InList, Advance
  <2>2. walk' \in Walks /\ walk'.swept = walk.swept
    BY <1>2, <2>1, Advances DEF Advance
  <2>3. RestTyped'
    BY <1>2, <1>3, <2>2 DEF RestTyped
  <2> QED
    BY <1>2, <1>3, <2>1, <2>2, <2>3, StepsAside
<1>5. CASE c \in Listed
  <2>1. /\ RemoveAndClose(Main, c)
        /\ walk' = [walk EXCEPT !.at = c, !.swept = @ \cup {c}]
    BY <1>5 DEF Visit, InList
  <2>2. c \in Clients
    BY <1>5 DEF IInv, ListInv, Elements, Listed
  <2>3. /\ closes[c] = 0 /\ closes' = [closes EXCEPT ![c] = 1]
        /\ pc' = [pc EXCEPT ![Main] = "closing"] /\ pc[c] # "none"
    BY <1>1, <1>2, <1>5, <2>1, <2>2, RemoveKeepsList
    DEF RemoveAndClose, Goto, IInv, ListInv, Members
  <2>4. walk' \in Walks /\ walk'.at = c /\ walk'.swept = walk.swept \cup {c}
    BY <1>2, <2>1, <2>2 DEF RestTyped, Walks
  <2>5. RestTyped'
    BY <1>2, <1>3, <2>4 DEF RestTyped
  <2>6. /\ \A d \in Clients : pc'[d] = pc[d] /\ Holds(d)' = Holds(d)
        /\ closes'[c] = 1 /\ \A d \in Clients \ {c} : closes'[d] = closes[d]
    BY <1>1, <1>2, <1>3, <2>2, <2>3 DEF Holds
  <2>7. /\ Reference(c) /\ c \notin walk.swept
        /\ pc[c] \notin {"closing", "unref", "gone", "crashed"} /\ owed[c] = Holds(c)
    BY <2>2, <2>3 DEF IInv, References, Reference, Progress, OwnReference, SweptReference
  <2>8. MainReference'
    BY <1>3, <2>2, <2>4, <2>6, <2>7 DEF MainReference, Holds
  <2>9. ASSUME NEW d \in Clients PROVE Reference(d)'
    <3>1. CASE d = c
      BY <1>3, <2>2, <2>3, <2>4, <2>6, <2>7, <3>1
      DEF Reference, Progress, SweptReference, Holds
    <3>2. CASE d # c
      <4>1. Reference(d)
        BY DEF IInv, References
      <4> QED
        BY <1>3, <2>4, <2>6, <3>2, <4>1
        DEF Reference, Progress, OwnReference, SweptReference
    <3> QED
      BY <3>1, <3>2
  <2> QED
    BY <2>5, <2>8, <2>9 DEF References
<1> QED
  BY <1>4, <1>5

LEMMA MainMovesOn ==
    ASSUME IInv, Signal \/ BeginWalk \/ Relock \/ Exit
    PROVE  RestTyped' /\ References'
<1>1. /\ Main \in Goroutines /\ Main \notin Clients /\ Clients \subseteq Goroutines
      /\ pc \in [Goroutines -> Steps] /\ RestTyped /\ len \in Nat
  BY ClientListAssumption DEF Goroutines, IInv, ListInv, ListTyped
<1>2. UNCHANGED <<serving, session, owed, reader, netconn, peer, closes>>
  BY DEF Signal, BeginWalk, Relock, Exit, socket
<1>3. /\ pc'[Main] \in {"stopping", "walking", "exited"}
      /\ \A c \in Clients : pc'[c] = pc[c]
  BY <1>1 DEF Signal, BeginWalk, Relock, Exit, Goto
<1>4. Listed \subseteq Clients
  BY DEF IInv, ListInv, Elements, Listed
<1>5. walk' \in Walks /\ walk'.swept = walk.swept
  <2>1. walk \in Walks
    BY <1>1 DEF RestTyped
  <2>2. CASE Signal \/ Exit
    BY <2>1, <2>2 DEF Signal, Exit
  <2>3. CASE BeginWalk
    <3>1. walk' = [walk EXCEPT !.n = len, !.listed = Listed]
      BY <2>3 DEF BeginWalk
    <3> QED
      BY <1>1, <1>4, <2>1, <3>1 DEF Walks
  <2>4. CASE Relock
    BY <1>1, <2>4, Advances DEF Relock
  <2> QED
    BY <2>2, <2>3, <2>4
<1>6. RestTyped'
  BY <1>1, <1>2, <1>5 DEF RestTyped
<1> QED
  BY <1>2, <1>3, <1>5, <1>6, StepsAside

----------------------------------------------------------------------------
(* The theorems. *)

LEMMA StepIInv == IInv /\ [Next]_vars => IInv'
<1> SUFFICES ASSUME IInv, [Next]_vars PROVE RestTyped' /\ References'
  BY ListStep DEF IInv
<1>1. CASE UNCHANGED vars
  <2>1. RestTyped'
    BY <1>1 DEF vars, IInv, RestTyped
  <2> QED
    BY <1>1, <2>1, StepsAside DEF vars
<1>2. CASE MainStep \/ Signal
  BY <1>2, MainCloses, MainVisits, MainMovesOn DEF MainStep
<1>3. ASSUME NEW c \in Clients,
             ClientStep(c) \/ Accept(c) \/ ReadLine(c) \/ ReadFails(c) \/ EventFails(c)
      PROVE  RestTyped' /\ References'
  BY <1>3, ClientHandles, ClientLeaves, ClientCloses, ClientComes, ReaderSteps DEF ClientStep
<1> QED
  BY <1>1, <1>2, <1>3 DEF Next

LEMMA AlwaysIInv == Spec => []IInv
BY InitIInv, StepIInv, PTL DEF Spec

(***************************************************************************)
(* The places of main and of the clients are not the same.                 *)
(***************************************************************************)
Places == pc[Main] \in MainSteps /\ \A c \in Clients : pc[c] \in ClientSteps

LEMMA PlacesStep == ListInv /\ Places /\ [Next]_vars => Places'
<1> SUFFICES ASSUME ListInv, Places, [Next]_vars PROVE Places'
  OBVIOUS
<1>1. /\ pc \in [Goroutines -> Steps] /\ Main \notin Clients
      /\ Goroutines = Clients \cup {Main}
  BY ClientListAssumption DEF ListInv, ListTyped, Goroutines
<1>2. ASSUME NEW c \in Clients, NEW step \in ClientSteps, Goto(c, step) PROVE Places'
  BY <1>1, <1>2 DEF Places, Goto
<1>3. ASSUME NEW step \in MainSteps, Goto(Main, step) PROVE Places'
  BY <1>1, <1>3 DEF Places, Goto
<1>4. CASE UNCHANGED pc
  BY <1>4 DEF Places
<1>5. CASE MainStep \/ Signal
  <2>1. UNCHANGED pc \/ \E step \in MainSteps : Goto(Main, step)
    BY <1>5 DEF MainStep, Signal, BeginWalk, Visit, RemoveAndClose, Relock, Exit, Close,
                CheckSession, UnrefSession, Hangup, MainSteps, CloseSteps
  <2> QED
    BY <1>3, <1>4, <2>1
<1>6. ASSUME NEW c \in Clients, ClientStep(c) \/ Accept(c) \/ EventFails(c) PROVE Places'
  <2>1. UNCHANGED pc \/ \E step \in ClientSteps : Goto(c, step)
    BY <1>1, <1>6, LoginSteps
    DEF ClientStep, Handle, Line, Password, ReaderError, EventFails, Accept,
        RemoveClient, RemoveAndClose, Close, CheckSession, UnrefSession, Hangup,
        ClientSteps, CloseSteps
  <2> QED
    BY <1>2, <1>4, <2>1
<1>7. ASSUME NEW c \in Clients, ReadLine(c) \/ ReadFails(c) PROVE Places'
  BY <1>4, <1>7 DEF ReadLine, ReadFails, loop
<1> QED
  BY <1>4, <1>5, <1>6, <1>7 DEF Next, vars

(***************************************************************************)
(* The types of the variables; a client never has more than one session to *)
(* give back, and never gives back more than one too many.                 *)
(***************************************************************************)
THEOREM TypeCorrect == Spec => []TypeOK
<1>1. Init => Places
  BY ClientListAssumption DEF Init, Places, Goroutines, MainSteps, ClientSteps
<1>2. IInv /\ Places /\ [Next]_vars => Places'
  BY PlacesStep DEF IInv
<1>3. IInv /\ Places => TypeOK
  <2> SUFFICES ASSUME IInv, Places PROVE TypeOK
    OBVIOUS
  <2>1. owed \in [Clients -> -1..1]
    <3>1. \A c \in Clients : Holds(c) \in 0..1
      BY DEF Holds
    <3>2. \A c \in Clients : owed[c] \in -1..1
      BY <3>1 DEF IInv, References, Reference, OwnReference, SweptReference
    <3> QED
      BY <3>2 DEF IInv, RestTyped
  <2>2. closes \in [Clients -> Nat] /\ array \in Seq(Clients \cup {Nil}) /\ len \in 0..Len(array)
    BY DEF IInv, ListInv, ListTyped
  <2> QED
    BY <2>1, <2>2 DEF IInv, RestTyped, Places, TypeOK
<1> QED
  BY <1>1, <1>2, <1>3, AlwaysIInv, PTL DEF Spec

(***************************************************************************)
(* Every session a client is handed is given back once; by a client that   *)
(* main closes under its goroutine, once too often at most.                *)
(***************************************************************************)
THEOREM AlwaysRefsBalanced == Spec => []RefsBalanced
<1>1. IInv => RefsBalanced
  BY DEF IInv, References, Reference, OwnReference, SweptReference, RefsBalanced
<1> QED
  BY <1>1, AlwaysIInv, PTL

----------------------------------------------------------------------------
(* Whom Server.Close misses. *)

(***************************************************************************)
(* The place p of the array that the range loop reads, the last place it   *)
(* has visited, and a client of the list at its beginning that is still    *)
(* to be closed.                                                           *)
(***************************************************************************)
At(p) == IF walk.old = <<>> THEN array[p] ELSE walk.old[p]

Visited == IF pc[Main] \in {"walking", "exited"} THEN walk.i - 1 ELSE walk.i

Unclosed(c) == c \in walk.listed /\ closes[c] = 0

Shape ==
    /\ walk.i \in Nat \ {0} /\ walk.n \in Nat
    /\ walk.n <= IF walk.old = <<>> THEN Len(array) ELSE Len(walk.old)
    /\ walk.listed \subseteq Clients
    /\ \A c \in walk.listed : pc[c] # "none"
    /\ ~Begun => walk.i = 1 /\ walk.n = 0 /\ walk.old = <<>> /\ walk.listed = {}
    /\ pc[Main] = "exited" => walk.i > walk.n

Found == \A c \in Clients : Unclosed(c) => \E p \in 1..walk.n : At(p) = c

(***************************************************************************)
(* `orig' is the list as the loop found it.  Clients only move towards the *)
(* front, into the places of closed ones, so that before a client that is  *)
(* to be closed every place has the client it had, or that one is closed;  *)
(* and behind the loop no client is in its old place.                      *)
(***************************************************************************)
Order(orig) ==
    /\ orig \in [1..walk.n -> walk.listed]
    /\ \A p, q \in 1..walk.n : orig[p] = orig[q] => p = q

Filled(orig) ==
    \A p, q \in 1..walk.n :
        p <= q /\ Unclosed(At(q)) => closes[orig[p]] = 1 \/ At(p) = orig[p]

PassedTo(orig, v) ==
    \A p \in 1..walk.n : p <= v /\ Unclosed(At(p)) => At(p) # orig[p]

WalkInv ==
    /\ Shape /\ Found
    /\ \E orig : Order(orig) /\ Filled(orig) /\ PassedTo(orig, Visited)

LEMMA InitWalkInv == Init => WalkInv
<1> SUFFICES ASSUME Init PROVE WalkInv
  OBVIOUS
<1>1. /\ walk = [i |-> 1, n |-> 0, old |-> <<>>, listed |-> {}, swept |-> {}, at |-> Nil]
      /\ pc[Main] = "waiting" /\ array = <<>>
  BY DEF Init, Goroutines
<1>2. Shape
  BY <1>1 DEF Shape, Begun
<1>3. Found
  BY <1>1 DEF Found, Unclosed
<1>4. Order(<<>>) /\ Filled(<<>>) /\ PassedTo(<<>>, Visited)
  BY <1>1 DEF Order, Filled, PassedTo
<1> QED
  BY <1>2, <1>3, <1>4 DEF WalkInv

(***************************************************************************)
(* A step that changes no place that matters: behind the places that       *)
(* change there is nobody to be closed.                                    *)
(***************************************************************************)
LEMMA PlacesKept ==
    ASSUME Shape, Found, NEW orig, Order(orig), Filled(orig), NEW v, PassedTo(orig, v),
           walk'.n = walk.n, walk'.listed = walk.listed,
           \A c \in Clients : closes'[c] = 0 => closes[c] = 0,
           \A c \in Clients : closes[c] = 1 => closes'[c] = 1,
           \A p \in 1..walk.n :
               \/ At(p)' = At(p)
               \/ \A q \in p..walk.n : ~Unclosed(At(q)) /\ ~Unclosed(At(q))'
    PROVE  Found' /\ Order(orig)' /\ Filled(orig)' /\ PassedTo(orig, v)'
<1>0. walk.n \in Nat /\ walk.listed \subseteq Clients
  BY DEF Shape
<1>1. \A c \in Clients : Unclosed(c)' => Unclosed(c)
  BY DEF Unclosed
<1>2. \A c : Unclosed(c)' => c \in Clients
  BY <1>0 DEF Unclosed
<1>3. \A p \in 1..walk.n : Unclosed(At(p))' => At(p)' = At(p) /\ Unclosed(At(p))
  <2> SUFFICES ASSUME NEW p \in 1..walk.n, Unclosed(At(p))'
               PROVE  At(p)' = At(p) /\ Unclosed(At(p))
    OBVIOUS
  <2>1. p \in p..walk.n
    BY <1>0
  <2>2. At(p)' = At(p)
    BY <2>1
  <2> QED
    BY <1>0, <2>2 DEF Unclosed
<1>4. Found'
  <2> SUFFICES ASSUME NEW c \in Clients, Unclosed(c)'
               PROVE  \E p \in 1..walk.n : At(p)' = c
    BY DEF Found
  <2>1. PICK p \in 1..walk.n : At(p) = c
    BY <1>1 DEF Found
  <2>2. p \in p..walk.n /\ Unclosed(At(p))
    BY <1>0, <1>1, <2>1
  <2> QED
    BY <2>1, <2>2
<1>5. Order(orig)'
  BY DEF Order
<1>6. Filled(orig)'
  <2> SUFFICES ASSUME NEW p \in 1..walk.n, NEW q \in 1..walk.n, p <= q, Unclosed(At(q))'
               PROVE  closes'[orig[p]] = 1 \/ At(p)' = orig[p]
    BY DEF Filled
  <2>1. Unclosed(At(q)) /\ q \in p..walk.n
    BY <1>0, <1>3
  <2>2. At(p)' = At(p)
    BY <2>1
  <2>3. closes[orig[p]] = 1 \/ At(p) = orig[p]
    BY <2>1 DEF Filled
  <2>4. orig[p] \in Clients
    BY <1>0 DEF Order
  <2> QED
    BY <2>2, <2>3, <2>4
<1>7. PassedTo(orig, v)'
  BY <1>3 DEF PassedTo
<1> QED
  BY <1>4, <1>5, <1>6, <1>7

(***************************************************************************)
(* A removal while the loop reads the array of the list: the last client   *)
(* moves into the place of the removed one, which is closed then.          *)
(***************************************************************************)
LEMMA RemovalFills ==
    ASSUME ListInv, Shape, Found, NEW orig, Order(orig), Filled(orig), NEW v, PassedTo(orig, v),
           walk.old = <<>>, walk'.old = <<>>, walk'.n = walk.n, walk'.listed = walk.listed,
           NEW c \in Listed, Remove(c), closes[c] = 0, closes' = [closes EXCEPT ![c] = 1]
    PROVE  /\ Found' /\ Order(orig)' /\ Filled(orig)' /\ PassedTo(orig, v)'
           /\ \A p \in 1..walk.n : At(p) = c /\ Unclosed(At(p))' => At(p)' # orig[p]
<1>0. /\ walk.n \in Nat /\ walk.n <= Len(array) /\ walk.listed \subseteq Clients
      /\ closes \in [Clients -> 0..1] /\ Nil \notin Clients /\ Len(array) \in Nat
  BY ClientListAssumption DEF Shape, ListInv, ListTyped
<1>1. /\ c \in Clients /\ len \in Nat \ {0} /\ len <= Len(array)
      /\ \E i \in 1..len :
            /\ array[i] = c
            /\ \A k \in 1..Len(array) :
                 array'[k] = IF k = len THEN Nil ELSE IF k = i THEN array[len] ELSE array[k]
  BY RemoveShape DEF ListInv, ListTyped
<1>2. PICK h \in 1..len :
            /\ array[h] = c
            /\ \A k \in 1..Len(array) :
                 array'[k] = IF k = len THEN Nil ELSE IF k = h THEN array[len] ELSE array[k]
  BY <1>1
<1>3. \A p \in 1..walk.n :
        At(p) = array[p] /\ At(p)' = array'[p] /\ (Unclosed(At(p))' <=> Unclosed(array[p])')
  BY DEF At
<1>4. closes'[c] = 1 /\ \A d \in Clients : d # c => closes'[d] = closes[d]
  BY <1>0, <1>1
<1>5. \A d : Unclosed(d)' <=> Unclosed(d) /\ d # c
  BY <1>0, <1>4 DEF Unclosed
<1>6. \A p \in 1..Len(array), q \in 1..len : array[p] = array[q] => p = q
  <2> SUFFICES ASSUME NEW p \in 1..Len(array), NEW q \in 1..len, array[p] = array[q]
               PROVE  p = q
    OBVIOUS
  <2>1. array[q] \in Clients
    BY DEF ListInv, Elements
  <2>2. p \in 1..len
    BY <1>0, <1>1, <2>1 DEF ListInv, EmptyTail
  <2> QED
    BY <2>2 DEF ListInv, OnePlace
<1>7. \A q \in 1..walk.n : Unclosed(array[q]) => q \in 1..len
  BY <1>0, <1>1 DEF Unclosed, ListInv, EmptyTail
<1>8. \A d \in Clients : Unclosed(d) => \E p \in 1..walk.n : array[p] = d /\ p \in 1..len
  BY <1>3, <1>7 DEF Found
(* The last client, if it is to be closed, was in reach of the loop. *)
<1>9. Unclosed(array[len]) => len \in 1..walk.n
  <2> SUFFICES ASSUME Unclosed(array[len]) PROVE len \in 1..walk.n
    OBVIOUS
  <2>1. array[len] \in Clients /\ len \in 1..len
    BY <1>0, <1>1 DEF Unclosed
  <2>2. PICK p \in 1..walk.n : array[p] = array[len] /\ p \in 1..len
    BY <1>8, <2>1
  <2>3. p = len
    BY <1>0, <1>6, <2>1, <2>2
  <2> QED
    BY <2>3
(* Where a client that is to be closed is, and was. *)
<1>10. ASSUME NEW q \in 1..walk.n, Unclosed(array[q])'
       PROVE  /\ q \in 1..(len - 1)
              /\ IF q = h THEN /\ array'[q] = array[len] /\ Unclosed(array[len]) /\ h < len
                          ELSE array'[q] = array[q] /\ Unclosed(array[q])
  <2>1. q \in 1..Len(array) /\ Unclosed(array'[q]) /\ array'[q] # c
    BY <1>0, <1>4, <1>10 DEF Unclosed
  <2>2. q # len
    BY <1>0, <1>2, <2>1 DEF Unclosed
  <2>3. CASE q = h
    BY <1>1, <1>2, <2>1, <2>2, <2>3
  <2>4. CASE q # h
    <3>1. array'[q] = array[q]
      BY <1>2, <2>1, <2>2, <2>4
    <3>2. q \in 1..len
      BY <1>7, <2>1, <3>1
    <3> QED
      BY <1>1, <2>1, <2>2, <2>4, <3>1, <3>2
  <2> QED
    BY <2>3, <2>4
<1>11. Found'
  <2> SUFFICES ASSUME NEW d \in Clients, Unclosed(d), d # c
               PROVE  \E p \in 1..walk.n : array'[p] = d
    BY <1>3, <1>5 DEF Found
  <2>1. PICK p \in 1..walk.n : array[p] = d /\ p \in 1..len
    BY <1>8
  <2>2. p \in 1..Len(array) /\ h \in 1..Len(array)
    BY <1>0, <1>1, <2>1
  <2>3. CASE p = len
    <3>1. h \in 1..walk.n /\ h # len
      BY <1>0, <1>1, <1>2, <2>1, <2>3
    <3>2. array'[h] = d
      BY <1>2, <2>1, <2>2, <2>3, <3>1
    <3> QED
      BY <3>1, <3>2
  <2>4. CASE p # len
    <3>1. p # h /\ array'[p] = d
      BY <1>2, <2>1, <2>2, <2>4
    <3> QED
      BY <3>1
  <2> QED
    BY <2>3, <2>4
<1>12. Order(orig)'
  BY DEF Order
<1>13. Filled(orig)'
  <2> SUFFICES ASSUME NEW p \in 1..walk.n, NEW q \in 1..walk.n, p <= q, Unclosed(array[q])'
               PROVE  closes'[orig[p]] = 1 \/ array'[p] = orig[p]
    BY <1>3 DEF Filled
  <2>1. q \in 1..(len - 1) /\ p \in 1..(len - 1) /\ p \in 1..Len(array)
    BY <1>0, <1>1, <1>10
  <2>2. PICK r \in 1..walk.n : p <= r /\ Unclosed(array[r])
    <3>1. CASE q = h
      <4>1. len \in 1..walk.n /\ Unclosed(array[len])
        BY <1>9, <1>10, <3>1
      <4> QED
        BY <1>1, <2>1, <4>1
    <3>2. CASE q # h
      BY <1>10, <3>2
    <3> QED
      BY <3>1, <3>2
  <2>3. closes[orig[p]] = 1 \/ array[p] = orig[p]
    BY <1>3, <2>2 DEF Filled
  <2>4. orig[p] \in Clients
    BY <1>0 DEF Order
  <2>5. CASE closes[orig[p]] = 1
    BY <1>4, <2>4, <2>5
  <2>6. CASE array[p] = orig[p]
    <3>1. CASE p = h
      BY <1>2, <1>4, <2>6, <3>1
    <3>2. CASE p # h
      <4>1. array'[p] = array[p]
        BY <1>1, <1>2, <2>1, <3>2
      <4> QED
        BY <2>6, <4>1
    <3> QED
      BY <3>1, <3>2
  <2> QED
    BY <2>3, <2>5, <2>6
(* The client that has moved was not here in the beginning. *)
<1>14. ASSUME h \in 1..walk.n, Unclosed(array[h])'
       PROVE  array'[h] # orig[h]
  <2>1. array'[h] = array[len] /\ Unclosed(array[len]) /\ h < len
    BY <1>10, <1>14
  <2>2. len \in 1..walk.n /\ len \in 1..len /\ h \in 1..Len(array) /\ array[len] # c
    BY <1>0, <1>1, <1>2, <1>6, <1>9, <2>1
  <2>3. closes[orig[h]] = 1 \/ array[h] = orig[h]
    BY <1>3, <1>14, <2>1, <2>2 DEF Filled
  <2>4. CASE closes[orig[h]] = 1
    BY <2>1, <2>4 DEF Unclosed
  <2>5. CASE array[h] = orig[h]
    BY <1>2, <2>1, <2>2, <2>5
  <2> QED
    BY <2>3, <2>4, <2>5
<1>15. PassedTo(orig, v)'
  <2> SUFFICES ASSUME NEW p \in 1..walk.n, p <= v, Unclosed(array[p])'
               PROVE  array'[p] # orig[p]
    BY <1>3 DEF PassedTo
  <2>1. CASE p = h
    BY <1>14, <2>1
  <2>2. CASE p # h
    <3>1. array'[p] = array[p] /\ Unclosed(array[p])
      BY <1>10, <2>2
    <3> QED
      BY <1>3, <3>1 DEF PassedTo
  <2> QED
    BY <2>1, <2>2
<1>16. \A p \in 1..walk.n : At(p) = c /\ Unclosed(At(p))' => At(p)' # orig[p]
  <2> SUFFICES ASSUME NEW p \in 1..walk.n, array[p] = c, Unclosed(array[p])'
               PROVE  array'[p] # orig[p]
    BY <1>3
  <2>1. p = h
    BY <1>0, <1>2, <1>6
  <2> QED
    BY <1>14, <2>1
<1> QED
  BY <1>11, <1>12, <1>13, <1>15, <1>16

(***************************************************************************)
(* Every step has to say up to which place the loop has now been.          *)
(***************************************************************************)
LEMMA Assemble ==
    ASSUME Shape', Found', NEW orig, Order(orig)', Filled(orig)', NEW v, PassedTo(orig, v)',
           \A p \in 1..walk'.n :
               p <= Visited' /\ Unclosed(At(p))' => p <= v \/ At(p)' # orig[p]
    PROVE  WalkInv'
<1>1. PassedTo(orig, Visited)'
  BY DEF PassedTo
<1> QED
  BY <1>1 DEF WalkInv

(***************************************************************************)
(* Steps that leave the list and the array of the loop alone.              *)
(***************************************************************************)
LEMMA WalkKept ==
    ASSUME WalkInv, UNCHANGED <<list, closes>>, Begun' <=> Begun,
           walk'.i \in Nat \ {0}, walk'.n = walk.n, walk'.old = walk.old,
           walk'.listed = walk.listed, ~Begun => walk'.i = walk.i,
           pc'[Main] = "exited" => walk'.i > walk.n,
           \A c \in Clients : pc[c] # "none" => pc'[c] # "none",
           Visited' <= Visited \/ (Visited' = walk.i /\ Visited = walk.i - 1
                                   /\ (walk.i \in 1..walk.n => ~Unclosed(At(walk.i))))
    PROVE  WalkInv'
<1>1. Shape /\ Found /\ walk.i \in Nat /\ walk.n \in Nat
  BY DEF WalkInv, Shape
<1>2. PICK orig : Order(orig) /\ Filled(orig) /\ PassedTo(orig, Visited)
  BY DEF WalkInv
<1>3. PICK v : v = Visited
  OBVIOUS
<1>4. PassedTo(orig, v)
  BY <1>2, <1>3
<1>5. \A p \in 1..walk.n : At(p)' = At(p) /\ (Unclosed(At(p))' <=> Unclosed(At(p)))
  BY DEF At, Unclosed, list
<1>6. Shape'
  BY <1>1 DEF Shape, list
<1>7. Found' /\ Order(orig)' /\ Filled(orig)' /\ PassedTo(orig, v)'
  BY <1>1, <1>2, <1>4, <1>5, PlacesKept
<1>8. Visited' \in Int /\ v \in Int
  BY <1>1, <1>3, <1>6 DEF Visited, Shape
<1>9. \A p \in 1..walk'.n :
        p <= Visited' /\ Unclosed(At(p))' => p <= v \/ At(p)' # orig[p]
  BY <1>1, <1>3, <1>5, <1>8
<1> QED
  BY <1>6, <1>7, <1>9, Assemble

LEMMA ClientMoves ==
    ASSUME ListInv, WalkInv, NEW c \in Clients, NEW step \in Steps \ {"none"}, pc[c] # "none",
           UNCHANGED pc \/ Goto(c, step), UNCHANGED <<list, walk, closes>>
    PROVE  WalkInv'
<1>1. pc'[Main] = pc[Main] /\ \A d \in Clients : pc[d] # "none" => pc'[d] # "none"
  BY ClientListAssumption DEF ListInv, ListTyped, Goto, Goroutines
<1>2. Visited' = Visited /\ Visited \in Int /\ Begun' = Begun
  BY <1>1 DEF Visited, Begun, WalkInv, Shape
<1>3. Shape
  BY DEF WalkInv
<1> QED
  BY <1>1, <1>2, <1>3, WalkKept DEF Shape

LEMMA MainMoves ==
    ASSUME ListInv, WalkInv, walk \in Walks, Signal \/ Relock \/ Exit \/ Close(Main)
    PROVE  WalkInv'
<1>0. /\ pc \in [Goroutines -> Steps] /\ Main \in Goroutines /\ Main \notin Clients
      /\ Clients \subseteq Goroutines
  BY ClientListAssumption DEF ListInv, ListTyped, Goroutines
<1>1. Shape /\ walk.i \in Nat \ {0} /\ walk.n \in Nat
  BY DEF WalkInv, Shape
<1>2. CASE Signal
  <2>1. pc[Main] = "waiting" /\ pc'[Main] = "stopping" /\ \A c \in Clients : pc'[c] = pc[c]
    BY <1>0, <1>2 DEF Signal, Goto
  <2>2. UNCHANGED <<list, walk, closes>>
    BY <1>2 DEF Signal
  <2>3. Visited' = Visited /\ Visited \in Int /\ ~Begun /\ ~Begun'
    BY <1>1, <2>1, <2>2 DEF Visited, Begun
  <2> QED
    BY <1>1, <2>1, <2>2, <2>3, WalkKept
<1>3. CASE Exit
  <2>1. pc[Main] = "walking" /\ pc'[Main] = "exited" /\ \A c \in Clients : pc'[c] = pc[c]
    BY <1>0, <1>3 DEF Exit, Goto
  <2>2. UNCHANGED <<list, walk, closes>> /\ walk.i > walk.n
    BY <1>3 DEF Exit
  <2>3. Visited' = Visited /\ Visited \in Int /\ Begun /\ Begun'
    BY <1>1, <2>1, <2>2 DEF Visited, Begun
  <2> QED
    BY <1>1, <2>1, <2>2, <2>3, WalkKept
<1>4. CASE Relock
  <2>1. pc[Main] = "relock" /\ pc'[Main] = "walking" /\ \A c \in Clients : pc'[c] = pc[c]
    BY <1>0, <1>4 DEF Relock, Goto
  <2>2. UNCHANGED <<list, closes>> /\ walk' = [walk EXCEPT !.at = Nil, !.i = @ + 1]
    BY <1>4 DEF Relock, Advance
  <2>3. /\ walk'.i = walk.i + 1 /\ walk'.n = walk.n /\ walk'.old = walk.old
        /\ walk'.listed = walk.listed
    BY <2>2 DEF Walks
  <2>4. Visited' = Visited /\ Visited \in Int /\ Begun /\ Begun' /\ walk'.i \in Nat \ {0}
    BY <1>1, <2>1, <2>3 DEF Visited, Begun
  <2> QED
    BY <1>1, <2>1, <2>2, <2>3, <2>4, WalkKept
<1>5. CASE Close(Main)
  <2>1. /\ pc[Main] \in {"closing", "unref"} /\ UNCHANGED <<list, walk, closes>>
        /\ pc'[Main] \in {"unref", "relock", "crashed"} /\ \A c \in Clients : pc'[c] = pc[c]
    BY <1>0, <1>5 DEF Close, CheckSession, UnrefSession, Hangup, Goto
  <2>2. Visited' = Visited /\ Visited \in Int /\ Begun /\ Begun'
    BY <1>1, <2>1 DEF Visited, Begun
  <2> QED
    BY <1>1, <2>1, <2>2, WalkKept
<1> QED
  BY <1>2, <1>3, <1>4, <1>5

(***************************************************************************)
(* The loop begins with the list as it is.                                 *)
(***************************************************************************)
LEMMA BeginsWalk ==
    ASSUME ListInv, WalkInv, walk \in Walks, BeginWalk
    PROVE  WalkInv'
<1> DEFINE order == [p \in 1..len |-> array[p]]
<1>0. /\ pc \in [Goroutines -> Steps] /\ Main \in Goroutines /\ Main \notin Clients
      /\ Clients \subseteq Goroutines /\ len \in Nat /\ len <= Len(array)
  BY ClientListAssumption DEF ListInv, ListTyped, Goroutines
<1>1. /\ pc[Main] = "stopping" /\ pc'[Main] = "walking" /\ \A c \in Clients : pc'[c] = pc[c]
      /\ array' = array /\ len' = len /\ closes' = closes
  BY <1>0 DEF BeginWalk, Goto, list
<1>2. walk.i = 1 /\ walk.old = <<>>
  BY <1>1 DEF WalkInv, Shape, Begun
<1>3. walk'.i = 1 /\ walk'.old = <<>> /\ walk'.n = len /\ walk'.listed = Listed
  BY <1>2 DEF BeginWalk, Walks
<1>4. Listed \subseteq Clients /\ \A c \in Listed : pc[c] # "none"
  BY DEF ListInv, Elements, Members, Listed
<1>5. Shape'
  BY <1>0, <1>1, <1>3, <1>4 DEF Shape, Begun
<1>6. Found'
  BY <1>1, <1>3 DEF Found, Unclosed, Listed, At
<1>7. Order(order)'
  <2>1. order \in [1..len -> Listed] /\ \A p, q \in 1..len : order[p] = order[q] => p = q
    BY DEF Listed, ListInv, OnePlace
  <2> QED
    BY <1>1, <1>3, <2>1 DEF Order
<1>8. Filled(order)' /\ PassedTo(order, Visited)'
  BY <1>0, <1>1, <1>3 DEF Filled, PassedTo, Visited, At
<1> QED
  BY <1>5, <1>6, <1>7, <1>8 DEF WalkInv

(***************************************************************************)
(* The two who remove a client: its own goroutine, and main, whose loop    *)
(* goes on to the next place.                                              *)
(***************************************************************************)
LEMMA WalkRemoves ==
    ASSUME ListInv, WalkInv, NEW c \in Listed, NEW g \in Goroutines, RemoveAndClose(g, c),
           pc[g] # "none" \/ g = Main,
           walk'.i = walk.i, walk'.n = walk.n, walk'.old = walk.old, walk'.listed = walk.listed,
           Begun' <=> Begun, pc'[Main] = "exited" => pc[Main] = "exited",
           Visited' = Visited \/ (Visited' = walk.i /\ Visited = walk.i - 1
                                  /\ (walk.i \in 1..walk.n => At(walk.i) = c))
    PROVE  WalkInv'
<1>0. /\ pc \in [Goroutines -> Steps] /\ Clients \subseteq Goroutines
      /\ closes \in [Clients -> 0..1] /\ array \in Seq(Clients \cup {Nil})
  BY DEF ListInv, ListTyped, Goroutines
<1>1. Shape /\ Found /\ walk.i \in Nat \ {0} /\ walk.n \in Nat
  BY DEF WalkInv, Shape
<1>2. closes[c] = 0 /\ closes' = [closes EXCEPT ![c] = 1] /\ c \in Clients
  BY RemoveKeepsList DEF ListInv, Elements, Listed
<1>3. Remove(c) /\ Len(array') = Len(array)
  BY RemoveShape DEF RemoveAndClose
<1>4. \A d \in Clients : pc[d] # "none" => pc'[d] # "none"
  BY <1>0 DEF RemoveAndClose, Goto
<1>5. Shape'
  BY <1>1, <1>3, <1>4 DEF Shape
<1>6. PICK orig : Order(orig) /\ Filled(orig) /\ PassedTo(orig, Visited)
  BY DEF WalkInv
<1>7. PICK v : v = Visited
  OBVIOUS
<1>8. PassedTo(orig, v) /\ v \in Int
  BY <1>1, <1>6, <1>7 DEF Visited
<1>9. ASSUME Found', Order(orig)', Filled(orig)', PassedTo(orig, v)',
             \A p \in 1..walk.n : At(p) = c /\ Unclosed(At(p))' => At(p)' # orig[p]
      PROVE  WalkInv'
  <2>1. \A p \in 1..walk'.n :
          p <= Visited' /\ Unclosed(At(p))' => p <= v \/ At(p)' # orig[p]
    BY <1>1, <1>7, <1>8, <1>9
  <2> QED
    BY <1>5, <1>9, <2>1, Assemble
<1>10. CASE walk.old = <<>>
  <2>1. /\ Found' /\ Order(orig)' /\ Filled(orig)' /\ PassedTo(orig, v)'
        /\ \A p \in 1..walk.n : At(p) = c /\ Unclosed(At(p))' => At(p)' # orig[p]
    BY <1>1, <1>2, <1>3, <1>6, <1>8, <1>10, RemovalFills
  <2> QED
    BY <1>9, <2>1
<1>11. CASE walk.old # <<>>
  <2>1. \A p \in 1..walk.n : At(p)' = At(p)
    BY <1>11 DEF At
  <2>2. /\ \A d \in Clients : closes'[d] = 0 => closes[d] = 0
        /\ \A d \in Clients : closes[d] = 1 => closes'[d] = 1
    BY <1>0, <1>2
  <2>3. Found' /\ Order(orig)' /\ Filled(orig)' /\ PassedTo(orig, v)'
    BY <1>1, <1>6, <1>8, <2>1, <2>2, PlacesKept
  <2>4. closes'[c] = 1
    BY <1>0, <1>2
  <2>5. \A p \in 1..walk.n : At(p) = c => ~Unclosed(At(p))'
    BY <2>1, <2>4 DEF Unclosed
  <2> QED
    BY <1>9, <2>3, <2>5
<1> QED
  BY <1>10, <1>11

LEMMA WalkVisits ==
    ASSUME ListInv, WalkInv, walk \in Walks, Visit
    PROVE  WalkInv'
<1>0. /\ pc \in [Goroutines -> Steps] /\ Main \in Goroutines /\ Main \notin Clients
      /\ Clients \subseteq Goroutines
  BY ClientListAssumption DEF ListInv, ListTyped, Goroutines
<1>1. /\ pc[Main] = "walking" /\ walk.i <= walk.n /\ walk.i \in Nat \ {0} /\ walk.n \in Nat
      /\ Element = At(walk.i) /\ Shape
  BY DEF Visit, WalkInv, Shape, Element, At
<1>2. Begun /\ Visited = walk.i - 1
  BY <1>1 DEF Begun, Visited
<1>3. CASE Element \in Listed
  <2>1. RemoveAndClose(Main, Element) /\ pc' = [pc EXCEPT ![Main] = "closing"]
    BY <1>3 DEF Visit, InList, RemoveAndClose, Goto
  <2>2. /\ walk'.i = walk.i /\ walk'.n = walk.n /\ walk'.old = walk.old
        /\ walk'.listed = walk.listed
    BY <1>3 DEF Visit, InList, Walks
  <2>3. pc'[Main] = "closing"
    BY <1>0, <2>1
  <2>4. Begun' /\ Visited' = walk.i
    BY <2>2, <2>3 DEF Begun, Visited
  <2> QED
    BY <1>0, <1>1, <1>2, <1>3, <2>1, <2>2, <2>3, <2>4, WalkRemoves
<1>4. CASE Element \notin Listed
  <2>1. walk' = [walk EXCEPT !.at = Nil, !.i = @ + 1] /\ UNCHANGED <<list, pc, closes>>
    BY <1>4 DEF Visit, InList, Advance
  <2>2. /\ walk'.i = walk.i + 1 /\ walk'.n = walk.n /\ walk'.old = walk.old
        /\ walk'.listed = walk.listed
    BY <2>1 DEF Walks
  <2>3. Begun' /\ Visited' = walk.i
    BY <1>1, <2>1, <2>2 DEF Begun, Visited
  <2>4. ~Unclosed(At(walk.i))
    BY <1>1, <1>4 DEF Shape, Unclosed, ListInv, Members
  <2> QED
    BY <1>1, <1>2, <2>1, <2>2, <2>3, <2>4, WalkKept
<1> QED
  BY <1>3, <1>4

(***************************************************************************)
(* A new client is put behind the others: in the array of the loop behind  *)
(* everybody that is to be closed, or in a larger one.                     *)
(***************************************************************************)
LEMMA WalkAppends ==
    ASSUME ListInv, WalkInv, walk \in Walks, NEW c \in Clients, Accept(c)
    PROVE  WalkInv'
<1>0. /\ pc \in [Goroutines -> Steps] /\ Main \in Goroutines /\ Main \notin Clients
      /\ Clients \subseteq Goroutines /\ array \in Seq(Clients \cup {Nil}) /\ len \in 0..Len(array)
      /\ Nil \notin Clients /\ Len(array) \in Nat
  BY ClientListAssumption DEF ListInv, ListTyped, Goroutines
<1>1. Shape /\ Found /\ walk.i \in Nat \ {0} /\ walk.n \in Nat /\ walk.listed \subseteq Clients
  BY DEF WalkInv, Shape
<1>2. /\ pc[c] = "none" /\ pc' = [pc EXCEPT ![c] = "running"] /\ Append1(c) /\ closes' = closes
  BY DEF Accept, Goto
<1>3. pc'[Main] = pc[Main] /\ \A d \in Clients : pc[d] # "none" => pc'[d] # "none"
  BY <1>0, <1>2
<1>4. /\ array' \in Seq(Clients \cup {Nil}) /\ len' = len + 1 /\ len' \in 0..Len(array')
      /\ \A i \in 1..len : array'[i] = array[i]
      /\ array'[len'] = c
      /\ \A i \in 1..Len(array') : i > len' => array'[i] = Nil
  BY <1>2, AppendShape
<1>5. /\ walk'.i = walk.i /\ walk'.n = walk.n /\ walk'.listed = walk.listed
      /\ walk'.old = IF len < Len(array) \/ walk.old # <<>> \/ ~Begun THEN walk.old ELSE array
  BY <1>2 DEF Append1, Walks
<1>6. Begun' = Begun /\ Visited' = Visited /\ Visited \in Int
  BY <1>1, <1>3, <1>5 DEF Begun, Visited
<1>7. len < Len(array) => Len(array') = Len(array)
  BY <1>0, <1>2 DEF Append1
<1>8. walk.old = <<>> /\ ~(len < Len(array)) /\ array = <<>> => walk.n = 0
  BY <1>0, <1>1 DEF Shape
<1>9. ~Begun => walk.n = 0
  BY <1>1 DEF Shape
<1>10. Shape'
  <2>1. walk'.n <= IF walk'.old = <<>> THEN Len(array') ELSE Len(walk'.old)
    <3>1. CASE len < Len(array) \/ walk.old # <<>>
      <4>1. walk'.old = walk.old
        BY <1>5, <3>1
      <4>2. Len(array') \in Nat /\ Len(array') >= Len(array)
        <5>1. CASE len < Len(array)
          BY <1>0, <1>7, <5>1
        <5>2. CASE ~(len < Len(array))
          BY <1>0, <1>4, <5>2
        <5> QED
          BY <5>1, <5>2
      <4> QED
        BY <1>0, <1>1, <1>5, <4>1, <4>2 DEF Shape
    <3>2. CASE ~(len < Len(array)) /\ walk.old = <<>> /\ Begun
      <4>1. walk'.old = array
        BY <1>5, <3>2
      <4>2. CASE array = <<>>
        BY <1>0, <1>4, <1>5, <1>8, <3>2, <4>1, <4>2
      <4>3. CASE array # <<>>
        BY <1>1, <1>5, <3>2, <4>1, <4>3 DEF Shape
      <4> QED
        BY <4>2, <4>3
    <3>3. CASE ~Begun
      BY <1>0, <1>4, <1>5, <1>9, <3>3
    <3> QED
      BY <3>1, <3>2, <3>3
  <2> QED
    BY <1>1, <1>3, <1>5, <1>6, <2>1 DEF Shape
<1>11. ASSUME NEW p \in 1..walk.n
       PROVE  \/ At(p)' = At(p)
              \/ \A q \in p..walk.n : ~Unclosed(At(q)) /\ ~Unclosed(At(q))'
  <2>1. CASE walk.old # <<>>
    BY <1>5, <2>1 DEF At
  <2>2. CASE walk.old = <<>> /\ ~(len < Len(array))
    <3>1. Begun /\ array # <<>> /\ walk'.old = array
      BY <1>1, <1>5, <1>8, <1>9, <2>2
    <3> QED
      BY <2>2, <3>1 DEF At
  <2>3. CASE walk.old = <<>> /\ len < Len(array)
    <3>1. walk'.old = <<>> /\ walk.n <= Len(array) /\ Len(array') = Len(array)
      BY <1>1, <1>5, <1>7, <2>3 DEF Shape
    <3>2. CASE p <= len
      BY <1>0, <1>4, <2>3, <3>1, <3>2 DEF At
    <3>3. CASE ~(p <= len)
      <4> SUFFICES ASSUME NEW q \in p..walk.n
                   PROVE  ~Unclosed(At(q)) /\ ~Unclosed(At(q))'
        OBVIOUS
      <4>1. q \in 1..Len(array) /\ q > len
        BY <1>0, <1>1, <3>1, <3>3
      <4>2. array[q] = Nil
        BY <4>1 DEF ListInv, EmptyTail
      <4>3. array'[q] \in {c, Nil}
        <5>1. CASE q = len'
          BY <1>4, <5>1
        <5>2. CASE q # len'
          BY <1>0, <1>4, <3>1, <4>1, <5>2
        <5> QED
          BY <5>1, <5>2
      <4>4. c \notin walk.listed /\ Nil \notin walk.listed
        BY <1>0, <1>1, <1>2 DEF Shape
      <4> QED
        BY <1>5, <2>3, <3>1, <4>2, <4>3, <4>4 DEF At, Unclosed
    <3> QED
      BY <3>2, <3>3
  <2> QED
    BY <2>1, <2>2, <2>3
<1>12. PICK orig : Order(orig) /\ Filled(orig) /\ PassedTo(orig, Visited)
  BY DEF WalkInv
<1>13. PICK v : v = Visited
  OBVIOUS
<1>14. Found' /\ Order(orig)' /\ Filled(orig)' /\ PassedTo(orig, v)'
  BY <1>1, <1>2, <1>5, <1>11, <1>12, <1>13, PlacesKept
<1> QED
  BY <1>6, <1>10, <1>13, <1>14, Assemble

LEMMA WalkStep == IInv /\ WalkInv /\ [Next]_vars => WalkInv'
<1> SUFFICES ASSUME IInv, WalkInv, [Next]_vars PROVE WalkInv'
  OBVIOUS
<1>0. ListInv /\ walk \in Walks
  BY DEF IInv, RestTyped
<1>1. CASE UNCHANGED vars
  <2>1. UNCHANGED <<list, closes, walk, pc>>
    BY <1>1 DEF vars, list
  <2>2. Visited' = Visited /\ Visited \in Int /\ Begun' = Begun
    BY <2>1 DEF Visited, Begun, WalkInv, Shape
  <2>3. Shape
    BY DEF WalkInv
  <2> QED
    BY <2>1, <2>2, <2>3, WalkKept DEF Shape
<1>2. CASE MainStep \/ Signal
  BY <1>0, <1>2, BeginsWalk, WalkVisits, MainMoves DEF MainStep
<1>3. ASSUME NEW c \in Clients, Handle(c) \/ Close(c) \/ EventFails(c) PROVE WalkInv'
  <2>1. pc[c] # "none" /\ UNCHANGED <<list, walk, closes>>
    BY <1>3, LoginSteps
    DEF Handle, Line, Password, ReaderError, Receives, Close, CheckSession, UnrefSession, EventFails
  <2>2. \/ UNCHANGED pc
        \/ \E step \in {"running", "locking", "creating", "stuck", "leaving"} : Goto(c, step)
        \/ \E step \in {"unref", "gone", "crashed"} : Goto(c, step)
    BY <1>3, ClientListAssumption, LoginSteps
    DEF Handle, Line, Password, ReaderError, EventFails, Close, CheckSession, UnrefSession, Hangup
  <2>3. /\ {"running", "locking", "creating", "stuck", "leaving"} \subseteq Steps \ {"none"}
        /\ {"unref", "gone", "crashed"} \subseteq Steps \ {"none"}
    BY DEF Steps, ClientSteps, CloseSteps
  <2> QED
    BY <1>0, <2>1, <2>2, <2>3, ClientMoves
<1>4. ASSUME NEW c \in Clients, RemoveClient(c) PROVE WalkInv'
  <2>1. pc[c] = "leaving" /\ walk' = walk /\ c \in Goroutines /\ c # Main
    BY <1>4, ClientListAssumption DEF RemoveClient, Goroutines
  <2>2. CASE c \in Listed
    <3>1. RemoveAndClose(c, c)
      BY <1>4, <2>2 DEF RemoveClient, InList
    <3>2. pc'[Main] = pc[Main]
      BY <1>0, <2>1, <3>1 DEF RemoveAndClose, Goto, ListInv, ListTyped, Goroutines
    <3>3. Visited' = Visited /\ Begun' = Begun
      BY <2>1, <3>2 DEF Visited, Begun
    <3> QED
      BY <1>0, <2>1, <2>2, <3>1, <3>2, <3>3, WalkRemoves
  <2>3. CASE c \notin Listed
    <3>1. Goto(c, "gone") /\ UNCHANGED <<list, closes>> /\ "gone" \in Steps \ {"none"}
      BY <1>4, <2>3 DEF RemoveClient, InList, Steps, ClientSteps
    <3> QED
      BY <1>0, <2>1, <3>1, ClientMoves
  <2> QED
    BY <2>2, <2>3
<1>5. ASSUME NEW c \in Clients, Accept(c) PROVE WalkInv'
  BY <1>0, <1>5, WalkAppends
<1>6. ASSUME NEW c \in Clients, ReadLine(c) \/ ReadFails(c) PROVE WalkInv'
  <2>1. UNCHANGED <<list, closes, walk, pc>>
    BY <1>6 DEF ReadLine, ReadFails, loop
  <2>2. Visited' = Visited /\ Visited \in Int /\ Begun' = Begun
    BY <2>1 DEF Visited, Begun, WalkInv, Shape
  <2>3. Shape
    BY DEF WalkInv
  <2> QED
    BY <2>1, <2>2, <2>3, WalkKept DEF Shape
<1> QED
  BY <1>1, <1>2, <1>3, <1>4, <1>5, <1>6 DEF Next, ClientStep

(***************************************************************************)
(* When the loop is over, every client it has missed is in the place of    *)
(* another one that is closed, and no two in the same place.               *)
(***************************************************************************)
Missed == {c \in walk.listed : closes[c] = 0}

LEMMA MissedInPlaces ==
    ASSUME WalkInv, pc[Main] \in {"walking", "exited"}, walk.i > walk.n
    PROVE  \E inPlaceOf \in [Missed -> walk.listed \ Missed] :
                \A c, d \in Missed : inPlaceOf[c] = inPlaceOf[d] => c = d
<1> DEFINE place == [c \in Missed |-> CHOOSE p \in 1..walk.n : At(p) = c]
<1>1. Shape /\ Found /\ walk.listed \subseteq Clients /\ walk.i \in Nat /\ walk.n \in Nat
  BY DEF WalkInv, Shape
<1>2. PICK orig : Order(orig) /\ Filled(orig) /\ PassedTo(orig, Visited)
  BY DEF WalkInv
<1>3. \A c \in Missed : place[c] \in 1..walk.n /\ At(place[c]) = c /\ Unclosed(c)
  BY <1>1 DEF Found, Unclosed, Missed
<1> HIDE DEF place
<1>4. \A c \in Missed : closes[orig[place[c]]] = 1 /\ orig[place[c]] \in walk.listed
  <2> SUFFICES ASSUME NEW c \in Missed
               PROVE  closes[orig[place[c]]] = 1 /\ orig[place[c]] \in walk.listed
    OBVIOUS
  <2>1. place[c] \in 1..walk.n /\ At(place[c]) = c /\ Unclosed(At(place[c]))
    BY <1>3
  <2>2. place[c] <= Visited /\ place[c] <= place[c]
    BY <1>1, <2>1 DEF Visited
  <2>3. At(place[c]) # orig[place[c]]
    BY <1>2, <2>1, <2>2 DEF PassedTo
  <2>4. closes[orig[place[c]]] = 1
    BY <1>2, <2>1, <2>2, <2>3 DEF Filled
  <2>5. orig[place[c]] \in walk.listed
    BY <1>2, <2>1 DEF Order
  <2> QED
    BY <2>4, <2>5
<1> DEFINE owner == [c \in Missed |-> orig[place[c]]]
<1>5. owner \in [Missed -> walk.listed \ Missed]
  BY <1>4 DEF Missed
<1>6. ASSUME NEW c \in Missed, NEW d \in Missed, owner[c] = owner[d] PROVE c = d
  <2>1. place[c] \in 1..walk.n /\ place[d] \in 1..walk.n /\ At(place[c]) = c /\ At(place[d]) = d
    BY <1>3
  <2>2. place[c] = place[d]
    BY <1>2, <1>6, <2>1 DEF Order
  <2> QED
    BY <2>1, <2>2
<1> HIDE DEF owner
<1> QED
  BY <1>5, <1>6

LEMMA MissedAreHalf == WalkInv => HalfClosed
<1> SUFFICES ASSUME WalkInv, pc[Main] = "exited"
             PROVE  Cardinality(Missed) <= Cardinality(walk.listed) \div 2
  BY DEF HalfClosed, Missed
<1>1. walk.listed \subseteq Clients /\ walk.i > walk.n
  BY DEF WalkInv, Shape
<1>2. PICK owner \in [Missed -> walk.listed \ Missed] :
            \A c, d \in Missed : owner[c] = owner[d] => c = d
  BY <1>1, MissedInPlaces
<1>3. owner \in Injection(Missed, walk.listed \ Missed)
  BY <1>2 DEF Injection, IsInjective
<1>4. IsFiniteSet(walk.listed)
  BY <1>1, ClientListAssumption, FS_Subset
<1>5. IsFiniteSet(walk.listed \ Missed) /\ IsFiniteSet(Missed)
  BY <1>4, FS_Subset DEF Missed
<1>6. Cardinality(Missed) <= Cardinality(walk.listed \ Missed)
  BY <1>3, <1>5, FS_Injection
<1>7. Cardinality(walk.listed \ Missed) = Cardinality(walk.listed) - Cardinality(Missed)
  <2>1. walk.listed \cap Missed = Missed
    BY DEF Missed
  <2> QED
    BY <1>4, <1>5, <2>1, FS_Difference
<1>8. Cardinality(Missed) \in Nat /\ Cardinality(walk.listed) \in Nat
  BY <1>4, <1>5, FS_CardinalityType
<1> QED
  BY <1>6, <1>7, <1>8

(***************************************************************************)
(* Server.Close misses at most every second client, whoever comes, leaves  *)
(* or is closed by the loop, in any order, and wherever append has moved   *)
(* the list (server.go:44-59 and 109-128).                                 *)
(***************************************************************************)
THEOREM HalfAlwaysClosed == Spec => []HalfClosed
BY InitWalkInv, WalkStep, AlwaysIInv, MissedAreHalf, PTL DEF Spec

----------------------------------------------------------------------------
(* The clients as a set. *)

LEMMA ListedWho ==
    ASSUME ListInv
    PROVE  Listed = {c \in Clients : pc[c] # "none" /\ closes[c] = 0}
BY ListInvExact DEF ListExact

(***************************************************************************)
(* A client is closed by whoever takes it out of the list.                 *)
(***************************************************************************)
LEMMA RemovalCloses ==
    ASSUME ListInv, NEW c \in Listed, NEW g \in Goroutines,
           pc[g] # "none" \/ g = Main, RemoveAndClose(g, c),
           Phase # "closed", Phase' = Phase, walk'.listed = walk.listed
    PROVE  Kept!Close(c)
<1>1. ListInv' /\ closes[c] = 0 /\ closes' = [closes EXCEPT ![c] = 1]
  BY RemoveKeepsList
<1>2. c \in Clients /\ closes \in [Clients -> 0..1]
  BY ListedWho DEF ListInv, ListTyped
<1>3. \A d \in Clients : pc'[d] = "none" <=> pc[d] = "none"
  BY ClientListAssumption DEF RemoveAndClose, Goto, ListInv, ListTyped, Goroutines
<1>4. Listed' = {d \in Clients : pc'[d] # "none" /\ closes'[d] = 0}
  BY <1>1, ListedWho DEF ListInv, ListTyped, Elements, OnePlace, EmptyTail, Members,
                         NoneUnclosed, Listed
<1>5. Listed' = Listed \ {c}
  BY <1>1, <1>2, <1>3, <1>4, ListedWho
<1>6. Closed' = Closed \cup {c}
  BY <1>1, <1>2 DEF Closed
<1> QED
  BY <1>5, <1>6 DEF Kept!Close

(***************************************************************************)
(* The steps that the set does not see.                                    *)
(***************************************************************************)
LEMMA SetKept ==
    ASSUME UNCHANGED <<list, closes>>, Phase' = Phase, walk'.listed = walk.listed
    PROVE  UNCHANGED Kept!vars
BY DEF Kept!vars, Listed, Closed, list

LEMMA StepKeepsSet ==
    ASSUME IInv, WalkInv, Next
    PROVE  [Kept!Next]_(Kept!vars)
<1>0. /\ ListInv /\ walk \in Walks
      /\ pc \in [Goroutines -> Steps] /\ Main \in Goroutines /\ Main \notin Clients
      /\ Clients \subseteq Goroutines
  BY ClientListAssumption DEF IInv, RestTyped, ListInv, ListTyped, Goroutines
<1>1. CASE UNCHANGED vars
  BY <1>1, SetKept DEF vars, list, Phase, Begun
<1> SUFFICES ASSUME ~Ended, ~UNCHANGED vars
             PROVE  [Kept!Next]_(Kept!vars)
  BY <1>1 DEF Next
<1>2. Phase # "closed"
  BY DEF Phase, Ended
<1>3. ASSUME NEW c \in Clients, Accept(c)
      PROVE  [Kept!Next]_(Kept!vars)
  <2>1. pc[c] = "none" /\ pc' = [pc EXCEPT ![c] = "running"] /\ closes' = closes /\ Append1(c)
    BY <1>3 DEF Accept, Goto
  <2>2. ListInv'
    BY <1>0, <1>3, AppendKeepsList DEF Accept
  <2>3. Listed' = {d \in Clients : pc'[d] # "none" /\ closes'[d] = 0}
    BY <2>2, ListInvExact DEF ListInv, ListTyped, Elements, OnePlace, EmptyTail, Members,
                              NoneUnclosed, Listed
  <2>4. closes[c] = 0
    BY <1>0, <2>1 DEF ListInv, NoneUnclosed
  <2>5. Listed' = Listed \cup {c} /\ c \notin Listed
    BY <1>0, <2>1, <2>3, <2>4, ListedWho
  <2>6. c \notin Closed /\ Closed' = Closed
    BY <2>1, <2>4 DEF Closed
  <2>7. pc'[Main] = pc[Main] /\ walk'.listed = walk.listed
    BY <1>0, <2>1 DEF Append1, Walks
  <2>8. Kept!Add(c)
    BY <1>2, <2>5, <2>6, <2>7 DEF Kept!Add, Phase, Begun
  <2> QED
    BY <2>8 DEF Kept!Next
<1>4. ASSUME NEW c \in Clients, RemoveClient(c)
      PROVE  [Kept!Next]_(Kept!vars)
  <2>1. walk' = walk /\ pc[c] = "leaving"
    BY <1>4 DEF RemoveClient
  <2>2. CASE c \in Listed
    <3>1. RemoveAndClose(c, c)
      BY <1>4, <2>2 DEF RemoveClient, InList
    <3>2. Phase' = Phase
      BY <1>0, <3>1 DEF RemoveAndClose, Goto, Phase, Begun
    <3>3. Kept!Close(c)
      BY <1>0, <1>2, <2>1, <2>2, <3>1, <3>2, RemovalCloses
    <3> QED
      BY <3>3 DEF Kept!Next
  <2>3. CASE c \notin Listed
    BY <1>0, <1>4, <2>3, SetKept DEF RemoveClient, InList, Goto, Phase, Begun
  <2> QED
    BY <2>2, <2>3
<1>5. CASE Visit
  <2>1. pc[Main] = "walking" /\ walk'.listed = walk.listed
    BY <1>0, <1>5 DEF Visit, Advance, Walks
  <2>2. CASE Element \in Listed
    <3>1. RemoveAndClose(Main, Element)
      BY <1>5, <2>2 DEF Visit, InList
    <3>2. Phase' = Phase
      BY <1>0, <2>1, <3>1 DEF RemoveAndClose, Goto, Phase, Begun
    <3>3. Kept!Close(Element) /\ Element \in Clients
      BY <1>0, <1>2, <2>1, <2>2, <3>1, <3>2, RemovalCloses, ListedWho
    <3> QED
      BY <3>3 DEF Kept!Next
  <2>3. CASE Element \notin Listed
    BY <1>5, <2>1, <2>3, SetKept DEF Visit, InList, Phase, Begun
  <2> QED
    BY <2>2, <2>3
<1>6. CASE BeginWalk
  <2>1. pc[Main] = "stopping" /\ pc'[Main] = "walking" /\ UNCHANGED <<list, closes>>
    BY <1>0, <1>6 DEF BeginWalk, Goto
  <2>2. walk'.listed = Listed
    BY <1>0, <1>6 DEF BeginWalk, Walks
  <2>3. Phase = "serving" /\ Phase' = "closing" /\ Listed' = Listed /\ Closed' = Closed
    BY <2>1 DEF Phase, Begun, Listed, Closed, list
  <2>4. Kept!BeginClosing
    BY <2>2, <2>3 DEF Kept!BeginClosing
  <2> QED
    BY <2>4 DEF Kept!Next
<1>7. CASE Exit
  <2>1. pc[Main] = "walking" /\ walk.i > walk.n /\ walk' = walk /\ pc'[Main] = "exited"
    BY <1>0, <1>7 DEF Exit, Goto
  <2>2. Phase = "closing" /\ Phase' = "closed" /\ Listed' = Listed /\ Closed' = Closed
    BY <1>7, <2>1 DEF Exit, Phase, Begun, Listed, Closed, list
  <2>3. walk.listed \subseteq Clients /\ \A c \in walk.listed : pc[c] # "none"
    BY <2>1 DEF WalkInv, Shape
  <2>4. Missed = walk.listed \cap Listed /\ walk.listed \ Missed = walk.listed \cap Closed
    BY <1>0, <2>3, ListedWho DEF Missed, Closed, ListInv, ListTyped
  <2>5. PICK owner \in [Missed -> walk.listed \ Missed] :
            \A c, d \in Missed : owner[c] = owner[d] => c = d
    BY <2>1, MissedInPlaces
  <2>6. Kept!EndClosing
    BY <2>1, <2>2, <2>4, <2>5 DEF Kept!EndClosing, Kept!Missed
  <2> QED
    BY <2>6 DEF Kept!Next
<1>8. CASE Signal \/ Relock
  <2>1. UNCHANGED <<list, closes>> /\ walk'.listed = walk.listed
    BY <1>0, <1>8 DEF Signal, Relock, Advance, Walks
  <2>2. Phase' = Phase
    BY <1>0, <1>8 DEF Signal, Relock, Goto, Phase, Begun
  <2> QED
    BY <2>1, <2>2, SetKept
<1>9. ASSUME NEW g \in Goroutines, Close(g)
      PROVE  [Kept!Next]_(Kept!vars)
  <2>1. UNCHANGED <<list, closes, walk>>
    BY <1>9 DEF Close, CheckSession, UnrefSession
  <2>2. /\ pc[g] \in {"closing", "unref"}
        /\ \E step \in {"unref", "relock", "gone", "crashed"} :
              pc' = [pc EXCEPT ![g] = step] /\ (g = Main => step # "gone")
    BY <1>9 DEF Close, CheckSession, UnrefSession, Hangup, Goto
  <2>3. Phase' = Phase
    BY <1>0, <2>2 DEF Phase, Begun
  <2> QED
    BY <2>1, <2>3, SetKept
<1>10. ASSUME NEW c \in Clients, Handle(c) \/ ReadLine(c) \/ ReadFails(c) \/ EventFails(c)
       PROVE  [Kept!Next]_(Kept!vars)
  <2>1. UNCHANGED <<list, closes, walk>>
    BY <1>10, LoginSteps
    DEF Handle, Line, Password, ReaderError, Receives, ReadLine, ReadFails, EventFails
  <2>2. \/ UNCHANGED pc
        \/ \E step \in Steps : pc' = [pc EXCEPT ![c] = step]
    BY <1>10, LoginSteps
    DEF Handle, Line, Password, ReaderError, ReadLine, ReadFails, EventFails, loop, Goto,
        Steps, ClientSteps
  <2>3. Phase' = Phase
    BY <1>0, <2>2 DEF Phase, Begun
  <2> QED
    BY <2>1, <2>3, SetKept
<1> QED
  BY <1>0, <1>3, <1>4, <1>5, <1>6, <1>7, <1>8, <1>9, <1>10 DEF Next, MainStep, ClientStep

(***************************************************************************)
(* The slice, its swaps and the loop over arrays that append leaves behind *)
(* implement the set, for any number of clients: each is added and closed  *)
(* once, and the one that closing misses has a closed one in its place     *)
(* (server.go:44-59 and 87-128).                                           *)
(***************************************************************************)
THEOREM ListImplementsSet == Spec => ImplementsClientSet
<1>1. Init => Kept!Init
  BY ClientListAssumption
  DEF Init, Kept!Init, Listed, Closed, Phase, Begun, Goroutines
<1>2. IInv /\ WalkInv /\ [Next]_vars => [Kept!Next]_(Kept!vars)
  <2> SUFFICES ASSUME IInv, WalkInv, [Next]_vars
               PROVE  [Kept!Next]_(Kept!vars)
    OBVIOUS
  <2>1. CASE Next
    BY <2>1, StepKeepsSet
  <2>2. CASE UNCHANGED vars
    BY <2>2, SetKept DEF vars, list, Phase, Begun
  <2> QED
    BY <2>1, <2>2
<1>3. Spec => []WalkInv
  BY InitWalkInv, WalkStep, AlwaysIInv, PTL DEF Spec
<1> QED
  BY <1>1, <1>2, <1>3, AlwaysIInv, PTL DEF Spec, ImplementsClientSet, Kept!Spec
=============================================================================
