--------------------------- MODULE NamesMapProofs ---------------------------
(***************************************************************************)
(* What holds of NamesMap for every set of ids, names and tables.          *)
(***************************************************************************)
EXTENDS NamesMap, TLAPS

----------------------------------------------------------------------------
(* The names a call of an update function tries. *)

(***************************************************************************)
(* A tag has the length asked for, however few digits the id has.          *)
(***************************************************************************)
LEMMA TagLength ==
    ASSUME NEW id, NEW n \in Nat
    PROVE  Len(Tag(id, n)) = n
BY DEF Tag

LEMMA AskedLength ==
    ASSUME NEW ideal \in Asked, NEW k \in 0..MaxMangles
    PROVE  Len(ideal[2]) + k \in Nat
BY NamesMapAssumption, NamesAssumption

LEMMA RoundIsName ==
    ASSUME NEW ideal \in Asked, NEW id \in Ids, NEW k \in 0..MaxMangles
    PROVE  Round(ideal, id, k) \in InUse /\ Round(ideal, id, k) # NoName
BY NamesMapAssumption DEF InUse

(***************************************************************************)
(* The name is the one asked for or carries digits of the id itself.       *)
(***************************************************************************)
LEMMA RoundIsOwn ==
    ASSUME NEW ideal \in Asked, NEW id \in Ids, NEW k \in 0..MaxMangles
    PROVE  Round(ideal, id, k) \in Own(id)
<1>1. CASE k = 0
  BY <1>1 DEF Round, Own
<1>2. CASE k # 0
  <2> DEFINE n == Len(ideal[2]) + k
             name == Candidate(BaseOf(ideal), id, n)
  <2>1. name = Round(ideal, id, k)
    BY <1>2 DEF Round
  <2>2. n \in Nat
    BY AskedLength
  <2>3. BaseOf(name) = BaseOf(ideal) /\ Len(name[2]) = n
    BY <2>2, TagLength DEF Candidate, BaseOf
  <2>4. name = Candidate(BaseOf(name), id, Len(name[2]))
    BY <2>3
  <2>5. name \in InUse
    BY <2>1, RoundIsName
  <2> QED
    BY <2>1, <2>4, <2>5 DEF Own
<1> QED
  BY <1>1, <1>2

----------------------------------------------------------------------------
(* What one call does. *)

(***************************************************************************)
(* A call changes nothing, or gives the id a name that no id of the table  *)
(* has.                                                                    *)
(***************************************************************************)
LEMMA UpdateRenames ==
    ASSUME NEW t \in AllTables, NEW id \in Ids, NEW ideal \in Asked,
           Update(t, id, ideal)
    PROVE  \/ UNCHANGED vars
           \/ \E new \in InUse \cap Own(id) :
                 new # NoName /\ Free(t, new) /\ Rename(t, id, new)
<1>1. CASE UpToDate(t, id, ideal)
  BY <1>1 DEF Update
<1>2. CASE ~UpToDate(t, id, ideal)
  <2>1. PICK k \in 0..MaxMangles :
            FirstFree(t, id, ideal, k) /\ Rename(t, id, Round(ideal, id, k))
    BY <1>2 DEF Update
  <2> QED
    BY <2>1, RoundIsName, RoundIsOwn DEF FirstFree
<1> QED
  BY <1>1, <1>2

LEMMA StepRenames ==
    ASSUME [Next]_vars
    PROVE  \/ UNCHANGED vars
           \/ \E t \in AllTables, id \in Ids : \E new \in InUse \cap Own(id) :
                 new # NoName /\ Free(t, new) /\ Rename(t, id, new)
<1>1. CASE UpdateUser
  <2>1. PICK id \in Ids, ideal \in Asked : Update(UserTable, id, ideal)
    BY <1>1 DEF UpdateUser
  <2> QED
    BY <2>1, UpdateRenames DEF AllTables
<1>2. CASE UpdateNickOrChannel
  <2>1. PICK t \in Tables, id \in Ids, ideal \in Asked : Update(t, id, ideal)
    BY <1>2 DEF UpdateNickOrChannel
  <2> QED
    BY <2>1, UpdateRenames DEF AllTables
<1> QED
  BY <1>1, <1>2 DEF Next

----------------------------------------------------------------------------
(* Type correctness. *)

LEMMA InitTypeOK == Init => TypeOK
BY DEF Init, TypeOK

LEMMA RenameTypeOK ==
    ASSUME TypeOK, NEW t \in AllTables, NEW id \in Ids,
           NEW new \in InUse \cap Own(id), Rename(t, id, new)
    PROVE  TypeOK'
<1> DEFINE old == f[t][id]
<1> USE DEF TypeOK
<1>1. f' = [f EXCEPT ![t][id] = new]
  BY DEF Rename
<1>2. f' \in [AllTables -> [Ids -> InUse \cup {NoName}]]
  BY <1>1
<1>3. \A u \in AllTables, i \in Ids : f'[u][i] \in Own(i) \cup {NoName}
  BY <1>1
<1>4. CASE old = NoName
  <2>1. b' = [b EXCEPT ![t][new] = id] /\ erased' = erased
    BY <1>4 DEF Rename
  <2> QED
    BY <1>2, <1>3, <2>1
<1>5. CASE old # NoName
  <2>1. /\ b' = [b EXCEPT ![t][new] = id, ![UserTable][old] = NoId]
        /\ erased' = IF t = UserTable THEN erased ELSE erased \cup {old}
    BY <1>5 DEF Rename, DeletedFrom
  <2>2. old \in InUse
    BY <1>5
  <2>3. b' \in [AllTables -> [InUse -> Ids \cup {NoId}]]
    BY <2>1, <2>2 DEF AllTables
  <2> QED
    BY <1>2, <1>3, <2>1, <2>2, <2>3
<1> QED
  BY <1>4, <1>5

(***************************************************************************)
(* The tables keep their types, and an id has the name that was asked for  *)
(* or one with its own digits.                                             *)
(***************************************************************************)
THEOREM TypeCorrect == Spec => []TypeOK
<1>1. TypeOK /\ [Next]_vars => TypeOK'
  <2> SUFFICES ASSUME TypeOK, [Next]_vars PROVE TypeOK'
    OBVIOUS
  <2>1. CASE UNCHANGED vars
    BY <2>1 DEF vars, TypeOK
  <2>2. CASE ~UNCHANGED vars
    BY <2>2, StepRenames, RenameTypeOK
  <2> QED
    BY <2>1, <2>2
<1> QED
  BY <1>1, InitTypeOK, PTL DEF Spec

----------------------------------------------------------------------------
(* The names lead back to their ids. *)

(***************************************************************************)
(* NicksResolve is inductive given the types: a nick is deleted from no    *)
(* table of nicks, and a new one was free.                                 *)
(***************************************************************************)
LEMMA RenameNicksResolve ==
    ASSUME TypeOK, NicksResolve, NEW t \in AllTables, NEW id \in Ids,
           NEW new \in InUse \cap Own(id), new # NoName, Free(t, new),
           Rename(t, id, new)
    PROVE  NicksResolve'
<1> SUFFICES ASSUME NEW u \in Tables, NEW i \in Ids, f'[u][i] # NoName
             PROVE  b'[u][f'[u][i]] = i
  BY DEF NicksResolve
<1> USE DEF TypeOK, AllTables
<1>1. u # UserTable
  BY NamesMapAssumption
<1>2. f' = [f EXCEPT ![t][id] = new]
  BY DEF Rename
<1>3. \A name \in InUse : b'[u][name] = IF u = t /\ name = new THEN id ELSE b[u][name]
  <2>1. CASE f[t][id] = NoName
    BY <2>1 DEF Rename
  <2>2. CASE f[t][id] # NoName
    <3>1. b' = [b EXCEPT ![t][new] = id, ![UserTable][f[t][id]] = NoId]
      BY <2>2 DEF Rename, DeletedFrom
    <3> QED
      BY <1>1, <3>1
  <2> QED
    BY <2>1, <2>2
<1>4. CASE u = t /\ i = id
  BY <1>2, <1>3, <1>4
<1>5. CASE ~(u = t /\ i = id)
  <2>1. f'[u][i] = f[u][i] /\ f[u][i] \in InUse
    BY <1>2, <1>5
  <2>2. b[u][f[u][i]] = i
    BY <2>1 DEF NicksResolve
  <2>3. u = t => f[u][i] # new
    BY <2>2, NamesMapAssumption DEF Free
  <2> QED
    BY <1>3, <2>1, <2>2, <2>3
<1> QED
  BY <1>4, <1>5

(***************************************************************************)
(* Every nick and channel name resolves to the id that has it.             *)
(***************************************************************************)
THEOREM NicksAlwaysResolve == Spec => []NicksResolve
<1>1. Init => NicksResolve
  BY DEF Init, NicksResolve, AllTables
<1>2. TypeOK /\ NicksResolve /\ [Next]_vars => NicksResolve'
  <2> SUFFICES ASSUME TypeOK, NicksResolve, [Next]_vars PROVE NicksResolve'
    OBVIOUS
  <2>1. CASE UNCHANGED vars
    BY <2>1 DEF vars, NicksResolve
  <2>2. CASE ~UNCHANGED vars
    BY <2>2, StepRenames, RenameNicksResolve
  <2> QED
    BY <2>1, <2>2
<1> QED
  BY <1>1, <1>2, TypeCorrect, PTL DEF Spec

(***************************************************************************)
(* The same of the names of users, but for the names that changes of nicks *)
(* and channels took from them.  The old name of a user is deleted too,    *)
(* but no other user can have it: unless it was erased, it resolved to the *)
(* one who gives it up.                                                    *)
(***************************************************************************)
LEMMA RenameUsersResolve ==
    ASSUME TypeOK, UsersResolve, NEW t \in AllTables, NEW id \in Ids,
           NEW new \in InUse \cap Own(id), new # NoName, Free(t, new),
           Rename(t, id, new)
    PROVE  UsersResolve'
<1> SUFFICES ASSUME NEW i \in Ids, f'[UserTable][i] # NoName
             PROVE  \/ b'[UserTable][f'[UserTable][i]] = i
                    \/ f'[UserTable][i] \in erased'
  BY DEF UsersResolve
<1> USE DEF TypeOK, AllTables
<1> DEFINE old == f[t][id]
<1>1. f' = [f EXCEPT ![t][id] = new]
  BY DEF Rename
<1>2. \A name \in InUse :
        b'[UserTable][name] = IF old # NoName /\ name = old THEN NoId
                              ELSE IF t = UserTable /\ name = new THEN id
                              ELSE b[UserTable][name]
  <2>1. CASE old = NoName
    BY <2>1 DEF Rename
  <2>2. CASE old # NoName
    <3>1. b' = [b EXCEPT ![t][new] = id, ![UserTable][old] = NoId]
      BY <2>2 DEF Rename, DeletedFrom
    <3>2. old \in InUse
      BY <2>2
    <3> QED
      BY <2>2, <3>1, <3>2
  <2> QED
    BY <2>1, <2>2
<1>3. erased' = IF t = UserTable \/ old = NoName THEN erased ELSE erased \cup {old}
  BY DEF Rename
<1>4. CASE t = UserTable /\ i = id
  BY <1>1, <1>2, <1>3, <1>4 DEF Free, UsersResolve
<1>5. CASE ~(t = UserTable /\ i = id)
  <2>1. f'[UserTable][i] = f[UserTable][i] /\ f[UserTable][i] \in InUse
    BY <1>1, <1>5
  <2>2. b[UserTable][f[UserTable][i]] = i \/ f[UserTable][i] \in erased
    BY <2>1 DEF UsersResolve
  <2>3. CASE f[UserTable][i] \in erased
    BY <1>3, <2>1, <2>3
  <2>4. CASE b[UserTable][f[UserTable][i]] = i /\ f[UserTable][i] \notin erased
    <3>1. t = UserTable => f[UserTable][i] # new
      BY <2>4, NamesMapAssumption DEF Free
    <3>2. CASE old # NoName /\ f[UserTable][i] = old /\ t = UserTable
      <4>1. b[UserTable][old] = id \/ old \in erased
        BY <3>2 DEF UsersResolve
      <4> QED
        BY <4>1, <2>4, <3>2, <1>5
    <3>3. CASE old # NoName /\ f[UserTable][i] = old /\ t # UserTable
      BY <1>3, <2>1, <3>3
    <3>4. CASE ~(old # NoName /\ f[UserTable][i] = old)
      BY <1>2, <2>1, <2>4, <3>1, <3>4
    <3> QED
      BY <3>2, <3>3, <3>4
  <2> QED
    BY <2>2, <2>3, <2>4
<1> QED
  BY <1>4, <1>5

(***************************************************************************)
(* A user's name resolves to the user, unless a change of a nick or of a   *)
(* channel of that name took it away.                                      *)
(***************************************************************************)
THEOREM UsersAlwaysResolve == Spec => []UsersResolve
<1>1. Init => UsersResolve
  BY DEF Init, UsersResolve, AllTables
<1>2. TypeOK /\ UsersResolve /\ [Next]_vars => UsersResolve'
  <2> SUFFICES ASSUME TypeOK, UsersResolve, [Next]_vars PROVE UsersResolve'
    OBVIOUS
  <2>1. CASE UNCHANGED vars
    BY <2>1 DEF vars, UsersResolve
  <2>2. CASE ~UNCHANGED vars
    BY <2>2, StepRenames, RenameUsersResolve
  <2> QED
    BY <2>1, <2>2
<1> QED
  BY <1>1, <1>2, TypeCorrect, PTL DEF Spec
=============================================================================
