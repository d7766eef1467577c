----------------------------- MODULE IDMapProofs ----------------------------
(***************************************************************************)
(* What holds of IDMap for every set of ids, names and goroutines.         *)
(***************************************************************************)
EXTENDS IDMap, FiniteSetTheorems, WellFoundedInduction, TLAPS

----------------------------------------------------------------------------
(* The names that one call of the mangle loop tries. *)

(***************************************************************************)
(* A tag has the length asked for, however few digits the id has.          *)
(***************************************************************************)
LEMMA TagLength ==
    ASSUME NEW id, NEW n \in Nat
    PROVE  Len(Tag(id, n)) = n
BY DEF Tag

(***************************************************************************)
(* mangle walks through the candidates one by one (idmap.go:227-239).      *)
(***************************************************************************)
LEMMA MangleStep ==
    ASSUME NEW base, NEW id, NEW k \in Nat
    PROVE  Mangle(Candidate(base, id, k), id) = Candidate(base, id, k + 1)
BY TagLength DEF Mangle, Candidate

(***************************************************************************)
(* It never comes back to a name it has tried.                             *)
(***************************************************************************)
LEMMA CandidatesDiffer ==
    ASSUME NEW base, NEW id, NEW j \in Nat, NEW k \in Nat, j # k
    PROVE  Candidate(base, id, j) # Candidate(base, id, k)
<1>1. Len(Tag(id, j)) # Len(Tag(id, k))
  BY TagLength
<1> QED
  BY <1>1 DEF Candidate

LEMMA CandidateIsName ==
    ASSUME NEW base \in Bases, NEW id \in Ids, NEW k \in 0..MaxMangles
    PROVE  Candidate(base, id, k) \in Names
BY DEF Names

LEMMA NewNameIsFree ==
    ASSUME NEW id, NEW ideal, NEW name, NewName(id, ideal, name)
    PROVE  /\ name # EmptyName
           /\ backward[name] = NoSnowflake
           /\ BaseOf(name) = Sanitize[ideal]
BY DEF NewName, Free, Candidate, BaseOf

----------------------------------------------------------------------------
(* Type correctness. *)

LEMMA EmptyNameIsName == EmptyName \in Names
BY DEF Names

(***************************************************************************)
(* The empty name is never a key of the backward map and the variables     *)
(* keep their types, however the calls overlap.                            *)
(***************************************************************************)
LEMMA InitTypeOK == Init => TypeOK
BY EmptyNameIsName DEF Init, TypeOK, Idle

LEMMA StepTypeOK == TypeOK /\ [Next]_vars => TypeOK'
<1> SUFFICES ASSUME TypeOK, [Next]_vars
             PROVE  TypeOK'
  OBVIOUS
<1> USE EmptyNameIsName, MapAssumption
<1>1. ASSUME NEW t \in Threads, InsertWrite(t)
      PROVE  TypeOK'
  <2>1. op[t] \in InsertOps
    BY <1>1 DEF InsertWrite, TypeOK, Idle, InsertOps, DeleteOps
  <2>2. PICK name \in Names :
            /\ NewName(op[t].id, op[t].ideal, name)
            /\ forward' = [forward EXCEPT ![op[t].id] = name]
            /\ backward' = Release([backward EXCEPT ![name] = op[t].id], op[t].old)
            /\ panicked' = Missing([backward EXCEPT ![name] = op[t].id], op[t].old)
    BY <1>1 DEF InsertWrite
  <2>3. forward' \in [Ids -> Names]
    BY <2>1, <2>2 DEF TypeOK, InsertOps
  <2>4. backward' \in [Names -> Ids \cup {NoSnowflake}]
    BY <2>1, <2>2 DEF TypeOK, InsertOps, Release
  <2>5. backward'[EmptyName] = NoSnowflake
    BY <2>1, <2>2, NewNameIsFree DEF TypeOK, InsertOps, Release
  <2>6. op' \in [Threads -> {Idle} \cup InsertOps \cup DeleteOps]
    BY <1>1 DEF InsertWrite, TypeOK
  <2>7. panicked' \in BOOLEAN /\ overlapped' \in BOOLEAN
    BY <1>1, <2>2 DEF Missing, InsertWrite, TypeOK
  <2> QED
    BY <2>3, <2>4, <2>5, <2>6, <2>7 DEF TypeOK
<1>2. ASSUME NEW t \in Threads, DeleteWrite(t)
      PROVE  TypeOK'
  <2>1. op[t] \in DeleteOps
    BY <1>2 DEF DeleteWrite, TypeOK, Idle, InsertOps, DeleteOps
  <2>2. /\ forward' = Forget(forward, op[t].id)
        /\ backward' = Release(backward, forward[op[t].id])
        /\ panicked' = Missing(backward, forward[op[t].id])
        /\ op' = [op EXCEPT ![t] = Idle]
        /\ overlapped' = overlapped
    BY <1>2 DEF DeleteWrite
  <2>3. panicked' \in BOOLEAN
    BY <2>2 DEF Missing
  <2> QED
    BY <2>1, <2>2, <2>3 DEF TypeOK, DeleteOps, Release, Forget
<1>3. ASSUME NEW t \in Threads, NEW id \in Ids, NEW ideal \in Ideals, InsertRead(t, id, ideal)
      PROVE  TypeOK'
  BY <1>3 DEF InsertRead, TypeOK, InsertOps, Busy
<1>4. ASSUME NEW t \in Threads, NEW id \in Ids, DeleteRead(t, id)
      PROVE  TypeOK'
  BY <1>4 DEF DeleteRead, TypeOK, DeleteOps, Busy
<1>5. CASE UNCHANGED vars
  BY <1>5 DEF vars, TypeOK
<1> QED
  BY <1>1, <1>2, <1>3, <1>4, <1>5 DEF Next, Start, Finish, Ended

THEOREM TypeCorrect == Spec => []TypeOK
BY InitTypeOK, StepTypeOK, PTL DEF Spec

----------------------------------------------------------------------------
(* The map until an Insert overlaps with a call on its id. *)

(***************************************************************************)
(* While an Insert is between its critical sections nobody else works on   *)
(* its id, so what it has read still holds when it takes the write lock.   *)
(* A deletion reads again what it needs.                                   *)
(***************************************************************************)
InsertAlone ==
    \A t, u \in Threads :
        t # u /\ op[t].kind = "insert" /\ op[u] # Idle => op[t].id # op[u].id

ReadStillHolds ==
    \A t \in Threads : op[t].kind = "insert" => op[t].old = forward[op[t].id]

Sound == TypeOK /\ Inverses /\ InsertAlone /\ ReadStillHolds /\ ~panicked

(***************************************************************************)
(* An Insert that goes on to the write lock has read no name or one whose  *)
(* base is another than the ideal.                                         *)
(***************************************************************************)
NeededWhenRead ==
    \A t \in Threads : op[t].kind = "insert" =>
        op[t].old = EmptyName \/ BaseOf(op[t].old) # op[t].ideal

IInv == TypeOK /\ NeededWhenRead /\ (~overlapped => Sound)

LEMMA InitIInv == Init => IInv
<1> SUFFICES ASSUME Init PROVE IInv
  OBVIOUS
<1>1. TypeOK
  BY InitTypeOK
<1> QED
  BY <1>1 DEF Init, IInv, NeededWhenRead, Sound, Inverses, InsertAlone, ReadStillHolds, Idle

(***************************************************************************)
(* What both write sections do to the call table: the call of t ends, and  *)
(* no Insert is on its id.                                                 *)
(***************************************************************************)
LEMMA EndOfCall ==
    ASSUME Sound, NEW t \in Threads, op[t] # Idle, op' = [op EXCEPT ![t] = Idle],
           forward' \in [Ids -> Names],
           \A id \in Ids : id # op[t].id => forward'[id] = forward[id]
    PROVE  InsertAlone' /\ ReadStillHolds'
<1>1. op \in [Threads -> {Idle} \cup InsertOps \cup DeleteOps]
  BY DEF Sound, TypeOK
<1>2. \A u \in Threads : op'[u] = IF u = t THEN Idle ELSE op[u]
  BY <1>1
<1>3. InsertAlone'
  BY <1>2 DEF Sound, InsertAlone, Idle
<1>4. ASSUME NEW u \in Threads
      PROVE  op'[u].kind = "insert" => op'[u].old = forward'[op'[u].id]
  <2>1. CASE u = t
    BY <1>2, <2>1 DEF Idle
  <2>2. CASE u # t /\ op[u].kind = "insert"
    <3>1. op'[u] = op[u] /\ op[u].id \in Ids /\ op[u].id # op[t].id
      BY <1>1, <1>2, <2>2 DEF Sound, InsertAlone, InsertOps, DeleteOps, Idle
    <3> QED
      BY <3>1 DEF Sound, ReadStillHolds
  <2>3. CASE u # t /\ op[u].kind # "insert"
    BY <1>2, <2>3
  <2> QED
    BY <2>1, <2>2, <2>3
<1> QED
  BY <1>3, <1>4 DEF ReadStillHolds

LEMMA InsertWriteKeepsSound ==
    ASSUME Sound, TypeOK', NEW t \in Threads, InsertWrite(t)
    PROVE  Sound'
<1> DEFINE id == op[t].id
           old == op[t].old
<1>1. op[t] \in InsertOps /\ op[t] # Idle
  BY DEF Sound, InsertWrite, TypeOK, Idle, InsertOps, DeleteOps
<1>2. PICK name \in Names :
          /\ NewName(id, op[t].ideal, name)
          /\ forward' = [forward EXCEPT ![id] = name]
          /\ backward' = Release([backward EXCEPT ![name] = id], old)
          /\ panicked' = Missing([backward EXCEPT ![name] = id], old)
  BY DEF InsertWrite
<1>3. name # EmptyName /\ backward[name] = NoSnowflake
  BY <1>2, NewNameIsFree
<1>4. /\ id \in Ids /\ old \in Names /\ old = forward[id]
      /\ forward \in [Ids -> Names]
      /\ backward \in [Names -> Ids \cup {NoSnowflake}]
      /\ backward[EmptyName] = NoSnowflake
  BY <1>1 DEF Sound, TypeOK, InsertOps, ReadStillHolds
<1>5. old # EmptyName => backward[old] = id /\ old # name
  BY <1>3, <1>4, MapAssumption DEF Sound, Inverses
<1>6. Inverses'
  <2>1. backward' = [n \in Names |-> IF n = old THEN NoSnowflake
                                     ELSE IF n = name THEN id ELSE backward[n]]
    BY <1>2, <1>4 DEF Release
  <2>2. ASSUME NEW i \in Ids, forward'[i] # EmptyName
        PROVE  backward'[forward'[i]] = i
    BY <2>1, <2>2, <1>2, <1>3, <1>4, <1>5, MapAssumption DEF Sound, Inverses
  <2>3. ASSUME NEW n \in Names, backward'[n] # NoSnowflake
        PROVE  forward'[backward'[n]] = n
    BY <2>1, <2>3, <1>2, <1>3, <1>4, <1>5, MapAssumption DEF Sound, Inverses
  <2> QED
    BY <2>2, <2>3 DEF Inverses
<1>7. ~panicked'
  BY <1>2, <1>3, <1>4, <1>5, MapAssumption DEF Missing
<1>8. InsertAlone' /\ ReadStillHolds'
  <2>1. /\ op' = [op EXCEPT ![t] = Idle]
        /\ forward' \in [Ids -> Names]
        /\ \A i \in Ids : i # id => forward'[i] = forward[i]
    BY <1>2, <1>4 DEF InsertWrite
  <2> QED
    BY <2>1, <1>1, EndOfCall
<1> QED
  BY <1>6, <1>7, <1>8 DEF Sound

LEMMA DeleteWriteKeepsSound ==
    ASSUME Sound, TypeOK', NEW t \in Threads, DeleteWrite(t)
    PROVE  Sound'
<1> DEFINE id == op[t].id
           name == forward[id]
<1>1. op[t] \in DeleteOps /\ op[t] # Idle
  BY DEF Sound, DeleteWrite, TypeOK, Idle, InsertOps, DeleteOps
<1>2. /\ forward' = Forget(forward, id)
      /\ backward' = Release(backward, name)
      /\ panicked' = Missing(backward, name)
      /\ op' = [op EXCEPT ![t] = Idle]
  BY DEF DeleteWrite
<1>3. /\ id \in Ids /\ name \in Names
      /\ forward \in [Ids -> Names]
      /\ backward \in [Names -> Ids \cup {NoSnowflake}]
      /\ name # EmptyName => backward[name] = id
      /\ backward[EmptyName] = NoSnowflake
  BY <1>1 DEF Sound, TypeOK, DeleteOps, DeleteWrite, Inverses
<1>4. Inverses'
  <2>1. forward' = [i \in Ids |-> IF i = id THEN EmptyName ELSE forward[i]]
    BY <1>2, <1>3 DEF Forget
  <2>2. backward' = [n \in Names |-> IF n = name THEN NoSnowflake ELSE backward[n]]
    BY <1>2, <1>3 DEF Release
  <2> QED
    BY <2>1, <2>2, <1>3, MapAssumption DEF Sound, Inverses
<1>5. ~panicked'
  BY <1>2, <1>3, MapAssumption DEF Missing
<1>6. InsertAlone' /\ ReadStillHolds'
  <2>1. forward' \in [Ids -> Names] /\ \A i \in Ids : i # id => forward'[i] = forward[i]
    BY <1>2, <1>3, EmptyNameIsName DEF Forget
  <2> QED
    BY <2>1, <1>1, <1>2, EndOfCall
<1> QED
  BY <1>4, <1>5, <1>6 DEF Sound

(***************************************************************************)
(* An Insert may begin on an id that no other call works on, a deletion on *)
(* one that no Insert works on.                                            *)
(***************************************************************************)
LEMMA StartKeepsSound ==
    ASSUME Sound, TypeOK', NEW t \in Threads, NEW id \in Ids, ~overlapped', Start(t, id)
    PROVE  Sound'
<1> DEFINE StartsWith(c) ==
             /\ UNCHANGED <<forward, backward, panicked>>
             /\ op' = [op EXCEPT ![t] = c]
             /\ c.id = id
             /\ c.kind = "insert" => c.old = forward[id] /\ ~Busy(id, {"insert", "delete"})
             /\ c.kind = "delete" => ~Busy(id, {"insert"})
<1>1. PICK c \in InsertOps \cup DeleteOps : StartsWith(c)
  <2>1. ASSUME NEW ideal \in Ideals, InsertRead(t, id, ideal)
        PROVE  \E c \in InsertOps \cup DeleteOps : StartsWith(c)
    <3> DEFINE c == [kind |-> "insert", id |-> id, ideal |-> ideal, old |-> forward[id]]
    <3>1. c \in InsertOps /\ StartsWith(c)
      BY <2>1 DEF InsertRead, InsertOps, IInv, TypeOK
    <3> QED
      BY <3>1
  <2>2. ASSUME DeleteRead(t, id)
        PROVE  \E c \in InsertOps \cup DeleteOps : StartsWith(c)
    <3> DEFINE c == [kind |-> "delete", id |-> id]
    <3>1. c \in DeleteOps /\ StartsWith(c)
      BY <2>2 DEF DeleteRead, DeleteOps
    <3> QED
      BY <3>1
  <2> QED
    BY <2>1, <2>2 DEF Start
<1>2. \A u \in Threads : op'[u] = IF u = t THEN c ELSE op[u]
  BY <1>1 DEF Sound, TypeOK
<1>3. InsertAlone'
  <2>1. \A u \in Threads : op[u] # Idle => op[u].kind \in {"insert", "delete"}
    BY DEF Sound, TypeOK, InsertOps, DeleteOps
  <2>2. c.kind \in {"insert", "delete"}
    BY DEF InsertOps, DeleteOps
  <2> QED
    BY <1>1, <1>2, <2>1, <2>2 DEF Sound, InsertAlone, Busy
<1>4. ReadStillHolds'
  BY <1>1, <1>2 DEF Sound, ReadStillHolds
<1>5. Inverses' /\ ~panicked'
  BY <1>1 DEF Sound, Inverses
<1> QED
  BY <1>3, <1>4, <1>5 DEF Sound

LEMMA StepNeededWhenRead == TypeOK /\ NeededWhenRead /\ [Next]_vars => NeededWhenRead'
<1> SUFFICES ASSUME TypeOK, NeededWhenRead, [Next]_vars
             PROVE  NeededWhenRead'
  OBVIOUS
<1>1. ASSUME NEW t \in Threads, Finish(t)
      PROVE  NeededWhenRead'
  <2>1. op' = [op EXCEPT ![t] = Idle]
    BY <1>1 DEF Finish, InsertWrite, DeleteWrite
  <2>2. \A u \in Threads : op'[u] = IF u = t THEN Idle ELSE op[u]
    BY <2>1 DEF TypeOK
  <2> QED
    BY <2>2 DEF NeededWhenRead, Idle
<1>2. ASSUME NEW t \in Threads, NEW id \in Ids, DeleteRead(t, id)
      PROVE  NeededWhenRead'
  <2>1. \A u \in Threads : op'[u] = IF u = t THEN [kind |-> "delete", id |-> id] ELSE op[u]
    BY <1>2 DEF DeleteRead, TypeOK
  <2> QED
    BY <2>1 DEF NeededWhenRead
<1>3. ASSUME NEW t \in Threads, NEW id \in Ids, NEW ideal \in Ideals, InsertRead(t, id, ideal)
      PROVE  NeededWhenRead'
  <2> DEFINE c == [kind |-> "insert", id |-> id, ideal |-> ideal, old |-> forward[id]]
  <2>1. \A u \in Threads : op'[u] = IF u = t THEN c ELSE op[u]
    BY <1>3 DEF InsertRead, TypeOK
  <2>2. c.old = EmptyName \/ BaseOf(c.old) # c.ideal
    BY <1>3 DEF InsertRead, NeedsInsert
  <2> QED
    BY <2>1, <2>2 DEF NeededWhenRead
<1>4. CASE UNCHANGED vars
  BY <1>4 DEF vars, NeededWhenRead
<1> QED
  BY <1>1, <1>2, <1>3, <1>4 DEF Next, Start, Ended

(***************************************************************************)
(* A step that leaves overlapped false begins no call that gets in the way *)
(* of an Insert, or an Insert in the way of a call.                        *)
(***************************************************************************)
LEMMA StepSound == Sound /\ [Next]_vars /\ ~overlapped' => Sound'
<1> SUFFICES ASSUME Sound, [Next]_vars, ~overlapped'
             PROVE  Sound'
  OBVIOUS
<1>1. TypeOK'
  BY StepTypeOK DEF Sound
<1>2. CASE UNCHANGED vars
  BY <1>2 DEF Sound, TypeOK, Inverses, InsertAlone, ReadStillHolds, vars
<1>3. ASSUME NEW t \in Threads, Finish(t)
      PROVE  Sound'
  BY <1>1, <1>3, InsertWriteKeepsSound, DeleteWriteKeepsSound DEF Finish
<1>4. ASSUME NEW t \in Threads, NEW id \in Ids, Start(t, id)
      PROVE  Sound'
  BY <1>1, <1>4, StartKeepsSound
<1> QED
  BY <1>2, <1>3, <1>4 DEF Next, Ended

LEMMA OverlapStays == [Next]_vars /\ overlapped => overlapped'
BY DEF Next, Ended, Start, Finish, InsertRead, InsertWrite, DeleteRead, DeleteWrite, vars

LEMMA StepIInv == IInv /\ [Next]_vars => IInv'
BY StepTypeOK, StepNeededWhenRead, StepSound, OverlapStays DEF IInv

LEMMA AlwaysIInv == Spec => []IInv
BY InitIInv, StepIInv, PTL DEF Spec

(***************************************************************************)
(* The two maps stay inverse to each other until an Insert and another     *)
(* call on its id overlap, whatever calls on different ids and deletions   *)
(* of one id do in between each other.                                     *)
(***************************************************************************)
THEOREM AlwaysBijective == Spec => []Bijective
<1>1. IInv => Bijective
  BY DEF IInv, Sound, Bijective
<1> QED
  BY <1>1, AlwaysIInv, PTL

(***************************************************************************)
(* Two ids never have the same name until then.                            *)
(***************************************************************************)
THEOREM DistinctUntilOverlap == Spec => [](overlapped \/ NamesDistinct)
<1>1. IInv => overlapped \/ NamesDistinct
  BY DEF IInv, Sound, Inverses, NamesDistinct
<1> QED
  BY <1>1, AlwaysIInv, PTL

(***************************************************************************)
(* The panics of idmap.go:134-140 and 165-168 need an Insert that overlaps *)
(* with a call on its id: Spec allows those, and contention for a name     *)
(* between ids, or two deletions of one id, are never the reason.          *)
(***************************************************************************)
THEOREM PanicsNeedOverlap == Spec => []PanicsOnlyOverlapped
<1>1. IInv => PanicsOnlyOverlapped
  BY DEF IInv, Sound, PanicsOnlyOverlapped
<1> QED
  BY <1>1, AlwaysIInv, PTL

(***************************************************************************)
(* The name that a call of Insert takes is never the old name that it then *)
(* deletes.  Until an overlap the old name is still taken when the new one *)
(* is chosen; after one, an ideal that sanitize leaves alone makes the     *)
(* bases of the two differ.  sanitizeNick removes every '#' from nicks     *)
(* (session.go:269-281), so that holds of all names of users.              *)
(***************************************************************************)
THEOREM NamesResolve == Spec => NewNameResolves
<1>1. ASSUME IInv, NEW t \in Threads, InsertWrite(t),
             overlapped => Sanitize[op[t].ideal] = op[t].ideal
      PROVE  backward'[forward'[op[t].id]] = op[t].id
  <2> DEFINE id == op[t].id
             old == op[t].old
  <2>1. op[t] \in InsertOps /\ op[t] # Idle
    BY <1>1 DEF IInv, InsertWrite, TypeOK, Idle, InsertOps, DeleteOps
  <2>2. PICK name \in Names :
            /\ NewName(id, op[t].ideal, name)
            /\ forward' = [forward EXCEPT ![id] = name]
            /\ backward' = Release([backward EXCEPT ![name] = id], old)
    BY <1>1 DEF InsertWrite
  <2>3. /\ name # EmptyName
        /\ backward[name] = NoSnowflake
        /\ BaseOf(name) = Sanitize[op[t].ideal]
    BY <2>1, <2>2, NewNameIsFree DEF InsertOps
  <2>4. old # name
    <3>1. CASE ~overlapped
      <4>1. old = EmptyName \/ backward[old] = id
        BY <1>1, <2>1, <3>1 DEF IInv, Sound, ReadStillHolds, Inverses, InsertWrite, InsertOps
      <4> QED
        BY <2>1, <2>3, <4>1, MapAssumption DEF InsertOps
    <3>2. CASE overlapped
      BY <1>1, <2>3, <3>2 DEF IInv, NeededWhenRead, InsertWrite
    <3> QED
      BY <3>1, <3>2
  <2> QED
    BY <1>1, <2>1, <2>2, <2>4 DEF IInv, TypeOK, InsertOps, Release
<1>2. IInv /\ [Next]_vars => [InsertResolves]_vars
  BY <1>1 DEF InsertResolves
<1> QED
  BY <1>2, AlwaysIInv, PTL DEF Spec, NewNameResolves

----------------------------------------------------------------------------
(* The mangle loop ends. *)

LEMMA LeastNat ==
    ASSUME NEW T, T \subseteq Nat, T # {}
    PROVE  \E k \in T : \A j \in T : k <= j
<1> DEFINE R == {p \in Nat \X Nat : p[1] < p[2]}
<1>1. IsWellFoundedOn(R, Nat)
  BY NatLessThanWellFounded, Zenon DEF OpToRel
<1>2. PICK k \in T : \A j \in T : ~(<<j, k>> \in R)
  BY <1>1, WFMin
<1>3. ASSUME NEW j \in T
      PROVE  k <= j
  <2>1. j \in Nat /\ k \in Nat /\ <<j, k>> \in Nat \X Nat
    OBVIOUS
  <2>2. ~(<<j, k>>[1] < <<j, k>>[2])
    BY <1>2, <2>1
  <2> QED
    BY <2>1, <2>2
<1> QED
  BY <1>3

(***************************************************************************)
(* With the maps inverse to each other, at most one name per id is taken.  *)
(* If all of the first Cardinality(Ids) + 1 mangled candidates were taken, *)
(* two of them would belong to one id, which has only one name.            *)
(***************************************************************************)
LEMMA SomeCandidateFree ==
    ASSUME TypeOK, Inverses, NEW id \in Ids, NEW ideal \in Ideals
    PROVE  \E k \in 0..MaxMangles : Free(Candidate(Sanitize[ideal], id, k))
<1> DEFINE N == Cardinality(Ids)
           C(k) == Candidate(Sanitize[ideal], id, k)
           owner == [k \in 1..(N + 1) |-> backward[C(k)]]
<1> USE BoundAssumption, NamesAssumption, MapAssumption
<1>1. N \in Nat /\ N + 1 \in 0..MaxMangles
  BY FS_CardinalityType
<1>2. SUFFICES ASSUME \A k \in 0..MaxMangles : ~Free(C(k))
               PROVE  FALSE
  OBVIOUS
<1>3. ASSUME NEW k \in 1..(N + 1)
      PROVE  C(k) \in Names /\ backward[C(k)] \in Ids /\ forward[backward[C(k)]] = C(k)
  <2>1. k \in 0..MaxMangles /\ k \in Nat /\ k # 0
    BY <1>1
  <2>2. C(k) \in Names
    BY <2>1, CandidateIsName
  <2>3. C(k) # EmptyName
    <3>1. Len(Tag(id, k)) = k /\ Len(<<>>) = 0
      BY <2>1, TagLength
    <3> QED
      BY <3>1, <2>1 DEF Candidate, EmptyName
  <2>4. backward[C(k)] # NoSnowflake
    BY <1>2, <2>1, <2>3 DEF Free
  <2> QED
    BY <2>2, <2>4 DEF TypeOK, Inverses
<1>4. owner \in [1..(N + 1) -> Ids]
  BY <1>3
<1>5. IsFiniteSet(1..(N + 1)) /\ Cardinality(1..(N + 1)) = N + 1
  BY <1>1, FS_Interval
<1>6. \E i, k \in 1..(N + 1) : i # k /\ owner[i] = owner[k]
  <2>1. \A f \in [1..(N + 1) -> Ids] : \E i, k \in 1..(N + 1) : i # k /\ f[i] = f[k]
    <3>1. Cardinality(Ids) < Cardinality(1..(N + 1))
      BY <1>1, <1>5
    <3> QED
      BY <1>5, <3>1, FS_PigeonHole
  <2> HIDE DEF owner
  <2> QED
    BY <1>4, <2>1
<1>7. PICK i \in 1..(N + 1), k \in 1..(N + 1) : i # k /\ backward[C(i)] = backward[C(k)]
  BY <1>6
<1>8. C(i) = C(k)
  BY <1>3, <1>7
<1> QED
  BY <1>1, <1>7, <1>8, CandidatesDiffer

(***************************************************************************)
(* Whatever is asked for, the loop of getNewNameHeldRLock (idmap.go:176)   *)
(* has found a free name after at most one round more than there are ids,  *)
(* until calls on one id overlap.                                          *)
(***************************************************************************)
THEOREM MangleLoopAlwaysEnds == Spec => []MangleLoopEnds
<1>1. ASSUME Sound, NEW id \in Ids, NEW ideal \in Ideals
      PROVE  \E name \in Names : NewName(id, ideal, name)
  <2> DEFINE C(k) == Candidate(Sanitize[ideal], id, k)
             T == {k \in 0..MaxMangles : Free(C(k))}
  <2>1. T \subseteq Nat /\ T # {}
    BY <1>1, SomeCandidateFree DEF Sound
  <2>2. PICK k \in T : \A j \in T : k <= j
    BY <2>1, LeastNat
  <2>3. k \in 0..MaxMangles /\ Free(C(k)) /\ \A j \in 0..(k - 1) : ~Free(C(j))
    BY <2>2, NamesAssumption
  <2>4. C(k) \in Names
    BY <2>3, CandidateIsName, NamesAssumption
  <2> QED
    BY <2>3, <2>4 DEF NewName
<1>2. IInv => MangleLoopEnds
  BY <1>1 DEF IInv, MangleLoopEnds
<1> QED
  BY <1>2, AlwaysIInv, PTL

----------------------------------------------------------------------------
(* The map implements NameTable. *)

LEMMA SameNames ==
    /\ Table!EmptyName = EmptyName
    /\ Table!Names = Names
    /\ \A base, id, k : Table!Candidate(base, id, k) = Candidate(base, id, k)
    /\ \A name : Table!BaseOf(name) = BaseOf(name)
BY DEF Table!EmptyName, EmptyName, Table!Names, Names, Table!Candidate, Candidate,
       Table!BaseOf, BaseOf, Table!Tag, Tag, Table!Pad, Pad

LEMMA InsertWriteBinds ==
    ASSUME Sound, NEW t \in Threads, InsertWrite(t)
    PROVE  Table!Bind(op[t].id, op[t].ideal)
<1> DEFINE id == op[t].id
           ideal == op[t].ideal
           plain == Candidate(Sanitize[ideal], id, 0)
<1>1. id \in Ids /\ ideal \in Ideals
  BY DEF Sound, InsertWrite, TypeOK, Idle, InsertOps, DeleteOps
<1>2. PICK name \in Names :
          /\ NewName(id, ideal, name)
          /\ forward' = [forward EXCEPT ![id] = name]
  BY DEF InsertWrite
<1>3. /\ name # EmptyName
      /\ backward[name] = NoSnowflake
      /\ BaseOf(name) = Sanitize[ideal]
  BY <1>2, NewNameIsFree
<1>4. ~Table!Bound(name)
  BY <1>3, MapAssumption DEF Sound, Inverses, Table!Bound
<1>5. ASSUME name # plain, plain # EmptyName
      PROVE  Table!Bound(plain)
  <2>1. ~Free(plain)
    <3>1. PICK k \in 0..MaxMangles :
              /\ name = Candidate(Sanitize[ideal], id, k)
              /\ \A j \in 0..(k - 1) : ~Free(Candidate(Sanitize[ideal], id, j))
      BY <1>2 DEF NewName
    <3>2. 0 \in 0..(k - 1)
      BY <1>5, <3>1, NamesAssumption
    <3> QED
      BY <3>1, <3>2
  <2>2. plain \in Names
    <3>1. Sanitize[ideal] \in Bases /\ 0 \in 0..MaxMangles
      BY <1>1, NamesAssumption
    <3> QED
      BY <1>1, <3>1, CandidateIsName
  <2> QED
    BY <1>5, <2>1, <2>2 DEF Sound, TypeOK, Free, Inverses, Table!Bound
<1> QED
  BY <1>2, <1>3, <1>4, <1>5, SameNames DEF Table!Bind

LEMMA DeleteWriteUnbinds ==
    ASSUME Sound, NEW t \in Threads, DeleteWrite(t)
    PROVE  op[t].id \in Ids /\ (Table!Unbind(op[t].id) \/ UNCHANGED forward)
<1>1. op[t] \in DeleteOps
  BY DEF Sound, DeleteWrite, TypeOK, Idle, InsertOps, DeleteOps
<1>2. op[t].id \in Ids /\ forward \in [Ids -> Names]
  BY <1>1 DEF Sound, TypeOK, DeleteOps
<1>3. forward' = [forward EXCEPT ![op[t].id] = EmptyName]
  BY DEF DeleteWrite, Forget
<1>4. CASE forward[op[t].id] = EmptyName
  BY <1>2, <1>3, <1>4
<1>5. CASE forward[op[t].id] # EmptyName
  BY <1>2, <1>3, <1>5, SameNames DEF Table!Unbind
<1> QED
  BY <1>2, <1>4, <1>5

(***************************************************************************)
(* Until an Insert and a call on its id overlap every call takes effect in *)
(* one step, as the comments of idmap.go promise it: names are unique, and *)
(* an id that asks for a free name gets it.                                *)
(***************************************************************************)
THEOREM MapImplementsNameTable == Spec => ImplementsNameTable
<1>1. Init => Table!Init
  BY SameNames DEF Init, Table!Init
<1>2. ASSUME IInv, [Next]_vars
      PROVE  [Table!Next]_(Table!vars)
  <2>1. ASSUME NEW t \in Threads, InsertWrite(t), ~overlapped
        PROVE  Table!Next
    <3>1. op[t].id \in Ids /\ op[t].ideal \in Ideals /\ Sound
      BY <1>2, <2>1 DEF IInv, InsertWrite, TypeOK, Idle, InsertOps, DeleteOps
    <3>2. Table!Bind(op[t].id, op[t].ideal) /\ overlapped' = overlapped
      BY <2>1, <3>1, InsertWriteBinds DEF InsertWrite
    <3> QED
      BY <3>1, <3>2 DEF Table!Next
  <2>2. ASSUME NEW t \in Threads, DeleteWrite(t), ~overlapped
        PROVE  [Table!Next]_(Table!vars)
    <3>1. op[t].id \in Ids /\ (Table!Unbind(op[t].id) \/ UNCHANGED forward)
      BY <1>2, <2>2, DeleteWriteUnbinds DEF IInv
    <3>2. overlapped' = overlapped
      BY <2>2 DEF DeleteWrite
    <3> QED
      BY <3>1, <3>2 DEF Table!Next, Table!vars
  <2>3. ASSUME overlapped'
        PROVE  Table!Next
    BY <2>3 DEF Table!Next, Table!Misuse
  <2>4. ASSUME NEW t \in Threads, NEW id \in Ids, Start(t, id), ~overlapped'
        PROVE  UNCHANGED Table!vars
    <3>1. forward' = forward /\ overlapped' = overlapped
      BY <1>2, <2>4 DEF Start, InsertRead, DeleteRead, IInv, TypeOK
    <3> QED
      BY <3>1 DEF Table!vars
  <2>5. CASE UNCHANGED vars
    BY <2>5 DEF vars, Table!vars
  <2> QED
    BY <1>2, <2>1, <2>2, <2>3, <2>4, <2>5, OverlapStays DEF Next, Finish, Ended
<1> QED
  BY <1>1, <1>2, AlwaysIInv, PTL DEF Spec, ImplementsNameTable, Table!Spec

----------------------------------------------------------------------------
(* What overlapping calls cannot break. *)

(***************************************************************************)
(* A name never passes from one id to another in one step: Insert takes    *)
(* only names that nobody has, however the calls overlap.                  *)
(***************************************************************************)
THEOREM NamesNotStolen == Spec => NoNameStolen
<1>1. ASSUME TypeOK, [Next]_vars
      PROVE  [NamesKept]_vars
  <2>1. ASSUME NEW t \in Threads, InsertWrite(t)
        PROVE  NamesKept
    <3>1. PICK new \in Names :
              /\ NewName(op[t].id, op[t].ideal, new)
              /\ backward' = Release([backward EXCEPT ![new] = op[t].id], op[t].old)
      BY <2>1 DEF InsertWrite
    <3>2. backward[new] = NoSnowflake
      BY <3>1, NewNameIsFree
    <3> QED
      BY <1>1, <3>1, <3>2 DEF Release, TypeOK, NamesKept
  <2>2. ASSUME NEW t \in Threads, DeleteWrite(t)
        PROVE  NamesKept
    BY <1>1, <2>2 DEF DeleteWrite, Release, TypeOK, NamesKept
  <2>3. ASSUME NEW t \in Threads, NEW id \in Ids, Start(t, id)
        PROVE  NamesKept
    BY <2>3 DEF Start, InsertRead, DeleteRead, NamesKept
  <2> QED
    BY <1>1, <2>1, <2>2, <2>3 DEF Next, Finish, Ended, vars, NamesKept
<1> QED
  BY <1>1, TypeCorrect, PTL DEF Spec, NoNameStolen
=============================================================================
