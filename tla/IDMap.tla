-------------------------------- MODULE IDMap -------------------------------
(***************************************************************************)
(* internal/idmap: a map between snowflakes and IRC names, kept as a       *)
(* forward and a backward map under one read-write mutex.  Each call is    *)
(* two critical sections: Insert and DeleteSnowflake read the old name     *)
(* under the read lock, release it, and take the write lock for the rest.  *)
(* Calls of several goroutines interleave between the two.                 *)
(***************************************************************************)
EXTENDS IrcNames, FiniteSets

CONSTANTS
    Threads,        \* the goroutines that call into the map
    NoSnowflake     \* the zero snowflake: what a missing key reads as

ASSUME MapAssumption == NoSnowflake \notin Ids

(***************************************************************************)
(* The bound on the mangle loop lets it try one name more than there are   *)
(* ids.                                                                    *)
(***************************************************************************)
ASSUME BoundAssumption == IsFiniteSet(Ids) /\ MaxMangles > Cardinality(Ids)

VARIABLES
    forward,        \* forward[id]: the id's name, EmptyName if missing
    backward,       \* backward[name]: the name's id, NoSnowflake if missing
    op,             \* op[t]: the call of t between its two critical sections
    panicked,       \* a call panicked, which ends the process
    overlapped      \* history: an Insert and another call on its id have overlapped

vars == <<forward, backward, op, panicked, overlapped>>

Idle == [kind |-> "idle"]
InsertOps == [kind : {"insert"}, id : Ids, ideal : Ideals, old : Names]
DeleteOps == [kind : {"delete"}, id : Ids]

TypeOK ==
    /\ forward \in [Ids -> Names]
    /\ backward \in [Names -> Ids \cup {NoSnowflake}]
    /\ backward[EmptyName] = NoSnowflake
    /\ op \in [Threads -> {Idle} \cup InsertOps \cup DeleteOps]
    /\ panicked \in BOOLEAN
    /\ overlapped \in BOOLEAN

Init ==
    /\ forward = [id \in Ids |-> EmptyName]
    /\ backward = [name \in Names |-> NoSnowflake]
    /\ op = [t \in Threads |-> Idle]
    /\ panicked = FALSE
    /\ overlapped = FALSE

(***************************************************************************)
(* The loop of getNewNameHeldRLock: it mangles the name as long as it is   *)
(* empty or taken, by whomever, so it settles on the first free candidate. *)
(***************************************************************************)
FreeIgnoringEmpty(name) == backward[name] = NoSnowflake
FreeIgnoringTaken(name) == name # EmptyName

Free(name) == name # EmptyName /\ backward[name] = NoSnowflake

NewNameSkipsPlain(id, ideal, name) ==
    \E k \in 1..MaxMangles :
        /\ name = Candidate(Sanitize[ideal], id, k)
        /\ Free(name)
        /\ \A j \in 1..(k - 1) : ~Free(Candidate(Sanitize[ideal], id, j))

NewName(id, ideal, name) ==
    \E k \in 0..MaxMangles :
        /\ name = Candidate(Sanitize[ideal], id, k)
        /\ Free(name)
        /\ \A j \in 0..(k - 1) : ~Free(Candidate(Sanitize[ideal], id, j))

(***************************************************************************)
(* The deletion of the old name from a backward map: deleting the empty    *)
(* name, which is never a key, leaves the map alone.                       *)
(***************************************************************************)
ReleaseNothing(back, old) == back

Release(back, old) == [back EXCEPT ![old] = NoSnowflake]

(***************************************************************************)
(* The deletion of an id from a forward map (deleteSnowflakeHeldLock).     *)
(***************************************************************************)
ForgetNothing(fwd, id) == fwd

Forget(fwd, id) == [fwd EXCEPT ![id] = EmptyName]

(***************************************************************************)
(* The case in which deleteNameHeldLock(id, old, true) panics.             *)
(***************************************************************************)
Missing(back, old) == old # EmptyName /\ back[old] = NoSnowflake

(***************************************************************************)
(* A call of one of the kinds is between its two critical sections on id.  *)
(***************************************************************************)
Busy(id, kinds) == \E t \in Threads : op[t].kind \in kinds /\ op[t].id = id

----------------------------------------------------------------------------
(***************************************************************************)
(* Insert, up to the release of the read lock.  A call that finds the id   *)
(* bound to a name with the ideal as its base returns without a change.    *)
(* The base is compared with the ideal as given, not with the sanitized    *)
(* one.                                                                    *)
(***************************************************************************)
NeedsInsert(id, ideal) ==
    forward[id] = EmptyName \/ BaseOf(forward[id]) # ideal

InsertRead(t, id, ideal) ==
    /\ ~panicked
    /\ op[t] = Idle
    /\ NeedsInsert(id, ideal)
    /\ op' = [op EXCEPT ![t] =
                [kind |-> "insert", id |-> id, ideal |-> ideal, old |-> forward[id]]]
    /\ overlapped' = (overlapped \/ Busy(id, {"insert", "delete"}))
    /\ UNCHANGED <<forward, backward, panicked>>

(***************************************************************************)
(* Insert, under the write lock: a new name, both maps, and the deletion   *)
(* of the old name as it was read before.                                  *)
(***************************************************************************)
InsertWrite(t) ==
    /\ ~panicked
    /\ op[t].kind = "insert"
    /\ \E name \in Names :
        LET c == op[t]
            added == [backward EXCEPT ![name] = c.id]
        IN  /\ NewName(c.id, c.ideal, name)
            /\ forward' = [forward EXCEPT ![c.id] = name]
            /\ backward' = Release(added, c.old)
            /\ panicked' = Missing(added, c.old)
    /\ op' = [op EXCEPT ![t] = Idle]
    /\ UNCHANGED overlapped

(***************************************************************************)
(* DeleteSnowflake, up to the release of the read lock: a call on an id    *)
(* without a name returns at once.                                         *)
(***************************************************************************)
DeleteRead(t, id) ==
    /\ ~panicked
    /\ op[t] = Idle
    /\ forward[id] # EmptyName
    /\ op' = [op EXCEPT ![t] = [kind |-> "delete", id |-> id]]
    /\ overlapped' = (overlapped \/ Busy(id, {"insert"}))
    /\ UNCHANGED <<forward, backward, panicked>>

(***************************************************************************)
(* DeleteSnowflake under the write lock reads the name again, which        *)
(* another deletion may have taken, and panics in deleteHeldLock if only   *)
(* one of the maps knows the pair.                                         *)
(***************************************************************************)
DeleteWrite(t) ==
    /\ ~panicked
    /\ op[t].kind = "delete"
    /\ LET id == op[t].id
           name == forward[id]
       IN  /\ forward' = Forget(forward, id)
           /\ backward' = Release(backward, name)
           /\ panicked' = Missing(backward, name)
    /\ op' = [op EXCEPT ![t] = Idle]
    /\ UNCHANGED overlapped

(***************************************************************************)
(* A panic ends the process: every action asks for ~panicked.              *)
(***************************************************************************)
Start(t, id) == DeleteRead(t, id) \/ \E ideal \in Ideals : InsertRead(t, id, ideal)
Finish(t) == InsertWrite(t) \/ DeleteWrite(t)

Ended == panicked /\ UNCHANGED vars

Next == Ended \/ \E t \in Threads : Finish(t) \/ \E id \in Ids : Start(t, id)

Spec == Init /\ [][Next]_vars

(***************************************************************************)
(* What the rest of the program does with the map: no call of              *)
(* DeleteSnowflake, which only the tests use.                              *)
(***************************************************************************)
InsertNext ==
    \/ Ended
    \/ \E t \in Threads :
        InsertWrite(t) \/ \E id \in Ids, ideal \in Ideals : InsertRead(t, id, ideal)

InsertSpec == Init /\ [][InsertNext]_vars

----------------------------------------------------------------------------
(***************************************************************************)
(* The map is correct as long as no Insert overlaps with another call on   *)
(* the same id; deletions may.  Nothing in the code sees to that, so the   *)
(* properties name the case (overlapped), and what they say of every       *)
(* interleaving they say without it.                                       *)
(*                                                                         *)
(* The two maps are inverse to each other: looking up the name of an id    *)
(* leads back to the id, and no name is left behind that leads to an id    *)
(* of another name.  A stale entry would deliver a query to the wrong      *)
(* user and block its name for ever.                                       *)
(***************************************************************************)
Inverses ==
    /\ \A id \in Ids : forward[id] # EmptyName => backward[forward[id]] = id
    /\ \A name \in Names : backward[name] # NoSnowflake => forward[backward[name]] = name

Bijective == ~overlapped => Inverses

(***************************************************************************)
(* No two ids have the same IRC name: "with different IRC names guaranteed *)
(* by the map" (idmap.go:14-15).                                           *)
(***************************************************************************)
NamesDistinct ==
    \A a, b \in Ids : a # b /\ forward[a] # EmptyName => forward[a] # forward[b]

(***************************************************************************)
(* Calls with valid ids do panic (idmap.go:134-140 and 165-168), for       *)
(* instance the second of two calls of Insert that have read the same old  *)
(* name; but only after an Insert and another call on its id have          *)
(* overlapped.  Calls on different ids that come between each other's      *)
(* sections and compete for one name are no reason, nor are two deletions  *)
(* of one id.                                                              *)
(***************************************************************************)
PanicsOnlyOverlapped == panicked => overlapped

(***************************************************************************)
(* The loop of getNewNameHeldRLock, which has no bound in the code, finds  *)
(* a free name within MaxMangles rounds whatever is asked for.             *)
(***************************************************************************)
MangleLoopEnds ==
    ~overlapped =>
        \A id \in Ids, ideal \in Ideals : \E name \in Names : NewName(id, ideal, name)

(***************************************************************************)
(* No step hands a name from one id to another: a name changes hands only  *)
(* by being deleted first, even when calls on one id overlap.              *)
(***************************************************************************)
NamesKept ==
    \A name \in Names : backward[name] # NoSnowflake =>
        backward'[name] \in {backward[name], NoSnowflake}

NoNameStolen == [][NamesKept]_vars

(***************************************************************************)
(* The name a call of Insert returns resolves to the id it was asked for   *)
(* at the moment the write lock is released: the deletion of the old name  *)
(* never takes the new one along.  That holds even when calls on one id    *)
(* have overlapped, if sanitize leaves the ideal as it is; with a # in the *)
(* ideal an overlapping call may free the old name, and the call then      *)
(* takes that name and deletes it.                                         *)
(***************************************************************************)
InsertResolves ==
    \A t \in Threads :
        InsertWrite(t) /\ (overlapped => Sanitize[op[t].ideal] = op[t].ideal)
            => backward'[forward'[op[t].id]] = op[t].id

NewNameResolves == [][InsertResolves]_vars

(***************************************************************************)
(* Until an Insert overlaps with a call on its id the map implements       *)
(* NameTable: a write section is one Bind or Unbind, or nothing if another *)
(* deletion came first, and everything else is invisible.                  *)
(***************************************************************************)
Table == INSTANCE NameTable WITH binding <- forward, misused <- overlapped

ImplementsNameTable == Table!Spec
=============================================================================
