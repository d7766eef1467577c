------------------------------ MODULE NamesMap ------------------------------
(***************************************************************************)
(* The second map of names of the repository, internal/names: one table of *)
(* the names of users, and one table each of the nicks and of the channels *)
(* of a guild (the zero guild among them).  A table is a pair of Go maps.  *)
(*                                                                         *)
(* Every method holds the one mutex of the map from its beginning to its   *)
(* end and is one action.  The three update functions are the same code    *)
(* over different tables, down to the table from which they delete.        *)
(*                                                                         *)
(* Names are the pairs of IrcNames, whose mangle is the same.  Nothing     *)
(* sanitizes an ideal here: it is a name itself, and may have a tag.  The  *)
(* empty string is a name like any other, the one of a removed entry.      *)
(***************************************************************************)
EXTENDS IrcNames

CONSTANTS
    UserTable,  \* userf and userb
    Tables,     \* nicksf and nicksb, chansf and chansb, of every guild
    Asked,      \* the names that callers ask for, EmptyName to remove an entry
    NoName,     \* no entry for an id
    NoId        \* no entry for a name

VARIABLES
    f,          \* the name of an id, by table
    b,          \* the id of a name, by table
    erased      \* history: the names that changes in other tables took from userb

vars == <<f, b, erased>>

AllTables == Tables \cup {UserTable}

(***************************************************************************)
(* The name after k rounds of mangle, and all names within the bound.      *)
(***************************************************************************)
RoundOnTop(ideal, id, k) == <<BaseOf(ideal), ideal[2] \o Tag(id, k)>>

Round(ideal, id, k) ==
    IF k = 0 THEN ideal ELSE Candidate(BaseOf(ideal), id, Len(ideal[2]) + k)

InUse == {Round(ideal, id, k) : ideal \in Asked, id \in Ids, k \in 0..MaxMangles}

ASSUME NamesMapAssumption ==
    /\ UserTable \notin Tables
    /\ NoId \notin Ids
    /\ Asked \subseteq Bases \X Seq(STRING)
    /\ NoName \notin InUse

(***************************************************************************)
(* An id has the name that was asked for, or a tag of its own digits.      *)
(***************************************************************************)
Own(id) == Asked \cup {Candidate(BaseOf(name), id, Len(name[2])) : name \in InUse}

TypeOK ==
    /\ f \in [AllTables -> [Ids -> InUse \cup {NoName}]]
    /\ \A t \in AllTables, id \in Ids : f[t][id] \in Own(id) \cup {NoName}
    /\ b \in [AllTables -> [InUse -> Ids \cup {NoId}]]
    /\ erased \subseteq InUse

Init ==
    /\ f = [t \in AllTables |-> [id \in Ids |-> NoName]]
    /\ b = [t \in AllTables |-> [name \in InUse |-> NoId]]
    /\ erased = {}

----------------------------------------------------------------------------
(***************************************************************************)
(* The loop ends in the first round whose name no id has in the table.     *)
(***************************************************************************)
FreeAnyway(t, name) == TRUE
FreeAmongUsers(t, name) == b[UserTable][name] = NoId
Free(t, name) == b[t][name] = NoId

FirstFree(t, id, ideal, k) ==
    /\ Free(t, Round(ideal, id, k))
    /\ \A j \in 0..(k - 1) : ~Free(t, Round(ideal, id, j))

(***************************************************************************)
(* The old name is deleted from the names of users, whichever the table    *)
(* (map.go:199, 237 and 276): an old nick or channel name stays where it   *)
(* was, against map.go:14-17, and a user of that name is no longer found.  *)
(***************************************************************************)
DeletedFrom(t) == UserTable

(***************************************************************************)
(* Nothing to do if the entry has the name already but for its tag.        *)
(***************************************************************************)
UpToDate(t, id, ideal) == f[t][id] # NoName /\ <<BaseOf(f[t][id]), <<>>>> = ideal

(***************************************************************************)
(* One call of UpdateUser, UpdateNick or UpdateChannel.  The loop has no   *)
(* bound in the code: calls that need more than MaxMangles rounds are left *)
(* out.                                                                    *)
(***************************************************************************)
Rename(t, id, new) ==
    LET old == f[t][id] IN
    /\ f' = [f EXCEPT ![t][id] = new]
    /\ IF old = NoName
       THEN b' = [b EXCEPT ![t][new] = id] /\ UNCHANGED erased
       ELSE /\ b' = [b EXCEPT ![t][new] = id, ![DeletedFrom(t)][old] = NoId]
            /\ erased' = IF t = UserTable THEN erased ELSE erased \cup {old}

Update(t, id, ideal) ==
    IF UpToDate(t, id, ideal)
    THEN UNCHANGED vars
    ELSE \E k \in 0..MaxMangles :
            FirstFree(t, id, ideal, k) /\ Rename(t, id, Round(ideal, id, k))

UpdateUser == \E id \in Ids, ideal \in Asked : Update(UserTable, id, ideal)

UpdateNickOrChannel ==
    \E t \in Tables, id \in Ids, ideal \in Asked : Update(t, id, ideal)

Next == UpdateUser \/ UpdateNickOrChannel

Spec == Init /\ [][Next]_vars

----------------------------------------------------------------------------
(***************************************************************************)
(* Every nick and channel name resolves to the id that has it, in every    *)
(* guild, so that no two ids of a table ever have the same name (map.go    *)
(* promises bidirectional maps, lines 14-17).                              *)
(***************************************************************************)
NicksResolve ==
    \A t \in Tables, id \in Ids : f[t][id] # NoName => b[t][f[t][id]] = id

(***************************************************************************)
(* The name of a user resolves to the user, unless a nick or a channel of  *)
(* that very name was changed before: nothing else, such as two users who  *)
(* exchange names, takes it away.                                          *)
(***************************************************************************)
UsersResolve ==
    \A id \in Ids : f[UserTable][id] # NoName =>
        b[UserTable][f[UserTable][id]] = id \/ f[UserTable][id] \in erased
=============================================================================
