------------------------------ MODULE NameTable -----------------------------
(***************************************************************************)
(* What an idmap promises its callers (idmap.go:12-15 and 70-75), with no  *)
(* lock, no second map and no loop: ids are bound to names, no two ids to  *)
(* the same one, and an id asking for a free name gets that name.  The     *)
(* promise is made to callers that let no Insert overlap with another call *)
(* on its id.                                                              *)
(***************************************************************************)
EXTENDS IrcNames

VARIABLES
    binding,    \* binding[id]: the name of id, EmptyName if it has none
    misused     \* an Insert and another call on its id have overlapped

vars == <<binding, misused>>

TypeOK == binding \in [Ids -> Names] /\ misused \in BOOLEAN

Init == binding = [id \in Ids |-> EmptyName] /\ misused = FALSE

Bound(name) == \E id \in Ids : binding[id] = name

(***************************************************************************)
(* id asks for ideal.  It gets the sanitized ideal if that is a name and   *)
(* nobody has it; otherwise a name with the same base that nobody has.     *)
(***************************************************************************)
Bind(id, ideal) ==
    \E name \in Names \ {EmptyName} :
        LET plain == Candidate(Sanitize[ideal], id, 0) IN
        /\ ~Bound(name)
        /\ BaseOf(name) = Sanitize[ideal]
        /\ name # plain => plain = EmptyName \/ Bound(plain)
        /\ binding' = [binding EXCEPT ![id] = name]

Unbind(id) ==
    /\ binding[id] # EmptyName
    /\ binding' = [binding EXCEPT ![id] = EmptyName]

(***************************************************************************)
(* From then on nothing is promised of the names.                          *)
(***************************************************************************)
Misuse == misused' = TRUE

Next ==
    \/ /\ UNCHANGED misused
       /\ \E id \in Ids : Unbind(id) \/ \E ideal \in Ideals : Bind(id, ideal)
    \/ Misuse

Spec == Init /\ [][Next]_vars
=============================================================================
