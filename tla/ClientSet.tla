----------------------------- MODULE ClientSet ------------------------------
(***************************************************************************)
(* What a server keeps of its clients, as a set: no slice, no array, no    *)
(* mutex that is given up half way, no loop (internal/server).             *)
(*                                                                         *)
(* A client is added once and closed once, by whoever comes first.  Closing *)
(* the server closes the clients that are there when it begins, but not    *)
(* all of them: for each it misses there is another one, closed, whose     *)
(* place in the list it was moved to.                                      *)
(***************************************************************************)
CONSTANT Clients

VARIABLES
    members,    \* the clients that were added and are not closed
    closed,     \* the clients that were closed
    phase,      \* "serving", "closing" while the server closes, "closed"
    due         \* the clients that were there when the server began to close

vars == <<members, closed, phase, due>>

TypeOK ==
    /\ members \subseteq Clients
    /\ closed \subseteq Clients
    /\ phase \in {"serving", "closing", "closed"}
    /\ due \subseteq Clients

Init ==
    /\ members = {} /\ closed = {} /\ due = {}
    /\ phase = "serving"

(***************************************************************************)
(* Clients come and are closed until the server is closed: also while it   *)
(* is closing.                                                             *)
(***************************************************************************)
Add(c) ==
    /\ phase # "closed"
    /\ c \notin members \cup closed
    /\ members' = members \cup {c}
    /\ UNCHANGED <<closed, phase, due>>

Close(c) ==
    /\ phase # "closed"
    /\ c \in members
    /\ members' = members \ {c}
    /\ closed' = closed \cup {c}
    /\ UNCHANGED <<phase, due>>

BeginClosing ==
    /\ phase = "serving"
    /\ phase' = "closing"
    /\ due' = members
    /\ UNCHANGED <<members, closed>>

(***************************************************************************)
(* A missed client for every closed one at most.                           *)
(***************************************************************************)
Missed == due \cap members

EndClosing ==
    /\ phase = "closing"
    /\ \E inPlaceOf \in [Missed -> due \cap closed] :
            \A c, d \in Missed : inPlaceOf[c] = inPlaceOf[d] => c = d
    /\ phase' = "closed"
    /\ UNCHANGED <<members, closed, due>>

Next ==
    \/ \E c \in Clients : Add(c) \/ Close(c)
    \/ BeginClosing \/ EndClosing

Spec == Init /\ [][Next]_vars
=============================================================================
