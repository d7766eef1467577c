---------------------------- MODULE MCMessageFlow ---------------------------
(***************************************************************************)
(* Two chats and three names, so that one chat can take over the name the  *)
(* other had.                                                              *)
(***************************************************************************)
EXTENDS MessageFlow, TLC

CONSTANTS x, y, nx, ny, nz

TwoChats == {x, y}
ThreeNames == {nx, ny, nz}
MCFirstName == (x :> nx) @@ (y :> ny)

(***************************************************************************)
(* The two chats with their first names are alike.                         *)
(***************************************************************************)
ChatSymmetry == {(x :> y) @@ (y :> x) @@ (nx :> ny) @@ (ny :> nx) @@ (nz :> nz)}

(***************************************************************************)
(* Outside of a guild, where names change and events cause joins, there is *)
(* one event less; and all events but one are by the friend or the peer.   *)
(***************************************************************************)
FewEvents ==
    /\ ~isGuild => Len(stream) < MaxEvents
    /\ Cardinality({i \in 1..Len(stream) : stream[i].by \in {"blocked", "elsewhere"}}) <= 1
=============================================================================
