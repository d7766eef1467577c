---------------------------- MODULE MCClientList ----------------------------
(***************************************************************************)
(* A small instance of ClientList: four connections, so that the list can  *)
(* outgrow its array while Server.Close is walking through it.             *)
(***************************************************************************)
EXTENDS ClientList

FourClients == 1..4

MCPeer(n, talkers, leavers) ==
    [c \in Clients |-> [lines |-> IF c \in talkers THEN n ELSE 0, hangup |-> c \in leavers]]

(***************************************************************************)
(* One peer logs in twice; one sends a line while its neighbours leave;    *)
(* all but one leave.  The others stay and are silent.                     *)
(***************************************************************************)
MCPeers == {MCPeer(2, {2}, {2}), MCPeer(1, {1}, {1, 2}),
            MCPeer(0, {}, {1, 2, 3}), MCPeer(0, {}, {2, 3, 4})}
=============================================================================
