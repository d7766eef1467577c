------------------------- MODULE MCSessionRegistry --------------------------
(***************************************************************************)
(* Small instances of SessionRegistry: one user that two tokens belong to, *)
(* and users with a token each.                                            *)
(***************************************************************************)
EXTENDS SessionRegistry, TLC

CONSTANTS c1, c2, c3, s1, s2, s3, s4, ta, tb, tc, ua, ub

TwoClients == {c1, c2}
ThreeClients == {c1, c2, c3}
ThreeSessions == {s1, s2, s3}
FourSessions == {s1, s2, s3, s4}
OneUser == {ua}
TwoUsers == {ua, ub}
TwoTokens == {ta, tb}
ThreeTokens == {ta, tb, tc}

SharedUser == (ta :> ua) @@ (tb :> ua)
OwnUser == (ta :> ua) @@ (tb :> ub)

ObjectSymmetry == Permutations(Clients) \cup Permutations(Sessions)
=============================================================================
