----------------------------- MODULE MCNamesMap -----------------------------
(***************************************************************************)
(* A small instance of NamesMap: the users, and the nicks of one guild.    *)
(* The ids share their first digit, and one of the names callers ask for   *)
(* is the one that mangle makes of another.                                *)
(***************************************************************************)
EXTENDS NamesMap

MCIds == {1, 10}
MCDigits == [id \in MCIds |-> IF id = 1 THEN <<"1">> ELSE <<"1", "0">>]
MCBases == {"", "a"}
MCSanitize == [base \in MCBases |-> base]
MCAsked == {EmptyName, <<"a", <<>>>>, <<"a", <<"1">>>>}
=============================================================================
