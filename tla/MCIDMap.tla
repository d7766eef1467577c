------------------------------- MODULE MCIDMap ------------------------------
(***************************************************************************)
(* Small instances of IDMap.  The snowflakes 1 and 10 share their first    *)
(* digit and 1 runs out of digits after one, so that mangled names collide *)
(* and are padded; the ideal "a#" is one that sanitize changes.            *)
(***************************************************************************)
EXTENDS IDMap, TLC

MCIds == {1, 10, 2}
MCTwoIds == {1, 10}
MCDigits == [id \in MCIds |-> CASE id = 1 -> <<"1">>
                                [] id = 10 -> <<"1", "0">>
                                [] id = 2 -> <<"2">>]
MCBases == {"", "a"}
MCIdeals == {"", "a", "a#"}
MCCleanBases == {"", "a", "b"}
MCCleanIdeals == {"a", "b"}
MCSanitize == [ideal \in MCIdeals |-> IF ideal = "a#" THEN "a" ELSE ideal]
MCCleanSanitize == [ideal \in MCCleanIdeals |-> ideal]
MCSymmetry == Permutations(Threads)

(***************************************************************************)
(* Once an Insert has overlapped with a call on its id only the calls that *)
(* are under way go on: the stale names that further ones leave behind     *)
(* have no bound.                                                          *)
(***************************************************************************)
AfterOverlap == overlapped => \A t \in Threads : op[t] = Idle => op'[t] = Idle
=============================================================================
