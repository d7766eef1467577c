------------------------------ MODULE IrcNames ------------------------------
(***************************************************************************)
(* The IRC names that idmap hands out, and the pure functions that build   *)
(* them (idmap.go:173-239).                                                *)
(*                                                                         *)
(* A name is a pair <<base, tag>>: the base is the text before the first   *)
(* '#', the tag the sequence of characters after it.  A name without a '#' *)
(* has the empty tag, so <<"bob", <<>>>> is "bob" and                      *)
(* <<"bob", <<"4", "2">>>> is "bob#42".  The empty string is EmptyName.    *)
(***************************************************************************)
EXTENDS Integers, Sequences

CONSTANTS
    Ids,        \* the valid Discord snowflakes of the instance
    Digits,     \* Digits[id]: the decimal digits of id, most significant first
    Bases,      \* strings without a '#', the empty string among them
    Ideals,     \* the names callers ask for; they may hold a '#'
    Sanitize,   \* Sanitize[ideal]: the ideal without its '#' characters
    MaxMangles  \* bound: how often one call of the mangle loop may go around

Pad == "#"

EmptyName == <<"", <<>>>>

ASSUME StringsAssumption ==
    /\ "" \in Bases
    /\ \A id \in Ids : Digits[id] \in Seq(STRING) /\ Len(Digits[id]) > 0

ASSUME NamesAssumption ==
    /\ Sanitize \in [Ideals -> Bases]
    /\ MaxMangles \in Nat

(***************************************************************************)
(* The first n characters of id's digits, padded with '#' when the digits  *)
(* run out.                                                                *)
(***************************************************************************)
TagUnpadded(id, n) == SubSeq(Digits[id], 1, IF n <= Len(Digits[id]) THEN n ELSE Len(Digits[id]))

Tag(id, n) == [j \in 1..n |-> IF j <= Len(Digits[id]) THEN Digits[id][j] ELSE Pad]

(***************************************************************************)
(* mangle makes the tag one character longer; a name without a '#' gets    *)
(* one with the first digit of the id.                                     *)
(***************************************************************************)
Mangle(name, id) == <<name[1], Tag(id, Len(name[2]) + 1)>>

(***************************************************************************)
(* The name after k rounds of mangle on a sanitized ideal; IDMapProofs     *)
(* shows that Mangle takes Candidate(b, id, k) to Candidate(b, id, k + 1). *)
(***************************************************************************)
Candidate(base, id, k) == <<base, Tag(id, k)>>

(***************************************************************************)
(* What Insert compares with the ideal: SplitN(name, "#", 2)[0].           *)
(***************************************************************************)
BaseOf(name) == name[1]

Names == {Candidate(b, id, k) : b \in Bases, id \in Ids, k \in 0..MaxMangles}
            \cup {EmptyName}
=============================================================================
