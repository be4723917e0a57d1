------------------------------- MODULE Names -------------------------------
(***************************************************************************)
(* The names that an IdentityMaster issues, "<key><number>", and the texts *)
(* its callers hand to AddIdentity and ReleaseIdentity.                    *)
(*                                                                         *)
(* A text is reduced to what identity_master.cpp tells apart:              *)
(*   keyed   the text starts with the master's key (memcmp)                *)
(*   num     the number strtoul reads behind the key                       *)
(*   plain   printing num gives back a text of the same length, so that    *)
(*           "7x" or "07" (num 7, not plain) is no name                    *)
(***************************************************************************)
EXTENDS Integers

CONSTANT MaxIndex   \* bound: numbers above it are neither issued nor reported

ASSUME MaxIndexAssumption == MaxIndex \in Nat \ {0}

Num  == 1..MaxIndex
Text == [keyed : BOOLEAN, plain : BOOLEAN, num : 0..MaxIndex]

IsName(s) == s.keyed /\ s.plain /\ s.num > 0

\* What a call answers: its bool result and, for GetIdentity, the number.
Reply   == [ok : BOOLEAN, num : 0..MaxIndex]
Done    == [ok |-> TRUE, num |-> 0]
Refused == [ok |-> FALSE, num |-> 0]

\* n is the first number from "from" on that is not in S.
FirstOutside(n, from, S) == n >= from /\ n \notin S /\ from..(n - 1) \subseteq S
=============================================================================
