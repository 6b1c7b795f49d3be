------------------------------- MODULE MCRules -------------------------------
(***************************************************************************)
(* A small filter set.  A value stands for the two highest bits of a field *)
(* of 32 bits, so that masking with n bits clears the lower 2 - n of them. *)
(* Rules 1 to 3 are in one tuple and rules 1 and 3 in one chain; rules 2   *)
(* and 4 would collide if they were in one table, 5 matches everything.    *)
(***************************************************************************)
EXTENDS Integers, Sequences
LOCAL INSTANCE Functions

MCFields == {"SA", "DA", "SP"}

Row(a, b, c) == [SA |-> a, DA |-> b, SP |-> c]

MCLow  == << Row(0, 0, 0), Row(2, 0, 0), Row(0, 0, 2), Row(0, 2, 0), Row(0, 0, 0) >>
MCHigh == << Row(1, 3, 3), Row(3, 3, 3), Row(1, 3, 3), Row(3, 3, 3), Row(3, 3, 3) >>
MCPrefixLength ==
  << Row(1, 0, 0), Row(1, 0, 0), Row(1, 0, 1), Row(0, 1, 0), Row(0, 0, 0) >>

MCValue == [a |-> Row(0, 1, 0), b |-> Row(0, 2, 3), c |-> Row(3, 0, 1), d |-> Row(2, 3, 2)]

MCMatch ==
  {<<r, p>> \in (1..5) \X DOMAIN MCValue :
     \A f \in MCFields : MCLow[r][f] <= MCValue[p][f] /\ MCValue[p][f] <= MCHigh[r][f]}

MCPriority == <<1, 5, 4, 3, 2>>

MCMasked(v, n) == IF n >= 2 THEN v ELSE v - (v % (2 ^ (2 - n)))

(* A hash that different keys may share *)
MCHash(key) == FoldFunction(LAMBDA x, y : x + y, 0, key)
=============================================================================
