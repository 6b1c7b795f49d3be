------------------------------- MODULE MCTrees -------------------------------
(***************************************************************************)
(* Fifteen rules over fields of four bits; a nybble is one bit.  The       *)
(* first ten share an address: rule 1 is too wide for the cut by PR that   *)
(* divides them, and rule 10 for the cut by DA below it, so that ByteCuts  *)
(* has a second tree for them.  Rules 11 to 13 have another address, rules *)
(* 14 and 15 none: they go to a tree of BuildSecondaryRoot.                *)
(***************************************************************************)
EXTENDS TreesProperties

MCFields == {"SA", "DA", "SP", "PR"}
MCOrder == <<"SA", "DA", "SP", "PR">>
MCAddressDims   == <<"SA", "DA">>
MCAllowableDims == <<"SA", "DA", "PR">>
MCSplitDims     == <<"SP">>
MCTop == [f \in MCFields |-> 15]

Row(a, b, c, d) == [SA |-> a, DA |-> b, SP |-> c, PR |-> d]
Wild == <<0, 15>>
At(v) == <<v, v>>

Table == <<
  Row(At(0), Wild,     Wild,     Wild ),
  Row(At(0), Wild,     Wild,     At(1)),
  Row(At(0), Wild,     <<0, 7>>, At(2)),
  Row(At(0), Wild,     Wild,     At(3)),
  Row(At(0), Wild,     <<6, 9>>, At(3)),
  Row(At(0), At(0),    Wild,     At(0)),
  Row(At(0), At(1),    Wild,     At(0)),
  Row(At(0), At(2),    <<8, 15>>, At(0)),
  Row(At(0), At(3),    Wild,     At(0)),
  Row(At(0), Wild,     Wild,     At(0)),
  Row(At(1), Wild,     <<0, 7>>, Wild ),
  Row(At(1), Wild,     <<8, 15>>, Wild ),
  Row(At(1), <<0, 7>>, Wild,     At(1)),
  Row(Wild,  Wild,     Wild,     At(2)),
  Row(Wild,  Wild,     <<0, 7>>, Wild ) >>

MCRules == DOMAIN Table
MCLow   == [r \in MCRules |-> [f \in MCFields |-> Table[r][f][1]]]
MCHigh  == [r \in MCRules |-> [f \in MCFields |-> Table[r][f][2]]]
MCPrefixLength ==
  [r \in MCRules |-> [f \in MCFields |->
     CASE MCLow[r][f] = MCHigh[r][f] -> 4
       [] Table[r][f] \in {<<0, 7>>, <<8, 15>>} -> 1
       [] OTHER -> 0]]
MCPriority == [r \in MCRules |-> r]

MCValue == << Row(0, 4, 0, 0), Row(0, 0, 0, 0), Row(0, 2, 8, 3), Row(0, 0, 6, 3),
              Row(1, 7, 7, 1), Row(1, 8, 8, 0), Row(0, 2, 9, 0), Row(0, 5, 7, 2),
              Row(1, 15, 12, 15), Row(1, 7, 12, 1), Row(1, 0, 0, 15), Row(0, 1, 0, 0),
              Row(0, 2, 12, 3), Row(0, 9, 12, 5), Row(1, 8, 0, 1) >>

MCMatch ==
  {<<r, p>> \in MCRules \X DOMAIN MCValue :
     \A f \in MCFields : MCLow[r][f] <= MCValue[p][f] /\ MCValue[p][f] <= MCHigh[r][f]}

MCMasked(v, n) == IF n >= 4 THEN v ELSE v - (v % (2 ^ (4 - n)))

(* No tree hashes. *)
MCHash(key) == 0

MCUpdated == {11, 12, 13}

(* Three nodes, with a tree of two below one or with an overlap *)
MCTogether == {{2, 4, 13, 14}, {2, 4, 14, 15}}
=============================================================================
