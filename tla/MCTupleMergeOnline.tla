------------------------- MODULE MCTupleMergeOnline -------------------------
(***************************************************************************)
(* Five rules over addresses 10.x.x.x and 20.x.x.x and a destination port. *)
(* All but rule 4 fit a table {SA: 8} and collide there, so that it is     *)
(* split by SA, by DA or by DP; rule 4, the default, opens a table that    *)
(* takes any rule.  The priorities let a later insertion raise a table     *)
(* over one that stood before it.                                          *)
(***************************************************************************)
EXTENDS TupleMergeOffline
LOCAL INSTANCE Functions

Row(a, b, c, d, e) == [SA |-> a, DA |-> b, SP |-> c, DP |-> d, Proto |-> e]

Net10 == 10 * 16777216
Net20 == 20 * 16777216

AllLow ==
  << Row(Net10, 0, 0, 0, 0), Row(Net10 + 65536, 0, 0, 0, 0), Row(Net10, Net20, 0, 0, 0),
     Row(0, 0, 0, 0, 0), Row(Net10 + 65537, 0, 0, 80, 0) >>

AllPrefixLength ==
  << Row(8, 0, 16, 16, 24), Row(16, 0, 16, 16, 24), Row(8, 8, 16, 16, 24),
     Row(0, 0, 16, 16, 24), Row(32, 0, 16, 32, 24) >>

MCLow          == [r \in Rules |-> AllLow[r]]
MCPrefixLength == [r \in Rules |-> AllPrefixLength[r]]
MCPriority     == [r \in Rules |-> <<1, 4, 3, 2, 5>>[r]]

MCValue ==
  [a |-> Row(Net10 + 5, Net20 + 1, 7, 80, 6), b |-> Row(Net10 + 65537, Net20, 7, 80, 6),
   c |-> Row(Net10 + 65538, 5, 7, 81, 17),    d |-> Row(Net20, Net20, 7, 80, 6)]

(* Mask(n); addresses below 2^31 have no first bit to keep *)
MCMasked(v, n) == IF n < 2 THEN 0 ELSE v - (v % (2 ^ (32 - n)))

MCMatch ==
  {<<r, p>> \in Rules \X DOMAIN MCValue :
     \A f \in Fields : MCMasked(MCLow[r][f], MCPrefixLength[r][f])
                         = MCMasked(MCValue[p][f], MCPrefixLength[r][f])}

(* A hash that different keys may share *)
MCHash(key) == FoldFunction(LAMBDA x, y : (x + y) % 65521, 0, key)
=============================================================================
