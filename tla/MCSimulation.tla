---------------------------- MODULE MCSimulation ----------------------------
(***************************************************************************)
(* Two classifiers, the first three rules of MCRules in any order, two     *)
(* packets, and two insertions, two deletions and a lookup in any order.   *)
(***************************************************************************)
EXTENDS Simulation, MCRules

MCPriority3     == SubSeq(MCPriority, 1, 3)
MCPrefixLength3 == SubSeq(MCPrefixLength, 1, 3)
MCMatch3        == {m \in MCMatch : m[1] <= 3}
MCTrace         == <<"a", "d">>
=============================================================================
