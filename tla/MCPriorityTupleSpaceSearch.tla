--------------------- MODULE MCPriorityTupleSpaceSearch ---------------------
(* The five rules of MCRules, inserted and deleted in every order *)
EXTENDS PriorityTupleSpaceSearch, MCRules
=============================================================================
