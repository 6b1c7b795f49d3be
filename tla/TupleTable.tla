----------------------------- MODULE TupleTable -----------------------------
(***************************************************************************)
(* TupleTable and PriorityTuple (src/src/OVS/TupleSpaceSearch.cpp): the    *)
(* rules of one tuple, in a cmap under the hash of their masked fields.    *)
(*                                                                         *)
(* The cmap is the HashMultimap it implements (module Cmap).  Priorities   *)
(* are unique, so that the order of a chain does not matter to who walks   *)
(* it to the end or to a priority: a chain is the set of its rules.        *)
(* A tuple k is a function from fields to the number of bits it keeps.     *)
(***************************************************************************)
EXTENDS RuleSet

HashRule(k, r)   == Hash([d \in DOMAIN k |-> Masked(Low[r][d], k[d])])
HashPacket(k, p) == Hash([d \in DOMAIN k |-> Masked(Value[p][d], k[d])])

(* cmap_find: the rules stored under hash h *)
Chain(k, stored, h) == {r \in stored : HashRule(k, r) = h}

(* The priorities ClassifyAPacket takes the maximum of *)
Hits(k, stored, p) == Matching(Chain(k, stored, HashPacket(k, p)), p)

(* Mutant: the whole chain goes. *)
Without_Chain(k, stored, r) ==
  stored \ Chain(k, stored, HashRule(k, r))

(* Deletion: the rule of that priority on the chain *)
Without(k, stored, r) ==
  stored \ {s \in Chain(k, stored, HashRule(k, r)) : Priority[s] = Priority[r]}

-----------------------------------------------------------------------------
(* PriorityTuple also keeps the multiset of its priorities and the largest *)

NewPriorityTuple(r) ==
  [stored |-> {r}, priorities |-> {Priority[r]}, maxPriority |-> Priority[r]]

Insertion(t, r) ==
  [stored      |-> t.stored \cup {r},
   priorities  |-> t.priorities \cup {Priority[r]},
   maxPriority |-> IF Priority[r] > t.maxPriority THEN Priority[r] ELSE t.maxPriority]

(* Mutant: the maximum is only computed anew when nothing is left. *)
Deletion_KeepsMax(k, t, r) ==
  LET left == t.priorities \ {Priority[r]}
  IN  [stored      |-> Without(k, t.stored, r),
       priorities  |-> left,
       maxPriority |-> IF left = {}
                       THEN Best(left) ELSE t.maxPriority]

Deletion(k, t, r) ==
  LET left == t.priorities \ {Priority[r]}
  IN  [stored      |-> Without(k, t.stored, r),
       priorities  |-> left,
       maxPriority |-> IF left = {} \/ Priority[r] = t.maxPriority
                       THEN Best(left) ELSE t.maxPriority]
=============================================================================
