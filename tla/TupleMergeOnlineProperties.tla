--------------------- MODULE TupleMergeOnlineProperties ---------------------
(***************************************************************************)
(* What TupleMergeOnline keeps true, and what its deletions break.         *)
(***************************************************************************)
EXTENDS TupleMergeOnline

Listed == UNION {heap[t].stored : t \in Elems(tables)}

(* assignments leads from every rule present to the one table that stores  *)
(* it, through all splits and also when the table is not searched any      *)
(* more: DeleteRule never follows a dangling or outdated pointer.          *)
AssignedToItsTable ==
  /\ DOMAIN assignments = Priorities(Elems(rules))
  /\ \A r \in Elems(rules) :
       /\ assignments[Priority[r]] \in DOMAIN heap
       /\ {t \in DOMAIN heap : r \in heap[t].stored} = {assignments[Priority[r]]}

(* A rule that was moved by a split, too, is stored only where its own     *)
(* prefixes are as long as the table's: else its packets hash elsewhere.   *)
FitsItsTable ==
  \A t \in DOMAIN heap : \A r \in heap[t].stored : CanInsert(heap[t], PreferedTuple(r))

(* Tables are searched from the best priority downward, although the flag  *)
(* that asks for the sort may be read uninitialized.                       *)
SortedByPriority ==
  \A i, j \in DOMAIN tables : i < j => heap[tables[i]].maxPriority >= heap[tables[j]].maxPriority

(* Skipping tables by their maxPriority loses nothing: a packet is         *)
(* answered as the best rule of the listed tables demands.                 *)
ExactOnListed ==
  \A p \in Packets : ClassifyAPacket(p) = Best(Matching(Listed, p))

(* Only the deletion of the last rule of a table takes rules that stay     *)
(* present out of the search; no insertion, split or other deletion does.  *)
OnlyEmptiedTablesDrop ==
  [][ (Elems(rules') \cap Listed) \ Listed' # {}
        => \E t \in DOMAIN heap : heap[t].stored # {} /\ heap[t].stored \cap Elems(rules') = {} ]_vars

(* The comment of run_task_sequnce: "at all time, DS.rules =               *)
(* rules_in_use.rules" - what is searched is what is present.              *)
SearchesRulesInUse == Listed = Elems(rules)
=============================================================================
