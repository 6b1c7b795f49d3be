---------------------- MODULE PriorityTupleSpaceSearch ----------------------
(***************************************************************************)
(* PriorityTupleSpaceSearch (src/src/OVS/TupleSpaceSearch.cpp): the        *)
(* tuples stand in a vector ordered by the best priority each of them has, *)
(* and a search ends at the first tuple that cannot beat what was found.   *)
(* Vector and map hold pointers to the same tuples; a tuple is named by    *)
(* its key here.                                                           *)
(***************************************************************************)
EXTENDS PrefixTuples

VARIABLES
  rules,
  tuples,     \* all_priority_tuples: from the keys in use to the tuples
  vector      \* priority_tuples_vector

vars == <<rules, tuples, vector>>

Init == rules = <<>> /\ tuples = <<>> /\ vector = <<>>

-----------------------------------------------------------------------------
(* RetainInvaraintOfPriorityVector *)

Sorted(v, t) ==
  \A i, j \in DOMAIN v : i < j => t[v[i]].maxPriority >= t[v[j]].maxPriority

Resorted(v, t) ==
  {q \in [DOMAIN v -> Elems(v)] :
     /\ \A i, j \in DOMAIN q : q[i] = q[j] => i = j
     /\ Elems(q) = Elems(v)
     /\ Sorted(q, t)}

PopBack(v) == [i \in 1..(Len(v) - 1) |-> v[i]]

-----------------------------------------------------------------------------
(* Mutant: the vector is not sorted again. *)
InsertIntoTuple_Unsorted(r) ==
  LET k == KeyRulePrefix(r)
      t == [tuples EXCEPT ![k] = Insertion(@, r)]
  IN  /\ k \in DOMAIN tuples
      /\ tuples' = t
      /\ IF Priority[r] > tuples[k].maxPriority
         THEN UNCHANGED vector
         ELSE UNCHANGED vector

InsertIntoTuple(r) ==
  LET k == KeyRulePrefix(r)
      t == [tuples EXCEPT ![k] = Insertion(@, r)]
  IN  /\ k \in DOMAIN tuples
      /\ tuples' = t
      /\ IF Priority[r] > tuples[k].maxPriority
         THEN vector' \in Resorted(vector, t)
         ELSE UNCHANGED vector

InsertNewTuple(r) ==
  LET k == KeyRulePrefix(r)
      t == [j \in DOMAIN tuples \cup {k} |-> IF j = k THEN NewPriorityTuple(r) ELSE tuples[j]]
  IN  /\ k \notin DOMAIN tuples
      /\ tuples' = t
      /\ vector' \in Resorted(Append(vector, k), t)

InsertRule(r) ==
  /\ r \notin Elems(rules)
  /\ InsertIntoTuple(r) \/ InsertNewTuple(r)
  /\ rules' = Append(rules, r)

(* Mutant: the last tuple is popped before the sort. *)
DeleteFromTuple_Unsorted(r) ==
  LET k == KeyRulePrefix(r)
      t == [tuples EXCEPT ![k] = Deletion(k, @, r)]
      changed == t[k].priorities = {} \/ Priority[r] = tuples[k].maxPriority
  IN  \/ /\ t[k].stored = {}
         /\ tuples' = [j \in DOMAIN tuples \ {k} |-> tuples[j]]
         /\ vector' = PopBack(vector)
      \/ /\ t[k].stored # {}
         /\ tuples' = t
         /\ IF changed THEN vector' \in Resorted(vector, t) ELSE UNCHANGED vector

(* The emptied tuple is sorted to the end of the vector and popped: what   *)
(* is popped is whatever the sort has put last.                            *)
DeleteFromTuple(r) ==
  LET k == KeyRulePrefix(r)
      t == [tuples EXCEPT ![k] = Deletion(k, @, r)]
      changed == t[k].priorities = {} \/ Priority[r] = tuples[k].maxPriority
  IN  \/ /\ t[k].stored = {}
         /\ tuples' = [j \in DOMAIN tuples \ {k} |-> tuples[j]]
         /\ \E q \in Resorted(vector, t) : vector' = PopBack(q)
      \/ /\ t[k].stored # {}
         /\ tuples' = t
         /\ IF changed THEN vector' \in Resorted(vector, t) ELSE UNCHANGED vector

DeleteRule(i) ==
  /\ DeleteFromTuple(rules[i])
  /\ rules' = SwapRemove(rules, i)

Next ==
  \/ \E r \in Rules : InsertRule(r)
  \/ \E i \in DOMAIN rules : DeleteRule(i)

Spec == Init /\ [][Next]_vars

-----------------------------------------------------------------------------
(* ClassifyAPacket.  The loop breaks at the first tuple whose best         *)
(* priority is below what an earlier tuple has answered.                   *)

HitsAt(p, i) == Hits(vector[i], tuples[vector[i]].stored, p)

(* Mutant: the search ends at the first hit. *)
Beaten_ByAny(p, j) ==
  \E i \in DOMAIN vector : i < j /\ \E n \in HitsAt(p, i) : n > -1

Beaten(p, j) ==
  \E i \in DOMAIN vector : i < j /\ \E n \in HitsAt(p, i) : n > tuples[vector[j]].maxPriority

Visited(p) == {j \in DOMAIN vector : \A m \in DOMAIN vector : m <= j => ~ Beaten(p, m)}

ClassifyAPacket(p) == Best(UNION {HitsAt(p, j) : j \in Visited(p)})

-----------------------------------------------------------------------------
(* What the search rests on, and what it gives                             *)

PriorityTuple == [stored : SUBSET Rules, priorities : SUBSET (0..MaxPriority),
                  maxPriority : -1..MaxPriority]

(* The type invariant. *)
TypeOK ==
  /\ rules \in Seq(Rules)
  /\ DOMAIN tuples \subseteq [Dims -> 0..32]
  /\ \A k \in DOMAIN tuples : tuples[k] \in PriorityTuple
  /\ vector \in Seq([Dims -> 0..32])

(* The vector has exactly the tuples of the map, each once: popping the    *)
(* last one after the sort removed the emptied tuple and no other.         *)
VectorIsMap == NoDuplicates(vector) /\ Elems(vector) = DOMAIN tuples

(* Together the tuples store the rules present, each where its key says,   *)
(* and none is empty.                                                      *)
StoredByKey ==
  /\ NoDuplicates(rules)
  /\ DOMAIN tuples = {KeyRulePrefix(r) : r \in Elems(rules)}
  /\ \A k \in DOMAIN tuples :
       tuples[k].stored = {r \in Elems(rules) : KeyRulePrefix(r) = k}

(* The three accounts a tuple keeps of its rules agree: the chains, the    *)
(* multiset of priorities and the maximum.                                 *)
MaxIsBest ==
  \A k \in DOMAIN tuples :
    /\ tuples[k].priorities = {Priority[r] : r \in tuples[k].stored}
    /\ tuples[k].maxPriority \in tuples[k].priorities
    /\ \A n \in tuples[k].priorities : n <= tuples[k].maxPriority

(* No change of a maximum goes without the sort. *)
VectorSorted == Sorted(vector, tuples)

(* Without the order of the tuples and their maxima it is TupleSpaceSearch *)
(* that runs: the two keep the same rules in the same tuples.              *)
Plain == INSTANCE TupleSpaceSearch WITH
  all_tuples <- [k \in DOMAIN tuples |-> tuples[k].stored]
PlainSpec == Plain!Spec

(* The search of TupleSpaceSearch, through all of its tuples, answers      *)
(* every packet as the best rule present demands.                          *)
PlainClassifierSpec == Plain!ClassifierSpec

(* The search that stops early answers every packet as the best rule       *)
(* present demands.                                                        *)
Ideal == INSTANCE Classifier WITH answer <- [p \in Packets |-> ClassifyAPacket(p)]
ClassifierSpec == Ideal!Spec
=============================================================================
