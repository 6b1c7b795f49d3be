-------------------------- MODULE TupleSpaceSearch --------------------------
(***************************************************************************)
(* TupleSpaceSearch (src/src/OVS/TupleSpaceSearch.cpp): one table per      *)
(* tuple of prefix lengths, all of them searched for every packet.         *)
(***************************************************************************)
EXTENDS PrefixTuples

VARIABLES
  rules,
  all_tuples        \* from the tuples in use to the rules stored in them

vars == <<rules, all_tuples>>

Init == rules = <<>> /\ all_tuples = <<>>

InsertRule(r) ==
  LET k    == KeyRulePrefix(r)
      kept == IF k \in DOMAIN all_tuples THEN all_tuples[k] ELSE {}
  IN  /\ r \notin Elems(rules)
      /\ all_tuples' = [j \in DOMAIN all_tuples \cup {k} |->
                         IF j = k THEN kept \cup {r} ELSE all_tuples[j]]
      /\ rules' = Append(rules, r)

(* Mutant: an emptied tuple is not erased. *)
DeleteRule_Kept(i) ==
  LET k    == KeyRulePrefix(rules[i])
      left == Without(k, all_tuples[k], rules[i])
  IN  /\ all_tuples' = [j \in DOMAIN all_tuples |->
                         IF j = k THEN left ELSE all_tuples[j]]
      /\ rules' = SwapRemove(rules, i)

(* A tuple that lost its last rule is destroyed and erased *)
DeleteRule(i) ==
  LET k    == KeyRulePrefix(rules[i])
      left == Without(k, all_tuples[k], rules[i])
  IN  /\ all_tuples' = [j \in IF left = {} THEN DOMAIN all_tuples \ {k} ELSE DOMAIN all_tuples |->
                         IF j = k THEN left ELSE all_tuples[j]]
      /\ rules' = SwapRemove(rules, i)

(* Mutant: the search ends at the first tuple with a hit. *)
ClassifyAPacket_FirstTuple(p) ==
  LET hit == {k \in DOMAIN all_tuples : Hits(k, all_tuples[k], p) # {}}
      k   == CHOOSE j \in hit : TRUE
  IN  IF hit = {} THEN -1 ELSE Best(Hits(k, all_tuples[k], p))

ClassifyAPacket(p) ==
  Best(UNION {Hits(k, all_tuples[k], p) : k \in DOMAIN all_tuples})

Next ==
  \/ \E r \in Rules : InsertRule(r)
  \/ \E i \in DOMAIN rules : DeleteRule(i)

Spec == Init /\ [][Next]_vars

-----------------------------------------------------------------------------
(* The type invariant. *)
TypeOK ==
  /\ rules \in Seq(Rules)
  /\ DOMAIN all_tuples \subseteq [Dims -> 0..32]
  /\ \A k \in DOMAIN all_tuples : all_tuples[k] \in SUBSET Rules

(* Hashing, the split into tuples, and the erasing of emptied tuples lose  *)
(* no rule and keep none: every packet is answered as the best rule        *)
(* present demands, after any sequence of insertions and deletions.        *)
Ideal == INSTANCE Classifier WITH answer <- [p \in Packets |-> ClassifyAPacket(p)]
ClassifierSpec == Ideal!Spec
=============================================================================
