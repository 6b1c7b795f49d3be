------------------------- MODULE TupleMergeOffline -------------------------
(***************************************************************************)
(* TupleMergeOffline (src/src/TupleMerge/TupleMergeOffline.cpp): a         *)
(* TupleMergeOnline that is constructed from a whole list of rules, table  *)
(* by table, and then takes the same updates.                              *)
(***************************************************************************)
EXTENDS TupleMergeOnlineProperties

(* With a limit of 0 a table takes no rule and the construction never ends *)
ASSUME OfflineAssumption == CollideLimit > 0

Compatible(lengths, r) == \A f \in DOMAIN lengths : lengths[f] <= PreferedTuple(r)[f]

(* What is taken when r is offered too: a rule whose prefixes are as long  *)
(* as the lengths, and not more than CollideLimit with the same hash.      *)
(* Mutant: one more. *)
Offered_OneMore(taken, lengths, r) ==
  IF /\ Compatible(lengths, r)
     /\ Cardinality(Chain(lengths, taken, HashRule(lengths, r))) <= CollideLimit
  THEN taken \cup {r} ELSE taken

Offered(taken, lengths, r) ==
  IF /\ Compatible(lengths, r)
     /\ Cardinality(Chain(lengths, taken, HashRule(lengths, r))) < CollideLimit
  THEN taken \cup {r} ELSE taken

(* The rules of rl that are taken, offered in this order *)
Takes(rl, lengths) ==
  LET taken[k \in 0..Len(rl)] == IF k = 0 THEN {} ELSE Offered(taken[k - 1], lengths, rl[k])
  IN  taken[Len(rl)]

(* How many rules come before the first that is left out *)
FirstOut(rl, taken) ==
  Lowest({i \in 0..Len(rl) : i = Len(rl) \/ rl[i + 1] \notin taken})

(* The tuples looked at: of growing prefixes of rl, the lengths all rules  *)
(* of the prefix have.                                                     *)
Common(rl, k) == [f \in Fields |-> Lowest({PreferedTuple(rl[i])[f] : i \in 1..k})]

(* The loop over the tuples keeps the best so far, and ends at one whose   *)
(* first rule left out comes before that of the best.                      *)
Compare(best, tuple, index, size) ==
  CASE index < best.index -> [best EXCEPT !.ended = TRUE]
    [] index > best.index \/ (index = best.index /\ size > best.size) ->
         [current |-> tuple, tuple |-> tuple, index |-> index, size |-> size, ended |-> FALSE]
    [] index = best.index /\ size <= best.size -> [best EXCEPT !.current = tuple]

Consider(rl, best, tuple, taken) ==
  IF best.ended \/ tuple = best.current THEN best
  ELSE Compare(best, tuple, FirstOut(rl, taken), Cardinality(taken))

NoTuple == [current |-> <<>>, tuple |-> <<>>, index |-> 0, size |-> 0, ended |-> FALSE]

BestTuple(rl) ==
  LET best[k \in 0..Len(rl)] ==
        IF k = 0 THEN NoTuple ELSE Consider(rl, best[k - 1], Common(rl, k), Takes(rl, Common(rl, k)))
  IN  best[Len(rl)].tuple

(* SelectTable: the table that is made, and the rules that remain.  They   *)
(* stay in the order of falling priority, so that it is enough to know     *)
(* which they are.                                                         *)
ByFallingPriority(S) ==
  [i \in 1..Cardinality(S) |->
     CHOOSE r \in S : Cardinality({s \in S : Priority[s] > Priority[r]}) = i - 1]

WithTable(c, t, tuple, taken) ==
  [remain |-> c.remain \ taken,
   heap   |-> Allocated(c.heap, t, TableInsertion(NewTable(tuple), taken)),
   tables |-> Append(c.tables, t),
   assignments |-> [n \in DOMAIN c.assignments \cup Priorities(taken) |->
                      IF n \in Priorities(taken) THEN t ELSE c.assignments[n]]]

SelectTable(c, rl) ==
  LET tuple == BestTuple(rl)
  IN  WithTable(c, Fresh(c.heap), tuple, Takes(rl, Lengthify(tuple)))

(* _ConstructClassifier: a table takes at least the first rule of those    *)
(* that remain, so that there are not more rounds than rules.              *)
NextRound(c) == IF c.remain = {} THEN c ELSE SelectTable(c, ByFallingPriority(c.remain))

Selected(S) ==
  LET c[k \in 0..Cardinality(S)] ==
        IF k = 0 THEN [remain |-> S, heap |-> <<>>, tables |-> <<>>, assignments |-> <<>>]
        ELSE NextRound(c[k - 1])
  IN  c[Cardinality(S)]

Constructed(rl, c) ==
  /\ Init
  /\ rules' = rl
  /\ heap' = c.heap
  /\ assignments' = c.assignments
  /\ tables' \in Resort(c.tables, c.heap)

ConstructOffline(rl) == Constructed(rl, Selected(Elems(rl)))

(* Lists of different rules *)
Lists == UNION {{rl \in [1..n -> Rules] : NoDuplicates(rl)} : n \in 1..Cardinality(Rules)}

OfflineNext == Next \/ \E rl \in Lists : ConstructOffline(rl)

OfflineSpec == Init /\ [][OfflineNext]_vars

-----------------------------------------------------------------------------
(* The construction of an empty classifier makes every rule of the list    *)
(* searched, and no packet is compared with more than CollideLimit rules   *)
(* of a table: counting collisions under the hash of all fields, to choose *)
(* a tuple, and under that of the table's own, to fill it, comes to the    *)
(* same.                                                                   *)
ConstructionBounded ==
  [][ Init =>
        /\ Listed' = Elems(rules')
        /\ \A t \in DOMAIN heap' : \A r \in heap'[t].stored :
             Cardinality(Collisions(heap'[t], r)) <= CollideLimit ]_vars
=============================================================================
