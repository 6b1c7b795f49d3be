-------------------------- MODULE TupleMergeOnline --------------------------
(***************************************************************************)
(* TupleMergeOnline (src/src/TupleMerge/TupleMergeOnline.cpp): a rule goes *)
(* into the first table that can take it; a table in which too many rules  *)
(* collide is split.  Tables are named by pointers, since assignments may  *)
(* point to a table that is not listed any more; a table that nothing      *)
(* points to is left out of the heap.                                      *)
(***************************************************************************)
EXTENDS SlottedTable, SequencesExt

CONSTANT CollideLimit       \* TM.Limit.Collide

ASSUME CollideAssumption == CollideLimit \in Nat

VARIABLES
  rules,
  heap,         \* heap[t]: the SlottedTable at t
  tables,       \* the tables that are searched
  assignments   \* from priorities to tables

vars == <<rules, heap, tables, assignments>>

PreferedTuple(r) == PrefixLength[r]

Lowest(N)  == CHOOSE n \in N : \A m \in N : n <= m
Highest(N) == CHOOSE n \in N : \A m \in N : m <= n
Fresh(h)   == Lowest((1..(Cardinality(DOMAIN h) + 1)) \ DOMAIN h)

(* new SlottedTable: x is what h[t] points to *)
Allocated(h, t, x) == [u \in DOMAIN h \cup {t} |-> IF u = t THEN x ELSE h[u]]

Assign(S, t) ==
  [n \in DOMAIN assignments \cup Priorities(S) |-> IF n \in Priorities(S) THEN t ELSE assignments[n]]

(* Resort: std::sort by falling MaxPriority *)
Resort(ts, h) ==
  {q \in [DOMAIN ts -> Elems(ts)] :
     /\ \A i, j \in DOMAIN q : i < j => /\ q[i] # q[j]
                                        /\ h[q[i]].maxPriority >= h[q[j]].maxPriority
     /\ Elems(q) = Elems(ts)}

ResortIf(changed, ts, h) == tables' \in IF changed THEN Resort(ts, h) ELSE {ts}

Init == rules = <<>> /\ heap = <<>> /\ tables = <<>> /\ assignments = <<>>

-----------------------------------------------------------------------------
(* InsertRule *)

RelaxLength(n) ==
  CASE n = 32 -> n - 4
    [] n > 24 /\ n < 32 -> n - 3
    [] n > 16 /\ n <= 24 -> n - 2
    [] n > 8 /\ n <= 16 -> n - 1
    [] OTHER -> n

Relax(tuple) ==
  LET delta == tuple[FieldSA] - tuple[FieldDA]
      t == CASE -delta > 4 -> [tuple EXCEPT ![FieldSA] = 0, ![FieldSP] = 16]
             [] delta > 4  -> [tuple EXCEPT ![FieldDA] = 0, ![FieldDP] = 16]
             [] OTHER      -> tuple
  IN  [t EXCEPT ![FieldSA] = RelaxLength(@), ![FieldDA] = RelaxLength(@)]

(* The tuple a full chain of rules is split by: the longest prefix all of  *)
(* them have, halfway to the longest that one has in the field where they  *)
(* differ most - the first of these fields.                                *)
FieldOrder == <<FieldSA, FieldDA, FieldSP, FieldDP, FieldProto>>

SplitTuple(S) ==
  LET compat == [f \in Fields |-> Lowest({PreferedTuple(r)[f] : r \in S})]
      super  == [f \in Fields |-> Highest({PreferedTuple(r)[f] : r \in S})]
      delta  == [f \in Fields |-> super[f] - compat[f]]
      best   == FieldOrder[Lowest({i \in 1..5 : \A f \in Fields : delta[f] <= delta[FieldOrder[i]]})]
  IN  [compat EXCEPT ![best] = (super[best] + compat[best]) \div 2]

(* FindOrMake: the listed table of that tuple, or a fresh one *)
FindOrMake(tuple, h) ==
  LET same == {i \in DOMAIN tables : IsThatTuple(h[tables[i]], tuple)}
  IN  IF same # {} THEN tables[Lowest(same)] ELSE Fresh(h)

(* Mutant: the tables are not sorted again. *)
InsertInto_Unsorted(r, t) ==
  LET h == [heap EXCEPT ![t] = TableInsertion(@, {r})]
  IN  /\ Cardinality(Collisions(h[t], r)) <= CollideLimit
      /\ heap' = h
      /\ assignments' = Assign({r}, t)
      /\ UNCHANGED tables

InsertInto(r, t) ==
  LET h == [heap EXCEPT ![t] = TableInsertion(@, {r})]
  IN  /\ Cardinality(Collisions(h[t], r)) <= CollideLimit
      /\ heap' = h
      /\ assignments' = Assign({r}, t)
      /\ ResortIf(InsertionChanges(heap[t], {r}), tables, h)

(* Mutant: the moved rules keep their assignments. *)
InsertAndSplit_Unassigned(r, t) ==
  LET h      == [heap EXCEPT ![t] = TableInsertion(@, {r})]
      tuple  == SplitTuple(Collisions(h[t], r))
      target == FindOrMake(tuple, h)
      made   == IF target \in DOMAIN h THEN h ELSE Allocated(h, target, NewTable(tuple))
      moved  == {s \in h[t].stored : CanInsert(made[target], PreferedTuple(s))}
      left   == [made EXCEPT ![t] = TableDeletion(@, moved)]
  IN  /\ Cardinality(Collisions(h[t], r)) > CollideLimit
      /\ heap' = [left EXCEPT ![target] = TableInsertion(@, moved)]
      /\ assignments' = Assign({r}, t)
      /\ ResortIf(\/ InsertionChanges(heap[t], {r})
                  \/ DeletionChanges(h[t], moved)
                  \/ InsertionChanges(left[target], moved),
                  IF target \in Elems(tables) THEN tables ELSE Append(tables, target), heap')

(* Mutant: all colliding rules are moved. *)
InsertAndSplit_Unfit(r, t) ==
  LET h      == [heap EXCEPT ![t] = TableInsertion(@, {r})]
      tuple  == SplitTuple(Collisions(h[t], r))
      target == FindOrMake(tuple, h)
      made   == IF target \in DOMAIN h THEN h ELSE Allocated(h, target, NewTable(tuple))
      moved  == Collisions(h[t], r)
      left   == [made EXCEPT ![t] = TableDeletion(@, moved)]
  IN  /\ Cardinality(Collisions(h[t], r)) > CollideLimit
      /\ heap' = [left EXCEPT ![target] = TableInsertion(@, moved)]
      /\ assignments' = [n \in DOMAIN Assign({r}, t) |->
                          IF n \in Priorities(moved) THEN target ELSE Assign({r}, t)[n]]
      /\ ResortIf(\/ InsertionChanges(heap[t], {r})
                  \/ DeletionChanges(h[t], moved)
                  \/ InsertionChanges(left[target], moved),
                  IF target \in Elems(tables) THEN tables ELSE Append(tables, target), heap')

(* Mutant: the new table is not pushed to the vector. *)
InsertAndSplit_Unlisted(r, t) ==
  LET h      == [heap EXCEPT ![t] = TableInsertion(@, {r})]
      tuple  == SplitTuple(Collisions(h[t], r))
      target == FindOrMake(tuple, h)
      made   == IF target \in DOMAIN h THEN h ELSE Allocated(h, target, NewTable(tuple))
      moved  == {s \in h[t].stored : CanInsert(made[target], PreferedTuple(s))}
      left   == [made EXCEPT ![t] = TableDeletion(@, moved)]
  IN  /\ Cardinality(Collisions(h[t], r)) > CollideLimit
      /\ heap' = [left EXCEPT ![target] = TableInsertion(@, moved)]
      /\ assignments' = [n \in DOMAIN Assign({r}, t) |->
                          IF n \in Priorities(moved) THEN target ELSE Assign({r}, t)[n]]
      /\ ResortIf(\/ InsertionChanges(heap[t], {r})
                  \/ DeletionChanges(h[t], moved)
                  \/ InsertionChanges(left[target], moved),
                  tables, heap')

InsertAndSplit(r, t) ==
  LET h      == [heap EXCEPT ![t] = TableInsertion(@, {r})]
      tuple  == SplitTuple(Collisions(h[t], r))
      target == FindOrMake(tuple, h)
      made   == IF target \in DOMAIN h THEN h ELSE Allocated(h, target, NewTable(tuple))
      moved  == {s \in h[t].stored : CanInsert(made[target], PreferedTuple(s))}
      left   == [made EXCEPT ![t] = TableDeletion(@, moved)]
  IN  /\ Cardinality(Collisions(h[t], r)) > CollideLimit
      /\ heap' = [left EXCEPT ![target] = TableInsertion(@, moved)]
      /\ assignments' = [n \in DOMAIN Assign({r}, t) |->
                          IF n \in Priorities(moved) THEN target ELSE Assign({r}, t)[n]]
      /\ ResortIf(\/ InsertionChanges(heap[t], {r})
                  \/ DeletionChanges(h[t], moved)
                  \/ InsertionChanges(left[target], moved),
                  IF target \in Elems(tables) THEN tables ELSE Append(tables, target), heap')

InsertNew(r) ==
  LET t == Fresh(heap)
      h == Allocated(heap, t, TableInsertion(NewTable(Relax(PreferedTuple(r))), {r}))
  IN  /\ heap' = h
      /\ assignments' = Assign({r}, t)
      /\ ResortIf(TRUE, Append(tables, t), h)

InsertRule(r) ==
  LET fit == {i \in DOMAIN tables : CanInsert(heap[tables[i]], PreferedTuple(r))}
  IN  /\ r \notin Elems(rules)
      /\ \/ fit # {} /\ InsertInto(r, tables[Lowest(fit)])
         \/ fit # {} /\ InsertAndSplit(r, tables[Lowest(fit)])
         \/ fit = {} /\ InsertNew(r)
      /\ rules' = Append(rules, r)

-----------------------------------------------------------------------------
(* DeleteRule.  An emptied table is erased together with every table       *)
(* behind it in the vector, and deleted.  hasChanged is not initialized:   *)
(* when Deletion leaves it alone, either branch may be taken.              *)

Before(t) ==
  LET at == {i \in DOMAIN tables : tables[i] = t}
  IN  IF at = {} THEN tables ELSE SubSeq(tables, 1, Lowest(at) - 1)

DeleteRule(i) ==
  LET r       == rules[i]
      t       == assignments[Priority[r]]
      h       == [heap EXCEPT ![t] = TableDeletion(@, {r})]
      emptied == h[t].stored = {}
      listed  == IF emptied THEN Before(t) ELSE tables
      others  == [n \in DOMAIN assignments \ {Priority[r]} |-> assignments[n]]
  IN  /\ rules' = SwapRemove(rules, i)
      /\ assignments' = others
      /\ heap' = [u \in (IF emptied THEN DOMAIN h \ {t} ELSE DOMAIN h)
                          \cap (Elems(listed) \cup {others[n] : n \in DOMAIN others}) |-> h[u]]
      /\ \E hasChanged \in (IF DeletionChanges(heap[t], {r}) THEN {TRUE} ELSE BOOLEAN) :
           ResortIf(hasChanged, listed, h)

-----------------------------------------------------------------------------
ClassifyAPacket(p) ==
  LET prior[i \in 0..Len(tables)] ==   \* after the first i tables
        IF i = 0 THEN -1
        ELSE LET t     == heap[tables[i]]
                 found == ClassifyAPacketIn(t, p)
             IN  IF t.maxPriority > prior[i - 1] /\ found > prior[i - 1]
                 THEN found ELSE prior[i - 1]
  IN  prior[Len(tables)]

(* The construction of a classifier is a sequence of insertions *)
Construct == \E r \in Rules : InsertRule(r)

Next == Construct \/ \E i \in DOMAIN rules : DeleteRule(i)

Spec == Init /\ [][Next]_vars
=============================================================================
