---------------------------- MODULE PartitionSort ----------------------------
(***************************************************************************)
(* PartitionSort (src/src/PartitionSort/PartitionSort.cpp,                 *)
(* OptimizedMITree.cpp): a vector of multi-level trees ordered by their    *)
(* maximum priority.  A rule goes to the first tree that can take it, and  *)
(* a tree that has not many rules yet is built anew with a better field    *)
(* order.  Trees are numbered; one that was deleted is not in `tree`, but  *)
(* may still be listed.                                                    *)
(***************************************************************************)
EXTENDS RedBlackTree

CONSTANTS
  Together,       \* sets of rules of which all may be present at a time
  Mature          \* the argument of ReconstructIfNumRulesLessThanOrEqualTo

VARIABLES
  mitrees,        \* the trees in the order they are asked
  tree,           \* tree[n]: the tree with the number n
  owned,          \* rules: each rule with its tree
  fault           \* why the program has stopped, "none" while it runs

vars == <<mitrees, tree, owned, fault>>

Stop(why) == fault' = why /\ UNCHANGED <<mitrees, tree, owned>>

-----------------------------------------------------------------------------
(* GetFieldOrderByRule: points first, then the ranges of less than half of *)
(* the field, of less than the field, and the whole field                  *)

Length(r, f) == High[r][f] - Low[r][f] + 1

Rank(r, f) ==
  CASE Length(r, f) = 1 -> 0
    [] Length(r, f) > 1 /\ 2 * Length(r, f) < Top[f] + 1 -> 1
    [] 2 * Length(r, f) >= Top[f] + 1 /\ Length(r, f) < Top[f] + 1 -> 2
    [] OTHER -> 3

RankedBefore(r, i, j) ==
  \/ Rank(r, Order[i]) < Rank(r, Order[j])
  \/ Rank(r, Order[i]) = Rank(r, Order[j]) /\ i < j

FieldOrderByRule(r) ==
  LET order == Ranked(DOMAIN Order, LAMBDA i, j : RankedBefore(r, i, j))
  IN  [i \in DOMAIN order |-> Order[order[i]]]

KeyOf(r, order) == [i \in DOMAIN order |-> Interval(Low[r][order[i]], High[r][order[i]])]

-----------------------------------------------------------------------------
(* OptimizedMITree *)

NewMITree(order) ==
  [order |-> order, rbt |-> EmptyTree, numRules |-> 0, priorities |-> {}, max |-> -1, mature |-> FALSE]

Insertion(m, key, p, red) ==
  [m EXCEPT !.rbt = Insert(@, key, p, red), !.numRules = @ + 1,
            !.priorities = @ \cup {p}, !.max = Max({@, p})]

(* SerializeIntoRules begins on the left of the root. *)
Rest(m) == Serialized(m.rbt, m.rbt.nodes[m.rbt.root].left, [ranges |-> <<>>, left |-> Len(m.order)])

(* FastBestFieldAndConfiguration takes the last of fields that are equally *)
(* good, and all are: the intervals a field forms are lists without rules. *)
GreedyOrder == Reverse(Order)

(* Mutant: the ranges stay in the field order of before. *)
Rebuilt_SameOrder(m, box) ==
  [Insertion(NewMITree(GreedyOrder), box.ranges, box.priority, FALSE) EXCEPT !.mature = m.mature]

(* Reset, and the rule of the box inserted *)
Rebuilt(m, box) ==
  LET key == [i \in DOMAIN GreedyOrder |->
                box.ranges[CHOOSE j \in DOMAIN m.order : m.order[j] = GreedyOrder[i]]]
  IN  [Insertion(NewMITree(GreedyOrder), key, box.priority, FALSE) EXCEPT !.mature = m.mature]

(* FastCreateUniqueInterval forms none for a single rule. *)
FormsInterval(boxes) == Cardinality(boxes) > 1

(* FastGreedyFieldSelectionForAdaptive: the first part must have all the   *)
(* rules.  There are no parts: what is read is the size of what was there  *)
(* before, which may be right if no interval took its place.               *)
KeepsAll(boxes, stale) == ~FormsInterval(boxes) /\ stale

Found(m, boxes, stale) ==
  IF KeepsAll(boxes, stale) /\ m.order # GreedyOrder
  THEN Rebuilt(m, CHOOSE box \in boxes : TRUE) ELSE m

Reconstruct(m, stale) ==
  CASE m.mature -> m
    [] ~m.mature /\ m.numRules >= Mature -> [m EXCEPT !.mature = TRUE]
    [] OTHER -> IF m.rbt.root = Nil \/ Rest(m) = {} THEN [m EXCEPT !.rbt = Failed("null")]
                ELSE Found(m, Rest(m), stale)

(* priorityContainer.erase(equal_range(priority).first) *)
Erased(m, p) == m.priorities \ {Min({q \in m.priorities : q >= p})}

Deletion(m, r) ==
  LET p == Priority[r]
  IN  [m EXCEPT !.rbt = Delete(@, KeyOf(r, m.order), p), !.numRules = @ - 1, !.priorities = Erased(m, p),
                !.max = CASE m.numRules = 1 -> -1
                          [] m.numRules # 1 /\ p = m.max -> Best(Erased(m, p))
                          [] OTHER -> m.max]

-----------------------------------------------------------------------------
(* InsertionSortMITrees; a listed tree that was deleted is read. *)

Dangling(list, trees) == \E i \in DOMAIN list : list[i] \notin DOMAIN trees

InsertionSort(list, trees) ==
  LET order == Ranked(DOMAIN list, LAMBDA i, j :
                        \/ trees[list[i]].max > trees[list[j]].max
                        \/ trees[list[i]].max = trees[list[j]].max /\ i < j)
  IN  [i \in DOMAIN list |-> list[order[i]]]

SortedIf(change, list, trees) == IF change THEN InsertionSort(list, trees) ELSE list

Owned == {owned[i].rule : i \in DOMAIN owned}

NewTree == Min((1..(Cardinality(DOMAIN tree) + Len(mitrees) + Len(owned) + 1))
                 \ (DOMAIN tree \cup Elems(mitrees) \cup {owned[i].tree : i \in DOMAIN owned}))

Own(r, n) == owned' = Append(owned, [rule |-> r, tree |-> n])

-----------------------------------------------------------------------------
(* InsertRule *)

(* What TryInsertion finds, tree by tree *)
Verdict(r, n) ==
  IF n \in DOMAIN tree THEN CanInsert(tree[n].rbt, KeyOf(r, tree[n].order)) ELSE "freed"

NotRefused(r) == {i \in DOMAIN mitrees : Verdict(r, mitrees[i]) # "no"}

Takes(r, n, inserted, rebuilt) ==
  IF Fails(rebuilt.rbt) THEN Stop(rebuilt.rbt.fault)
  ELSE /\ mitrees' = SortedIf(Priority[r] > tree[n].max, mitrees, [tree EXCEPT ![n] = inserted])
       /\ tree' = [tree EXCEPT ![n] = rebuilt]
       /\ Own(r, n)
       /\ UNCHANGED fault

(* The list is sorted before the tree is built anew. *)
InsertInto(r, n, inserted, stale) ==
  IF Fails(inserted.rbt) THEN Stop(inserted.rbt.fault)
  ELSE Takes(r, n, inserted, Reconstruct(inserted, stale))

InsertNew(r) ==
  LET m == Insertion(NewMITree(FieldOrderByRule(r)), KeyOf(r, FieldOrderByRule(r)), Priority[r], FALSE)
  IN  /\ tree' = (NewTree :> m) @@ tree
      /\ mitrees' = InsertionSort(Append(mitrees, NewTree), tree')
      /\ Own(r, NewTree)
      /\ UNCHANGED fault

InsertListed(r, i, red, stale) ==
  LET n == mitrees[i]
  IN  CASE Verdict(r, n) # "yes" -> Stop(Verdict(r, n))
        [] Verdict(r, n) = "yes" /\ Priority[r] > tree[n].max /\ Dangling(mitrees, tree) -> Stop("freed")
        [] OTHER -> InsertInto(r, n, Insertion(tree[n], KeyOf(r, tree[n].order), Priority[r], red), stale)

InsertRule(r, red, stale) ==
  /\ fault = "none" /\ r \notin Owned
  /\ \E S \in Together : Owned \cup {r} \subseteq S
  /\ IF NotRefused(r) = {} THEN InsertNew(r) ELSE InsertListed(r, Min(NotRefused(r)), red, stale)

-----------------------------------------------------------------------------
(* DeleteRule.  A tree that became empty is taken for the last one. *)

Dropped(list, empty) == IF empty THEN Front(list) ELSE list

DeleteFrom(i, n, m, list) ==
  LET empty == m.priorities = {}
  IN  /\ mitrees' = Dropped(list, empty)
      /\ tree' = IF empty THEN [k \in DOMAIN tree \ {n} |-> tree[k]] ELSE [tree EXCEPT ![n] = m]
      /\ owned' = SwapRemove(owned, i)
      /\ UNCHANGED fault

DeleteIn(i, n, m) ==
  LET trees  == [tree EXCEPT ![n] = m]
      change == tree[n].numRules = 1 \/ Priority[owned[i].rule] = tree[n].max
  IN  CASE Fails(m.rbt) -> Stop(m.rbt.fault)
        [] ~Fails(m.rbt) /\ ((change /\ Dangling(mitrees, tree)) \/ (m.priorities = {} /\ mitrees = <<>>)) -> Stop("freed")
        [] OTHER -> DeleteFrom(i, n, m, SortedIf(change, mitrees, trees))

DeleteRule(i) ==
  LET n == owned[i].tree
      p == Priority[owned[i].rule]
  IN  /\ fault = "none"
      /\ IF n \in DOMAIN tree /\ \E q \in tree[n].priorities : q >= p
         THEN DeleteIn(i, n, Deletion(tree[n], owned[i].rule)) ELSE Stop("freed")

-----------------------------------------------------------------------------
(* ClassifyAPacket *)

Asked(m, p) == Query(m.rbt, [i \in DOMAIN m.order |-> Value[p][m.order[i]]])

RECURSIVE Search(_, _, _)
Search(list, p, result) ==
  IF list = <<>> \/ result > tree[Head(list)].max THEN result
  ELSE Search(Tail(list), p, Max({result, Asked(tree[Head(list)], p)}))

ClassifyAPacket(p) == IF mitrees = <<>> THEN -1 ELSE Search(mitrees, p, -1)

-----------------------------------------------------------------------------
Init == mitrees = <<>> /\ tree = <<>> /\ owned = <<>> /\ fault = "none"

Next ==
  \/ \E r \in UNION Together, red, stale \in BOOLEAN : InsertRule(r, red, stale)
  \/ \E i \in DOMAIN owned : DeleteRule(i)

Spec == Init /\ [][Next]_vars

=============================================================================
