------------------------------ MODULE HyperCuts ------------------------------
(***************************************************************************)
(* HyperCuts (src/src/HyperCuts/HyperCuts.cpp, Trees/TreeUtils.cpp): a     *)
(* tree whose inner nodes cut one or two fields into equal parts, so that  *)
(* the child of a packet is computed and not searched.  The parts are made *)
(* by repeated halving, level by level.  It takes no updates.              *)
(***************************************************************************)
EXTENDS Boxes

CONSTANTS
  HyperLeafSize,  \* leafSize
  SpaceFactor,    \* spfac
  Word            \* points are unsigned integers below Word

ASSUME HyperCutsAssumption ==
  /\ HyperLeafSize \in Nat \ {0} /\ SpaceFactor \in Nat \ {0}
  /\ Word \in Nat /\ \A f \in Fields : Top[f] < Word

(* AreEqual: within the bounds, r lies in s *)
AreEqual(s, r) == \A f \in DOMAIN s : s[f].low <= r[f].low /\ s[f].high >= r[f].high

InBoundary(r, bounds) == [f \in Fields |-> Clipped(r, f, bounds)]

(* A rule goes if one before it in the list covers it within the bounds. *)
(* Mutant: any that it covers. *)
RemoveRedund_Covering(rl, bounds) ==
  FoldLeft(LAMBDA kept, r :
             IF \E s \in Elems(kept) : AreEqual(InBoundary(r, bounds), InBoundary(s, bounds))
             THEN kept ELSE Append(kept, r),
           <<>>, rl)

RemoveRedund(rl, bounds) ==
  FoldLeft(LAMBDA kept, r :
             IF \E s \in Elems(kept) : AreEqual(InBoundary(s, bounds), InBoundary(r, bounds))
             THEN kept ELSE Append(kept, r),
           <<>>, rl)

Node(bounds, rl) ==
  [bounds |-> bounds, rules |-> rl, cuts |-> [f \in Fields |-> 1], children |-> <<>>]

-----------------------------------------------------------------------------
(* CalcCuts *)

(* CalcDimensionsToCut: the first two fields of those with more than one   *)
(* value left that tell apart at least as many rules as the average.       *)
UniqueElements(n, f) == Cardinality({Clipped(r, f, n.bounds) : r \in Elems(n.rules)})

AtLeastAverage(dims, unique) ==
  SelectSeq(dims, LAMBDA f : unique[f] * Len(dims) >= FoldLeft(LAMBDA sum, d : sum + unique[d], 0, dims))

DimensionsToCut(n) ==
  LET divisible == SelectSeq(Order, LAMBDA f : n.bounds[f].high > n.bounds[f].low)
      selected  == AtLeastAverage(divisible, [f \in Fields |-> UniqueElements(n, f)])
  IN  SubSeq(selected, 1, Min({2, Len(selected)}))

ComputeSpan(b, cuts) == (((b.high - b.low) % Word) \div cuts + 1) % Word

(* SetBoundary for a cut in two: the second half of a single value begins  *)
(* after it.                                                               *)
Half(b, k) ==
  LET low == (b.low + k * ComputeSpan(b, 2)) % Word
  IN  Interval(low, IF k = 1 THEN b.high ELSE (low + ComputeSpan(b, 2) - 1) % Word)

IsPresent(bounds, r) ==
  \A f \in Fields : High[r][f] >= bounds[f].low /\ Low[r][f] <= bounds[f].high

ChildIn(rl, bounds) == Node(bounds, SelectSeq(rl, LAMBDA r : IsPresent(bounds, r)))

Halves(n, f) ==
  [k \in 1..2 |-> ChildIn(n.rules, [n.bounds EXCEPT ![f] = Half(@, k - 1)])]

HalveAll(nodes, f) == FoldLeft(LAMBDA made, n : made \o Halves(n, f), <<>>, nodes)

RulesIn(nodes) == FoldLeft(LAMBDA sum, n : sum + Len(n.rules), 0, nodes)

(* CalcNumCuts1D and CalcNumCuts2D: levels are cut, in two fields by       *)
(* turns, until their nodes and rules take up the space allowed.  The      *)
(* result is the last level and the number of levels.                      *)
RECURSIVE Levels(_, _, _, _)
Levels(nodes, dims, n, space) ==
  IF n > 0 /\ 2 ^ n + RulesIn(nodes) >= space THEN [nodes |-> nodes, n |-> n]
  ELSE Levels(HalveAll(nodes, dims[(n % Len(dims)) + 1]), dims, n + 1, space)

(* How often dims[i] is halved in n levels *)
Halvings(dims, i, n) == Cardinality({l \in 0..(n - 1) : l % Len(dims) = i - 1})

CutCounts(dims, n) ==
  [f \in Fields |-> IF f \in Elems(dims)
                    THEN 2 ^ Halvings(dims, CHOOSE i \in DOMAIN dims : dims[i] = f, n) ELSE 1]

(* The sort by the lower bounds; its comparison by <= turns the order of   *)
(* nodes with the same bounds around.                                      *)
LowBefore(nodes, dims, i, j) ==
  LET low(k, d) == nodes[k].bounds[dims[d]].low
      differ    == {d \in DOMAIN dims : low(i, d) # low(j, d)}
  IN  IF differ = {} THEN i > j ELSE low(i, Min(differ)) < low(j, Min(differ))

SortedByLow(nodes, dims) ==
  LET order == Ranked(DOMAIN nodes, LAMBDA i, j : LowBefore(nodes, dims, i, j))
  IN  [i \in DOMAIN nodes |-> nodes[order[i]]]

-----------------------------------------------------------------------------
(* CreateTree *)

Pruned(n) == [n EXCEPT !.rules = RemoveRedund(@, n.bounds)]

(* A node with nothing to cut ends the program; it is kept as it is. *)
RECURSIVE Grown(_)
WithChildren(n, dims, levels) ==
  [n EXCEPT !.rules = <<>>, !.cuts = CutCounts(dims, levels.n),
            !.children = [i \in DOMAIN levels.nodes |-> Grown(Pruned(SortedByLow(levels.nodes, dims)[i]))]]

CutBy(n, dims) ==
  IF dims = <<>> THEN n ELSE WithChildren(n, dims, Levels(<<n>>, dims, 0, Len(n.rules) * SpaceFactor))

Grown(n) == IF Len(n.rules) <= HyperLeafSize THEN n ELSE CutBy(n, DimensionsToCut(n))

HyperCutsTree(S) == Grown(Pruned(Node(Whole, ByPriority(S))))

-----------------------------------------------------------------------------
(* Classify *)

PartOf(n, f, p) == ((Value[p][f] - n.bounds[f].low) % Word) \div ComputeSpan(n.bounds[f], n.cuts[f])

(* Mutant: the part of the field that comes last counts most. *)
ChildIndex_Reversed(n, p) ==
  1 + FoldRight(LAMBDA f, index : IF n.cuts[f] > 1 THEN index * n.cuts[f] + PartOf(n, f, p) ELSE index,
                Order, 0)

ChildIndex(n, p) ==
  1 + FoldLeft(LAMBDA index, f : IF n.cuts[f] > 1 THEN index * n.cuts[f] + PartOf(n, f, p) ELSE index,
               0, Order)

(* The nodes a packet is led through; an index beyond the children reads   *)
(* outside of childArray and ends the path here.                           *)
RECURSIVE PathOf(_, _)
PathOf(n, p) ==
  IF ChildIndex(n, p) \in DOMAIN n.children
  THEN <<n>> \o PathOf(n.children[ChildIndex(n, p)], p) ELSE <<n>>

FirstMatchOf(rl, p) ==
  LET hits == {i \in DOMAIN rl : <<rl[i], p>> \in Match}
  IN  IF hits = {} THEN -1 ELSE Priority[rl[Min(hits)]]

ClassifyAlong(path, p) == Max({FirstMatchOf(path[i].rules, p) : i \in DOMAIN path})
=============================================================================
