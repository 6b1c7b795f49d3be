----------------------------- MODULE HyperSplit -----------------------------
(***************************************************************************)
(* HyperSplit (src/src/HyperSplit/HyperSplit_nodes.cpp, HyperSplit.cpp): a *)
(* binary tree whose inner nodes cut a field in two and whose leaves list  *)
(* the rules that reach them.  A leaf that grows too large is split as the *)
(* root was; a split with an empty leaf is replaced by the other child.    *)
(* The rules of a leaf are a set: its order has no effect.                 *)
(***************************************************************************)
EXTENDS Boxes

CONSTANTS
  LeafSize,       \* HyperSplit.Leaf
  Updated         \* the rules that updates concern; the others are always present

ASSUME HyperSplitAssumption == LeafSize \in Nat /\ Updated \subseteq Rules

VARIABLES rules, root

vars == <<rules, root>>

-----------------------------------------------------------------------------
(* The nodes.  levels counts the split nodes on the longest way down; the  *)
(* code has no use for it: what descends into a tree descends by it here.  *)

ListNode(bounds, S) == [kind |-> "list", levels |-> 0, bounds |-> bounds, rules |-> S]

SplitNode(bounds, d, s, left, right) ==
  [kind |-> "split", levels |-> 1 + Max({left.levels, right.levels}), bounds |-> bounds,
   dim |-> d, split |-> s, left |-> left, right |-> right]

AnyBounds == [Fields -> [low : Int, high : Int]]

ListNodes == [kind : {"list"}, levels : {0}, bounds : AnyBounds, rules : SUBSET Rules]

SplitNodes(T) ==
  {n \in [kind : {"split"}, levels : Nat, bounds : AnyBounds,
          dim : Fields, split : Int, left : T, right : T] :
     n.left.levels < n.levels /\ n.right.levels < n.levels}

(* The trees of at most k levels of split nodes *)
Trees[k \in Nat] == IF k = 0 THEN ListNodes ELSE ListNodes \cup SplitNodes(Trees[k - 1])

IsEmpty(n) == n.kind = "list" /\ n.rules = {}

-----------------------------------------------------------------------------
(* SplitRules *)

LeftList(S, d, s)  == {r \in S : Low[r][d] <= s}
RightList(S, d, s) == {r \in S : High[r][d] > s}

GetSplitPoints(bounds, S, d) ==
  LET lows == {Clipped(r, d, bounds).low : r \in S} \ {bounds[d].low}
  IN  {bounds[d].high} \cup {Clipped(r, d, bounds).high : r \in S} \cup {l - 1 : l \in lows}

(* GetRanges: the segments from low on that end in the split points *)
RangesTo(low, ends) ==
  [i \in DOMAIN ends |-> Interval(IF i = 1 THEN low ELSE ends[i - 1] + 1, ends[i])]

GetRanges(bounds, S, d) == RangesTo(bounds[d].low, Ranked(GetSplitPoints(bounds, S, d), <))

(* How many rules span each segment *)
Costs(S, d, segments) ==
  [i \in DOMAIN segments |->
     Cardinality({r \in S : Low[r][d] <= segments[i].low /\ High[r][d] >= segments[i].high})]

TotalCost(c) == PartSums(c)[Len(c)]

(* The first field with the least cost per segment *)
CheapestDim(total, segments) ==
  LET Le(f, g) == total[f] * segments[g] <= total[g] * segments[f]
  IN  Order[Min({i \in DOMAIN Order : \A g \in Fields : Le(Order[i], g)})]

SelectDimToSplit(bounds, S) ==
  CheapestDim([f \in Fields |-> TotalCost(Costs(S, f, GetRanges(bounds, S, f)))],
              [f \in Fields |-> Len(GetRanges(bounds, S, f))])

(* The end of the segment at which half of the cost is reached, but not    *)
(* the last one if there are more                                          *)
Halfway(segments, cost) ==
  LET i == Min({k \in DOMAIN cost : PartSums(cost)[k] >= TotalCost(cost) \div 2})
  IN  segments[IF i = Len(segments) /\ i > 1 THEN i - 1 ELSE i].high

SelectSplitPoint(S, d, segments) == Halfway(segments, Costs(S, d, segments))

(* SplitRules, for the field d and the point s, with Halved for the        *)
(* halves.  The bounds of the right half keep the low end and are given    *)
(* s + 1 as the high one.                                                  *)
SplitAt(Halved, bounds, S, d, s) ==
  LET left  == LeftList(S, d, s)
      right == RightList(S, d, s)
  IN  IF s = bounds[d].high \/ left = S \/ right = S THEN ListNode(bounds, S)
      ELSE SplitNode(bounds, d, s,
                     Halved[[bounds EXCEPT ![d].high = s]][left],
                     Halved[[bounds EXCEPT ![d].high = s + 1]][right])

SplitIn(Halved, bounds, S, d) ==
  SplitAt(Halved, bounds, S, d, SelectSplitPoint(S, d, GetRanges(bounds, S, d)))

(* A half has fewer rules than the whole: k counts them down. *)
SplitFrom[k \in Nat] ==
  [bounds \in AnyBounds |-> [S \in SUBSET Rules |->
     IF k = 0 \/ Cardinality(S) <= LeafSize THEN ListNode(bounds, S)
     ELSE SplitIn(SplitFrom[k - 1], bounds, S, SelectDimToSplit(bounds, S))]]

SplitRules(bounds, S) == SplitFrom[Cardinality(S)][bounds][S]

-----------------------------------------------------------------------------
(* SplitNode::InsertRule and ListNode::InsertRule *)

InsertedInList(n, r) ==
  IF Cardinality(n.rules) < LeafSize THEN ListNode(n.bounds, n.rules \cup {r})
  ELSE SplitRules(n.bounds, n.rules \cup {r})

InsertedOnceFrom(r) ==
  LET inserted[k \in Nat] ==
        [n \in Trees[k] |->
           IF n.kind = "list" THEN InsertedInList(n, r)
           ELSE IF Low[r][n.dim] <= n.split
                THEN SplitNode(n.bounds, n.dim, n.split, inserted[k - 1][n.left], n.right)
                ELSE SplitNode(n.bounds, n.dim, n.split, n.left, inserted[k - 1][n.right])]
  IN  inserted

(* Mutant: a rule that reaches over the split is given to one child only. *)
Inserted_Once(n, r) == InsertedOnceFrom(r)[n.levels][n]

InsertedFrom(r) ==
  LET inserted[k \in Nat] ==
        [n \in Trees[k] |->
           IF n.kind = "list" THEN InsertedInList(n, r)
           ELSE SplitNode(n.bounds, n.dim, n.split,
                  IF Low[r][n.dim] <= n.split THEN inserted[k - 1][n.left] ELSE n.left,
                  IF High[r][n.dim] > n.split THEN inserted[k - 1][n.right] ELSE n.right)]
  IN  inserted

Inserted(n, r) == InsertedFrom(r)[n.levels][n]

(* SplitNode::DeleteRule and ListNode::DeleteRule.  The child that takes   *)
(* the place of its parent takes the parent's bounds; the nodes below it   *)
(* keep theirs.                                                            *)
Contracted(n, left, right) ==
  CASE IsEmpty(left) -> [right EXCEPT !.bounds = n.bounds]
    [] ~ IsEmpty(left) /\ IsEmpty(right) -> [left EXCEPT !.bounds = n.bounds]
    [] OTHER -> SplitNode(n.bounds, n.dim, n.split, left, right)

DeletedFrom(r) ==
  LET deleted[k \in Nat] ==
        [n \in Trees[k] |->
           IF n.kind = "list" THEN ListNode(n.bounds, n.rules \ {r})
           ELSE Contracted(n,
                  IF Low[r][n.dim] <= n.split THEN deleted[k - 1][n.left] ELSE n.left,
                  IF High[r][n.dim] > n.split THEN deleted[k - 1][n.right] ELSE n.right)]
  IN  deleted

Deleted(n, r) == DeletedFrom(r)[n.levels][n]

-----------------------------------------------------------------------------
(* SplitNode::ClassifyAPacket *)

LeafFrom(p) ==
  LET leaf[k \in Nat] ==
        [n \in Trees[k] |->
           IF n.kind = "list" THEN n
           ELSE leaf[k - 1][IF Value[p][n.dim] <= n.split THEN n.left ELSE n.right]]
  IN  leaf

LeafOf(n, p) == LeafFrom(p)[n.levels][n]

ClassifyAPacket(p) == Best(Matching(LeafOf(root, p).rules, p))

(* _ConstructClassifier *)
Construct(S) == rules = ByPriority(S) /\ root = SplitRules(Whole, S)

InsertRule(r) ==
  /\ r \notin Elems(rules)
  /\ rules' = Append(rules, r)
  /\ root' = Inserted(root, r)

DeleteRule(i) ==
  /\ rules' = SwapRemove(rules, i)
  /\ root' = Deleted(root, rules[i])

Init == \E S \in SUBSET Updated : Construct(S \cup (Rules \ Updated))

Next ==
  \/ \E r \in Updated : InsertRule(r)
  \/ \E i \in {j \in DOMAIN rules : rules[j] \in Updated} : DeleteRule(i)

Spec == Init /\ [][Next]_vars

-----------------------------------------------------------------------------
(* The leaf a packet is led to has every rule present that matches it, and *)
(* no rule that was deleted, although a rule may stand in many leaves, and *)
(* insertions split leaves and deletions contract the tree above them.     *)
LeavesComplete ==
  \A p \in Packets :
    LET leaf == LeafOf(root, p)
    IN  /\ leaf.rules \subseteq Elems(rules)
        /\ {r \in Elems(rules) : <<r, p>> \in Match} \subseteq leaf.rules
=============================================================================
