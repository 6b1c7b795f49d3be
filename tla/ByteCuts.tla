------------------------------ MODULE ByteCuts ------------------------------
(***************************************************************************)
(* ByteCuts (src/src/ByteCuts/ByteCuts.cpp, TreeBuilder.cpp and            *)
(* ByteCutsNode.cpp): the rules are partitioned by how long their address  *)
(* prefixes are, and a tree is built for each part; what a tree cannot     *)
(* take goes into the next one.  Rules stand in vectors, since a leaf      *)
(* answers with the first of its rules that matches.                       *)
(***************************************************************************)
EXTENDS Boxes

CONSTANTS
  BitsPerField, BitsPerNybble, MaxDelta,
  MaxSpan,                  \* how far LimitedSplit lets a span reach
  PrimaryRate,              \* what a rule costs that a primary root cannot take
  ByteLeafSize,             \* leafSize of TreeBuilder
  AddressDims,              \* FieldSA, FieldDA
  AllowableDims, SplitDims, \* of TreeBuilder: the fields to cut, and to split
  DredgePercent, TurningPercent, MinPercent

ASSUME ByteCutsAssumption ==
  /\ BitsPerNybble \in Nat \ {0} /\ MaxDelta \in Nat /\ MaxSpan \in Nat /\ ByteLeafSize \in Nat
  /\ BitsPerField \in Nat /\ BitsPerField % BitsPerNybble = 0
  /\ {AddressDims, AllowableDims, SplitDims} \subseteq Seq(Fields)

Steps(to) == {n \in 1..to : n % BitsPerNybble = 0}

Count(rl, Test(_)) == Cardinality({i \in DOMAIN rl : Test(rl[i])})

(* The first of the candidates whose cost is least *)
FirstWith(cands, cost, least) == cands[Min({i \in DOMAIN cands : cost[i] = least})]
LeastOf(cands, cost) == FirstWith(cands, cost, Min(Elems(cost)))
Cheapest(cands, Cost(_)) == LeastOf(cands, [i \in DOMAIN cands |-> Cost(cands[i])])

-----------------------------------------------------------------------------
(* TreeBuilder: a cut of a field looks at the delta bits between the nl    *)
(* left ones and the nr right ones                                         *)

GetSpan(r, c) ==
  LET Bits(v) == (v \div 2 ^ c.nr) % (2 ^ (BitsPerField - c.nl - c.nr))
  IN  Interval(Bits(Low[r][c.dim]), Bits(High[r][c.dim]))

Within(span, width) == span.low + width >= span.high
LimitedSplit(r, c) == Within(GetSpan(r, c), MaxSpan)

Holds(span, i) == span.low <= i /\ i <= span.high

(* The candidates in the order in which BestSpanSearch applies them *)
Cuts ==
  LET At(delta, i, nl) ==
        [dim |-> AllowableDims[i], nl |-> nl, nr |-> BitsPerField - nl - delta, pos |-> <<delta, i, nl>>]
      all == {At(delta, i, nl) : delta \in Steps(MaxDelta), i \in DOMAIN AllowableDims,
                                 nl \in Steps(BitsPerField) \cup {0}}
  IN  Ranked({c \in all : c.nr >= 0},
        LAMBDA c, d : \E k \in 1..3 : c.pos[k] < d.pos[k] /\ \A j \in 1..(k - 1) : c.pos[j] = d.pos[j])

Penalty(rl, c) == Count(rl, LAMBDA r : ~ LimitedSplit(r, c))
Fitness(rl, c) ==
  Max({Count(rl, LAMBDA r : LimitedSplit(r, c) /\ Holds(GetSpan(r, c), i)) :
         i \in 0..(2 ^ (BitsPerField - c.nl - c.nr) - 1)})

SpanCost(rl, c, rate) == Fitness(rl, c) + rate * Penalty(rl, c)

(* A pair of costs, the first one of more weight, as a number *)
Weighted(rl, first, second) == first * (10 * (Len(rl) + 1)) + second

BestSpan(rl, rate) == Cheapest(Cuts, LAMBDA c : SpanCost(rl, c, rate))
BestSpanMinPart(rl, rate) ==
  Cheapest(SelectSeq(Cuts, LAMBDA c : Fitness(rl, c) > 0),
           LAMBDA c : Weighted(rl, Fitness(rl, c), SpanCost(rl, c, rate)))
BestSpanMinPenalty(rl, rate) ==
  Cheapest(Cuts, LAMBDA c : Weighted(rl, Penalty(rl, c), SpanCost(rl, c, rate)))

SplitCost(rl, s) ==
  Max({Count(rl, LAMBDA r : Low[r][s.dim] <= s.point), Count(rl, LAMBDA r : High[r][s.dim] > s.point)})

BestSplit(rl) ==
  LET points == {[dim |-> SplitDims[i], point |-> High[r][SplitDims[i]], at |-> i] :
                   r \in Elems(rl), i \in DOMAIN SplitDims}
  IN  Cheapest(Ranked(points, LAMBDA s, t : s.at < t.at \/ (s.at = t.at /\ s.point < t.point)),
               LAMBDA s : SplitCost(rl, s))

Leaf(rl) == [mode |-> "Leaf", rules |-> rl]

(* What a builder returns: the node, and remain with what the node could   *)
(* not take                                                                *)
Built(node, remain) == [node |-> node, remain |-> remain]

RECURSIVE BuildNode(_, _, _)

(* The children, for the list of rules of each.  Equal lists share a child. *)
BuildChildren(list, remain, rate) ==
  LET Earlier(i) == {j \in 1..(i - 1) : list[j] = list[i]}
      Add(b, child) == Built(Append(b.node, child.node), child.remain)
      Step(b, i) ==
        IF Earlier(i) # {} THEN Add(b, Built(b.node[Min(Earlier(i))], b.remain))
        ELSE Add(b, BuildNode(list[i], b.remain, rate))
  IN  FoldLeft(Step, Built(<<>>, remain), [i \in DOMAIN list |-> i])

CutNode(c, b) == Built([mode |-> "Cut", cut |-> c, children |-> b.node], b.remain)

(* BuildCutNode, for the rules that the cut takes *)
CutRules(rl, in, remain, rate, c) ==
  IF in = <<>> THEN Built(Leaf(rl), <<>>)
  ELSE CutNode(c, BuildChildren(
         [i \in 1..(2 ^ (BitsPerField - c.nl - c.nr)) |->
            SelectSeq(in, LAMBDA r : Holds(GetSpan(r, c), i - 1))], remain, rate))

BuildCutNode(rl, remain, rate, c) ==
  CutRules(rl, SelectSeq(rl, LAMBDA r : LimitedSplit(r, c)),
           remain \o SelectSeq(rl, LAMBDA r : ~ LimitedSplit(r, c)), rate, c)

SplitInto(s, left, right) ==
  Built([mode |-> "Split", at |-> s, children |-> <<left.node, right.node>>], right.remain)

BuildRight(rl, rate, s, left) ==
  SplitInto(s, left, BuildNode(SelectSeq(rl, LAMBDA r : High[r][s.dim] > s.point), left.remain, rate))

BuildSplitNode(rl, remain, rate, s) ==
  BuildRight(rl, rate, s, BuildNode(SelectSeq(rl, LAMBDA r : Low[r][s.dim] <= s.point), remain, rate))

(* BuildNodeHelper, for the best cut and the best split and their costs *)
BuildBy(rl, remain, rate, c, cost, s, splitCost) ==
  CASE Min({cost, splitCost}) = Len(rl) -> Built(Leaf(rl), remain)
    [] Min({cost, splitCost}) # Len(rl) /\ cost <= splitCost -> BuildCutNode(rl, remain, rate, c)
    [] OTHER -> BuildSplitNode(rl, remain, rate, s)

BuildWith(rl, remain, rate, c, s) ==
  BuildBy(rl, remain, rate, c, SpanCost(rl, c, rate), s, SplitCost(rl, s))

BuildNode(rl, remain, rate) ==
  IF Len(rl) <= ByteLeafSize THEN Built(Leaf(rl), remain)
  ELSE BuildWith(rl, remain, rate, BestSpan(rl, rate), BestSplit(rl))

BuildPrimaryRoot(rl) == BuildNode(rl, <<>>, PrimaryRate)

SecondaryCuts(rl) == << BestSpan(rl, 1), BestSpanMinPart(rl, 1), BestSpanMinPenalty(rl, 1) >>

(* BuildSecondaryRoot and BuildRootHelper: of three cuts the one that      *)
(* leaves least; CleanRules sorts what remains and removes duplicates      *)
BuildSecondaryRoot(rl) ==
  IF Len(rl) <= ByteLeafSize THEN Built(Leaf(rl), <<>>)
  ELSE LET best == Cheapest([i \in 1..3 |-> BuildCutNode(rl, <<>>, 1, SecondaryCuts(rl)[i])],
                            LAMBDA b : Len(b.remain))
       IN  [best EXCEPT !.remain = ByPriority(Elems(@))]

-----------------------------------------------------------------------------
(* ByteCutsClassifier *)

(* What a partition by the first len bits of a field would drop, and the   *)
(* size of its largest class                                               *)
Option(rl, f, len) ==
  LET kept == SelectSeq(rl, LAMBDA r : PrefixLength[r][f] >= len)
      Class(x) == Count(kept, LAMBDA r : Masked(Low[r][f], len) = x)
  IN  [dim |-> f, len |-> len, dropped |-> Len(rl) - Len(kept),
       part |-> Max({0} \cup {Class(Masked(Low[r][f], len)) : r \in Elems(kept)})]

Better(rl, o, best) ==
  LET goodPartition == o.part <= best.part
      goodRemain    == o.dropped <= best.dropped
      betterPartition == o.part < best.part
      betterRemain    == o.dropped < best.dropped
  IN  CASE goodPartition /\ goodRemain -> TRUE
        [] ~ goodPartition /\ ~ goodRemain -> FALSE
        [] OTHER ->
             IF o.part * 100 < TurningPercent * (Len(rl) - o.dropped)
             THEN betterRemain \/ (goodRemain /\ betterPartition)
             ELSE IF o.dropped * 100 < (100 - MinPercent) * Len(rl)
             THEN betterPartition \/ (goodPartition /\ betterRemain)
             ELSE o.dropped + o.part < best.dropped + best.part

(* Separate: the rules with the prefix the best option asks for *)
BestOption(rl) ==
  LET n == BitsPerField \div BitsPerNybble
      options == [i \in 1..(Len(AddressDims) * n) |->
                    Option(rl, AddressDims[((i - 1) \div n) + 1], (((i - 1) % n) + 1) * BitsPerNybble)]
  IN  FoldLeft(LAMBDA best, o : IF Better(rl, o, best) THEN o ELSE best, options[1], options)

(* The parts, good ones first, and what is left for the bad trees *)
RECURSIVE Parts(_, _)
PartAndRest(rl, in, remain, n) ==
  IF in = <<>> THEN [good |-> <<>>, bad |-> rl]
  ELSE [Parts(remain, n) EXCEPT !.good = <<in>> \o @]
PartsBy(rl, n, o) ==
  PartAndRest(rl, SelectSeq(rl, LAMBDA r : PrefixLength[r][o.dim] >= o.len),
              SelectSeq(rl, LAMBDA r : PrefixLength[r][o.dim] < o.len), n)
Parts(rl, n) ==
  IF Len(rl) * 100 <= n * DredgePercent THEN [good |-> <<>>, bad |-> rl]
  ELSE PartsBy(rl, n, BestOption(rl))

(* BuildTree and BuildBadTree *)
RECURSIVE TreesOf(_, _)
TreeAndRest(rl, bad, b) ==
  <<[root |-> b.node, priority |-> Best({Priority[r] : r \in Elems(rl)})]>> \o TreesOf(b.remain, bad)
TreesOf(rl, bad) ==
  CASE rl = <<>> -> <<>>
    [] rl # <<>> /\ bad -> TreeAndRest(rl, bad, BuildSecondaryRoot(rl))
    [] OTHER -> TreeAndRest(rl, bad, BuildPrimaryRoot(rl))

ByteCutsTrees(S) ==
  LET parts == Parts(ByPriority(S), Cardinality(S))
  IN  FoldLeft(LAMBDA ts, part : ts \o TreesOf(part, FALSE), <<>>, parts.good) \o TreesOf(parts.bad, TRUE)

RECURSIVE ByteCutsLeaf(_, _)
ByteCutsLeaf(n, p) ==
  LET v == Value[p][IF n.mode = "Cut" THEN n.cut.dim ELSE n.at.dim]
      i == CASE n.mode = "Cut" -> ((v \div 2 ^ n.cut.nr) % (2 ^ (BitsPerField - n.cut.nl - n.cut.nr))) + 1
             [] n.mode = "Split" -> IF v <= n.at.point THEN 1 ELSE 2
  IN  IF n.mode = "Leaf" THEN n ELSE ByteCutsLeaf(n.children[i], p)

(* The first rule of the leaf that matches; numRules has 8 bits *)
FirstMatch(rl, p) ==
  LET hits == {i \in 1..(Len(rl) % 256) : <<rl[i], p>> \in Match}
  IN  IF hits = {} THEN -1 ELSE Priority[rl[Min(hits)]]

(* Mutant: the first tree with an answer has the last word. *)
ByteCutsClassify_First(trees, p) ==
  FoldLeft(LAMBDA result, t :
             IF result = -1 THEN FirstMatch(ByteCutsLeaf(t.root, p).rules, p) ELSE result,
           -1, trees)

ByteCutsClassify(trees, p) ==
  FoldLeft(LAMBDA result, t :
             IF t.priority > result
             THEN Max({result, FirstMatch(ByteCutsLeaf(t.root, p).rules, p)}) ELSE result,
           -1, trees)
=============================================================================
