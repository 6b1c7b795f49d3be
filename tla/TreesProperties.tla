--------------------------- MODULE TreesProperties ---------------------------
(***************************************************************************)
(* What the searches of HyperSplit, ByteCuts, HyperCuts and PartitionSort  *)
(* rest on.                                                                *)
(***************************************************************************)
EXTENDS ClassifierByName

TreesBuilt == [S \in RuleSets |-> ByteCutsTrees(S)]

InOrder(leaf) == \A j, k \in DOMAIN leaf : j < k => Priority[leaf[j]] >= Priority[leaf[k]]

NoneLost(leaves, p) ==
  {r \in Elems(rules) : <<r, p>> \in Match} \subseteq UNION {Elems(leaves[i]) : i \in DOMAIN leaves}

LeavesOf(trees, p) == [i \in DOMAIN trees |-> ByteCutsLeaf(trees[i].root, p).rules]

AnswersRight(trees, leaves, p) ==
  /\ NoneLost(leaves, p)
  /\ (\A i \in DOMAIN leaves : InOrder(leaves[i])) =>
       ByteCutsClassify(trees, p) = Best(Matching(Elems(rules), p))

AllRight(trees) == \A p \in Packets : AnswersRight(trees, LeavesOf(trees, p), p)

(* What one tree cannot take is in a later one: the leaves a packet is led *)
(* to have, between them, every rule that matches it.  When they are in    *)
(* order, the search by tree and by first match is exact; a tree of what   *)
(* BuildPrimaryRoot leaves is not sorted and need not be in order.         *)
ByteCutsAnswers == name = "ByteCuts" => AllRight(TreesBuilt[Elems(rules)])

HyperCutsBuilt == [S \in RuleSets |-> HyperCutsTree(S)]

NotOvercut(path) ==
  \A i \in DOMAIN path : \A f \in Fields :
    path[i].cuts[f] <= path[i].bounds[f].high - path[i].bounds[f].low + 1

BestAlong(path, p) == ClassifyAlong(path, p) = Best(Matching(Elems(rules), p))

(* The child HyperCuts computes is the one whose bounds hold the packet,   *)
(* and no rule it drops there was the answer, so that the first match in   *)
(* the leaf is exact - unless a node on the way is cut into more parts     *)
(* than a field has values: its parts are not equal then.                  *)
AnswersIfNotOvercut(cuts) ==
  \A p \in Packets : NotOvercut(PathOf(cuts, p)) => BestAlong(PathOf(cuts, p), p)

HyperCutsAnswers == name = "HyperCuts" => AnswersIfNotOvercut(HyperCutsBuilt[Elems(rules)])

(* ValidationTC.test_HyperCuts of tests/test_simple_functionality.py:      *)
(* HyperCuts answers as the list classifier does, for every packet.        *)
HyperCutsValid ==
  name = "HyperCuts" => \A p \in Packets : BestAlong(PathOf(HyperCutsBuilt[Elems(rules)], p), p)

(* While the program runs and no deleted tree is listed, every answer of   *)
(* PartitionSort is that of a rule which is present and matches, whatever  *)
(* was rebuilt, unzipped, zipped and rotated before.                       *)
AnswersSound ==
  fault = "none" /\ ~PS!Dangling(mitrees, tree) =>
    \A p \in Packets : PS!ClassifyAPacket(p) \in Matching(PS!Owned, p) \cup {-1}

(* canInsert lets no rule into a tree of PartitionSort where insertion     *)
(* would meet a range that overlaps its own: it prints a warning then and  *)
(* goes on for ever.                                                       *)
NoOverlapMet == fault # "overlap"

FileOrder ==
  \A i, j \in DOMAIN owned : i < j => Priority[owned[i].rule] > Priority[owned[j].rule]

(* ValidationTC.test_PartitionSort of tests/test_simple_functionality.py:  *)
(* PartitionSort, given rules in the order of the file, answers as the     *)
(* list classifier does, for every packet.                                 *)
PartitionSortValid ==
  fault = "none" /\ ~PS!Dangling(mitrees, tree) /\ FileOrder =>
    \A p \in Packets : PS!ClassifyAPacket(p) = Best(Matching(PS!Owned, p))
=============================================================================
