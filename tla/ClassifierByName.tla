-------------------------- MODULE ClassifierByName --------------------------
(***************************************************************************)
(* The classifiers that divide the space of packets, as                    *)
(* ParseClassifierName (src/src/construct_classifier_by_name.cpp)          *)
(* constructs them: one, by its name.  HyperSplit and PartitionSort take   *)
(* updates, BitVector ignores them, HyperCuts and ByteCuts end the program *)
(* when they get one.                                                      *)
(***************************************************************************)
EXTENDS HyperSplit, ByteCuts, HyperCuts, BitVector

CONSTANTS Together, Mature      \* of PartitionSort

ASSUME PartitionSortAssumption == Together \subseteq SUBSET Rules /\ Mature \in Nat

VARIABLES
  name,                         \* the name given
  mitrees, tree, owned, fault   \* of PartitionSort; fault also when the program has ended

partition == <<mitrees, tree, owned, fault>>

PS == INSTANCE PartitionSort

(* What a classifier is constructed from *)
RuleSets == {T \cup (Rules \ Updated) : T \in SUBSET Updated}

(* The others have no such tree: root is one leaf then, *)
NoRoot == root = ListNode(Whole, Elems(rules))

(* and but for BitVector, no rule has a bit. *)
NoBits == built = BitVectorOf({})

ConstructHyperSplit == name = "HyperSplit" /\ Init /\ NoBits /\ PS!Init

ConstructStatic ==
  /\ name \in {"HyperCuts", "ByteCuts"}
  /\ \E S \in RuleSets : rules = ByPriority(S)
  /\ NoRoot /\ NoBits /\ PS!Init

ConstructBitVector ==
  /\ name = "BitVector" /\ rules = <<>>
  /\ \E S \in RuleSets : built = BitVectorOf(S)
  /\ NoRoot /\ PS!Init

ConstructPartitionSort == name = "PartitionSort" /\ rules = <<>> /\ NoRoot /\ NoBits /\ PS!Init

NamedInit ==
  ConstructHyperSplit \/ ConstructStatic \/ ConstructBitVector \/ ConstructPartitionSort

UpdateHyperSplit == name = "HyperSplit" /\ Next /\ UNCHANGED <<name, built, partition>>

UpdatePartitionSort == name = "PartitionSort" /\ PS!Next /\ UNCHANGED <<name, vars, built>>

UpdateBitVector == name = "BitVector" /\ UpdateIgnored /\ UNCHANGED <<name, vars, partition>>

(* exit(EXIT_FAILURE) *)
UpdateUnsupported ==
  /\ name \in {"HyperCuts", "ByteCuts"} /\ fault = "none"
  /\ fault' = "exit"
  /\ UNCHANGED <<name, vars, built, mitrees, tree, owned>>

NamedNext == UpdateHyperSplit \/ UpdatePartitionSort \/ UpdateBitVector \/ UpdateUnsupported

NamedSpec == NamedInit /\ [][NamedNext]_<<name, vars, built, partition>>
=============================================================================
