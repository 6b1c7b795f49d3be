-------------------------------- MODULE Boxes --------------------------------
(***************************************************************************)
(* Rules as boxes (struct Rule and _Range1d of                             *)
(* src/src/ElementaryClasses.h): what the classifiers look at that divide  *)
(* the space of packets.                                                   *)
(***************************************************************************)
EXTENDS RuleSet, FiniteSets, SequencesExt

CONSTANTS
  High,           \* High[r][f]: range[f].high of r
  Order,          \* the fields in the order of range
  Top             \* Top[f]: the largest value of field f

ASSUME BoxAssumption ==
  /\ Order \in Seq(Fields) /\ Order # <<>> /\ Elems(Order) = Fields /\ NoDuplicates(Order)
  /\ IsFiniteSet(Rules)
  /\ Low \in [Rules -> [Fields -> Nat]] /\ High \in [Rules -> [Fields -> Nat]]
  /\ Value \in [Packets -> [Fields -> Nat]]
  /\ Top \in [Fields -> Nat]
  /\ \A r \in Rules, f \in Fields : Low[r][f] <= High[r][f] /\ High[r][f] <= Top[f]
  /\ \A r \in Rules, p \in Packets :
       <<r, p>> \in Match <=> \A f \in Fields : Low[r][f] <= Value[p][f] /\ Value[p][f] <= High[r][f]

Interval(low, high) == [low |-> low, high |-> high]

(* The bounds of a root: every packet *)
Whole == [f \in Fields |-> Interval(0, Top[f])]

(* What bounds leave of r in field f *)
Clipped(r, f, bounds) ==
  Interval(Max({Low[r][f], bounds[f].low}), Min({High[r][f], bounds[f].high}))

(* S in an order *)
Ranked(S, Before(_, _)) ==
  [i \in 1..Cardinality(S) |-> CHOOSE x \in S : Cardinality({y \in S : Before(y, x)}) = i - 1]

(* SortRules: by falling priority *)
ByPriority(S) == Ranked(S, LAMBDA r, s : Priority[r] > Priority[s])

(* The sums of the first elements, as a loop adds them up *)
PartSums(c) ==
  LET sum[k \in 0..Len(c)] == IF k = 0 THEN 0 ELSE sum[k - 1] + c[k]
  IN  sum
=============================================================================
