------------------------------- MODULE RuleSet -------------------------------
(***************************************************************************)
(* Rules and packets (src/src/ElementaryClasses.h), as far as a packet     *)
(* classifier tells them apart: a rule has a priority and matches some     *)
(* packets; in every field it has a lowest value and the length of the     *)
(* prefix its values share, as InputReader has computed it.                *)
(***************************************************************************)
EXTENDS Integers, Sequences

CONSTANTS
  Rules, Packets,
  Fields,         \* FieldSA, FieldDA, FieldSP, FieldDP, FieldProto
  Priority,       \* InputReader numbers the rules of a file: all differ
  MaxPriority,    \* the largest of these numbers
  Low,            \* Low[r][f]: range[f].low of r
  PrefixLength,   \* PrefixLength[r][f]: prefix_length[f] of r
  Value,          \* Value[p][f]: what p has in field f
  Match,          \* the pairs <<r, p>> with r.MatchesPacket(p)
  Masked(_, _),   \* Masked(v, n): v & Mask(n), the first n bits of v
  Hash(_)         \* the 32 bit hash of what a table masks out of some fields

(* A packet a rule matches agrees with the rule's low end on every prefix  *)
(* that is not longer than the rule's own.                                 *)
ASSUME RuleSetAssumption ==
  /\ MaxPriority \in Nat
  /\ Priority \in [Rules -> 0..MaxPriority]
  /\ \A r, s \in Rules : Priority[r] = Priority[s] => r = s
  /\ PrefixLength \in [Rules -> [Fields -> 0..32]]
  /\ Match \subseteq Rules \X Packets
  /\ \A r \in Rules, p \in Packets, f \in Fields :
       <<r, p>> \in Match =>
         \A n \in 0..PrefixLength[r][f] : Masked(Low[r][f], n) = Masked(Value[p][f], n)

(* The best of a set of priorities, -1 when there is none *)
Best(S) == IF S = {} THEN -1 ELSE CHOOSE m \in S : \A n \in S : n <= m

Elems(s) == {s[i] : i \in DOMAIN s}

NoDuplicates(s) == \A i, j \in DOMAIN s : s[i] = s[j] => i = j

(* The priorities among R of the rules that match p *)
Matching(R, p) == {Priority[r] : r \in {s \in R : <<s, p>> \in Match}}

(* Classifiers remember their rules in a vector; a deleted one is          *)
(* overwritten by the last.                                                *)
SwapRemove(s, i) ==
  [j \in 1..(Len(s) - 1) |-> IF j = i THEN s[Len(s)] ELSE s[j]]
=============================================================================
