---------------------------- MODULE PrefixTuples ----------------------------
(***************************************************************************)
(* KeyRulePrefix (src/src/OVS/TupleSpaceSearch.h): the tuple of a rule is  *)
(* the vector of its prefix lengths in the fields a classifier was         *)
(* constructed for.                                                        *)
(***************************************************************************)
EXTENDS TupleTable

CONSTANT Dims       \* the fields of a tuple: FieldSA and FieldDA

ASSUME DimsAssumption == Dims \subseteq Fields

(* Mutant: the lengths are shifted once too often. *)
KeyRulePrefix_Shifted(r) == [d \in Dims |-> 64 * PrefixLength[r][d]]

(* The key packs the lengths six bits each, which loses nothing of them *)
KeyRulePrefix(r) == [d \in Dims |-> PrefixLength[r][d]]
=============================================================================
