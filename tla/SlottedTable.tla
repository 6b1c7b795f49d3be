---------------------------- MODULE SlottedTable ----------------------------
(***************************************************************************)
(* SlottedTable (src/src/TupleMerge/SlottedTable.cpp): the rules whose     *)
(* prefixes are at least as long as the table's tuple, in a cmap under the *)
(* hash of their fields masked to the tuple.  Storing and finding in the   *)
(* cmap is what TupleTable does; insertion and deletion are given for the  *)
(* set of rules a caller inserts or deletes one after the other.           *)
(***************************************************************************)
EXTENDS TupleTable, FiniteSets

CONSTANTS FieldSA, FieldDA, FieldSP, FieldDP, FieldProto

ASSUME FieldsAssumption ==
  /\ Fields = {FieldSA, FieldDA, FieldSP, FieldDP, FieldProto}
  /\ FieldSA # FieldDA /\ FieldSP # FieldDP
  /\ FieldProto \notin {FieldSA, FieldDA, FieldSP, FieldDP}
  /\ {FieldSA, FieldDA} \cap {FieldSP, FieldDP} = {}

(* Dimify and Lengthify: a table hashes the fields in which its tuple asks *)
(* for more than the zero bits every value of the field begins with.       *)
ZeroBits(f) ==
  CASE f \in {FieldSA, FieldDA} -> 0
    [] f \in {FieldSP, FieldDP} -> 16
    [] f = FieldProto -> 24

Lengthify(tuple) == [f \in {d \in Fields : tuple[d] > ZeroBits(d)} |-> tuple[f]]

NewTable(tuple) ==
  [lengths |-> Lengthify(tuple), stored |-> {}, priorities |-> {}, maxPriority |-> -1]

CanInsert(t, tuple) == \A d \in DOMAIN t.lengths : t.lengths[d] <= tuple[d]

IsThatTuple(t, tuple) == t.lengths = Lengthify(tuple)

Priorities(S) == {Priority[r] : r \in S}

InsertionChanges(t, S) == Best(Priorities(S)) > t.maxPriority

(* Mutant: the maximum is not raised. *)
TableInsertion_KeepsMax(t, S) ==
  [t EXCEPT !.stored = @ \cup S,
            !.priorities = @ \cup Priorities(S),
            !.maxPriority = IF t.stored = {} THEN Best(Priorities(S)) ELSE @]

TableInsertion(t, S) ==
  [t EXCEPT !.stored = @ \cup S,
            !.priorities = @ \cup Priorities(S),
            !.maxPriority = IF InsertionChanges(t, S) THEN Best(Priorities(S)) ELSE @]

DeletionChanges(t, S) ==
  S # {} /\ (t.priorities \ Priorities(S) = {} \/ t.maxPriority \in Priorities(S))

TableDeletion(t, S) ==
  [t EXCEPT !.stored = {r \in @ : \A s \in S : r \in Without(t.lengths, @, s)},
            !.priorities = @ \ Priorities(S),
            !.maxPriority = IF DeletionChanges(t, S) THEN Best(t.priorities \ Priorities(S)) ELSE @]

(* Collisions: the rules of the table that have the hash of r *)
Collisions(t, r) == Chain(t.lengths, t.stored, HashRule(t.lengths, r))

ClassifyAPacketIn(t, p) == Best(Hits(t.lengths, t.stored, p))
=============================================================================
