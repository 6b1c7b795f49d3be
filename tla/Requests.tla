------------------------------ MODULE Requests ------------------------------
(***************************************************************************)
(* The request sequence of an update simulation and the Bookkeeper it is   *)
(* computed with (src/src/Simulation.cpp and Simulation.h): a shuffled     *)
(* sequence of lookups, insertions and deletions is adjusted so that       *)
(* neither container of rules runs empty.                                  *)
(***************************************************************************)
EXTENDS RuleSet, FiniteSets, SequencesExt

CONSTANTS
  NumPacket, NumInsert, NumDelete,
  NoRule      \* Rule(), what GetOneRuleAndPop returns of an empty Bookkeeper

ASSUME RequestsAssumption ==
  /\ IsFiniteSet(Rules)
  /\ NumPacket \in Nat /\ NumInsert \in Nat /\ NumDelete \in Nat
  /\ NoRule \notin Rules

RequestType == {"ClassifyPacket", "Insertion", "Deletion"}

(* GenerateRequests: the requests in every order *)
Shuffles ==
  {q \in [1..(NumPacket + NumInsert + NumDelete) -> RequestType] :
     /\ Cardinality({i \in DOMAIN q : q[i] = "ClassifyPacket"}) = NumPacket
     /\ Cardinality({i \in DOMAIN q : q[i] = "Insertion"}) = NumInsert}

(* Bookkeeper::GetOneRuleAndPop, for an index in range *)
PoppedRule(b, i) == IF b = <<>> THEN NoRule ELSE b[i + 1]

(* Mutant: the rules behind the popped one move up. *)
PopRule_Shift(b, i) == IF b = <<>> THEN b ELSE RemoveAt(b, i + 1)

PopRule(b, i) == IF b = <<>> THEN b ELSE SwapRemove(b, i + 1)

-----------------------------------------------------------------------------
(* SetupComputation: a request that would take the number of rules in use  *)
(* out of 20 to 80 percent of the ruleset is exchanged for the furthest    *)
(* later one of the other kind.                                            *)

Blocked(type, size) ==
  \/ type = "Insertion" /\ 5 * size >= 4 * Cardinality(Rules)
  \/ type = "Deletion" /\ 5 * size <= Cardinality(Rules)

Opposite(type) == IF type = "Insertion" THEN "Deletion" ELSE "Insertion"

Change(type) ==
  CASE type = "Insertion" -> 1 [] type = "Deletion" -> -1 [] type = "ClassifyPacket" -> 0

(* Mutant: the exchange is not counted. *)
AdjustAt_Uncounted(s, i) ==
  LET type  == s.types[i]
      later == {j \in (i + 1)..Len(s.types) : s.types[j] = Opposite(type)}
  IN  IF ~ Blocked(type, s.size) THEN [s EXCEPT !.size = @ + Change(type)]
      ELSE IF later = {} THEN s
      ELSE [types |-> [s.types EXCEPT ![i] = Opposite(type), ![Max(later)] = type],
            size  |-> s.size]

AdjustAt(s, i) ==
  LET type  == s.types[i]
      later == {j \in (i + 1)..Len(s.types) : s.types[j] = Opposite(type)}
  IN  IF ~ Blocked(type, s.size) THEN [s EXCEPT !.size = @ + Change(type)]
      ELSE IF later = {} THEN s
      ELSE [types |-> [s.types EXCEPT ![i] = Opposite(type), ![Max(later)] = type],
            size  |-> s.size + Change(Opposite(type))]

Adjusted(types, size) ==
  LET f[i \in 0..Len(types)] ==
        IF i = 0 THEN [types |-> types, size |-> size] ELSE AdjustAt(f[i - 1], i)
  IN  f[Len(types)]

(* The second loop never changes current_size: it skips all requests of a  *)
(* kind, or none.  A skipped request keeps the index -1.  random_int(0, -1)*)
(* of an empty container may return anything.                              *)
Source(type, in_use, available) == IF type = "Insertion" THEN available ELSE in_use

Indices(type, size, source) ==
  IF type = "ClassifyPacket" \/ Blocked(type, size) THEN {-1}
  ELSE IF source = <<>> THEN {-1, 0}
  ELSE 0..(Len(source) - 1)
=============================================================================
