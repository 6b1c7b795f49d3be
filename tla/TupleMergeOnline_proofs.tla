----------------------- MODULE TupleMergeOnline_proofs -----------------------
(***************************************************************************)
(* TupleMergeOnline never loses track of a rule, for every set of rules,   *)
(* every hash, every limit of collisions and every sequence of insertions  *)
(* and deletions.  TupleMergeOffline, constructed from any list of rules,  *)
(* begins with all of that in order, and with bounded tables.              *)
(***************************************************************************)
EXTENDS TupleMergeOffline, TupleTable_proofs, FiniteSetTheorems

-----------------------------------------------------------------------------
(* Tables *)

(* The table of these lengths that keeps the rules of S *)
TableOf(l, S) ==
  [lengths |-> l, stored |-> S, priorities |-> Priorities(S), maxPriority |-> Best(Priorities(S))]

(* The three accounts a table keeps of its rules agree. *)
IsTable(t) == t = TableOf(t.lengths, t.stored) /\ t.stored \subseteq Rules

LEMMA PrioritiesType ==
  ASSUME NEW S \in SUBSET Rules
  PROVE  Priorities(S) \in SUBSET (0..MaxPriority)
BY RuleSetAssumption DEF Priorities

LEMMA BestType ==
  ASSUME NEW S \in SUBSET Rules
  PROVE  Best(Priorities(S)) \in Int /\ Best(Priorities(S)) >= -1
<1>1. CASE Priorities(S) = {}
  BY <1>1 DEF Best
<1>2. CASE Priorities(S) # {}
  <2>1. Best(Priorities(S)) \in 0..MaxPriority
    BY <1>2, PrioritiesType, BestIsMax
  <2>. QED  BY <2>1, RuleSetAssumption
<1>. QED  BY <1>1, <1>2

LEMMA BestOfUnion ==
  ASSUME NEW S \in SUBSET Rules, NEW T \in SUBSET Rules
  PROVE  Best(Priorities(S \cup T)) =
           IF Best(Priorities(T)) > Best(Priorities(S)) THEN Best(Priorities(T)) ELSE Best(Priorities(S))
<1>. DEFINE A == Priorities(S)
            B == Priorities(T)
<1>1. Priorities(S \cup T) = A \cup B
  BY DEF Priorities
<1>2. A \in SUBSET (0..MaxPriority) /\ B \in SUBSET (0..MaxPriority) /\ MaxPriority \in Nat
  BY PrioritiesType, RuleSetAssumption
<1>. HIDE DEF A, B
<1>3. A # {} => Best(A) \in A /\ \A n \in A : n <= Best(A)
  BY <1>2, BestIsMax
<1>4. B # {} => Best(B) \in B /\ \A n \in B : n <= Best(B)
  BY <1>2, BestIsMax
<1>5. A = {} => Best(A) = -1
  BY DEF Best
<1>6. B = {} => Best(B) = -1
  BY DEF Best
<1>. DEFINE a == Best(A)
            b == Best(B)
<1>. HIDE DEF a, b
<1>7. CASE A = {} /\ B = {}
  <2>1. A \cup B = A /\ a = -1 /\ b = -1
    BY <1>5, <1>6, <1>7 DEF a, b
  <2>. QED  BY <1>1, <2>1 DEF a, b, A, B
<1>8. CASE A # {} \/ B # {}
  <2>1. A = {} => a = -1
    BY <1>5 DEF a
  <2>2. B = {} => b = -1
    BY <1>6 DEF b
  <2>3. A # {} => a \in A /\ \A n \in A : n <= a
    BY <1>3 DEF a
  <2>4. B # {} => b \in B /\ \A n \in B : n <= b
    BY <1>4 DEF b
  <2>5. (A # {} => a \in 0..MaxPriority) /\ (B # {} => b \in 0..MaxPriority)
    BY <1>2, <2>3, <2>4
  <2>. HIDE DEF A, B
  <2>6. A # {} => a \in Nat
    BY <1>2, <2>5
  <2>7. B # {} => b \in Nat
    BY <1>2, <2>5
  <2>8. A \cup B \in SUBSET Int
    BY <1>2
  <2>9. CASE b > a
    <3>1. B # {}
      BY <1>8, <2>1, <2>2, <2>6, <2>9
    <3>2. b \in A \cup B /\ \A n \in A \cup B : n <= b
      BY <1>2, <2>1, <2>3, <2>4, <2>6, <2>7, <2>9, <3>1
    <3>3. Best(A \cup B) = b
      BY <2>8, <3>2, BestUnique
    <3>. QED  BY <1>1, <2>9, <3>3 DEF a, b, A, B
  <2>10. CASE ~ (b > a)
    <3>1. A # {}
      BY <1>8, <2>1, <2>2, <2>7, <2>10
    <3>2. a \in A \cup B /\ \A n \in A \cup B : n <= a
      BY <1>2, <2>2, <2>3, <2>4, <2>6, <2>7, <2>10, <3>1
    <3>3. Best(A \cup B) = a
      BY <2>8, <3>2, BestUnique
    <3>. QED  BY <1>1, <2>10, <3>3 DEF a, b, A, B
  <2>. QED  BY <2>9, <2>10
<1>. QED  BY <1>7, <1>8

LEMMA InsertionInto ==
  ASSUME NEW l, NEW S \in SUBSET Rules, NEW T \in SUBSET Rules
  PROVE  TableInsertion(TableOf(l, S), T) = TableOf(l, S \cup T)
<1>. DEFINE b == Best(Priorities(T))
            c == Best(Priorities(S))
<1>1. Priorities(S \cup T) = Priorities(S) \cup Priorities(T)
  BY DEF Priorities
<1>2. Best(Priorities(S \cup T)) = IF b > c THEN b ELSE c
  BY BestOfUnion
<1>. HIDE DEF b, c
<1>3. PICK t : t = TableOf(l, S)
  OBVIOUS
<1>4. /\ t = [lengths |-> l, stored |-> S, priorities |-> Priorities(S), maxPriority |-> c]
      /\ t.lengths = l /\ t.stored = S /\ t.priorities = Priorities(S) /\ t.maxPriority = c
  BY <1>3 DEF TableOf, c
<1>. DEFINE d == IF InsertionChanges(t, T) THEN b ELSE c
<1>5. d = IF b > c THEN b ELSE c
  BY <1>4 DEF InsertionChanges, b
<1>6. TableInsertion(t, T) =
        [t EXCEPT !.stored = S \cup T, !.priorities = Priorities(S) \cup Priorities(T), !.maxPriority = d]
  BY <1>4 DEF TableInsertion, b
<1>. HIDE DEF d
<1>7. TableInsertion(t, T) =
        [lengths |-> l, stored |-> S \cup T, priorities |-> Priorities(S) \cup Priorities(T),
         maxPriority |-> d]
  BY <1>4, <1>6
<1>. QED  BY <1>1, <1>2, <1>3, <1>5, <1>7 DEF TableOf

LEMMA DeletionFrom ==
  ASSUME NEW l, NEW S \in SUBSET Rules, NEW T \in SUBSET S
  PROVE  TableDeletion(TableOf(l, S), T) = TableOf(l, S \ T)
<1>. DEFINE left == Priorities(S) \ Priorities(T)
            c == Best(Priorities(S))
            changes == T # {} /\ (left = {} \/ c \in Priorities(T))
<1>1. {r \in S : \A s \in T : r \in Without(l, S, s)} = S \ T
  <2>1. \A s \in T : Without(l, S, s) = S \ {s}
    BY WithoutRemoves
  <2>. QED  BY <2>1
<1>2. left = Priorities(S \ T)
  BY RuleSetAssumption DEF Priorities
<1>3. ~ changes => c = Best(left)
  <2>1. CASE T = {}
    BY <1>2, <2>1
  <2>2. ASSUME left # {}, c \notin Priorities(T)
        PROVE  c = Best(left)
    <3>1. Priorities(S) \in SUBSET (0..MaxPriority) /\ Priorities(S) # {} /\ MaxPriority \in Nat
      BY <2>2, PrioritiesType, RuleSetAssumption
    <3>2. c \in left /\ \A n \in left : n <= c
      BY <2>2, <3>1, BestIsMax
    <3>3. left \in SUBSET Int
      BY <3>1
    <3>. HIDE DEF left, c
    <3>. QED  BY <3>2, <3>3, BestUnique
  <2>. QED  BY <2>1, <2>2
<1>. HIDE DEF c
<1>4. PICK t : t = TableOf(l, S)
  OBVIOUS
<1>5. /\ t = [lengths |-> l, stored |-> S, priorities |-> Priorities(S), maxPriority |-> c]
      /\ t.lengths = l /\ t.stored = S /\ t.priorities = Priorities(S) /\ t.maxPriority = c
  BY <1>4 DEF TableOf, c
<1>. DEFINE d == IF DeletionChanges(t, T) THEN Best(left) ELSE c
            stored == {r \in S : \A s \in T : r \in Without(l, S, s)}
<1>6. DeletionChanges(t, T) <=> changes
  BY <1>5 DEF DeletionChanges
<1>7. d = Best(left)
  BY <1>3, <1>6
<1>8. TableDeletion(t, T) = [t EXCEPT !.stored = stored, !.priorities = left, !.maxPriority = d]
  BY <1>5 DEF TableDeletion
<1>. HIDE DEF d, stored, left
<1>9. TableDeletion(t, T) = [lengths |-> l, stored |-> stored, priorities |-> left, maxPriority |-> d]
  BY <1>5, <1>8
<1>. QED  BY <1>1, <1>2, <1>4, <1>7, <1>9 DEF TableOf, stored, left

LEMMA TableOfFields ==
  ASSUME NEW l, NEW S \in SUBSET Rules
  PROVE  /\ IsTable(TableOf(l, S)) /\ TableOf(l, S).lengths = l /\ TableOf(l, S).stored = S
         /\ TableOf(l, S).maxPriority = Best(Priorities(S))
BY DEF TableOf, IsTable

LEMMA InsertionTable ==
  ASSUME NEW t, IsTable(t), NEW T \in SUBSET Rules
  PROVE  /\ IsTable(TableInsertion(t, T))
         /\ TableInsertion(t, T).lengths = t.lengths
         /\ TableInsertion(t, T).stored = t.stored \cup T
         /\ ~ InsertionChanges(t, T) => TableInsertion(t, T).maxPriority = t.maxPriority
<1>1. t = TableOf(t.lengths, t.stored) /\ t.stored \subseteq Rules
  BY DEF IsTable
<1>2. TableInsertion(t, T) = TableOf(t.lengths, t.stored \cup T)
  BY <1>1, InsertionInto
<1>3. ~ InsertionChanges(t, T) => TableInsertion(t, T).maxPriority = t.maxPriority
  <2>1. ASSUME NEW l, NEW S, t = TableOf(l, S), ~ InsertionChanges(t, T)
        PROVE  TableInsertion(t, T).maxPriority = t.maxPriority
    BY <2>1 DEF TableInsertion, TableOf
  <2>. QED  BY <1>1, <2>1
<1>. QED  BY <1>1, <1>2, <1>3, TableOfFields

LEMMA DeletionTable ==
  ASSUME NEW t, IsTable(t), NEW T \in SUBSET t.stored
  PROVE  /\ IsTable(TableDeletion(t, T))
         /\ TableDeletion(t, T).lengths = t.lengths
         /\ TableDeletion(t, T).stored = t.stored \ T
         /\ ~ DeletionChanges(t, T) => TableDeletion(t, T).maxPriority = t.maxPriority
<1>1. t = TableOf(t.lengths, t.stored) /\ t.stored \subseteq Rules
  BY DEF IsTable
<1>2. TableDeletion(t, T) = TableOf(t.lengths, t.stored \ T)
  BY <1>1, DeletionFrom
<1>3. ~ DeletionChanges(t, T) => TableDeletion(t, T).maxPriority = t.maxPriority
  <2>1. ASSUME NEW l, NEW S, t = TableOf(l, S), ~ DeletionChanges(t, T)
        PROVE  TableDeletion(t, T).maxPriority = t.maxPriority
    BY <2>1 DEF TableDeletion, TableOf
  <2>. QED  BY <1>1, <2>1
<1>. QED  BY <1>1, <1>2, <1>3, TableOfFields

LEMMA TableMax ==
  ASSUME NEW t, IsTable(t)
  PROVE  t.maxPriority \in Int /\ t.maxPriority >= -1
BY BestType DEF IsTable, TableOf

LEMMA NewTableOf ==
  \A tuple : /\ IsTable(NewTable(tuple)) /\ NewTable(tuple).stored = {}
             /\ NewTable(tuple).lengths = Lengthify(tuple) /\ NewTable(tuple).maxPriority = -1
BY DEF NewTable, TableOf, IsTable, Priorities, Best

-----------------------------------------------------------------------------
(* The vector of tables *)

SortedBy(ts, h) ==
  \A i, j \in DOMAIN ts : i < j => h[ts[i]].maxPriority >= h[ts[j]].maxPriority

LEMMA ResortFacts ==
  ASSUME NEW D, NEW ts \in Seq(D), NEW h, NEW q \in Resort(ts, h),
         \A t \in Elems(ts) : h[t].maxPriority \in Int
  PROVE  q \in Seq(D) /\ NoDuplicates(q) /\ Elems(q) = Elems(ts) /\ SortedBy(q, h)
<1>1. /\ q \in [DOMAIN ts -> Elems(ts)] /\ Elems(q) = Elems(ts)
      /\ \A i, j \in DOMAIN q : i < j => /\ q[i] # q[j]
                                         /\ h[q[i]].maxPriority >= h[q[j]].maxPriority
  BY DEF Resort
<1>2. DOMAIN ts = 1..Len(ts) /\ Len(ts) \in Nat /\ Elems(ts) \subseteq D
  BY DEF Elems
<1>3. q \in Seq(D)
  <2>1. q \in [1..Len(ts) -> D]
    BY <1>1, <1>2
  <2>. QED  BY <1>2, <2>1
<1>4. NoDuplicates(q)
  <2>1. \A i, j \in DOMAIN q : i < j \/ j < i \/ i = j
    BY <1>1, <1>2
  <2>. QED  BY <1>1, <2>1 DEF NoDuplicates
<1>. QED  BY <1>1, <1>3, <1>4 DEF SortedBy

(* Whether it is sorted or not, the vector keeps its tables. *)
LEMMA ResortIfKeeps ==
  ASSUME NEW D, NEW ts \in Seq(D), NoDuplicates(ts), NEW h, NEW changed, ResortIf(changed, ts, h),
         \A t \in Elems(ts) : h[t].maxPriority \in Int, ~ changed => SortedBy(ts, h)
  PROVE  tables' \in Seq(D) /\ NoDuplicates(tables') /\ Elems(tables') = Elems(ts) /\ SortedBy(tables', h)
<1>1. CASE changed
  <2>1. tables' \in Resort(ts, h)
    BY <1>1 DEF ResortIf
  <2>. QED  BY <2>1, ResortFacts
<1>2. CASE ~ changed
  BY <1>2 DEF ResortIf
<1>. QED  BY <1>1, <1>2

LEMMA LowestIn ==
  ASSUME NEW N \in SUBSET Nat, N # {}
  PROVE  Lowest(N) \in N
BY LeastNat DEF Lowest

LEMMA FreshIsFree ==
  ASSUME NEW h, IsFiniteSet(DOMAIN h)
  PROVE  Fresh(h) \in Nat /\ Fresh(h) \notin DOMAIN h
<1>. DEFINE n == Cardinality(DOMAIN h)
            N == (1..(n + 1)) \ DOMAIN h
<1>1. n \in Nat
  BY FS_CardinalityType
<1>2. N # {}
  <2>. SUFFICES ASSUME 1..(n + 1) \subseteq DOMAIN h PROVE FALSE
    OBVIOUS
  <2>1. Cardinality(1..(n + 1)) <= n
    BY FS_Subset
  <2>2. Cardinality(1..(n + 1)) = n + 1
    BY <1>1, FS_Interval
  <2>. QED  BY <1>1, <2>1, <2>2
<1>3. Lowest(N) \in N
  BY <1>1, <1>2, LowestIn
<1>. QED  BY <1>1, <1>3 DEF Fresh

-----------------------------------------------------------------------------
(* The inductive invariant *)

HeapOK ==
  /\ heap = [t \in DOMAIN heap |-> heap[t]]
  /\ IsFiniteSet(DOMAIN heap) /\ DOMAIN heap \subseteq Nat
  /\ \A t \in DOMAIN heap : IsTable(heap[t])

TablesOK == tables \in Seq(DOMAIN heap) /\ NoDuplicates(tables)

RulesOK ==
  /\ rules \in Seq(Rules) /\ NoDuplicates(rules)
  /\ assignments = [n \in Priorities(Elems(rules)) |-> assignments[n]]

(* Every table stores the rules assigned to it. *)
StoredWhereAssigned ==
  /\ \A r \in Elems(rules) : assignments[Priority[r]] \in DOMAIN heap
  /\ \A t \in DOMAIN heap : heap[t].stored = {r \in Elems(rules) : assignments[Priority[r]] = t}

Inv == RulesOK /\ HeapOK /\ TablesOK /\ StoredWhereAssigned /\ FitsItsTable /\ SortedByPriority

(* What was searched before a step and is present after it is searched.    *)
StaysListed ==
  \A s \in Elems(rules) \cap Elems(rules') :
    assignments[Priority[s]] \in Elems(tables) => assignments'[Priority[s]] \in Elems(tables')

LEMMA InitInv == Init => Inv
<1>. SUFFICES ASSUME Init PROVE Inv
  OBVIOUS
<1>1. /\ rules = <<>> /\ heap = <<>> /\ tables = <<>> /\ assignments = <<>>
      /\ DOMAIN heap = {} /\ DOMAIN tables = {}
  BY DEF Init
<1>2. Elems(rules) = {}
  BY <1>1 DEF Elems
<1>3. RulesOK
  BY <1>1, <1>2 DEF RulesOK, NoDuplicates, Priorities
<1>4. HeapOK
  BY <1>1, FS_EmptySet DEF HeapOK
<1>5. TablesOK
  BY <1>1 DEF TablesOK, NoDuplicates
<1>6. FitsItsTable /\ SortedByPriority /\ StoredWhereAssigned
  BY <1>1, <1>2 DEF FitsItsTable, SortedByPriority, StoredWhereAssigned
<1>. QED  BY <1>3, <1>4, <1>5, <1>6 DEF Inv

LEMMA SamePriority ==
  ASSUME NEW r \in Rules, NEW S \in SUBSET Rules
  PROVE  Priority[r] \in Priorities(S) <=> r \in S
BY RuleSetAssumption DEF Priorities

(* Where the tables are sorted by h, and h keeps the best priorities of    *)
(* the listed ones *)
LEMMA StillSorted ==
  ASSUME NEW ts, NEW h, NEW g, SortedBy(ts, h), \A t \in Elems(ts) : g[t].maxPriority = h[t].maxPriority
  PROVE  SortedBy(ts, g)
BY DEF SortedBy, Elems

-----------------------------------------------------------------------------
(* InsertRule *)

(* What the new rule changes in rules and assignments *)
LEMMA RuleAdded ==
  ASSUME Inv, NEW r \in Rules, r \notin Elems(rules), rules' = Append(rules, r)
  PROVE  /\ rules' \in Seq(Rules) /\ NoDuplicates(rules') /\ Elems(rules') = Elems(rules) \cup {r}
         /\ Elems(rules) \subseteq Rules
         /\ Priorities(Elems(rules')) = Priorities(Elems(rules)) \cup {Priority[r]}
<1>1. rules \in Seq(Rules) /\ NoDuplicates(rules)
  BY DEF Inv, RulesOK
<1>2. rules' \in Seq(Rules) /\ NoDuplicates(rules') /\ Elems(rules') = Elems(rules) \cup {r}
  BY <1>1, AppendElems
<1>3. Elems(rules) \subseteq Rules
  BY <1>1 DEF Elems
<1>. QED  BY <1>2, <1>3 DEF Priorities

LEMMA AssignFacts ==
  ASSUME Inv, NEW r \in Rules, NEW t
  PROVE  /\ DOMAIN Assign({r}, t) = Priorities(Elems(rules)) \cup {Priority[r]}
         /\ Assign({r}, t)[Priority[r]] = t
<1>1. DOMAIN assignments = Priorities(Elems(rules))
  BY DEF Inv, RulesOK
<1>2. Priorities({r}) = {Priority[r]}
  BY DEF Priorities
<1>. QED  BY <1>1, <1>2 DEF Assign

LEMMA OthersStay ==
  ASSUME Inv, NEW r \in Rules, r \notin Elems(rules), NEW t
  PROVE  \A s \in Elems(rules) : Assign({r}, t)[Priority[s]] = assignments[Priority[s]]
<1>1. \A s \in Elems(rules) : s \in Rules /\ s # r
  BY DEF Inv, RulesOK, Elems
<1>2. \A s \in Elems(rules) : Priority[s] # Priority[r] /\ Priority[s] \in Priorities(Elems(rules))
  BY <1>1, RuleSetAssumption DEF Priorities
<1>3. \A n \in Priorities(Elems(rules)) : n # Priority[r] => Assign({r}, t)[n] = assignments[n]
  <2>1. DOMAIN assignments = Priorities(Elems(rules)) /\ Priorities({r}) = {Priority[r]}
    BY DEF Inv, RulesOK, Priorities
  <2>. QED  BY <2>1 DEF Assign
<1>. QED  BY <1>2, <1>3

(* The prefixes that are not relaxed to nothing are not longer than the    *)
(* rule's own.                                                             *)
LEMMA RelaxedFits ==
  ASSUME NEW tuple \in [Fields -> 0..32]
  PROVE  CanInsert(NewTable(Relax(tuple)), tuple)
<1>. DEFINE delta == tuple[FieldSA] - tuple[FieldDA]
            t == CASE -delta > 4 -> [tuple EXCEPT ![FieldSA] = 0, ![FieldSP] = 16]
                   [] delta > 4  -> [tuple EXCEPT ![FieldDA] = 0, ![FieldDP] = 16]
                   [] OTHER      -> tuple
            q == Relax(tuple)
<1>1. FieldSA \in Fields /\ FieldDA \in Fields /\ FieldSP \in Fields /\ FieldDP \in Fields
  BY FieldsAssumption
<1>2. \A n \in 0..32 : RelaxLength(n) \in 0..32 /\ RelaxLength(n) <= n
  BY DEF RelaxLength
<1>3. \/ t = [tuple EXCEPT ![FieldSA] = 0, ![FieldSP] = 16]
      \/ t = [tuple EXCEPT ![FieldDA] = 0, ![FieldDP] = 16]
      \/ t = tuple
  <2>1. delta \in Int
    BY <1>1
  <2>. HIDE DEF delta
  <2>. QED  BY <2>1
<1>4. q = [t EXCEPT ![FieldSA] = RelaxLength(t[FieldSA]), ![FieldDA] = RelaxLength(t[FieldDA])]
  BY DEF Relax
<1>. HIDE DEF t, q
<1>5. ZeroBits(FieldSP) = 16 /\ ZeroBits(FieldDP) = 16
  BY FieldsAssumption DEF ZeroBits
<1>6. t \in [Fields -> 0..32] /\ \A f \in Fields : t[f] <= tuple[f] \/ t[f] = ZeroBits(f)
  BY <1>1, <1>3, <1>5, FieldsAssumption
<1>7. ASSUME NEW f \in Fields, q[f] > ZeroBits(f)
      PROVE  q[f] <= tuple[f]
  <2>1. f \in {FieldSA, FieldDA} => q[f] = RelaxLength(t[f])
    BY <1>1, <1>4, <1>6
  <2>2. f \notin {FieldSA, FieldDA} => q[f] = t[f]
    BY <1>1, <1>4, <1>6
  <2>3. q[f] <= t[f] /\ t[f] \in 0..32 /\ tuple[f] \in 0..32 /\ q[f] \in 0..32
    BY <1>2, <1>6, <2>1, <2>2
  <2>4. t[f] # ZeroBits(f)
    <3>1. f \in {FieldSA, FieldDA} => ZeroBits(f) = 0
      BY FieldsAssumption DEF ZeroBits
    <3>. QED  BY <1>7, <2>1, <2>2, <2>3, <3>1
  <2>. QED  BY <1>6, <2>3, <2>4
<1>8. NewTable(q).lengths = Lengthify(q)
  BY NewTableOf
<1>9. DOMAIN Lengthify(q) = {f \in Fields : q[f] > ZeroBits(f)}
      /\ \A f \in DOMAIN Lengthify(q) : Lengthify(q)[f] = q[f]
  BY DEF Lengthify
<1>. QED  BY <1>7, <1>8, <1>9 DEF CanInsert, q

LEMMA InsertIntoInv ==
  ASSUME Inv, NEW r \in Rules, r \notin Elems(rules), rules' = Append(rules, r),
         NEW t \in Elems(tables), CanInsert(heap[t], PreferedTuple(r)), InsertInto(r, t)
  PROVE  Inv' /\ StaysListed
<1>. DEFINE g == TableInsertion(heap[t], {r})
<1>1. t \in DOMAIN heap /\ IsTable(heap[t]) /\ r \in Rules
  BY DEF Inv, TablesOK, HeapOK, Elems
<1>2. heap' = [heap EXCEPT ![t] = g] /\ assignments' = Assign({r}, t)
  BY DEF InsertInto
<1>3. /\ IsTable(g) /\ g.lengths = heap[t].lengths /\ g.stored = heap[t].stored \cup {r}
      /\ ~ InsertionChanges(heap[t], {r}) => g.maxPriority = heap[t].maxPriority
  BY <1>1, InsertionTable
<1>4. DOMAIN heap' = DOMAIN heap /\ heap'[t] = g /\ \A u \in DOMAIN heap \ {t} : heap'[u] = heap[u]
  BY <1>1, <1>2 DEF Inv, HeapOK
<1>5. ResortIf(InsertionChanges(heap[t], {r}), tables, heap')
  BY <1>2 DEF InsertInto
<1>. HIDE DEF g
<1>6. RulesOK'
  BY <1>2, RuleAdded, AssignFacts DEF RulesOK, Assign
<1>7. HeapOK'
  BY <1>1, <1>2, <1>3, <1>4 DEF Inv, HeapOK
<1>8. StoredWhereAssigned'
  <2>1. \A s \in Elems(rules) : assignments'[Priority[s]] = assignments[Priority[s]]
    BY <1>2, OthersStay
  <2>2. assignments'[Priority[r]] = t /\ Elems(rules') = Elems(rules) \cup {r}
    BY <1>2, AssignFacts, RuleAdded
  <2>. QED  BY <1>1, <1>3, <1>4, <2>1, <2>2 DEF Inv, StoredWhereAssigned
<1>9. FitsItsTable'
  BY <1>1, <1>3, <1>4 DEF Inv, FitsItsTable, CanInsert
<1>10. TablesOK' /\ SortedBy(tables', heap') /\ Elems(tables') = Elems(tables)
  <2>1. tables \in Seq(DOMAIN heap) /\ NoDuplicates(tables) /\ Elems(tables) \subseteq DOMAIN heap
    BY DEF Inv, TablesOK, Elems
  <2>2. \A u \in Elems(tables) : heap'[u].maxPriority \in Int
    BY <1>4, <1>7, <2>1, BestType DEF HeapOK, IsTable, TableOf
  <2>3. ~ InsertionChanges(heap[t], {r}) => SortedBy(tables, heap')
    <3>. SUFFICES ASSUME ~ InsertionChanges(heap[t], {r}) PROVE SortedBy(tables, heap')
      OBVIOUS
    <3>1. \A u \in Elems(tables) : heap'[u].maxPriority = heap[u].maxPriority
      BY <1>3, <1>4, <2>1
    <3>2. SortedBy(tables, heap)
      BY DEF Inv, SortedByPriority, SortedBy
    <3>. QED  BY <3>1, <3>2, StillSorted
  <2>. QED  BY <1>4, <1>5, <2>1, <2>2, <2>3, ResortIfKeeps DEF TablesOK
<1>11. StaysListed
  <2>1. \A s \in Elems(rules) : assignments'[Priority[s]] = assignments[Priority[s]]
    BY <1>2, OthersStay
  <2>. QED  BY <1>10, <2>1 DEF StaysListed
<1>. QED  BY <1>6, <1>7, <1>8, <1>9, <1>10, <1>11 DEF Inv, SortedByPriority, SortedBy

LEMMA InsertNewInv ==
  ASSUME Inv, NEW r \in Rules, r \notin Elems(rules), rules' = Append(rules, r), InsertNew(r)
  PROVE  Inv' /\ StaysListed
<1>. DEFINE t == Fresh(heap)
            new == NewTable(Relax(PreferedTuple(r)))
            g == TableInsertion(new, {r})
<1>1. t \in Nat /\ t \notin DOMAIN heap
  BY FreshIsFree DEF Inv, HeapOK
<1>2. IsTable(new) /\ new.stored = {}
  BY NewTableOf
<1>3. IsTable(g) /\ g.lengths = new.lengths /\ g.stored = {r}
  BY <1>2, InsertionTable
<1>4. CanInsert(new, PreferedTuple(r))
  BY RelaxedFits, RuleSetAssumption DEF PreferedTuple
<1>5. /\ heap' = Allocated(heap, t, g) /\ assignments' = Assign({r}, t)
      /\ ResortIf(TRUE, Append(tables, t), heap')
  BY DEF InsertNew
<1>. HIDE DEF g, new, t
<1>6. heap' = [u \in DOMAIN heap \cup {t} |-> IF u = t THEN g ELSE heap[u]]
  BY <1>5 DEF Allocated
<1>7. /\ DOMAIN heap' = DOMAIN heap \cup {t} /\ heap'[t] = g
      /\ \A u \in DOMAIN heap : heap'[u] = heap[u]
  BY <1>1, <1>6
<1>8. RulesOK'
  BY <1>5, RuleAdded, AssignFacts DEF RulesOK, Assign
<1>9. HeapOK'
  <2>1. IsFiniteSet(DOMAIN heap')
    BY <1>7, FS_AddElement DEF Inv, HeapOK
  <2>. QED  BY <1>1, <1>3, <1>6, <1>7, <2>1 DEF Inv, HeapOK
<1>10. StoredWhereAssigned'
  <2>1. \A s \in Elems(rules) : assignments'[Priority[s]] = assignments[Priority[s]]
    BY <1>5, OthersStay
  <2>2. assignments'[Priority[r]] = t /\ Elems(rules') = Elems(rules) \cup {r}
    BY <1>5, AssignFacts, RuleAdded
  <2>. QED  BY <1>1, <1>3, <1>7, <2>1, <2>2 DEF Inv, StoredWhereAssigned
<1>11. FitsItsTable'
  BY <1>1, <1>3, <1>4, <1>7 DEF Inv, FitsItsTable, CanInsert
<1>12. TablesOK' /\ SortedBy(tables', heap') /\ Elems(tables) \subseteq Elems(tables')
  <2>1. tables \in Seq(DOMAIN heap') /\ NoDuplicates(tables) /\ t \notin Elems(tables)
    BY <1>1, <1>7 DEF Inv, TablesOK, Elems
  <2>2. Append(tables, t) \in Seq(DOMAIN heap') /\ NoDuplicates(Append(tables, t))
    BY <1>7, <2>1, AppendElems
  <2>3. \A u \in Elems(Append(tables, t)) : heap'[u].maxPriority \in Int
    BY <1>9, <2>2, BestType DEF HeapOK, IsTable, TableOf, Elems
  <2>4. Elems(tables) \subseteq Elems(Append(tables, t))
    BY <1>7, <2>1, AppendElems
  <2>. QED  BY <1>5, <2>2, <2>3, <2>4, ResortIfKeeps DEF TablesOK
<1>13. StaysListed
  <2>1. \A s \in Elems(rules) : assignments'[Priority[s]] = assignments[Priority[s]]
    BY <1>5, OthersStay
  <2>. QED  BY <1>12, <2>1 DEF StaysListed
<1>. QED  BY <1>8, <1>9, <1>10, <1>11, <1>12, <1>13 DEF Inv, SortedByPriority, SortedBy

(* A split moves what fits the other table, which may be a table already   *)
(* listed, a new one, or the full table itself.                            *)
LEMMA InsertAndSplitInv ==
  ASSUME Inv, NEW r \in Rules, r \notin Elems(rules), rules' = Append(rules, r),
         NEW t \in Elems(tables), CanInsert(heap[t], PreferedTuple(r)), InsertAndSplit(r, t)
  PROVE  Inv' /\ StaysListed
<1>. DEFINE h == [heap EXCEPT ![t] = TableInsertion(heap[t], {r})]
            tuple == SplitTuple(Collisions(h[t], r))
            target == FindOrMake(tuple, h)
            made == IF target \in DOMAIN h THEN h ELSE Allocated(h, target, NewTable(tuple))
            moved == {s \in h[t].stored : CanInsert(made[target], PreferedTuple(s))}
            left == [made EXCEPT ![t] = TableDeletion(made[t], moved)]
            listed == IF target \in Elems(tables) THEN tables ELSE Append(tables, target)
            changed == \/ InsertionChanges(heap[t], {r})
                       \/ DeletionChanges(h[t], moved)
                       \/ InsertionChanges(left[target], moved)
            a == Assign({r}, t)
<1>1. /\ heap' = [left EXCEPT ![target] = TableInsertion(left[target], moved)]
      /\ assignments' = [n \in DOMAIN a |-> IF n \in Priorities(moved) THEN target ELSE a[n]]
      /\ ResortIf(changed, listed, heap')
  BY Zenon DEF InsertAndSplit
<1>2. /\ RulesOK /\ HeapOK /\ TablesOK /\ StoredWhereAssigned /\ FitsItsTable /\ SortedBy(tables, heap)
      /\ t \in DOMAIN heap /\ Elems(tables) \subseteq DOMAIN heap
  BY DEF Inv, SortedByPriority, SortedBy, TablesOK, Elems
<1>3. /\ IsTable(h[t]) /\ h[t].lengths = heap[t].lengths /\ h[t].stored = heap[t].stored \cup {r}
      /\ ~ InsertionChanges(heap[t], {r}) => h[t].maxPriority = heap[t].maxPriority
      /\ DOMAIN h = DOMAIN heap /\ \A u \in DOMAIN heap \ {t} : h[u] = heap[u]
      /\ h = [u \in DOMAIN h |-> h[u]]
  BY <1>2, InsertionTable DEF HeapOK
<1>. HIDE DEF h
<1>4. target \in Nat /\ (target \in DOMAIN h <=> target \in Elems(tables))
  <2>. DEFINE same == {i \in DOMAIN tables : IsThatTuple(h[tables[i]], tuple)}
  <2>1. CASE same # {}
    <3>1. same \in SUBSET Nat
      BY <1>2 DEF TablesOK
    <3>2. Lowest(same) \in DOMAIN tables
      BY <2>1, <3>1, LowestIn
    <3>. QED  BY <1>2, <1>3, <2>1, <3>2 DEF FindOrMake, Elems, HeapOK
  <2>2. CASE same = {}
    <3>1. target = Fresh(h)
      BY <2>2 DEF FindOrMake
    <3>. QED  BY <1>2, <1>3, <3>1, FreshIsFree DEF HeapOK
  <2>. QED  BY <2>1, <2>2
<1>. HIDE DEF target
<1>5. /\ DOMAIN made = DOMAIN heap \cup {target} /\ made = [u \in DOMAIN made |-> made[u]]
      /\ \A u \in DOMAIN heap : made[u] = h[u]
      /\ target \notin DOMAIN heap => made[target] = NewTable(tuple)
  BY <1>3 DEF Allocated
<1>. HIDE DEF made, tuple
<1>6. IsTable(made[target]) /\ (target \notin DOMAIN heap => made[target].stored = {} /\ made[target].maxPriority = -1)
  BY <1>2, <1>3, <1>5, NewTableOf DEF HeapOK
<1>7. moved \subseteq h[t].stored /\ moved \subseteq Rules
  BY <1>3 DEF IsTable
<1>8. \A s \in moved : CanInsert(made[target], PreferedTuple(s))
  OBVIOUS
<1>. HIDE DEF moved
<1>9. /\ IsTable(left[t]) /\ left[t].lengths = heap[t].lengths /\ left[t].stored = h[t].stored \ moved
      /\ ~ DeletionChanges(h[t], moved) => left[t].maxPriority = h[t].maxPriority
      /\ DOMAIN left = DOMAIN made /\ \A u \in DOMAIN made \ {t} : left[u] = made[u]
      /\ left = [u \in DOMAIN left |-> left[u]]
  <2>1. made[t] = h[t] /\ t \in DOMAIN made
    BY <1>2, <1>5
  <2>. DEFINE g == TableDeletion(h[t], moved)
  <2>2. /\ IsTable(g) /\ g.lengths = heap[t].lengths /\ g.stored = h[t].stored \ moved
        /\ ~ DeletionChanges(h[t], moved) => g.maxPriority = h[t].maxPriority
    BY <1>3, <1>7, DeletionTable
  <2>3. left = [made EXCEPT ![t] = g]
    BY <2>1
  <2>. HIDE DEF g, left
  <2>4. /\ left[t] = g /\ DOMAIN left = DOMAIN made /\ \A u \in DOMAIN made \ {t} : left[u] = made[u]
        /\ left = [u \in DOMAIN left |-> left[u]]
    BY <1>5, <2>1, <2>3
  <2>. QED  BY <2>2, <2>4
<1>10. left[target].lengths = made[target].lengths /\ IsTable(left[target])
  BY <1>2, <1>3, <1>5, <1>6, <1>9
<1>. HIDE DEF left
<1>11. /\ IsTable(heap'[target]) /\ heap'[target].lengths = made[target].lengths
       /\ heap'[target].stored = left[target].stored \cup moved
       /\ ~ InsertionChanges(left[target], moved) => heap'[target].maxPriority = left[target].maxPriority
       /\ DOMAIN heap' = DOMAIN heap \cup {target} /\ \A u \in DOMAIN heap \ {target} : heap'[u] = left[u]
       /\ heap' = [u \in DOMAIN heap' |-> heap'[u]]
  <2>. DEFINE g == TableInsertion(left[target], moved)
  <2>1. /\ IsTable(g) /\ g.lengths = made[target].lengths /\ g.stored = left[target].stored \cup moved
        /\ ~ InsertionChanges(left[target], moved) => g.maxPriority = left[target].maxPriority
    BY <1>7, <1>10, InsertionTable
  <2>. HIDE DEF g
  <2>2. /\ heap' = [left EXCEPT ![target] = g] /\ DOMAIN left = DOMAIN heap \cup {target}
        /\ left = [u \in DOMAIN left |-> left[u]]
    BY <1>1, <1>5, <1>9 DEF g
  <2>3. /\ heap'[target] = g /\ DOMAIN heap' = DOMAIN heap \cup {target}
        /\ \A u \in DOMAIN heap \ {target} : heap'[u] = left[u]
        /\ heap' = [u \in DOMAIN heap' |-> heap'[u]]
    BY <2>2
  <2>. QED  BY <2>1, <2>3
<1>12. \A u \in DOMAIN heap \ {t, target} : heap'[u] = heap[u]
  BY <1>3, <1>5, <1>9, <1>11
<1>13. t # target => heap'[t] = left[t] /\ left[target] = made[target]
  BY <1>2, <1>5, <1>9, <1>11
<1>14. /\ Elems(rules) \subseteq Rules /\ Elems(rules') = Elems(rules) \cup {r}
       /\ \A s \in Elems(rules) : a[Priority[s]] = assignments[Priority[s]]
       /\ a[Priority[r]] = t /\ DOMAIN a = Priorities(Elems(rules'))
  <2>1. DOMAIN a = Priorities(Elems(rules)) \cup {Priority[r]} /\ a[Priority[r]] = t
    BY AssignFacts
  <2>2. \A s \in Elems(rules) : a[Priority[s]] = assignments[Priority[s]]
    BY OthersStay
  <2>. HIDE DEF a
  <2>. QED  BY <2>1, <2>2, RuleAdded
<1>15. \A s \in Elems(rules') : assignments'[Priority[s]] = IF s \in moved THEN target ELSE a[Priority[s]]
  <2>1. \A s \in Elems(rules') : Priority[s] \in DOMAIN a /\ s \in Rules
    BY <1>14 DEF Priorities
  <2>. QED  BY <1>1, <1>7, <2>1, SamePriority
<1>16. RulesOK'
  BY <1>1, <1>14, RuleAdded DEF RulesOK
<1>. HIDE DEF a
<1>17. HeapOK'
  <2>1. IsFiniteSet(DOMAIN heap')
    BY <1>2, <1>11, FS_AddElement DEF HeapOK
  <2>2. \A u \in DOMAIN heap' : IsTable(heap'[u])
    BY <1>2, <1>9, <1>11, <1>12, <1>13 DEF HeapOK
  <2>. QED  BY <1>2, <1>4, <1>11, <2>1, <2>2 DEF HeapOK
<1>18. StoredWhereAssigned'
  <2>1. \A s \in moved : s \in Elems(rules')
    BY <1>2, <1>3, <1>7, <1>14 DEF StoredWhereAssigned
  <2>2. ASSUME NEW s \in Elems(rules')
        PROVE  assignments'[Priority[s]] \in DOMAIN heap'
    BY <1>2, <1>11, <1>14, <1>15, <2>2 DEF StoredWhereAssigned
  <2>3. ASSUME NEW u \in DOMAIN heap \ {t, target}
        PROVE  heap'[u].stored = {s \in Elems(rules') : assignments'[Priority[s]] = u}
    <3>1. heap'[u].stored = {s \in Elems(rules) : assignments[Priority[s]] = u}
      BY <1>2, <1>12 DEF StoredWhereAssigned
    <3>2. \A s \in moved : s = r \/ assignments[Priority[s]] = t
      BY <1>2, <1>3, <1>7 DEF StoredWhereAssigned
    <3>. QED  BY ZenonT(40), <1>14, <1>15, <2>3, <3>1, <3>2
  <2>4. heap[t].stored = {s \in Elems(rules) : assignments[Priority[s]] = t}
    BY <1>2 DEF StoredWhereAssigned
  <2>5. h[t].stored = {s \in Elems(rules') : a[Priority[s]] = t}
    BY <1>3, <1>14, <2>4
  <2>6. ASSUME t # target
        PROVE  heap'[t].stored = {s \in Elems(rules') : assignments'[Priority[s]] = t}
    <3>1. heap'[t].stored = h[t].stored \ moved
      BY <1>9, <1>13, <2>6
    <3>. QED  BY <1>15, <2>5, <2>6, <3>1
  <2>7. heap'[target].stored = {s \in Elems(rules') : assignments'[Priority[s]] = target}
    <3>1. CASE t = target
      <4>1. heap'[target].stored = h[t].stored
        BY <1>7, <1>9, <1>11, <3>1
      <4>2. moved \subseteq h[t].stored
        BY <1>7
      <4>. QED  BY <1>15, <2>5, <3>1, <4>1, <4>2
    <3>2. CASE t # target
      <4>1. heap'[target].stored = made[target].stored \cup moved
        BY <1>11, <1>13, <3>2
      <4>2. made[target].stored = {s \in Elems(rules') : a[Priority[s]] = target}
        <5>1. made[target].stored = {s \in Elems(rules) : assignments[Priority[s]] = target}
          BY <1>2, <1>3, <1>5, <1>6, <3>2 DEF StoredWhereAssigned
        <5>. QED  BY <1>14, <3>2, <5>1
      <4>. QED  BY <1>15, <2>1, <4>1, <4>2
    <3>. QED  BY <3>1, <3>2
  <2>. QED  BY <1>11, <2>2, <2>3, <2>6, <2>7 DEF StoredWhereAssigned
<1>19. FitsItsTable'
  <2>1. \A s \in h[t].stored : CanInsert(heap[t], PreferedTuple(s))
    BY <1>2, <1>3 DEF FitsItsTable
  <2>2. ASSUME NEW u \in DOMAIN heap \ {t, target}, NEW s \in heap'[u].stored
        PROVE  CanInsert(heap'[u], PreferedTuple(s))
    BY <1>2, <1>12 DEF FitsItsTable
  <2>3. ASSUME t # target, NEW s \in heap'[t].stored
        PROVE  CanInsert(heap'[t], PreferedTuple(s))
    BY <1>9, <1>13, <2>1, <2>3 DEF CanInsert
  <2>4. ASSUME NEW s \in made[target].stored
        PROVE  CanInsert(made[target], PreferedTuple(s))
    <3>1. target \in DOMAIN heap
      BY <1>6
    <3>. QED  BY <1>2, <1>3, <1>5, <2>1, <3>1 DEF FitsItsTable, CanInsert
  <2>5. ASSUME NEW s \in heap'[target].stored
        PROVE  CanInsert(heap'[target], PreferedTuple(s))
    <3>1. left[target].stored \subseteq made[target].stored
      BY <1>2, <1>5, <1>9, <1>13
    <3>. QED  BY <1>8, <1>11, <2>4, <2>5, <3>1 DEF CanInsert
  <2>. QED  BY <1>11, <2>2, <2>3, <2>5 DEF FitsItsTable
<1>20. /\ listed \in Seq(DOMAIN heap') /\ NoDuplicates(listed)
       /\ Elems(tables) \subseteq Elems(listed) /\ target \in Elems(listed)
  <2>1. tables \in Seq(DOMAIN heap') /\ NoDuplicates(tables)
    BY <1>2, <1>11 DEF TablesOK
  <2>. QED  BY <1>11, <2>1, AppendElems
<1>21. \A u \in DOMAIN heap' : heap'[u].maxPriority \in Int /\ heap'[u].maxPriority >= -1
  BY <1>17, BestType DEF HeapOK, IsTable, TableOf
<1>22. ~ changed => SortedBy(listed, heap')
  <2>. SUFFICES ASSUME ~ changed PROVE SortedBy(listed, heap')
    OBVIOUS
  <2>1. \A u \in DOMAIN heap : heap'[u].maxPriority = heap[u].maxPriority
    BY <1>2, <1>3, <1>5, <1>9, <1>11, <1>12, <1>13
  <2>2. SortedBy(tables, heap')
    BY <1>2, <2>1, StillSorted
  <2>3. CASE target \in Elems(tables)
    BY <2>2, <2>3
  <2>4. CASE target \notin Elems(tables)
    <3>1. heap'[target].maxPriority = -1
      BY <1>2, <1>3, <1>4, <1>6, <1>11, <1>13, <2>4
    <3>2. /\ listed = Append(tables, target) /\ Len(tables) \in Nat
          /\ DOMAIN tables = 1..Len(tables) /\ DOMAIN listed = 1..(Len(tables) + 1)
          /\ listed[Len(tables) + 1] = target /\ \A i \in DOMAIN tables : listed[i] = tables[i]
      BY <1>2, <2>4 DEF TablesOK
    <3>3. \A i \in DOMAIN listed : heap'[listed[i]].maxPriority >= -1
      <4>. HIDE DEF listed
      <4>1. \A i \in DOMAIN listed : listed[i] \in DOMAIN heap'
        BY <1>20
      <4>. QED  BY <1>21, <4>1
    <3>4. ASSUME NEW i \in DOMAIN listed, NEW j \in DOMAIN listed, i < j
          PROVE  heap'[listed[i]].maxPriority >= heap'[listed[j]].maxPriority
      <4>1. CASE j = Len(tables) + 1
        BY ZenonT(40), <3>1, <3>2, <3>3, <4>1
      <4>2. CASE j # Len(tables) + 1
        <5>1. i \in DOMAIN tables /\ j \in DOMAIN tables
          <6>. DEFINE n == Len(tables)
          <6>1. n \in Nat /\ i \in 1..(n + 1) /\ j \in 1..(n + 1) /\ i < j /\ j # n + 1
            BY Zenon, <3>2, <3>4, <4>2
          <6>. HIDE DEF n
          <6>2. i \in 1..n /\ j \in 1..n
            BY <6>1
          <6>. QED  BY ZenonT(40), <3>2, <6>2 DEF n
        <5>. QED  BY ZenonT(40), <2>2, <3>2, <3>4, <5>1 DEF SortedBy
      <4>. QED  BY <4>1, <4>2
    <3>. QED  BY <3>4 DEF SortedBy
  <2>. QED  BY <2>3, <2>4
<1>. HIDE DEF listed, changed
<1>23. TablesOK' /\ SortedBy(tables', heap') /\ Elems(tables') = Elems(listed)
  <2>1. \A u \in Elems(listed) : heap'[u].maxPriority \in Int
    BY <1>20, <1>21 DEF Elems
  <2>. QED  BY <1>1, <1>20, <1>22, <2>1, ResortIfKeeps DEF TablesOK
<1>24. StaysListed
  BY <1>14, <1>15, <1>20, <1>23 DEF StaysListed
<1>. QED  BY <1>16, <1>17, <1>18, <1>19, <1>23, <1>24 DEF Inv, SortedByPriority, SortedBy

LEMMA InsertRuleInv ==
  ASSUME Inv, NEW r \in Rules, InsertRule(r)
  PROVE  Inv' /\ StaysListed
<1>. DEFINE fit == {i \in DOMAIN tables : CanInsert(heap[tables[i]], PreferedTuple(r))}
            t == tables[Lowest(fit)]
<1>1. r \notin Elems(rules) /\ rules' = Append(rules, r)
  BY DEF InsertRule
<1>2. fit # {} => t \in Elems(tables) /\ CanInsert(heap[t], PreferedTuple(r))
  <2>1. fit \in SUBSET Nat
    BY DEF Inv, TablesOK
  <2>2. fit # {} => Lowest(fit) \in fit
    BY <2>1, LowestIn
  <2>. QED  BY <2>2 DEF Elems
<1>3. CASE fit # {} /\ InsertInto(r, t)
  BY <1>1, <1>2, <1>3, InsertIntoInv
<1>4. CASE fit # {} /\ InsertAndSplit(r, t)
  BY <1>1, <1>2, <1>4, InsertAndSplitInv
<1>5. CASE InsertNew(r)
  BY <1>1, <1>5, InsertNewInv
<1>. QED  BY <1>3, <1>4, <1>5 DEF InsertRule

-----------------------------------------------------------------------------
(* DeleteRule *)

(* The vector is cut before the emptied table, which may not be listed. *)
LEMMA BeforeFacts ==
  ASSUME NEW D, tables \in Seq(D), NoDuplicates(tables), NEW t
  PROVE  /\ Before(t) \in Seq(D) /\ NoDuplicates(Before(t)) /\ Elems(Before(t)) \subseteq Elems(tables) \ {t}
         /\ \A h : SortedBy(tables, h) => SortedBy(Before(t), h)
<1>. DEFINE at == {i \in DOMAIN tables : tables[i] = t}
            n == Lowest(at) - 1
<1>1. CASE at = {}
  <2>1. Before(t) = tables /\ t \notin Elems(tables)
    BY <1>1 DEF Before, Elems
  <2>. QED  BY <2>1
<1>2. CASE at # {}
  <2>1. at \in SUBSET Nat /\ DOMAIN tables = 1..Len(tables) /\ Len(tables) \in Nat
    OBVIOUS
  <2>2. Lowest(at) \in at /\ \A i \in at : Lowest(at) <= i
    BY <1>2, <2>1, LeastNat DEF Lowest
  <2>3. n \in Nat /\ n < Len(tables) /\ \A i \in 1..n : i \in DOMAIN tables /\ i \notin at
    <3>. DEFINE m == Lowest(at)
    <3>1. m \in 1..Len(tables) /\ \A i \in at : m <= i
      BY <2>1, <2>2
    <3>. HIDE DEF m, at
    <3>2. \A i \in 1..(m - 1) : i \in 1..Len(tables) /\ ~ (m <= i)
      BY <2>1, <3>1
    <3>. QED  BY <2>1, <3>1, <3>2 DEF m
  <2>4. Before(t) = SubSeq(tables, 1, n)
    BY <1>2 DEF Before
  <2>. HIDE DEF n
  <2>5. /\ Before(t) \in Seq(D) /\ DOMAIN Before(t) = 1..n
        /\ \A i \in 1..n : Before(t)[i] = tables[i]
    BY <2>1, <2>3, <2>4
  <2>6. NoDuplicates(Before(t))
    BY <2>3, <2>5 DEF NoDuplicates
  <2>7. Elems(Before(t)) \subseteq Elems(tables) \ {t}
    BY <2>3, <2>5 DEF Elems
  <2>8. \A h : SortedBy(tables, h) => SortedBy(Before(t), h)
    BY <2>3, <2>5 DEF SortedBy
  <2>. QED  BY <2>5, <2>6, <2>7, <2>8
<1>. QED  BY <1>1, <1>2

LEMMA DeleteRuleInv ==
  ASSUME Inv, NEW i \in DOMAIN rules, DeleteRule(i)
  PROVE  /\ Inv'
         /\ \/ StaysListed
            \/ \E t \in DOMAIN heap : heap[t].stored # {} /\ heap[t].stored \cap Elems(rules') = {}
<1>. DEFINE r == rules[i]
            t == assignments[Priority[r]]
            h == [heap EXCEPT ![t] = TableDeletion(heap[t], {r})]
            emptied == h[t].stored = {}
            listed == IF emptied THEN Before(t) ELSE tables
            others == [n \in DOMAIN assignments \ {Priority[r]} |-> assignments[n]]
            kept == (IF emptied THEN DOMAIN h \ {t} ELSE DOMAIN h)
                      \cap (Elems(listed) \cup {others[n] : n \in DOMAIN others})
<1>1. /\ RulesOK /\ HeapOK /\ TablesOK /\ StoredWhereAssigned /\ FitsItsTable /\ SortedBy(tables, heap)
      /\ Elems(tables) \subseteq DOMAIN heap
  BY DEF Inv, SortedByPriority, SortedBy, TablesOK, Elems
<1>2. r \in Elems(rules) /\ r \in Rules /\ t \in DOMAIN heap /\ r \in heap[t].stored
  <2>1. r \in Elems(rules) /\ r \in Rules
    BY <1>1 DEF RulesOK, Elems
  <2>. HIDE DEF r
  <2>. QED  BY <1>1, <2>1 DEF StoredWhereAssigned
<1>3. rules' = SwapRemove(rules, i) /\ assignments' = others /\ heap' = [u \in kept |-> h[u]]
  BY SMTT(40) DEF DeleteRule
<1>4. PICK hasChanged \in BOOLEAN :
        (DeletionChanges(heap[t], {r}) => hasChanged) /\ ResortIf(hasChanged, listed, h)
  BY DEF DeleteRule
<1>5. /\ rules' \in Seq(Rules) /\ NoDuplicates(rules') /\ Elems(rules') = Elems(rules) \ {r}
      /\ Elems(rules) \subseteq Rules
  <2>1. rules \in Seq(Rules) /\ NoDuplicates(rules)
    BY <1>1 DEF RulesOK
  <2>2. Elems(rules) \subseteq Rules
    BY <2>1 DEF Elems
  <2>3. /\ SwapRemove(rules, i) \in Seq(Rules) /\ NoDuplicates(SwapRemove(rules, i))
        /\ Elems(SwapRemove(rules, i)) = Elems(rules) \ {rules[i]}
    BY <2>1, SwapRemoveElems
  <2>. QED  BY <1>3, <2>2, <2>3
<1>6. \A s \in Elems(rules') : others[Priority[s]] = assignments[Priority[s]] /\ Priority[s] \in DOMAIN others
  BY <1>1, <1>2, <1>5, RuleSetAssumption DEF RulesOK, Priorities
<1>7. DOMAIN others = Priorities(Elems(rules'))
  <2>1. DOMAIN assignments = Priorities(Elems(rules))
    BY <1>1 DEF RulesOK
  <2>. QED  BY <1>2, <1>5, <2>1, RuleSetAssumption DEF Priorities
<1>8. RulesOK'
  BY <1>3, <1>5, <1>7 DEF RulesOK
<1>9. /\ IsTable(h[t]) /\ h[t].lengths = heap[t].lengths /\ h[t].stored = heap[t].stored \ {r}
      /\ ~ DeletionChanges(heap[t], {r}) => h[t].maxPriority = heap[t].maxPriority
      /\ DOMAIN h = DOMAIN heap /\ \A u \in DOMAIN heap \ {t} : h[u] = heap[u]
  <2>. DEFINE g == TableDeletion(heap[t], {r})
  <2>1. /\ IsTable(g) /\ g.lengths = heap[t].lengths /\ g.stored = heap[t].stored \ {r}
        /\ ~ DeletionChanges(heap[t], {r}) => g.maxPriority = heap[t].maxPriority
    BY <1>1, <1>2, DeletionTable DEF HeapOK
  <2>2. h = [heap EXCEPT ![t] = g] /\ heap = [u \in DOMAIN heap |-> heap[u]]
    BY <1>1 DEF HeapOK
  <2>. HIDE DEF g, h
  <2>3. h[t] = g /\ DOMAIN h = DOMAIN heap /\ \A u \in DOMAIN heap \ {t} : h[u] = heap[u]
    BY <1>2, <2>2
  <2>. QED  BY <2>1, <2>3
<1>. HIDE DEF h
<1>10. emptied => DeletionChanges(heap[t], {r})
  <2>1. heap[t].priorities = Priorities(heap[t].stored)
    BY <1>1, <1>2 DEF HeapOK, IsTable, TableOf
  <2>. QED  BY <1>2, <1>9, <2>1 DEF DeletionChanges, Priorities
<1>11. DOMAIN heap' = kept /\ kept \subseteq DOMAIN heap /\ \A u \in kept : heap'[u] = h[u]
  BY Zenon, <1>3, <1>9
<1>12. \A u \in DOMAIN heap : IsTable(h[u])
  BY <1>1, <1>9 DEF HeapOK
<1>13. \A u \in DOMAIN heap : h[u].stored = {s \in Elems(rules') : assignments[Priority[s]] = u}
  BY <1>1, <1>2, <1>5, <1>9 DEF StoredWhereAssigned
<1>14. HeapOK'
  <2>1. IsFiniteSet(kept)
    BY <1>1, <1>11, FS_Subset DEF HeapOK
  <2>. HIDE DEF kept
  <2>. QED  BY <1>1, <1>3, <1>11, <1>12, <2>1 DEF HeapOK
<1>15. StoredWhereAssigned'
  <2>1. ASSUME NEW s \in Elems(rules')
        PROVE  assignments'[Priority[s]] = assignments[Priority[s]] /\ assignments[Priority[s]] \in kept
    <3>1. assignments[Priority[s]] \in DOMAIN heap /\ s \in h[assignments[Priority[s]]].stored
      BY <1>1, <1>5, <1>13 DEF StoredWhereAssigned
    <3>2. emptied => assignments[Priority[s]] # t
      BY <3>1
    <3>3. assignments[Priority[s]] \in {others[n] : n \in DOMAIN others}
      BY <1>6
    <3>4. assignments'[Priority[s]] = assignments[Priority[s]]
      BY <1>3, <1>6
    <3>. QED  BY <1>9, <3>1, <3>2, <3>3, <3>4
  <2>. HIDE DEF kept
  <2>. QED  BY <1>11, <1>13, <2>1 DEF StoredWhereAssigned
<1>16. FitsItsTable'
  <2>. HIDE DEF kept
  <2>. QED  BY <1>1, <1>9, <1>11 DEF FitsItsTable, CanInsert
<1>17. listed \in Seq(DOMAIN heap') /\ NoDuplicates(listed) /\ Elems(listed) \subseteq kept
  <2>1. listed \in Seq(DOMAIN heap) /\ NoDuplicates(listed) /\ Elems(listed) \subseteq Elems(tables)
          /\ (emptied => t \notin Elems(listed))
    BY SMTT(40), <1>1, BeforeFacts DEF TablesOK
  <2>2. Elems(listed) \subseteq kept
    BY <1>1, <1>9, <2>1
  <2>. HIDE DEF listed, kept
  <2>3. \A j \in DOMAIN listed : listed[j] \in kept
    BY <2>2 DEF Elems
  <2>. QED  BY <1>11, <2>1, <2>2, <2>3
<1>18. ~ hasChanged => SortedBy(listed, h)
  <2>. SUFFICES ASSUME ~ hasChanged PROVE SortedBy(listed, h)
    OBVIOUS
  <2>1. ~ DeletionChanges(heap[t], {r}) /\ listed = tables
    BY <1>4, <1>10
  <2>2. \A u \in Elems(tables) : h[u].maxPriority = heap[u].maxPriority
    BY <1>1, <1>9, <2>1
  <2>. QED  BY <1>1, <2>1, <2>2, StillSorted
<1>. HIDE DEF listed, kept
<1>19. TablesOK' /\ SortedBy(tables', h) /\ Elems(tables') = Elems(listed)
  <2>1. \A u \in Elems(listed) : h[u].maxPriority \in Int
    BY <1>11, <1>12, <1>17, TableMax
  <2>. QED  BY <1>4, <1>17, <1>18, <2>1, ResortIfKeeps DEF TablesOK
<1>20. SortedBy(tables', heap')
  BY <1>11, <1>17, <1>19, StillSorted
<1>21. CASE emptied
  <2>1. heap[t].stored # {} /\ heap[t].stored \cap Elems(rules') = {}
    BY <1>2, <1>5, <1>9, <1>21
  <2>. QED  BY <1>2, <1>8, <1>14, <1>15, <1>16, <1>19, <1>20, <2>1 DEF Inv, SortedByPriority, SortedBy
<1>22. CASE ~ emptied
  <2>1. StaysListed
    BY <1>3, <1>6, <1>19, <1>22 DEF StaysListed, listed
  <2>. QED  BY <1>8, <1>14, <1>15, <1>16, <1>19, <1>20, <2>1 DEF Inv, SortedByPriority, SortedBy
<1>. QED  BY <1>21, <1>22

-----------------------------------------------------------------------------
(* What a table hashes by *)

AreLengths(l) == DOMAIN l \subseteq Fields /\ \A d \in DOMAIN l : l[d] \in Nat

LengthsOK == \A t \in DOMAIN heap : AreLengths(heap[t].lengths)

LEMMA NewLengths ==
  ASSUME NEW tuple \in [Fields -> Int]
  PROVE  AreLengths(NewTable(tuple).lengths)
<1>1. \A d \in Fields : ZeroBits(d) \in {0, 16, 24}
  BY FieldsAssumption DEF ZeroBits
<1>2. NewTable(tuple).lengths = [d \in {f \in Fields : tuple[f] > ZeroBits(f)} |-> tuple[d]]
  BY NewTableOf DEF Lengthify
<1>3. \A d \in Fields : tuple[d] > ZeroBits(d) => tuple[d] \in Nat
  BY <1>1
<1>. QED  BY <1>2, <1>3 DEF AreLengths

LEMMA RelaxType ==
  ASSUME NEW tuple \in [Fields -> 0..32]
  PROVE  Relax(tuple) \in [Fields -> Int]
<1>. DEFINE delta == tuple[FieldSA] - tuple[FieldDA]
            t == CASE -delta > 4 -> [tuple EXCEPT ![FieldSA] = 0, ![FieldSP] = 16]
                   [] delta > 4  -> [tuple EXCEPT ![FieldDA] = 0, ![FieldDP] = 16]
                   [] OTHER      -> tuple
<1>1. FieldSA \in Fields /\ FieldDA \in Fields /\ FieldSP \in Fields /\ FieldDP \in Fields
  BY FieldsAssumption
<1>2. \A n \in 0..32 : RelaxLength(n) \in Int
  BY DEF RelaxLength
<1>3. \/ t = [tuple EXCEPT ![FieldSA] = 0, ![FieldSP] = 16]
      \/ t = [tuple EXCEPT ![FieldDA] = 0, ![FieldDP] = 16]
      \/ t = tuple
  <2>1. delta \in Int
    BY <1>1
  <2>. HIDE DEF delta
  <2>. QED  BY <2>1
<1>4. Relax(tuple) = [t EXCEPT ![FieldSA] = RelaxLength(t[FieldSA]), ![FieldDA] = RelaxLength(t[FieldDA])]
  BY DEF Relax
<1>. HIDE DEF t
<1>5. t \in [Fields -> 0..32]
  BY <1>1, <1>3
<1>6. RelaxLength(t[FieldSA]) \in Int /\ RelaxLength(t[FieldDA]) \in Int
  BY <1>1, <1>2, <1>5
<1>7. t \in [Fields -> Int]
  BY <1>5
<1>. QED  BY <1>4, <1>6, <1>7

LEMMA HighestIn ==
  ASSUME NEW N \in SUBSET (0..32), N # {}
  PROVE  Highest(N) \in N
<1>. DEFINE T == {32 - n : n \in N}
<1>0. \A n \in N : n \in Int /\ 32 - n \in Nat
  OBVIOUS
<1>1. T \in SUBSET Nat /\ T # {}
  BY <1>0
<1>2. PICK x \in T : \A y \in T : x <= y
  BY <1>1, LeastNat
<1>3. PICK m \in N : x = 32 - m
  OBVIOUS
<1>4. ASSUME NEW n \in N PROVE n <= m
  <2>1. 32 - n \in T
    OBVIOUS
  <2>2. x <= 32 - n
    BY <1>2, <2>1
  <2>. QED  BY <1>0, <1>3, <2>2
<1>. QED  BY <1>4 DEF Highest

LEMMA SplitTupleType ==
  ASSUME NEW S \in SUBSET Rules, S # {}
  PROVE  SplitTuple(S) \in [Fields -> Int]
<1>. DEFINE compat == [f \in Fields |-> Lowest({PreferedTuple(r)[f] : r \in S})]
            super  == [f \in Fields |-> Highest({PreferedTuple(r)[f] : r \in S})]
            delta  == [f \in Fields |-> super[f] - compat[f]]
            best   == FieldOrder[Lowest({i \in 1..5 : \A f \in Fields : delta[f] <= delta[FieldOrder[i]]})]
<1>1. ASSUME NEW f \in Fields
      PROVE  compat[f] \in Int /\ super[f] \in Int
  <2>. DEFINE N == {PreferedTuple(r)[f] : r \in S}
  <2>1. N \in SUBSET (0..32) /\ N # {}
    BY RuleSetAssumption DEF PreferedTuple
  <2>. HIDE DEF N
  <2>2. Lowest(N) \in N /\ Highest(N) \in N
    BY <2>1, LowestIn, HighestIn
  <2>. QED  BY <2>1, <2>2 DEF N
<1>2. SplitTuple(S) = [compat EXCEPT ![best] = (super[best] + compat[best]) \div 2]
  BY DEF SplitTuple
<1>3. compat \in [Fields -> Int]
  BY <1>1
<1>4. best \in Fields => (super[best] + compat[best]) \div 2 \in Int
  <2>1. \A a, b \in Int : (a + b) \div 2 \in Int
    OBVIOUS
  <2>. HIDE DEF compat, super, best
  <2>. QED  BY <1>1, <2>1
<1>. HIDE DEF compat, super, best
<1>. QED  BY <1>2, <1>3, <1>4

(* Every table hashes by the lengths it was made with. *)
LEMMA InsertLengths ==
  ASSUME Inv, LengthsOK, NEW r \in Rules, NEW t \in DOMAIN heap, InsertInto(r, t)
  PROVE  LengthsOK'
<1>1. heap' = [heap EXCEPT ![t] = TableInsertion(heap[t], {r})]
  BY DEF InsertInto
<1>2. TableInsertion(heap[t], {r}).lengths = heap[t].lengths
  BY InsertionTable DEF Inv, HeapOK
<1>3. \A u \in DOMAIN heap' : u \in DOMAIN heap /\ heap'[u].lengths = heap[u].lengths
  BY <1>1, <1>2 DEF Inv, HeapOK
<1>. QED  BY <1>3 DEF LengthsOK

LEMMA NewTableLengths ==
  ASSUME Inv, LengthsOK, NEW r \in Rules, InsertNew(r)
  PROVE  LengthsOK'
<1>. DEFINE t == Fresh(heap)
            tuple == Relax(PreferedTuple(r))
            g == TableInsertion(NewTable(tuple), {r})
<1>1. heap' = Allocated(heap, t, g)
  BY DEF InsertNew
<1>2. tuple \in [Fields -> Int]
  BY RelaxType, RuleSetAssumption DEF PreferedTuple
<1>. HIDE DEF tuple
<1>3. g.lengths = NewTable(tuple).lengths
  BY InsertionTable, NewTableOf
<1>4. AreLengths(g.lengths)
  BY <1>2, <1>3, NewLengths
<1>. HIDE DEF t, g
<1>5. \A u \in DOMAIN heap' : heap'[u] = g \/ (u \in DOMAIN heap /\ heap'[u] = heap[u])
  BY <1>1 DEF Allocated
<1>. QED  BY <1>4, <1>5 DEF LengthsOK

LEMMA SplitLengths ==
  ASSUME Inv, LengthsOK, NEW r \in Rules, NEW t \in DOMAIN heap, InsertAndSplit(r, t)
  PROVE  LengthsOK'
<1>. DEFINE h == [heap EXCEPT ![t] = TableInsertion(heap[t], {r})]
            tuple == SplitTuple(Collisions(h[t], r))
            target == FindOrMake(tuple, h)
            made == IF target \in DOMAIN h THEN h ELSE Allocated(h, target, NewTable(tuple))
            moved == {s \in h[t].stored : CanInsert(made[target], PreferedTuple(s))}
            left == [made EXCEPT ![t] = TableDeletion(made[t], moved)]
<1>1. heap' = [left EXCEPT ![target] = TableInsertion(left[target], moved)]
  BY DEF InsertAndSplit
<1>2. \A u \in DOMAIN heap : IsTable(heap[u]) /\ AreLengths(heap[u].lengths)
  BY DEF Inv, HeapOK, LengthsOK
<1>3. /\ DOMAIN h = DOMAIN heap /\ \A u \in DOMAIN h : IsTable(h[u]) /\ AreLengths(h[u].lengths)
      /\ h[t].stored = heap[t].stored \cup {r}
  <2>1. /\ IsTable(TableInsertion(heap[t], {r}))
        /\ TableInsertion(heap[t], {r}).lengths = heap[t].lengths
        /\ TableInsertion(heap[t], {r}).stored = heap[t].stored \cup {r}
    BY <1>2, InsertionTable
  <2>. QED  BY <1>2, <2>1
<1>. HIDE DEF h
<1>4. AreLengths(NewTable(tuple).lengths) /\ IsTable(NewTable(tuple))
  <2>1. Collisions(h[t], r) # {} /\ Collisions(h[t], r) \in SUBSET Rules
    BY <1>3 DEF Collisions, Chain, IsTable
  <2>. QED  BY <2>1, SplitTupleType, NewLengths, NewTableOf
<1>. HIDE DEF tuple, target
<1>5. /\ target \in DOMAIN made /\ t \in DOMAIN made /\ made[t] = h[t]
      /\ \A u \in DOMAIN made : IsTable(made[u]) /\ AreLengths(made[u].lengths)
  BY <1>3, <1>4 DEF Allocated
<1>. HIDE DEF made
<1>6. moved \subseteq h[t].stored /\ moved \in SUBSET Rules
  BY <1>3 DEF IsTable
<1>. HIDE DEF moved
<1>7. DOMAIN left = DOMAIN made /\ \A u \in DOMAIN left : IsTable(left[u]) /\ AreLengths(left[u].lengths)
  <2>1. /\ IsTable(TableDeletion(made[t], moved))
        /\ TableDeletion(made[t], moved).lengths = made[t].lengths
    BY <1>5, <1>6, DeletionTable
  <2>. QED  BY <1>5, <2>1
<1>. HIDE DEF left
<1>8. TableInsertion(left[target], moved).lengths = left[target].lengths
  BY <1>5, <1>6, <1>7, InsertionTable
<1>9. \A u \in DOMAIN heap' : u \in DOMAIN left /\ heap'[u].lengths = left[u].lengths
  BY <1>1, <1>5, <1>7, <1>8
<1>. QED  BY SMTT(40), <1>7, <1>9 DEF LengthsOK

LEMMA DeleteLengths ==
  ASSUME Inv, LengthsOK, NEW i \in DOMAIN rules, DeleteRule(i)
  PROVE  LengthsOK'
<1>. DEFINE r == rules[i]
            t == assignments[Priority[r]]
            h == [heap EXCEPT ![t] = TableDeletion(heap[t], {r})]
<1>1. r \in Elems(rules) /\ r \in Rules
  BY DEF Inv, RulesOK, Elems
<1>2. t \in DOMAIN heap /\ r \in heap[t].stored
  BY <1>1 DEF Inv, StoredWhereAssigned
<1>3. TableDeletion(heap[t], {r}).lengths = heap[t].lengths
  BY <1>2, DeletionTable DEF Inv, HeapOK
<1>4. \A u \in DOMAIN h : u \in DOMAIN heap /\ h[u].lengths = heap[u].lengths
  BY <1>2, <1>3
<1>5. \E K \in SUBSET DOMAIN h : heap' = [u \in K |-> h[u]]
  <2>. DEFINE emptied == h[t].stored = {}
              listed == IF emptied THEN Before(t) ELSE tables
              others == [n \in DOMAIN assignments \ {Priority[r]} |-> assignments[n]]
              K == (IF emptied THEN DOMAIN h \ {t} ELSE DOMAIN h)
                     \cap (Elems(listed) \cup {others[n] : n \in DOMAIN others})
  <2>1. heap' = [u \in K |-> h[u]]
    BY DEF DeleteRule
  <2>2. K \subseteq DOMAIN h
    OBVIOUS
  <2>. HIDE DEF K, h
  <2>. QED  BY SMTT(40), <2>1, <2>2
<1>. HIDE DEF h
<1>. QED  BY <1>4, <1>5 DEF LengthsOK

LEMMA NextLengths ==
  ASSUME Inv, LengthsOK, [Next]_vars
  PROVE  LengthsOK'
<1>1. CASE UNCHANGED vars
  BY <1>1 DEF vars, LengthsOK
<1>2. ASSUME NEW r \in Rules, InsertRule(r) PROVE LengthsOK'
  <2>. DEFINE fit == {i \in DOMAIN tables : CanInsert(heap[tables[i]], PreferedTuple(r))}
  <2>1. fit # {} => tables[Lowest(fit)] \in DOMAIN heap
    <3>1. fit \in SUBSET Nat /\ fit \subseteq DOMAIN tables
      BY DEF Inv, TablesOK
    <3>2. \A i \in DOMAIN tables : tables[i] \in DOMAIN heap
      BY DEF Inv, TablesOK
    <3>. HIDE DEF fit
    <3>3. fit # {} => Lowest(fit) \in fit
      BY <3>1, LowestIn
    <3>. QED  BY <3>1, <3>2, <3>3
  <2>. QED  BY <1>2, <2>1, InsertLengths, SplitLengths, NewTableLengths DEF InsertRule
<1>. QED  BY <1>1, <1>2, DeleteLengths DEF Next, Construct

-----------------------------------------------------------------------------
(* The rules a table takes from a list *)

(* T could be taken from S by a table of these lengths. *)
Fills(T, S, l) ==
  /\ T \subseteq S /\ IsFiniteSet(T)
  /\ \A r \in T : Compatible(l, r)
  /\ \A h : Cardinality(Chain(l, T, h)) <= CollideLimit

LEMMA OfferedFills ==
  ASSUME NEW S, NEW l, NEW T, Fills(T, S, l), NEW r \in S
  PROVE  /\ Fills(Offered(T, l, r), S, l) /\ T \subseteq Offered(T, l, r)
         /\ T = {} /\ CollideLimit > 0 /\ Compatible(l, r) => r \in Offered(T, l, r)
<1>. DEFINE n == Cardinality(Chain(l, T, HashRule(l, r)))
<1>0. CollideLimit \in Nat
  BY CollideAssumption
<1>1. (Compatible(l, r) /\ n < CollideLimit) \/ Offered(T, l, r) = T
  BY DEF Offered
<1>2. ASSUME Compatible(l, r), n < CollideLimit
      PROVE  Fills(T \cup {r}, S, l) /\ Offered(T, l, r) = T \cup {r}
  <2>1. Offered(T, l, r) = T \cup {r}
    BY <1>2 DEF Offered
  <2>2. T \cup {r} \subseteq S /\ IsFiniteSet(T \cup {r}) /\ \A x \in T \cup {r} : Compatible(l, x)
    BY <1>2, FS_AddElement DEF Fills
  <2>3. ASSUME NEW h PROVE Cardinality(Chain(l, T \cup {r}, h)) <= CollideLimit
    <3>1. PICK C : C = Chain(l, T, h)
      OBVIOUS
    <3>2. C \subseteq T /\ Cardinality(C) <= CollideLimit
      BY <3>1 DEF Fills, Chain
    <3>3. IsFiniteSet(C) /\ Cardinality(C) \in Nat
      BY <3>2, FS_Subset, FS_CardinalityType DEF Fills
    <3>4. CASE HashRule(l, r) = h
      <4>1. Chain(l, T \cup {r}, h) = C \cup {r}
        BY <3>1, <3>4 DEF Chain
      <4>2. Cardinality(C \cup {r}) = Cardinality(C) \/ Cardinality(C \cup {r}) = Cardinality(C) + 1
        BY <3>3, FS_AddElement
      <4>3. Cardinality(C) < CollideLimit
        BY <1>2, <3>1, <3>4
      <4>4. PICK c : c = Cardinality(C)
        OBVIOUS
      <4>5. PICK d : d = Cardinality(C \cup {r})
        OBVIOUS
      <4>6. d <= CollideLimit
        BY <1>0, <3>3, <4>2, <4>3, <4>4, <4>5
      <4>. QED  BY <4>1, <4>5, <4>6
    <3>5. CASE HashRule(l, r) # h
      <4>1. Chain(l, T \cup {r}, h) = C
        BY <3>1, <3>5 DEF Chain
      <4>. QED  BY <3>2, <4>1
    <3>. QED  BY <3>4, <3>5
  <2>. QED  BY <2>1, <2>2, <2>3 DEF Fills
<1>3. T = {} => n = 0
  <2>1. T = {} => Chain(l, T, HashRule(l, r)) = {}
    BY DEF Chain
  <2>. QED  BY <2>1, FS_EmptySet
<1>4. T = {} /\ CollideLimit > 0 /\ Compatible(l, r) => r \in Offered(T, l, r)
  <2>. HIDE DEF n
  <2>. QED  BY <1>0, <1>2, <1>3
<1>. QED  BY <1>1, <1>2, <1>4

Taken(f, rl, l, n) == f = [k \in 0..n |-> IF k = 0 THEN {} ELSE Offered(f[k - 1], l, rl[k])]

LEMMA TakenExists ==
  ASSUME NEW rl, NEW l, NEW n \in Nat
  PROVE  \E f : Taken(f, rl, l, n)
<1>. DEFINE G == {k \in Nat : \E f : Taken(f, rl, l, k)}
<1>1. 0 \in G
  <2>. DEFINE f == [k \in 0..0 |-> {}]
  <2>1. Taken(f, rl, l, 0)
    BY DEF Taken
  <2>. QED  BY <2>1
<1>2. ASSUME NEW k \in G PROVE k + 1 \in G
  <2>1. PICK f : Taken(f, rl, l, k)
    OBVIOUS
  <2>. DEFINE g == [i \in 0..(k + 1) |-> IF i = k + 1 THEN Offered(f[k], l, rl[k + 1]) ELSE f[i]]
  <2>2. ASSUME NEW i \in 0..(k + 1)
        PROVE  g[i] = IF i = 0 THEN {} ELSE Offered(g[i - 1], l, rl[i])
    <3>1. k \in Nat /\ 0 \in 0..(k + 1)
      OBVIOUS
    <3>2. g[k + 1] = Offered(f[k], l, rl[k + 1]) /\ \A j \in 0..k : g[j] = f[j]
      BY <3>1
    <3>3. \A j \in 0..k : f[j] = IF j = 0 THEN {} ELSE Offered(f[j - 1], l, rl[j])
      BY <2>1, Zenon DEF Taken
    <3>. HIDE DEF g
    <3>4. CASE i = k + 1
      <4>1. i - 1 = k /\ i # 0 /\ k \in 0..k
        BY <3>1, <3>4
      <4>. QED  BY <3>2, <3>4, <4>1
    <3>5. CASE i # k + 1
      <4>1. i \in 0..k /\ (i # 0 => i - 1 \in 0..k)
        BY <3>1, <3>5
      <4>. QED  BY <3>2, <3>3, <4>1
    <3>. QED  BY <3>4, <3>5
  <2>3. g = [i \in 0..(k + 1) |-> g[i]]
    OBVIOUS
  <2>4. Taken(g, rl, l, k + 1)
    BY <2>2, <2>3 DEF Taken
  <2>. QED  BY <2>4
<1>. HIDE DEF G
<1>3. G = Nat
  BY <1>1, <1>2, NaturalSet DEF G
<1>. QED  BY <1>3 DEF G

LEMMA TakesFills ==
  ASSUME NEW rl \in Seq(Rules), NEW l
  PROVE  /\ Fills(Takes(rl, l), Elems(rl), l)
         /\ CollideLimit > 0 /\ rl # <<>> /\ Compatible(l, rl[1]) => rl[1] \in Takes(rl, l)
<1>. DEFINE n == Len(rl)
            f == CHOOSE g : Taken(g, rl, l, n)
            First == CollideLimit > 0 /\ Compatible(l, rl[1])
<1>0. n \in Nat /\ (\A k \in 1..n : rl[k] \in Elems(rl)) /\ (rl # <<>> => n # 0)
  BY DEF Elems
<1>1. Taken(f, rl, l, n)
  BY <1>0, TakenExists
<1>2. Takes(rl, l) = f[n]
  BY Zenon DEF Takes, Taken
<1>. HIDE DEF f, n
<1>. DEFINE G == {k \in Nat : k <= n => /\ Fills(f[k], Elems(rl), l)
                                        /\ First /\ k # 0 => rl[1] \in f[k]}
<1>3. f[0] = {} /\ \A k \in 1..n : f[k] = Offered(f[k - 1], l, rl[k])
  <2>1. \A k \in 0..n : f[k] = IF k = 0 THEN {} ELSE Offered(f[k - 1], l, rl[k])
    BY <1>1, Zenon DEF Taken
  <2>2. 0 \in 0..n /\ \A k \in 1..n : k \in 0..n /\ k # 0
    BY <1>0
  <2>. QED  BY <2>1, <2>2
<1>4. 0 \in G
  <2>1. \A h : Chain(l, {}, h) = {}
    BY DEF Chain
  <2>2. Cardinality({}) = 0 /\ IsFiniteSet({}) /\ 0 <= CollideLimit
    BY FS_EmptySet, CollideAssumption
  <2>3. \A h : Cardinality(Chain(l, {}, h)) <= CollideLimit
    BY <2>1, <2>2
  <2>4. Fills({}, Elems(rl), l)
    BY <2>2, <2>3 DEF Fills
  <2>. QED  BY <1>3, <2>4
<1>5. ASSUME NEW k \in G PROVE k + 1 \in G
  <2>. SUFFICES ASSUME k + 1 <= n
                PROVE  /\ Fills(f[k + 1], Elems(rl), l)
                       /\ First => rl[1] \in f[k + 1]
    OBVIOUS
  <2>1. k + 1 \in 1..n /\ (k + 1) - 1 = k /\ k <= n
    BY <1>0
  <2>2. f[k + 1] = Offered(f[k], l, rl[k + 1])
    BY <1>3, <2>1
  <2>3. Fills(f[k], Elems(rl), l) /\ rl[k + 1] \in Elems(rl) /\ (First /\ k # 0 => rl[1] \in f[k])
    BY <1>0, <2>1
  <2>. HIDE DEF G
  <2>4. Fills(f[k + 1], Elems(rl), l) /\ f[k] \subseteq f[k + 1]
        /\ (f[k] = {} /\ CollideLimit > 0 /\ Compatible(l, rl[k + 1]) => rl[k + 1] \in f[k + 1])
    BY <2>2, <2>3, OfferedFills
  <2>5. CASE k = 0
    BY <1>3, <2>4, <2>5
  <2>6. CASE k # 0
    BY <2>3, <2>4, <2>6
  <2>. QED  BY <2>4, <2>5, <2>6
<1>. HIDE DEF G
<1>6. n \in G
  BY <1>0, <1>4, <1>5, NaturalSet DEF G
<1>. QED  BY <1>0, <1>2, <1>6 DEF G

-----------------------------------------------------------------------------
(* The tuple of a table *)

LEMMA CommonOK ==
  ASSUME NEW rl \in Seq(Rules), NEW k \in 1..Len(rl)
  PROVE  Common(rl, k) \in [Fields -> 0..32] /\ Compatible(Common(rl, k), rl[1])
<1>1. ASSUME NEW f \in Fields
      PROVE  Common(rl, k)[f] \in 0..32 /\ Common(rl, k)[f] <= PreferedTuple(rl[1])[f]
  <2>. DEFINE N == {PreferedTuple(rl[i])[f] : i \in 1..k}
  <2>1. \A i \in 1..k : rl[i] \in Rules
    OBVIOUS
  <2>2. N \subseteq 0..32 /\ PreferedTuple(rl[1])[f] \in N
    <3>1. \A r \in Rules : PreferedTuple(r)[f] \in 0..32
      BY ZenonT(40), RuleSetAssumption DEF PreferedTuple
    <3>2. 1 \in 1..k
      OBVIOUS
    <3>. QED  BY <2>1, <3>1, <3>2
  <2>. HIDE DEF N
  <2>3. N \in SUBSET Nat /\ N # {}
    BY <2>2
  <2>4. Lowest(N) \in N /\ \A m \in N : Lowest(N) <= m
    BY <2>3, LeastNat DEF Lowest
  <2>5. Common(rl, k)[f] = Lowest(N)
    BY DEF Common, N
  <2>. QED  BY <2>2, <2>4, <2>5
<1>2. Common(rl, k) = [f \in Fields |-> Common(rl, k)[f]]
  BY DEF Common
<1>. QED  BY <1>1, <1>2 DEF Compatible

LEMMA FirstOutOK ==
  ASSUME NEW rl \in Seq(Rules), rl # <<>>, NEW T
  PROVE  FirstOut(rl, T) \in Nat /\ (rl[1] \in T => FirstOut(rl, T) > 0)
<1>. DEFINE N == {i \in 0..Len(rl) : i = Len(rl) \/ rl[i + 1] \notin T}
<1>1. N \in SUBSET Nat /\ Len(rl) \in N /\ Len(rl) # 0
  OBVIOUS
<1>2. rl[1] \in T => 0 \notin N
  BY <1>1
<1>. HIDE DEF N
<1>3. Lowest(N) \in N
  BY <1>1, LowestIn
<1>4. FirstOut(rl, T) = Lowest(N)
  BY DEF FirstOut, N
<1>5. Len(rl) \in Nat
  OBVIOUS
<1>6. Lowest(N) \in Nat
  BY <1>1, <1>3
<1>7. rl[1] \in T => Lowest(N) # 0
  BY <1>2, <1>3
<1>. QED  BY <1>4, <1>6, <1>7

TuplesSeen == [Fields -> 0..32] \cup {<<>>}

Bests == [current : TuplesSeen, tuple : TuplesSeen, index : Nat, size : Nat, ended : BOOLEAN]

LEMMA BestsIs ==
  ASSUME NEW b \in Bests, NEW t \in TuplesSeen
  PROVE  /\ [b EXCEPT !.ended = TRUE] \in Bests /\ [b EXCEPT !.ended = TRUE].tuple = b.tuple
         /\ [b EXCEPT !.current = t] \in Bests /\ [b EXCEPT !.current = t].tuple = b.tuple
<1>. HIDE DEF TuplesSeen
<1>. QED  BY DEF Bests

LEMMA CompareOK ==
  ASSUME NEW b \in Bests, NEW t \in TuplesSeen, NEW i \in Nat, NEW s \in Nat
  PROVE  /\ Compare(b, t, i, s) \in Bests
         /\ Compare(b, t, i, s).tuple \in {b.tuple, t}
         /\ b.index = 0 /\ i > 0 => Compare(b, t, i, s).tuple = t
<1>1. b.index \in Nat /\ b.size \in Nat
  BY DEF Bests
<1>2. CASE i < b.index
  <2>1. PICK j : j = b.index
    OBVIOUS
  <2>2. i < j /\ j \in Nat /\ ~ (i > j) /\ i # j
    BY <1>1, <1>2, <2>1
  <2>3. Compare(b, t, i, s) = [b EXCEPT !.ended = TRUE]
    BY <2>1, <2>2 DEF Compare
  <2>. QED  BY <2>1, <2>2, <2>3, BestsIs
<1>3. CASE i > b.index \/ (i = b.index /\ s > b.size)
  <2>1. Compare(b, t, i, s) = [current |-> t, tuple |-> t, index |-> i, size |-> s, ended |-> FALSE]
    BY <1>1, <1>3 DEF Compare
  <2>. QED  BY <2>1 DEF Bests
<1>4. CASE i = b.index /\ s <= b.size
  <2>1. Compare(b, t, i, s) = [b EXCEPT !.current = t]
    BY <1>1, <1>4 DEF Compare
  <2>2. ~ (b.index = 0 /\ i > 0)
    BY <1>4
  <2>. QED  BY <2>1, <2>2, BestsIs
<1>. QED  BY <1>1, <1>2, <1>3, <1>4

Compared(f, rl, n) ==
  f = [k \in 0..n |-> IF k = 0 THEN NoTuple
                      ELSE Consider(rl, f[k - 1], Common(rl, k), Takes(rl, Common(rl, k)))]

LEMMA ComparedExists ==
  ASSUME NEW rl, NEW n \in Nat
  PROVE  \E f : Compared(f, rl, n)
<1>. DEFINE G == {k \in Nat : \E f : Compared(f, rl, k)}
<1>1. 0 \in G
  <2>. DEFINE f == [k \in 0..0 |-> NoTuple]
  <2>1. Compared(f, rl, 0)
    BY DEF Compared
  <2>. QED  BY <2>1
<1>2. ASSUME NEW k \in G PROVE k + 1 \in G
  <2>1. PICK f : Compared(f, rl, k)
    OBVIOUS
  <2>. DEFINE x == Consider(rl, f[k], Common(rl, k + 1), Takes(rl, Common(rl, k + 1)))
              g == [i \in 0..(k + 1) |-> IF i = k + 1 THEN x ELSE f[i]]
  <2>2. ASSUME NEW i \in 0..(k + 1)
        PROVE  g[i] = IF i = 0 THEN NoTuple
                      ELSE Consider(rl, g[i - 1], Common(rl, i), Takes(rl, Common(rl, i)))
    <3>1. k \in Nat /\ 0 \in 0..(k + 1)
      OBVIOUS
    <3>2. g[k + 1] = x /\ \A j \in 0..k : g[j] = f[j]
      BY <3>1
    <3>3. \A j \in 0..k :
            f[j] = IF j = 0 THEN NoTuple ELSE Consider(rl, f[j - 1], Common(rl, j), Takes(rl, Common(rl, j)))
      BY <2>1, Zenon DEF Compared
    <3>. HIDE DEF g
    <3>4. CASE i = k + 1
      <4>1. i - 1 = k /\ i # 0 /\ k \in 0..k
        BY <3>1, <3>4
      <4>. QED  BY <3>2, <3>4, <4>1
    <3>5. CASE i # k + 1
      <4>1. i \in 0..k /\ (i # 0 => i - 1 \in 0..k)
        BY <3>1, <3>5
      <4>. QED  BY <3>2, <3>3, <4>1
    <3>. QED  BY <3>4, <3>5
  <2>3. g = [i \in 0..(k + 1) |-> g[i]]
    OBVIOUS
  <2>. HIDE DEF g
  <2>4. Compared(g, rl, k + 1)
    BY <2>2, <2>3 DEF Compared
  <2>. QED  BY <2>4
<1>. HIDE DEF G
<1>3. G = Nat
  BY <1>1, <1>2, NaturalSet DEF G
<1>. QED  BY <1>3 DEF G

(* The table is made for lengths that some of the first rules have, so the *)
(* first rule has them: the first tuple looked at has taken it, and beats  *)
(* no tuple at all.                                                        *)
LEMMA BestTupleOK ==
  ASSUME NEW rl \in Seq(Rules), rl # <<>>, CollideLimit > 0
  PROVE  BestTuple(rl) \in [Fields -> 0..32] /\ Compatible(BestTuple(rl), rl[1])
<1>. DEFINE n == Len(rl)
            f == CHOOSE g : Compared(g, rl, n)
            Good(k) == f[k].tuple \in {Common(rl, j) : j \in 1..n}
<1>0. n \in Nat /\ n # 0
  OBVIOUS
<1>1. Compared(f, rl, n)
  BY <1>0, ComparedExists
<1>2. BestTuple(rl) = f[n].tuple
  BY Zenon DEF BestTuple, Compared
<1>. HIDE DEF f, n
<1>3. /\ f[0] = NoTuple
      /\ \A k \in 1..n : f[k] = Consider(rl, f[k - 1], Common(rl, k), Takes(rl, Common(rl, k)))
  <2>1. \A k \in 0..n :
          f[k] = IF k = 0 THEN NoTuple ELSE Consider(rl, f[k - 1], Common(rl, k), Takes(rl, Common(rl, k)))
    BY <1>1, Zenon DEF Compared
  <2>2. 0 \in 0..n /\ \A k \in 1..n : k \in 0..n /\ k # 0
    BY <1>0
  <2>. QED  BY <2>1, <2>2
<1>4. ASSUME NEW k \in 1..n
      PROVE  /\ Common(rl, k) \in [Fields -> 0..32] /\ Common(rl, k) # <<>>
             /\ rl[1] \in Takes(rl, Common(rl, k))
             /\ FirstOut(rl, Takes(rl, Common(rl, k))) \in Nat
             /\ FirstOut(rl, Takes(rl, Common(rl, k))) > 0
             /\ Cardinality(Takes(rl, Common(rl, k))) \in Nat
  <2>1. Common(rl, k) \in [Fields -> 0..32] /\ Compatible(Common(rl, k), rl[1])
    BY CommonOK DEF n
  <2>2. Common(rl, k) # <<>>
    <3>1. DOMAIN Common(rl, k) # {}
      BY FieldsAssumption DEF Common
    <3>. QED  BY <3>1
  <2>3. /\ Fills(Takes(rl, Common(rl, k)), Elems(rl), Common(rl, k))
        /\ rl[1] \in Takes(rl, Common(rl, k))
    BY <2>1, TakesFills
  <2>. QED  BY <2>1, <2>2, <2>3, FirstOutOK, FS_CardinalityType DEF Fills
<1>. DEFINE G == {k \in Nat : k <= n => f[k] \in Bests /\ (k # 0 => Good(k))}
<1>5. 0 \in G
  <2>1. <<>> \in TuplesSeen
    BY DEF TuplesSeen
  <2>2. NoTuple \in Bests
    BY <2>1 DEF Bests, NoTuple
  <2>. QED  BY <1>3, <2>2
<1>6. ASSUME NEW k \in G PROVE k + 1 \in G
  <2>. SUFFICES ASSUME k + 1 <= n PROVE f[k + 1] \in Bests /\ Good(k + 1)
    OBVIOUS
  <2>1. k + 1 \in 1..n /\ (k + 1) - 1 = k /\ k <= n
    BY <1>0
  <2>2. f[k] \in Bests /\ (k # 0 => Good(k))
    BY <2>1
  <2>3. PICK t : t = Common(rl, k + 1)
    OBVIOUS
  <2>4. PICK T : T = Takes(rl, t)
    OBVIOUS
  <2>5. f[k + 1] = Consider(rl, f[k], t, T)
    BY <1>3, <2>1, <2>3, <2>4
  <2>6. t \in [Fields -> 0..32] /\ t # <<>> /\ FirstOut(rl, T) \in Nat /\ FirstOut(rl, T) > 0 /\ Cardinality(T) \in Nat
    BY <1>4, <2>1, <2>3, <2>4
  <2>7. PICK c : c = Compare(f[k], t, FirstOut(rl, T), Cardinality(T))
    OBVIOUS
  <2>8. c \in Bests /\ c.tuple \in {f[k].tuple, t} /\ (f[k].index = 0 => c.tuple = t)
    <3>1. t \in TuplesSeen
      BY <2>6 DEF TuplesSeen
    <3>2. PICK i : i = FirstOut(rl, T)
      OBVIOUS
    <3>3. PICK s : s = Cardinality(T)
      OBVIOUS
    <3>4. i \in Nat /\ i > 0 /\ s \in Nat /\ c = Compare(f[k], t, i, s)
      BY <2>6, <2>7, <3>2, <3>3
    <3>5. PICK b : b = f[k]
      OBVIOUS
    <3>6. b \in Bests /\ c = Compare(b, t, i, s)
      BY <2>2, <3>4, <3>5
    <3>. HIDE DEF G
    <3>7. c \in Bests /\ c.tuple \in {b.tuple, t} /\ (b.index = 0 /\ i > 0 => c.tuple = t)
      BY <3>1, <3>4, <3>6, CompareOK
    <3>. QED  BY <3>4, <3>5, <3>7
  <2>9. f[k + 1] = IF f[k].ended \/ t = f[k].current THEN f[k] ELSE c
    BY <2>5, <2>7 DEF Consider
  <2>10. t \in {Common(rl, j) : j \in 1..n}
    BY <2>1, <2>3
  <2>11. CASE k = 0
    <3>1. ~ f[k].ended /\ f[k].current = <<>> /\ f[k].index = 0
      BY <1>3, <2>11 DEF NoTuple
    <3>2. f[k + 1] = c
      BY <2>6, <2>9, <3>1
    <3>. QED  BY <2>8, <2>10, <3>1, <3>2
  <2>12. CASE k # 0
    BY <2>2, <2>8, <2>9, <2>10, <2>12
  <2>. QED  BY <2>11, <2>12
<1>. HIDE DEF G
<1>7. n \in G
  BY <1>0, <1>5, <1>6, NaturalSet DEF G
<1>8. PICK j \in 1..n : f[n].tuple = Common(rl, j)
  BY <1>0, <1>7 DEF G
<1>. QED  BY <1>2, <1>8, CommonOK DEF n

-----------------------------------------------------------------------------
(* Table after table *)

(* What has been made of the rules of S that do not remain: each is in the *)
(* one table its assignment leads to, which is listed, has no longer       *)
(* prefixes, and no more than CollideLimit rules of one hash.              *)
MadeTable(t, S) ==
  /\ IsTable(t) /\ AreLengths(t.lengths)
  /\ Fills(t.stored, S, t.lengths)

MadeOf(c, S) ==
  /\ c.remain \subseteq S
  /\ c.heap = [t \in DOMAIN c.heap |-> c.heap[t]]
  /\ IsFiniteSet(DOMAIN c.heap) /\ DOMAIN c.heap \subseteq Nat
  /\ \A t \in DOMAIN c.heap : MadeTable(c.heap[t], S)
  /\ c.tables \in Seq(DOMAIN c.heap) /\ NoDuplicates(c.tables) /\ Elems(c.tables) = DOMAIN c.heap
  /\ c.assignments = [n \in Priorities(S \ c.remain) |-> c.assignments[n]]
  /\ \A r \in S \ c.remain : c.assignments[Priority[r]] \in DOMAIN c.heap
  /\ \A t \in DOMAIN c.heap :
       c.heap[t].stored = {r \in S \ c.remain : c.assignments[Priority[r]] = t}

LEMMA WithTableMade ==
  ASSUME NEW S \in SUBSET Rules, NEW c, MadeOf(c, S), NEW tuple \in [Fields -> Int],
         NEW taken, Fills(taken, c.remain, Lengthify(tuple))
  PROVE  MadeOf(WithTable(c, Fresh(c.heap), tuple, taken), S)
<1>1. PICK t : t = Fresh(c.heap)
  OBVIOUS
<1>2. t \in Nat /\ t \notin DOMAIN c.heap
  BY <1>1, FreshIsFree DEF MadeOf
<1>3. PICK x : x = TableInsertion(NewTable(tuple), taken)
  OBVIOUS
<1>4. taken \in SUBSET Rules /\ taken \subseteq S /\ taken \subseteq c.remain /\ c.remain \subseteq S
  BY DEF Fills, MadeOf
<1>5. IsTable(x) /\ x.lengths = Lengthify(tuple) /\ x.stored = taken
  <2>1. PICK y : y = NewTable(tuple)
    OBVIOUS
  <2>2. IsTable(y) /\ y.stored = {} /\ y.lengths = Lengthify(tuple)
    BY <2>1, NewTableOf
  <2>3. IsTable(x) /\ x.lengths = y.lengths /\ x.stored = y.stored \cup taken
    BY <1>3, <1>4, <2>1, <2>2, InsertionTable
  <2>. QED  BY <2>2, <2>3
<1>6. MadeTable(x, S)
  <2>1. AreLengths(Lengthify(tuple))
    BY NewLengths, NewTableOf
  <2>2. Fills(taken, S, Lengthify(tuple))
    BY <1>4 DEF Fills
  <2>. QED  BY <1>5, <2>1, <2>2 DEF MadeTable
<1>7. PICK h : h = Allocated(c.heap, t, x)
  OBVIOUS
<1>8. /\ DOMAIN h = DOMAIN c.heap \cup {t} /\ h[t] = x /\ h = [u \in DOMAIN h |-> h[u]]
      /\ \A u \in DOMAIN c.heap : h[u] = c.heap[u]
  BY <1>2, <1>7 DEF Allocated
<1>9. PICK a : a = [n \in DOMAIN c.assignments \cup Priorities(taken) |->
                     IF n \in Priorities(taken) THEN t ELSE c.assignments[n]]
  OBVIOUS
<1>10. PICK R : R = c.remain \ taken
  OBVIOUS
<1>11. PICK ts : ts = Append(c.tables, t)
  OBVIOUS
<1>12. PICK d : d = WithTable(c, Fresh(c.heap), tuple, taken)
  OBVIOUS
<1>13. d.remain = R /\ d.heap = h /\ d.tables = ts /\ d.assignments = a
  BY <1>1, <1>3, <1>7, <1>9, <1>10, <1>11, <1>12 DEF WithTable
<1>14. IsFiniteSet(DOMAIN h) /\ DOMAIN h \subseteq Nat
  <2>1. IsFiniteSet(DOMAIN c.heap) /\ DOMAIN c.heap \subseteq Nat
    BY DEF MadeOf
  <2>2. IsFiniteSet(DOMAIN c.heap \cup {t})
    BY <2>1, FS_AddElement
  <2>. QED  BY <1>2, <1>8, <2>1, <2>2
<1>15. \A u \in DOMAIN h : MadeTable(h[u], S)
  BY <1>6, <1>8 DEF MadeOf
<1>16. ts \in Seq(DOMAIN h) /\ NoDuplicates(ts) /\ Elems(ts) = DOMAIN h
  <2>1. c.tables \in Seq(DOMAIN c.heap) /\ NoDuplicates(c.tables) /\ Elems(c.tables) = DOMAIN c.heap
    BY DEF MadeOf
  <2>2. c.tables \in Seq(DOMAIN h) /\ t \in DOMAIN h
    BY <1>8, <2>1
  <2>. QED  BY <1>2, <1>8, <1>11, <2>1, <2>2, AppendElems
<1>17. S \ R = (S \ c.remain) \cup taken
  BY <1>4, <1>10
<1>18. /\ DOMAIN a = Priorities(S \ R) /\ a = [n \in Priorities(S \ R) |-> a[n]]
       /\ \A r \in taken : a[Priority[r]] = t
       /\ \A r \in S \ c.remain : a[Priority[r]] = c.assignments[Priority[r]]
  <2>1. DOMAIN c.assignments = Priorities(S \ c.remain)
    BY DEF MadeOf
  <2>2. Priorities(S \ R) = Priorities(S \ c.remain) \cup Priorities(taken)
    BY <1>17 DEF Priorities
  <2>3. DOMAIN a = Priorities(S \ R) /\ a = [n \in DOMAIN a |-> a[n]]
    BY <1>9, <2>1, <2>2
  <2>4. \A r \in taken : Priority[r] \in Priorities(taken) /\ Priority[r] \in DOMAIN a
    BY <1>4, <2>2, <2>3 DEF Priorities
  <2>5. \A r \in S \ c.remain : Priority[r] \notin Priorities(taken) /\ Priority[r] \in DOMAIN a
    <3>1. \A r \in S \ c.remain : r \in Rules /\ r \notin taken
      BY <1>4
    <3>2. \A r \in S \ c.remain : Priority[r] \notin Priorities(taken)
      BY Zenon, <1>4, <3>1, SamePriority
    <3>. QED  BY <2>2, <2>3, <3>2 DEF Priorities
  <2>. QED  BY <1>9, <2>3, <2>4, <2>5
<1>19. \A r \in S \ c.remain : c.assignments[Priority[r]] \in DOMAIN c.heap
  BY DEF MadeOf
<1>20. \A r \in S \ R : a[Priority[r]] \in DOMAIN h
  BY <1>8, <1>17, <1>18, <1>19
<1>21. ASSUME NEW u \in DOMAIN h
       PROVE  h[u].stored = {r \in S \ R : a[Priority[r]] = u}
  <2>1. CASE u = t
    <3>1. ASSUME NEW r \in S \ R PROVE a[Priority[r]] = t <=> r \in taken
      <4>1. CASE r \in taken
        BY <1>18, <4>1
      <4>2. CASE r \notin taken
        <5>1. r \in S \ c.remain
          BY <1>17, <4>2
        <5>2. a[Priority[r]] \in DOMAIN c.heap
          BY <1>18, <1>19, <5>1
        <5>. QED  BY <1>2, <4>2, <5>2
      <4>. QED  BY <4>1, <4>2
    <3>. QED  BY <1>5, <1>8, <1>17, <2>1, <3>1
  <2>2. CASE u # t
    <3>1. u \in DOMAIN c.heap /\ h[u] = c.heap[u]
      BY <1>8, <2>2
    <3>2. c.heap[u].stored = {r \in S \ c.remain : c.assignments[Priority[r]] = u}
      BY <3>1 DEF MadeOf
    <3>3. \A r \in S \ R : a[Priority[r]] = u <=> (r \in S \ c.remain /\ c.assignments[Priority[r]] = u)
      BY <1>17, <1>18, <2>2
    <3>. QED  BY <1>17, <3>1, <3>2, <3>3
  <2>. QED  BY <2>1, <2>2
<1>22. R \subseteq S
  BY <1>4, <1>10
<1>23. MadeOf(d, S)
  <2>1. d.remain \subseteq S
    BY <1>13, <1>22
  <2>2. /\ d.heap = [u \in DOMAIN d.heap |-> d.heap[u]]
        /\ IsFiniteSet(DOMAIN d.heap) /\ DOMAIN d.heap \subseteq Nat
        /\ \A u \in DOMAIN d.heap : MadeTable(d.heap[u], S)
    BY <1>8, <1>13, <1>14, <1>15
  <2>3. d.tables \in Seq(DOMAIN d.heap) /\ NoDuplicates(d.tables) /\ Elems(d.tables) = DOMAIN d.heap
    BY <1>13, <1>16
  <2>4. d.assignments = [n \in Priorities(S \ d.remain) |-> d.assignments[n]]
    BY <1>13, <1>18
  <2>5. \A r \in S \ d.remain : d.assignments[Priority[r]] \in DOMAIN d.heap
    BY <1>13, <1>20
  <2>6. \A u \in DOMAIN d.heap :
          d.heap[u].stored = {r \in S \ d.remain : d.assignments[Priority[r]] = u}
    BY <1>13, <1>21
  <2>. QED  BY <2>1, <2>2, <2>3, <2>4, <2>5, <2>6 DEF MadeOf
<1>. QED  BY <1>12, <1>23

(* Every round makes one more table, and leaves fewer rules. *)
LEMMA NextRoundMade ==
  ASSUME CollideLimit > 0, NEW S \in SUBSET Rules, IsFiniteSet(S), NEW c, MadeOf(c, S)
  PROVE  /\ MadeOf(NextRound(c), S) /\ NextRound(c).remain \subseteq c.remain
         /\ c.remain # {} => NextRound(c).remain # c.remain
<1>1. CASE c.remain = {}
  BY <1>1 DEF NextRound
<1>2. CASE c.remain # {}
  <2>1. c.remain \in SUBSET Rules /\ IsFiniteSet(c.remain)
    BY FS_Subset DEF MadeOf
  <2>2. PICK rl : rl = ByFallingPriority(c.remain)
    OBVIOUS
  <2>3. rl \in Seq(Rules) /\ Elems(rl) = c.remain
    <3>1. rl = Falling(c.remain)
      BY <2>2, Zenon DEF ByFallingPriority, Falling
    <3>. QED  BY <2>1, <3>1, FallingOK
  <2>4. rl # <<>> /\ rl[1] \in c.remain
    <3>1. rl # <<>>
      BY <1>2, <2>3 DEF Elems
    <3>2. 1 \in DOMAIN rl
      BY <2>3, <3>1
    <3>. QED  BY <2>3, <3>1, <3>2 DEF Elems
  <2>5. PICK tuple : tuple = BestTuple(rl)
    OBVIOUS
  <2>6. tuple \in [Fields -> 0..32] /\ Compatible(tuple, rl[1])
    BY <2>3, <2>4, <2>5, BestTupleOK
  <2>7. Compatible(Lengthify(tuple), rl[1])
    BY <2>6 DEF Compatible, Lengthify
  <2>8. PICK taken : taken = Takes(rl, Lengthify(tuple))
    OBVIOUS
  <2>9. Fills(taken, c.remain, Lengthify(tuple)) /\ rl[1] \in taken
    BY <2>3, <2>4, <2>7, <2>8, TakesFills
  <2>10. NextRound(c) = WithTable(c, Fresh(c.heap), tuple, taken)
    BY <1>2, <2>2, <2>5, <2>8 DEF NextRound, SelectTable
  <2>11. tuple \in [Fields -> Int]
    BY <2>6
  <2>12. NextRound(c).remain = c.remain \ taken
    BY <2>10 DEF WithTable
  <2>13. MadeOf(NextRound(c), S)
    BY <2>9, <2>10, <2>11, WithTableMade
  <2>. QED  BY <2>4, <2>9, <2>12, <2>13
<1>. QED  BY <1>1, <1>2

Nothing(S) == [remain |-> S, heap |-> <<>>, tables |-> <<>>, assignments |-> <<>>]

Rounds(f, S, n) == f = [k \in 0..n |-> IF k = 0 THEN Nothing(S) ELSE NextRound(f[k - 1])]

LEMMA RoundsExist ==
  ASSUME NEW S, NEW n \in Nat
  PROVE  \E f : Rounds(f, S, n)
<1>. DEFINE G == {k \in Nat : \E f : Rounds(f, S, k)}
<1>1. 0 \in G
  <2>. DEFINE f == [k \in 0..0 |-> Nothing(S)]
  <2>1. Rounds(f, S, 0)
    BY DEF Rounds
  <2>. QED  BY <2>1
<1>2. ASSUME NEW k \in G PROVE k + 1 \in G
  <2>1. PICK f : Rounds(f, S, k)
    OBVIOUS
  <2>. DEFINE g == [i \in 0..(k + 1) |-> IF i = k + 1 THEN NextRound(f[k]) ELSE f[i]]
  <2>2. ASSUME NEW i \in 0..(k + 1)
        PROVE  g[i] = IF i = 0 THEN Nothing(S) ELSE NextRound(g[i - 1])
    <3>1. k \in Nat /\ 0 \in 0..(k + 1)
      OBVIOUS
    <3>2. g[k + 1] = NextRound(f[k]) /\ \A j \in 0..k : g[j] = f[j]
      BY <3>1
    <3>3. \A j \in 0..k : f[j] = IF j = 0 THEN Nothing(S) ELSE NextRound(f[j - 1])
      BY <2>1, Zenon DEF Rounds
    <3>. HIDE DEF g
    <3>4. CASE i = k + 1
      <4>1. i - 1 = k /\ i # 0 /\ k \in 0..k
        BY <3>1, <3>4
      <4>. QED  BY <3>2, <3>4, <4>1
    <3>5. CASE i # k + 1
      <4>1. i \in 0..k /\ (i # 0 => i - 1 \in 0..k)
        BY <3>1, <3>5
      <4>. QED  BY <3>2, <3>3, <4>1
    <3>. QED  BY <3>4, <3>5
  <2>3. g = [i \in 0..(k + 1) |-> g[i]]
    OBVIOUS
  <2>. HIDE DEF g
  <2>4. Rounds(g, S, k + 1)
    BY <2>2, <2>3 DEF Rounds
  <2>. QED  BY <2>4
<1>. HIDE DEF G
<1>3. G = Nat
  BY <1>1, <1>2, NaturalSet DEF G
<1>. QED  BY <1>3 DEF G

LEMMA NothingMade ==
  ASSUME NEW S \in SUBSET Rules
  PROVE  MadeOf(Nothing(S), S) /\ Nothing(S).remain = S
<1>1. PICK c : c = Nothing(S)
  OBVIOUS
<1>2. c.remain = S /\ c.heap = <<>> /\ c.tables = <<>> /\ c.assignments = <<>>
  BY <1>1 DEF Nothing
<1>3. S \ c.remain = {} /\ DOMAIN c.heap = {} /\ DOMAIN c.tables = {}
  BY <1>2
<1>4. Priorities(S \ c.remain) = {} /\ Elems(c.tables) = {} /\ NoDuplicates(c.tables)
  BY <1>3 DEF Priorities, Elems, NoDuplicates
<1>5. c.assignments = [n \in Priorities(S \ c.remain) |-> c.assignments[n]]
  <2>1. PICK a : a = c.assignments
    OBVIOUS
  <2>2. a = <<>>
    BY <1>2, <2>1
  <2>3. a = [n \in {} |-> a[n]]
    BY <2>2
  <2>. QED  BY <1>4, <2>1, <2>3
<1>6. c.heap = [t \in DOMAIN c.heap |-> c.heap[t]]
  BY <1>2
<1>7. c.tables \in Seq(DOMAIN c.heap) /\ IsFiniteSet(DOMAIN c.heap)
  BY <1>2, <1>3, FS_EmptySet
<1>8. MadeOf(c, S)
  BY <1>2, <1>3, <1>4, <1>5, <1>6, <1>7 DEF MadeOf
<1>. QED  BY <1>1, <1>2, <1>8

LEMMA SelectedMade ==
  ASSUME CollideLimit > 0, NEW S \in SUBSET Rules, IsFiniteSet(S)
  PROVE  MadeOf(Selected(S), S) /\ Selected(S).remain = {}
<1>. DEFINE n == Cardinality(S)
            f == CHOOSE g : Rounds(g, S, n)
<1>0. n \in Nat
  BY FS_CardinalityType
<1>1. Rounds(f, S, n)
  BY <1>0, RoundsExist
<1>2. Selected(S) = f[n]
  BY Zenon DEF Selected, Rounds, Nothing
<1>. HIDE DEF f
<1>3. f[0] = Nothing(S) /\ \A k \in 1..n : f[k] = NextRound(f[k - 1])
  <2>. HIDE DEF n
  <2>1. \A k \in 0..n : f[k] = IF k = 0 THEN Nothing(S) ELSE NextRound(f[k - 1])
    BY <1>1, Zenon DEF Rounds
  <2>2. 0 \in 0..n /\ \A k \in 1..n : k \in 0..n /\ k # 0
    BY <1>0
  <2>. QED  BY <2>1, <2>2
<1>. DEFINE G == {k \in Nat : k <= n => MadeOf(f[k], S) /\ Cardinality(f[k].remain) <= n - k}
<1>4. 0 \in G
  <2>1. MadeOf(f[0], S) /\ f[0].remain = S
    BY <1>3, NothingMade
  <2>2. PICK m : m = n
    OBVIOUS
  <2>. QED  BY <1>0, <2>1
<1>5. ASSUME NEW k \in G PROVE k + 1 \in G
  <2>. SUFFICES ASSUME k + 1 <= n
                PROVE  MadeOf(f[k + 1], S) /\ Cardinality(f[k + 1].remain) <= n - (k + 1)
    OBVIOUS
  <2>1. PICK m : m = n
    OBVIOUS
  <2>2. k \in Nat /\ m \in Nat /\ k + 1 <= m
    BY <1>0, <2>1
  <2>3. k + 1 \in 1..m /\ (k + 1) - 1 = k /\ k <= m
    BY <2>2
  <2>4. PICK c : c = f[k]
    OBVIOUS
  <2>5. PICK d : d = f[k + 1]
    OBVIOUS
  <2>6. MadeOf(c, S) /\ Cardinality(c.remain) <= m - k
    BY <2>1, <2>3, <2>4
  <2>. HIDE DEF G, n
  <2>7. d = NextRound(c)
    BY <1>3, <2>1, <2>3, <2>4, <2>5
  <2>8. MadeOf(d, S) /\ d.remain \subseteq c.remain /\ (c.remain # {} => d.remain # c.remain)
    BY <2>6, <2>7, NextRoundMade
  <2>9. IsFiniteSet(c.remain) /\ IsFiniteSet(d.remain)
    BY <2>6, <2>8, FS_Subset DEF MadeOf
  <2>10. PICK x : x = Cardinality(c.remain)
    OBVIOUS
  <2>11. PICK y : y = Cardinality(d.remain)
    OBVIOUS
  <2>12. x \in Nat /\ y \in Nat
    BY <2>9, <2>10, <2>11, FS_CardinalityType
  <2>13. y <= m - (k + 1)
    <3>1. CASE c.remain = {}
      <4>1. d.remain = {}
        BY <2>8, <3>1
      <4>2. y = 0
        BY <2>11, <4>1, FS_EmptySet
      <4>. QED  BY <2>2, <4>2
    <3>2. CASE c.remain # {}
      <4>1. y <= x /\ (y = x => d.remain = c.remain)
        BY <2>8, <2>9, <2>10, <2>11, FS_Subset
      <4>2. x <= m - k
        BY <2>6, <2>10
      <4>. QED  BY <2>2, <2>8, <2>12, <3>2, <4>1, <4>2
    <3>. QED  BY <3>1, <3>2
  <2>. QED  BY <2>1, <2>5, <2>8, <2>11, <2>13
<1>. HIDE DEF G
<1>6. n \in G
  BY <1>0, <1>4, <1>5, NaturalSet DEF G
<1>7. PICK c : c = f[n]
  OBVIOUS
<1>8. MadeOf(c, S) /\ Cardinality(c.remain) <= 0
  <2>1. PICK m : m = n
    OBVIOUS
  <2>2. m \in Nat /\ Cardinality(c.remain) <= m - m
    BY <1>0, <1>6, <1>7, <2>1 DEF G
  <2>3. m - m = 0
    BY <2>2
  <2>. QED  BY <1>0, <1>6, <1>7, <2>2, <2>3 DEF G
<1>9. c.remain = {}
  <2>1. IsFiniteSet(c.remain)
    BY <1>8, FS_Subset DEF MadeOf
  <2>2. Cardinality(c.remain) \in Nat /\ (Cardinality(c.remain) = 0 <=> c.remain = {})
    BY <2>1, FS_CardinalityType, FS_EmptySet
  <2>. QED  BY <1>8, <2>2
<1>. QED  BY <1>2, <1>7, <1>8, <1>9

-----------------------------------------------------------------------------
(* The construction *)

AllSearched == Listed = Elems(rules)

NoMoreThanLimit ==
  \A t \in DOMAIN heap : \A r \in heap[t].stored :
    Cardinality(Collisions(heap[t], r)) <= CollideLimit

LEMMA ListsOK ==
  ASSUME NEW rl \in Lists
  PROVE  rl \in Seq(Rules) /\ NoDuplicates(rl) /\ IsFiniteSet(Elems(rl)) /\ Elems(rl) \subseteq Rules
<1>1. Cardinality(Rules) \in Nat
  BY RulesFinite, FS_CardinalityType
<1>2. PICK n \in 1..Cardinality(Rules) : rl \in [1..n -> Rules] /\ NoDuplicates(rl)
  BY DEF Lists
<1>3. n \in Nat /\ DOMAIN rl = 1..n
  BY <1>1, <1>2
<1>4. rl \in Seq(Rules)
  BY <1>2, <1>3, SeqOfLength
<1>5. Elems(rl) \subseteq Rules
  BY <1>2, <1>3 DEF Elems
<1>. QED  BY <1>2, <1>4, <1>5, RulesFinite, FS_Subset

LEMMA ConstructOfflineInv ==
  ASSUME CollideLimit > 0, NEW rl \in Lists, ConstructOffline(rl)
  PROVE  Inv' /\ LengthsOK' /\ AllSearched' /\ NoMoreThanLimit'
<1>1. PICK S : S = Elems(rl)
  OBVIOUS
<1>2. rl \in Seq(Rules) /\ NoDuplicates(rl) /\ S \in SUBSET Rules /\ IsFiniteSet(S)
  BY <1>1, ListsOK
<1>3. PICK c : c = Selected(S)
  OBVIOUS
<1>4. MadeOf(c, S) /\ c.remain = {}
  BY <1>2, <1>3, SelectedMade
<1>5. rules' = rl /\ heap' = c.heap /\ assignments' = c.assignments /\ tables' \in Resort(c.tables, c.heap)
  BY <1>1, <1>3 DEF ConstructOffline, Constructed
<1>6. S \ c.remain = S
  BY <1>4
<1>7. \A t \in DOMAIN heap' : MadeTable(heap'[t], S)
  BY <1>4, <1>5 DEF MadeOf
<1>8. RulesOK'
  <2>1. c.assignments = [n \in Priorities(S) |-> c.assignments[n]]
    BY <1>4, <1>6 DEF MadeOf
  <2>. QED  BY <1>1, <1>2, <1>5, <2>1 DEF RulesOK
<1>9. HeapOK'
  <2>1. /\ c.heap = [t \in DOMAIN c.heap |-> c.heap[t]]
        /\ IsFiniteSet(DOMAIN c.heap) /\ DOMAIN c.heap \subseteq Nat
    BY <1>4 DEF MadeOf
  <2>. QED  BY <1>5, <1>7, <2>1 DEF HeapOK, MadeTable
<1>10. c.tables \in Seq(DOMAIN c.heap) /\ NoDuplicates(c.tables) /\ Elems(c.tables) = DOMAIN c.heap
  BY <1>4 DEF MadeOf
<1>11. tables' \in Seq(DOMAIN c.heap) /\ NoDuplicates(tables') /\ Elems(tables') = DOMAIN c.heap
       /\ SortedBy(tables', c.heap)
  <2>1. \A t \in Elems(c.tables) : c.heap[t].maxPriority \in Int
    BY <1>5, <1>7, <1>10, TableMax DEF MadeTable
  <2>. QED  BY <1>5, <1>10, <2>1, ResortFacts
<1>12. TablesOK' /\ SortedByPriority'
  BY <1>5, <1>11 DEF TablesOK, SortedByPriority, SortedBy
<1>13. StoredWhereAssigned'
  BY <1>1, <1>4, <1>5, <1>6 DEF MadeOf, StoredWhereAssigned
<1>14. FitsItsTable'
  BY <1>7 DEF FitsItsTable, MadeTable, Fills, Compatible, CanInsert
<1>15. LengthsOK'
  BY <1>7 DEF LengthsOK, MadeTable
<1>16. AllSearched'
  <2>1. \A r \in S : c.assignments[Priority[r]] \in DOMAIN c.heap
    BY <1>4, <1>6 DEF MadeOf
  <2>2. \A t \in DOMAIN c.heap : c.heap[t].stored = {r \in S : c.assignments[Priority[r]] = t}
    BY <1>4, <1>6 DEF MadeOf
  <2>3. Listed' = UNION {c.heap[t].stored : t \in DOMAIN c.heap}
    BY <1>5, <1>11 DEF Listed, Elems
  <2>4. Elems(rules') = S
    BY <1>1, <1>5 DEF Elems
  <2>5. UNION {c.heap[t].stored : t \in DOMAIN c.heap} = S
    BY <2>1, <2>2
  <2>. QED  BY <2>3, <2>4, <2>5 DEF AllSearched
<1>17. NoMoreThanLimit'
  BY <1>7 DEF NoMoreThanLimit, MadeTable, Fills, Collisions
<1>. QED  BY <1>8, <1>9, <1>12, <1>13, <1>14, <1>15, <1>16, <1>17 DEF Inv

-----------------------------------------------------------------------------
(* The theorems hold of the online classifier, which begins empty, and of  *)
(* the offline one, which may be constructed from a list of rules.         *)

(* The invariant holds throughout: the tables keep what is assigned to     *)
(* them, in accounts that agree, whatever is inserted, split and deleted.  *)
THEOREM Invariance == (Spec => []Inv) /\ (OfflineSpec => []Inv)
<1>1. ASSUME Inv, [Next]_vars PROVE Inv'
  <2>1. CASE UNCHANGED vars
    BY <1>1, <2>1 DEF vars, Inv, RulesOK, HeapOK, TablesOK, StoredWhereAssigned, FitsItsTable, SortedByPriority
  <2>. QED  BY <1>1, <2>1, InsertRuleInv, DeleteRuleInv DEF Next, Construct
<1>2. ASSUME Inv, [OfflineNext]_vars PROVE Inv'
  BY <1>1, <1>2, OfflineAssumption, ConstructOfflineInv DEF OfflineNext
<1>3. Spec => []Inv
  BY <1>1, InitInv, PTL DEF Spec
<1>4. OfflineSpec => []Inv
  BY <1>2, InitInv, PTL DEF OfflineSpec
<1>. QED  BY <1>3, <1>4

LEMMA LengthsInvariance == (Spec => []LengthsOK) /\ (OfflineSpec => []LengthsOK)
<1>1. Init => LengthsOK
  BY DEF Init, LengthsOK
<1>2. Inv /\ LengthsOK /\ [Next]_vars => LengthsOK'
  BY NextLengths
<1>3. Inv /\ LengthsOK /\ [OfflineNext]_vars => LengthsOK'
  BY <1>2, OfflineAssumption, ConstructOfflineInv DEF OfflineNext
<1>4. Spec => []LengthsOK
  BY <1>1, <1>2, Invariance, PTL DEF Spec
<1>5. OfflineSpec => []LengthsOK
  BY <1>1, <1>3, Invariance, PTL DEF OfflineSpec
<1>. QED  BY <1>4, <1>5

(* assignments leads from every rule present to the one table that stores  *)
(* it, through all splits and also when the table is not listed any more:  *)
(* the pointer DeleteRule follows is never dangling or outdated.           *)
THEOREM AssignmentsLead == (Spec => []AssignedToItsTable) /\ (OfflineSpec => []AssignedToItsTable)
<1>1. Inv => AssignedToItsTable
  <2>. SUFFICES ASSUME Inv PROVE AssignedToItsTable
    OBVIOUS
  <2>1. DOMAIN assignments = Priorities(Elems(rules))
    BY DEF Inv, RulesOK
  <2>2. ASSUME NEW r \in Elems(rules)
        PROVE  /\ assignments[Priority[r]] \in DOMAIN heap
               /\ {t \in DOMAIN heap : r \in heap[t].stored} = {assignments[Priority[r]]}
    BY DEF Inv, StoredWhereAssigned
  <2>. QED  BY <2>1, <2>2 DEF AssignedToItsTable
<1>. QED  BY <1>1, Invariance, PTL

(* A rule is stored only in a table whose tuple does not ask for longer    *)
(* prefixes than its own, after a split too: else its packets would hash   *)
(* elsewhere (SlottedTable::CanInsert).                                    *)
THEOREM RulesFit == (Spec => []FitsItsTable) /\ (OfflineSpec => []FitsItsTable)
<1>1. Inv => FitsItsTable
  BY DEF Inv
<1>. QED  BY <1>1, Invariance, PTL

(* The vector is sorted by falling maxPriority after every operation,      *)
(* although DeleteRule reads an uninitialized flag to decide whether to    *)
(* sort it.                                                                *)
THEOREM StaysSorted == (Spec => []SortedByPriority) /\ (OfflineSpec => []SortedByPriority)
<1>1. Inv => SortedByPriority
  BY DEF Inv
<1>. QED  BY <1>1, Invariance, PTL

LEMMA ListedRules ==
  ASSUME Inv
  PROVE  Listed = {s \in Elems(rules) : assignments[Priority[s]] \in Elems(tables)}
<1>1. Elems(tables) \subseteq DOMAIN heap
  BY DEF Inv, TablesOK, Elems
<1>. QED  BY <1>1 DEF Listed, Inv, StoredWhereAssigned

(* No insertion or split takes a rule out of the search, and a deletion    *)
(* takes others along only when it empties a table.                        *)
THEOREM OnlyDeletionDrops == (Spec => OnlyEmptiedTablesDrop) /\ (OfflineSpec => OnlyEmptiedTablesDrop)
<1>. DEFINE Emptied == \E t \in DOMAIN heap : heap[t].stored # {} /\ heap[t].stored \cap Elems(rules') = {}
<1>1. ASSUME Inv, Inv', StaysListed
      PROVE  (Elems(rules') \cap Listed) \ Listed' = {}
  <2>1. Listed = {s \in Elems(rules) : assignments[Priority[s]] \in Elems(tables)}
    BY <1>1, ListedRules
  <2>2. (Inv => Listed = {s \in Elems(rules) : assignments[Priority[s]] \in Elems(tables)})'
    BY ListedRules, PTL
  <2>3. Listed' = {s \in Elems(rules') : assignments'[Priority[s]] \in Elems(tables')}
    BY <1>1, <2>2 DEF Elems
  <2>. QED  BY <1>1, <2>1, <2>3 DEF StaysListed
<1>2. ASSUME Inv, Inv', Next
      PROVE  StaysListed \/ Emptied
  BY <1>2, InsertRuleInv, DeleteRuleInv DEF Next, Construct
<1>3. Inv /\ Inv' /\ [Next]_vars => [(Elems(rules') \cap Listed) \ Listed' # {} => Emptied]_vars
  BY <1>1, <1>2
<1>4. ASSUME NEW rl \in Lists, ConstructOffline(rl)
      PROVE  (Elems(rules') \cap Listed) \ Listed' = {}
  <2>1. Listed = {}
    BY <1>4 DEF ConstructOffline, Constructed, Init, Listed, Elems
  <2>. QED  BY <2>1
<1>5. Inv /\ Inv' /\ [OfflineNext]_vars => [(Elems(rules') \cap Listed) \ Listed' # {} => Emptied]_vars
  BY <1>3, <1>4 DEF OfflineNext
<1>6. Spec => OnlyEmptiedTablesDrop
  BY <1>3, Invariance, PTL DEF Spec, OnlyEmptiedTablesDrop
<1>7. OfflineSpec => OnlyEmptiedTablesDrop
  BY <1>5, Invariance, PTL DEF OfflineSpec, OnlyEmptiedTablesDrop
<1>. QED  BY <1>6, <1>7

(* An empty classifier takes its first rule into a table of its own. *)
LEMMA FirstRule ==
  ASSUME CollideLimit > 0, Init, NEW r \in Rules, InsertRule(r)
  PROVE  AllSearched' /\ NoMoreThanLimit'
<1>. DEFINE x == TableInsertion(NewTable(Relax(PreferedTuple(r))), {r})
<1>1. rules = <<>> /\ heap = <<>> /\ tables = <<>> /\ DOMAIN tables = {}
  BY DEF Init
<1>2. InsertNew(r) /\ rules' = Append(rules, r)
  BY <1>1 DEF InsertRule
<1>3. PICK t : t = Fresh(heap)
  OBVIOUS
<1>4. heap' = Allocated(heap, t, x) /\ tables' \in Resort(Append(tables, t), heap')
  BY <1>2, <1>3 DEF InsertNew, ResortIf
<1>5. IsTable(x) /\ x.stored = {r}
  <2>1. PICK y : y = NewTable(Relax(PreferedTuple(r)))
    OBVIOUS
  <2>2. IsTable(y) /\ y.stored = {}
    BY <2>1, NewTableOf
  <2>. QED  BY <2>1, <2>2, InsertionTable
<1>. HIDE DEF x
<1>6. DOMAIN heap' = {t} /\ heap'[t] = x
  BY <1>1, <1>4 DEF Allocated
<1>7. Elems(rules') = {r} /\ Elems(tables') = {t}
  <2>1. Elems(Append(rules, r)) = {r} /\ Elems(Append(tables, t)) = {t}
    BY <1>1 DEF Elems
  <2>2. Elems(tables') = Elems(Append(tables, t))
    BY <1>4 DEF Resort
  <2>. QED  BY <1>2, <2>1, <2>2 DEF Elems
<1>8. AllSearched'
  BY <1>5, <1>6, <1>7 DEF AllSearched, Listed
<1>9. NoMoreThanLimit'
  <2>1. PICK C : C = Collisions(x, r)
    OBVIOUS
  <2>2. C = {r}
    BY <1>5, <2>1 DEF Collisions, Chain
  <2>3. Cardinality(C) <= CollideLimit
    BY <2>2, FS_Singleton, CollideAssumption
  <2>. QED  BY <1>5, <1>6, <2>1, <2>3 DEF NoMoreThanLimit
<1>. QED  BY <1>8, <1>9

(* The construction from a list ends with every rule of it in a table that *)
(* is searched, and with no table in which more rules collide than the     *)
(* limit allows, although the tuple of a table is chosen by counting       *)
(* collisions under another hash than the table has                        *)
(* (TupleMergeOffline::SelectTable).                                       *)
THEOREM ConstructionStaysBounded == OfflineSpec => ConstructionBounded
<1>1. ASSUME Init, OfflineNext
      PROVE  AllSearched' /\ NoMoreThanLimit'
  <2>1. ASSUME NEW i \in DOMAIN rules PROVE FALSE
    BY <1>1, <2>1 DEF Init
  <2>. QED  BY <1>1, <2>1, OfflineAssumption, FirstRule, ConstructOfflineInv DEF OfflineNext, Next, Construct
<1>. DEFINE Bounded ==
       Init =>
         /\ Listed' = Elems(rules')
         /\ \A t \in DOMAIN heap' : \A r \in heap'[t].stored :
              Cardinality(Collisions(heap'[t], r)) <= CollideLimit
<1>2. [OfflineNext]_vars => [Bounded]_vars
  BY <1>1 DEF AllSearched, NoMoreThanLimit
<1>. QED  BY <1>2, PTL DEF OfflineSpec, ConstructionBounded

-----------------------------------------------------------------------------
(* The search *)

(* The best priority after the first i tables, f giving that after i - 1 *)
PriorOf(f, p, i) ==
  IF i = 0 THEN -1
  ELSE LET t     == heap[tables[i]]
           found == ClassifyAPacketIn(t, p)
       IN  IF t.maxPriority > f[i - 1] /\ found > f[i - 1] THEN found ELSE f[i - 1]

IsPrior(f, p, n) == f = [i \in 0..n |-> PriorOf(f, p, i)]

Prior(p) == CHOOSE f : IsPrior(f, p, Len(tables))

LEMMA PriorExtends ==
  ASSUME NEW p, NEW n \in Nat, NEW f, IsPrior(f, p, n)
  PROVE  \E g : IsPrior(g, p, n + 1)
<1>. DEFINE g == [i \in 0..(n + 1) |-> IF i <= n THEN f[i] ELSE PriorOf(f, p, i)]
<1>1. ASSUME NEW i \in 0..(n + 1)
      PROVE  g[i] = PriorOf(g, p, i)
  <2>1. i # 0 => i - 1 \in 0..n /\ i - 1 \in 0..(n + 1) /\ i - 1 <= n
    OBVIOUS
  <2>2. i # 0 => g[i - 1] = f[i - 1]
    BY <2>1
  <2>3. g[i] = IF i <= n THEN f[i] ELSE PriorOf(f, p, i)
    OBVIOUS
  <2>. HIDE DEF g
  <2>4. PriorOf(g, p, i) = PriorOf(f, p, i)
    BY <2>2 DEF PriorOf
  <2>5. i <= n => f[i] = PriorOf(f, p, i)
    BY DEF IsPrior
  <2>. QED  BY <2>3, <2>4, <2>5
<1>2. g = [i \in 0..(n + 1) |-> g[i]]
  OBVIOUS
<1>. HIDE DEF g
<1>3. g = [i \in 0..(n + 1) |-> PriorOf(g, p, i)]
  BY <1>1, <1>2
<1>. QED  BY <1>3 DEF IsPrior

LEMMA PriorExists ==
  ASSUME NEW p, NEW n \in Nat
  PROVE  \E f : IsPrior(f, p, n)
<1>. DEFINE T == {m \in Nat : ~ \E f : IsPrior(f, p, m)}
<1>. SUFFICES ASSUME T # {} PROVE FALSE
  OBVIOUS
<1>. HIDE DEF T
<1>1. T \in SUBSET Nat
  BY DEF T
<1>2. PICK m \in T : \A k \in T : m <= k
  BY <1>1, LeastNat
<1>3. m # 0
  <2>. DEFINE f == [i \in 0..0 |-> -1]
  <2>1. \A i \in 0..0 : i = 0
    OBVIOUS
  <2>2. \A i \in 0..0 : f[i] = PriorOf(f, p, i)
    BY <2>1 DEF PriorOf
  <2>3. f = [i \in 0..0 |-> f[i]]
    OBVIOUS
  <2>. HIDE DEF f
  <2>4. f = [i \in 0..0 |-> PriorOf(f, p, i)]
    BY <2>2, <2>3
  <2>5. IsPrior(f, p, 0)
    BY <2>4 DEF IsPrior
  <2>. QED  BY <2>5 DEF T
<1>4. m - 1 \in Nat /\ m - 1 \notin T
  BY <1>1, <1>2, <1>3
<1>5. PICK f : IsPrior(f, p, m - 1)
  BY <1>4 DEF T
<1>6. \E g : IsPrior(g, p, (m - 1) + 1)
  BY <1>4, <1>5, PriorExtends
<1>7. (m - 1) + 1 = m
  BY <1>1, <1>2
<1>. QED  BY <1>2, <1>6, <1>7 DEF T

LEMMA PriorIs ==
  ASSUME Inv, NEW p
  PROVE  /\ \A i \in 0..Len(tables) : Prior(p)[i] = PriorOf(Prior(p), p, i)
         /\ ClassifyAPacket(p) = Prior(p)[Len(tables)]
<1>1. Len(tables) \in Nat
  BY DEF Inv, TablesOK
<1>2. \E f : IsPrior(f, p, Len(tables))
  BY <1>1, PriorExists
<1>3. IsPrior(Prior(p), p, Len(tables))
  BY <1>2 DEF Prior
<1>4. \A i \in 0..Len(tables) : Prior(p)[i] = PriorOf(Prior(p), p, i)
  BY <1>3 DEF IsPrior
<1>5. ClassifyAPacket(p) = Prior(p)[Len(tables)]
  BY Zenon DEF ClassifyAPacket, Prior, IsPrior, PriorOf
<1>. QED  BY <1>4, <1>5

(* What the tables before position i answer to p *)
AnswersTo(p, i) ==
  UNION {Hits(heap[tables[j]].lengths, heap[tables[j]].stored, p) : j \in 1..i}

LEMMA TableAnswer ==
  ASSUME Inv, NEW p \in Packets, NEW i \in 1..Len(tables)
  PROVE  LET t == heap[tables[i]]
             H == Hits(t.lengths, t.stored, p)
         IN  /\ t.maxPriority \in Int /\ t.maxPriority >= -1
             /\ H \in SUBSET (0..MaxPriority)
             /\ \A n \in H : n <= t.maxPriority
             /\ ClassifyAPacketIn(t, p) \in H \cup {-1}
             /\ \A n \in H : n <= ClassifyAPacketIn(t, p)
<1>. DEFINE t == heap[tables[i]]
            H == Hits(t.lengths, t.stored, p)
            S == Priorities(t.stored)
<1>1. tables[i] \in DOMAIN heap
  BY DEF Inv, TablesOK
<1>2. t.stored \in SUBSET Rules /\ t.maxPriority = Best(S)
  BY <1>1, TableMax DEF Inv, HeapOK, IsTable, TableOf
<1>3. H \subseteq S
  BY DEF Hits, Matching, Chain, Priorities
<1>4. t.maxPriority \in Int /\ t.maxPriority >= -1
  BY <1>2, BestType
<1>5. S \in SUBSET (0..MaxPriority)
  BY <1>2, PrioritiesType
<1>6. ClassifyAPacketIn(t, p) = Best(H)
  BY DEF ClassifyAPacketIn
<1>. HIDE DEF t, H, S
<1>7. \A n \in S : n <= t.maxPriority
  BY <1>2, <1>5, BestIsMax
<1>8. H = {} => Best(H) = -1
  BY DEF Best
<1>9. H # {} => Best(H) \in H /\ \A n \in H : n <= Best(H)
  BY <1>3, <1>5, BestIsMax
<1>. QED  BY <1>3, <1>4, <1>5, <1>6, <1>7, <1>8, <1>9 DEF t, H, S

(* The best priority found so far is the best the tables behind could      *)
(* have answered, those skipped for their maximum included.                *)
PriorIsBest(p, i) ==
  /\ Prior(p)[i] \in AnswersTo(p, i) \cup {-1}
  /\ \A n \in AnswersTo(p, i) : n <= Prior(p)[i]

LEMMA AnswersGrow ==
  ASSUME NEW p, NEW i \in Nat, i # 0
  PROVE  AnswersTo(p, i) =
           AnswersTo(p, i - 1) \cup Hits(heap[tables[i]].lengths, heap[tables[i]].stored, p)
<1>1. 1..i = (1..(i - 1)) \cup {i}
  OBVIOUS
<1>. QED  BY <1>1 DEF AnswersTo

LEMMA AnswersType ==
  ASSUME Inv, NEW p \in Packets, NEW i \in 0..Len(tables)
  PROVE  AnswersTo(p, i) \in SUBSET (0..MaxPriority)
<1>1. \A j \in 1..i : j \in 1..Len(tables)
  BY DEF Inv, TablesOK
<1>. QED  BY <1>1, TableAnswer DEF AnswersTo

LEMMA PriorStep ==
  ASSUME Inv, NEW p \in Packets, NEW i \in 1..Len(tables), PriorIsBest(p, i - 1)
  PROVE  PriorIsBest(p, i)
<1>. DEFINE t == heap[tables[i]]
            H == Hits(t.lengths, t.stored, p)
            A == AnswersTo(p, i - 1)
            prior == Prior(p)[i - 1]
            found == ClassifyAPacketIn(t, p)
<1>0. Len(tables) \in Nat /\ i \in 0..Len(tables) /\ i - 1 \in 0..Len(tables) /\ i \in Nat /\ i # 0
  BY DEF Inv, TablesOK
<1>1. Prior(p)[i] = IF t.maxPriority > prior /\ found > prior THEN found ELSE prior
  BY <1>0, PriorIs DEF PriorOf
<1>2. AnswersTo(p, i) = A \cup H
  BY <1>0, AnswersGrow
<1>3. A \in SUBSET (0..MaxPriority)
  BY <1>0, AnswersType
<1>4. /\ t.maxPriority \in Int
      /\ H \in SUBSET (0..MaxPriority)
      /\ \A n \in H : n <= t.maxPriority
      /\ found \in H \cup {-1}
      /\ \A n \in H : n <= found
  BY TableAnswer
<1>5. prior \in A \cup {-1} /\ \A n \in A : n <= prior
  BY DEF PriorIsBest
<1>6. MaxPriority \in Nat
  BY RuleSetAssumption
<1>7. prior \in Int /\ found \in Int
  BY <1>3, <1>4, <1>5, <1>6
<1>. HIDE DEF t, H, A, prior, found
<1>8. CASE t.maxPriority > prior /\ found > prior
  <2>1. found \in H
    <3>1. prior >= -1
      BY <1>3, <1>5, <1>6
    <3>. QED  BY <1>4, <1>7, <1>8, <3>1
  <2>2. \A n \in A : n <= found
    <3>1. A \in SUBSET Int
      BY <1>3, <1>6
    <3>. QED  BY <1>5, <1>7, <1>8, <3>1
  <2>. QED  BY <1>1, <1>2, <1>4, <1>8, <2>1, <2>2 DEF PriorIsBest
<1>9. CASE ~ (t.maxPriority > prior /\ found > prior)
  <2>1. H \in SUBSET Int
    BY <1>4, <1>6
  <2>2. \A n \in H : n <= prior
    BY <1>4, <1>7, <1>9, <2>1
  <2>. QED  BY <1>1, <1>2, <1>5, <1>9, <2>2 DEF PriorIsBest
<1>. QED  BY <1>8, <1>9

LEMMA PriorBest ==
  ASSUME Inv, NEW p \in Packets
  PROVE  PriorIsBest(p, Len(tables))
<1>. DEFINE T == {i \in 0..Len(tables) : ~ PriorIsBest(p, i)}
<1>0. Len(tables) \in Nat
  BY DEF Inv, TablesOK
<1>. SUFFICES ASSUME T # {} PROVE FALSE
  BY <1>0
<1>. HIDE DEF T
<1>1. T \in SUBSET Nat /\ \A i \in T : i \in 0..Len(tables)
  BY DEF T
<1>2. PICK i \in T : \A k \in T : i <= k
  BY <1>1, LeastNat
<1>3. i # 0
  <2>1. AnswersTo(p, 0) = {}
    BY DEF AnswersTo
  <2>2. Prior(p)[0] = -1
    BY <1>0, PriorIs DEF PriorOf
  <2>. QED  BY <2>1, <2>2 DEF PriorIsBest, T
<1>4. i \in 1..Len(tables) /\ i - 1 \in 0..Len(tables) /\ i - 1 \notin T
  BY <1>0, <1>1, <1>2, <1>3
<1>. QED  BY <1>2, <1>4, PriorStep DEF T

-----------------------------------------------------------------------------
(* The answers *)

(* A rule that matches is found in the table that stores it: the table     *)
(* hashes by no more of a field than the rule's own prefix.                *)
LEMMA StoredIsHit ==
  ASSUME Inv, LengthsOK, NEW p \in Packets, NEW t \in DOMAIN heap
  PROVE  Hits(heap[t].lengths, heap[t].stored, p) = Matching(heap[t].stored, p)
<1>. DEFINE l == heap[t].lengths
            S == heap[t].stored
<1>1. S \in SUBSET Rules
  BY DEF Inv, HeapOK, IsTable
<1>2. ASSUME NEW r \in S, <<r, p>> \in Match
      PROVE  r \in Chain(l, S, HashPacket(l, p))
  <2>1. r \in Rules
    BY <1>1
  <2>2. \A d \in DOMAIN l : l[d] <= PrefixLength[r][d]
    BY DEF Inv, FitsItsTable, CanInsert, PreferedTuple
  <2>3. DOMAIN l \subseteq Fields /\ \A d \in DOMAIN l : l[d] \in Nat
    BY DEF LengthsOK, AreLengths
  <2>4. \A d \in DOMAIN l : l[d] \in 0..PrefixLength[r][d]
    BY <2>1, <2>2, <2>3, RuleSetAssumption
  <2>. HIDE DEF l
  <2>5. HashRule(l, r) = HashPacket(l, p)
    BY <1>2, <2>1, <2>3, <2>4, SameHash
  <2>. QED  BY <2>5 DEF Chain
<1>3. Chain(l, S, HashPacket(l, p)) \subseteq S
  BY DEF Chain
<1>. HIDE DEF l, S
<1>4. Hits(l, S, p) = Matching(S, p)
  BY <1>2, <1>3 DEF Hits, Matching
<1>. QED  BY <1>4 DEF l, S

(* Every packet is answered with the priority of the best rule in the      *)
(* listed tables that matches it: skipping the tables whose maximum is not *)
(* above the best found so far loses nothing, and no rule is stored where  *)
(* the hash of its packets does not lead (TupleMergeOnline.cpp:97).        *)
THEOREM ExactAnswers == (Spec => []ExactOnListed) /\ (OfflineSpec => []ExactOnListed)
<1>1. ASSUME Inv, LengthsOK, NEW p \in Packets
      PROVE  ClassifyAPacket(p) = Best(Matching(Listed, p))
  <2>. DEFINE A == AnswersTo(p, Len(tables))
              m == ClassifyAPacket(p)
  <2>1. A = Matching(Listed, p)
    <3>1. \A j \in 1..Len(tables) : tables[j] \in DOMAIN heap
      BY <1>1 DEF Inv, TablesOK
    <3>2. \A j \in 1..Len(tables) :
             Hits(heap[tables[j]].lengths, heap[tables[j]].stored, p) = Matching(heap[tables[j]].stored, p)
      BY <1>1, <3>1, StoredIsHit
    <3>3. Elems(tables) = {tables[j] : j \in 1..Len(tables)}
      BY <1>1 DEF Inv, TablesOK, Elems
    <3>4. A = UNION {Matching(heap[tables[j]].stored, p) : j \in 1..Len(tables)}
      BY <3>2 DEF AnswersTo
    <3>. HIDE DEF A
    <3>5. ASSUME NEW n \in A PROVE n \in Matching(Listed, p)
      <4>1. PICK j \in 1..Len(tables) : n \in Matching(heap[tables[j]].stored, p)
        BY <3>4
      <4>2. heap[tables[j]].stored \subseteq Listed
        BY <3>3 DEF Listed
      <4>. QED  BY <4>1, <4>2 DEF Matching
    <3>6. ASSUME NEW n \in Matching(Listed, p) PROVE n \in A
      <4>1. PICK q \in Listed : <<q, p>> \in Match /\ n = Priority[q]
        BY DEF Matching
      <4>2. PICK j \in 1..Len(tables) : q \in heap[tables[j]].stored
        BY <3>3, <4>1 DEF Listed
      <4>3. n \in Matching(heap[tables[j]].stored, p)
        BY <4>1, <4>2 DEF Matching
      <4>. QED  BY <3>4, <4>3
    <3>. QED  BY <3>5, <3>6
  <2>2. m \in A \cup {-1} /\ \A n \in A : n <= m
    BY <1>1, PriorBest, PriorIs DEF PriorIsBest
  <2>3. A \in SUBSET (0..MaxPriority)
    <3>1. Len(tables) \in 0..Len(tables)
      BY <1>1 DEF Inv, TablesOK
    <3>. QED  BY <1>1, <3>1, AnswersType
  <2>4. MaxPriority \in Nat
    BY RuleSetAssumption
  <2>. HIDE DEF A, m
  <2>5. m = Best(A)
    <3>1. CASE A = {}
      BY <2>2, <3>1 DEF Best
    <3>2. CASE A # {}
      <4>1. m \in A
        <5>1. PICK n \in A : n \in 0..MaxPriority /\ n <= m
          BY <2>2, <2>3, <3>2
        <5>2. m # -1
          BY <2>4, <5>1
        <5>. QED  BY <2>2, <5>2
      <4>2. A \in SUBSET Int
        BY <2>3, <2>4
      <4>. QED  BY <2>2, <4>1, <4>2, BestUnique
    <3>. QED  BY <3>1, <3>2
  <2>. QED  BY <2>1, <2>5 DEF m
<1>2. Inv /\ LengthsOK => ExactOnListed
  BY <1>1 DEF ExactOnListed
<1>. QED  BY <1>2, Invariance, LengthsInvariance, PTL
==============================================================================
