-------------------- MODULE PriorityTupleSpaceSearch_proofs --------------------
(***************************************************************************)
(* PriorityTupleSpaceSearch implements Classifier and TupleSpaceSearch,    *)
(* and TupleSpaceSearch implements Classifier, for every set of rules,     *)
(* every hash and every sequence of insertions and deletions.              *)
(***************************************************************************)
EXTENDS PriorityTupleSpaceSearch, TupleTable_proofs

-----------------------------------------------------------------------------
(* The vector of tuples *)

LEMMA ResortedElems ==
  ASSUME NEW S, NEW v \in Seq(S), NEW t, NEW q \in Resorted(v, t)
  PROVE  /\ q \in Seq(S) /\ Len(q) = Len(v)
         /\ Elems(q) = Elems(v) /\ NoDuplicates(q) /\ Sorted(q, t)
<1>1. q \in [1..Len(v) -> Elems(v)] /\ Elems(q) = Elems(v) /\ NoDuplicates(q) /\ Sorted(q, t)
  BY DEF Resorted, NoDuplicates
<1>2. Elems(v) \subseteq S
  BY DEF Elems
<1>3. Len(v) \in Nat
  OBVIOUS
<1>4. q \in [1..Len(v) -> S]
  BY <1>1, <1>2
<1>5. q \in Seq(S) /\ Len(q) = Len(v)
  BY <1>3, <1>4
<1>. QED  BY <1>1, <1>5

-----------------------------------------------------------------------------
(* The operations on one tuple *)

LEMMA RuleTypes ==
  /\ MaxPriority \in Nat
  /\ \A r \in Rules : Priority[r] \in 0..MaxPriority
  /\ \A r \in Rules : KeyRulePrefix(r) \in [Dims -> 0..32]
BY RuleSetAssumption, DimsAssumption DEF KeyRulePrefix

(* What MaxIsBest says of one tuple, and its type *)
Accounted(t) ==
  /\ t.priorities = {Priority[r] : r \in t.stored}
  /\ t.maxPriority \in t.priorities
  /\ \A n \in t.priorities : n <= t.maxPriority

LEMMA NewAccounted ==
  ASSUME NEW r \in Rules
  PROVE  /\ NewPriorityTuple(r) \in PriorityTuple
         /\ Accounted(NewPriorityTuple(r))
         /\ NewPriorityTuple(r).stored = {r}
BY RuleTypes DEF NewPriorityTuple, PriorityTuple, Accounted

LEMMA InsertionAccounted ==
  ASSUME NEW t \in PriorityTuple, Accounted(t), NEW r \in Rules
  PROVE  /\ Insertion(t, r) \in PriorityTuple
         /\ Accounted(Insertion(t, r))
         /\ Insertion(t, r).stored = t.stored \cup {r}
         /\ ~ (Priority[r] > t.maxPriority) => Insertion(t, r).maxPriority = t.maxPriority
<1>. DEFINE u == Insertion(t, r)
<1>1. /\ t.stored \subseteq Rules /\ t.priorities \subseteq 0..MaxPriority
      /\ t.maxPriority \in -1..MaxPriority
  BY DEF PriorityTuple
<1>2. /\ u.stored = t.stored \cup {r} /\ u.priorities = t.priorities \cup {Priority[r]}
      /\ u.maxPriority = IF Priority[r] > t.maxPriority THEN Priority[r] ELSE t.maxPriority
  BY DEF Insertion
<1>3. Priority[r] \in 0..MaxPriority /\ MaxPriority \in Nat
  BY RuleTypes
<1>4. u.maxPriority \in -1..MaxPriority
  BY <1>1, <1>2, <1>3
<1>5. u \in PriorityTuple
  <2>1. u.stored \in SUBSET Rules /\ u.priorities \in SUBSET (0..MaxPriority)
    BY <1>1, <1>2, <1>3
  <2>. QED  BY <2>1, <1>4 DEF PriorityTuple, Insertion
<1>6. u.priorities = {Priority[s] : s \in u.stored}
  BY <1>2 DEF Accounted
<1>7. u.maxPriority \in u.priorities
  BY <1>2 DEF Accounted
<1>8. \A n \in u.priorities : n <= u.maxPriority
  BY <1>1, <1>2, <1>3 DEF Accounted
<1>. QED  BY <1>2, <1>5, <1>6, <1>7, <1>8 DEF Accounted

PrioritiesOf(S) == {Priority[s] : s \in S}

(* u is t after the deletion of r *)
Deleted(t, r, u) ==
  /\ u.stored = t.stored \ {r}
  /\ u.priorities = PrioritiesOf(t.stored \ {r})
  /\ t.stored = {r} => u.maxPriority = -1
  /\ t.stored # {r} => u \in PriorityTuple /\ Accounted(u)
  /\ ~ (t.stored = {r} \/ Priority[r] = t.maxPriority) => u.maxPriority = t.maxPriority

LEMMA DeletionAccounted ==
  ASSUME NEW k, NEW t \in PriorityTuple, Accounted(t), NEW r \in t.stored
  PROVE  Deleted(t, r, Deletion(k, t, r))
<1>. DEFINE u == Deletion(k, t, r)
            left == t.priorities \ {Priority[r]}
<1>1. /\ t.stored \subseteq Rules /\ t.priorities \subseteq 0..MaxPriority
      /\ t.maxPriority \in -1..MaxPriority
  BY DEF PriorityTuple
<1>2. /\ u.stored = t.stored \ {r} /\ u.priorities = left
      /\ u.maxPriority = IF left = {} \/ Priority[r] = t.maxPriority
                         THEN Best(left) ELSE t.maxPriority
  BY <1>1, WithoutRemoves DEF Deletion
<1>3. left = {Priority[s] : s \in t.stored \ {r}}
  <2>1. \A s \in t.stored : Priority[s] = Priority[r] => s = r
    BY <1>1, RuleSetAssumption
  <2>. QED  BY <2>1 DEF Accounted
<1>4. left = {} <=> t.stored = {r}
  BY <1>3
<1>5. left = {} => u.maxPriority = -1
  BY <1>2 DEF Best
<1>6. left # {} => Best(left) \in left /\ \A n \in left : n <= Best(left)
  BY <1>1, BestIsMax
<1>7. left # {} => u.maxPriority \in left /\ \A n \in left : n <= u.maxPriority
  BY <1>2, <1>6 DEF Accounted
<1>8. left # {} => u \in PriorityTuple
  <2>1. left # {} => u.maxPriority \in -1..MaxPriority
    BY <1>1, <1>7, RuleTypes
  <2>. QED  BY <1>1, <1>2, <2>1 DEF PriorityTuple, Deletion
<1>. HIDE DEF left, u
<1>9. left # {} => Accounted(u)
  BY <1>2, <1>3, <1>7 DEF Accounted
<1>. QED  BY <1>2, <1>3, <1>4, <1>5, <1>8, <1>9 DEF u, PrioritiesOf, Deleted

-----------------------------------------------------------------------------
(* The inductive invariant *)

Inv == TypeOK /\ VectorIsMap /\ StoredByKey /\ MaxIsBest /\ VectorSorted

LEMMA InitInv == Init => Inv
BY DEF Init, Inv, TypeOK, VectorIsMap, StoredByKey, MaxIsBest, VectorSorted,
       NoDuplicates, Elems, Sorted

(* What Inv says of each tuple *)
LEMMA TupleAt ==
  ASSUME Inv, NEW k \in DOMAIN tuples
  PROVE  /\ tuples[k] \in PriorityTuple
         /\ Accounted(tuples[k])
         /\ tuples[k].stored = {r \in Elems(rules) : KeyRulePrefix(r) = k}
         /\ tuples[k].stored \subseteq Rules
         /\ k \in [Dims -> 0..32]
BY DEF Inv, TypeOK, StoredByKey, MaxIsBest, Accounted, PriorityTuple

LEMMA InsertInv ==
  ASSUME Inv, NEW r \in Rules, InsertRule(r)
  PROVE  Inv'
<1>. DEFINE k == KeyRulePrefix(r)
<1>1. k \in [Dims -> 0..32]
  BY RuleTypes
<1>2. /\ rules' \in Seq(Rules) /\ NoDuplicates(rules')
      /\ Elems(rules') = Elems(rules) \cup {r} /\ r \notin Elems(rules)
  BY AppendElems DEF Inv, TypeOK, StoredByKey, InsertRule
<1>3. /\ vector \in Seq([Dims -> 0..32]) /\ NoDuplicates(vector)
      /\ Elems(vector) = DOMAIN tuples /\ Sorted(vector, tuples)
      /\ DOMAIN tuples = {KeyRulePrefix(s) : s \in Elems(rules)}
      /\ DOMAIN tuples \subseteq [Dims -> 0..32]
  BY DEF Inv, TypeOK, VectorIsMap, VectorSorted, StoredByKey
<1>4. DOMAIN tuples \cup {k} = {KeyRulePrefix(s) : s \in Elems(rules')}
  BY <1>2, <1>3
<1>. HIDE DEF k
(* It is enough to look at the tuple of r and at the vector. *)
<1>5. SUFFICES /\ DOMAIN tuples' = DOMAIN tuples \cup {k}
               /\ tuples'[k] \in PriorityTuple /\ Accounted(tuples'[k])
               /\ tuples'[k].stored = (IF k \in DOMAIN tuples THEN tuples[k].stored ELSE {}) \cup {r}
               /\ \A j \in DOMAIN tuples \ {k} : tuples'[j] = tuples[j]
               /\ vector' \in Seq([Dims -> 0..32]) /\ NoDuplicates(vector')
               /\ Elems(vector') = DOMAIN tuples \cup {k}
               /\ Sorted(vector', tuples')
  <2>1. \A j \in DOMAIN tuples' : tuples'[j] \in PriorityTuple /\ Accounted(tuples'[j])
    BY <1>5, TupleAt
  <2>2. ASSUME NEW j \in DOMAIN tuples'
        PROVE  tuples'[j].stored = {s \in Elems(rules') : KeyRulePrefix(s) = j}
    <3>1. CASE j = k
      <4>1. k \notin DOMAIN tuples => \A s \in Elems(rules) : KeyRulePrefix(s) # k
        BY <1>3
      <4>. QED  BY <1>2, <1>5, <3>1, <4>1, TupleAt DEF k
    <3>2. CASE j # k
      BY <1>2, <1>5, <3>2, TupleAt DEF k
    <3>. QED  BY <3>1, <3>2
  <2>3. TypeOK'
    BY <1>1, <1>2, <1>3, <1>5, <2>1 DEF TypeOK
  <2>4. StoredByKey'
    BY <1>2, <1>4, <1>5, <2>2 DEF StoredByKey
  <2>5. MaxIsBest'
    BY <2>1 DEF MaxIsBest, Accounted
  <2>6. VectorIsMap' /\ VectorSorted'
    BY <1>5 DEF VectorIsMap, VectorSorted
  <2>. QED  BY <2>3, <2>4, <2>5, <2>6 DEF Inv
<1>6. CASE InsertIntoTuple(r)
  <2>. DEFINE t == [tuples EXCEPT ![k] = Insertion(@, r)]
  <2>1. /\ k \in DOMAIN tuples /\ tuples' = t
        /\ IF Priority[r] > tuples[k].maxPriority
           THEN vector' \in Resorted(vector, t) ELSE vector' = vector
    BY <1>6 DEF InsertIntoTuple, k
  <2>2. /\ DOMAIN t = DOMAIN tuples /\ t[k] = Insertion(tuples[k], r)
        /\ \A j \in DOMAIN tuples \ {k} : t[j] = tuples[j]
    BY <2>1
  <2>. HIDE DEF t
  <2>3. /\ t[k] \in PriorityTuple /\ Accounted(t[k])
        /\ t[k].stored = tuples[k].stored \cup {r}
        /\ ~ (Priority[r] > tuples[k].maxPriority) => t[k].maxPriority = tuples[k].maxPriority
    BY <2>1, <2>2, TupleAt, InsertionAccounted
  <2>4. CASE Priority[r] > tuples[k].maxPriority
    BY <1>3, <1>5, <2>1, <2>2, <2>3, <2>4, ResortedElems
  <2>5. CASE ~ (Priority[r] > tuples[k].maxPriority)
    <3>1. \A j \in DOMAIN tuples : t[j].maxPriority = tuples[j].maxPriority
      BY <2>2, <2>3, <2>5
    <3>2. \A i \in DOMAIN vector : vector[i] \in DOMAIN tuples
      BY <1>3 DEF Elems
    <3>3. Sorted(vector, t)
      BY <1>3, <3>1, <3>2 DEF Sorted
    <3>. QED  BY <1>3, <2>1, <2>2, <2>3, <2>5, <3>3
  <2>. QED  BY <2>4, <2>5
<1>7. CASE InsertNewTuple(r)
  <2>. DEFINE t == [j \in DOMAIN tuples \cup {k} |-> IF j = k THEN NewPriorityTuple(r) ELSE tuples[j]]
  <2>1. k \notin DOMAIN tuples /\ tuples' = t /\ vector' \in Resorted(Append(vector, k), t)
    BY <1>7 DEF InsertNewTuple, k
  <2>2. /\ DOMAIN t = DOMAIN tuples \cup {k} /\ t[k] = NewPriorityTuple(r)
        /\ \A j \in DOMAIN tuples \ {k} : t[j] = tuples[j]
    OBVIOUS
  <2>. HIDE DEF t
  <2>3. /\ Append(vector, k) \in Seq([Dims -> 0..32])
        /\ Elems(Append(vector, k)) = DOMAIN tuples \cup {k}
    <3>. DEFINE K == [Dims -> 0..32]
    <3>1. k \in K /\ vector \in Seq(K)
      BY <1>1, <1>3
    <3>. HIDE DEF K
    <3>2. Append(vector, k) \in Seq(K) /\ Elems(Append(vector, k)) = Elems(vector) \cup {k}
      BY <3>1, AppendElems
    <3>. QED  BY <1>3, <3>2 DEF K
  <2>4. /\ vector' \in Seq([Dims -> 0..32]) /\ NoDuplicates(vector')
        /\ Elems(vector') = DOMAIN tuples \cup {k} /\ Sorted(vector', t)
    BY <2>1, <2>3, ResortedElems
  <2>. QED  BY <2>1, <2>2, <2>4, NewAccounted
<1>. QED  BY <1>6, <1>7 DEF InsertRule

LEMMA DeleteInv ==
  ASSUME Inv, NEW i \in DOMAIN rules, DeleteRule(i)
  PROVE  Inv'
<1>. DEFINE r == rules[i]
            k == KeyRulePrefix(r)
            t == [tuples EXCEPT ![k] = Deletion(k, @, r)]
<1>1. /\ rules' \in Seq(Rules) /\ NoDuplicates(rules')
      /\ Elems(rules') = Elems(rules) \ {r} /\ r \in Elems(rules) /\ r \in Rules
  <2>1. rules \in Seq(Rules) /\ NoDuplicates(rules)
    BY DEF Inv, TypeOK, StoredByKey
  <2>2. r \in Elems(rules) /\ r \in Rules
    BY <2>1 DEF Elems
  <2>. QED  BY <2>1, <2>2, SwapRemoveElems DEF DeleteRule
<1>2. /\ vector \in Seq([Dims -> 0..32]) /\ NoDuplicates(vector)
      /\ Elems(vector) = DOMAIN tuples /\ Sorted(vector, tuples)
      /\ DOMAIN tuples = {KeyRulePrefix(s) : s \in Elems(rules)}
      /\ DOMAIN tuples \subseteq [Dims -> 0..32]
  BY DEF Inv, TypeOK, VectorIsMap, VectorSorted, StoredByKey
<1>3. k \in DOMAIN tuples /\ r \in tuples[k].stored
  BY <1>1, <1>2, TupleAt
<1>4. /\ DOMAIN t = DOMAIN tuples /\ t[k] = Deletion(k, tuples[k], r)
      /\ \A j \in DOMAIN tuples \ {k} : t[j] = tuples[j]
  BY <1>3
<1>5. DeleteFromTuple(r)
  BY DEF DeleteRule
<1>. HIDE DEF r
<1>6. \/ /\ t[k].stored = {}
         /\ tuples' = [j \in DOMAIN tuples \ {k} |-> tuples[j]]
         /\ \E q \in Resorted(vector, t) : vector' = PopBack(q)
      \/ /\ t[k].stored # {} /\ tuples' = t
         /\ IF t[k].priorities = {} \/ Priority[r] = tuples[k].maxPriority
            THEN vector' \in Resorted(vector, t) ELSE vector' = vector
  BY <1>5 DEF DeleteFromTuple
<1>7. /\ t[k].stored = tuples[k].stored \ {r}
      /\ t[k].priorities = PrioritiesOf(tuples[k].stored \ {r})
      /\ tuples[k].stored = {r} => t[k].maxPriority = -1
      /\ tuples[k].stored # {r} => t[k] \in PriorityTuple /\ Accounted(t[k])
      /\ ~ (tuples[k].stored = {r} \/ Priority[r] = tuples[k].maxPriority)
           => t[k].maxPriority = tuples[k].maxPriority
  <2>1. Deleted(tuples[k], r, t[k])
    BY <1>3, <1>4, TupleAt, DeletionAccounted
  <2>. HIDE DEF t, k
  <2>. QED  BY <2>1 DEF Deleted
<1>. HIDE DEF t
(* It is enough to look at the tuple of r and at the vector. *)
<1>8. SUFFICES /\ DOMAIN tuples' = IF tuples[k].stored = {r} THEN DOMAIN tuples \ {k} ELSE DOMAIN tuples
               /\ tuples[k].stored # {r} => tuples'[k] = t[k]
               /\ \A j \in DOMAIN tuples \ {k} : tuples'[j] = tuples[j]
               /\ vector' \in Seq([Dims -> 0..32]) /\ NoDuplicates(vector')
               /\ Elems(vector') = DOMAIN tuples'
               /\ Sorted(vector', tuples')
  <2>1. \A j \in DOMAIN tuples' : tuples'[j] \in PriorityTuple /\ Accounted(tuples'[j])
    BY <1>7, <1>8, TupleAt
  <2>2. \A j \in DOMAIN tuples' :
          tuples'[j].stored = {s \in Elems(rules') : KeyRulePrefix(s) = j}
    BY <1>1, <1>3, <1>7, <1>8, TupleAt
  <2>3. DOMAIN tuples' = {KeyRulePrefix(s) : s \in Elems(rules')}
    <3>1. tuples[k].stored = {r} <=> \A s \in Elems(rules) \ {r} : KeyRulePrefix(s) # k
      BY <1>3, TupleAt
    <3>2. \A j \in DOMAIN tuples \ {k} : \E s \in Elems(rules) \ {r} : KeyRulePrefix(s) = j
      BY <1>2
    <3>. QED  BY <1>1, <1>2, <1>3, <1>8, <3>1, <3>2
  <2>4. TypeOK'
    BY <1>1, <1>2, <1>8, <2>1 DEF TypeOK
  <2>5. StoredByKey'
    BY <1>1, <2>2, <2>3 DEF StoredByKey
  <2>6. MaxIsBest'
    BY <2>1 DEF MaxIsBest, Accounted
  <2>7. VectorIsMap' /\ VectorSorted'
    BY <1>8 DEF VectorIsMap, VectorSorted
  <2>. QED  BY <2>4, <2>5, <2>6, <2>7 DEF Inv
<1>9. CASE t[k].stored = {}
  <2>1. tuples[k].stored = {r}
    BY <1>3, <1>7, <1>9
  <2>2. PICK q \in Resorted(vector, t) : vector' = PopBack(q)
    BY <1>6, <1>9
  <2>3. tuples' = [j \in DOMAIN tuples \ {k} |-> tuples[j]]
    BY <1>6, <1>9
  <2>4. /\ q \in Seq([Dims -> 0..32]) /\ Elems(q) = DOMAIN tuples
        /\ NoDuplicates(q) /\ Sorted(q, t)
    BY <1>2, <2>2, ResortedElems
  <2>. DEFINE n == Len(q)
  <2>5. n \in Nat /\ DOMAIN q = 1..n
    BY <2>4
  <2>6. PICK m \in 1..n : q[m] = k
    BY <1>3, <2>4, <2>5 DEF Elems
  <2>7. \A j \in DOMAIN tuples \ {k} : t[j].maxPriority \in Int /\ t[j].maxPriority >= 0
    <3>1. \A j \in DOMAIN tuples : tuples[j].maxPriority \in 0..MaxPriority
      BY TupleAt DEF Accounted, PriorityTuple
    <3>. QED  BY <1>4, <3>1, RuleTypes
  (* The emptied tuple is the last one. *)
  <2>8. m = n
    <3>. SUFFICES ASSUME m # n PROVE FALSE
      OBVIOUS
    <3>. HIDE DEF n, k
    <3>0. n \in DOMAIN q /\ m \in DOMAIN q /\ m < n
      BY <2>5, <2>6
    <3>1. q[n] # k /\ q[n] \in DOMAIN tuples
      BY <2>4, <2>6, <3>0 DEF NoDuplicates, Elems
    <3>2. t[k].maxPriority >= t[q[n]].maxPriority
      BY <2>4, <2>6, <3>0 DEF Sorted
    <3>. QED  BY <1>7, <2>1, <2>7, <3>1, <3>2
  <2>9. DOMAIN vector' = 1..(n - 1) /\ \A j \in 1..(n - 1) : vector'[j] = q[j]
    BY <2>2 DEF PopBack
  <2>10. vector' \in Seq([Dims -> 0..32])
    <3>. DEFINE K == [Dims -> 0..32]
    <3>1. q \in Seq(K)
      BY <2>4
    <3>. HIDE DEF K
    <3>2. vector' \in Seq(K)
      BY <2>2, <2>5, <2>6, <3>1 DEF PopBack
    <3>. QED  BY <3>2 DEF K
  <2>11. NoDuplicates(vector')
    BY <2>4, <2>5, <2>9 DEF NoDuplicates
  <2>12. Elems(vector') = DOMAIN tuples \ {k}
    <3>1. \A y \in Elems(vector') : y \in Elems(q) /\ y # k
      BY <2>4, <2>5, <2>6, <2>8, <2>9 DEF Elems, NoDuplicates
    <3>2. \A y \in Elems(q) : y # k => y \in Elems(vector')
      BY <2>5, <2>6, <2>8, <2>9 DEF Elems
    <3>. QED  BY <2>4, <3>1, <3>2
  <2>13. Sorted(vector', tuples')
    <3>1. \A j \in DOMAIN vector' : vector'[j] \in DOMAIN tuples \ {k}
      BY <2>12 DEF Elems
    <3>2. \A j \in DOMAIN vector' : tuples'[vector'[j]] = t[vector'[j]]
      BY <1>4, <2>3, <3>1
    <3>. QED  BY <2>4, <2>5, <2>9, <3>2 DEF Sorted
  <2>. QED  BY <2>1, <2>3, <2>10, <2>11, <2>12, <2>13
<1>10. CASE t[k].stored # {}
  <2>1. tuples[k].stored # {r} /\ tuples' = t
    BY <1>6, <1>7, <1>10
  <2>2. t[k].priorities # {}
    BY <1>7, <1>10 DEF PrioritiesOf
  <2>3. CASE Priority[r] = tuples[k].maxPriority
    <3>1. vector' \in Resorted(vector, t)
      BY <1>6, <1>10, <2>3
    <3>. QED  BY <1>2, <1>4, <2>1, <3>1, ResortedElems
  <2>4. CASE Priority[r] # tuples[k].maxPriority
    <3>1. vector' = vector
      BY <1>6, <1>10, <2>2, <2>4
    <3>2. \A j \in DOMAIN tuples : t[j].maxPriority = tuples[j].maxPriority
      BY <1>4, <1>7, <2>1, <2>4
    <3>3. \A j \in DOMAIN vector : vector[j] \in DOMAIN tuples
      BY <1>2 DEF Elems
    <3>4. Sorted(vector, t)
      BY <1>2, <3>2, <3>3 DEF Sorted
    <3>. QED  BY <1>2, <1>4, <2>1, <3>1, <3>4
  <2>. QED  BY <2>3, <2>4
<1>. QED  BY <1>9, <1>10

(* The type invariant and what it needs: of every behaviour, the vector is *)
(* the sorted list of the tuples in the map, the tuples partition the      *)
(* rules by key, and the maximum of each is the best of its priorities.    *)
THEOREM Invariance == Spec => []Inv
<1>1. Inv /\ [Next]_vars => Inv'
  <2>. SUFFICES ASSUME Inv, [Next]_vars PROVE Inv'
    OBVIOUS
  <2>1. CASE \E r \in Rules : InsertRule(r)
    BY <2>1, InsertInv
  <2>2. CASE \E i \in DOMAIN rules : DeleteRule(i)
    BY <2>2, DeleteInv
  <2>3. CASE UNCHANGED vars
    BY <2>3 DEF vars, Inv, TypeOK, VectorIsMap, StoredByKey, MaxIsBest, VectorSorted, Sorted
  <2>. QED  BY <2>1, <2>2, <2>3 DEF Next
<1>. QED  BY <1>1, InitInv, PTL DEF Spec

(* Variables keep their types. *)
THEOREM TypeCorrect == Spec => []TypeOK
BY Invariance, PTL DEF Inv

(* The pointers in the vector are those in the map: what the sort puts     *)
(* last and pop_back removes is the emptied tuple.                         *)
THEOREM VectorCorrect == Spec => []VectorIsMap
BY Invariance, PTL DEF Inv

(* The vector is in the order of falling maxima that a search relies on    *)
(* after every insertion and deletion, those that do not sort included.    *)
THEOREM StaysSorted == Spec => []VectorSorted
BY Invariance, PTL DEF Inv

(* Every rule present is stored in the tuple of its key and in no other,   *)
(* and no tuple is empty.                                                  *)
THEOREM TuplesCorrect == Spec => []StoredByKey
BY Invariance, PTL DEF Inv

(* The chains, the multiset of priorities and the cached maximum of every  *)
(* tuple agree.                                                            *)
THEOREM MaximaCorrect == Spec => []MaxIsBest
BY Invariance, PTL DEF Inv

-----------------------------------------------------------------------------
(* The search *)

LEMMA HitsAtIn ==
  ASSUME Inv, NEW p \in Packets, NEW j \in DOMAIN vector
  PROVE  /\ HitsAt(p, j) \subseteq Matching(Elems(rules), p)
         /\ \A n \in HitsAt(p, j) : n <= tuples[vector[j]].maxPriority
<1>. DEFINE k == vector[j]
<1>1. k \in DOMAIN tuples
  BY DEF Inv, VectorIsMap, Elems
<1>2. /\ tuples[k].stored \subseteq Elems(rules)
      /\ \A r \in tuples[k].stored : Priority[r] <= tuples[k].maxPriority
  BY <1>1, TupleAt DEF Accounted
<1>3. ASSUME NEW n \in HitsAt(p, j)
      PROVE  \E r \in tuples[k].stored : <<r, p>> \in Match /\ n = Priority[r]
  BY <1>3 DEF HitsAt, Hits, Matching, Chain
<1>. QED  BY <1>2, <1>3 DEF Matching

(* A rule that matches is found in its tuple: a packet it matches hashes   *)
(* to its chain.                                                           *)
LEMMA RuleIsHit ==
  ASSUME Inv, NEW p \in Packets, NEW r \in Elems(rules), <<r, p>> \in Match
  PROVE  \E j \in DOMAIN vector : Priority[r] \in HitsAt(p, j)
<1>. DEFINE k == KeyRulePrefix(r)
<1>0. r \in Rules
  BY DEF Inv, TypeOK, Elems
<1>1. k \in DOMAIN tuples
  BY DEF Inv, StoredByKey
<1>2. PICK j \in DOMAIN vector : vector[j] = k
  BY <1>1 DEF Inv, VectorIsMap, Elems
<1>3. r \in tuples[k].stored
  BY <1>1, TupleAt
<1>4. DOMAIN k = Dims /\ \A d \in Dims : k[d] = PrefixLength[r][d]
  BY DEF KeyRulePrefix
<1>5. \A d \in Dims : d \in Fields /\ PrefixLength[r][d] \in 0..32
  BY <1>0, DimsAssumption, RuleSetAssumption
<1>. HIDE DEF k
<1>6. HashRule(k, r) = HashPacket(k, p)
  BY <1>0, <1>4, <1>5, SameHash
<1>7. r \in Chain(k, tuples[k].stored, HashPacket(k, p))
  BY <1>3, <1>6 DEF Chain
<1>8. Priority[r] \in HitsAt(p, j)
  BY <1>2, <1>7 DEF HitsAt, Hits, Matching
<1>. QED  BY <1>8

LEMMA MatchingType ==
  ASSUME Inv, NEW p
  PROVE  Matching(Elems(rules), p) \in SUBSET (0..MaxPriority)
<1>1. Elems(rules) \subseteq Rules
  BY DEF Inv, TypeOK, Elems
<1>. QED  BY <1>1, RuleTypes DEF Matching

(* Nothing that matches beats everything the visited tuples answer. *)
LEMMA VisitedSuffice ==
  ASSUME Inv, NEW p \in Packets, NEW n \in Matching(Elems(rules), p)
  PROVE  \E u \in UNION {HitsAt(p, j) : j \in Visited(p)} : u >= n
<1>1. PICK j \in DOMAIN vector : n \in HitsAt(p, j)
  BY RuleIsHit DEF Matching
<1>2. \A i \in DOMAIN vector : HitsAt(p, i) \subseteq 0..MaxPriority
  BY HitsAtIn, MatchingType
<1>3. n \in Int
  BY <1>1, <1>2, RuleTypes
<1>4. CASE j \in Visited(p)
  BY <1>1, <1>3, <1>4
<1>5. CASE j \notin Visited(p)
  <2>. DEFINE T == {m \in DOMAIN vector : m <= j /\ Beaten(p, m)}
  <2>1. DOMAIN vector \subseteq Nat
    BY DEF Inv, TypeOK
  <2>2. T # {} /\ T \in SUBSET Nat
    BY <1>5, <2>1 DEF Visited
  <2>. HIDE DEF T
  <2>3. PICK m \in T : \A l \in T : m <= l
    BY <2>2, LeastNat
  <2>4. m \in DOMAIN vector /\ m <= j /\ Beaten(p, m) /\ m \in Nat /\ j \in Nat
    BY <2>1, <2>3 DEF T
  <2>0. PICK i \in DOMAIN vector :
          i < m /\ \E h \in HitsAt(p, i) : h > tuples[vector[m]].maxPriority
    BY <2>4 DEF Beaten
  <2>5. PICK h \in HitsAt(p, i) : h > tuples[vector[m]].maxPriority
    BY <2>0
  <2>6. i \in Visited(p)
    <3>1. \A l \in DOMAIN vector : l <= i => l \notin T
      BY <2>1, <2>3, <2>4, <2>0
    <3>2. \A l \in DOMAIN vector : l <= i => l <= j
      BY <2>1, <2>4, <2>0
    <3>. QED  BY <3>1, <3>2 DEF Visited, T
  <2>7. n <= tuples[vector[j]].maxPriority
    BY <1>1, HitsAtIn
  <2>8. \A l \in DOMAIN vector : tuples[vector[l]].maxPriority \in Int
    <3>1. \A l \in DOMAIN vector : vector[l] \in DOMAIN tuples
      BY DEF Inv, VectorIsMap, Elems
    <3>. QED  BY <3>1, TupleAt, RuleTypes DEF PriorityTuple
  <2>9. tuples[vector[m]].maxPriority >= tuples[vector[j]].maxPriority
    <3>1. CASE m = j
      BY <2>8, <3>1
    <3>2. CASE m < j
      BY <2>4, <3>2 DEF Inv, VectorSorted, Sorted
    <3>. QED  BY <2>4, <3>1, <3>2
  <2>10. h \in Int
    BY <1>2, RuleTypes
  <2>11. h >= n
    BY <1>3, <2>4, <2>5, <2>7, <2>8, <2>9, <2>10
  <2>. QED  BY <2>6, <2>11
<1>. QED  BY <1>4, <1>5

(* Each search gives the priority of the best rule present that matches. *)
LEMMA ExactAnswer ==
  ASSUME Inv, NEW p \in Packets
  PROVE  ClassifyAPacket(p) = Best(Matching(Elems(rules), p))
<1>. DEFINE U == UNION {HitsAt(p, j) : j \in Visited(p)}
            M == Matching(Elems(rules), p)
<1>1. U \subseteq M
  BY HitsAtIn DEF Visited
<1>2. \A n \in M : \E u \in U : u >= n
  BY VisitedSuffice
<1>3. M \in SUBSET (0..MaxPriority)
  BY MatchingType
<1>4. Best(U) = ClassifyAPacket(p)
  BY DEF ClassifyAPacket
<1>. HIDE DEF U, M
<1>5. CASE M = {}
  BY <1>1, <1>4, <1>5 DEF M
<1>6. CASE M # {}
  <2>1. Best(M) \in M /\ \A n \in M : n <= Best(M)
    BY <1>3, <1>6, BestIsMax
  <2>2. M \subseteq Int
    BY <1>3, RuleTypes
  <2>3. PICK u \in U : u >= Best(M)
    BY <1>2, <2>1
  <2>4. u = Best(M)
    <3>1. u \in M /\ u <= Best(M)
      BY <1>1, <2>1
    <3>2. u \in Int /\ Best(M) \in Int
      BY <2>1, <2>2, <3>1
    <3>. QED  BY <2>3, <3>1, <3>2
  <2>5. Best(M) \in U /\ \A n \in U : n <= Best(M)
    BY <1>1, <2>1, <2>4
  <2>6. U \in SUBSET Int
    BY <1>1, <2>2
  <2>7. Best(U) = Best(M)
    BY <2>5, <2>6, BestUnique
  <2>. QED  BY <1>4, <2>7 DEF M
<1>. QED  BY <1>5, <1>6

-----------------------------------------------------------------------------
(* Classifier speaks of rules as this module does. *)
LEMMA SameOperators ==
  /\ \A s : Ideal!Elems(s) = Elems(s)
  /\ \A s, i : Ideal!SwapRemove(s, i) = SwapRemove(s, i)
  /\ \A s, p : Ideal!Matching(Elems(s), p) = Matching(Elems(s), p)
  /\ \A S : Ideal!Best(S) = Best(S)
BY DEF Ideal!Elems, Elems, Ideal!SwapRemove, SwapRemove, Ideal!Matching, Matching, Ideal!Best, Best

LEMMA ExactAnswers ==
  Inv => [p \in Packets |-> ClassifyAPacket(p)] = Ideal!Exact(rules)
<1>1. Ideal!Exact(rules) = [p \in Packets |-> Best(Matching(Elems(rules), p))]
  BY SameOperators DEF Ideal!Exact
<1>. QED  BY <1>1, ExactAnswer

(* The search that stops early implements Classifier: after every sequence *)
(* of insertions and deletions each packet is answered with the priority   *)
(* of the best rule present that matches it, and the rules keep the        *)
(* indices the caller counts by.                                           *)
THEOREM Refinement == Spec => ClassifierSpec
<1>1. Init => Ideal!Init
  <2>. SUFFICES ASSUME Init PROVE Ideal!Init
    OBVIOUS
  <2>1. Inv /\ rules = <<>>
    BY InitInv DEF Init
  <2>. QED  BY <2>1, ExactAnswers DEF Ideal!Init
<1>2. Inv /\ Inv' /\ [Next]_vars
        => [Ideal!Next]_<<rules, [p \in Packets |-> ClassifyAPacket(p)]>>
  <2>. SUFFICES ASSUME Inv, Inv', [Next]_vars
                PROVE  [Ideal!Next]_<<rules, [p \in Packets |-> ClassifyAPacket(p)]>>
    OBVIOUS
  <2>1. [p \in Packets |-> ClassifyAPacket(p)]' = Ideal!Exact(rules')
    <3>1. (Inv => [p \in Packets |-> ClassifyAPacket(p)] = Ideal!Exact(rules))'
      BY ExactAnswers, PTL
    <3>. QED  BY <3>1 DEF Ideal!Exact
  <2>2. ASSUME NEW r \in Rules, InsertRule(r)
        PROVE  Ideal!InsertRule(r)
    BY <2>1, <2>2, SameOperators DEF InsertRule, Ideal!InsertRule
  <2>3. ASSUME NEW i \in DOMAIN rules, DeleteRule(i)
        PROVE  Ideal!DeleteRule(i)
    BY <2>1, <2>3, SameOperators DEF DeleteRule, Ideal!DeleteRule
  <2>4. CASE UNCHANGED vars
    BY <2>4 DEF vars, ClassifyAPacket, Visited, Beaten, HitsAt
  <2>. QED  BY <2>2, <2>3, <2>4 DEF Next, Ideal!Next
<1>. QED  BY <1>1, <1>2, Invariance, PTL DEF Spec, ClassifierSpec, Ideal!Spec

-----------------------------------------------------------------------------
(* The two classifiers keep the same rules in the same tuples *)

LEMMA SamePlainOperators ==
  /\ \A s : Plain!Elems(s) = Elems(s)
  /\ \A s, i : Plain!SwapRemove(s, i) = SwapRemove(s, i)
  /\ \A k, S, r : Plain!Without(k, S, r) = Without(k, S, r)
  /\ \A r : Plain!KeyRulePrefix(r) = KeyRulePrefix(r)
BY DEF Plain!Elems, Elems, Plain!SwapRemove, SwapRemove, Plain!Without, Without,
       Plain!Chain, Chain, Plain!HashRule, HashRule, Plain!KeyRulePrefix, KeyRulePrefix

StoredIn == [k \in DOMAIN tuples |-> tuples[k].stored]

(* PriorityTupleSpaceSearch implements TupleSpaceSearch, when one forgets  *)
(* the maxima and the order of the tuples.                                 *)
THEOREM PlainRefinement == Spec => PlainSpec
<1>1. Init => Plain!Init
  BY DEF Init, Plain!Init
<1>2. ASSUME Inv, NEW r \in Rules, InsertRule(r)
      PROVE  Plain!InsertRule(r)
  <2>. DEFINE k == KeyRulePrefix(r)
  <2>1. /\ DOMAIN tuples' = DOMAIN tuples \cup {k}
        /\ tuples'[k].stored = (IF k \in DOMAIN tuples THEN tuples[k].stored ELSE {}) \cup {r}
        /\ \A j \in DOMAIN tuples \ {k} : tuples'[j] = tuples[j]
    BY <1>2 DEF InsertRule, InsertIntoTuple, InsertNewTuple, Insertion, NewPriorityTuple
  <2>2. r \notin Elems(rules) /\ rules' = Append(rules, r)
    BY <1>2 DEF InsertRule
  <2>. HIDE DEF k
  <2>3. StoredIn' = [j \in DOMAIN StoredIn \cup {k} |->
                      IF j = k THEN (IF k \in DOMAIN StoredIn THEN StoredIn[k] ELSE {}) \cup {r}
                               ELSE StoredIn[j]]
    BY <2>1 DEF StoredIn
  <2>. QED  BY <2>2, <2>3, SamePlainOperators DEF Plain!InsertRule, StoredIn, k
<1>3. ASSUME Inv, NEW i \in DOMAIN rules, DeleteRule(i)
      PROVE  Plain!DeleteRule(i)
  <2>. DEFINE r == rules[i]
              k == KeyRulePrefix(r)
              left == Without(k, tuples[k].stored, r)
  <2>0. r \in Elems(rules)
    BY DEF Elems
  <2>1. k \in DOMAIN tuples
    BY <1>3, <2>0 DEF Inv, StoredByKey
  <2>2. /\ DOMAIN tuples' = IF left = {} THEN DOMAIN tuples \ {k} ELSE DOMAIN tuples
        /\ left # {} => tuples'[k].stored = left
        /\ \A j \in DOMAIN tuples \ {k} : tuples'[j] = tuples[j]
    <3>1. DeleteFromTuple(r)
      BY <1>3 DEF DeleteRule
    <3>. QED  BY <2>1, <3>1 DEF DeleteFromTuple, Deletion
  <2>3. rules' = SwapRemove(rules, i)
    BY <1>3 DEF DeleteRule
  <2>4. StoredIn[k] = tuples[k].stored /\ DOMAIN StoredIn = DOMAIN tuples
    BY <2>1 DEF StoredIn
  <2>. HIDE DEF left, k
  <2>5. StoredIn' = [j \in IF left = {} THEN DOMAIN StoredIn \ {k} ELSE DOMAIN StoredIn |->
                      IF j = k THEN left ELSE StoredIn[j]]
    BY <2>1, <2>2 DEF StoredIn
  <2>. QED  BY <2>3, <2>4, <2>5, SamePlainOperators DEF Plain!DeleteRule, StoredIn, left, k
<1>4. Inv /\ [Next]_vars => [Plain!Next]_Plain!vars
  <2>. SUFFICES ASSUME Inv, [Next]_vars PROVE [Plain!Next]_Plain!vars
    OBVIOUS
  <2>1. CASE UNCHANGED vars
    BY <2>1 DEF vars, Plain!vars
  <2>2. CASE Next
    BY <1>2, <1>3, <2>2 DEF Next, Plain!Next
  <2>. QED  BY <2>1, <2>2
<1>. QED  BY <1>1, <1>4, Invariance, PTL DEF Spec, PlainSpec, Plain!Spec

-----------------------------------------------------------------------------
(* The search through all tuples *)

LEMMA SameIdeal ==
  /\ \A s : Plain!Ideal!Elems(s) = Elems(s)
  /\ \A s, i : Plain!Ideal!SwapRemove(s, i) = SwapRemove(s, i)
  /\ \A s : Plain!Ideal!Exact(s) = [p \in Packets |-> Best(Matching(Elems(s), p))]
BY DEF Plain!Ideal!Elems, Elems, Plain!Ideal!SwapRemove, SwapRemove, Plain!Ideal!Exact,
       Plain!Ideal!Matching, Matching, Plain!Ideal!Best, Best

LEMMA AllAnswers ==
  Inv => [p \in Packets |-> Plain!ClassifyAPacket(p)] = Plain!Ideal!Exact(rules)
<1>. SUFFICES ASSUME Inv, NEW p \in Packets
              PROVE  Plain!ClassifyAPacket(p) = Best(Matching(Elems(rules), p))
  BY SameIdeal
<1>. DEFINE A == UNION {Hits(k, tuples[k].stored, p) : k \in DOMAIN tuples}
<1>1. A \subseteq Matching(Elems(rules), p)
  <2>1. \A k \in DOMAIN tuples : tuples[k].stored \subseteq Elems(rules)
    BY DEF Inv, StoredByKey
  <2>. QED  BY <2>1 DEF Hits, Matching, Chain
<1>2. Matching(Elems(rules), p) \subseteq A
  <2>1. \A j \in DOMAIN vector : vector[j] \in DOMAIN tuples
    BY DEF Inv, VectorIsMap, Elems
  <2>2. \A r \in Elems(rules) : <<r, p>> \in Match => \E j \in DOMAIN vector : Priority[r] \in HitsAt(p, j)
    BY RuleIsHit
  <2>. QED  BY <2>1, <2>2 DEF Matching, HitsAt
<1>3. Plain!ClassifyAPacket(p) = Best(A)
  BY DEF Plain!ClassifyAPacket, Plain!Hits, Plain!Matching, Plain!Chain, Plain!HashRule, Plain!HashPacket,
         Plain!Best, Hits, Matching, Chain, HashRule, HashPacket, Best
<1>. HIDE DEF A
<1>4. A = Matching(Elems(rules), p)
  BY <1>1, <1>2
<1>. QED  BY <1>3, <1>4

(* The same tuples, searched one and all as TupleSpaceSearch does, answer  *)
(* every packet as the best rule present demands.                          *)
THEOREM PlainAnswers == Spec => PlainClassifierSpec
<1>1. Init => Plain!Ideal!Init
  <2>. SUFFICES ASSUME Init PROVE Plain!Ideal!Init
    OBVIOUS
  <2>1. Inv /\ rules = <<>>
    BY InitInv DEF Init
  <2>. QED  BY <2>1, AllAnswers DEF Plain!Ideal!Init
<1>2. Inv /\ Inv' /\ [Next]_vars
        => [Plain!Ideal!Next]_<<rules, [p \in Packets |-> Plain!ClassifyAPacket(p)]>>
  <2>. SUFFICES ASSUME Inv, Inv', [Next]_vars
                PROVE  [Plain!Ideal!Next]_<<rules, [p \in Packets |-> Plain!ClassifyAPacket(p)]>>
    OBVIOUS
  <2>1. [p \in Packets |-> Plain!ClassifyAPacket(p)]' = Plain!Ideal!Exact(rules')
    <3>1. (Inv => [p \in Packets |-> Plain!ClassifyAPacket(p)] = Plain!Ideal!Exact(rules))'
      BY AllAnswers, PTL
    <3>. QED  BY <3>1 DEF Plain!Ideal!Exact
  <2>2. ASSUME NEW r \in Rules, InsertRule(r)
        PROVE  Plain!Ideal!InsertRule(r)
    BY <2>1, <2>2, SameIdeal DEF InsertRule, Plain!Ideal!InsertRule
  <2>3. ASSUME NEW i \in DOMAIN rules, DeleteRule(i)
        PROVE  Plain!Ideal!DeleteRule(i)
    BY <2>1, <2>3, SameIdeal DEF DeleteRule, Plain!Ideal!DeleteRule
  <2>4. CASE UNCHANGED vars
    BY <2>4 DEF vars, Plain!ClassifyAPacket
  <2>. QED  BY <2>2, <2>3, <2>4 DEF Next, Plain!Ideal!Next
<1>. QED  BY <1>1, <1>2, Invariance, PTL DEF Spec, PlainClassifierSpec, Plain!ClassifierSpec, Plain!Ideal!Spec

-----------------------------------------------------------------------------
(* TupleSpaceSearch, with its own tuples *)

VARIABLE all_tuples

Tuples == INSTANCE TupleSpaceSearch

LEMMA SameTuplesOperators ==
  /\ \A s : Tuples!Elems(s) = Elems(s)
  /\ \A s, i : Tuples!SwapRemove(s, i) = SwapRemove(s, i)
  /\ \A k, S, r : Tuples!Without(k, S, r) = Without(k, S, r)
  /\ \A r : Tuples!KeyRulePrefix(r) = KeyRulePrefix(r)
  /\ \A k, S, p : Tuples!Hits(k, S, p) = Hits(k, S, p)
  /\ \A S : Tuples!Best(S) = Best(S)
BY DEF Tuples!Elems, Elems, Tuples!SwapRemove, SwapRemove, Tuples!Without, Without,
       Tuples!KeyRulePrefix, KeyRulePrefix, Tuples!Hits, Hits, Tuples!Matching, Matching,
       Tuples!Chain, Chain, Tuples!HashRule, HashRule, Tuples!HashPacket, HashPacket,
       Tuples!Best, Best

(* The inductive invariant: the tuples in use are those of the rules       *)
(* present, and partition them.                                            *)
TuplesInv ==
  /\ rules \in Seq(Rules) /\ NoDuplicates(rules)
  /\ DOMAIN all_tuples = {KeyRulePrefix(r) : r \in Elems(rules)}
  /\ \A k \in DOMAIN all_tuples : all_tuples[k] = {r \in Elems(rules) : KeyRulePrefix(r) = k}

LEMMA TuplesInitInv == Tuples!Init => TuplesInv
BY DEF Tuples!Init, TuplesInv, NoDuplicates, Elems

LEMMA TuplesInsertInv ==
  ASSUME TuplesInv, NEW r \in Rules, Tuples!InsertRule(r)
  PROVE  TuplesInv'
<1>. DEFINE k == KeyRulePrefix(r)
<1>0. /\ r \notin Elems(rules) /\ rules' = Append(rules, r)
      /\ all_tuples' = [j \in DOMAIN all_tuples \cup {k} |->
           IF j = k THEN (IF k \in DOMAIN all_tuples THEN all_tuples[k] ELSE {}) \cup {r}
                    ELSE all_tuples[j]]
  BY SameTuplesOperators DEF Tuples!InsertRule
<1>1. /\ rules' \in Seq(Rules) /\ NoDuplicates(rules')
      /\ Elems(rules') = Elems(rules) \cup {r}
  BY <1>0, AppendElems DEF TuplesInv
<1>2. DOMAIN all_tuples' = {KeyRulePrefix(s) : s \in Elems(rules')}
  BY <1>0, <1>1 DEF TuplesInv
<1>3. ASSUME NEW j \in DOMAIN all_tuples'
      PROVE  all_tuples'[j] = {s \in Elems(rules') : KeyRulePrefix(s) = j}
  <2>1. k \notin DOMAIN all_tuples => \A s \in Elems(rules) : KeyRulePrefix(s) # k
    BY DEF TuplesInv
  <2>. QED  BY <1>0, <1>1, <2>1 DEF TuplesInv
<1>. QED  BY <1>1, <1>2, <1>3 DEF TuplesInv

LEMMA TuplesDeleteInv ==
  ASSUME TuplesInv, NEW i \in DOMAIN rules, Tuples!DeleteRule(i)
  PROVE  TuplesInv'
<1>. DEFINE r == rules[i]
            k == KeyRulePrefix(r)
            left == Without(k, all_tuples[k], r)
<1>1. rules \in Seq(Rules) /\ NoDuplicates(rules) /\ r \in Elems(rules) /\ r \in Rules
  BY DEF TuplesInv, Elems
<1>2. rules' = SwapRemove(rules, i)
  BY SameTuplesOperators DEF Tuples!DeleteRule
<1>3. /\ rules' \in Seq(Rules) /\ NoDuplicates(rules')
      /\ Elems(rules') = Elems(rules) \ {r}
  BY <1>1, <1>2, SwapRemoveElems
<1>4. k \in DOMAIN all_tuples /\ all_tuples[k] = {s \in Elems(rules) : KeyRulePrefix(s) = k}
  BY <1>1 DEF TuplesInv
<1>5. left = all_tuples[k] \ {r}
  <2>1. all_tuples[k] \in SUBSET Rules /\ r \in all_tuples[k]
    BY <1>1, <1>4 DEF Elems
  <2>. QED  BY <2>1, WithoutRemoves
<1>6. all_tuples' = [j \in IF left = {} THEN DOMAIN all_tuples \ {k} ELSE DOMAIN all_tuples |->
                      IF j = k THEN left ELSE all_tuples[j]]
  BY SameTuplesOperators DEF Tuples!DeleteRule
<1>. HIDE DEF left, k, r
<1>7. \A j \in DOMAIN all_tuples' : all_tuples'[j] = {s \in Elems(rules') : KeyRulePrefix(s) = j}
  BY <1>3, <1>4, <1>5, <1>6 DEF TuplesInv, k
<1>8. DOMAIN all_tuples' = {KeyRulePrefix(s) : s \in Elems(rules')}
  <2>1. left = {} <=> \A s \in Elems(rules') : KeyRulePrefix(s) # k
    BY <1>3, <1>4, <1>5
  <2>2. \A j \in DOMAIN all_tuples \ {k} : \E s \in Elems(rules') : KeyRulePrefix(s) = j
    BY <1>3 DEF TuplesInv, k
  <2>3. \A s \in Elems(rules') : KeyRulePrefix(s) \in DOMAIN all_tuples
    BY <1>3 DEF TuplesInv
  <2>. QED  BY <1>4, <1>6, <2>1, <2>2, <2>3
<1>. QED  BY <1>3, <1>7, <1>8 DEF TuplesInv

(* The tuples in use partition the rules present, whatever is inserted and *)
(* deleted.                                                                *)
THEOREM TuplesInvariance == Tuples!Spec => []TuplesInv
<1>1. TuplesInv /\ [Tuples!Next]_Tuples!vars => TuplesInv'
  <2>. SUFFICES ASSUME TuplesInv, [Tuples!Next]_Tuples!vars PROVE TuplesInv'
    OBVIOUS
  <2>1. CASE UNCHANGED Tuples!vars
    BY <2>1 DEF Tuples!vars, TuplesInv
  <2>. QED  BY <2>1, TuplesInsertInv, TuplesDeleteInv DEF Tuples!Next
<1>. QED  BY <1>1, TuplesInitInv, PTL DEF Tuples!Spec

LEMMA TuplesExactAnswer ==
  ASSUME TuplesInv, NEW p \in Packets
  PROVE  Tuples!ClassifyAPacket(p) = Best(Matching(Elems(rules), p))
<1>. DEFINE U == UNION {Hits(k, all_tuples[k], p) : k \in DOMAIN all_tuples}
<1>1. \A n \in U : n \in Matching(Elems(rules), p)
  <2>. SUFFICES ASSUME NEW k \in DOMAIN all_tuples, NEW n \in Hits(k, all_tuples[k], p)
                PROVE  n \in Matching(Elems(rules), p)
    OBVIOUS
  <2>1. all_tuples[k] \subseteq Elems(rules)
    BY DEF TuplesInv
  <2>. QED  BY <2>1 DEF Hits, Matching, Chain
<1>2. ASSUME NEW r \in Elems(rules), <<r, p>> \in Match
      PROVE  Priority[r] \in U
  <2>. DEFINE k == KeyRulePrefix(r)
  <2>1. k \in DOMAIN all_tuples /\ r \in all_tuples[k] /\ r \in Rules
    BY DEF TuplesInv, Elems
  <2>2. DOMAIN k = Dims /\ \A d \in Dims : k[d] = PrefixLength[r][d]
    BY DEF KeyRulePrefix
  <2>3. \A d \in Dims : d \in Fields /\ PrefixLength[r][d] \in 0..32
    BY <2>1, DimsAssumption, RuleSetAssumption
  <2>. HIDE DEF k
  <2>4. HashRule(k, r) = HashPacket(k, p)
    BY <1>2, <2>1, <2>2, <2>3, SameHash
  <2>5. Priority[r] \in Hits(k, all_tuples[k], p)
    BY <1>2, <2>1, <2>4 DEF Hits, Matching, Chain
  <2>. QED  BY <2>1, <2>5
<1>3. U = Matching(Elems(rules), p)
  BY <1>1, <1>2 DEF Matching
<1>. QED  BY <1>3, SameTuplesOperators DEF Tuples!ClassifyAPacket

LEMMA SameTuplesIdeal ==
  /\ \A s : Tuples!Ideal!Elems(s) = Elems(s)
  /\ \A s, i : Tuples!Ideal!SwapRemove(s, i) = SwapRemove(s, i)
  /\ \A s : Tuples!Ideal!Exact(s) = [p \in Packets |-> Best(Matching(Elems(s), p))]
BY DEF Tuples!Ideal!Elems, Elems, Tuples!Ideal!SwapRemove, SwapRemove, Tuples!Ideal!Exact,
       Tuples!Ideal!Matching, Matching, Tuples!Ideal!Best, Best

LEMMA TuplesExactAnswers ==
  TuplesInv => [p \in Packets |-> Tuples!ClassifyAPacket(p)] = Tuples!Ideal!Exact(rules)
BY SameTuplesIdeal, TuplesExactAnswer

(* TupleSpaceSearch, which searches every tuple, implements Classifier.    *)
THEOREM TuplesRefinement == Tuples!Spec => Tuples!ClassifierSpec
<1>1. Tuples!Init => Tuples!Ideal!Init
  <2>. SUFFICES ASSUME Tuples!Init PROVE Tuples!Ideal!Init
    OBVIOUS
  <2>1. TuplesInv /\ rules = <<>>
    BY TuplesInitInv DEF Tuples!Init
  <2>. QED  BY <2>1, TuplesExactAnswers DEF Tuples!Ideal!Init
<1>2. TuplesInv /\ TuplesInv' /\ [Tuples!Next]_Tuples!vars
        => [Tuples!Ideal!Next]_<<rules, [p \in Packets |-> Tuples!ClassifyAPacket(p)]>>
  <2>. SUFFICES ASSUME TuplesInv, TuplesInv', [Tuples!Next]_Tuples!vars
                PROVE  [Tuples!Ideal!Next]_<<rules, [p \in Packets |-> Tuples!ClassifyAPacket(p)]>>
    OBVIOUS
  <2>1. [p \in Packets |-> Tuples!ClassifyAPacket(p)]' = Tuples!Ideal!Exact(rules')
    <3>1. (TuplesInv => [p \in Packets |-> Tuples!ClassifyAPacket(p)] = Tuples!Ideal!Exact(rules))'
      BY TuplesExactAnswers, PTL
    <3>. QED  BY <3>1 DEF Tuples!Ideal!Exact
  <2>2. ASSUME NEW r \in Rules, Tuples!InsertRule(r)
        PROVE  Tuples!Ideal!InsertRule(r)
    BY <2>1, <2>2, SameTuplesIdeal, SameTuplesOperators DEF Tuples!InsertRule, Tuples!Ideal!InsertRule
  <2>3. ASSUME NEW i \in DOMAIN rules, Tuples!DeleteRule(i)
        PROVE  Tuples!Ideal!DeleteRule(i)
    BY <2>1, <2>3, SameTuplesIdeal, SameTuplesOperators DEF Tuples!DeleteRule, Tuples!Ideal!DeleteRule
  <2>4. CASE UNCHANGED Tuples!vars
    BY <2>4 DEF Tuples!vars, Tuples!ClassifyAPacket
  <2>. QED  BY <2>2, <2>3, <2>4 DEF Tuples!Next, Tuples!Ideal!Next
<1>. QED  BY <1>1, <1>2, TuplesInvariance, PTL
          DEF Tuples!Spec, Tuples!ClassifierSpec, Tuples!Ideal!Spec
=============================================================================
