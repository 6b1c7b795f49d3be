-------------------------- MODULE TupleTable_proofs --------------------------
(***************************************************************************)
(* Facts about the operators of RuleSet and TupleTable that the proofs of  *)
(* the classifiers share.                                                  *)
(***************************************************************************)
EXTENDS TupleTable, FiniteSetTheorems, TLAPS, WellFoundedInduction

-----------------------------------------------------------------------------
(* Sets of numbers *)

LEMMA LeastNat ==
  ASSUME NEW T \in SUBSET Nat, T # {}
  PROVE  \E x \in T : \A y \in T : x <= y
<1>1. \E x \in T : \A y \in T : ~ (<<y, x>> \in OpToRel(<, Nat))
  BY NatLessThanWellFounded, WFMin, Zenon
<1>2. PICK x \in T : \A y \in T : ~ (<<y, x>> \in OpToRel(<, Nat))
  BY <1>1
<1>3. \A y \in T : ~ (y < x)
  BY <1>2 DEF OpToRel
<1>. QED  BY <1>3

LEMMA NaturalSet ==
  ASSUME NEW S \in SUBSET Nat, 0 \in S, \A n \in S : n + 1 \in S
  PROVE  S = Nat
<1>. SUFFICES ASSUME Nat \ S # {} PROVE FALSE
  OBVIOUS
<1>1. PICK m \in Nat \ S : \A n \in Nat \ S : m <= n
  BY LeastNat
<1>2. m # 0 /\ m - 1 \in Nat
  OBVIOUS
<1>3. m - 1 \in S
  BY <1>1, <1>2
<1>. QED  BY <1>2, <1>3

LEMMA BestUnique ==
  ASSUME NEW S \in SUBSET Int, NEW m \in S, \A n \in S : n <= m
  PROVE  Best(S) = m
<1>1. \A k \in S : (\A n \in S : n <= k) => k = m
  OBVIOUS
<1>. QED  BY <1>1 DEF Best

LEMMA BestIsMax ==
  ASSUME NEW S \in SUBSET (0..MaxPriority), S # {}
  PROVE  Best(S) \in S /\ \A n \in S : n <= Best(S)
<1>. DEFINE T == {MaxPriority - n : n \in S}
<1>0. MaxPriority \in Nat
  BY RuleSetAssumption
<1>1. T \in SUBSET Nat /\ T # {}
  <2>1. \A n \in S : MaxPriority - n \in Nat
    BY <1>0
  <2>. QED  BY <2>1
<1>. HIDE DEF T
<1>2. PICK x \in T : \A y \in T : x <= y
  BY <1>1, LeastNat
<1>3. PICK m \in S : x = MaxPriority - m
  BY DEF T
<1>4. ASSUME NEW n \in S PROVE n <= m
  <2>1. MaxPriority - n \in T
    BY DEF T
  <2>2. x <= MaxPriority - n
    BY <1>2, <2>1
  <2>3. n \in Int /\ m \in Int
    BY <1>0
  <2>. QED  BY <1>0, <1>3, <2>2, <2>3
<1>5. S \in SUBSET Int
  BY <1>0
<1>. QED  BY <1>4, <1>5, BestUnique

-----------------------------------------------------------------------------
(* Vectors *)

LEMMA SeqDomain ==
  ASSUME NEW S, NEW q \in Seq(S)
  PROVE  DOMAIN q = 1..Len(q) /\ Len(q) \in Nat /\ \A k \in 1..Len(q) : q[k] \in S
OBVIOUS

LEMMA SeqOfLength ==
  ASSUME NEW S, NEW n \in Nat, NEW q \in [1..n -> S]
  PROVE  q \in Seq(S) /\ Len(q) = n /\ DOMAIN q = 1..n
OBVIOUS

LEMMA AppendElems ==
  ASSUME NEW S, NEW s \in Seq(S), NEW x \in S
  PROVE  /\ Append(s, x) \in Seq(S)
         /\ Elems(Append(s, x)) = Elems(s) \cup {x}
         /\ NoDuplicates(s) /\ x \notin Elems(s) => NoDuplicates(Append(s, x))
<1>1. Append(s, x) \in Seq(S) /\ Len(Append(s, x)) = Len(s) + 1
  OBVIOUS
<1>2. Append(s, x)[Len(s) + 1] = x /\ \A i \in 1..Len(s) : Append(s, x)[i] = s[i]
  OBVIOUS
<1>3. DOMAIN s = 1..Len(s) /\ DOMAIN Append(s, x) = 1..(Len(s) + 1)
  OBVIOUS
<1>. HIDE DEF Elems
<1>4. Elems(Append(s, x)) = Elems(s) \cup {x}
  <2>1. \A y : y \in Elems(Append(s, x)) => y \in Elems(s) \cup {x}
    BY <1>2, <1>3 DEF Elems
  <2>2. \A y \in Elems(s) : y \in Elems(Append(s, x))
    BY <1>2, <1>3 DEF Elems
  <2>3. x \in Elems(Append(s, x))
    BY <1>2, <1>3 DEF Elems
  <2>. QED  BY <2>1, <2>2, <2>3
<1>5. NoDuplicates(s) /\ x \notin Elems(s) => NoDuplicates(Append(s, x))
  BY <1>2, <1>3 DEF Elems, NoDuplicates
<1>. QED  BY <1>1, <1>4, <1>5

LEMMA SwapRemoveElems ==
  ASSUME NEW S, NEW s \in Seq(S), NoDuplicates(s), NEW i \in DOMAIN s
  PROVE  /\ SwapRemove(s, i) \in Seq(S)
         /\ Elems(SwapRemove(s, i)) = Elems(s) \ {s[i]}
         /\ NoDuplicates(SwapRemove(s, i))
<1>. DEFINE n == Len(s)
            q == SwapRemove(s, i)
<1>1. n \in Nat /\ DOMAIN s = 1..n /\ i \in 1..n
  OBVIOUS
<1>2. q \in Seq(S) /\ DOMAIN q = 1..(n - 1)
  BY <1>1 DEF SwapRemove
<1>3. \A j \in 1..(n - 1) : q[j] = IF j = i THEN s[n] ELSE s[j]
  BY <1>1 DEF SwapRemove
<1>. HIDE DEF q, n
<1>4. NoDuplicates(q)
  BY <1>1, <1>2, <1>3 DEF NoDuplicates
<1>5. Elems(q) = Elems(s) \ {s[i]}
  <2>1. \A y \in Elems(q) : y \in Elems(s) /\ y # s[i]
    BY <1>1, <1>2, <1>3 DEF NoDuplicates, Elems
  <2>2. ASSUME NEW j \in DOMAIN s, s[j] # s[i]
        PROVE  s[j] \in Elems(q)
    <3>1. CASE j = n
      <4>1. i \in 1..(n - 1) /\ q[i] = s[n]
        BY <1>1, <1>3, <2>2, <3>1
      <4>. QED  BY <4>1, <3>1, <1>2 DEF Elems
    <3>2. CASE j # n
      <4>1. j \in 1..(n - 1) /\ q[j] = s[j]
        BY <1>1, <1>3, <2>2, <3>2
      <4>. QED  BY <4>1, <1>2 DEF Elems
    <3>. QED  BY <3>1, <3>2
  <2>3. \A y \in Elems(s) : y # s[i] => y \in Elems(q)
    BY <2>2 DEF Elems
  <2>. QED  BY <2>1, <2>3
<1>. QED  BY <1>2, <1>4, <1>5 DEF q

-----------------------------------------------------------------------------
(* Finite sets, and sets in an order *)

LEMMA ImageFinite ==
  ASSUME NEW S, IsFiniteSet(S), NEW f, DOMAIN f = S
  PROVE  IsFiniteSet({f[x] : x \in S})
<1>. DEFINE T == {f[x] : x \in S}
<1>1. PICK g : g = [x \in S |-> f[x]]
  OBVIOUS
<1>2. g \in [S -> T] /\ \A y \in T : \E x \in S : g[x] = y
  BY <1>1
<1>. HIDE DEF T
<1>3. g \in Surjection(S, T)
  BY <1>2 DEF Surjection
<1>4. IsFiniteSet(T)
  BY <1>3, FS_Surjection
<1>. QED  BY <1>4 DEF T

(* Below R, a strict total order of a finite set, every rank is taken by   *)
(* one element.                                                            *)
Below(S, R, x) == {y \in S : <<y, x>> \in R}

LEMMA RankMonotone ==
  ASSUME NEW S, IsFiniteSet(S), NEW R,
         \A x \in S : <<x, x>> \notin R,
         \A x, y, z \in S : <<x, y>> \in R /\ <<y, z>> \in R => <<x, z>> \in R,
         \A x, y \in S : x # y => <<x, y>> \in R \/ <<y, x>> \in R
  PROVE  /\ \A x \in S : Cardinality(Below(S, R, x)) \in Nat /\ Cardinality(Below(S, R, x)) < Cardinality(S)
         /\ \A x, y \in S : <<x, y>> \in R => Cardinality(Below(S, R, x)) < Cardinality(Below(S, R, y))
<1>. DEFINE n == Cardinality(S)
            rank == [x \in S |-> Cardinality(Below(S, R, x))]
<1>1. n \in Nat
  BY FS_CardinalityType
<1>2. ASSUME NEW x \in S
      PROVE  IsFiniteSet(Below(S, R, x)) /\ rank[x] \in Nat /\ rank[x] < n
  <2>1. Below(S, R, x) \in SUBSET S /\ x \notin Below(S, R, x)
    BY DEF Below
  <2>2. Below(S, R, x) # S
    BY <2>1
  <2>3. IsFiniteSet(Below(S, R, x)) /\ Cardinality(Below(S, R, x)) <= n
        /\ Cardinality(Below(S, R, x)) # n
    BY <2>1, <2>2, FS_Subset
  <2>4. Cardinality(Below(S, R, x)) \in Nat
    BY <2>3, FS_CardinalityType
  <2>. QED  BY <1>1, <2>3, <2>4
<1>3. ASSUME NEW x \in S, NEW y \in S, <<x, y>> \in R
      PROVE  rank[x] < rank[y]
  <2>1. Below(S, R, x) \in SUBSET Below(S, R, y)
    BY <1>3 DEF Below
  <2>2. x \in Below(S, R, y) /\ x \notin Below(S, R, x)
    BY <1>3 DEF Below
  <2>3. IsFiniteSet(Below(S, R, y))
    BY <1>2
  <2>4. Cardinality(Below(S, R, x)) <= Cardinality(Below(S, R, y))
        /\ Cardinality(Below(S, R, y)) # Cardinality(Below(S, R, x))
    BY <2>1, <2>2, <2>3, FS_Subset
  <2>. QED  BY <1>2, <2>4
<1>. QED  BY <1>2, <1>3

LEMMA RankExists ==
  ASSUME NEW S, IsFiniteSet(S), NEW R,
         \A x \in S : <<x, x>> \notin R,
         \A x, y, z \in S : <<x, y>> \in R /\ <<y, z>> \in R => <<x, z>> \in R,
         \A x, y \in S : x # y => <<x, y>> \in R \/ <<y, x>> \in R
  PROVE  /\ Cardinality(S) \in Nat
         /\ \A i \in 1..Cardinality(S) : \E x \in S : Cardinality(Below(S, R, x)) = i - 1
         /\ \A x \in S : /\ Cardinality(Below(S, R, x)) \in Nat
                       /\ Cardinality(Below(S, R, x)) + 1 \in 1..Cardinality(S)
         /\ \A x, y \in S : Cardinality(Below(S, R, x)) = Cardinality(Below(S, R, y)) => x = y
<1>. DEFINE n == Cardinality(S)
            rank == [x \in S |-> Cardinality(Below(S, R, x))]
<1>1. n \in Nat
  BY FS_CardinalityType
<1>2. \A x \in S : rank[x] \in Nat /\ rank[x] < n
  BY RankMonotone
<1>3. \A x, y \in S : <<x, y>> \in R => rank[x] < rank[y]
  BY RankMonotone
<1>4. ASSUME NEW x \in S, NEW y \in S, rank[x] = rank[y]
      PROVE  x = y
  <2>. SUFFICES ASSUME x # y PROVE FALSE
    OBVIOUS
  <2>1. rank[x] < rank[y] \/ rank[y] < rank[x]
    BY <1>3
  <2>. QED  BY <1>2, <1>4, <2>1
<1>5. \A x \in S : rank[x] \in 0..(n - 1)
  BY <1>1, <1>2
<1>6. PICK g : g = rank
  OBVIOUS
<1>7. DOMAIN g = S /\ (\A x \in S : g[x] = Cardinality(Below(S, R, x)))
  BY <1>6
<1>8. g \in [S -> 0..(n - 1)]
  BY <1>5, <1>6
<1>9. g \in Injection(S, 0..(n - 1))
  <2>1. \A x, y \in S : g[x] = g[y] => x = y
    BY <1>4, <1>6
  <2>. QED  BY <1>8, <2>1 DEF Injection, IsInjective
<1>10. IsFiniteSet(0..(n - 1)) /\ Cardinality(0..(n - 1)) = n
  <2>. HIDE DEF n
  <2>1. PICK m \in Int : m = n - 1
    BY <1>1
  <2>2. IsFiniteSet(0..m) /\ Cardinality(0..m) = IF 0 > m THEN 0 ELSE m - 0 + 1
    BY FS_Interval
  <2>. QED  BY <1>1, <2>1, <2>2
<1>. HIDE DEF n, rank
<1>11. g \in Surjection(S, 0..(n - 1))
  BY <1>9, <1>10, FS_Injection DEF n
<1>12. ASSUME NEW i \in 1..n PROVE \E x \in S : g[x] = i - 1
  <2>1. i - 1 \in 0..(n - 1)
    BY <1>1
  <2>. QED  BY <1>11, <2>1 DEF Surjection
<1>13. \A x \in S : g[x] \in Nat /\ g[x] + 1 \in 1..n
  BY <1>1, <1>8
<1>. QED  BY <1>1, <1>4, <1>6, <1>7, <1>12, <1>13 DEF n

(* A set in its order, as a sequence *)
RankedBy(S, R) ==
  [i \in 1..Cardinality(S) |-> CHOOSE x \in S : Cardinality(Below(S, R, x)) = i - 1]

LEMMA RankedElems ==
  ASSUME NEW S, IsFiniteSet(S), NEW R,
         \A x \in S : <<x, x>> \notin R,
         \A x, y, z \in S : <<x, y>> \in R /\ <<y, z>> \in R => <<x, z>> \in R,
         \A x, y \in S : x # y => <<x, y>> \in R \/ <<y, x>> \in R
  PROVE  /\ Cardinality(S) \in Nat /\ RankedBy(S, R) \in [1..Cardinality(S) -> S]
         /\ Elems(RankedBy(S, R)) = S /\ NoDuplicates(RankedBy(S, R))
<1>0. PICK q : q = RankedBy(S, R)
  OBVIOUS
<1>. DEFINE n == Cardinality(S)
<1>1. /\ n \in Nat
      /\ \A i \in 1..n : \E x \in S : Cardinality(Below(S, R, x)) = i - 1
      /\ \A x \in S : /\ Cardinality(Below(S, R, x)) \in Nat
                    /\ Cardinality(Below(S, R, x)) + 1 \in 1..n
      /\ \A x, y \in S : Cardinality(Below(S, R, x)) = Cardinality(Below(S, R, y)) => x = y
  BY RankExists
<1>2. ASSUME NEW i \in 1..n
      PROVE  q[i] \in S /\ Cardinality(Below(S, R, q[i])) = i - 1
  <2>1. q[i] = CHOOSE x \in S : Cardinality(Below(S, R, x)) = i - 1
    BY <1>0 DEF RankedBy
  <2>. QED  BY <1>1, <2>1
<1>3. DOMAIN q = 1..n /\ q = [i \in 1..n |-> q[i]]
  BY <1>0 DEF RankedBy
<1>. HIDE DEF n
<1>4. q \in [1..n -> S]
  BY <1>2, <1>3
<1>5. NoDuplicates(q)
  <2>1. ASSUME NEW i \in 1..n, NEW j \in 1..n, q[i] = q[j] PROVE i = j
    <3>1. i - 1 = j - 1
      BY <1>2, <2>1
    <3>. QED  BY <1>1, <3>1
  <2>. QED  BY <1>3, <2>1 DEF NoDuplicates
<1>6. ASSUME NEW x \in S PROVE x \in Elems(q)
  <2>1. PICK c : c = Cardinality(Below(S, R, x))
    OBVIOUS
  <2>2. c + 1 \in 1..n
    BY <1>1, <2>1
  <2>3. q[c + 1] \in S /\ Cardinality(Below(S, R, q[c + 1])) = (c + 1) - 1
    BY <1>2, <2>2
  <2>4. c \in Int
    BY <1>1, <2>1
  <2>5. Cardinality(Below(S, R, q[c + 1])) = Cardinality(Below(S, R, x))
    BY <2>1, <2>3, <2>4
  <2>6. q[c + 1] = x
    BY <1>1, <2>3, <2>5, Zenon
  <2>. QED  BY <1>3, <2>2, <2>6 DEF Elems
<1>7. Elems(q) = S
  <2>1. ASSUME NEW y \in Elems(q) PROVE y \in S
    <3>1. PICK i \in DOMAIN q : y = q[i]
      BY DEF Elems
    <3>2. i \in 1..n
      BY <1>3
    <3>. QED  BY <1>2, <3>1, <3>2
  <2>. HIDE DEF Elems
  <2>. QED  BY <1>6, <2>1
<1>. QED  BY <1>0, <1>1, <1>4, <1>5, <1>7 DEF n

LEMMA RankedOrder ==
  ASSUME NEW S, IsFiniteSet(S), NEW R,
         \A x \in S : <<x, x>> \notin R,
         \A x, y, z \in S : <<x, y>> \in R /\ <<y, z>> \in R => <<x, z>> \in R,
         \A x, y \in S : x # y => <<x, y>> \in R \/ <<y, x>> \in R
  PROVE  \A i, j \in 1..Cardinality(S) : i < j => <<RankedBy(S, R)[i], RankedBy(S, R)[j]>> \in R
<1>. DEFINE n == Cardinality(S)
<1>1. PICK q : q = RankedBy(S, R)
  OBVIOUS
<1>2. /\ n \in Nat
      /\ \A i \in 1..n : \E x \in S : Cardinality(Below(S, R, x)) = i - 1
      /\ \A x, y \in S : <<x, y>> \in R => Cardinality(Below(S, R, x)) < Cardinality(Below(S, R, y))
  BY RankExists, RankMonotone
<1>3. ASSUME NEW i \in 1..n
      PROVE  q[i] \in S /\ Cardinality(Below(S, R, q[i])) = i - 1
  <2>1. q[i] = CHOOSE x \in S : Cardinality(Below(S, R, x)) = i - 1
    BY <1>1 DEF RankedBy
  <2>. QED  BY <1>2, <2>1
<1>4. ASSUME NEW i \in 1..n, NEW j \in 1..n, i < j
      PROVE  <<q[i], q[j]>> \in R
  <2>1. i \in Int /\ j \in Int /\ i - 1 # j - 1 /\ ~(j - 1 < i - 1)
    BY <1>2, <1>4
  <2>2. q[i] # q[j]
    BY <1>3, <2>1
  <2>3. <<q[j], q[i]>> \notin R
    BY <1>2, <1>3, <2>1
  <2>. QED  BY <1>3, <2>2, <2>3
<1>. QED  BY <1>1, <1>4

(* The rules of a set by falling priority *)
Falling(S) ==
  [i \in 1..Cardinality(S) |->
     CHOOSE x \in S : Cardinality({y \in S : Priority[y] > Priority[x]}) = i - 1]

LEMMA FallingOK ==
  ASSUME NEW S \in SUBSET Rules, IsFiniteSet(S)
  PROVE  /\ Falling(S) \in Seq(Rules)
         /\ Elems(Falling(S)) = S /\ NoDuplicates(Falling(S))
         /\ Len(Falling(S)) = Cardinality(S)
         /\ \A i, j \in 1..Cardinality(S) : i < j => Priority[Falling(S)[i]] > Priority[Falling(S)[j]]
<1>0. \A x \in S : Priority[x] \in Int
  BY RuleSetAssumption
<1>1. PICK R : R = {e \in S \X S : Priority[e[1]] > Priority[e[2]]}
  OBVIOUS
<1>2. \A x, y \in S : <<x, y>> \in R <=> Priority[x] > Priority[y]
  BY <1>1
<1>3. /\ \A x \in S : <<x, x>> \notin R
      /\ \A x, y, z \in S : <<x, y>> \in R /\ <<y, z>> \in R => <<x, z>> \in R
      /\ \A x, y \in S : x # y => <<x, y>> \in R \/ <<y, x>> \in R
  <2>1. \A x, y \in S : x # y => Priority[x] # Priority[y]
    BY RuleSetAssumption
  <2>. QED  BY <1>0, <1>2, <2>1
<1>4. \A x \in S : {y \in S : Priority[y] > Priority[x]} = Below(S, R, x)
  BY <1>2 DEF Below
<1>5. /\ Cardinality(S) \in Nat /\ RankedBy(S, R) \in [1..Cardinality(S) -> S]
      /\ Elems(RankedBy(S, R)) = S /\ NoDuplicates(RankedBy(S, R))
  BY <1>0, <1>3, RankedElems
<1>6. Falling(S) = RankedBy(S, R)
  <2>1. ASSUME NEW i \in 1..Cardinality(S)
        PROVE  (CHOOSE x \in S : Cardinality({y \in S : Priority[y] > Priority[x]}) = i - 1)
               = CHOOSE x \in S : Cardinality(Below(S, R, x)) = i - 1
    <3>1. \A x : (x \in S /\ Cardinality({y \in S : Priority[y] > Priority[x]}) = i - 1)
                   <=> (x \in S /\ Cardinality(Below(S, R, x)) = i - 1)
      BY <1>4
    <3>. QED  BY <3>1, Zenon
  <2>2. Falling(S) = [i \in 1..Cardinality(S) |->
                  CHOOSE x \in S : Cardinality({y \in S : Priority[y] > Priority[x]}) = i - 1]
    BY DEF Falling
  <2>. QED  BY <2>1, <2>2, Zenon DEF RankedBy
<1>7. RankedBy(S, R) \in [1..Cardinality(S) -> Rules]
  BY <1>5
<1>8. RankedBy(S, R) \in Seq(Rules) /\ Len(RankedBy(S, R)) = Cardinality(S)
  BY <1>5, <1>7, SeqOfLength
<1>9. \A i, j \in 1..Cardinality(S) : i < j => <<RankedBy(S, R)[i], RankedBy(S, R)[j]>> \in R
  BY <1>3, RankedOrder
<1>10. \A i \in 1..Cardinality(S) : RankedBy(S, R)[i] \in S
  BY <1>5
<1>11. \A i, j \in 1..Cardinality(S) :
         i < j => Priority[RankedBy(S, R)[i]] > Priority[RankedBy(S, R)[j]]
  BY <1>2, <1>9, <1>10
<1>. QED  BY <1>5, <1>6, <1>8, <1>11

(* No two rules have the same of finitely many priorities. *)
LEMMA RulesFinite == IsFiniteSet(Rules)
<1>1. Priority \in Injection(Rules, 0..MaxPriority)
  BY RuleSetAssumption DEF Injection, IsInjective
<1>2. IsFiniteSet(0..MaxPriority)
  BY RuleSetAssumption, FS_Interval
<1>. QED  BY <1>1, <1>2, FS_Injection

-----------------------------------------------------------------------------
(* The chains of a table *)

(* The walk of the chain finds the rule that is to be deleted, and no other *)
LEMMA WithoutRemoves ==
  ASSUME NEW k, NEW S \in SUBSET Rules, NEW r \in S
  PROVE  Without(k, S, r) = S \ {r}
<1>1. \A s \in S : Priority[s] = Priority[r] => s = r
  BY RuleSetAssumption
<1>. QED  BY <1>1 DEF Without, Chain

(* A rule a packet matches is on the chain the packet hashes to, in every  *)
(* tuple that keeps no more bits of a field than the rule's prefix has.    *)
LEMMA SameHash ==
  ASSUME NEW r \in Rules, NEW p \in Packets, <<r, p>> \in Match,
         NEW k, DOMAIN k \subseteq Fields,
         \A d \in DOMAIN k : k[d] \in 0..PrefixLength[r][d]
  PROVE  HashRule(k, r) = HashPacket(k, p)
<1>1. \A d \in DOMAIN k : Masked(Low[r][d], k[d]) = Masked(Value[p][d], k[d])
  BY RuleSetAssumption
<1>2. [d \in DOMAIN k |-> Masked(Low[r][d], k[d])] = [d \in DOMAIN k |-> Masked(Value[p][d], k[d])]
  BY <1>1
<1>. QED  BY <1>2 DEF HashRule, HashPacket
=============================================================================
