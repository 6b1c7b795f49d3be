------------------------- MODULE Simulation_proofs -------------------------
(***************************************************************************)
(* The simulator, for every ruleset, trace of packets, number of requests, *)
(* of classifiers and of trials: the answers of a run that only classifies *)
(* are complete, and an update run with as many insertions as deletions    *)
(* replays its recorded indices in range, with the classifiers in step.    *)
(***************************************************************************)
EXTENDS Simulation, TupleTable_proofs, FiniteSetTheorems

-----------------------------------------------------------------------------
(* The requests: what is in use before each, and at the end *)

Size == Cardinality(Rules)
Half == Size \div 2

(* The requests of a kind before request n of the requests T *)
Earlier(T, n, type) == {j \in DOMAIN T : j < n /\ T[j] = type}

(* The rules in use before request n: half of them, before the first *)
InUse(T, n) ==
  Half + Cardinality(Earlier(T, n, "Insertion")) - Cardinality(Earlier(T, n, "Deletion"))

(* As many insertions as deletions, as main asks for, and a half of the    *)
(* ruleset that is not empty: of a single rule none is in use.             *)
Balanced == NumInsert = NumDelete /\ Size > 1

LEMMA SizeNat == Size \in Nat /\ Half \in Nat /\ 2 * Half <= Size /\ Size <= 2 * Half + 1
<1>1. Size \in Nat
  BY RequestsAssumption, FS_CardinalityType DEF Size
<1>. QED  BY <1>1 DEF Half

LEMMA EarlierFinite ==
  ASSUME NEW N \in Nat, NEW T \in [1..N -> RequestType], NEW n \in Nat, NEW type
  PROVE  IsFiniteSet(Earlier(T, n, type)) /\ Cardinality(Earlier(T, n, type)) \in Nat
<1>1. IsFiniteSet(1..N)
  BY FS_Interval
<1>2. Earlier(T, n, type) \in SUBSET (1..N)
  BY DEF Earlier
<1>. QED  BY <1>1, <1>2, FS_Subset, FS_CardinalityType

LEMMA InUseInt ==
  ASSUME NEW N \in Nat, NEW T \in [1..N -> RequestType], NEW n \in Nat
  PROVE  InUse(T, n) \in Int
BY EarlierFinite, SizeNat DEF InUse

LEMMA EarlierNext ==
  ASSUME NEW N \in Nat, NEW T \in [1..N -> RequestType], NEW n \in 1..N, NEW type
  PROVE  Cardinality(Earlier(T, n + 1, type)) =
           IF T[n] = type THEN Cardinality(Earlier(T, n, type)) + 1
                          ELSE Cardinality(Earlier(T, n, type))
<1>1. IsFiniteSet(Earlier(T, n, type)) /\ Cardinality(Earlier(T, n, type)) \in Nat
  BY EarlierFinite
<1>3. n \notin Earlier(T, n, type)
  BY DEF Earlier
<1>2. Earlier(T, n + 1, type) = IF T[n] = type THEN Earlier(T, n, type) \cup {n}
                                ELSE Earlier(T, n, type)
  BY DEF Earlier
<1>. QED  BY <1>1, <1>2, <1>3, FS_AddElement

(* A request changes the number of rules in use by its Change. *)
LEMMA InUseNext ==
  ASSUME NEW N \in Nat, NEW T \in [1..N -> RequestType], NEW n \in 1..N
  PROVE  InUse(T, n + 1) = InUse(T, n) + Change(T[n])
<1>1. Cardinality(Earlier(T, n, "Insertion")) \in Nat /\ Cardinality(Earlier(T, n, "Deletion")) \in Nat
  BY EarlierFinite
<1>2. T[n] \in {"ClassifyPacket", "Insertion", "Deletion"}
  BY DEF RequestType
<1>3. /\ T[n] = "Insertion" =>
           Cardinality(Earlier(T, n + 1, "Insertion")) = Cardinality(Earlier(T, n, "Insertion")) + 1
      /\ T[n] # "Insertion" =>
           Cardinality(Earlier(T, n + 1, "Insertion")) = Cardinality(Earlier(T, n, "Insertion"))
      /\ T[n] = "Deletion" =>
           Cardinality(Earlier(T, n + 1, "Deletion")) = Cardinality(Earlier(T, n, "Deletion")) + 1
      /\ T[n] # "Deletion" =>
           Cardinality(Earlier(T, n + 1, "Deletion")) = Cardinality(Earlier(T, n, "Deletion"))
  BY EarlierNext
<1>4. Half \in Nat
  BY SizeNat
<1>5. CASE T[n] = "Insertion"
  BY <1>1, <1>3, <1>4, <1>5 DEF InUse, Change
<1>6. CASE T[n] = "Deletion"
  BY <1>1, <1>3, <1>4, <1>6 DEF InUse, Change
<1>7. CASE T[n] = "ClassifyPacket"
  BY <1>1, <1>3, <1>4, <1>7 DEF InUse, Change
<1>. QED  BY <1>2, <1>5, <1>6, <1>7

LEMMA InUseFirst ==
  ASSUME NEW T \in Seq(RequestType)
  PROVE  InUse(T, 1) = Half
<1>1. ASSUME NEW type PROVE Earlier(T, 1, type) = {}
  BY DEF Earlier
<1>2. Cardinality(Earlier(T, 1, "Insertion")) = 0 /\ Cardinality(Earlier(T, 1, "Deletion")) = 0
  BY <1>1, FS_EmptySet
<1>. QED  BY <1>2, SizeNat DEF InUse

LEMMA InUsePrefix ==
  ASSUME NEW N \in Nat, NEW T \in [1..N -> RequestType], NEW U \in [1..N -> RequestType],
         NEW n \in Nat, \A j \in 1..N : j < n => T[j] = U[j]
  PROVE  InUse(T, n) = InUse(U, n)
<1>1. ASSUME NEW type PROVE Earlier(T, n, type) = Earlier(U, n, type)
  BY DEF Earlier
<1>. QED  BY <1>1 DEF InUse

Swapped(T, i, j) == [T EXCEPT ![i] = T[j], ![j] = T[i]]

LEMMA SwappedAt ==
  ASSUME NEW N \in Nat, NEW T \in [1..N -> RequestType], NEW i \in 1..N, NEW j \in 1..N
  PROVE  /\ Swapped(T, i, j) \in [1..N -> RequestType]
         /\ Swapped(T, i, j)[i] = T[j] /\ Swapped(T, i, j)[j] = T[i]
         /\ \A k \in 1..N : k # i /\ k # j => Swapped(T, i, j)[k] = T[k]
BY DEF Swapped

(* The order of the requests does not matter for what is in use at the end. *)
LEMMA EarlierSwapped ==
  ASSUME NEW N \in Nat, NEW T \in [1..N -> RequestType], NEW i \in 1..N, NEW j \in 1..N,
         T[i] # T[j], NEW type
  PROVE  Cardinality(Earlier(Swapped(T, i, j), N + 1, type)) = Cardinality(Earlier(T, N + 1, type))
<1>. DEFINE U == Swapped(T, i, j)
<1>0. U \in [1..N -> RequestType]
  BY SwappedAt
<1>1. /\ U[i] = T[j] /\ U[j] = T[i]
      /\ \A k \in 1..N : k # i /\ k # j => U[k] = T[k]
  BY SwappedAt
<1>. HIDE DEF U
<1>. DEFINE E == Earlier(T, N + 1, type)
            F == Earlier(U, N + 1, type)
<1>2. IsFiniteSet(E) /\ Cardinality(E) \in Nat
  BY EarlierFinite
<1>3. E = {k \in 1..N : T[k] = type} /\ F = {k \in 1..N : U[k] = type}
  BY <1>0 DEF Earlier
<1>. HIDE DEF E, F
<1>4. CASE T[i] = type
  <2>1. i \in E /\ j \notin E /\ F = (E \ {i}) \cup {j}
    BY <1>1, <1>3, <1>4
  <2>2. IsFiniteSet(E \ {i}) /\ Cardinality(E \ {i}) = Cardinality(E) - 1
    BY <1>2, <2>1, FS_RemoveElement
  <2>3. j \notin E \ {i}
    BY <2>1
  <2>4. Cardinality((E \ {i}) \cup {j}) = Cardinality(E \ {i}) + 1
    BY <2>2, <2>3, FS_AddElement
  <2>5. Cardinality(F) = Cardinality(E)
    BY <1>2, <2>1, <2>2, <2>4
  <2>. QED  BY <2>5 DEF E, F, U
<1>5. CASE T[j] = type
  <2>1. j \in E /\ i \notin E /\ F = (E \ {j}) \cup {i}
    BY <1>1, <1>3, <1>5
  <2>2. IsFiniteSet(E \ {j}) /\ Cardinality(E \ {j}) = Cardinality(E) - 1
    BY <1>2, <2>1, FS_RemoveElement
  <2>3. i \notin E \ {j}
    BY <2>1
  <2>4. Cardinality((E \ {j}) \cup {i}) = Cardinality(E \ {j}) + 1
    BY <2>2, <2>3, FS_AddElement
  <2>5. Cardinality(F) = Cardinality(E)
    BY <1>2, <2>1, <2>2, <2>4
  <2>. QED  BY <2>5 DEF E, F, U
<1>6. CASE T[i] # type /\ T[j] # type
  <2>1. E = F
    BY <1>1, <1>3, <1>6
  <2>. QED  BY <2>1 DEF E, F, U
<1>. QED  BY <1>4, <1>5, <1>6

LEMMA DisjointUnion ==
  ASSUME NEW S, IsFiniteSet(S), NEW T, IsFiniteSet(T), S \cap T = {}
  PROVE  IsFiniteSet(S \cup T) /\ Cardinality(S \cup T) = Cardinality(S) + Cardinality(T)
<1>1. Cardinality(S \cap T) = 0
  BY FS_EmptySet
<1>2. Cardinality(S) \in Nat /\ Cardinality(T) \in Nat
  BY FS_CardinalityType
<1>3. Cardinality(S \cup T) = Cardinality(S) + Cardinality(T) - Cardinality(S \cap T)
  BY FS_Union
<1>. QED  BY <1>1, <1>2, <1>3, FS_Union

(* As many insertions as deletions leave the number of rules in use. *)
LEMMA InUseShuffled ==
  ASSUME NEW q \in Shuffles, NumInsert = NumDelete
  PROVE  /\ q \in [1..(NumPacket + NumInsert + NumDelete) -> RequestType]
         /\ InUse(q, NumPacket + NumInsert + NumDelete + 1) = Half
<1>. DEFINE N == NumPacket + NumInsert + NumDelete
            P == {j \in 1..N : q[j] = "ClassifyPacket"}
            I == {j \in 1..N : q[j] = "Insertion"}
            D == {j \in 1..N : q[j] = "Deletion"}
<1>0. N \in Nat /\ NumPacket \in Nat /\ NumInsert \in Nat /\ NumDelete \in Nat
  BY RequestsAssumption
<1>1. q \in [1..N -> RequestType] /\ Cardinality(P) = NumPacket /\ Cardinality(I) = NumInsert
  BY DEF Shuffles
<1>. HIDE DEF N
<1>2. IsFiniteSet(1..N) /\ Cardinality(1..N) = N
  BY <1>0, FS_Interval
<1>3. IsFiniteSet(P) /\ IsFiniteSet(I) /\ IsFiniteSet(D) /\ Cardinality(D) \in Nat
  <2>1. P \in SUBSET (1..N) /\ I \in SUBSET (1..N) /\ D \in SUBSET (1..N)
    OBVIOUS
  <2>. HIDE DEF P, I, D
  <2>. QED  BY <1>2, <2>1, FS_Subset, FS_CardinalityType
<1>4. P \cap I = {} /\ (P \cup I) \cap D = {} /\ (P \cup I) \cup D = 1..N
  BY <1>1 DEF RequestType
<1>5. Earlier(q, N + 1, "Insertion") = I /\ Earlier(q, N + 1, "Deletion") = D
  BY <1>0, <1>1 DEF Earlier
<1>. HIDE DEF P, I, D
<1>6. IsFiniteSet(P \cup I) /\ Cardinality(P \cup I) = NumPacket + NumInsert
  BY <1>0, <1>1, <1>3, <1>4, DisjointUnion
<1>7. Cardinality((P \cup I) \cup D) = Cardinality(P \cup I) + Cardinality(D)
  BY <1>3, <1>4, <1>6, DisjointUnion
<1>8. Cardinality(D) = NumDelete
  <2>1. Cardinality(1..N) = NumPacket + NumInsert + Cardinality(D)
    BY <1>4, <1>6, <1>7
  <2>. QED  BY <1>0, <1>2, <1>3, <2>1 DEF N
<1>9. InUse(q, N + 1) = Half
  BY <1>0, <1>1, <1>5, <1>8, SizeNat DEF InUse
<1>. QED  BY <1>1, <1>9 DEF N

-----------------------------------------------------------------------------
(* SetupComputation adjusts the shuffled requests *)

(* The container that request n takes a rule from is not empty. *)
Possible(T, n) ==
  /\ T[n] = "Insertion" => InUse(T, n) < Size
  /\ T[n] = "Deletion" => InUse(T, n) > 0

Proper(T) ==
  /\ T \in Seq(RequestType)
  /\ InUse(T, Len(T) + 1) = Half
  /\ \A n \in DOMAIN T : Possible(T, n)

(* The requests before i are adjusted, the size is what is in use there. *)
Adjusting(s, i, N) ==
  /\ s = [types |-> s.types, size |-> s.size]
  /\ s.types \in [1..N -> RequestType]
  /\ s.size = InUse(s.types, i)
  /\ InUse(s.types, N + 1) = Half
  /\ \A n \in 1..N : n < i => Possible(s.types, n)

LEMMA LaterMax ==
  ASSUME NEW N \in Nat, NEW S \in SUBSET (0..N), S # {}
  PROVE  Max(S) \in S
<1>. DEFINE T == {N - n : n \in S}
<1>0. \A n \in S : N - n \in Nat
  OBVIOUS
<1>1. T \in SUBSET Nat /\ T # {}
  BY <1>0
<1>. HIDE DEF T
<1>2. PICK x \in T : \A y \in T : x <= y
  BY <1>1, LeastNat
<1>3. PICK m \in S : x = N - m
  BY DEF T
<1>4. ASSUME NEW n \in S PROVE m >= n
  <2>1. N - n \in T
    BY DEF T
  <2>2. x <= N - n
    BY <1>2, <2>1
  <2>. QED  BY <1>3, <2>2
<1>. QED  BY <1>4 DEF Max

(* A number of rules that only grows, or only falls, does not come back. *)
LEMMA NoneLater ==
  ASSUME NEW N \in Nat, NEW T \in [1..N -> RequestType], NEW i \in 1..N,
         NEW type \in {"Insertion", "Deletion"}, \A j \in (i + 1)..N : T[j] # type
  PROVE  /\ type = "Deletion" => InUse(T, i + 1) <= InUse(T, N + 1)
         /\ type = "Insertion" => InUse(T, N + 1) <= InUse(T, i + 1)
<1>1. /\ i + 1 \in Nat /\ N + 1 \in Nat
      /\ \A k \in 1..N : k < N + 1
      /\ \A k \in 1..N : k \in (i + 1)..N \/ k < i + 1
  OBVIOUS
<1>2. Earlier(T, i + 1, type) = Earlier(T, N + 1, type)
  BY <1>1 DEF Earlier
<1>3. ASSUME NEW kind
      PROVE  /\ Cardinality(Earlier(T, i + 1, kind)) <= Cardinality(Earlier(T, N + 1, kind))
             /\ Cardinality(Earlier(T, i + 1, kind)) \in Nat
             /\ Cardinality(Earlier(T, N + 1, kind)) \in Nat
  <2>1. Earlier(T, i + 1, kind) \in SUBSET Earlier(T, N + 1, kind)
    BY <1>1 DEF Earlier
  <2>. QED  BY <1>1, <2>1, EarlierFinite, FS_Subset
<1>4. Half \in Nat
  BY SizeNat
<1>. QED  BY <1>2, <1>3, <1>4 DEF InUse

Exchange(s, i, j) ==
  [types |-> Swapped(s.types, i, j), size |-> s.size + Change(s.types[j])]

LEMMA ExchangeLater ==
  ASSUME Size > 0, NEW N \in Nat, NEW i \in 1..N, NEW s, Adjusting(s, i, N),
         NEW j \in (i + 1)..N, Blocked(s.types[i], s.size), s.types[j] = Opposite(s.types[i])
  PROVE  Adjusting(Exchange(s, i, j), i + 1, N)
<1>1. PICK T, U, u : T = s.types /\ U = Swapped(T, i, j) /\ u = Exchange(s, i, j)
  OBVIOUS
<1>2. /\ T \in [1..N -> RequestType] /\ s.size = InUse(T, i) /\ InUse(T, N + 1) = Half
      /\ \A n \in 1..N : n < i => Possible(T, n)
      /\ Blocked(T[i], s.size) /\ T[j] = Opposite(T[i])
  BY <1>1 DEF Adjusting
<1>3. i \in 1..N /\ j \in 1..N /\ i + 1 \in Nat /\ i \in Nat
  OBVIOUS
<1>4. /\ U \in [1..N -> RequestType] /\ U[i] = T[j]
      /\ \A n \in 1..N : n < i => U[n] = T[n]
  BY <1>1, <1>2, <1>3, SwappedAt
<1>5. u.types = U /\ u.size = s.size + Change(T[j]) /\ u = [types |-> u.types, size |-> u.size]
  BY <1>1 DEF Exchange
<1>6. T[i] \in {"Insertion", "Deletion"} /\ T[j] # T[i]
  BY <1>2 DEF Blocked, Opposite
<1>7. InUse(U, N + 1) = Half
  <2>1. ASSUME NEW type
        PROVE  Cardinality(Earlier(U, N + 1, type)) = Cardinality(Earlier(T, N + 1, type))
    BY <1>1, <1>2, <1>3, <1>6, EarlierSwapped
  <2>. QED  BY <1>2, <2>1 DEF InUse
<1>8. ASSUME NEW n \in 1..N, n <= i PROVE InUse(U, n) = InUse(T, n)
  <2>1. \A k \in 1..N : k < n => T[k] = U[k]
    BY <1>4, <1>8
  <2>2. n \in Nat
    OBVIOUS
  <2>3. InUse(T, n) = InUse(U, n)
    BY <1>2, <1>4, <2>1, <2>2, InUsePrefix
  <2>. QED  BY <2>3
<1>9. InUse(U, i + 1) = u.size
  <2>1. InUse(U, i + 1) = InUse(U, i) + Change(U[i])
    BY <1>3, <1>4, InUseNext
  <2>2. InUse(U, i) = InUse(T, i)
    BY <1>3, <1>8
  <2>. QED  BY <1>2, <1>4, <1>5, <2>1, <2>2
<1>10. Possible(U, i)
  <2>1. InUse(U, i) = s.size /\ s.size \in Int
    BY <1>2, <1>3, <1>8, InUseInt
  <2>2. Size \in Nat
    BY SizeNat
  <2>. QED  BY <1>2, <1>4, <1>6, <2>1, <2>2 DEF Possible, Blocked, Opposite, Size
<1>11. ASSUME NEW n \in 1..N, n < i + 1 PROVE Possible(U, n)
  <2>1. CASE n = i
    BY <1>10, <2>1
  <2>2. CASE n < i
    <3>1. InUse(U, n) = InUse(T, n) /\ U[n] = T[n] /\ Possible(T, n)
      BY <1>2, <1>4, <1>8, <2>2
    <3>. QED  BY <3>1 DEF Possible
  <2>. QED  BY <1>11, <2>1, <2>2
<1>12. Adjusting(u, i + 1, N)
  BY <1>4, <1>5, <1>7, <1>9, <1>11 DEF Adjusting
<1>. QED  BY <1>1, <1>12

LEMMA AdjustAtOK ==
  ASSUME Size > 0, NEW N \in Nat, NEW i \in 1..N, NEW s, Adjusting(s, i, N)
  PROVE  Adjusting(AdjustAt(s, i), i + 1, N)
<1>1. PICK T, type, later : /\ T = s.types /\ type = T[i]
                            /\ later = {j \in (i + 1)..N : T[j] = Opposite(type)}
  OBVIOUS
<1>2. /\ T \in [1..N -> RequestType] /\ s.size = InUse(T, i) /\ InUse(T, N + 1) = Half
      /\ \A n \in 1..N : n < i => Possible(T, n)
      /\ s = [types |-> T, size |-> s.size]
      /\ Len(s.types) = N
  BY <1>1 DEF Adjusting
<1>3. /\ Size \in Nat /\ Half \in Nat /\ 2 * Half <= Size /\ Size <= 2 * Half + 1
      /\ InUse(T, i) \in Int /\ InUse(T, i + 1) \in Int
      /\ InUse(T, i + 1) = InUse(T, i) + Change(type)
  <2>1. i \in Nat /\ i + 1 \in Nat
    OBVIOUS
  <2>2. InUse(T, i) \in Int /\ InUse(T, i + 1) \in Int
    BY <1>2, <2>1, InUseInt
  <2>3. InUse(T, i + 1) = InUse(T, i) + Change(type)
    BY <1>1, <1>2, InUseNext
  <2>. QED  BY <2>2, <2>3, SizeNat
<1>4. type \in {"ClassifyPacket", "Insertion", "Deletion"}
  BY <1>1, <1>2 DEF RequestType
<1>5. CASE ~ Blocked(type, s.size)
  <2>1. PICK u : u = [s EXCEPT !.size = @ + Change(type)]
    OBVIOUS
  <2>2. u = AdjustAt(s, i)
    BY <1>1, <1>5, <2>1 DEF AdjustAt
  <2>3. u.types = T /\ u.size = s.size + Change(type) /\ u = [types |-> u.types, size |-> u.size]
    BY <1>2, <2>1
  <2>4. Possible(T, i)
    BY <1>1, <1>2, <1>3, <1>5 DEF Possible, Blocked, Size
  <2>5. \A n \in 1..N : n < i + 1 => Possible(T, n)
    BY <1>2, <2>4
  <2>. QED  BY <1>2, <1>3, <2>2, <2>3, <2>5 DEF Adjusting
<1>6. CASE Blocked(type, s.size)
  <2>1. type \in {"Insertion", "Deletion"} /\ Opposite(type) \in {"Insertion", "Deletion"}
    BY <1>6 DEF Blocked, Opposite
  <2>2. later # {}
    <3>. SUFFICES ASSUME later = {} PROVE FALSE
      OBVIOUS
    <3>1. \A j \in (i + 1)..N : T[j] # Opposite(type)
      BY <1>1
    <3>2. /\ Opposite(type) = "Deletion" => InUse(T, i + 1) <= InUse(T, N + 1)
          /\ Opposite(type) = "Insertion" => InUse(T, N + 1) <= InUse(T, i + 1)
      BY <1>2, <2>1, <3>1, NoneLater
    <3>3. CASE type = "Insertion"
      <4>1. InUse(T, i) + 1 <= Half /\ 5 * InUse(T, i) >= 4 * Size
        BY <1>2, <1>3, <1>6, <3>2, <3>3 DEF Blocked, Opposite, Change, Size
      <4>. QED  BY <1>3, <4>1
    <3>4. CASE type = "Deletion"
      <4>1. Half <= InUse(T, i) - 1 /\ 5 * InUse(T, i) <= Size
        BY <1>2, <1>3, <1>6, <3>2, <3>4 DEF Blocked, Opposite, Change, Size
      <4>. QED  BY <1>3, <4>1
    <3>. QED  BY <2>1, <3>3, <3>4
  <2>3. Max(later) \in later
    <3>1. later \in SUBSET (0..N)
      BY <1>1
    <3>. QED  BY <2>2, <3>1, LaterMax
  <2>4. PICK j \in (i + 1)..N : j = Max(later) /\ T[j] = Opposite(type)
    BY <1>1, <2>3
  <2>6. AdjustAt(s, i) = Exchange(s, i, j)
    BY <1>1, <1>2, <1>6, <2>2, <2>4 DEF AdjustAt, Exchange, Swapped
  <2>7. Adjusting(Exchange(s, i, j), i + 1, N)
    BY <1>1, <1>2, <1>6, <2>4, ExchangeLater
  <2>. QED  BY <2>6, <2>7
<1>. QED  BY <1>5, <1>6

(* The pass over all requests *)
Passes(f, types, start, n) ==
  f = [i \in 0..n |-> IF i = 0 THEN [types |-> types, size |-> start] ELSE AdjustAt(f[i - 1], i)]

LEMMA PassExists ==
  ASSUME NEW types, NEW start, NEW n \in Nat
  PROVE  \E f : Passes(f, types, start, n)
<1>. DEFINE G == {k \in Nat : \E f : Passes(f, types, start, k)}
<1>1. 0 \in G
  <2>. DEFINE f == [i \in 0..0 |-> [types |-> types, size |-> start]]
  <2>1. Passes(f, types, start, 0)
    BY DEF Passes
  <2>. QED  BY <2>1
<1>2. ASSUME NEW k \in G PROVE k + 1 \in G
  <2>1. PICK f : Passes(f, types, start, k)
    OBVIOUS
  <2>. DEFINE g == [i \in 0..(k + 1) |-> IF i = k + 1 THEN AdjustAt(f[k], k + 1) ELSE f[i]]
  <2>2. ASSUME NEW i \in 0..(k + 1)
        PROVE  g[i] = IF i = 0 THEN [types |-> types, size |-> start] ELSE AdjustAt(g[i - 1], i)
    BY <2>1 DEF Passes
  <2>3. g = [i \in 0..(k + 1) |-> g[i]]
    OBVIOUS
  <2>4. Passes(g, types, start, k + 1)
    BY <2>2, <2>3 DEF Passes
  <2>. QED  BY <2>4
<1>. HIDE DEF G
<1>3. G = Nat
  BY <1>1, <1>2, NaturalSet DEF G
<1>. QED  BY <1>3 DEF G

(* With as many insertions as deletions, the adjusted trace never takes a  *)
(* rule out of an empty container, and ends with as many in use as before. *)
LEMMA AdjustedProper ==
  ASSUME Balanced, NEW q \in Shuffles
  PROVE  /\ Proper(Adjusted(q, Half).types) /\ Adjusted(q, Half).size = Half
         /\ DOMAIN Adjusted(q, Half).types = DOMAIN q
<1>. DEFINE N == NumPacket + NumInsert + NumDelete
            f == CHOOSE f : Passes(f, q, Half, N)
<1>1. N \in Nat /\ q \in [1..N -> RequestType] /\ InUse(q, N + 1) = Half /\ Size > 0
  BY RequestsAssumption, InUseShuffled, SizeNat DEF Balanced
<1>. HIDE DEF N
<1>2. Len(q) = N /\ q \in Seq(RequestType)
  BY <1>1
<1>3. Passes(f, q, Half, N)
  BY <1>1, PassExists
<1>4. Adjusted(q, Half) = f[N]
  BY <1>2 DEF Adjusted, Passes
<1>. HIDE DEF f
<1>. DEFINE G == {k \in Nat : k <= N => Adjusting(f[k], k + 1, N)}
<1>5. 0 \in G
  <2>1. f[0] = [types |-> q, size |-> Half]
    BY <1>1, <1>3 DEF Passes
  <2>2. InUse(q, 1) = Half
    BY <1>2, InUseFirst
  <2>3. Adjusting(f[0], 1, N)
    BY <1>1, <2>1, <2>2 DEF Adjusting
  <2>. QED  BY <2>3
<1>6. ASSUME NEW k \in G PROVE k + 1 \in G
  <2>1. CASE k + 1 <= N
    <3>1. Adjusting(f[k], k + 1, N) /\ k + 1 \in 1..N
      BY <1>1, <2>1
    <3>2. f[k + 1] = AdjustAt(f[k], k + 1)
      BY <1>1, <1>3, <3>1 DEF Passes
    <3>. HIDE DEF G
    <3>3. Adjusting(f[k + 1], (k + 1) + 1, N)
      BY <1>1, <3>1, <3>2, AdjustAtOK
    <3>. QED  BY <3>3 DEF G
  <2>. QED  BY <1>1, <2>1
<1>. HIDE DEF G
<1>7. G = Nat
  BY <1>5, <1>6, NaturalSet DEF G
<1>8. Adjusting(f[N], N + 1, N)
  BY <1>1, <1>7 DEF G
<1>9. PICK T : T = f[N].types
  OBVIOUS
<1>10. T \in [1..N -> RequestType] /\ f[N].size = Half /\ InUse(T, N + 1) = Half
       /\ \A n \in 1..N : Possible(T, n)
  BY <1>1, <1>8, <1>9 DEF Adjusting
<1>11. T \in Seq(RequestType) /\ Len(T) = N /\ DOMAIN T = 1..N /\ DOMAIN q = 1..N
  BY <1>1, <1>10
<1>. QED  BY <1>4, <1>9, <1>10, <1>11 DEF Proper

-----------------------------------------------------------------------------
(* The containers of rules *)

(* Every rule is in one of the two containers, once. *)
Split(a, b) ==
  /\ a \in Seq(Rules) /\ b \in Seq(Rules)
  /\ NoDuplicates(a) /\ NoDuplicates(b)
  /\ Elems(a) \cap Elems(b) = {} /\ Elems(a) \cup Elems(b) = Rules

LEMMA MovedRule ==
  ASSUME NEW a, NEW b, Split(a, b), NEW i \in 0..(Len(a) - 1)
  PROVE  /\ Split(SwapRemove(a, i + 1), Append(b, a[i + 1]))
         /\ Len(SwapRemove(a, i + 1)) = Len(a) - 1
         /\ Len(Append(b, a[i + 1])) = Len(b) + 1
<1>1. /\ a \in Seq(Rules) /\ b \in Seq(Rules) /\ NoDuplicates(a) /\ NoDuplicates(b)
      /\ Elems(a) \cap Elems(b) = {} /\ Elems(a) \cup Elems(b) = Rules
  BY DEF Split
<1>2. i + 1 \in DOMAIN a /\ a[i + 1] \in Rules /\ a[i + 1] \in Elems(a) /\ Len(a) \in Nat
  BY <1>1 DEF Elems
<1>3. PICK r, k : r = a[i + 1] /\ k = i + 1
  OBVIOUS
<1>4. r \in Rules /\ r \in Elems(a) /\ r \notin Elems(b) /\ k \in DOMAIN a /\ a[k] = r
  BY <1>1, <1>2, <1>3
<1>5. PICK u, v : u = SwapRemove(a, k) /\ v = Append(b, r)
  OBVIOUS
<1>6. u \in Seq(Rules) /\ Elems(u) = Elems(a) \ {r} /\ NoDuplicates(u)
  BY <1>1, <1>4, <1>5, SwapRemoveElems
<1>7. v \in Seq(Rules) /\ Elems(v) = Elems(b) \cup {r} /\ NoDuplicates(v)
  BY <1>1, <1>4, <1>5, AppendElems
<1>8. Split(u, v)
  BY <1>1, <1>4, <1>6, <1>7, Zenon DEF Split
<1>9. Len(u) = Len(a) - 1
  <2>1. Len(a) - 1 \in Nat /\ DOMAIN u = 1..(Len(a) - 1)
    BY <1>2, <1>5 DEF SwapRemove
  <2>. QED  BY <1>6, <2>1
<1>10. Len(v) = Len(b) + 1
  BY <1>1, <1>4, <1>5
<1>. QED  BY <1>3, <1>5, <1>8, <1>9, <1>10

LEMMA SplitSym ==
  ASSUME NEW a, NEW b
  PROVE  Split(a, b) <=> Split(b, a)
BY Zenon DEF Split

LocalType == [trial : Nat, at : Nat, in_use : Seq(Rules), available : Seq(Rules)]

(* A request with an index in range moves one rule between the containers. *)
LEMMA ExchangedSplit ==
  ASSUME NEW l \in LocalType, Split(l.in_use, l.available), NEW type \in RequestType, NEW i,
         type # "ClassifyPacket" => i \in 0..(Len(Source(type, l.in_use, l.available)) - 1)
  PROVE  /\ Exchanged(l, type, i) \in LocalType
         /\ Exchanged(l, type, i).trial = l.trial /\ Exchanged(l, type, i).at = l.at
         /\ Split(Exchanged(l, type, i).in_use, Exchanged(l, type, i).available)
         /\ Len(Exchanged(l, type, i).in_use) = Len(l.in_use) + Change(type)
         /\ Len(Exchanged(l, type, i).available) = Len(l.available) - Change(type)
<1>0. type \in {"ClassifyPacket", "Insertion", "Deletion"}
  BY DEF RequestType
<1>1. l.in_use \in Seq(Rules) /\ l.available \in Seq(Rules)
  BY DEF LocalType
<1>2. CASE type = "Insertion"
  <2>1. PICK a, b : a = SwapRemove(l.available, i + 1) /\ b = Append(l.in_use, l.available[i + 1])
    OBVIOUS
  <2>2. i \in 0..(Len(l.available) - 1) /\ l.available # <<>>
    BY <1>1, <1>2 DEF Source
  <2>3. Split(a, b) /\ Len(a) = Len(l.available) - 1 /\ Len(b) = Len(l.in_use) + 1
    BY <2>1, <2>2, SplitSym, MovedRule
  <2>4. Split(b, a) /\ a \in Seq(Rules) /\ b \in Seq(Rules)
    BY <2>3, SplitSym DEF Split
  <2>5. Exchanged(l, type, i) = [l EXCEPT !.in_use = b, !.available = a]
    BY <1>2, <2>1, <2>2 DEF Exchanged, PopRule, PoppedRule
  <2>6. PICK m : m = [l EXCEPT !.in_use = b, !.available = a]
    OBVIOUS
  <2>7. m \in LocalType /\ m.trial = l.trial /\ m.at = l.at /\ m.in_use = b /\ m.available = a
    BY <2>4, <2>6 DEF LocalType
  <2>8. Change(type) = 1
    BY <1>2 DEF Change
  <2>9. Exchanged(l, type, i) = m
    BY <2>5, <2>6
  <2>. QED  BY <2>3, <2>4, <2>7, <2>8, <2>9
<1>3. CASE type = "Deletion"
  <2>1. PICK a, b : a = SwapRemove(l.in_use, i + 1) /\ b = Append(l.available, l.in_use[i + 1])
    OBVIOUS
  <2>2. i \in 0..(Len(l.in_use) - 1) /\ l.in_use # <<>>
    BY <1>1, <1>3 DEF Source
  <2>3. Split(a, b) /\ Len(a) = Len(l.in_use) - 1 /\ Len(b) = Len(l.available) + 1
    BY <2>1, <2>2, MovedRule
  <2>4. a \in Seq(Rules) /\ b \in Seq(Rules)
    BY <2>3 DEF Split
  <2>5. Exchanged(l, type, i) = [l EXCEPT !.available = b, !.in_use = a]
    BY <1>3, <2>1, <2>2 DEF Exchanged, PopRule, PoppedRule
  <2>6. PICK m : m = [l EXCEPT !.available = b, !.in_use = a]
    OBVIOUS
  <2>7. m \in LocalType /\ m.trial = l.trial /\ m.at = l.at /\ m.in_use = a /\ m.available = b
    BY <2>4, <2>6 DEF LocalType
  <2>8. Change(type) = -1 /\ Len(l.in_use) \in Nat /\ Len(l.available) \in Nat
    BY <1>1, <1>3 DEF Change
  <2>9. Exchanged(l, type, i) = m
    BY <2>5, <2>6
  <2>. QED  BY <2>3, <2>7, <2>8, <2>9
<1>4. CASE type = "ClassifyPacket"
  <2>1. Exchanged(l, type, i) = l /\ Change(type) = 0
    BY <1>4 DEF Exchanged, Change
  <2>. QED  BY <1>1, <2>1
<1>. QED  BY <1>0, <1>2, <1>3, <1>4

(* The classifier of the task does with its rules what the task does. *)
LEMMA PerformedInStep ==
  ASSUME NEW l \in LocalType, NEW n, n.type \in RequestType,
         n.type = "Deletion" => n.index \in 0..(Len(l.in_use) - 1)
  PROVE  Performed(l.in_use, l, n) = Exchanged(l, n.type, n.index).in_use
<1>0. n.type \in {"ClassifyPacket", "Insertion", "Deletion"}
  BY DEF RequestType
<1>1. CASE n.type = "Insertion"
  <2>1. PICK a, b : a = PopRule(l.available, n.index)
                    /\ b = Append(l.in_use, PoppedRule(l.available, n.index))
    OBVIOUS
  <2>2. Exchanged(l, n.type, n.index) = [l EXCEPT !.in_use = b, !.available = a]
    BY <1>1, <2>1 DEF Exchanged
  <2>3. [l EXCEPT !.in_use = b, !.available = a].in_use = b
    BY DEF LocalType
  <2>4. Performed(l.in_use, l, n) = b
    BY <1>1, <2>1 DEF Performed
  <2>. QED  BY <2>2, <2>3, <2>4
<1>2. CASE n.type = "Deletion"
  <2>1. PICK a, b : a = PopRule(l.in_use, n.index)
                    /\ b = Append(l.available, PoppedRule(l.in_use, n.index))
    OBVIOUS
  <2>2. Exchanged(l, n.type, n.index) = [l EXCEPT !.available = b, !.in_use = a]
    BY <1>2, <2>1 DEF Exchanged
  <2>3. [l EXCEPT !.available = b, !.in_use = a].in_use = a
    BY DEF LocalType
  <2>4. Performed(l.in_use, l, n) = a
    BY <1>2, <2>1 DEF Performed, PopRule
  <2>. QED  BY <2>2, <2>3, <2>4
<1>3. CASE n.type = "ClassifyPacket"
  BY <1>3 DEF Performed, Exchanged
<1>. QED  BY <1>0, <1>1, <1>2, <1>3

-----------------------------------------------------------------------------
(* Lists of all rules *)

LEMMA AllElems ==
  ASSUME NEW s \in [1..Size -> Rules], NoDuplicates(s)
  PROVE  s \in Seq(Rules) /\ Len(s) = Size /\ Elems(s) = Rules
<1>1. Size \in Nat
  BY SizeNat
<1>2. s \in Seq(Rules) /\ Len(s) = Size /\ DOMAIN s = 1..Size
  BY <1>1
<1>3. Elems(s) \in SUBSET Rules /\ IsFiniteSet(Rules)
  BY RequestsAssumption DEF Elems
<1>4. s \in Bijection(1..Size, Elems(s))
  BY <1>2 DEF Bijection, Injection, Surjection, IsInjective, Elems, NoDuplicates
<1>5. ExistsBijection(1..Size, Elems(s))
  BY <1>4 DEF ExistsBijection
<1>6. IsFiniteSet(1..Size) /\ Cardinality(1..Size) = Size
  BY <1>1, FS_Interval
<1>7. Cardinality(Elems(s)) = Cardinality(Rules)
  BY <1>5, <1>6, FS_Bijection DEF Size
<1>. QED  BY <1>2, <1>3, <1>7, FS_Subset

LEMMA ShuffledRules ==
  ASSUME NEW s \in SetToSeqs(Rules)
  PROVE  s \in Seq(Rules) /\ Len(s) = Size /\ Elems(s) = Rules /\ NoDuplicates(s)
<1>1. s \in [1..Size -> Rules] /\ NoDuplicates(s)
  BY DEF SetToSeqs, Size, NoDuplicates
<1>. QED  BY <1>1, AllElems

LEMMA LoadedRules == Elems(SetToSeq(Rules)) = Rules
<1>1. IsFiniteSet(Rules)
  BY RequestsAssumption
<1>2. ExistsBijection(1..Size, Rules)
  BY <1>1, FS_CardinalityType DEF Size
<1>3. \E f \in [1..Size -> Rules] : IsInjective(f)
  BY <1>2 DEF ExistsBijection, Bijection, Injection, IsInjective
<1>4. SetToSeq(Rules) \in [1..Size -> Rules] /\ IsInjective(SetToSeq(Rules))
  BY Zenon, <1>3 DEF SetToSeq, Size
<1>5. NoDuplicates(SetToSeq(Rules))
  BY <1>4 DEF IsInjective, NoDuplicates
<1>. QED  BY <1>4, <1>5, AllElems

LEMMA ShuffledSplit ==
  ASSUME NEW s \in SetToSeqs(Rules)
  PROVE  /\ Split(SubSeq(s, 1, Half), SubSeq(s, Half + 1, Size))
         /\ Len(SubSeq(s, 1, Half)) = Half
         /\ Len(SubSeq(s, Half + 1, Size)) = Size - Half
<1>1. s \in Seq(Rules) /\ Len(s) = Size /\ Elems(s) = Rules /\ NoDuplicates(s) /\ DOMAIN s = 1..Size
  BY ShuffledRules
<1>2. Size \in Nat /\ Half \in Nat /\ Half <= Size
  BY SizeNat
<1>3. PICK a, b : a = SubSeq(s, 1, Half) /\ b = SubSeq(s, Half + 1, Size)
  OBVIOUS
<1>4. /\ a \in Seq(Rules) /\ Len(a) = Half /\ DOMAIN a = 1..Half
      /\ \A i \in 1..Half : a[i] = s[i]
  BY <1>1, <1>2, <1>3
<1>5. /\ b \in Seq(Rules) /\ Len(b) = Size - Half /\ DOMAIN b = 1..(Size - Half)
      /\ \A i \in 1..(Size - Half) : b[i] = s[Half + i]
  BY <1>1, <1>2, <1>3
<1>6. NoDuplicates(a)
  BY <1>1, <1>2, <1>4 DEF NoDuplicates
<1>7. NoDuplicates(b)
  BY SMTT(40), <1>1, <1>2, <1>5 DEF NoDuplicates
<1>8. ASSUME NEW x \in Elems(a), NEW y \in Elems(b) PROVE x # y
  <2>1. PICK i \in 1..Half : x = s[i]
    BY <1>4 DEF Elems
  <2>2. PICK j \in 1..(Size - Half) : y = s[Half + j]
    BY <1>5 DEF Elems
  <2>. QED  BY <1>1, <1>2, <2>1, <2>2 DEF NoDuplicates
<1>9. ASSUME NEW x \in Rules PROVE x \in Elems(a) \/ x \in Elems(b)
  <2>1. PICK i \in 1..Size : x = s[i]
    BY <1>1 DEF Elems
  <2>2. CASE i <= Half
    BY <1>2, <1>4, <2>1, <2>2 DEF Elems
  <2>3. CASE i > Half
    <3>1. i - Half \in 1..(Size - Half) /\ b[i - Half] = s[i]
      BY <1>2, <1>5, <2>3
    <3>. QED  BY <1>5, <2>1, <3>1 DEF Elems
  <2>. QED  BY <1>2, <2>2, <2>3
<1>10. Elems(a) \subseteq Rules /\ Elems(b) \subseteq Rules
  BY <1>4, <1>5 DEF Elems
<1>11. Split(a, b)
  BY <1>4, <1>5, <1>6, <1>7, <1>8, <1>9, <1>10 DEF Split
<1>. QED  BY <1>3, <1>4, <1>5, <1>11

-----------------------------------------------------------------------------
(* The pool, and where the running thread is (sumTime and the futures) *)

Batch(b) == {<<b, i>> : i \in 1..Classifiers}
Upto(b, n) == {<<b, i>> : i \in {k \in 1..Classifiers : k < n}}

(* The tasks enqueued so far *)
Accepted == ToSet(queue) \cup running \cup done

PoolOK ==
  /\ queue \in Seq(Jobs) /\ running \in SUBSET Jobs /\ done \in SUBSET Jobs
  /\ NoDuplicates(queue)
  /\ ToSet(queue) \cap running = {} /\ ToSet(queue) \cap done = {} /\ running \cap done = {}

(* What is enqueued and what is done where the running thread is *)
Stage ==
  /\ next \in Nat \ {0}
  /\ pc \in {"load", "setup", "indices", "update", "load_wait", "update_wait", "classify",
             "classify_wait", "returned", "threw", "joining", "end"}
  /\ pc \in {"setup", "indices"} => Accepted = {}
  /\ pc = "setup" => next = 1
  /\ pc = "load" => Accepted = Upto("load", next)
  /\ pc = "load_wait" => Accepted = Batch("load") /\ Upto("load", next) \subseteq done
  /\ pc = "classify" =>
       Accepted = Batch("load") \cup Upto("classify", next) /\ Batch("load") \subseteq done
  /\ pc = "classify_wait" =>
       /\ Accepted = Batch("load") \cup Batch("classify")
       /\ Batch("load") \cup Upto("classify", next) \subseteq done
  /\ pc \in {"update", "update_wait", "threw"} => Accepted \subseteq Batch("update")
  /\ pc = "update_wait" => next = 1
  /\ pc \in {"returned", "joining", "end"} =>
       Accepted = Batch("load") \cup Batch("classify") /\ Accepted \subseteq done

LEMMA JobsOf ==
  ASSUME NEW b \in {"load", "classify", "update"}, NEW i \in 1..Classifiers
  PROVE  <<b, i>> \in Jobs
BY DEF Jobs

LEMMA AcceptPool ==
  ASSUME PoolOK, NEW t \in Jobs, Pool!Accept(t)
  PROVE  /\ PoolOK' /\ Accepted' = Accepted \cup {t}
         /\ running' = running /\ done' = done
<1>1. /\ t \notin ToSet(queue) \cup running \cup done
      /\ queue' = Append(queue, t) /\ running' = running /\ done' = done
  BY DEF Pool!Accept, Pool!ToSet, ToSet
<1>2. queue \in Seq(Jobs) /\ NoDuplicates(queue)
  BY DEF PoolOK
<1>3. ToSet(queue) = Elems(queue) /\ ToSet(queue') = Elems(queue')
  BY DEF ToSet, Elems
<1>4. queue' \in Seq(Jobs) /\ ToSet(queue') = ToSet(queue) \cup {t} /\ NoDuplicates(queue')
  BY <1>1, <1>2, <1>3, AppendElems
<1>. QED  BY <1>1, <1>4, Zenon DEF PoolOK, Accepted

LEMMA StartPool ==
  ASSUME PoolOK, Pool!Start
  PROVE  /\ PoolOK' /\ Accepted' = Accepted
         /\ Head(queue) \in Jobs \cap Accepted /\ Head(queue) \notin running \cup done
         /\ running' = running \cup {Head(queue)} /\ done' = done
<1>1. /\ queue # <<>> /\ queue' = Tail(queue)
      /\ running' = running \cup {Head(queue)} /\ done' = done
  BY DEF Pool!Start
<1>2. queue \in Seq(Jobs) /\ NoDuplicates(queue)
  BY DEF PoolOK
<1>3. /\ Head(queue) = queue[1] /\ 1 \in DOMAIN queue /\ Head(queue) \in Jobs
      /\ queue' \in Seq(Jobs)
  BY <1>1, <1>2
<1>4. /\ DOMAIN queue = 1..Len(queue) /\ DOMAIN queue' = 1..(Len(queue) - 1) /\ Len(queue) \in Nat \ {0}
      /\ \A i \in 1..(Len(queue) - 1) : queue'[i] = queue[i + 1]
  BY <1>1, <1>2
<1>5. NoDuplicates(queue')
  BY <1>2, <1>4 DEF NoDuplicates
<1>6. ToSet(queue') = ToSet(queue) \ {Head(queue)}
  <2>1. ASSUME NEW y \in ToSet(queue') PROVE y \in ToSet(queue) \ {Head(queue)}
    <3>1. PICK i \in 1..(Len(queue) - 1) : y = queue[i + 1]
      BY <1>4 DEF ToSet
    <3>. QED  BY <1>2, <1>3, <1>4, <3>1 DEF ToSet, NoDuplicates
  <2>2. ASSUME NEW y \in ToSet(queue) \ {Head(queue)} PROVE y \in ToSet(queue')
    <3>1. PICK i \in 1..Len(queue) : y = queue[i] /\ i # 1
      BY <1>3, <1>4 DEF ToSet
    <3>2. i - 1 \in 1..(Len(queue) - 1) /\ queue'[i - 1] = y
      BY <1>4, <3>1
    <3>. QED  BY <1>4, <3>2 DEF ToSet
  <2>. QED  BY <2>1, <2>2
<1>7. Head(queue) \in ToSet(queue)
  BY <1>3 DEF ToSet
<1>. QED  BY <1>1, <1>3, <1>5, <1>6, <1>7, Zenon DEF PoolOK, Accepted

LEMMA FinishPool ==
  ASSUME PoolOK, NEW t, Pool!Finish(t)
  PROVE  /\ PoolOK' /\ Accepted' = Accepted
         /\ t \in running /\ t \in Jobs /\ t \notin done
         /\ running' = running \ {t} /\ done' = done \cup {t}
<1>1. t \in running /\ running' = running \ {t} /\ done' = done \cup {t} /\ queue' = queue
  BY DEF Pool!Finish
<1>2. t \in Jobs /\ t \notin done /\ t \notin ToSet(queue)
  BY <1>1 DEF PoolOK
<1>3. ToSet(queue') = ToSet(queue)
  BY <1>1
<1>. QED  BY <1>1, <1>2, <1>3, Zenon DEF PoolOK, Accepted

LEMMA SamePool ==
  ASSUME PoolOK, UNCHANGED <<queue, running, done>>
  PROVE  PoolOK' /\ Accepted' = Accepted
BY DEF PoolOK, Accepted

-----------------------------------------------------------------------------
(* The steps of the main thread *)

LEMMA UptoAll ==
  ASSUME NEW b
  PROVE  /\ Upto(b, 1) = {}
         /\ \A n \in Nat : n > Classifiers => Upto(b, n) = Batch(b)
         /\ \A n \in 1..Classifiers : Upto(b, n + 1) = Upto(b, n) \cup {<<b, n>>}
<1>. Classifiers \in Nat
  BY SimulationAssumption
<1>1. {k \in 1..Classifiers : k < 1} = {}
  OBVIOUS
<1>2. \A n \in Nat : n > Classifiers => {k \in 1..Classifiers : k < n} = 1..Classifiers
  OBVIOUS
<1>3. ASSUME NEW n \in 1..Classifiers
      PROVE  {k \in 1..Classifiers : k < n + 1} = {k \in 1..Classifiers : k < n} \cup {n}
  OBVIOUS
<1>4. \A n \in 1..Classifiers : Upto(b, n + 1) = Upto(b, n) \cup {<<b, n>>}
  BY ZenonT(40), <1>3 DEF Upto
<1>5. \A n \in Nat : n > Classifiers => Upto(b, n) = Batch(b)
  BY <1>2, Zenon DEF Upto, Batch
<1>. QED  BY <1>1, <1>4, <1>5, Zenon DEF Upto

LEMMA FuturesOf ==
  ASSUME NEW b \in {"load", "classify"}
  PROVE  Len(Futures(b)) = Classifiers /\ \A i \in 1..Classifiers : Futures(b)[i] = <<b, i>>
<1>1. Futures(b) = [i \in 1..Classifiers |-> <<b, i>>]
  BY DEF Futures
<1>. QED  BY <1>1, SimulationAssumption

LEMMA FuturesOfUpdate == Len(Futures("update")) > 1 /\ Futures("update")[1] = <<>>
<1>0. Classifiers \in Nat \ {0}
  BY SimulationAssumption
<1>1. PICK e, t : /\ e = [i \in 1..Classifiers |-> <<>>]
                  /\ t = [i \in 1..Classifiers |-> <<"update", i>>]
  OBVIOUS
<1>2. Futures("update") = e \o t
  BY <1>1 DEF Futures
<1>3. /\ e \in Seq({<<>>}) /\ Len(e) = Classifiers /\ e[1] = <<>>
      /\ t \in Seq({"update"} \X (1..Classifiers)) /\ Len(t) = Classifiers
  BY <1>0, <1>1
<1>. QED  BY <1>0, <1>2, <1>3

LEMMA EnqueueStage ==
  ASSUME PoolOK, Stage, NEW b \in {"load", "classify", "update"}, Enqueue(b)
  PROVE  PoolOK' /\ Stage' /\ running' = running /\ done' = done /\ Accepted \subseteq Accepted'
<1>0. pc = b /\ next \in Nat \ {0}
  BY DEF Enqueue, Stage
<1>1. CASE next <= Classifiers
  <2>1. Pool!Accept(<<b, next>>) /\ next' = next + 1 /\ pc' = pc /\ next \in 1..Classifiers
    BY <1>0, <1>1, SimulationAssumption DEF Enqueue
  <2>2. /\ PoolOK' /\ Accepted' = Accepted \cup {<<b, next>>}
        /\ running' = running /\ done' = done
    BY <2>1, JobsOf, AcceptPool
  <2>3. Upto(b, next') = Upto(b, next) \cup {<<b, next>>} /\ next' \in Nat \ {0}
    BY <1>0, <2>1, UptoAll
  <2>4. <<b, next>> \in Batch(b)
    BY <2>1 DEF Batch
  <2>5. Stage'
    BY <1>0, <2>1, <2>2, <2>3, <2>4 DEF Stage
  <2>. QED  BY <2>2, <2>5
<1>2. CASE ~ (next <= Classifiers)
  <2>1. pc' = Waiting[b] /\ next' = 1 /\ UNCHANGED <<queue, running, done>>
    BY <1>2 DEF Enqueue, poolVars
  <2>2. PoolOK' /\ Accepted' = Accepted
    BY <2>1, SamePool
  <2>3. Upto(b, next) = Batch(b) /\ Upto(b, next') = {}
    BY <1>0, <1>2, <2>1, UptoAll, SimulationAssumption
  <2>4. Stage'
    BY <1>0, <2>1, <2>2, <2>3 DEF Stage, Waiting
  <2>. QED  BY <2>1, <2>2, <2>4
<1>. QED  BY <1>1, <1>2

LEMMA GetFutureStage ==
  ASSUME PoolOK, Stage, NEW b \in {"load", "classify", "update"}, GetFuture(b)
  PROVE  PoolOK' /\ Stage' /\ running' = running /\ done' = done /\ Accepted' = Accepted
<1>0. pc = Waiting[b] /\ next \in Nat \ {0} /\ UNCHANGED <<queue, running, done>>
  BY DEF GetFuture, Stage, poolVars
<1>1. PoolOK' /\ Accepted' = Accepted
  BY <1>0, SamePool
<1>2. <<>> \notin done /\ \A i \in 1..Classifiers : <<b, i>> # <<>>
  BY DEF PoolOK, Jobs
<1>3. CASE b = "update"
  <2>1. next = 1 /\ pc = "update_wait" /\ Len(Futures(b)) > 1 /\ Futures(b)[next] = <<>>
    BY <1>0, <1>3, FuturesOfUpdate DEF Stage, Waiting
  <2>2. pc' = "threw" /\ next' = next
    BY <1>2, <2>1 DEF GetFuture
  <2>3. Stage'
    BY <1>0, <1>1, <2>1, <2>2 DEF Stage
  <2>. QED  BY <1>0, <1>1, <2>3
<1>4. CASE b \in {"load", "classify"}
  <2>1. Len(Futures(b)) = Classifiers /\ \A i \in 1..Classifiers : Futures(b)[i] = <<b, i>>
    BY <1>4, FuturesOf
  <2>2. CASE next > Classifiers
    <3>1. pc' = After[b] /\ next' = 1
      BY <1>0, <2>1, <2>2, SimulationAssumption DEF GetFuture
    <3>2. Upto(b, next) = Batch(b) /\ Upto("classify", next') = {}
      BY <1>0, <2>2, <3>1, UptoAll
    <3>3. Stage'
      BY <1>0, <1>1, <1>4, <3>1, <3>2 DEF Stage, Waiting, After
    <3>. QED  BY <1>0, <1>1, <3>3
  <2>3. CASE ~ (next > Classifiers)
    <3>1. next \in 1..Classifiers /\ Futures(b)[next] = <<b, next>>
      BY <1>0, <2>1, <2>3, SimulationAssumption
    <3>2. <<b, next>> \in done /\ next' = next + 1 /\ pc' = pc
      BY <1>2, <2>1, <2>3, <3>1 DEF GetFuture
    <3>3. Upto(b, next') = Upto(b, next) \cup {<<b, next>>} /\ next' \in Nat \ {0}
      BY <1>0, <3>1, <3>2, UptoAll
    <3>4. Stage'
      BY <1>0, <1>1, <1>4, <3>2, <3>3 DEF Stage, Waiting
    <3>. QED  BY <1>0, <1>1, <3>4
  <2>. QED  BY <2>2, <2>3
<1>. QED  BY <1>3, <1>4

(* A step of a worker *)
LEMMA WorkerStage ==
  ASSUME Stage, pc' = pc, next' = next, Accepted' = Accepted, done \subseteq done'
  PROVE  Stage'
BY DEF Stage

LEMMA SetupStage ==
  ASSUME PoolOK, Stage, Setup \/ DrawIndex \/ SetupReturns \/ Destroy
  PROVE  PoolOK' /\ Stage' /\ Accepted' = Accepted /\ running' = running /\ done' = done
<1>1. UNCHANGED <<queue, running, done>>
  BY DEF Setup, DrawIndex, SetupReturns, Destroy, poolVars, Pool!Close, Pool!Vanish
<1>2. PoolOK' /\ Accepted' = Accepted
  BY <1>1, SamePool
<1>3. CASE Setup
  BY <1>1, <1>2, <1>3 DEF Setup, Stage
<1>4. CASE DrawIndex
  <2>1. next' \in Nat \ {0}
    BY <1>4 DEF DrawIndex, Stage
  <2>. QED  BY <1>1, <1>2, <1>4, <2>1 DEF DrawIndex, Stage
<1>5. CASE SetupReturns
  BY <1>1, <1>2, <1>5 DEF SetupReturns, Stage
<1>6. CASE Destroy
  BY <1>1, <1>2, <1>6 DEF Destroy, Stage
<1>. QED  BY <1>1, <1>2, <1>3, <1>4, <1>5, <1>6

-----------------------------------------------------------------------------
(* The answers of a run that only classifies *)

Answers == [k \in DOMAIN Trace |-> Best(Matching(Rules, Trace[k]))]

(* The first classifier's task, at packet l.at of trial l.trial, and the   *)
(* results: of this trial when it has begun, of the one before otherwise   *)
Asked(l) ==
  /\ l \in LocalType /\ l.trial # 0 /\ l.at \in 1..(Len(Trace) + 1)
  /\ l.at = 1 => results = IF l.trial = 1 THEN <<>> ELSE Answers
  /\ l.at # 1 => l.trial <= Trials /\ results = SubSeq(Answers, 1, l.at - 1)

ResultsOK ==
  /\ DOMAIN job = Jobs /\ DOMAIN ds = 1..Classifiers
  /\ \A i \in 1..Classifiers : <<"load", i>> \in done => Elems(ds[i]) = Rules
  /\ <<"classify", 1>> \in running => Asked(job[<<"classify", 1>>])
  /\ <<"classify", 1>> \in done => results = Answers
  /\ Accepted \cap Batch("update") = {} /\ <<"classify", 1>> \notin running \cup done
       => results = <<>>

LEMMA Apart ==
  ASSUME Stage, NEW i \in 1..Classifiers, NEW k \in 1..Classifiers
  PROVE  /\ <<"update", i>> \in Accepted =>
              <<"load", k>> \notin Accepted /\ <<"classify", k>> \notin Accepted
         /\ <<"classify", i>> \in Accepted => <<"load", k>> \in done
<1>1. ASSUME NEW b, NEW c, NEW n PROVE <<b, i>> \in Batch(c) \cup Upto(c, n) => b = c
  BY DEF Batch, Upto
<1>2. ASSUME NEW b, NEW c, NEW n PROVE <<b, k>> \in Batch(c) \cup Upto(c, n) => b = c
  BY DEF Batch, Upto
<1>3. <<"load", k>> \in Batch("load")
  BY DEF Batch
<1>4. /\ <<"update", i>> \notin Batch("load") \cup Upto("load", next)
      /\ <<"update", i>> \notin Batch("classify") \cup Upto("classify", next)
      /\ <<"classify", i>> \notin Batch("load") \cup Upto("load", next)
      /\ <<"classify", i>> \notin Batch("update")
      /\ <<"load", k>> \notin Batch("update")
      /\ <<"classify", k>> \notin Batch("update")
  BY <1>1, <1>2
<1>. QED  BY <1>3, <1>4 DEF Stage

LEMMA AnswersSeq ==
  /\ DOMAIN Answers = 1..Len(Trace) /\ Len(Trace) \in Nat
  /\ Answers \in Seq({Answers[k] : k \in DOMAIN Trace}) /\ Len(Answers) = Len(Trace)
BY SimulationAssumption DEF Answers

LEMMA NextAnswer ==
  ASSUME NEW n \in 1..Len(Trace)
  PROVE  Append(IF n = 1 THEN <<>> ELSE SubSeq(Answers, 1, n - 1), Answers[n])
           = SubSeq(Answers, 1, n)
<1>. DEFINE S == {Answers[k] : k \in DOMAIN Trace}
<1>1. Answers \in Seq(S) /\ Len(Answers) = Len(Trace) /\ Len(Trace) \in Nat
  BY AnswersSeq
<1>2. PICK A : A = Answers
  OBVIOUS
<1>3. A \in Seq(S) /\ n \in 1..Len(A) /\ Len(A) \in Nat
  BY <1>1, <1>2
<1>. HIDE DEF S
<1>4. SubSeq(A, 1, n) = Append(SubSeq(A, 1, n - 1), A[n])
  BY <1>3
<1>5. n = 1 => SubSeq(A, 1, n - 1) = <<>>
  BY <1>3
<1>. QED  BY <1>2, <1>4, <1>5

LEMMA AllAnswers == SubSeq(Answers, 1, Len(Trace)) = Answers
<1>1. PICK A, S : A = Answers /\ S = {Answers[k] : k \in DOMAIN Trace}
  OBVIOUS
<1>2. A \in Seq(S) /\ Len(A) = Len(Trace)
  BY <1>1, AnswersSeq
<1>3. SubSeq(A, 1, Len(A)) = A
  BY <1>2
<1>. QED  BY <1>1, <1>2, <1>3

LEMMA FirstJob == <<"classify", 1>> \in Jobs /\ 1 \in 1..Classifiers
BY SimulationAssumption DEF Jobs

LEMMA MainResults ==
  ASSUME ResultsOK, UNCHANGED jobVars, running' = running, done' = done, Accepted \subseteq Accepted'
  PROVE  ResultsOK'
BY Zenon DEF ResultsOK, Asked, jobVars

LEMMA StartResults ==
  ASSUME PoolOK, Stage, ResultsOK, Start
  PROVE  ResultsOK'
<1>. DEFINE j == Head(queue)
            c == <<"classify", 1>>
<1>1. /\ j \in Jobs \cap Accepted /\ j \notin running \cup done
      /\ running' = running \cup {j} /\ done' = done /\ Accepted' = Accepted
  BY StartPool DEF Start
<1>2. PICK l : l = (IF j[1] = "update" THEN Local(1, 1, rules_in_use, available_pool)
                    ELSE Local(1, 1, <<>>, <<>>))
  OBVIOUS
<1>3. /\ job' = [job EXCEPT ![j] = l] /\ results' = results
      /\ j[1] = "update" => ds' = [ds EXCEPT ![j[2]] = rules_in_use]
      /\ j[1] # "update" => ds' = ds
  BY <1>2 DEF Start
<1>4. j = <<j[1], j[2]>> /\ j[1] \in {"load", "classify", "update"} /\ j[2] \in 1..Classifiers
  BY <1>1 DEF Jobs
<1>5. c \in Jobs /\ 1 \in 1..Classifiers
  BY FirstJob
<1>. HIDE DEF j
<1>6. DOMAIN job' = Jobs /\ DOMAIN ds' = 1..Classifiers
  BY <1>3, <1>4 DEF ResultsOK
<1>7. ASSUME NEW i \in 1..Classifiers, <<"load", i>> \in done' PROVE Elems(ds'[i]) = Rules
  <2>1. <<"load", i>> \in done /\ <<"load", i>> \in Accepted
    BY <1>1, <1>7 DEF Accepted
  <2>2. j[1] # "update"
    BY <1>1, <1>4, <2>1, Apart
  <2>. QED  BY <1>3, <2>1, <2>2 DEF ResultsOK
<1>8. ASSUME c \in running' PROVE Asked(job[c])'
  <2>1. CASE c = j
    <3>1. l = Local(1, 1, <<>>, <<>>)
      BY <1>2, <2>1
    <3>2. l \in LocalType /\ l.trial = 1 /\ l.at = 1
      BY <3>1 DEF LocalType, Local
    <3>3. Accepted \cap Batch("update") = {}
      <4>1. ASSUME NEW i \in 1..Classifiers PROVE <<"update", i>> \notin Accepted
        BY <1>1, <1>5, <2>1, Apart
      <4>. QED  BY <4>1 DEF Batch
    <3>4. results = <<>>
      BY <1>1, <2>1, <3>3 DEF ResultsOK
    <3>5. job'[c] = l
      BY <1>3, <1>5, <2>1 DEF ResultsOK
    <3>6. 1 \in 1..(Len(Trace) + 1)
      BY SimulationAssumption
    <3>. QED  BY <1>3, <3>2, <3>4, <3>5, <3>6 DEF Asked
  <2>2. CASE c # j
    <3>1. job'[c] = job[c] /\ c \in running
      BY <1>1, <1>3, <1>5, <1>8, <2>2 DEF ResultsOK
    <3>. QED  BY <1>3, <3>1 DEF ResultsOK, Asked
  <2>. QED  BY <2>1, <2>2
<1>9. c \in done' => results' = Answers
  BY <1>1, <1>3 DEF ResultsOK
<1>10. Accepted' \cap Batch("update") = {} /\ c \notin running' \cup done' => results' = <<>>
  BY <1>1, <1>3 DEF ResultsOK
<1>. QED  BY <1>6, <1>7, <1>8, <1>9, <1>10 DEF ResultsOK, Batch

LEMMA LoadResults ==
  ASSUME PoolOK, Stage, ResultsOK, NEW i \in 1..Classifiers, Load(i)
  PROVE  ResultsOK'
<1>. DEFINE c == <<"classify", 1>>
<1>1. /\ running' = running \ {<<"load", i>>} /\ done' = done \cup {<<"load", i>>}
      /\ Accepted' = Accepted
  BY FinishPool DEF Load
<1>2. ds' = [ds EXCEPT ![i] = SetToSeq(Rules)] /\ job' = job /\ results' = results
  BY DEF Load
<1>3. c # <<"load", i>>
  OBVIOUS
<1>. HIDE DEF c
<1>4. DOMAIN job' = Jobs /\ DOMAIN ds' = 1..Classifiers
  BY <1>2 DEF ResultsOK
<1>5. ASSUME NEW k \in 1..Classifiers, <<"load", k>> \in done' PROVE Elems(ds'[k]) = Rules
  <2>1. CASE k = i
    BY <1>2, <2>1, LoadedRules DEF ResultsOK
  <2>2. CASE k # i
    <3>1. <<"load", k>> \in done
      BY <1>1, <1>5, <2>2
    <3>. QED  BY <1>2, <2>2, <3>1 DEF ResultsOK
  <2>. QED  BY <2>1, <2>2
<1>6. (c \in running' <=> c \in running) /\ (c \in done' <=> c \in done)
  BY <1>1, <1>3
<1>. QED  BY <1>1, <1>2, <1>4, <1>5, <1>6, Zenon DEF ResultsOK, Asked, c, Batch

LEMMA FinishResults ==
  ASSUME PoolOK, Stage, ResultsOK, NEW j \in Jobs, FinishTask(j)
  PROVE  ResultsOK'
<1>. DEFINE c == <<"classify", 1>>
<1>1. /\ j \in running /\ running' = running \ {j} /\ done' = done \cup {j} /\ Accepted' = Accepted
      /\ j[1] # "load" /\ job[j].trial > Trials
      /\ job' = job /\ ds' = ds /\ results' = results
  BY FinishPool DEF FinishTask, jobVars
<1>2. \A i \in 1..Classifiers : <<"load", i>> # j
  BY <1>1
<1>3. ASSUME c = j PROVE results = Answers
  <2>1. Asked(job[c]) /\ job[c].trial > Trials
    BY <1>1, <1>3 DEF ResultsOK
  <2>2. job[c].trial \in Nat /\ job[c].at \in Nat
    BY <2>1 DEF Asked, LocalType
  <2>3. Trials \in Nat /\ Trials >= 1
    BY SimulationAssumption
  <2>. QED  BY <2>1, <2>2, <2>3 DEF Asked
<1>. HIDE DEF c
<1>4. \A i \in 1..Classifiers : <<"load", i>> \in done' => Elems(ds'[i]) = Rules
  BY <1>1, <1>2 DEF ResultsOK
<1>5. /\ c \in running' => c \in running
      /\ c \in done' => c \in done \/ c = j
      /\ c \notin running' \cup done' => c \notin running \cup done
  BY <1>1
<1>6. c \in done' => results' = Answers
  BY <1>1, <1>3, <1>5 DEF ResultsOK, c
<1>. QED  BY <1>1, <1>4, <1>5, <1>6, Zenon DEF ResultsOK, Asked, c, Batch

LEMMA RequestResults ==
  ASSUME PoolOK, Stage, ResultsOK, NEW i \in 1..Classifiers, Request(i)
  PROVE  ResultsOK'
<1>. DEFINE u == <<"update", i>>
            c == <<"classify", 1>>
<1>1. u \in running /\ u \in Jobs /\ UNCHANGED <<running, done, queue>>
  BY JobsOf DEF Request, poolVars
<1>2. u \in Accepted /\ u \in Batch("update") /\ Accepted' = Accepted
  BY <1>1 DEF Accepted, Batch
<1>3. \A k \in 1..Classifiers : <<"load", k>> \notin Accepted /\ <<"classify", k>> \notin Accepted
  BY Zenon, <1>2, Apart
<1>4. (\A k \in 1..Classifiers : <<"load", k>> \notin done') /\ c \notin running' \cup done'
  BY <1>1, <1>3, FirstJob DEF Accepted
<1>5. DOMAIN job' = Jobs /\ DOMAIN ds' = 1..Classifiers
  BY DEF Request, ResultsOK
<1>6. ~ (Accepted' \cap Batch("update") = {})
  BY <1>2
<1>. HIDE DEF c
<1>. QED  BY <1>4, <1>5, <1>6, Zenon DEF ResultsOK, c, Batch

LEMMA ClassifyResults ==
  ASSUME PoolOK, Stage, ResultsOK, NEW i \in 1..Classifiers, ClassifyOne(i)
  PROVE  ResultsOK'
<1>. DEFINE j == <<"classify", i>>
            c == <<"classify", 1>>
<1>1. /\ j \in running /\ j \in Jobs /\ UNCHANGED <<running, done, queue, ds>>
      /\ job[j].trial <= Trials
  BY JobsOf DEF ClassifyOne, poolVars
<1>2. Accepted' = Accepted /\ j \in Accepted
  BY <1>1 DEF Accepted
<1>3. DOMAIN job' = Jobs
  BY DEF ClassifyOne, ResultsOK
<1>4. CASE i # 1
  <2>1. job'[c] = job[c] /\ results' = results
    <3>1. c # j /\ c \in Jobs
      BY <1>4, FirstJob
    <3>. QED  BY <1>4, <3>1 DEF ClassifyOne, ResultsOK
  <2>. HIDE DEF c
  <2>. QED  BY <1>1, <1>2, <1>3, <2>1, Zenon DEF ResultsOK, Asked, c, Batch
<1>5. CASE i = 1
  <2>1. PICK l : l = job[c]
    OBVIOUS
  <2>2. c \in running /\ c \notin done /\ Asked(l) /\ j = c
    BY <1>1, <1>5, <2>1 DEF ResultsOK, PoolOK
  <2>3. l \in LocalType /\ l.trial \in Nat \ {0} /\ l.at \in 1..(Len(Trace) + 1)
    BY <2>2 DEF Asked, LocalType
  <2>4. Elems(ds[1]) = Rules
    <3>1. <<"load", 1>> \in done
      BY <1>2, <1>5, FirstJob, Apart
    <3>. QED  BY <3>1, FirstJob DEF ResultsOK
  <2>5. Len(Trace) \in Nat /\ l.trial <= Trials
    BY <1>1, <2>1, <2>2, SimulationAssumption
  <2>6. Asked(job[c])'
    <3>1. CASE l.at <= Len(Trace)
      <4>1. PICK m : m = [l EXCEPT !.at = l.at + 1]
        OBVIOUS
      <4>2. job'[c] = m
        BY <1>5, <2>1, <2>2, <3>1, <4>1, FirstJob DEF ClassifyOne, ResultsOK
      <4>3. m \in LocalType /\ m.trial = l.trial /\ m.at = l.at + 1
        BY SMTT(40), <2>3, <4>1 DEF LocalType
      <4>4. l.at \in 1..Len(Trace)
        BY <2>3, <2>5, <3>1
      <4>5. Answer(ds[1], Trace[l.at]) = Answers[l.at]
        BY <2>4, <2>5, <4>4, SimulationAssumption DEF Answer, Answers
      <4>6. results' = Append(IF l.at = 1 THEN <<>> ELSE results, Answers[l.at])
        BY <1>5, <2>1, <3>1, <4>5 DEF ClassifyOne
      <4>7. l.at # 1 => results = SubSeq(Answers, 1, l.at - 1)
        BY <2>2 DEF Asked
      <4>8. results' = SubSeq(Answers, 1, l.at)
        BY <4>4, <4>6, <4>7, NextAnswer
      <4>9. m.at \in 1..(Len(Trace) + 1) /\ m.at # 1 /\ m.at - 1 = l.at
        BY <2>5, <4>3, <4>4
      <4>. QED  BY <2>3, <2>5, <4>2, <4>3, <4>8, <4>9 DEF Asked
    <3>2. CASE ~ (l.at <= Len(Trace))
      <4>1. job'[c] = Local(l.trial + 1, 1, <<>>, <<>>) /\ results' = results
        BY <1>5, <2>1, <2>2, <3>2, FirstJob DEF ClassifyOne, ResultsOK
      <4>2. PICK m : m = Local(l.trial + 1, 1, <<>>, <<>>)
        OBVIOUS
      <4>3. m \in LocalType /\ m.trial = l.trial + 1 /\ m.at = 1
        BY <2>3, <4>2 DEF LocalType, Local
      <4>4. results = Answers
        <5>1. CASE l.at = 1
          <6>1. Len(Trace) = 0
            BY <2>5, <3>2, <5>1
          <6>2. Answers = <<>>
            BY <6>1, AnswersSeq
          <6>. QED  BY <2>2, <5>1, <6>2 DEF Asked
        <5>2. CASE l.at # 1
          <6>1. l.at - 1 = Len(Trace)
            BY <2>3, <2>5, <3>2
          <6>. QED  BY <2>2, <5>2, <6>1, AllAnswers DEF Asked
        <5>. QED  BY <5>1, <5>2
      <4>5. m.trial # 0 /\ m.trial # 1 /\ 1 \in 1..(Len(Trace) + 1)
        BY <2>3, <2>5, <4>3
      <4>. QED  BY <4>1, <4>2, <4>3, <4>4, <4>5 DEF Asked
    <3>. QED  BY <3>1, <3>2
  <2>. HIDE DEF c
  <2>. QED  BY <1>1, <1>2, <1>3, <2>2, <2>6, Zenon DEF ResultsOK, c, Batch
<1>. QED  BY <1>4, <1>5

ResultsInv == PoolOK /\ Stage /\ ResultsOK

LEMMA ResultsInit == Init => ResultsInv
<1>. SUFFICES ASSUME Init PROVE ResultsInv
  OBVIOUS
<1>1. queue = <<>> /\ running = {} /\ done = {} /\ results = <<>>
  BY DEF Init, Pool!Init
<1>2. Accepted = {}
  BY <1>1 DEF Accepted, ToSet
<1>3. PoolOK
  BY <1>1 DEF PoolOK, ToSet, NoDuplicates
<1>4. pc \in {"load", "setup"} /\ next = 1
  BY DEF Init
<1>5. Upto("load", 1) = {}
  BY UptoAll
<1>6. Stage
  BY <1>2, <1>4, <1>5 DEF Stage
<1>7. DOMAIN job = Jobs /\ DOMAIN ds = 1..Classifiers
  BY DEF Init
<1>8. ResultsOK
  BY <1>1, <1>7 DEF ResultsOK
<1>. QED  BY <1>3, <1>6, <1>8 DEF ResultsInv

LEMMA WorkerOK ==
  ASSUME PoolOK, Stage,
         \/ Start
         \/ \E i \in 1..Classifiers : Load(i) \/ ClassifyOne(i) \/ Request(i)
         \/ \E j \in Jobs : FinishTask(j)
  PROVE  PoolOK' /\ Stage'
<1>1. UNCHANGED mainVars
  BY Zenon DEF Start, Load, ClassifyOne, Request, FinishTask
<1>2. PoolOK' /\ Accepted' = Accepted /\ done \subseteq done'
  <2>1. CASE Start
    BY <2>1, StartPool DEF Start
  <2>2. ASSUME NEW i \in 1..Classifiers, Load(i) 
        PROVE  PoolOK' /\ Accepted' = Accepted /\ done \subseteq done'
    <3>1. Pool!Finish(<<"load", i>>)
      BY <2>2 DEF Load
    <3>2. Accepted' = Accepted /\ PoolOK' /\ done' = done \cup {<<"load", i>>}
      BY <3>1, FinishPool, Zenon
    <3>. QED  BY <3>2
  <2>3. ASSUME NEW i \in 1..Classifiers, ClassifyOne(i) \/ Request(i) 
        PROVE  PoolOK' /\ Accepted' = Accepted /\ done \subseteq done'
    BY Zenon, <2>3, SamePool DEF ClassifyOne, Request, poolVars
  <2>4. ASSUME NEW j \in Jobs, FinishTask(j) 
        PROVE  PoolOK' /\ Accepted' = Accepted /\ done \subseteq done'
    BY <2>4, FinishPool DEF FinishTask
  <2>. QED  BY <2>1, <2>2, <2>3, <2>4
<1>3. pc' = pc /\ next' = next
  BY <1>1 DEF mainVars
<1>. QED  BY <1>2, <1>3, WorkerStage, Zenon

LEMMA MainOK ==
  ASSUME PoolOK, Stage, Main
  PROVE  /\ PoolOK' /\ Stage'
         /\ running' = running /\ done' = done /\ Accepted \subseteq Accepted'
<1>1. ASSUME NEW b \in DOMAIN After, Enqueue(b) \/ GetFuture(b)
      PROVE  /\ PoolOK' /\ Stage'
             /\ running' = running /\ done' = done /\ Accepted \subseteq Accepted'
  <2>1. b \in {"load", "classify", "update"}
    BY <1>1 DEF After
  <2>. QED  BY <1>1, <2>1, EnqueueStage, GetFutureStage
<1>. QED  BY <1>1, SetupStage DEF Main

LEMMA ResultsNext == ResultsInv /\ [Next]_vars => ResultsInv'
<1>. SUFFICES ASSUME ResultsInv, [Next]_vars PROVE ResultsInv'
  OBVIOUS
<1>. PoolOK /\ Stage /\ ResultsOK
  BY DEF ResultsInv
<1>1. CASE Main
  <2>1. UNCHANGED jobVars
    BY <1>1 DEF Main, Setup, DrawIndex, SetupReturns, Destroy, Enqueue, GetFuture
  <2>. QED  BY <1>1, <2>1, MainOK, MainResults DEF ResultsInv
<1>2. CASE Start
  BY <1>2, WorkerOK, StartResults DEF ResultsInv
<1>3. ASSUME NEW i \in 1..Classifiers, Load(i) \/ ClassifyOne(i) \/ Request(i) PROVE ResultsInv'
  BY <1>3, WorkerOK, LoadResults, ClassifyResults, RequestResults DEF ResultsInv
<1>4. ASSUME NEW j \in Jobs, FinishTask(j) PROVE ResultsInv'
  BY <1>4, WorkerOK, FinishResults DEF ResultsInv
<1>5. CASE UNCHANGED vars
  <2>1. UNCHANGED <<mainVars, poolVars, jobVars>>
    BY <1>5 DEF vars
  <2>2. UNCHANGED <<queue, running, done>>
    BY <2>1 DEF poolVars
  <2>3. PoolOK' /\ Accepted' = Accepted /\ done' = done /\ running' = running
    BY <2>2, SamePool
  <2>4. Stage'
    BY <2>1, <2>3, WorkerStage DEF mainVars
  <2>. QED  BY <2>1, <2>3, <2>4, MainResults DEF ResultsInv
<1>. QED  BY <1>1, <1>2, <1>3, <1>4, <1>5 DEF Next

LEMMA InvResultsComplete == ResultsInv => ResultsComplete
<1>. SUFFICES ASSUME ResultsInv, pc = "returned"
              PROVE  queue = <<>> /\ running = {} /\ results = Answers
  BY DEF ResultsComplete, Answers
<1>. PoolOK /\ Stage /\ ResultsOK
  BY DEF ResultsInv
<1>1. Accepted = Batch("load") \cup Batch("classify") /\ Accepted \subseteq done
  BY DEF Stage
<1>2. running = {} /\ ToSet(queue) = {}
  BY <1>1 DEF PoolOK, Accepted
<1>3. queue = <<>>
  BY <1>2 DEF PoolOK, ToSet
<1>4. <<"classify", 1>> \in done
  BY <1>1, FirstJob DEF Batch
<1>. QED  BY <1>2, <1>3, <1>4 DEF ResultsOK

(* When a run that only classifies returns, each packet of the trace was   *)
(* answered once, from all rules, and no task is left to write results.    *)
THEOREM ResultsCompleteAlways == Spec => []ResultsComplete
<1>1. Spec => []ResultsInv
  BY ResultsInit, ResultsNext, PTL DEF Spec
<1>. QED  BY <1>1, InvResultsComplete, PTL

-----------------------------------------------------------------------------
(* The indices that SetupComputation records *)

Kinds(q) == [k \in DOMAIN q |-> q[k].type]

(* The containers of l, before request n of the requests T *)
Containers(T, n, l) ==
  /\ l \in LocalType
  /\ Split(l.in_use, l.available)
  /\ Len(l.in_use) = InUse(T, n) /\ Len(l.available) = Size - InUse(T, n)

(* The recorded index is one of the container that request n takes from. *)
IndexOK(q, n) ==
  q[n].type # "ClassifyPacket" =>
    q[n].index \in 0..((IF q[n].type = "Insertion" THEN Size - InUse(Kinds(q), n)
                                                   ELSE InUse(Kinds(q), n)) - 1)

(* The requests q, those before n with their index *)
Drawn(q, n) ==
  /\ q \in Seq([type : RequestType, index : Int])
  /\ Proper(Kinds(q))
  /\ \A k \in DOMAIN q : k < n => IndexOK(q, k)

Started == Local(0, 0, rules_in_use, available_pool)

(* The task j is at a request, with the rules that those before it leave. *)
Replayed(j) ==
  /\ job[j].at \in 1..(Len(sequence) + 1)
  /\ Containers(Kinds(sequence), job[j].at, job[j])
  /\ ds[j[2]] = job[j].in_use

(* What SetupComputation has drawn so far, and the tasks that replay it *)
UpdateOK ==
  /\ pc = "indices" =>
       /\ next \in 1..(Len(sequence) + 1) /\ size = Half
       /\ Drawn(sequence, next)
       /\ Containers(Kinds(sequence), 1, Started)
       /\ Containers(Kinds(sequence), next, temp)
  /\ pc \in {"update", "update_wait", "threw"} =>
       /\ Drawn(sequence, Len(sequence) + 1)
       /\ Containers(Kinds(sequence), 1, Started)
  /\ \A j \in running \cap Batch("update") : Replayed(j)

LEMMA KindsOf ==
  ASSUME NEW q \in Seq([type : RequestType, index : Int])
  PROVE  /\ Kinds(q) \in [1..Len(q) -> RequestType] /\ Kinds(q) \in Seq(RequestType)
         /\ Len(Kinds(q)) = Len(q) /\ Len(q) \in Nat
         /\ \A k \in 1..Len(q) : Kinds(q)[k] = q[k].type /\ q[k].type \in RequestType
<1>0. /\ DOMAIN q = 1..Len(q) /\ Len(q) \in Nat
      /\ \A k \in 1..Len(q) : q[k] \in [type : RequestType, index : Int]
  BY SeqDomain, Zenon
<1>1. Kinds(q) \in [1..Len(q) -> RequestType]
  BY <1>0 DEF Kinds
<1>2. Kinds(q) \in Seq(RequestType) /\ Len(Kinds(q)) = Len(q)
  BY <1>0, <1>1
<1>. QED  BY <1>0, <1>1, <1>2 DEF Kinds

(* A request whose index is in range takes the containers to the next one. *)
LEMMA NextContainers ==
  ASSUME NEW N \in Nat, NEW T \in [1..N -> RequestType], NEW n \in 1..N,
         NEW l, Containers(T, n, l), NEW i,
         T[n] # "ClassifyPacket" => i \in 0..(Len(Source(T[n], l.in_use, l.available)) - 1)
  PROVE  /\ Containers(T, n + 1, Exchanged(l, T[n], i))
         /\ Exchanged(l, T[n], i).trial = l.trial /\ Exchanged(l, T[n], i).at = l.at
<1>1. PICK type, m : type = T[n] /\ m = Exchanged(l, type, i)
  OBVIOUS
<1>2. /\ l \in LocalType /\ Split(l.in_use, l.available)
      /\ Len(l.in_use) = InUse(T, n) /\ Len(l.available) = Size - InUse(T, n)
  BY DEF Containers
<1>3. /\ m \in LocalType /\ m.trial = l.trial /\ m.at = l.at
      /\ Split(m.in_use, m.available)
      /\ Len(m.in_use) = Len(l.in_use) + Change(type)
      /\ Len(m.available) = Len(l.available) - Change(type)
  <2>1. type \in RequestType
    BY <1>1
  <2>2. type # "ClassifyPacket" => i \in 0..(Len(Source(type, l.in_use, l.available)) - 1)
    BY <1>1
  <2>. QED  BY <1>1, <1>2, <2>1, <2>2, ExchangedSplit
<1>4. InUse(T, n + 1) = InUse(T, n) + Change(type)
  BY <1>1, InUseNext
<1>5. InUse(T, n) \in Int /\ Size \in Nat /\ Change(type) \in Int
  <2>1. type \in {"ClassifyPacket", "Insertion", "Deletion"}
    BY <1>1 DEF RequestType
  <2>2. Change(type) \in Int
    BY <2>1 DEF Change
  <2>. QED  BY <2>2, InUseInt, SizeNat
<1>6. Containers(T, n + 1, m)
  BY <1>2, <1>3, <1>4, <1>5 DEF Containers
<1>. QED  BY <1>1, <1>3, <1>6

(* The containers of request n have the lengths IndexOK speaks of. *)
LEMMA SourceLength ==
  ASSUME NEW T, NEW n, NEW l, Containers(T, n, l), NEW type \in {"Insertion", "Deletion"}
  PROVE  Len(Source(type, l.in_use, l.available)) =
           IF type = "Insertion" THEN Size - InUse(T, n) ELSE InUse(T, n)
BY DEF Containers, Source

-----------------------------------------------------------------------------
(* The computation of the trace *)

LEMMA HalfFree ==
  ASSUME Balanced, NEW type
  PROVE  ~ Blocked(type, Half)
BY SizeNat DEF Balanced, Blocked, Size

(* A trace that was shuffled and adjusted, no index drawn *)
Fresh(T) == [i \in DOMAIN T |-> [type |-> T[i], index |-> -1]]

LEMMA FreshDrawn ==
  ASSUME NEW T, Proper(T)
  PROVE  Drawn(Fresh(T), 1) /\ Kinds(Fresh(T)) = T
<1>1. T \in Seq(RequestType)
  BY DEF Proper
<1>2. PICK q : q = Fresh(T)
  OBVIOUS
<1>3. q \in Seq([type : RequestType, index : Int]) /\ DOMAIN q = DOMAIN T
      /\ \A k \in DOMAIN T : q[k].type = T[k]
  <2>1. DOMAIN T = 1..Len(T) /\ Len(T) \in Nat /\ \A k \in 1..Len(T) : T[k] \in RequestType
    BY <1>1
  <2>2. /\ DOMAIN q = 1..Len(T) /\ q = [k \in 1..Len(T) |-> q[k]]
        /\ \A k \in 1..Len(T) : q[k] = [type |-> T[k], index |-> -1]
    BY <1>2, <2>1 DEF Fresh
  <2>3. \A k \in 1..Len(T) : q[k] \in [type : RequestType, index : Int] /\ q[k].type = T[k]
    BY <2>1, <2>2
  <2>4. q \in [1..Len(T) -> [type : RequestType, index : Int]]
    BY <2>2, <2>3
  <2>. QED  BY <2>1, <2>2, <2>3, <2>4
<1>4. T = [k \in DOMAIN T |-> T[k]]
  BY <1>1
<1>5. Kinds(q) = T
  BY <1>3, <1>4 DEF Kinds
<1>6. \A k \in DOMAIN q : ~ (k < 1)
  BY <1>3
<1>. QED  BY <1>2, <1>3, <1>5, <1>6 DEF Drawn

LEMMA NoneRunning ==
  ASSUME Stage, pc \in {"setup", "indices"}
  PROVE  running \cap Batch("update") = {}
BY DEF Stage, Accepted

LEMMA SetupUpdate ==
  ASSUME Balanced, Stage, Setup
  PROVE  UpdateOK'
<1>1. PICK types \in Shuffles, s \in SetToSeqs(Rules) :
        /\ sequence' = [i \in DOMAIN types |->
                          [type |-> Adjusted(types, Half).types[i], index |-> -1]]
        /\ size' = Adjusted(types, Half).size
        /\ rules_in_use' = SubSeq(s, 1, Half)
        /\ available_pool' = SubSeq(s, Half + 1, Size)
  BY DEF Setup, Size, Half
<1>2. /\ pc' = "indices" /\ next' = next /\ running' = running /\ next = 1
      /\ temp' = Local(0, 0, rules_in_use', available_pool')
  BY DEF Setup, poolVars, Stage
<1>3. PICK T : T = Adjusted(types, Half).types
  OBVIOUS
<1>4. Proper(T) /\ size' = Half /\ DOMAIN T = DOMAIN types
  BY <1>1, <1>3, AdjustedProper
<1>5. sequence' = Fresh(T)
  BY <1>1, <1>3, <1>4 DEF Fresh
<1>6. Drawn(sequence', 1) /\ Kinds(sequence') = T /\ Len(sequence') \in Nat
  BY <1>4, <1>5, FreshDrawn, KindsOf DEF Drawn
<1>7. PICK a, b : a = SubSeq(s, 1, Half) /\ b = SubSeq(s, Half + 1, Size)
  OBVIOUS
<1>8. Split(a, b) /\ Len(a) = Half /\ Len(b) = Size - Half
  BY <1>7, ShuffledSplit
<1>9. InUse(T, 1) = Half
  BY <1>4, InUseFirst DEF Proper
<1>10. PICK l : l = Local(0, 0, a, b)
  OBVIOUS
<1>11. l \in LocalType /\ l.in_use = a /\ l.available = b
  BY <1>8, <1>10 DEF Split, LocalType, Local
<1>12. Containers(T, 1, l)
  BY <1>8, <1>9, <1>11 DEF Containers
<1>13. Started' = l /\ temp' = l
  BY <1>1, <1>2, <1>7, <1>10 DEF Started
<1>14. (running \cap Batch("update"))' = {}
  BY <1>2, NoneRunning DEF Setup, Batch
<1>15. 1 \in 1..(Len(sequence') + 1)
  BY <1>6
<1>. QED  BY <1>2, <1>4, <1>6, <1>12, <1>13, <1>14, <1>15 DEF UpdateOK

WithIndex(q, n, i) == [q EXCEPT ![n].index = i]

LEMMA NextDrawn ==
  ASSUME NEW q, NEW n, Drawn(q, n), n \in 1..Len(q), NEW i \in Int,
         q[n].type # "ClassifyPacket" =>
           i \in 0..((IF q[n].type = "Insertion" THEN Size - InUse(Kinds(q), n)
                                                ELSE InUse(Kinds(q), n)) - 1)
  PROVE  /\ Drawn(WithIndex(q, n, i), n + 1)
         /\ Kinds(WithIndex(q, n, i)) = Kinds(q) /\ Len(WithIndex(q, n, i)) = Len(q)
<1>1. /\ q \in Seq([type : RequestType, index : Int]) /\ Proper(Kinds(q))
      /\ \A k \in DOMAIN q : k < n => IndexOK(q, k)
  BY DEF Drawn
<1>2. PICK u : u = WithIndex(q, n, i)
  OBVIOUS
<1>3. /\ u \in Seq([type : RequestType, index : Int]) /\ DOMAIN u = DOMAIN q /\ Len(u) = Len(q)
      /\ u[n].index = i
      /\ \A k \in DOMAIN q : u[k].type = q[k].type
      /\ \A k \in DOMAIN q : k # n => u[k] = q[k]
      /\ DOMAIN q = 1..Len(q)
  <2>1. /\ DOMAIN q = 1..Len(q) /\ Len(q) \in Nat
        /\ \A k \in 1..Len(q) : q[k] \in [type : RequestType, index : Int]
    BY <1>1, SeqDomain, Zenon
  <2>2. PICK e : e = [q[n] EXCEPT !.index = i]
    OBVIOUS
  <2>3. e \in [type : RequestType, index : Int] /\ e.index = i /\ e.type = q[n].type
    BY <2>1, <2>2
  <2>4. u = [q EXCEPT ![n] = e]
    BY <1>2, <2>2 DEF WithIndex
  <2>5. u \in [1..Len(q) -> [type : RequestType, index : Int]]
    BY <2>1, <2>3, <2>4, <1>1
  <2>6. u[n] = e /\ \A k \in 1..Len(q) : k # n => u[k] = q[k]
    BY <2>1, <2>4
  <2>7. u \in Seq([type : RequestType, index : Int]) /\ DOMAIN u = 1..Len(q) /\ Len(u) = Len(q)
    BY <2>1, <2>5, SeqOfLength, Zenon
  <2>. QED  BY <2>1, <2>3, <2>6, <2>7
<1>4. Kinds(u) = Kinds(q)
  BY <1>3 DEF Kinds
<1>5. ASSUME NEW k \in DOMAIN q, k < n + 1 PROVE IndexOK(u, k)
  <2>1. CASE k = n
    BY <1>3, <1>4, <2>1 DEF IndexOK
  <2>2. CASE k # n
    <3>1. k < n
      BY <1>3, <1>5, <2>2
    <3>2. u[k] = q[k] /\ IndexOK(q, k)
      BY <1>1, <1>3, <2>2, <3>1
    <3>. QED  BY <1>4, <3>2 DEF IndexOK
  <2>. QED  BY <2>1, <2>2
<1>6. Drawn(u, n + 1)
  BY <1>1, <1>3, <1>4, <1>5 DEF Drawn
<1>. QED  BY <1>2, <1>3, <1>4, <1>6

LEMMA DrawUpdate ==
  ASSUME Balanced, Stage, UpdateOK, DrawIndex
  PROVE  UpdateOK'
<1>1. PICK q, n, l, type, source :
        /\ q = sequence /\ n = next /\ l = temp /\ type = q[n].type
        /\ source = Source(type, l.in_use, l.available)
  OBVIOUS
<1>2. PICK i \in Indices(type, size, source) :
        /\ sequence' = [sequence EXCEPT ![next].index = i]
        /\ temp' = IF type = "ClassifyPacket" \/ Blocked(type, size) THEN l
                   ELSE Exchanged(l, type, i)
  BY <1>1 DEF DrawIndex
<1>3. /\ pc = "indices" /\ pc' = pc /\ next' = n + 1 /\ size' = size /\ running' = running
      /\ n <= Len(q) /\ rules_in_use' = rules_in_use /\ available_pool' = available_pool
  BY <1>1 DEF DrawIndex, poolVars
<1>4. /\ n \in 1..(Len(q) + 1) /\ size = Half /\ Drawn(q, n)
      /\ Containers(Kinds(q), 1, Started) /\ Containers(Kinds(q), n, l)
  BY <1>1, <1>3 DEF UpdateOK
<1>5. /\ q \in Seq([type : RequestType, index : Int]) /\ Proper(Kinds(q)) /\ Len(q) \in Nat
      /\ n \in 1..Len(q)
  BY <1>3, <1>4 DEF Drawn
<1>6. /\ Kinds(q) \in [1..Len(q) -> RequestType] /\ Kinds(q)[n] = type /\ type \in RequestType
  BY <1>1, <1>5, KindsOf
<1>7. ~ Blocked(type, size)
  BY <1>4, HalfFree
<1>8. type # "ClassifyPacket" => i \in 0..(Len(source) - 1)
  <2>1. ASSUME type \in {"Insertion", "Deletion"} PROVE source # <<>>
    <3>1. Len(source) = IF type = "Insertion" THEN Size - InUse(Kinds(q), n) ELSE InUse(Kinds(q), n)
      BY <1>1, <1>4, <2>1, SourceLength
    <3>2. Possible(Kinds(q), n)
      BY <1>5, <1>6 DEF Proper
    <3>3. InUse(Kinds(q), n) \in Int /\ Size \in Nat
      <4>1. n \in Nat
        BY <1>5
      <4>. QED  BY <4>1, <1>5, <1>6, InUseInt, SizeNat
    <3>4. Len(source) > 0
      BY <1>6, <2>1, <3>1, <3>2, <3>3 DEF Possible
    <3>. QED  BY <3>4
  <2>. QED  BY <1>2, <1>6, <1>7, <2>1 DEF Indices, RequestType
<1>9. i \in Int
  <2>1. source \in Seq(Rules)
    BY <1>1, <1>4 DEF Containers, LocalType, Source
  <2>2. type = "ClassifyPacket" => i = -1
    BY <1>2 DEF Indices
  <2>. QED  BY <1>8, <2>1, <2>2
<1>10. temp' = Exchanged(l, type, i)
  BY <1>2, <1>7 DEF Exchanged
<1>11. Containers(Kinds(q), n + 1, temp')
  <2>1. PICK T : T = Kinds(q)
    OBVIOUS
  <2>2. T \in [1..Len(q) -> RequestType] /\ Containers(T, n, l) /\ T[n] = type
    BY <1>4, <1>6, <2>1
  <2>3. T[n] # "ClassifyPacket" => i \in 0..(Len(Source(T[n], l.in_use, l.available)) - 1)
    BY <1>1, <1>8, <2>2
  <2>4. Containers(T, n + 1, Exchanged(l, T[n], i))
    BY <1>5, <2>2, <2>3, NextContainers
  <2>. QED  BY <1>10, <2>1, <2>2, <2>4
<1>12. sequence' = WithIndex(q, n, i)
  BY <1>1, <1>2 DEF WithIndex
<1>13. Drawn(sequence', n + 1) /\ Kinds(sequence') = Kinds(q) /\ Len(sequence') = Len(q)
  <2>1. type # "ClassifyPacket" =>
          i \in 0..((IF type = "Insertion" THEN Size - InUse(Kinds(q), n)
                                           ELSE InUse(Kinds(q), n)) - 1)
    <3>1. ASSUME type \in {"Insertion", "Deletion"}
          PROVE  Len(source) = IF type = "Insertion" THEN Size - InUse(Kinds(q), n)
                                                     ELSE InUse(Kinds(q), n)
      BY <1>1, <1>4, <3>1, SourceLength
    <3>. QED  BY <1>6, <1>8, <3>1 DEF RequestType
  <2>. QED  BY <1>1, <1>4, <1>5, <1>9, <1>12, <2>1, NextDrawn
<1>14. n + 1 \in 1..(Len(sequence') + 1)
  BY <1>5, <1>13
<1>15. (running \cap Batch("update"))' = {} /\ Started' = Started
  BY <1>3, NoneRunning DEF Batch, Started
<1>. QED  BY <1>3, <1>4, <1>11, <1>13, <1>14, <1>15 DEF UpdateOK

-----------------------------------------------------------------------------
(* The batch of tasks that replays the requests *)

Replaying == pc \in {"update", "update_wait", "threw"}

LEMMA UpdateGroup ==
  ASSUME Stage, NEW i \in 1..Classifiers, <<"update", i>> \in Accepted
  PROVE  Replaying
<1>1. ASSUME NEW b, NEW n PROVE <<"update", i>> \in Batch(b) \cup Upto(b, n) => b = "update"
  BY DEF Batch, Upto
<1>2. /\ <<"update", i>> \notin Batch("load") \cup Upto("load", next)
      /\ <<"update", i>> \notin Batch("classify") \cup Upto("classify", next)
  BY <1>1
<1>. QED  BY <1>2 DEF Stage, Replaying

LEMMA BatchJobs ==
  ASSUME NEW j \in Batch("update")
  PROVE  j[2] \in 1..Classifiers /\ j = <<"update", j[2]>> /\ j \in Jobs
BY DEF Batch, Jobs

LEMMA SameContainers ==
  ASSUME NEW T, NEW n, NEW k, InUse(T, n) = InUse(T, k), NEW l, Containers(T, n, l),
         NEW m \in LocalType, m.in_use = l.in_use, m.available = l.available
  PROVE  Containers(T, k, m)
BY DEF Containers

(* A step that leaves the requests and the tasks of the batch alone *)
LEMMA SameUpdate ==
  ASSUME UpdateOK, UNCHANGED <<sequence, rules_in_use, available_pool>>,
         pc' # "indices", Replaying' => Replaying,
         running' \cap Batch("update") \subseteq running,
         \A j \in running' \cap Batch("update") : job'[j] = job[j] /\ ds'[j[2]] = ds[j[2]]
  PROVE  UpdateOK'
<1>1. Kinds(sequence)' = Kinds(sequence) /\ Started' = Started
  BY DEF Started
<1>2. ASSUME NEW j \in running' \cap Batch("update") PROVE Replayed(j)'
  <2>1. Replayed(j)
    BY DEF UpdateOK
  <2>. QED  BY <1>1, <2>1, Zenon DEF Replayed
<1>3. Replaying' => Drawn(sequence', Len(sequence') + 1) /\ Containers(Kinds(sequence)', 1, Started')
  BY <1>1, Zenon DEF UpdateOK, Replaying
<1>. QED  BY <1>2, <1>3, Zenon DEF UpdateOK, Replaying, Batch

LEMMA ReturnsUpdate ==
  ASSUME Stage, UpdateOK, SetupReturns
  PROVE  UpdateOK'
<1>1. /\ pc = "indices" /\ pc' = "update" /\ next > Len(sequence)
      /\ UNCHANGED <<sequence, rules_in_use, available_pool, running, job, ds>>
  BY DEF SetupReturns, poolVars, jobVars
<1>2. /\ next \in 1..(Len(sequence) + 1) /\ Drawn(sequence, next)
      /\ Containers(Kinds(sequence), 1, Started)
  BY <1>1 DEF UpdateOK
<1>3. Len(sequence) \in Nat
  BY <1>2, SeqDomain DEF Drawn
<1>4. next = Len(sequence) + 1
  BY <1>1, <1>2, <1>3
<1>5. (running \cap Batch("update"))' = {}
  BY <1>1, NoneRunning DEF Batch
<1>6. Started' = Started /\ Kinds(sequence)' = Kinds(sequence)
  BY <1>1 DEF Started
<1>. QED  BY <1>1, <1>2, <1>4, <1>5, <1>6, Zenon DEF UpdateOK

LEMMA MainUpdate ==
  ASSUME Balanced, PoolOK, Stage, UpdateOK, Main
  PROVE  UpdateOK'
<1>1. CASE Setup
  BY <1>1, SetupUpdate
<1>2. CASE DrawIndex
  BY <1>2, DrawUpdate
<1>3. CASE SetupReturns
  BY <1>3, ReturnsUpdate
<1>4. CASE Destroy
  <2>1. pc' \in {"joining", "end"}
    BY <1>4 DEF Destroy
  <2>2. UNCHANGED <<sequence, rules_in_use, available_pool, running, job, ds>>
    BY <1>4 DEF Destroy, jobVars, Pool!Close, Pool!Vanish
  <2>. QED  BY <2>1, <2>2, SameUpdate DEF Replaying
<1>5. ASSUME NEW b \in DOMAIN After, Enqueue(b) \/ GetFuture(b) PROVE UpdateOK'
  <2>1. b \in {"load", "classify", "update"} /\ Stage'
    BY <1>5, EnqueueStage, GetFutureStage DEF After
  <2>2. UNCHANGED <<sequence, rules_in_use, available_pool, job, ds>> /\ running' = running
    BY <1>5, <2>1, EnqueueStage, GetFutureStage DEF Enqueue, GetFuture, jobVars
  <2>3. /\ pc \in {b, Waiting[b]} /\ pc' \in {b, Waiting[b], After[b], "threw"}
    BY <1>5 DEF Enqueue, GetFuture
  <2>4. CASE b = "update"
    <3>1. Replaying /\ pc' # "indices"
      BY <2>3, <2>4 DEF Replaying, Waiting, After
    <3>. QED  BY <2>2, <3>1, SameUpdate
  <2>5. CASE b \in {"load", "classify"}
    <3>1. pc' # "indices"
      BY <2>3, <2>5 DEF Waiting, After
    <3>2. pc' # "threw"
      <4>1. CASE Enqueue(b)
        BY <2>3, <2>5, <4>1 DEF Enqueue, Waiting
      <4>2. CASE GetFuture(b)
        <5>1. Futures(b)[next] # <<>> \/ ~ (next <= Len(Futures(b)))
          <6>1. ASSUME next <= Len(Futures(b)) PROVE Futures(b)[next] # <<>>
            <7>1. next \in 1..Classifiers
              BY <2>5, <6>1, FuturesOf, SimulationAssumption DEF Stage
            <7>. QED  BY <2>5, <7>1, FuturesOf
          <6>. QED  BY <6>1
        <5>. QED  BY <2>3, <2>5, <4>2, <5>1 DEF GetFuture, Waiting, After
      <4>. QED  BY <1>5, <4>1, <4>2
    <3>3. ~ Replaying'
      BY <2>3, <2>5, <3>2 DEF Replaying, Waiting, After
    <3>. QED  BY <2>2, <3>1, <3>3, SameUpdate
  <2>. QED  BY <2>1, <2>4, <2>5
<1>. QED  BY <1>1, <1>2, <1>3, <1>4, <1>5 DEF Main

LEMMA StartUpdate ==
  ASSUME PoolOK, Stage, ResultsOK, UpdateOK, Start
  PROVE  UpdateOK'
<1>1. PICK j : j = Head(queue)
  OBVIOUS
<1>2. j \in Jobs \cap Accepted /\ j \notin running \cup done /\ running' = running \cup {j}
  BY <1>1, StartPool DEF Start
<1>3. PICK l : l = (IF j[1] = "update" THEN Local(1, 1, rules_in_use, available_pool)
                    ELSE Local(1, 1, <<>>, <<>>))
  OBVIOUS
<1>4. /\ job' = [job EXCEPT ![j] = l]
      /\ j[1] = "update" => ds' = [ds EXCEPT ![j[2]] = rules_in_use]
      /\ j[1] # "update" => ds' = ds
      /\ UNCHANGED <<pc, next, sequence, size, rules_in_use, available_pool, temp>>
  BY <1>1, <1>3 DEF Start, mainVars
<1>5. j = <<j[1], j[2]>> /\ j[1] \in {"load", "classify", "update"} /\ j[2] \in 1..Classifiers
  BY <1>2 DEF Jobs
<1>6. DOMAIN job = Jobs /\ DOMAIN ds = 1..Classifiers
  BY DEF ResultsOK
<1>7. CASE j[1] # "update"
  <2>1. j \notin Batch("update")
    BY <1>5, <1>7 DEF Batch
  <2>2. ASSUME NEW k \in running' \cap Batch("update")
        PROVE  k \in running /\ job'[k] = job[k] /\ ds'[k[2]] = ds[k[2]]
    BY <1>2, <1>4, <1>6, <1>7, <2>1, BatchJobs
  <2>3. ASSUME NEW k \in running' \cap Batch("update") PROVE Replayed(k)'
    <3>1. Replayed(k)
      BY <2>2 DEF UpdateOK
    <3>. QED  BY <1>4, <2>2, <3>1, Zenon DEF Replayed
  <2>. QED  BY <1>4, <2>3, Zenon DEF UpdateOK, Started, Batch
<1>8. CASE j[1] = "update"
  <2>1. Replaying
    BY <1>2, <1>5, <1>8, UpdateGroup
  <2>2. Drawn(sequence, Len(sequence) + 1) /\ Containers(Kinds(sequence), 1, Started)
    BY <2>1 DEF UpdateOK, Replaying
  <2>3. l = Local(1, 1, rules_in_use, available_pool)
    BY <1>3, <1>8
  <2>4. Started \in LocalType
    BY <2>2 DEF Containers
  <2>5. l \in LocalType /\ l.at = 1 /\ l.in_use = Started.in_use /\ l.available = Started.available
    BY <2>3, <2>4 DEF LocalType, Started, Local
  <2>6. Containers(Kinds(sequence), 1, l)
    BY <2>2, <2>5, SameContainers
  <2>7. Started.in_use = rules_in_use
    BY DEF Started, Local
  <2>8. Len(sequence) \in Nat
    BY <2>2, SeqDomain DEF Drawn
  <2>9. job'[j] = l /\ ds'[j[2]] = rules_in_use
    BY <1>2, <1>4, <1>5, <1>6, <1>8
  <2>10. Replayed(j)'
    <3>1. l.at \in 1..(Len(sequence) + 1) /\ ds'[j[2]] = l.in_use
      BY <2>5, <2>7, <2>8, <2>9
    <3>2. Containers(Kinds(sequence), l.at, l)
      BY <2>5, <2>6
    <3>. QED  BY <1>4, <2>9, <3>1, <3>2, Zenon DEF Replayed
  <2>11. ASSUME NEW k \in running \cap Batch("update") PROVE Replayed(k)'
    <3>1. Replayed(k)
      BY DEF UpdateOK
    <3>2. k # j /\ k \in Jobs /\ k[2] \in 1..Classifiers /\ k = <<"update", k[2]>>
      BY <1>2, BatchJobs
    <3>3. k[2] # j[2]
      BY <1>5, <1>8, <3>2
    <3>4. job'[k] = job[k] /\ ds'[k[2]] = ds[k[2]]
      BY <1>4, <1>6, <1>8, <3>2, <3>3
    <3>. QED  BY <1>4, <3>1, <3>4, Zenon DEF Replayed
  <2>12. \A k \in running' \cap Batch("update") : Replayed(k)'
    BY <1>2, <2>10, <2>11
  <2>. QED  BY <1>4, <2>12, Zenon DEF UpdateOK, Started, Batch
<1>. QED  BY <1>7, <1>8

(* While tasks load or classify, none of the update batch is there. *)
LEMMA OtherUpdate ==
  ASSUME PoolOK, Stage, UpdateOK, NEW i \in 1..Classifiers, Load(i) \/ ClassifyOne(i)
  PROVE  UpdateOK'
<1>1. PICK j \in {<<"load", i>>, <<"classify", i>>} : j \in running
  BY FinishPool DEF Load, ClassifyOne
<1>2. running' \subseteq running /\ UNCHANGED mainVars
  <2>1. CASE Load(i)
    BY <2>1, FinishPool DEF Load
  <2>2. CASE ClassifyOne(i)
    BY <2>2 DEF ClassifyOne, poolVars
  <2>. QED  BY <2>1, <2>2
<1>3. ASSUME NEW k \in running \cap Batch("update") PROVE FALSE
  <2>1. k[2] \in 1..Classifiers /\ k = <<"update", k[2]>>
    BY BatchJobs
  <2>2. k \in Accepted /\ j \in Accepted
    BY <1>1 DEF Accepted
  <2>. QED  BY <1>1, <2>1, <2>2, Apart
<1>4. (running \cap Batch("update"))' = {}
  BY <1>2, <1>3 DEF Batch
<1>5. UNCHANGED <<pc, next, sequence, size, rules_in_use, available_pool, temp>>
  BY <1>2 DEF mainVars
<1>. QED  BY <1>4, <1>5, Zenon DEF UpdateOK, Started, Batch

LEMMA FinishUpdate ==
  ASSUME PoolOK, UpdateOK, NEW j \in Jobs, FinishTask(j)
  PROVE  UpdateOK'
<1>1. running' \subseteq running
  BY FinishPool DEF FinishTask
<1>2. UNCHANGED <<pc, next, sequence, size, rules_in_use, available_pool, temp, job, ds>>
  BY DEF FinishTask, mainVars, jobVars
<1>3. ASSUME NEW k \in running' \cap Batch("update") PROVE Replayed(k)'
  <2>1. Replayed(k)
    BY <1>1 DEF UpdateOK
  <2>. QED  BY <1>2, <2>1, Zenon DEF Replayed
<1>. QED  BY <1>2, <1>3, Zenon DEF UpdateOK, Started, Batch

-----------------------------------------------------------------------------
(* A request of the replay *)

LEMMA SplitWhole ==
  ASSUME NEW a, NEW b, Split(a, b)
  PROVE  NoDuplicates(a \o b) /\ Elems(a \o b) = Rules
<1>1. PICK c : c = a \o b
  OBVIOUS
<1>2. /\ a \in Seq(Rules) /\ b \in Seq(Rules) /\ NoDuplicates(a) /\ NoDuplicates(b)
      /\ Elems(a) \cap Elems(b) = {} /\ Elems(a) \cup Elems(b) = Rules
  BY DEF Split
<1>3. Len(a) \in Nat /\ Len(b) \in Nat /\ DOMAIN a = 1..Len(a) /\ DOMAIN b = 1..Len(b)
  BY <1>2, SeqDomain
<1>4. /\ DOMAIN c = 1..(Len(a) + Len(b))
      /\ \A i \in 1..Len(a) : c[i] = a[i]
      /\ \A i \in 1..Len(b) : c[i + Len(a)] = b[i]
  BY <1>1, <1>2, <1>3
<1>5. ASSUME NEW i \in DOMAIN c
      PROVE  i \in 1..Len(a) \/ i - Len(a) \in 1..Len(b)
  BY <1>3, <1>4
<1>6. ASSUME NEW i \in DOMAIN c, ~ (i \in 1..Len(a))
      PROVE  i - Len(a) \in DOMAIN b /\ c[i] = b[i - Len(a)]
  <2>1. i - Len(a) \in 1..Len(b) /\ i \in Int
    BY <1>4, <1>5, <1>6
  <2>2. c[(i - Len(a)) + Len(a)] = b[i - Len(a)]
    BY <1>4, <2>1
  <2>3. (i - Len(a)) + Len(a) = i
    BY <1>3, <2>1
  <2>. QED  BY <1>3, <2>1, <2>2, <2>3
<1>7. Elems(c) = Elems(a) \cup Elems(b)
  <2>1. ASSUME NEW y \in Elems(c) PROVE y \in Elems(a) \cup Elems(b)
    <3>1. PICK i \in DOMAIN c : y = c[i]
      BY DEF Elems
    <3>. QED  BY <1>3, <1>4, <1>6, <3>1 DEF Elems
  <2>2. ASSUME NEW y \in Elems(a) PROVE y \in Elems(c)
    <3>1. PICK i \in 1..Len(a) : y = a[i]
      BY <1>3 DEF Elems
    <3>2. i \in DOMAIN c
      BY <1>3, <1>4
    <3>. QED  BY <1>4, <3>1, <3>2 DEF Elems
  <2>3. ASSUME NEW y \in Elems(b) PROVE y \in Elems(c)
    <3>1. PICK i \in 1..Len(b) : y = b[i]
      BY <1>3 DEF Elems
    <3>2. i + Len(a) \in DOMAIN c
      BY <1>3, <1>4
    <3>. QED  BY <1>4, <3>1, <3>2 DEF Elems
  <2>. QED  BY <2>1, <2>2, <2>3
<1>8. ASSUME NEW i \in DOMAIN c, NEW k \in DOMAIN c, c[i] = c[k] PROVE i = k
  <2>1. CASE i \in 1..Len(a) /\ k \in 1..Len(a)
    BY <1>2, <1>3, <1>4, <1>8, <2>1 DEF NoDuplicates
  <2>2. CASE ~ (i \in 1..Len(a)) /\ ~ (k \in 1..Len(a))
    <3>1. i - Len(a) = k - Len(a)
      BY <1>2, <1>6, <1>8, <2>2 DEF NoDuplicates
    <3>2. i \in Int /\ k \in Int
      BY <1>4
    <3>. QED  BY <1>3, <3>1, <3>2
  <2>3. ASSUME NEW x \in DOMAIN c, NEW y \in DOMAIN c,
               x \in 1..Len(a), ~ (y \in 1..Len(a)), c[x] = c[y]
        PROVE  FALSE
    <3>1. c[x] \in Elems(a)
      BY <1>3, <1>4, <2>3 DEF Elems
    <3>2. c[y] \in Elems(b)
      BY <1>6, <2>3 DEF Elems
    <3>. QED  BY <1>2, <2>3, <3>1, <3>2
  <2>. QED  BY <1>8, <2>1, <2>2, <2>3
<1>9. NoDuplicates(c)
  BY <1>8 DEF NoDuplicates
<1>. QED  BY <1>1, <1>2, <1>7, <1>9

LEMMA AdvancedLocal ==
  ASSUME NEW l \in LocalType
  PROVE  LET m == [l EXCEPT !.at = @ + 1]
         IN  m \in LocalType /\ m.at = l.at + 1 /\ m.in_use = l.in_use /\ m.available = l.available
BY DEF LocalType

LEMMA RestartedLocal ==
  ASSUME NEW l \in LocalType
  PROVE  LET m == [l EXCEPT !.trial = @ + 1, !.at = 1]
         IN  m \in LocalType /\ m.at = 1 /\ m.in_use = l.in_use /\ m.available = l.available
<1>1. PICK t : t = [l EXCEPT !.trial = @ + 1]
  OBVIOUS
<1>2. t \in LocalType /\ t.in_use = l.in_use /\ t.available = l.available
  BY <1>1 DEF LocalType
<1>3. PICK m : m = [t EXCEPT !.at = 1]
  OBVIOUS
<1>4. m \in LocalType /\ m.at = 1 /\ m.in_use = t.in_use /\ m.available = t.available
  BY <1>2, <1>3 DEF LocalType
<1>5. m = [l EXCEPT !.trial = @ + 1, !.at = 1]
  BY <1>1, <1>3 DEF LocalType
<1>. QED  BY <1>2, <1>4, <1>5, Zenon

(* The recorded index of a request is one of the container it is used on. *)
LEMMA ReplayedIndex ==
  ASSUME NEW q, Drawn(q, Len(q) + 1), NEW n \in 1..Len(q), NEW l, Containers(Kinds(q), n, l)
  PROVE  /\ q[n].type \in RequestType
         /\ q[n].type # "ClassifyPacket" =>
              q[n].index \in 0..(Len(Source(q[n].type, l.in_use, l.available)) - 1)
<1>1. /\ q \in Seq([type : RequestType, index : Int])
      /\ \A k \in DOMAIN q : k < Len(q) + 1 => IndexOK(q, k)
  BY DEF Drawn
<1>2. Len(q) \in Nat /\ DOMAIN q = 1..Len(q)
  BY <1>1, SeqDomain
<1>3. IndexOK(q, n)
  BY <1>1, <1>2
<1>4. q[n].type \in RequestType
  BY <1>1, KindsOf
<1>5. ASSUME q[n].type # "ClassifyPacket"
      PROVE  q[n].index \in 0..(Len(Source(q[n].type, l.in_use, l.available)) - 1)
  <2>1. PICK type, index : type = q[n].type /\ index = q[n].index
    OBVIOUS
  <2>2. type \in {"Insertion", "Deletion"}
    BY <1>4, <1>5, <2>1 DEF RequestType
  <2>3. Len(Source(type, l.in_use, l.available)) =
          IF type = "Insertion" THEN Size - InUse(Kinds(q), n) ELSE InUse(Kinds(q), n)
    BY <2>2, SourceLength
  <2>4. index \in 0..((IF type = "Insertion" THEN Size - InUse(Kinds(q), n)
                                             ELSE InUse(Kinds(q), n)) - 1)
    BY <1>3, <1>5, <2>1 DEF IndexOK
  <2>. QED  BY <2>1, <2>3, <2>4
<1>. QED  BY <1>4, <1>5

LEMMA RequestUpdate ==
  ASSUME PoolOK, Stage, ResultsOK, UpdateOK, NEW i \in 1..Classifiers, Request(i)
  PROVE  UpdateOK'
<1>1. PICK u, q, l : u = <<"update", i>> /\ q = sequence /\ l = job[u]
  OBVIOUS
<1>2. /\ u \in running /\ running' = running /\ u \in Batch("update") /\ u \in Jobs
      /\ UNCHANGED <<pc, next, sequence, size, rules_in_use, available_pool, temp>>
  BY <1>1, JobsOf DEF Request, poolVars, mainVars, Batch
<1>3. DOMAIN job = Jobs /\ DOMAIN ds = 1..Classifiers
  BY DEF ResultsOK
<1>4. Replaying
  BY <1>1, <1>2, UpdateGroup DEF Accepted
<1>5. Drawn(q, Len(q) + 1)
  BY <1>1, <1>4 DEF UpdateOK, Replaying
<1>6. Replayed(u)
  BY <1>2 DEF UpdateOK
<1>7. l.at \in 1..(Len(q) + 1) /\ Containers(Kinds(q), l.at, l) /\ ds[i] = l.in_use
  BY <1>1, <1>6 DEF Replayed
<1>8. l \in LocalType /\ l.at \in Nat /\ l.trial \in Nat
  BY <1>7 DEF Containers, LocalType
<1>9. /\ q \in Seq([type : RequestType, index : Int]) /\ Len(q) \in Nat
      /\ Kinds(q) \in [1..Len(q) -> RequestType] /\ Kinds(q) \in Seq(RequestType)
      /\ Len(Kinds(q)) = Len(q)
      /\ InUse(Kinds(q), Len(Kinds(q)) + 1) = Half
  BY <1>5, KindsOf DEF Drawn, Proper
<1>10. \E m : /\ job' = [job EXCEPT ![u] = m] /\ m.at \in 1..(Len(q) + 1)
              /\ Containers(Kinds(q), m.at, m)
              /\ (ds' = [ds EXCEPT ![i] = m.in_use] \/ (ds' = ds /\ m.in_use = l.in_use))
  <2>1. CASE l.at <= Len(q)
    <3>1. PICK n, r : n = l.at /\ r = q[n]
      OBVIOUS
    <3>2. n \in 1..Len(q) /\ Containers(Kinds(q), n, l)
      BY <1>7, <1>8, <2>1, <3>1
    <3>3. /\ r.type \in RequestType
          /\ r.type # "ClassifyPacket" =>
               r.index \in 0..(Len(Source(r.type, l.in_use, l.available)) - 1)
      BY <1>5, <3>1, <3>2, ReplayedIndex
    <3>4. PICK e : e = Exchanged(l, r.type, r.index)
      OBVIOUS
    <3>5. Containers(Kinds(q), n + 1, e) /\ e.at = n
      <4>1. PICK T : T = Kinds(q)
        OBVIOUS
      <4>2. T \in [1..Len(q) -> RequestType] /\ Containers(T, n, l) /\ T[n] = r.type
        BY <1>9, <3>1, <3>2, <4>1, KindsOf
      <4>3. T[n] # "ClassifyPacket" => r.index \in 0..(Len(Source(T[n], l.in_use, l.available)) - 1)
        BY <3>3, <4>2
      <4>4. Containers(T, n + 1, Exchanged(l, T[n], r.index))
        BY <1>9, <3>2, <4>2, <4>3, NextContainers
      <4>5. Split(l.in_use, l.available)
        BY <3>2 DEF Containers
      <4>6. Exchanged(l, r.type, r.index).at = l.at
        BY <1>8, <3>3, <4>5, ExchangedSplit
      <4>. QED  BY <3>1, <3>4, <4>1, <4>2, <4>4, <4>6
    <3>6. PICK m : m = [e EXCEPT !.at = @ + 1]
      OBVIOUS
    <3>7. e \in LocalType
      BY <3>5 DEF Containers
    <3>8. m \in LocalType /\ m.at = n + 1 /\ m.in_use = e.in_use /\ m.available = e.available
      BY <3>5, <3>6, <3>7, AdvancedLocal
    <3>9. Containers(Kinds(q), n + 1, m)
      BY <3>5, <3>8, SameContainers, ZenonT(40)
    <3>10. job' = [job EXCEPT ![u] = m] /\ ds' = [ds EXCEPT ![i] = Performed(ds[i], l, r)]
      BY <1>1, <2>1, <3>1, <3>4, <3>6 DEF Request
    <3>11. Performed(ds[i], l, r) = m.in_use
      <4>1. r.type = "Deletion" => r.index \in 0..(Len(l.in_use) - 1)
        BY <3>3 DEF Source
      <4>. QED  BY <1>7, <1>8, <3>3, <3>4, <3>8, <4>1, PerformedInStep
    <3>12. m.at \in 1..(Len(q) + 1)
      BY <1>9, <3>2, <3>8
    <3>. QED  BY <3>8, <3>9, <3>10, <3>11, <3>12
  <2>2. CASE ~ (l.at <= Len(q))
    <3>1. PICK m : m = [l EXCEPT !.trial = @ + 1, !.at = 1]
      OBVIOUS
    <3>2. m \in LocalType /\ m.at = 1 /\ m.in_use = l.in_use /\ m.available = l.available
      BY <1>8, <3>1, RestartedLocal, Zenon
    <3>3. job' = [job EXCEPT ![u] = m] /\ ds' = ds
      BY <1>1, <2>2, <3>1 DEF Request
    <3>4. l.at = Len(Kinds(q)) + 1
      BY <1>7, <1>8, <1>9, <2>2
    <3>5. InUse(Kinds(q), l.at) = InUse(Kinds(q), 1)
      BY <1>9, <3>4, InUseFirst
    <3>6. Containers(Kinds(q), 1, m)
      BY <1>7, <3>2, <3>5, SameContainers
    <3>7. 1 \in 1..(Len(q) + 1)
      BY <1>9
    <3>. QED  BY <3>2, <3>3, <3>6, <3>7
  <2>. QED  BY <2>1, <2>2
<1>11. PICK m : /\ job' = [job EXCEPT ![u] = m] /\ m.at \in 1..(Len(q) + 1)
                /\ Containers(Kinds(q), m.at, m)
                /\ (ds' = [ds EXCEPT ![i] = m.in_use] \/ (ds' = ds /\ m.in_use = l.in_use))
  BY <1>10
<1>12. Replayed(u)'
  <2>1. job'[u] = m /\ u[2] = i
    BY <1>1, <1>2, <1>3, <1>11
  <2>2. ds'[u[2]] = m.in_use
    BY <1>3, <1>7, <1>11, <2>1
  <2>. QED  BY <1>1, <1>2, <1>11, <2>1, <2>2, Zenon DEF Replayed
<1>13. ASSUME NEW k \in running \cap Batch("update"), k # u PROVE Replayed(k)'
  <2>1. Replayed(k)
    BY DEF UpdateOK
  <2>2. k \in Jobs /\ k[2] \in 1..Classifiers /\ k[2] # i
    BY <1>1, <1>13, BatchJobs
  <2>3. job'[k] = job[k] /\ ds'[k[2]] = ds[k[2]]
    BY <1>3, <1>11, <1>13, <2>2
  <2>. QED  BY <1>2, <2>1, <2>3, Zenon DEF Replayed
<1>14. \A k \in running \cap Batch("update") : Replayed(k)'
  BY <1>12, <1>13
<1>. QED  BY <1>2, <1>14, Zenon DEF UpdateOK, Started, Batch

UpdateInv == ResultsInv /\ UpdateOK

LEMMA UpdateInit == Init => UpdateInv
<1>. SUFFICES ASSUME Init PROVE UpdateOK
  BY ResultsInit DEF UpdateInv
<1>1. running = {} /\ pc \in {"load", "setup"}
  BY DEF Init, Pool!Init
<1>. QED  BY <1>1 DEF UpdateOK

LEMMA UpdateNext == Balanced /\ UpdateInv /\ [Next]_vars => UpdateInv'
<1>. SUFFICES ASSUME Balanced, UpdateInv, [Next]_vars PROVE UpdateOK'
  BY ResultsNext DEF UpdateInv
<1>. PoolOK /\ Stage /\ ResultsOK /\ UpdateOK
  BY DEF UpdateInv, ResultsInv
<1>1. CASE Main
  BY <1>1, MainUpdate
<1>2. CASE Start
  BY <1>2, StartUpdate
<1>3. ASSUME NEW i \in 1..Classifiers, Load(i) \/ ClassifyOne(i) \/ Request(i) PROVE UpdateOK'
  BY <1>3, OtherUpdate, RequestUpdate
<1>4. ASSUME NEW j \in Jobs, FinishTask(j) PROVE UpdateOK'
  BY <1>4, FinishUpdate
<1>5. CASE UNCHANGED vars
  <2>1. UNCHANGED <<pc, next, sequence, size, rules_in_use, available_pool, temp, running, job, ds>>
    BY <1>5 DEF vars, mainVars, poolVars, jobVars
  <2>2. ASSUME NEW k \in running \cap Batch("update") PROVE Replayed(k)'
    <3>1. Replayed(k)
      BY DEF UpdateOK
    <3>. QED  BY <2>1, <3>1, Zenon DEF Replayed
  <2>. QED  BY <2>1, <2>2, Zenon DEF UpdateOK, Started, Batch
<1>. QED  BY <1>1, <1>2, <1>3, <1>4, <1>5 DEF Next

LEMMA UpdateAlways ==
  ASSUME Balanced
  PROVE  Spec => []UpdateInv
<1>1. UpdateInv /\ [Next]_vars => UpdateInv'
  BY UpdateNext
<1>. QED  BY <1>1, UpdateInit, PTL DEF Spec

(* The task j is at a state that the requests drawn lead to. *)
LEMMA UpdatingReplayed ==
  ASSUME UpdateInv, NEW j \in Updating
  PROVE  /\ Drawn(sequence, Len(sequence) + 1) /\ Replayed(j) /\ j[2] \in 1..Classifiers
<1>1. j \in running /\ j[1] = "update" /\ j \in Jobs
  BY DEF Updating, UpdateInv, ResultsInv, PoolOK
<1>2. j[2] \in 1..Classifiers /\ j = <<"update", j[2]>> /\ j \in Batch("update")
  BY <1>1 DEF Jobs, Batch
<1>3. Replaying
  BY <1>1, <1>2, UpdateGroup DEF UpdateInv, ResultsInv, Accepted
<1>. QED  BY <1>1, <1>2, <1>3 DEF UpdateInv, UpdateOK, Replaying

(* Each index that SetupComputation recorded is one of the container that  *)
(* run_task_sequnce uses it on, in every trial, when as many rules are     *)
(* inserted as deleted.                                                    *)
THEOREM IndicesInRangeAlways ==
  ASSUME Balanced
  PROVE  Spec => []IndicesInRange
<1>1. ASSUME UpdateInv PROVE IndicesInRange
  <2>. SUFFICES ASSUME NEW j \in Updating, job[j].at <= Len(sequence),
                       sequence[job[j].at].type # "ClassifyPacket"
                PROVE  sequence[job[j].at].index
                         \in 0..(Len(Source(sequence[job[j].at].type,
                                            job[j].in_use, job[j].available)) - 1)
    BY DEF IndicesInRange
  <2>1. Drawn(sequence, Len(sequence) + 1) /\ Replayed(j)
    BY <1>1, UpdatingReplayed
  <2>2. Len(sequence) \in Nat
    BY <2>1, SeqDomain DEF Drawn
  <2>3. job[j].at \in 1..Len(sequence) /\ Containers(Kinds(sequence), job[j].at, job[j])
    BY <2>1, <2>2 DEF Replayed
  <2>. QED  BY <2>1, <2>3, ReplayedIndex
<1>2. UpdateInv => IndicesInRange
  BY <1>1
<1>. QED  BY <1>2, UpdateAlways, PTL

(* DS.rules = rules_in_use.rules at all times: each classifier has the     *)
(* rules of its Bookkeeper at the same indices, and no rule is lost        *)
(* between the two containers.                                             *)
THEOREM InStepAlways ==
  ASSUME Balanced
  PROVE  Spec => []InStep
<1>1. ASSUME UpdateInv PROVE InStep
  <2>. SUFFICES ASSUME NEW j \in Updating
                PROVE  /\ ds[j[2]] = job[j].in_use
                       /\ NoDuplicates(job[j].in_use \o job[j].available)
                       /\ Elems(job[j].in_use \o job[j].available) = Rules
    BY DEF InStep
  <2>1. Replayed(j)
    BY <1>1, UpdatingReplayed
  <2>2. Split(job[j].in_use, job[j].available)
    BY <2>1 DEF Replayed, Containers
  <2>. QED  BY <2>1, <2>2, SplitWhole DEF Replayed
<1>2. UpdateInv => InStep
  BY <1>1
<1>. QED  BY <1>2, UpdateAlways, PTL
=============================================================================
