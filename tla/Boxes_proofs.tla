---------------------------- MODULE Boxes_proofs -----------------------------
(***************************************************************************)
(* The classifiers over boxes that have proofs: HyperSplit and BitVector.  *)
(*                                                                         *)
(* HyperSplit, for every set of rules, every size of a leaf and every      *)
(* sequence of insertions and deletions: the leaf a packet is led to has   *)
(* every rule that matches it, so the packet is answered exactly.  The     *)
(* induction is over the levels of a tree.  What is said of a tree with a  *)
(* leaf for every rule is stated of TreesOver, which carries the rules     *)
(* that can be below a node down to it.                                    *)
(*                                                                         *)
(* BitVector, for every set of rules whose addresses are prefixes: both    *)
(* matchers find the innermost range of a value, which every matching      *)
(* rule contains, and the scan finds the first rule that matches in the    *)
(* intersection of the words.                                              *)
(***************************************************************************)
EXTENDS HyperSplit, BitVector, TupleTable_proofs, FiniteSetTheorems

-----------------------------------------------------------------------------
(* The trees, level by level *)

TreesStep(T) == ListNodes \cup SplitNodes(T)

TreesTo(g, n) == \A k \in 0..n : g[k] = IF k = 0 THEN ListNodes ELSE TreesStep(g[k - 1])

LEMMA TreesDef ==
  \A k \in Nat : Trees[k] = IF k = 0 THEN ListNodes ELSE ListNodes \cup SplitNodes(Trees[k - 1])
<1>. DEFINE G == {n \in Nat : /\ \E g : TreesTo(g, n)
                              /\ \A g, h : TreesTo(g, n) /\ TreesTo(h, n) => g[n] = h[n]}
<1>1. 0 \in G
  <2>. DEFINE g == [k \in 0..0 |-> ListNodes]
  <2>1. TreesTo(g, 0)
    BY DEF TreesTo
  <2>2. \A h : TreesTo(h, 0) => h[0] = ListNodes
    BY DEF TreesTo
  <2>. QED  BY <2>1, <2>2
<1>2. ASSUME NEW n \in G PROVE n + 1 \in G
  <2>. n \in Nat
    OBVIOUS
  <2>1. PICK h : TreesTo(h, n)
    OBVIOUS
  <2>. DEFINE g == [k \in 0..(n + 1) |-> IF k = n + 1 THEN TreesStep(h[n]) ELSE h[k]]
  <2>2. TreesTo(g, n + 1)
    BY <2>1 DEF TreesTo
  <2>3. ASSUME NEW a, TreesTo(a, n + 1)
        PROVE  TreesTo(a, n) /\ a[n + 1] = TreesStep(a[n])
    BY <2>3 DEF TreesTo
  <2>4. \A a, b : TreesTo(a, n + 1) /\ TreesTo(b, n + 1) => a[n + 1] = b[n + 1]
    BY <2>3
  <2>. QED  BY <2>2, <2>4
<1>. HIDE DEF G
<1>3. G = Nat
  BY <1>1, <1>2, NaturalSet DEF G
<1>. DEFINE f == [n \in Nat |-> (CHOOSE g : TreesTo(g, n))[n]]
<1>4. ASSUME NEW k \in Nat
      PROVE  f[k] = IF k = 0 THEN ListNodes ELSE TreesStep(f[k - 1])
  <2>1. PICK g : g = CHOOSE a : TreesTo(a, k)
    OBVIOUS
  <2>2. TreesTo(g, k) /\ f[k] = g[k]
    BY <1>3, <2>1 DEF G
  <2>3. CASE k = 0
    BY <2>2, <2>3 DEF TreesTo
  <2>4. CASE k # 0
    <3>1. PICK h : h = CHOOSE a : TreesTo(a, k - 1)
      OBVIOUS
    <3>2. k - 1 \in Nat
      BY <2>4
    <3>3. TreesTo(h, k - 1) /\ f[k - 1] = h[k - 1]
      BY <1>3, <3>1, <3>2 DEF G
    <3>4. TreesTo(g, k - 1) /\ g[k] = TreesStep(g[k - 1])
      BY <2>2, <2>4, <3>2 DEF TreesTo
    <3>5. g[k - 1] = h[k - 1]
      BY <1>3, <3>2, <3>3, <3>4 DEF G
    <3>. QED  BY <2>2, <2>4, <3>3, <3>4, <3>5
  <2>. QED  BY <2>3, <2>4
<1>. HIDE DEF f
<1>5. f = [k \in Nat |-> IF k = 0 THEN ListNodes ELSE TreesStep(f[k - 1])]
  <2>1. f = [k \in Nat |-> f[k]]
    BY DEF f
  <2>. QED  BY <1>4, <2>1
<1>6. Trees = [k \in Nat |-> IF k = 0 THEN ListNodes ELSE ListNodes \cup SplitNodes(Trees[k - 1])]
  BY <1>5, Zenon DEF Trees, TreesStep
<1>. QED  BY <1>6

-----------------------------------------------------------------------------
(* Each function on trees is what one step makes of the levels below *)

LEMMA ListsOnly == \A n \in Trees[0] : n.kind = "list"
<1>1. Trees[0] = ListNodes
  BY TreesDef
<1>. QED  BY <1>1 DEF ListNodes

(* The trees of at most k levels whose lists have rules of R only, and a   *)
(* rule only on a side of a split which it reaches.                        *)
TreesOver[k \in Nat] ==
  [R \in SUBSET Rules |->
     {n \in Trees[k] :
        IF n.kind = "list" THEN n.rules \subseteq R
        ELSE /\ n.left \in TreesOver[k - 1][LeftList(R, n.dim, n.split)]
             /\ n.right \in TreesOver[k - 1][RightList(R, n.dim, n.split)]}]

(* SplitFrom, by the number of rules *)
SplitStep(f, k) ==
  [bounds \in AnyBounds |-> [S \in SUBSET Rules |->
     IF k = 0 \/ Cardinality(S) <= LeafSize THEN ListNode(bounds, S)
     ELSE SplitIn(f, bounds, S, SelectDimToSplit(bounds, S))]]

SplitTo(g, n) ==
  \A k \in 0..n : g[k] = SplitStep(IF k = 0 THEN {} ELSE g[k - 1], k)

LEMMA SplitDef ==
  \A k \in Nat : SplitFrom[k] = SplitStep(SplitFrom[k - 1], k)
<1>. DEFINE App(g, n) == SplitTo(g, n)
            G == {n \in Nat : /\ \E g : App(g, n)
                              /\ \A g, h : App(g, n) /\ App(h, n) => g[n] = h[n]}
<1>0. \A v, w : SplitStep(v, 0) = SplitStep(w, 0)
  BY DEF SplitStep
<1>1. 0 \in G
  <2>. DEFINE g == [k \in 0..0 |-> SplitStep({}, 0)]
  <2>1. App(g, 0)
    BY DEF SplitTo
  <2>2. \A h : App(h, 0) => h[0] = SplitStep({}, 0)
    BY DEF SplitTo
  <2>. QED  BY <2>1, <2>2
<1>2. ASSUME NEW n \in G PROVE n + 1 \in G
  <2>. n \in Nat
    OBVIOUS
  <2>1. PICK h : App(h, n)
    OBVIOUS
  <2>. DEFINE g == [k \in 0..(n + 1) |-> IF k = n + 1 THEN SplitStep(h[n], n + 1) ELSE h[k]]
  <2>2. App(g, n + 1)
    BY <2>1 DEF SplitTo
  <2>3. ASSUME NEW a, App(a, n + 1)
        PROVE  App(a, n) /\ a[n + 1] = SplitStep(a[n], n + 1)
    BY <2>3 DEF SplitTo
  <2>4. \A a, b : App(a, n + 1) /\ App(b, n + 1) => a[n + 1] = b[n + 1]
    BY <2>3
  <2>. QED  BY <2>2, <2>4
<1>. HIDE DEF G
<1>3. G = Nat
  BY <1>1, <1>2, NaturalSet DEF G
<1>. DEFINE f == [n \in Nat |-> (CHOOSE g : App(g, n))[n]]
<1>4. ASSUME NEW k \in Nat
      PROVE  f[k] = SplitStep(f[k - 1], k)
  <2>1. PICK g : g = CHOOSE a : App(a, k)
    OBVIOUS
  <2>2. App(g, k) /\ f[k] = g[k]
    BY <1>3, <2>1 DEF G
  <2>3. CASE k = 0
    BY <1>0, <2>2, <2>3 DEF SplitTo
  <2>4. CASE k # 0
    <3>1. PICK h : h = CHOOSE a : App(a, k - 1)
      OBVIOUS
    <3>2. k - 1 \in Nat
      BY <2>4
    <3>3. App(h, k - 1) /\ f[k - 1] = h[k - 1]
      BY <1>3, <3>1, <3>2 DEF G
    <3>4. App(g, k - 1) /\ g[k] = SplitStep(g[k - 1], k)
      <4>1. \A j \in 0..k : g[j] = SplitStep(IF j = 0 THEN {} ELSE g[j - 1], j)
        BY <2>2 DEF SplitTo
      <4>2. g[k] = SplitStep(g[k - 1], k)
        BY <2>4, <4>1
      <4>3. 0..(k - 1) \subseteq 0..k
        BY <3>2
      <4>. QED  BY <4>1, <4>2, <4>3 DEF SplitTo
    <3>5. g[k - 1] = h[k - 1]
      BY <1>3, <3>2, <3>3, <3>4 DEF G
    <3>. QED  BY <2>2, <2>4, <3>3, <3>4, <3>5
  <2>. QED  BY <2>3, <2>4
<1>. HIDE DEF f
<1>5. f = [k \in Nat |-> SplitStep(f[k - 1], k)]
  <2>1. f = [k \in Nat |-> f[k]]
    BY DEF f
  <2>. QED  BY <1>4, <2>1
<1>6. SplitFrom = [k \in Nat |-> SplitStep(SplitFrom[k - 1], k)]
  BY <1>5, Zenon DEF SplitFrom, SplitStep
<1>. QED  BY <1>6

(* InsertedFrom, level by level *)
InsertedStep(r, f, k) ==
  [n \in Trees[k] |->
     IF n.kind = "list" THEN InsertedInList(n, r)
     ELSE SplitNode(n.bounds, n.dim, n.split,
            IF Low[r][n.dim] <= n.split THEN f[n.left] ELSE n.left,
            IF High[r][n.dim] > n.split THEN f[n.right] ELSE n.right)]

InsertedTo(r, g, n) ==
  \A k \in 0..n : g[k] = InsertedStep(r, IF k = 0 THEN {} ELSE g[k - 1], k)

LEMMA InsertedDef ==
  ASSUME NEW r
  PROVE
  \A k \in Nat : InsertedFrom(r)[k] = InsertedStep(r, InsertedFrom(r)[k - 1], k)
<1>. DEFINE App(g, n) == InsertedTo(r, g, n)
            G == {n \in Nat : /\ \E g : App(g, n)
                              /\ \A g, h : App(g, n) /\ App(h, n) => g[n] = h[n]}
<1>0. \A v, w : InsertedStep(r, v, 0) = InsertedStep(r, w, 0)
  BY ListsOnly DEF InsertedStep
<1>1. 0 \in G
  <2>. DEFINE g == [k \in 0..0 |-> InsertedStep(r, {}, 0)]
  <2>1. App(g, 0)
    BY DEF InsertedTo
  <2>2. \A h : App(h, 0) => h[0] = InsertedStep(r, {}, 0)
    BY DEF InsertedTo
  <2>. QED  BY <2>1, <2>2
<1>2. ASSUME NEW n \in G PROVE n + 1 \in G
  <2>. n \in Nat
    OBVIOUS
  <2>1. PICK h : App(h, n)
    OBVIOUS
  <2>. DEFINE g == [k \in 0..(n + 1) |-> IF k = n + 1 THEN InsertedStep(r, h[n], n + 1) ELSE h[k]]
  <2>2. App(g, n + 1)
    BY <2>1 DEF InsertedTo
  <2>3. ASSUME NEW a, App(a, n + 1)
        PROVE  App(a, n) /\ a[n + 1] = InsertedStep(r, a[n], n + 1)
    BY <2>3 DEF InsertedTo
  <2>4. \A a, b : App(a, n + 1) /\ App(b, n + 1) => a[n + 1] = b[n + 1]
    BY <2>3
  <2>. QED  BY <2>2, <2>4
<1>. HIDE DEF G
<1>3. G = Nat
  BY <1>1, <1>2, NaturalSet DEF G
<1>. DEFINE f == [n \in Nat |-> (CHOOSE g : App(g, n))[n]]
<1>4. ASSUME NEW k \in Nat
      PROVE  f[k] = InsertedStep(r, f[k - 1], k)
  <2>1. PICK g : g = CHOOSE a : App(a, k)
    OBVIOUS
  <2>2. App(g, k) /\ f[k] = g[k]
    BY <1>3, <2>1 DEF G
  <2>3. CASE k = 0
    BY <1>0, <2>2, <2>3 DEF InsertedTo
  <2>4. CASE k # 0
    <3>1. PICK h : h = CHOOSE a : App(a, k - 1)
      OBVIOUS
    <3>2. k - 1 \in Nat
      BY <2>4
    <3>3. App(h, k - 1) /\ f[k - 1] = h[k - 1]
      BY <1>3, <3>1, <3>2 DEF G
    <3>4. App(g, k - 1) /\ g[k] = InsertedStep(r, g[k - 1], k)
      <4>1. \A j \in 0..k : g[j] = InsertedStep(r, IF j = 0 THEN {} ELSE g[j - 1], j)
        BY <2>2 DEF InsertedTo
      <4>2. g[k] = InsertedStep(r, g[k - 1], k)
        BY <2>4, <4>1
      <4>3. 0..(k - 1) \subseteq 0..k
        BY <3>2
      <4>. QED  BY <4>1, <4>2, <4>3 DEF InsertedTo
    <3>5. g[k - 1] = h[k - 1]
      BY <1>3, <3>2, <3>3, <3>4 DEF G
    <3>. QED  BY <2>2, <2>4, <3>3, <3>4, <3>5
  <2>. QED  BY <2>3, <2>4
<1>. HIDE DEF f
<1>5. f = [k \in Nat |-> InsertedStep(r, f[k - 1], k)]
  <2>1. f = [k \in Nat |-> f[k]]
    BY DEF f
  <2>. QED  BY <1>4, <2>1
<1>6. InsertedFrom(r) = [k \in Nat |-> InsertedStep(r, InsertedFrom(r)[k - 1], k)]
  BY <1>5, Zenon DEF InsertedFrom, InsertedStep
<1>. QED  BY <1>6

(* DeletedFrom, level by level *)
DeletedStep(r, f, k) ==
  [n \in Trees[k] |->
     IF n.kind = "list" THEN ListNode(n.bounds, n.rules \ {r})
     ELSE Contracted(n,
            IF Low[r][n.dim] <= n.split THEN f[n.left] ELSE n.left,
            IF High[r][n.dim] > n.split THEN f[n.right] ELSE n.right)]

DeletedTo(r, g, n) ==
  \A k \in 0..n : g[k] = DeletedStep(r, IF k = 0 THEN {} ELSE g[k - 1], k)

LEMMA DeletedDef ==
  ASSUME NEW r
  PROVE
  \A k \in Nat : DeletedFrom(r)[k] = DeletedStep(r, DeletedFrom(r)[k - 1], k)
<1>. DEFINE App(g, n) == DeletedTo(r, g, n)
            G == {n \in Nat : /\ \E g : App(g, n)
                              /\ \A g, h : App(g, n) /\ App(h, n) => g[n] = h[n]}
<1>0. \A v, w : DeletedStep(r, v, 0) = DeletedStep(r, w, 0)
  BY ListsOnly DEF DeletedStep
<1>1. 0 \in G
  <2>. DEFINE g == [k \in 0..0 |-> DeletedStep(r, {}, 0)]
  <2>1. App(g, 0)
    BY DEF DeletedTo
  <2>2. \A h : App(h, 0) => h[0] = DeletedStep(r, {}, 0)
    BY DEF DeletedTo
  <2>. QED  BY <2>1, <2>2
<1>2. ASSUME NEW n \in G PROVE n + 1 \in G
  <2>. n \in Nat
    OBVIOUS
  <2>1. PICK h : App(h, n)
    OBVIOUS
  <2>. DEFINE g == [k \in 0..(n + 1) |-> IF k = n + 1 THEN DeletedStep(r, h[n], n + 1) ELSE h[k]]
  <2>2. App(g, n + 1)
    BY <2>1 DEF DeletedTo
  <2>3. ASSUME NEW a, App(a, n + 1)
        PROVE  App(a, n) /\ a[n + 1] = DeletedStep(r, a[n], n + 1)
    BY <2>3 DEF DeletedTo
  <2>4. \A a, b : App(a, n + 1) /\ App(b, n + 1) => a[n + 1] = b[n + 1]
    BY <2>3
  <2>. QED  BY <2>2, <2>4
<1>. HIDE DEF G
<1>3. G = Nat
  BY <1>1, <1>2, NaturalSet DEF G
<1>. DEFINE f == [n \in Nat |-> (CHOOSE g : App(g, n))[n]]
<1>4. ASSUME NEW k \in Nat
      PROVE  f[k] = DeletedStep(r, f[k - 1], k)
  <2>1. PICK g : g = CHOOSE a : App(a, k)
    OBVIOUS
  <2>2. App(g, k) /\ f[k] = g[k]
    BY <1>3, <2>1 DEF G
  <2>3. CASE k = 0
    BY <1>0, <2>2, <2>3 DEF DeletedTo
  <2>4. CASE k # 0
    <3>1. PICK h : h = CHOOSE a : App(a, k - 1)
      OBVIOUS
    <3>2. k - 1 \in Nat
      BY <2>4
    <3>3. App(h, k - 1) /\ f[k - 1] = h[k - 1]
      BY <1>3, <3>1, <3>2 DEF G
    <3>4. App(g, k - 1) /\ g[k] = DeletedStep(r, g[k - 1], k)
      <4>1. \A j \in 0..k : g[j] = DeletedStep(r, IF j = 0 THEN {} ELSE g[j - 1], j)
        BY <2>2 DEF DeletedTo
      <4>2. g[k] = DeletedStep(r, g[k - 1], k)
        BY <2>4, <4>1
      <4>3. 0..(k - 1) \subseteq 0..k
        BY <3>2
      <4>. QED  BY <4>1, <4>2, <4>3 DEF DeletedTo
    <3>5. g[k - 1] = h[k - 1]
      BY <1>3, <3>2, <3>3, <3>4 DEF G
    <3>. QED  BY <2>2, <2>4, <3>3, <3>4, <3>5
  <2>. QED  BY <2>3, <2>4
<1>. HIDE DEF f
<1>5. f = [k \in Nat |-> DeletedStep(r, f[k - 1], k)]
  <2>1. f = [k \in Nat |-> f[k]]
    BY DEF f
  <2>. QED  BY <1>4, <2>1
<1>6. DeletedFrom(r) = [k \in Nat |-> DeletedStep(r, DeletedFrom(r)[k - 1], k)]
  BY <1>5, Zenon DEF DeletedFrom, DeletedStep
<1>. QED  BY <1>6

(* LeafFrom, level by level *)
LeafStep(p, f, k) ==
  [n \in Trees[k] |->
     IF n.kind = "list" THEN n
     ELSE f[IF Value[p][n.dim] <= n.split THEN n.left ELSE n.right]]

LeafTo(p, g, n) ==
  \A k \in 0..n : g[k] = LeafStep(p, IF k = 0 THEN {} ELSE g[k - 1], k)

LEMMA LeafDef ==
  ASSUME NEW p
  PROVE
  \A k \in Nat : LeafFrom(p)[k] = LeafStep(p, LeafFrom(p)[k - 1], k)
<1>. DEFINE App(g, n) == LeafTo(p, g, n)
            G == {n \in Nat : /\ \E g : App(g, n)
                              /\ \A g, h : App(g, n) /\ App(h, n) => g[n] = h[n]}
<1>0. \A v, w : LeafStep(p, v, 0) = LeafStep(p, w, 0)
  BY ListsOnly DEF LeafStep
<1>1. 0 \in G
  <2>. DEFINE g == [k \in 0..0 |-> LeafStep(p, {}, 0)]
  <2>1. App(g, 0)
    BY DEF LeafTo
  <2>2. \A h : App(h, 0) => h[0] = LeafStep(p, {}, 0)
    BY DEF LeafTo
  <2>. QED  BY <2>1, <2>2
<1>2. ASSUME NEW n \in G PROVE n + 1 \in G
  <2>. n \in Nat
    OBVIOUS
  <2>1. PICK h : App(h, n)
    OBVIOUS
  <2>. DEFINE g == [k \in 0..(n + 1) |-> IF k = n + 1 THEN LeafStep(p, h[n], n + 1) ELSE h[k]]
  <2>2. App(g, n + 1)
    BY <2>1 DEF LeafTo
  <2>3. ASSUME NEW a, App(a, n + 1)
        PROVE  App(a, n) /\ a[n + 1] = LeafStep(p, a[n], n + 1)
    BY <2>3 DEF LeafTo
  <2>4. \A a, b : App(a, n + 1) /\ App(b, n + 1) => a[n + 1] = b[n + 1]
    BY <2>3
  <2>. QED  BY <2>2, <2>4
<1>. HIDE DEF G
<1>3. G = Nat
  BY <1>1, <1>2, NaturalSet DEF G
<1>. DEFINE f == [n \in Nat |-> (CHOOSE g : App(g, n))[n]]
<1>4. ASSUME NEW k \in Nat
      PROVE  f[k] = LeafStep(p, f[k - 1], k)
  <2>1. PICK g : g = CHOOSE a : App(a, k)
    OBVIOUS
  <2>2. App(g, k) /\ f[k] = g[k]
    BY <1>3, <2>1 DEF G
  <2>3. CASE k = 0
    BY <1>0, <2>2, <2>3 DEF LeafTo
  <2>4. CASE k # 0
    <3>1. PICK h : h = CHOOSE a : App(a, k - 1)
      OBVIOUS
    <3>2. k - 1 \in Nat
      BY <2>4
    <3>3. App(h, k - 1) /\ f[k - 1] = h[k - 1]
      BY <1>3, <3>1, <3>2 DEF G
    <3>4. App(g, k - 1) /\ g[k] = LeafStep(p, g[k - 1], k)
      <4>1. \A j \in 0..k : g[j] = LeafStep(p, IF j = 0 THEN {} ELSE g[j - 1], j)
        BY <2>2 DEF LeafTo
      <4>2. g[k] = LeafStep(p, g[k - 1], k)
        BY <2>4, <4>1
      <4>3. 0..(k - 1) \subseteq 0..k
        BY <3>2
      <4>. QED  BY <4>1, <4>2, <4>3 DEF LeafTo
    <3>5. g[k - 1] = h[k - 1]
      BY <1>3, <3>2, <3>3, <3>4 DEF G
    <3>. QED  BY <2>2, <2>4, <3>3, <3>4, <3>5
  <2>. QED  BY <2>3, <2>4
<1>. HIDE DEF f
<1>5. f = [k \in Nat |-> LeafStep(p, f[k - 1], k)]
  <2>1. f = [k \in Nat |-> f[k]]
    BY DEF f
  <2>. QED  BY <1>4, <2>1
<1>6. LeafFrom(p) = [k \in Nat |-> LeafStep(p, LeafFrom(p)[k - 1], k)]
  BY <1>5, Zenon DEF LeafFrom, LeafStep
<1>. QED  BY <1>6

(* TreesOver, level by level *)
OverStep(f, k) ==
  [R \in SUBSET Rules |->
     {n \in Trees[k] :
        IF n.kind = "list" THEN n.rules \subseteq R
        ELSE /\ n.left \in f[LeftList(R, n.dim, n.split)]
             /\ n.right \in f[RightList(R, n.dim, n.split)]}]

OverTo(g, n) ==
  \A k \in 0..n : g[k] = OverStep(IF k = 0 THEN {} ELSE g[k - 1], k)

LEMMA OverDef ==
  \A k \in Nat : TreesOver[k] = OverStep(TreesOver[k - 1], k)
<1>. DEFINE App(g, n) == OverTo(g, n)
            G == {n \in Nat : /\ \E g : App(g, n)
                              /\ \A g, h : App(g, n) /\ App(h, n) => g[n] = h[n]}
<1>0. \A v, w : OverStep(v, 0) = OverStep(w, 0)
  BY ListsOnly DEF OverStep
<1>1. 0 \in G
  <2>. DEFINE g == [k \in 0..0 |-> OverStep({}, 0)]
  <2>1. App(g, 0)
    BY DEF OverTo
  <2>2. \A h : App(h, 0) => h[0] = OverStep({}, 0)
    BY DEF OverTo
  <2>. QED  BY <2>1, <2>2
<1>2. ASSUME NEW n \in G PROVE n + 1 \in G
  <2>. n \in Nat
    OBVIOUS
  <2>1. PICK h : App(h, n)
    OBVIOUS
  <2>. DEFINE g == [k \in 0..(n + 1) |-> IF k = n + 1 THEN OverStep(h[n], n + 1) ELSE h[k]]
  <2>2. App(g, n + 1)
    BY <2>1 DEF OverTo
  <2>3. ASSUME NEW a, App(a, n + 1)
        PROVE  App(a, n) /\ a[n + 1] = OverStep(a[n], n + 1)
    BY <2>3 DEF OverTo
  <2>4. \A a, b : App(a, n + 1) /\ App(b, n + 1) => a[n + 1] = b[n + 1]
    BY <2>3
  <2>. QED  BY <2>2, <2>4
<1>. HIDE DEF G
<1>3. G = Nat
  BY <1>1, <1>2, NaturalSet DEF G
<1>. DEFINE f == [n \in Nat |-> (CHOOSE g : App(g, n))[n]]
<1>4. ASSUME NEW k \in Nat
      PROVE  f[k] = OverStep(f[k - 1], k)
  <2>1. PICK g : g = CHOOSE a : App(a, k)
    OBVIOUS
  <2>2. App(g, k) /\ f[k] = g[k]
    BY <1>3, <2>1 DEF G
  <2>3. CASE k = 0
    BY <1>0, <2>2, <2>3 DEF OverTo
  <2>4. CASE k # 0
    <3>1. PICK h : h = CHOOSE a : App(a, k - 1)
      OBVIOUS
    <3>2. k - 1 \in Nat
      BY <2>4
    <3>3. App(h, k - 1) /\ f[k - 1] = h[k - 1]
      BY <1>3, <3>1, <3>2 DEF G
    <3>4. App(g, k - 1) /\ g[k] = OverStep(g[k - 1], k)
      <4>1. \A j \in 0..k : g[j] = OverStep(IF j = 0 THEN {} ELSE g[j - 1], j)
        BY <2>2 DEF OverTo
      <4>2. g[k] = OverStep(g[k - 1], k)
        BY <2>4, <4>1
      <4>3. 0..(k - 1) \subseteq 0..k
        BY <3>2
      <4>. QED  BY <4>1, <4>2, <4>3 DEF OverTo
    <3>5. g[k - 1] = h[k - 1]
      BY <1>3, <3>2, <3>3, <3>4 DEF G
    <3>. QED  BY <2>2, <2>4, <3>3, <3>4, <3>5
  <2>. QED  BY <2>3, <2>4
<1>. HIDE DEF f
<1>5. f = [k \in Nat |-> OverStep(f[k - 1], k)]
  <2>1. f = [k \in Nat |-> f[k]]
    BY DEF f
  <2>. QED  BY <1>4, <2>1
<1>6. TreesOver = [k \in Nat |-> OverStep(TreesOver[k - 1], k)]
  BY ZenonT(40), <1>5 DEF TreesOver, OverStep
<1>. QED  BY <1>6

-----------------------------------------------------------------------------
(* The shapes of nodes, and what is over R *)

(* The shapes of nodes *)

LEMMA ListShape ==
  ASSUME NEW n \in ListNodes
  PROVE  /\ n.kind = "list" /\ n.levels = 0 /\ n.bounds \in AnyBounds /\ n.rules \in SUBSET Rules
         /\ n = ListNode(n.bounds, n.rules)
BY DEF ListNodes, ListNode

LEMMA ListIs ==
  ASSUME NEW b \in AnyBounds, NEW S \in SUBSET Rules
  PROVE  /\ ListNode(b, S) \in ListNodes
         /\ ListNode(b, S).kind = "list" /\ ListNode(b, S).rules = S
         /\ ListNode(b, S).levels = 0 /\ ListNode(b, S).bounds = b
BY DEF ListNodes, ListNode

LEMMA SplitShape ==
  ASSUME NEW T, NEW n \in SplitNodes(T)
  PROVE  /\ n.kind = "split" /\ n.levels \in Nat /\ n.bounds \in AnyBounds
         /\ n.dim \in Fields /\ n.split \in Int /\ n.left \in T /\ n.right \in T
         /\ n.left.levels < n.levels /\ n.right.levels < n.levels
BY DEF SplitNodes

LEMMA MaxOfTwo ==
  ASSUME NEW a \in Nat, NEW b \in Nat
  PROVE  Max({a, b}) \in Nat /\ a <= Max({a, b}) /\ b <= Max({a, b})
<1>1. \E x \in {a, b} : \A y \in {a, b} : x >= y
  OBVIOUS
<1>2. Max({a, b}) \in {a, b} /\ \A y \in {a, b} : Max({a, b}) >= y
  BY <1>1 DEF Max
<1>. QED  BY <1>2

LEMMA SplitIs ==
  ASSUME NEW b \in AnyBounds, NEW d \in Fields, NEW s \in Int, NEW T, NEW l, NEW r, l \in T, r \in T,
         l.levels \in Nat, r.levels \in Nat, NEW n, n = SplitNode(b, d, s, l, r)
  PROVE  /\ n \in SplitNodes(T) /\ n.kind = "split" /\ n.levels \in Nat
         /\ n.bounds = b /\ n.dim = d /\ n.split = s /\ n.left = l /\ n.right = r
<1>. DEFINE m == Max({l.levels, r.levels})
<1>1. m \in Nat /\ l.levels <= m /\ r.levels <= m
  BY MaxOfTwo
<1>2. n = [kind |-> "split", levels |-> 1 + m, bounds |-> b,
           dim |-> d, split |-> s, left |-> l, right |-> r]
  BY DEF SplitNode
<1>. HIDE DEF m
<1>3. /\ n.kind = "split" /\ n.levels = 1 + m
      /\ n.bounds = b /\ n.dim = d /\ n.split = s /\ n.left = l /\ n.right = r
  BY <1>2
<1>4. n \in [kind : {"split"}, levels : Nat, bounds : AnyBounds,
             dim : Fields, split : Int, left : T, right : T]
  BY <1>1, <1>2
<1>5. l.levels < n.levels /\ r.levels < n.levels /\ n.levels \in Nat
  BY <1>1, <1>3
<1>6. n \in SplitNodes(T)
  BY <1>3, <1>4, <1>5 DEF SplitNodes
<1>. QED  BY <1>3, <1>5, <1>6

LEMMA TreeCases ==
  ASSUME NEW k \in Nat, NEW n \in Trees[k]
  PROVE  \/ n \in ListNodes
         \/ k - 1 \in Nat /\ n.kind = "split" /\ n \in SplitNodes(Trees[k - 1])
<1>1. CASE k = 0
  BY <1>1, TreesDef
<1>2. CASE k # 0
  <2>1. k - 1 \in Nat
    BY <1>2
  <2>2. n \in ListNodes \cup SplitNodes(Trees[k - 1])
    BY <1>2, TreesDef
  <2>. QED  BY <2>1, <2>2, SplitShape
<1>. QED  BY <1>1, <1>2

LEMMA ListIsTree ==
  ASSUME NEW k \in Nat
  PROVE  ListNodes \subseteq Trees[k]
BY TreesDef

(* What is over R *)

LEMMA OverIs ==
  ASSUME NEW k \in Nat, NEW R \in SUBSET Rules, NEW n
  PROVE  n \in TreesOver[k][R] <=>
           /\ n \in Trees[k]
           /\ IF n.kind = "list" THEN n.rules \subseteq R
              ELSE /\ n.left \in TreesOver[k - 1][LeftList(R, n.dim, n.split)]
                   /\ n.right \in TreesOver[k - 1][RightList(R, n.dim, n.split)]
<1>1. PICK f : f = TreesOver[k - 1]
  OBVIOUS
<1>2. TreesOver[k] = OverStep(f, k)
  BY <1>1, OverDef
<1>3. n \in TreesOver[k][R] <=>
        /\ n \in Trees[k]
        /\ IF n.kind = "list" THEN n.rules \subseteq R
           ELSE /\ n.left \in f[LeftList(R, n.dim, n.split)]
                /\ n.right \in f[RightList(R, n.dim, n.split)]
  BY <1>2 DEF OverStep
<1>. QED  BY <1>1, <1>3

LEMMA HalfLists ==
  ASSUME NEW R \in SUBSET Rules, NEW d, NEW s
  PROVE  /\ LeftList(R, d, s) \in SUBSET Rules /\ LeftList(R, d, s) \subseteq R
         /\ RightList(R, d, s) \in SUBSET Rules /\ RightList(R, d, s) \subseteq R
BY DEF LeftList, RightList

LEMMA HalfListsMonotone ==
  ASSUME NEW Q, NEW R \in SUBSET Q, NEW d, NEW s
  PROVE  /\ LeftList(R, d, s) \subseteq LeftList(Q, d, s)
         /\ RightList(R, d, s) \subseteq RightList(Q, d, s)
BY DEF LeftList, RightList

LEMMA OverCases ==
  ASSUME NEW k \in Nat, NEW R \in SUBSET Rules, NEW n \in TreesOver[k][R]
  PROVE  \/ n \in ListNodes /\ n.rules \subseteq R
         \/ /\ k - 1 \in Nat /\ n.kind = "split" /\ n \in SplitNodes(Trees[k - 1])
            /\ n.left \in TreesOver[k - 1][LeftList(R, n.dim, n.split)]
            /\ n.right \in TreesOver[k - 1][RightList(R, n.dim, n.split)]
<1>1. n \in Trees[k]
  BY OverIs
<1>2. CASE n \in ListNodes
  BY <1>2, OverIs, ListShape
<1>3. CASE k - 1 \in Nat /\ n.kind = "split" /\ n \in SplitNodes(Trees[k - 1])
  BY <1>3, OverIs
<1>. QED  BY <1>1, <1>2, <1>3, TreeCases

LEMMA OverList ==
  ASSUME NEW k \in Nat, NEW R \in SUBSET Rules, NEW n \in ListNodes, n.rules \subseteq R
  PROVE  n \in TreesOver[k][R]
BY OverIs, ListIsTree, ListShape

LEMMA OverSplit ==
  ASSUME NEW k \in Nat, NEW R \in SUBSET Rules, NEW n \in SplitNodes(Trees[k]),
         n.left \in TreesOver[k][LeftList(R, n.dim, n.split)],
         n.right \in TreesOver[k][RightList(R, n.dim, n.split)]
  PROVE  n \in TreesOver[k + 1][R]
<1>1. k + 1 \in Nat /\ k + 1 # 0 /\ (k + 1) - 1 = k
  OBVIOUS
<1>2. n \in Trees[k + 1]
  BY <1>1, TreesDef
<1>3. n.kind # "list"
  BY SplitShape
<1>4. TreesOver[(k + 1) - 1] = TreesOver[k]
  BY <1>1
<1>. QED  BY <1>1, <1>2, <1>3, <1>4, OverIs

-----------------------------------------------------------------------------
(* Trees over more rules, and with more levels to spare *)

LEMMA SplitNodesMonotone ==
  ASSUME NEW S, NEW T, S \subseteq T
  PROVE  SplitNodes(S) \subseteq SplitNodes(T)
BY DEF SplitNodes

LEMMA OverMonotone ==
  ASSUME NEW k \in Nat, NEW R \in SUBSET Rules, NEW Q \in SUBSET Rules, R \subseteq Q,
         NEW n \in TreesOver[k][R]
  PROVE  n \in TreesOver[k][Q]
<1>. DEFINE Mono(j) == \A A \in SUBSET Rules, B \in SUBSET Rules :
                         A \subseteq B => TreesOver[j][A] \subseteq TreesOver[j][B]
            G == {j \in Nat : Mono(j)}
<1>1. ASSUME NEW j \in Nat, j - 1 \in Nat => Mono(j - 1)
      PROVE  Mono(j)
  <2>. SUFFICES ASSUME NEW A \in SUBSET Rules, NEW B \in SUBSET Rules, A \subseteq B,
                       NEW m \in TreesOver[j][A]
                PROVE  m \in TreesOver[j][B]
    OBVIOUS
  <2>1. CASE m \in ListNodes /\ m.rules \subseteq A
    BY <2>1, OverList
  <2>2. CASE /\ j - 1 \in Nat /\ m.kind = "split" /\ m \in SplitNodes(Trees[j - 1])
             /\ m.left \in TreesOver[j - 1][LeftList(A, m.dim, m.split)]
             /\ m.right \in TreesOver[j - 1][RightList(A, m.dim, m.split)]
    <3>0. /\ LeftList(A, m.dim, m.split) \subseteq LeftList(B, m.dim, m.split)
          /\ RightList(A, m.dim, m.split) \subseteq RightList(B, m.dim, m.split)
      BY HalfListsMonotone
    <3>1. /\ m.left \in TreesOver[j - 1][LeftList(B, m.dim, m.split)]
          /\ m.right \in TreesOver[j - 1][RightList(B, m.dim, m.split)]
      BY <1>1, <2>2, <3>0, HalfLists
    <3>2. m \in TreesOver[(j - 1) + 1][B]
      BY <2>2, <3>1, OverSplit
    <3>. QED  BY <3>2
  <2>. QED  BY <2>1, <2>2, OverCases
<1>. HIDE DEF Mono
<1>2. 0 \in G
  <2>1. 0 - 1 \notin Nat
    OBVIOUS
  <2>. QED  BY <1>1, <2>1
<1>3. ASSUME NEW j \in G PROVE j + 1 \in G
  <2>1. (j + 1) - 1 = j /\ j + 1 \in Nat
    OBVIOUS
  <2>. QED  BY <1>1, <2>1
<1>. HIDE DEF G
<1>4. G = Nat
  BY <1>2, <1>3, NaturalSet DEF G
<1>. QED  BY <1>4 DEF G, Mono

LEMMA TreesNext ==
  ASSUME NEW k \in Nat
  PROVE  Trees[k] \subseteq Trees[k + 1]
<1>. DEFINE G == {j \in Nat : Trees[j] \subseteq Trees[j + 1]}
<1>0. ASSUME NEW j \in Nat
      PROVE  Trees[j + 1] = ListNodes \cup SplitNodes(Trees[j])
  <2>1. (j + 1) - 1 = j /\ j + 1 \in Nat /\ j + 1 # 0
    OBVIOUS
  <2>. QED  BY <2>1, TreesDef
<1>1. 0 \in G
  <2>1. Trees[0] = ListNodes
    BY TreesDef
  <2>2. Trees[0 + 1] = ListNodes \cup SplitNodes(Trees[0])
    BY <1>0
  <2>. QED  BY <2>1, <2>2
<1>2. ASSUME NEW j \in G PROVE j + 1 \in G
  <2>1. Trees[j + 1] = ListNodes \cup SplitNodes(Trees[j])
    BY <1>0
  <2>2. Trees[(j + 1) + 1] = ListNodes \cup SplitNodes(Trees[j + 1])
    BY <1>0
  <2>3. SplitNodes(Trees[j]) \subseteq SplitNodes(Trees[j + 1])
    BY SplitNodesMonotone
  <2>. QED  BY <2>1, <2>2, <2>3
<1>. HIDE DEF G
<1>3. G = Nat
  BY <1>1, <1>2, NaturalSet DEF G
<1>. QED  BY <1>3 DEF G

LEMMA OverNext ==
  ASSUME NEW k \in Nat, NEW R \in SUBSET Rules, NEW n \in TreesOver[k][R]
  PROVE  n \in TreesOver[k + 1][R]
<1>. DEFINE Up(j) == \A A \in SUBSET Rules : TreesOver[j][A] \subseteq TreesOver[j + 1][A]
            G == {j \in Nat : Up(j)}
<1>1. ASSUME NEW j \in Nat, j - 1 \in Nat => Up(j - 1)
      PROVE  Up(j)
  <2>. SUFFICES ASSUME NEW A \in SUBSET Rules, NEW m \in TreesOver[j][A]
                PROVE  m \in TreesOver[j + 1][A]
    OBVIOUS
  <2>1. CASE m \in ListNodes /\ m.rules \subseteq A
    BY <2>1, OverList
  <2>2. CASE /\ j - 1 \in Nat /\ m.kind = "split" /\ m \in SplitNodes(Trees[j - 1])
             /\ m.left \in TreesOver[j - 1][LeftList(A, m.dim, m.split)]
             /\ m.right \in TreesOver[j - 1][RightList(A, m.dim, m.split)]
    <3>0. (j - 1) + 1 = j
      OBVIOUS
    <3>1. /\ m.left \in TreesOver[j][LeftList(A, m.dim, m.split)]
          /\ m.right \in TreesOver[j][RightList(A, m.dim, m.split)]
      BY <1>1, <2>2, <3>0, HalfLists
    <3>2. m \in SplitNodes(Trees[j])
      <4>1. Trees[j - 1] \subseteq Trees[(j - 1) + 1]
        BY <2>2, TreesNext
      <4>. QED  BY <2>2, <3>0, <4>1, SplitNodesMonotone
    <3>. QED  BY <3>1, <3>2, OverSplit
  <2>. QED  BY <2>1, <2>2, OverCases
<1>. HIDE DEF Up
<1>2. 0 \in G
  <2>1. 0 - 1 \notin Nat
    OBVIOUS
  <2>. QED  BY <1>1, <2>1
<1>3. ASSUME NEW j \in G PROVE j + 1 \in G
  <2>1. (j + 1) - 1 = j /\ j + 1 \in Nat
    OBVIOUS
  <2>. QED  BY <1>1, <2>1
<1>. HIDE DEF G
<1>4. G = Nat
  BY <1>2, <1>3, NaturalSet DEF G
<1>. QED  BY <1>4 DEF G, Up

LEMMA OverAbove ==
  ASSUME NEW j \in Nat, NEW k \in Nat, j <= k, NEW R \in SUBSET Rules, NEW n \in TreesOver[j][R]
  PROVE  n \in TreesOver[k][R]
<1>. DEFINE G == {i \in Nat : n \in TreesOver[j + i][R]}
<1>1. 0 \in G
  <2>1. j + 0 = j
    OBVIOUS
  <2>. QED  BY <2>1
<1>2. ASSUME NEW i \in G PROVE i + 1 \in G
  <2>1. j + (i + 1) = (j + i) + 1 /\ j + i \in Nat
    OBVIOUS
  <2>2. n \in TreesOver[(j + i) + 1][R]
    BY <2>1, OverNext
  <2>. QED  BY <2>1, <2>2
<1>. HIDE DEF G
<1>3. G = Nat
  BY <1>1, <1>2, NaturalSet DEF G
<1>4. k - j \in Nat /\ j + (k - j) = k
  OBVIOUS
<1>. QED  BY <1>3, <1>4 DEF G

(* A tree over R, as it is kept: counting its levels itself *)
Tree(n, R) == n.levels \in Nat /\ n \in TreesOver[n.levels][R]

LEMMA TreeList ==
  ASSUME NEW R \in SUBSET Rules, NEW n \in ListNodes, n.rules \subseteq R
  PROVE  Tree(n, R)
BY OverList, ListShape DEF Tree

LEMMA TreeSplit ==
  ASSUME NEW R \in SUBSET Rules, NEW n, NEW T, n \in SplitNodes(T),
         Tree(n.left, LeftList(R, n.dim, n.split)), Tree(n.right, RightList(R, n.dim, n.split))
  PROVE  Tree(n, R)
<1>1. /\ n.kind = "split" /\ n.levels \in Nat /\ n.bounds \in AnyBounds
      /\ n.dim \in Fields /\ n.split \in Int
      /\ n.left.levels < n.levels /\ n.right.levels < n.levels
  BY SplitShape
<1>2. PICK k : k = n.levels - 1
  OBVIOUS
<1>3. k \in Nat /\ k + 1 = n.levels /\ n.left.levels <= k /\ n.right.levels <= k
      /\ n.left.levels \in Nat /\ n.right.levels \in Nat
  BY <1>1, <1>2 DEF Tree
<1>4. /\ n.left \in TreesOver[k][LeftList(R, n.dim, n.split)]
      /\ n.right \in TreesOver[k][RightList(R, n.dim, n.split)]
  BY <1>3, OverAbove, HalfLists DEF Tree
<1>5. n.left \in Trees[k] /\ n.right \in Trees[k]
  BY <1>3, <1>4, OverIs, HalfLists
<1>6. n \in SplitNodes(Trees[k])
  BY <1>5 DEF SplitNodes
<1>7. n \in TreesOver[k + 1][R]
  BY <1>3, <1>4, <1>6, OverSplit
<1>. QED  BY <1>1, <1>3, <1>7 DEF Tree

LEMMA TreeCounts ==
  ASSUME NEW k \in Nat, NEW R \in SUBSET Rules, NEW n \in TreesOver[k][R]
  PROVE  Tree(n, R)
<1>. DEFINE Own(j) == \A A \in SUBSET Rules : \A m \in TreesOver[j][A] : Tree(m, A)
            G == {j \in Nat : Own(j)}
<1>1. ASSUME NEW j \in Nat, j - 1 \in Nat => Own(j - 1)
      PROVE  Own(j)
  <2>. SUFFICES ASSUME NEW A \in SUBSET Rules, NEW m \in TreesOver[j][A]
                PROVE  Tree(m, A)
    OBVIOUS
  <2>1. CASE m \in ListNodes /\ m.rules \subseteq A
    BY <2>1, TreeList
  <2>2. CASE /\ j - 1 \in Nat /\ m.kind = "split" /\ m \in SplitNodes(Trees[j - 1])
             /\ m.left \in TreesOver[j - 1][LeftList(A, m.dim, m.split)]
             /\ m.right \in TreesOver[j - 1][RightList(A, m.dim, m.split)]
    <3>1. /\ Tree(m.left, LeftList(A, m.dim, m.split))
          /\ Tree(m.right, RightList(A, m.dim, m.split))
      BY <1>1, <2>2, HalfLists
    <3>. QED  BY <2>2, <3>1, TreeSplit
  <2>. QED  BY <2>1, <2>2, OverCases
<1>. HIDE DEF Own
<1>2. 0 \in G
  <2>1. 0 - 1 \notin Nat
    OBVIOUS
  <2>. QED  BY <1>1, <2>1
<1>3. ASSUME NEW j \in G PROVE j + 1 \in G
  <2>1. (j + 1) - 1 = j /\ j + 1 \in Nat
    OBVIOUS
  <2>. QED  BY <1>1, <2>1
<1>. HIDE DEF G
<1>4. G = Nat
  BY <1>2, <1>3, NaturalSet DEF G
<1>. QED  BY <1>4 DEF G, Own

LEMMA TreeShape ==
  ASSUME NEW R \in SUBSET Rules, NEW n, Tree(n, R)
  PROVE  \/ n \in ListNodes /\ n.rules \subseteq R
         \/ /\ n.kind = "split" /\ n.bounds \in AnyBounds /\ n.dim \in Fields /\ n.split \in Int
            /\ Tree(n.left, LeftList(R, n.dim, n.split))
            /\ Tree(n.right, RightList(R, n.dim, n.split))
<1>1. PICK k : k = n.levels
  OBVIOUS
<1>2. k \in Nat /\ n \in TreesOver[k][R]
  BY <1>1 DEF Tree
<1>3. CASE n \in ListNodes /\ n.rules \subseteq R
  BY <1>3
<1>4. CASE /\ k - 1 \in Nat /\ n.kind = "split" /\ n \in SplitNodes(Trees[k - 1])
           /\ n.left \in TreesOver[k - 1][LeftList(R, n.dim, n.split)]
           /\ n.right \in TreesOver[k - 1][RightList(R, n.dim, n.split)]
  <2>1. n.bounds \in AnyBounds /\ n.dim \in Fields /\ n.split \in Int
    BY <1>4, SplitShape
  <2>. QED  BY <1>4, <2>1, TreeCounts, HalfLists
<1>. QED  BY <1>2, <1>3, <1>4, OverCases

LEMMA TreeMonotone ==
  ASSUME NEW R \in SUBSET Rules, NEW Q \in SUBSET Rules, R \subseteq Q, NEW n, Tree(n, R)
  PROVE  Tree(n, Q)
<1>1. PICK k : k = n.levels
  OBVIOUS
<1>. QED  BY <1>1, OverMonotone DEF Tree

-----------------------------------------------------------------------------
(* The leaf a packet is led to *)

LEMMA LeafFromList ==
  ASSUME NEW p, NEW k \in Nat, NEW n \in ListNodes
  PROVE  LeafFrom(p)[k][n] = n
<1>1. PICK f : f = LeafFrom(p)[k - 1]
  OBVIOUS
<1>2. LeafFrom(p)[k] = LeafStep(p, f, k)
  BY <1>1, LeafDef
<1>. QED  BY <1>2, ListIsTree, ListShape DEF LeafStep

LEMMA LeafFromSplit ==
  ASSUME NEW p, NEW k \in Nat, NEW n \in Trees[k], n.kind = "split"
  PROVE  LeafFrom(p)[k][n] =
           LeafFrom(p)[k - 1][IF Value[p][n.dim] <= n.split THEN n.left ELSE n.right]
<1>1. PICK f : f = LeafFrom(p)[k - 1]
  OBVIOUS
<1>2. LeafFrom(p)[k] = LeafStep(p, f, k)
  BY <1>1, LeafDef
<1>. QED  BY <1>1, <1>2 DEF LeafStep

(* How many levels are allowed for makes no difference to a search. *)
LEMMA LeafSame ==
  ASSUME NEW p, NEW k \in Nat, NEW j \in Nat, NEW n \in Trees[k], n \in Trees[j]
  PROVE  LeafFrom(p)[k][n] = LeafFrom(p)[j][n]
<1>. DEFINE Same(a) == \A b \in Nat : \A m : m \in Trees[a] /\ m \in Trees[b] =>
                         LeafFrom(p)[a][m] = LeafFrom(p)[b][m]
            G == {a \in Nat : Same(a)}
<1>1. ASSUME NEW a \in Nat, a - 1 \in Nat => Same(a - 1)
      PROVE  Same(a)
  <2>. SUFFICES ASSUME NEW b \in Nat, NEW m, m \in Trees[a], m \in Trees[b]
                PROVE  LeafFrom(p)[a][m] = LeafFrom(p)[b][m]
    OBVIOUS
  <2>1. CASE m \in ListNodes
    BY <2>1, LeafFromList
  <2>2. CASE m \notin ListNodes
    <3>. DEFINE c == IF Value[p][m.dim] <= m.split THEN m.left ELSE m.right
    <3>1. a - 1 \in Nat /\ m.kind = "split" /\ m \in SplitNodes(Trees[a - 1])
      BY <2>2, TreeCases
    <3>2. b - 1 \in Nat /\ m \in SplitNodes(Trees[b - 1])
      BY <2>2, TreeCases
    <3>3. c \in Trees[a - 1] /\ c \in Trees[b - 1]
      BY <3>1, <3>2, SplitShape
    <3>4. LeafFrom(p)[a][m] = LeafFrom(p)[a - 1][c] /\ LeafFrom(p)[b][m] = LeafFrom(p)[b - 1][c]
      BY <3>1, LeafFromSplit
    <3>. HIDE DEF c
    <3>. QED  BY <1>1, <3>1, <3>2, <3>3, <3>4
  <2>. QED  BY <2>1, <2>2
<1>. HIDE DEF Same
<1>2. 0 \in G
  <2>1. 0 - 1 \notin Nat
    OBVIOUS
  <2>. QED  BY <1>1, <2>1
<1>3. ASSUME NEW a \in G PROVE a + 1 \in G
  <2>1. (a + 1) - 1 = a /\ a + 1 \in Nat
    OBVIOUS
  <2>. QED  BY <1>1, <2>1
<1>. HIDE DEF G
<1>4. G = Nat
  BY <1>2, <1>3, NaturalSet DEF G
<1>. QED  BY <1>4 DEF G, Same

LEMMA LeafOfList ==
  ASSUME NEW p, NEW n \in ListNodes
  PROVE  LeafOf(n, p) = n
BY LeafFromList, ListShape DEF LeafOf

LEMMA LeafOfSplit ==
  ASSUME NEW p, NEW R \in SUBSET Rules, NEW n, Tree(n, R), n.kind = "split"
  PROVE  LeafOf(n, p) =
           IF Value[p][n.dim] <= n.split THEN LeafOf(n.left, p) ELSE LeafOf(n.right, p)
<1>1. PICK k : k = n.levels
  OBVIOUS
<1>. DEFINE c == IF Value[p][n.dim] <= n.split THEN n.left ELSE n.right
<1>2. k \in Nat /\ n \in TreesOver[k][R] /\ n \in Trees[k]
  BY <1>1, OverIs DEF Tree
<1>3. /\ k - 1 \in Nat
      /\ n.left \in TreesOver[k - 1][LeftList(R, n.dim, n.split)]
      /\ n.right \in TreesOver[k - 1][RightList(R, n.dim, n.split)]
  BY <1>2, OverCases, ListShape
<1>4. PICK Q \in SUBSET Rules : c \in TreesOver[k - 1][Q]
  BY <1>3, HalfLists
<1>5. LeafOf(n, p) = LeafFrom(p)[k - 1][c]
  BY <1>1, <1>2, LeafFromSplit DEF LeafOf
<1>6. Tree(c, Q) /\ c \in Trees[k - 1]
  BY <1>3, <1>4, TreeCounts, OverIs
<1>7. c.levels \in Nat /\ c \in Trees[c.levels]
  <2>1. PICK j : j = c.levels
    OBVIOUS
  <2>2. j \in Nat /\ c \in TreesOver[j][Q]
    BY <1>6, <2>1 DEF Tree
  <2>3. c \in Trees[j]
    BY <2>2, OverIs
  <2>. QED  BY <2>1, <2>2, <2>3
<1>8. LeafFrom(p)[k - 1][c] = LeafOf(c, p)
  BY <1>3, <1>6, <1>7, LeafSame DEF LeafOf
<1>. QED  BY <1>5, <1>8

(* A packet is led to a list of rules the tree is over. *)
LEMMA LeafOver ==
  ASSUME NEW p, NEW R \in SUBSET Rules, NEW n, Tree(n, R)
  PROVE  LeafOf(n, p) \in ListNodes /\ LeafOf(n, p).rules \subseteq R
<1>. DEFINE Fine(j) == \A A \in SUBSET Rules : \A m \in TreesOver[j][A] :
                         LeafOf(m, p) \in ListNodes /\ LeafOf(m, p).rules \subseteq A
            G == {j \in Nat : Fine(j)}
<1>1. ASSUME NEW j \in Nat, j - 1 \in Nat => Fine(j - 1)
      PROVE  Fine(j)
  <2>. SUFFICES ASSUME NEW A \in SUBSET Rules, NEW m \in TreesOver[j][A]
                PROVE  LeafOf(m, p) \in ListNodes /\ LeafOf(m, p).rules \subseteq A
    OBVIOUS
  <2>1. CASE m \in ListNodes /\ m.rules \subseteq A
    BY <2>1, LeafOfList
  <2>2. CASE /\ j - 1 \in Nat /\ m.kind = "split" /\ m \in SplitNodes(Trees[j - 1])
             /\ m.left \in TreesOver[j - 1][LeftList(A, m.dim, m.split)]
             /\ m.right \in TreesOver[j - 1][RightList(A, m.dim, m.split)]
    <3>1. /\ LeafOf(m.left, p) \in ListNodes
          /\ LeafOf(m.left, p).rules \subseteq LeftList(A, m.dim, m.split)
          /\ LeafOf(m.right, p) \in ListNodes
          /\ LeafOf(m.right, p).rules \subseteq RightList(A, m.dim, m.split)
      BY <1>1, <2>2, HalfLists
    <3>2. LeafOf(m, p) = LeafOf(m.left, p) \/ LeafOf(m, p) = LeafOf(m.right, p)
      BY <2>2, TreeCounts, LeafOfSplit
    <3>. QED  BY <3>1, <3>2, HalfLists
  <2>. QED  BY <2>1, <2>2, OverCases
<1>. HIDE DEF Fine
<1>2. 0 \in G
  <2>1. 0 - 1 \notin Nat
    OBVIOUS
  <2>. QED  BY <1>1, <2>1
<1>3. ASSUME NEW j \in G PROVE j + 1 \in G
  <2>1. (j + 1) - 1 = j /\ j + 1 \in Nat
    OBVIOUS
  <2>. QED  BY <1>1, <2>1
<1>. HIDE DEF G
<1>4. G = Nat
  BY <1>2, <1>3, NaturalSet DEF G
<1>5. PICK k : k = n.levels
  OBVIOUS
<1>6. k \in Nat /\ n \in TreesOver[k][R]
  BY <1>5 DEF Tree
<1>. QED  BY <1>4, <1>6 DEF G, Fine

(* A split node put together from two trees *)
LEMMA Joined ==
  ASSUME NEW R \in SUBSET Rules, NEW b \in AnyBounds, NEW d \in Fields, NEW s \in Int, NEW l, NEW r,
         Tree(l, LeftList(R, d, s)), Tree(r, RightList(R, d, s)),
         NEW n, n = SplitNode(b, d, s, l, r)
  PROVE  /\ Tree(n, R)
         /\ \A p : LeafOf(n, p) = IF Value[p][d] <= s THEN LeafOf(l, p) ELSE LeafOf(r, p)
<1>0. PICK T : T = {l, r}
  OBVIOUS
<1>1. l.levels \in Nat /\ r.levels \in Nat /\ l \in T /\ r \in T
  BY <1>0 DEF Tree
<1>2. /\ n \in SplitNodes(T) /\ n.kind = "split"
      /\ n.dim = d /\ n.split = s /\ n.left = l /\ n.right = r
  BY <1>1, SplitIs
<1>3. Tree(n, R)
  BY <1>2, TreeSplit
<1>4. ASSUME NEW p
      PROVE  LeafOf(n, p) = IF Value[p][d] <= s THEN LeafOf(l, p) ELSE LeafOf(r, p)
  BY <1>2, <1>3, LeafOfSplit
<1>. QED  BY <1>3, <1>4

(* Finite sets of numbers, and their order *)

LEMMA LeastOf ==
  ASSUME NEW T \in SUBSET Nat, T # {}
  PROVE  Min(T) \in T /\ \A y \in T : Min(T) <= y
BY LeastNat DEF Min

LEMMA MaxMinOfTwo ==
  ASSUME NEW a \in Int, NEW b \in Int
  PROVE  Max({a, b}) \in Int /\ Min({a, b}) \in Int
<1>1. (\E x \in {a, b} : \A y \in {a, b} : x >= y) /\ (\E x \in {a, b} : \A y \in {a, b} : x <= y)
  OBVIOUS
<1>. QED  BY <1>1 DEF Max, Min

-----------------------------------------------------------------------------
(* The numbers a split is chosen by *)

LEMMA BoundTypes ==
  /\ \A r \in Rules, f \in Fields : Low[r][f] \in Int /\ High[r][f] \in Int
  /\ \A p \in Packets, f \in Fields : Value[p][f] \in Int
BY BoxAssumption

LEMMA SortedNumbers ==
  ASSUME NEW T \in SUBSET Int, IsFiniteSet(T)
  PROVE  /\ Cardinality(T) \in Nat /\ Ranked(T, <) \in [1..Cardinality(T) -> T]
         /\ Elems(Ranked(T, <)) = T
         /\ \A i, j \in 1..Cardinality(T) : i < j => Ranked(T, <)[i] < Ranked(T, <)[j]
<1>1. PICK R : R = {e \in T \X T : e[1] < e[2]}
  OBVIOUS
<1>2. \A x, y \in T : <<x, y>> \in R <=> x < y
  BY <1>1
<1>3. /\ \A x \in T : <<x, x>> \notin R
      /\ \A x, y, z \in T : <<x, y>> \in R /\ <<y, z>> \in R => <<x, z>> \in R
      /\ \A x, y \in T : x # y => <<x, y>> \in R \/ <<y, x>> \in R
  BY <1>2
<1>4. \A x \in T : {y \in T : y < x} = Below(T, R, x)
  BY <1>2 DEF Below
<1>5. /\ Cardinality(T) \in Nat /\ RankedBy(T, R) \in [1..Cardinality(T) -> T]
      /\ Elems(RankedBy(T, R)) = T
      /\ \A i, j \in 1..Cardinality(T) : i < j => <<RankedBy(T, R)[i], RankedBy(T, R)[j]>> \in R
  BY <1>3, RankedElems, RankedOrder
<1>6. Ranked(T, <) = RankedBy(T, R)
  <2>1. ASSUME NEW i \in 1..Cardinality(T)
        PROVE  (CHOOSE x \in T : Cardinality({y \in T : y < x}) = i - 1)
               = CHOOSE x \in T : Cardinality(Below(T, R, x)) = i - 1
    <3>1. \A x : (x \in T /\ Cardinality({y \in T : y < x}) = i - 1)
                   <=> (x \in T /\ Cardinality(Below(T, R, x)) = i - 1)
      BY <1>4
    <3>. QED  BY <3>1, Zenon
  <2>2. Ranked(T, <) = [i \in 1..Cardinality(T) |->
                          CHOOSE x \in T : Cardinality({y \in T : y < x}) = i - 1]
    BY DEF Ranked
  <2>. QED  BY <2>1, <2>2, Zenon DEF RankedBy
<1>7. \A i, j \in 1..Cardinality(T) : i < j => RankedBy(T, R)[i] < RankedBy(T, R)[j]
  <2>1. ASSUME NEW i \in 1..Cardinality(T), NEW j \in 1..Cardinality(T), i < j
        PROVE  RankedBy(T, R)[i] < RankedBy(T, R)[j]
    <3>1. PICK q : q = RankedBy(T, R)
      OBVIOUS
    <3>2. q[i] \in T /\ q[j] \in T /\ <<q[i], q[j]>> \in R
      BY <1>5, <2>1, <3>1
    <3>. QED  BY <1>2, <3>1, <3>2
  <2>. QED  BY <2>1
<1>. QED  BY Zenon, <1>5, <1>6, <1>7

LEMMA ClippedInt ==
  ASSUME NEW b \in AnyBounds, NEW r \in Rules, NEW d \in Fields
  PROVE  /\ b[d].low \in Int /\ b[d].high \in Int
         /\ Clipped(r, d, b).low \in Int /\ Clipped(r, d, b).high \in Int
<1>1. b[d].low \in Int /\ b[d].high \in Int
  BY DEF AnyBounds
<1>2. /\ Clipped(r, d, b).low = Max({Low[r][d], b[d].low})
      /\ Clipped(r, d, b).high = Min({High[r][d], b[d].high})
  BY DEF Clipped, Interval
<1>3. ASSUME NEW a \in Int, NEW c \in Int PROVE Max({a, c}) \in Int /\ Min({a, c}) \in Int
  BY <1>3, MaxMinOfTwo
<1>4. Low[r][d] \in Int /\ High[r][d] \in Int
  BY BoundTypes
<1>. QED  BY <1>1, <1>2, <1>3, <1>4

LEMMA SplitPointsOK ==
  ASSUME NEW b \in AnyBounds, NEW S \in SUBSET Rules, NEW d \in Fields
  PROVE  /\ GetSplitPoints(b, S, d) \in SUBSET Int
         /\ IsFiniteSet(GetSplitPoints(b, S, d))
         /\ GetSplitPoints(b, S, d) # {}
<1>1. IsFiniteSet(S)
  BY BoxAssumption, FS_Subset
<1>. DEFINE H == {Clipped(r, d, b).high : r \in S}
            L == {Clipped(r, d, b).low : r \in S}
            M == L \ {b[d].low}
            D == {l - 1 : l \in M}
<1>2. b[d].high \in Int
  BY DEF AnyBounds
<1>3. IsFiniteSet(H) /\ H \in SUBSET Int
  <2>1. PICK f : f = [r \in S |-> Clipped(r, d, b).high]
    OBVIOUS
  <2>2. DOMAIN f = S /\ H = {f[r] : r \in S}
    BY <2>1
  <2>3. \A r \in S : Clipped(r, d, b).high \in Int
    BY ClippedInt
  <2>. QED  BY <1>1, <2>2, <2>3, ImageFinite
<1>4. IsFiniteSet(L) /\ L \in SUBSET Int
  <2>1. PICK f : f = [r \in S |-> Clipped(r, d, b).low]
    OBVIOUS
  <2>2. DOMAIN f = S /\ L = {f[r] : r \in S}
    BY <2>1
  <2>3. \A r \in S : Clipped(r, d, b).low \in Int
    BY ClippedInt
  <2>. QED  BY <1>1, <2>2, <2>3, ImageFinite
<1>. HIDE DEF H, L
<1>5. IsFiniteSet(M) /\ M \in SUBSET Int
  BY <1>4, FS_Subset
<1>. HIDE DEF M
<1>6. IsFiniteSet(D) /\ D \in SUBSET Int
  <2>1. PICK f : f = [l \in M |-> l - 1]
    OBVIOUS
  <2>2. DOMAIN f = M /\ D = {f[l] : l \in M}
    BY <2>1
  <2>3. D \in SUBSET Int
    BY <1>5
  <2>. HIDE DEF D
  <2>. QED  BY <1>5, <2>2, <2>3, ImageFinite
<1>. HIDE DEF D
<1>7. GetSplitPoints(b, S, d) = {b[d].high} \cup H \cup D
  BY Zenon DEF GetSplitPoints, H, D, L, M
<1>8. IsFiniteSet({b[d].high}) /\ IsFiniteSet({b[d].high} \cup H)
  BY <1>3, FS_Singleton, FS_Union
<1>9. IsFiniteSet({b[d].high} \cup H \cup D)
  BY <1>6, <1>8, FS_Union
<1>. QED  BY <1>2, <1>3, <1>6, <1>7, <1>9

(* The segments of a field: there is one at least. *)
Segments(q, n) ==
  /\ n \in Nat /\ n >= 1 /\ DOMAIN q = 1..n /\ Len(q) = n
  /\ \A i \in 1..n : q[i].high \in Int

LEMMA RangesOK ==
  ASSUME NEW b \in AnyBounds, NEW S \in SUBSET Rules, NEW d \in Fields
  PROVE  \E n : Segments(GetRanges(b, S, d), n)
<1>1. PICK T : T = GetSplitPoints(b, S, d)
  OBVIOUS
<1>2. T \in SUBSET Int /\ IsFiniteSet(T) /\ T # {}
  BY <1>1, SplitPointsOK
<1>3. PICK n : n = Cardinality(T)
  OBVIOUS
<1>4. PICK ends : ends = Ranked(T, <)
  BY Zenon
<1>5. n \in Nat /\ ends \in [1..n -> T]
  BY Zenon, <1>2, <1>3, <1>4, SortedNumbers
<1>6. n # 0
  BY <1>2, <1>3, FS_EmptySet
<1>7. PICK low : low = b[d].low
  OBVIOUS
<1>8. PICK q : q = GetRanges(b, S, d)
  OBVIOUS
<1>9. q = [i \in DOMAIN ends |-> Interval(IF i = 1 THEN low ELSE ends[i - 1] + 1, ends[i])]
  BY Zenon, <1>1, <1>4, <1>7, <1>8 DEF GetRanges, RangesTo
<1>10. DOMAIN q = 1..n
  BY <1>5, <1>9
<1>11. \A i \in 1..n : q[i].high = ends[i] /\ ends[i] \in Int
  BY <1>2, <1>5, <1>9 DEF Interval
<1>12. Len(q) = n
  <2>1. PICK Z : Z = {q[i] : i \in 1..n}
    OBVIOUS
  <2>2. q \in [1..n -> Z]
    BY <1>9, <1>10, <2>1
  <2>. QED  BY <1>5, <2>2, SeqOfLength
<1>. QED  BY <1>5, <1>6, <1>8, <1>10, <1>11, <1>12 DEF Segments

LEMMA CostsOK ==
  ASSUME NEW S \in SUBSET Rules, NEW d, NEW n, NEW q, Segments(q, n)
  PROVE  Costs(S, d, q) \in [1..n -> Nat] /\ Len(Costs(S, d, q)) = n
<1>1. IsFiniteSet(S)
  BY BoxAssumption, FS_Subset
<1>2. ASSUME NEW i
      PROVE  Cardinality({r \in S : Low[r][d] <= q[i].low /\ High[r][d] >= q[i].high}) \in Nat
  <2>1. PICK T : T = {r \in S : Low[r][d] <= q[i].low /\ High[r][d] >= q[i].high}
    OBVIOUS
  <2>2. T \in SUBSET S
    BY <2>1
  <2>. QED  BY <1>1, <2>1, <2>2, FS_Subset, FS_CardinalityType
<1>3. PICK c : c = Costs(S, d, q)
  OBVIOUS
<1>4. c \in [1..n -> Nat]
  BY <1>2, <1>3 DEF Costs, Segments
<1>5. Len(c) = n
  BY <1>4, SeqOfLength DEF Segments
<1>. QED  BY <1>3, <1>4, <1>5

Sums(f, c, n) == f = [k \in 0..n |-> IF k = 0 THEN 0 ELSE f[k - 1] + c[k]]

LEMMA SumsExist ==
  ASSUME NEW c, NEW n \in Nat
  PROVE  \E f : Sums(f, c, n)
<1>. DEFINE G == {k \in Nat : \E f : Sums(f, c, k)}
<1>1. 0 \in G
  <2>. DEFINE f == [k \in 0..0 |-> 0]
  <2>1. Sums(f, c, 0)
    BY DEF Sums
  <2>. QED  BY <2>1
<1>2. ASSUME NEW k \in G PROVE k + 1 \in G
  <2>1. PICK f : Sums(f, c, k)
    OBVIOUS
  <2>. DEFINE g == [i \in 0..(k + 1) |-> IF i = k + 1 THEN f[k] + c[k + 1] ELSE f[i]]
  <2>2. ASSUME NEW i \in 0..(k + 1)
        PROVE  g[i] = IF i = 0 THEN 0 ELSE g[i - 1] + c[i]
    BY <2>1 DEF Sums
  <2>3. g = [i \in 0..(k + 1) |-> g[i]]
    OBVIOUS
  <2>4. Sums(g, c, k + 1)
    BY <2>2, <2>3 DEF Sums
  <2>. QED  BY <2>4
<1>. HIDE DEF G
<1>3. G = Nat
  BY <1>1, <1>2, NaturalSet DEF G
<1>. QED  BY <1>3 DEF G

LEMMA PartSumsOK ==
  ASSUME NEW n \in Nat, NEW c \in [1..n -> Nat], Len(c) = n
  PROVE  \A k \in 0..n : PartSums(c)[k] \in Nat
<1>. DEFINE f == CHOOSE g : Sums(g, c, n)
<1>1. Sums(f, c, n)
  BY SumsExist
<1>2. PartSums(c) = f
  BY Zenon DEF PartSums, Sums
<1>. HIDE DEF f
<1>. DEFINE G == {k \in Nat : k <= n => f[k] \in Nat}
<1>3. 0 \in G
  BY <1>1 DEF Sums
<1>4. ASSUME NEW k \in G PROVE k + 1 \in G
  <2>1. CASE k + 1 <= n
    <3>1. f[k + 1] = f[(k + 1) - 1] + c[k + 1]
      BY <1>1, <2>1 DEF Sums
    <3>2. (k + 1) - 1 = k /\ f[k] \in Nat /\ c[k + 1] \in Nat
      BY <2>1
    <3>. QED  BY <3>1, <3>2
  <2>. QED  BY <2>1
<1>. HIDE DEF G
<1>5. G = Nat
  BY <1>3, <1>4, NaturalSet DEF G
<1>. QED  BY <1>2, <1>5 DEF G

LEMMA HalfwayOK ==
  ASSUME NEW n, NEW q, Segments(q, n), NEW c \in [1..n -> Nat], Len(c) = n
  PROVE  Halfway(q, c) \in Int
<1>0. n \in Nat /\ n >= 1 /\ Len(q) = n /\ \A i \in 1..n : q[i].high \in Int
  BY DEF Segments
<1>1. PICK f : f = PartSums(c)
  OBVIOUS
<1>2. \A k \in 0..n : f[k] \in Nat
  BY <1>0, <1>1, PartSumsOK
<1>3. PICK total : total = f[n]
  OBVIOUS
<1>4. TotalCost(c) = total
  BY <1>1, <1>3 DEF TotalCost
<1>5. PICK I : I = {k \in DOMAIN c : f[k] >= total \div 2}
  OBVIOUS
<1>6. n \in I
  <2>1. total \in Nat /\ total >= total \div 2
    BY <1>0, <1>2, <1>3
  <2>. QED  BY <1>0, <1>3, <1>5, <2>1
<1>7. I \in SUBSET (1..n)
  BY <1>5
<1>8. PICK i : i = Min(I)
  OBVIOUS
<1>9. i \in 1..n
  <2>1. I \in SUBSET Nat /\ I # {}
    BY <1>0, <1>6, <1>7
  <2>2. i \in I
    BY <1>8, <2>1, LeastOf
  <2>. QED  BY <1>7, <2>2
<1>10. Halfway(q, c) = q[IF i = Len(q) /\ i > 1 THEN i - 1 ELSE i].high
  BY <1>1, <1>4, <1>5, <1>8 DEF Halfway
<1>11. (IF i = Len(q) /\ i > 1 THEN i - 1 ELSE i) \in 1..n
  BY <1>0, <1>9
<1>. QED  BY <1>0, <1>10, <1>11

LEMMA RatioTransitive ==
  ASSUME NEW a \in Nat, NEW b \in Nat, NEW c \in Nat,
         NEW x \in Nat, NEW y \in Nat, NEW z \in Nat, y # 0,
         a * y <= b * x, b * z <= c * y
  PROVE  a * z <= c * x
<1>1. \A u, v, w \in Nat : u <= v => u * w <= v * w
  OBVIOUS
<1>2. \A u, v \in Nat : u * y <= v * y => u <= v
  OBVIOUS
<1>3. a * y \in Nat /\ b * x \in Nat /\ b * z \in Nat /\ c * y \in Nat /\ a * z \in Nat /\ c * x \in Nat
  OBVIOUS
<1>4. (a * y) * z <= (b * x) * z
  BY <1>1, <1>3
<1>5. (b * z) * x <= (c * y) * x
  BY <1>1, <1>3
<1>6. (a * y) * z = (a * z) * y /\ (b * x) * z = (b * z) * x /\ (c * y) * x = (c * x) * y
  OBVIOUS
<1>7. (a * z) * y <= (c * x) * y
  BY <1>3, <1>4, <1>5, <1>6
<1>. QED  BY <1>2, <1>3, <1>7

LEMMA CheapestOK ==
  ASSUME NEW total \in [Fields -> Nat], NEW segments \in [Fields -> Nat],
         \A f \in Fields : segments[f] # 0
  PROVE  CheapestDim(total, segments) \in Fields
<1>. DEFINE Le(f, g) == total[f] * segments[g] <= total[g] * segments[f]
<1>0. PICK n : n = Len(Order)
  OBVIOUS
<1>1. /\ n \in Nat /\ n >= 1 /\ DOMAIN Order = 1..n /\ \A i \in 1..n : Order[i] \in Fields
      /\ \A g \in Fields : \E j \in 1..n : g = Order[j]
  BY <1>0, BoxAssumption DEF Elems
<1>2. \A f, g \in Fields : Le(f, g) \/ Le(g, f)
  OBVIOUS
<1>3. \A f, g, h \in Fields : Le(f, g) /\ Le(g, h) => Le(f, h)
  BY RatioTransitive
<1>. HIDE DEF Le
<1>. DEFINE G == {k \in Nat : k + 1 <= n => \E i \in 1..(k + 1) : \A j \in 1..(k + 1) : Le(Order[i], Order[j])}
<1>4. 0 \in G
  BY <1>1, <1>2
<1>5. ASSUME NEW k \in G PROVE k + 1 \in G
  <2>. SUFFICES ASSUME (k + 1) + 1 <= n
                PROVE  \E i \in 1..((k + 1) + 1) : \A j \in 1..((k + 1) + 1) : Le(Order[i], Order[j])
    OBVIOUS
  <2>1. PICK i \in 1..(k + 1) : \A j \in 1..(k + 1) : Le(Order[i], Order[j])
    BY <1>1
  <2>2. PICK m \in 1..n : m = (k + 1) + 1
    BY <1>1
  <2>3. \A j \in 1..m : j \in 1..(k + 1) \/ j = m
    BY <1>1, <2>2
  <2>4. i \in 1..m /\ m \in 1..m /\ \A j \in 1..m : Order[j] \in Fields
    BY <1>1, <2>2
  <2>5. CASE Le(Order[i], Order[m])
    BY <2>1, <2>2, <2>3, <2>4, <2>5
  <2>6. CASE ~ Le(Order[i], Order[m])
    <3>1. Le(Order[m], Order[i]) /\ Le(Order[m], Order[m])
      BY <1>2, <2>4, <2>6
    <3>2. \A j \in 1..m : Le(Order[m], Order[j])
      BY <1>3, <2>1, <2>3, <2>4, <3>1
    <3>. QED  BY <2>2, <2>4, <3>2
  <2>. QED  BY <2>5, <2>6
<1>. HIDE DEF G
<1>6. G = Nat
  BY <1>4, <1>5, NaturalSet DEF G
<1>7. \E i \in 1..n : \A j \in 1..n : Le(Order[i], Order[j])
  <2>1. n - 1 \in G /\ (n - 1) + 1 = n
    BY <1>1, <1>6
  <2>. QED  BY <1>1, <2>1 DEF G
<1>8. PICK I : I = {i \in DOMAIN Order : \A g \in Fields : Le(Order[i], g)}
  OBVIOUS
<1>9. I # {} /\ I \in SUBSET (1..n)
  <2>1. PICK i \in 1..n : \A j \in 1..n : Le(Order[i], Order[j])
    BY <1>7
  <2>2. \A g \in Fields : Le(Order[i], g)
    BY <1>1, <2>1
  <2>3. i \in I
    BY <1>1, <1>8, <2>2
  <2>4. \A j \in I : j \in 1..n
    BY <1>1, <1>8
  <2>. QED  BY <2>3, <2>4
<1>10. Min(I) \in 1..n
  <2>1. I \in SUBSET Nat
    BY <1>9
  <2>. QED  BY <1>9, <2>1, LeastOf
<1>11. CheapestDim(total, segments) = Order[Min(I)]
  BY <1>8 DEF CheapestDim, Le
<1>. QED  BY <1>1, <1>10, <1>11

LEMMA SelectedField ==
  ASSUME NEW b \in AnyBounds, NEW S \in SUBSET Rules
  PROVE  SelectDimToSplit(b, S) \in Fields
<1>. DEFINE total == [f \in Fields |-> TotalCost(Costs(S, f, GetRanges(b, S, f)))]
            segments == [f \in Fields |-> Len(GetRanges(b, S, f))]
<1>1. ASSUME NEW f \in Fields
      PROVE  /\ TotalCost(Costs(S, f, GetRanges(b, S, f))) \in Nat
             /\ Len(GetRanges(b, S, f)) \in Nat /\ Len(GetRanges(b, S, f)) # 0
  <2>1. PICK q : q = GetRanges(b, S, f)
    OBVIOUS
  <2>2. PICK n : Segments(q, n)
    BY <2>1, RangesOK
  <2>3. n \in Nat /\ n # 0 /\ Len(q) = n
    BY <2>2 DEF Segments
  <2>4. Costs(S, f, q) \in [1..n -> Nat] /\ Len(Costs(S, f, q)) = n
    BY ZenonT(40), <2>2, CostsOK
  <2>5. PICK c : c = Costs(S, f, q) /\ c \in [1..n -> Nat] /\ Len(c) = n
    BY <2>4
  <2>6. TotalCost(c) \in Nat
    BY <2>3, <2>5, PartSumsOK DEF TotalCost
  <2>. QED  BY <2>1, <2>3, <2>5, <2>6
<1>2. total \in [Fields -> Nat] /\ segments \in [Fields -> Nat] /\ \A f \in Fields : segments[f] # 0
  BY <1>1
<1>3. SelectDimToSplit(b, S) = CheapestDim(total, segments)
  BY Zenon DEF SelectDimToSplit
<1>. HIDE DEF total, segments
<1>. QED  BY <1>2, <1>3, CheapestOK

LEMMA SelectedPoint ==
  ASSUME NEW b \in AnyBounds, NEW S \in SUBSET Rules, NEW d \in Fields
  PROVE  SelectSplitPoint(S, d, GetRanges(b, S, d)) \in Int
<1>1. PICK q : q = GetRanges(b, S, d)
  OBVIOUS
<1>2. PICK n : Segments(q, n)
  BY <1>1, RangesOK
<1>3. Costs(S, d, q) \in [1..n -> Nat] /\ Len(Costs(S, d, q)) = n
  BY <1>2, CostsOK
<1>4. PICK c : c = Costs(S, d, q) /\ c \in [1..n -> Nat] /\ Len(c) = n
  BY <1>3
<1>5. Halfway(q, c) \in Int
  BY <1>2, <1>4, HalfwayOK
<1>. QED  BY <1>1, <1>4, <1>5 DEF SelectSplitPoint

-----------------------------------------------------------------------------
(* A split loses no rule a packet matches *)

LEMMA MatchBox ==
  ASSUME NEW r, NEW p, <<r, p>> \in Match, NEW d \in Fields
  PROVE  /\ r \in Rules /\ p \in Packets
         /\ Low[r][d] \in Int /\ High[r][d] \in Int /\ Value[p][d] \in Int
         /\ Low[r][d] <= Value[p][d] /\ Value[p][d] <= High[r][d]
<1>1. r \in Rules /\ p \in Packets
  BY RuleSetAssumption
<1>. QED  BY <1>1, BoundTypes, BoxAssumption

(* A rule that matches is on the side of a split which the packet takes. *)
LEMMA MatchSide ==
  ASSUME NEW S, NEW r \in S, NEW p, <<r, p>> \in Match, NEW d \in Fields, NEW s \in Int
  PROVE  IF Value[p][d] <= s THEN r \in LeftList(S, d, s) ELSE r \in RightList(S, d, s)
<1>1. /\ Low[r][d] \in Int /\ High[r][d] \in Int /\ Value[p][d] \in Int
      /\ Low[r][d] <= Value[p][d] /\ Value[p][d] <= High[r][d]
  BY MatchBox
<1>. QED  BY <1>1 DEF LeftList, RightList

LEMMA NarrowedBounds ==
  ASSUME NEW b \in AnyBounds, NEW d \in Fields, NEW s \in Int
  PROVE  [b EXCEPT ![d].high = s] \in AnyBounds
<1>1. b \in [Fields -> [low : Int, high : Int]]
  BY DEF AnyBounds
<1>2. PICK e : e = [b[d] EXCEPT !.high = s]
  OBVIOUS
<1>3. e \in [low : Int, high : Int]
  BY <1>1, <1>2
<1>4. [b EXCEPT ![d] = e] \in [Fields -> [low : Int, high : Int]]
  BY <1>1, <1>3
<1>5. [b EXCEPT ![d].high = s] = [b EXCEPT ![d] = e]
  BY <1>2
<1>. QED  BY <1>4, <1>5 DEF AnyBounds

(* A tree in which no packet misses a rule of S *)
Full(t, S) ==
  /\ Tree(t, S)
  /\ \A p : \A r \in S : <<r, p>> \in Match => r \in LeafOf(t, p).rules

LEMMA FullList ==
  ASSUME NEW b \in AnyBounds, NEW S \in SUBSET Rules
  PROVE  Full(ListNode(b, S), S)
BY ListIs, TreeList, LeafOfList DEF Full

LEMMA SplitAtFull ==
  ASSUME NEW Halved, \A b \in AnyBounds, S \in SUBSET Rules : Full(Halved[b][S], S),
         NEW b \in AnyBounds, NEW S \in SUBSET Rules, NEW d \in Fields, NEW s \in Int
  PROVE  Full(SplitAt(Halved, b, S, d, s), S)
<1>1. PICK L : L = LeftList(S, d, s)
  OBVIOUS
<1>2. PICK R : R = RightList(S, d, s)
  OBVIOUS
<1>3. PICK l : l = Halved[[b EXCEPT ![d].high = s]][L]
  OBVIOUS
<1>4. PICK r : r = Halved[[b EXCEPT ![d].high = s + 1]][R]
  OBVIOUS
<1>5. L \in SUBSET Rules /\ R \in SUBSET Rules
  BY <1>1, <1>2, HalfLists
<1>6. Full(l, L) /\ Full(r, R)
  <2>1. [b EXCEPT ![d].high = s] \in AnyBounds
    BY NarrowedBounds
  <2>2. [b EXCEPT ![d].high = s + 1] \in AnyBounds
    <3>1. s + 1 \in Int
      OBVIOUS
    <3>. QED  BY <3>1, NarrowedBounds
  <2>. QED  BY <1>3, <1>4, <1>5, <2>1, <2>2, Zenon
<1>7. PICK n : n = SplitNode(b, d, s, l, r)
  OBVIOUS
<1>8. SplitAt(Halved, b, S, d, s) = ListNode(b, S) \/ SplitAt(Halved, b, S, d, s) = n
  BY <1>1, <1>2, <1>3, <1>4, <1>7, Zenon DEF SplitAt
<1>9. Tree(n, S) /\ \A p : LeafOf(n, p) = IF Value[p][d] <= s THEN LeafOf(l, p) ELSE LeafOf(r, p)
  BY <1>1, <1>2, <1>6, <1>7, Joined DEF Full
<1>10. ASSUME NEW p, NEW q \in S, <<q, p>> \in Match
       PROVE  q \in LeafOf(n, p).rules
  <2>1. IF Value[p][d] <= s THEN q \in L ELSE q \in R
    BY <1>1, <1>2, <1>10, MatchSide
  <2>. QED  BY <1>6, <1>9, <1>10, <2>1 DEF Full
<1>11. Full(n, S)
  BY <1>9, <1>10 DEF Full
<1>. QED  BY <1>8, <1>11, FullList

LEMMA SplitRulesFull ==
  ASSUME NEW b \in AnyBounds, NEW S \in SUBSET Rules
  PROVE  Full(SplitRules(b, S), S)
<1>. DEFINE AllFull(f) == \A c \in AnyBounds, A \in SUBSET Rules : Full(f[c][A], A)
            G == {k \in Nat : AllFull(SplitFrom[k])}
<1>1. ASSUME NEW k \in Nat, NEW f, SplitFrom[k] = SplitStep(f, k), k # 0 => AllFull(f)
      PROVE  AllFull(SplitFrom[k])
  <2>. SUFFICES ASSUME NEW c \in AnyBounds, NEW A \in SUBSET Rules
                PROVE  Full(SplitStep(f, k)[c][A], A)
    BY <1>1
  <2>. DEFINE d == SelectDimToSplit(c, A)
              s == SelectSplitPoint(A, d, GetRanges(c, A, d))
  <2>1. SplitStep(f, k)[c][A] =
          IF k = 0 \/ Cardinality(A) <= LeafSize THEN ListNode(c, A) ELSE SplitIn(f, c, A, d)
    BY DEF SplitStep
  <2>2. CASE k = 0 \/ Cardinality(A) <= LeafSize
    BY <2>1, <2>2, FullList
  <2>3. CASE k # 0 /\ ~ (Cardinality(A) <= LeafSize)
    <3>1. d \in Fields
      BY SelectedField
    <3>. HIDE DEF d
    <3>2. s \in Int
      BY <3>1, SelectedPoint
    <3>3. SplitIn(f, c, A, d) = SplitAt(f, c, A, d, s)
      BY Zenon DEF SplitIn
    <3>. HIDE DEF s
    <3>4. Full(SplitAt(f, c, A, d, s), A)
      BY <1>1, <2>3, <3>1, <3>2, SplitAtFull
    <3>. QED  BY <2>1, <2>3, <3>3, <3>4
  <2>. QED  BY <2>2, <2>3
<1>. HIDE DEF AllFull
<1>2. \A k \in Nat : SplitFrom[k] = SplitStep(SplitFrom[k - 1], k)
  BY SplitDef
<1>3. 0 \in G
  BY <1>1, <1>2
<1>4. ASSUME NEW k \in G PROVE k + 1 \in G
  <2>1. k + 1 \in Nat /\ (k + 1) - 1 = k
    OBVIOUS
  <2>2. SplitFrom[k + 1] = SplitStep(SplitFrom[k], k + 1)
    BY <1>2, <2>1
  <2>. QED  BY <1>1, <2>1, <2>2
<1>. HIDE DEF G
<1>5. G = Nat
  BY <1>3, <1>4, NaturalSet DEF G
<1>6. Cardinality(S) \in Nat
  BY BoxAssumption, FS_Subset, FS_CardinalityType
<1>7. AllFull(SplitFrom[Cardinality(S)])
  BY <1>5, <1>6 DEF G
<1>. QED  BY <1>7 DEF AllFull, SplitRules

-----------------------------------------------------------------------------
(* An insertion *)

(* What t kept of n, and got of the rule r *)
Kept(t, n, r) ==
  \A p, q : <<q, p>> \in Match /\ (q \in LeafOf(n, p).rules \/ q = r) => q \in LeafOf(t, p).rules

LEMMA InsertedInListOK ==
  ASSUME NEW R \in SUBSET Rules, NEW n \in ListNodes, n.rules \subseteq R, NEW r \in Rules
  PROVE  Tree(InsertedInList(n, r), R \cup {r}) /\ Kept(InsertedInList(n, r), n, r)
<1>. DEFINE Q == n.rules \cup {r}
            t == InsertedInList(n, r)
<1>1. n.bounds \in AnyBounds /\ Q \in SUBSET Rules /\ Q \subseteq R \cup {r}
  BY ListShape
<1>2. t = ListNode(n.bounds, Q) \/ t = SplitRules(n.bounds, Q)
  BY DEF InsertedInList
<1>. HIDE DEF Q, t
<1>3. Full(t, Q)
  BY <1>1, <1>2, FullList, SplitRulesFull
<1>4. Tree(t, R \cup {r})
  BY <1>1, <1>3, TreeMonotone DEF Full
<1>5. \A p : LeafOf(n, p).rules \cup {r} = Q
  BY LeafOfList DEF Q
<1>6. Kept(t, n, r)
  BY <1>3, <1>5 DEF Full, Kept
<1>. QED  BY <1>4, <1>6 DEF t

(* The rules on a side of a split, with one more *)
LEMMA HalfListsAdd ==
  ASSUME NEW R \in SUBSET Rules, NEW r \in Rules, NEW d \in Fields, NEW s \in Int
  PROVE  /\ LeftList(R \cup {r}, d, s) =
              IF Low[r][d] <= s THEN LeftList(R, d, s) \cup {r} ELSE LeftList(R, d, s)
         /\ RightList(R \cup {r}, d, s) =
              IF High[r][d] > s THEN RightList(R, d, s) \cup {r} ELSE RightList(R, d, s)
BY DEF LeftList, RightList

LEMMA InsertedOK ==
  ASSUME NEW R \in SUBSET Rules, NEW n, Tree(n, R), NEW r \in Rules
  PROVE  Tree(Inserted(n, r), R \cup {r}) /\ Kept(Inserted(n, r), n, r)
<1>. DEFINE Ins(j) == \A A \in SUBSET Rules : \A m \in TreesOver[j][A] :
                        /\ Tree(InsertedFrom(r)[j][m], A \cup {r})
                        /\ Kept(InsertedFrom(r)[j][m], m, r)
            G == {j \in Nat : Ins(j)}
<1>1. ASSUME NEW j \in Nat, j - 1 \in Nat => Ins(j - 1)
      PROVE  Ins(j)
  <2>0. PICK f : f = InsertedFrom(r)[j - 1]
    OBVIOUS
  <2>. SUFFICES ASSUME NEW A \in SUBSET Rules, NEW m \in TreesOver[j][A]
                PROVE  Tree(InsertedFrom(r)[j][m], A \cup {r}) /\ Kept(InsertedFrom(r)[j][m], m, r)
    OBVIOUS
  <2>1. m \in Trees[j]
    BY OverIs
  <2>2. InsertedFrom(r)[j][m] =
          IF m.kind = "list" THEN InsertedInList(m, r)
          ELSE SplitNode(m.bounds, m.dim, m.split,
                 IF Low[r][m.dim] <= m.split THEN f[m.left] ELSE m.left,
                 IF High[r][m.dim] > m.split THEN f[m.right] ELSE m.right)
    <3>1. InsertedFrom(r)[j] = InsertedStep(r, f, j)
      BY <2>0, InsertedDef
    <3>. QED  BY <2>1, <3>1 DEF InsertedStep
  <2>3. CASE m \in ListNodes /\ m.rules \subseteq A
    <3>1. m.kind = "list"
      BY <2>3, ListShape
    <3>. QED  BY <2>2, <2>3, <3>1, InsertedInListOK
  <2>4. CASE /\ j - 1 \in Nat /\ m.kind = "split" /\ m \in SplitNodes(Trees[j - 1])
             /\ m.left \in TreesOver[j - 1][LeftList(A, m.dim, m.split)]
             /\ m.right \in TreesOver[j - 1][RightList(A, m.dim, m.split)]
    <3>1. PICK d : d = m.dim
      OBVIOUS
    <3>2. PICK s : s = m.split
      OBVIOUS
    <3>3. d \in Fields /\ s \in Int /\ m.bounds \in AnyBounds
      BY <2>4, <3>1, <3>2, SplitShape
    <3>4. PICK l : l = IF Low[r][d] <= s THEN f[m.left] ELSE m.left
      OBVIOUS
    <3>5. PICK u : u = IF High[r][d] > s THEN f[m.right] ELSE m.right
      OBVIOUS
    <3>6. PICK B : B = A \cup {r}
      OBVIOUS
    <3>7. B \in SUBSET Rules
      BY <3>6
    <3>8. Tree(m.left, LeftList(A, d, s)) /\ Tree(m.right, RightList(A, d, s))
      BY <2>4, <3>1, <3>2, TreeCounts, HalfLists
    <3>9. /\ Tree(f[m.left], LeftList(A, d, s) \cup {r}) /\ Kept(f[m.left], m.left, r)
          /\ Tree(f[m.right], RightList(A, d, s) \cup {r}) /\ Kept(f[m.right], m.right, r)
      BY <1>1, <2>0, <2>4, <3>1, <3>2, HalfLists
    <3>10. Tree(l, LeftList(B, d, s)) /\ Tree(u, RightList(B, d, s))
      <4>1. /\ LeftList(B, d, s) =
                 IF Low[r][d] <= s THEN LeftList(A, d, s) \cup {r} ELSE LeftList(A, d, s)
            /\ RightList(B, d, s) =
                 IF High[r][d] > s THEN RightList(A, d, s) \cup {r} ELSE RightList(A, d, s)
        BY <3>3, <3>6, HalfListsAdd
      <4>. QED  BY <3>4, <3>5, <3>8, <3>9, <4>1
    <3>11. PICK t : t = SplitNode(m.bounds, d, s, l, u)
      OBVIOUS
    <3>12. /\ Tree(t, B)
           /\ \A p : LeafOf(t, p) = IF Value[p][d] <= s THEN LeafOf(l, p) ELSE LeafOf(u, p)
      BY SMTT(40), <3>3, <3>7, <3>10, <3>11, Joined
    <3>13. \A p : LeafOf(m, p) =
                    IF Value[p][d] <= s THEN LeafOf(m.left, p) ELSE LeafOf(m.right, p)
      BY <2>4, <3>1, <3>2, TreeCounts, LeafOfSplit
    <3>14. ASSUME NEW p, NEW q, <<q, p>> \in Match, q \in LeafOf(m, p).rules \/ q = r
           PROVE  q \in LeafOf(t, p).rules
      <4>1. /\ q = r /\ Value[p][d] <= s => Low[r][d] <= s
            /\ q = r /\ ~ (Value[p][d] <= s) => High[r][d] > s
        BY <3>3, <3>14, MatchBox
      <4>2. CASE Value[p][d] <= s
        <5>1. LeafOf(t, p) = LeafOf(l, p) /\ LeafOf(m, p) = LeafOf(m.left, p)
          BY <3>12, <3>13, <4>2
        <5>. QED  BY <3>4, <3>9, <3>14, <4>1, <4>2, <5>1 DEF Kept
      <4>3. CASE ~ (Value[p][d] <= s)
        <5>1. LeafOf(t, p) = LeafOf(u, p) /\ LeafOf(m, p) = LeafOf(m.right, p)
          BY <3>12, <3>13, <4>3
        <5>. QED  BY <3>5, <3>9, <3>14, <4>1, <4>3, <5>1 DEF Kept
      <4>. QED  BY <4>2, <4>3
    <3>15. InsertedFrom(r)[j][m] = t
      BY <2>2, <2>4, <3>1, <3>2, <3>4, <3>5, <3>11
    <3>. QED  BY <3>6, <3>12, <3>14, <3>15 DEF Kept
  <2>. QED  BY <2>3, <2>4, OverCases
<1>. HIDE DEF Ins
<1>2. 0 \in G
  <2>1. 0 - 1 \notin Nat
    OBVIOUS
  <2>. QED  BY <1>1, <2>1
<1>3. ASSUME NEW j \in G PROVE j + 1 \in G
  <2>1. (j + 1) - 1 = j /\ j + 1 \in Nat
    OBVIOUS
  <2>. QED  BY <1>1, <2>1
<1>. HIDE DEF G
<1>4. G = Nat
  BY <1>2, <1>3, NaturalSet DEF G
<1>5. PICK k : k = n.levels
  OBVIOUS
<1>6. k \in Nat /\ n \in TreesOver[k][R]
  BY <1>5 DEF Tree
<1>7. Ins(k)
  BY <1>4, <1>6 DEF G
<1>. QED  BY <1>5, <1>6, <1>7 DEF Ins, Inserted

-----------------------------------------------------------------------------
(* A deletion *)

LEMMA BoundsSet ==
  ASSUME NEW R \in SUBSET Rules, NEW n, Tree(n, R), NEW b \in AnyBounds
  PROVE  /\ Tree([n EXCEPT !.bounds = b], R)
         /\ \A p : LeafOf([n EXCEPT !.bounds = b], p).rules = LeafOf(n, p).rules
<1>1. PICK k : k = n.levels
  OBVIOUS
<1>2. k \in Nat /\ n \in TreesOver[k][R]
  BY <1>1 DEF Tree
<1>3. PICK t : t = [n EXCEPT !.bounds = b]
  OBVIOUS
<1>4. CASE n \in ListNodes /\ n.rules \subseteq R
  <2>1. n = [kind |-> "list", levels |-> 0, bounds |-> n.bounds, rules |-> n.rules]
    BY <1>4, ListShape DEF ListNode
  <2>2. t = ListNode(b, n.rules)
    BY <1>3, <2>1 DEF ListNode
  <2>3. t \in ListNodes /\ t.rules = n.rules
    BY <1>4, <2>2, ListShape, ListIs
  <2>4. Tree(t, R) /\ \A p : LeafOf(t, p) = t /\ LeafOf(n, p) = n
    BY <1>4, <2>3, TreeList, LeafOfList
  <2>. QED  BY <1>3, <2>3, <2>4
<1>5. CASE /\ k - 1 \in Nat /\ n.kind = "split" /\ n \in SplitNodes(Trees[k - 1])
           /\ n.left \in TreesOver[k - 1][LeftList(R, n.dim, n.split)]
           /\ n.right \in TreesOver[k - 1][RightList(R, n.dim, n.split)]
  <2>1. PICK T : T = Trees[k - 1]
    OBVIOUS
  <2>2. n \in [kind : {"split"}, levels : Nat, bounds : AnyBounds,
               dim : Fields, split : Int, left : T, right : T]
        /\ n.left.levels < n.levels /\ n.right.levels < n.levels
    BY <1>5, <2>1 DEF SplitNodes
  <2>3. t \in [kind : {"split"}, levels : Nat, bounds : AnyBounds,
               dim : Fields, split : Int, left : T, right : T]
    BY <1>3, <2>2
  <2>4. /\ t.kind = "split" /\ t.levels = n.levels /\ t.dim = n.dim /\ t.split = n.split
        /\ t.left = n.left /\ t.right = n.right
    BY <1>3, <2>2
  <2>5. t \in SplitNodes(T)
    BY <2>2, <2>3, <2>4 DEF SplitNodes
  <2>6. Tree(n.left, LeftList(R, n.dim, n.split)) /\ Tree(n.right, RightList(R, n.dim, n.split))
    BY <1>5, TreeCounts, HalfLists
  <2>7. Tree(t, R)
    BY <2>4, <2>5, <2>6, TreeSplit
  <2>8. ASSUME NEW p PROVE LeafOf(t, p) = LeafOf(n, p)
    <3>1. LeafOf(t, p) =
            IF Value[p][t.dim] <= t.split THEN LeafOf(t.left, p) ELSE LeafOf(t.right, p)
      BY <2>4, <2>7, LeafOfSplit
    <3>2. LeafOf(n, p) =
            IF Value[p][n.dim] <= n.split THEN LeafOf(n.left, p) ELSE LeafOf(n.right, p)
      BY <1>5, LeafOfSplit
    <3>. QED  BY <2>4, <3>1, <3>2
  <2>. QED  BY <1>3, <2>7, <2>8
<1>. QED  BY <1>2, <1>4, <1>5, OverCases

(* A contracted node leads a packet to the rules its children have for it. *)
LEMMA ContractedOK ==
  ASSUME NEW R \in SUBSET Rules, NEW n, n.bounds \in AnyBounds, n.dim \in Fields, n.split \in Int,
         NEW l, NEW u,
         Tree(l, LeftList(R, n.dim, n.split)), Tree(u, RightList(R, n.dim, n.split))
  PROVE  /\ Tree(Contracted(n, l, u), R)
         /\ \A p : IF Value[p][n.dim] <= n.split
                   THEN LeafOf(l, p).rules \subseteq LeafOf(Contracted(n, l, u), p).rules
                   ELSE LeafOf(u, p).rules \subseteq LeafOf(Contracted(n, l, u), p).rules
<1>1. PICK t : t = Contracted(n, l, u)
  OBVIOUS
<1>2. Tree(l, R) /\ Tree(u, R)
  BY HalfLists, TreeMonotone
<1>3. ASSUME NEW c, Tree(c, R), IsEmpty(c)
      PROVE  \A p : LeafOf(c, p).rules = {}
  <2>1. c \in ListNodes
    BY <1>3, TreeShape DEF IsEmpty
  <2>. QED  BY <1>3, <2>1, LeafOfList DEF IsEmpty
<1>4. CASE IsEmpty(l)
  <2>1. t = [u EXCEPT !.bounds = n.bounds]
    BY <1>1, <1>4 DEF Contracted
  <2>2. Tree(t, R) /\ \A p : LeafOf(t, p).rules = LeafOf(u, p).rules
    BY <1>2, <2>1, BoundsSet
  <2>3. \A p : LeafOf(l, p).rules = {}
    BY <1>2, <1>3, <1>4
  <2>. QED  BY <1>1, <2>2, <2>3
<1>5. CASE ~ IsEmpty(l) /\ IsEmpty(u)
  <2>1. t = [l EXCEPT !.bounds = n.bounds]
    BY <1>1, <1>5 DEF Contracted
  <2>2. Tree(t, R) /\ \A p : LeafOf(t, p).rules = LeafOf(l, p).rules
    BY <1>2, <2>1, BoundsSet
  <2>3. \A p : LeafOf(u, p).rules = {}
    BY <1>2, <1>3, <1>5
  <2>. QED  BY <1>1, <2>2, <2>3
<1>6. CASE ~ IsEmpty(l) /\ ~ IsEmpty(u)
  <2>1. t = SplitNode(n.bounds, n.dim, n.split, l, u)
    BY <1>1, <1>6 DEF Contracted
  <2>2. /\ Tree(t, R)
        /\ \A p : LeafOf(t, p) =
                    IF Value[p][n.dim] <= n.split THEN LeafOf(l, p) ELSE LeafOf(u, p)
    <3>1. PICK b \in AnyBounds : b = n.bounds
      OBVIOUS
    <3>2. PICK d \in Fields : d = n.dim
      OBVIOUS
    <3>3. PICK s \in Int : s = n.split
      OBVIOUS
    <3>4. /\ t = SplitNode(b, d, s, l, u)
          /\ Tree(l, LeftList(R, d, s)) /\ Tree(u, RightList(R, d, s))
      BY <2>1, <3>1, <3>2, <3>3
    <3>5. /\ Tree(t, R)
          /\ \A p : LeafOf(t, p) = IF Value[p][d] <= s THEN LeafOf(l, p) ELSE LeafOf(u, p)
      BY <3>4, Joined
    <3>. QED  BY <3>2, <3>3, <3>5
  <2>. QED  BY <1>1, <2>2
<1>. QED  BY <1>4, <1>5, <1>6

(* The rules on a side of a split, with one less *)
LEMMA HalfListsLess ==
  ASSUME NEW R \in SUBSET Rules, NEW r \in Rules, NEW d \in Fields, NEW s \in Int
  PROVE  /\ LeftList(R \ {r}, d, s) =
              IF Low[r][d] <= s THEN LeftList(R, d, s) \ {r} ELSE LeftList(R, d, s)
         /\ RightList(R \ {r}, d, s) =
              IF High[r][d] > s THEN RightList(R, d, s) \ {r} ELSE RightList(R, d, s)
BY DEF LeftList, RightList

(* What t kept of n, but for the rule r *)
KeptBut(t, n, r) ==
  \A p, q : <<q, p>> \in Match /\ q \in LeafOf(n, p).rules /\ q # r => q \in LeafOf(t, p).rules

LEMMA DeletedOK ==
  ASSUME NEW R \in SUBSET Rules, NEW n, Tree(n, R), NEW r \in Rules
  PROVE  Tree(Deleted(n, r), R \ {r}) /\ KeptBut(Deleted(n, r), n, r)
<1>. DEFINE Del(j) == \A A \in SUBSET Rules : \A m \in TreesOver[j][A] :
                        /\ Tree(DeletedFrom(r)[j][m], A \ {r})
                        /\ KeptBut(DeletedFrom(r)[j][m], m, r)
            G == {j \in Nat : Del(j)}
<1>1. ASSUME NEW j \in Nat, j - 1 \in Nat => Del(j - 1)
      PROVE  Del(j)
  <2>0. PICK f : f = DeletedFrom(r)[j - 1]
    OBVIOUS
  <2>. SUFFICES ASSUME NEW A \in SUBSET Rules, NEW m \in TreesOver[j][A]
                PROVE  Tree(DeletedFrom(r)[j][m], A \ {r}) /\ KeptBut(DeletedFrom(r)[j][m], m, r)
    OBVIOUS
  <2>1. m \in Trees[j]
    BY OverIs
  <2>2. DeletedFrom(r)[j][m] =
          IF m.kind = "list" THEN ListNode(m.bounds, m.rules \ {r})
          ELSE Contracted(m,
                 IF Low[r][m.dim] <= m.split THEN f[m.left] ELSE m.left,
                 IF High[r][m.dim] > m.split THEN f[m.right] ELSE m.right)
    <3>1. DeletedFrom(r)[j] = DeletedStep(r, f, j)
      BY <2>0, DeletedDef
    <3>. QED  BY <2>1, <3>1 DEF DeletedStep
  <2>3. CASE m \in ListNodes /\ m.rules \subseteq A
    <3>1. PICK Q : Q = m.rules \ {r}
      OBVIOUS
    <3>2. PICK t : t = ListNode(m.bounds, Q)
      OBVIOUS
    <3>3. m.kind = "list" /\ m.bounds \in AnyBounds /\ Q \in SUBSET Rules /\ Q \subseteq A \ {r}
      BY <2>3, <3>1, ListShape
    <3>4. t \in ListNodes /\ t.rules = Q
      BY <3>2, <3>3, ListIs
    <3>5. Tree(t, A \ {r}) /\ \A p : LeafOf(t, p) = t /\ LeafOf(m, p) = m
      BY <2>3, <3>3, <3>4, TreeList, LeafOfList
    <3>6. DeletedFrom(r)[j][m] = t
      BY <2>2, <3>1, <3>2, <3>3
    <3>. QED  BY <3>1, <3>4, <3>5, <3>6 DEF KeptBut
  <2>4. CASE /\ j - 1 \in Nat /\ m.kind = "split" /\ m \in SplitNodes(Trees[j - 1])
             /\ m.left \in TreesOver[j - 1][LeftList(A, m.dim, m.split)]
             /\ m.right \in TreesOver[j - 1][RightList(A, m.dim, m.split)]
    <3>1. PICK d : d = m.dim
      OBVIOUS
    <3>2. PICK s : s = m.split
      OBVIOUS
    <3>3. d \in Fields /\ s \in Int /\ m.bounds \in AnyBounds
      BY <2>4, <3>1, <3>2, SplitShape
    <3>4. PICK l : l = IF Low[r][d] <= s THEN f[m.left] ELSE m.left
      OBVIOUS
    <3>5. PICK u : u = IF High[r][d] > s THEN f[m.right] ELSE m.right
      OBVIOUS
    <3>6. PICK B : B = A \ {r}
      OBVIOUS
    <3>7. B \in SUBSET Rules
      BY <3>6
    <3>8. Tree(m.left, LeftList(A, d, s)) /\ Tree(m.right, RightList(A, d, s))
      BY <2>4, <3>1, <3>2, TreeCounts, HalfLists
    <3>9. /\ Tree(f[m.left], LeftList(A, d, s) \ {r}) /\ KeptBut(f[m.left], m.left, r)
          /\ Tree(f[m.right], RightList(A, d, s) \ {r}) /\ KeptBut(f[m.right], m.right, r)
      BY <1>1, <2>0, <2>4, <3>1, <3>2, HalfLists
    <3>10. Tree(l, LeftList(B, d, s)) /\ Tree(u, RightList(B, d, s))
      <4>1. /\ LeftList(B, d, s) =
                 IF Low[r][d] <= s THEN LeftList(A, d, s) \ {r} ELSE LeftList(A, d, s)
            /\ RightList(B, d, s) =
                 IF High[r][d] > s THEN RightList(A, d, s) \ {r} ELSE RightList(A, d, s)
        BY <3>3, <3>6, HalfListsLess
      <4>. QED  BY <3>4, <3>5, <3>8, <3>9, <4>1
    <3>11. PICK t : t = Contracted(m, l, u)
      OBVIOUS
    <3>12. /\ Tree(t, B)
           /\ \A p : IF Value[p][d] <= s THEN LeafOf(l, p).rules \subseteq LeafOf(t, p).rules
                     ELSE LeafOf(u, p).rules \subseteq LeafOf(t, p).rules
      BY <3>1, <3>2, <3>3, <3>7, <3>10, <3>11, ContractedOK
    <3>13. \A p : LeafOf(m, p) =
                    IF Value[p][d] <= s THEN LeafOf(m.left, p) ELSE LeafOf(m.right, p)
      BY <2>4, <3>1, <3>2, TreeCounts, LeafOfSplit
    <3>14. ASSUME NEW p, NEW q, <<q, p>> \in Match, q \in LeafOf(m, p).rules, q # r
           PROVE  q \in LeafOf(t, p).rules
      <4>1. CASE Value[p][d] <= s
        <5>1. LeafOf(l, p).rules \subseteq LeafOf(t, p).rules /\ LeafOf(m, p) = LeafOf(m.left, p)
          BY <3>12, <3>13, <4>1
        <5>. QED  BY <3>4, <3>9, <3>14, <5>1 DEF KeptBut
      <4>2. CASE ~ (Value[p][d] <= s)
        <5>1. LeafOf(u, p).rules \subseteq LeafOf(t, p).rules /\ LeafOf(m, p) = LeafOf(m.right, p)
          BY <3>12, <3>13, <4>2
        <5>. QED  BY <3>5, <3>9, <3>14, <5>1 DEF KeptBut
      <4>. QED  BY <4>1, <4>2
    <3>15. DeletedFrom(r)[j][m] = t
      BY <2>2, <2>4, <3>1, <3>2, <3>4, <3>5, <3>11
    <3>. QED  BY <3>6, <3>12, <3>14, <3>15 DEF KeptBut
  <2>. QED  BY <2>3, <2>4, OverCases
<1>. HIDE DEF Del
<1>2. 0 \in G
  <2>1. 0 - 1 \notin Nat
    OBVIOUS
  <2>. QED  BY <1>1, <2>1
<1>3. ASSUME NEW j \in G PROVE j + 1 \in G
  <2>1. (j + 1) - 1 = j /\ j + 1 \in Nat
    OBVIOUS
  <2>. QED  BY <1>1, <2>1
<1>. HIDE DEF G
<1>4. G = Nat
  BY <1>2, <1>3, NaturalSet DEF G
<1>5. PICK k : k = n.levels
  OBVIOUS
<1>6. k \in Nat /\ n \in TreesOver[k][R]
  BY <1>5 DEF Tree
<1>7. Del(k)
  BY <1>4, <1>6 DEF G
<1>. QED  BY <1>5, <1>6, <1>7 DEF Del, Deleted

-----------------------------------------------------------------------------
(* HyperSplit *)

LEMMA ByPriorityOK ==
  ASSUME NEW S \in SUBSET Rules
  PROVE  /\ ByPriority(S) \in Seq(Rules)
         /\ Elems(ByPriority(S)) = S /\ NoDuplicates(ByPriority(S))
<1>1. IsFiniteSet(S)
  BY RulesFinite, FS_Subset
<1>. QED  BY <1>1, FallingOK, Zenon DEF ByPriority, Ranked, Falling

(* The inductive invariant: the tree is over the rules present, a rule     *)
(* below a split only on a side it reaches, and no packet misses one.      *)
Inv ==
  /\ rules \in Seq(Rules) /\ NoDuplicates(rules)
  /\ Full(root, Elems(rules))

LEMMA WholeBounds == Whole \in AnyBounds
<1>1. \A f \in Fields : Interval(0, Top[f]) \in [low : Int, high : Int]
  BY BoxAssumption DEF Interval
<1>. QED  BY <1>1 DEF Whole, AnyBounds

LEMMA ElemsIn ==
  ASSUME NEW S, NEW q \in Seq(S)
  PROVE  Elems(q) \in SUBSET S
BY DEF Elems

LEMMA InitInv == Init => Inv
<1>. SUFFICES ASSUME NEW S \in SUBSET Updated, Construct(S \cup (Rules \ Updated))
              PROVE  Inv
  BY Zenon DEF Init
<1>1. PICK Q : Q = S \cup (Rules \ Updated)
  OBVIOUS
<1>2. Q \in SUBSET Rules
  BY <1>1, HyperSplitAssumption
<1>3. rules = ByPriority(Q) /\ root = SplitRules(Whole, Q)
  BY <1>1 DEF Construct
<1>4. rules \in Seq(Rules) /\ Elems(rules) = Q /\ NoDuplicates(rules)
  BY <1>2, <1>3, ByPriorityOK
<1>5. Full(root, Q)
  BY <1>2, <1>3, WholeBounds, SplitRulesFull
<1>. QED  BY <1>4, <1>5 DEF Inv

LEMMA InsertInv ==
  ASSUME Inv, NEW r \in Rules, InsertRule(r)
  PROVE  Inv'
<1>1. PICK S : S = Elems(rules)
  OBVIOUS
<1>2. S \in SUBSET Rules /\ Full(root, S)
  BY <1>1, ElemsIn DEF Inv
<1>3. rules' \in Seq(Rules) /\ NoDuplicates(rules') /\ Elems(rules') = S \cup {r}
  BY <1>1, AppendElems DEF Inv, InsertRule
<1>4. PICK t : t = Inserted(root, r)
  OBVIOUS
<1>5. Tree(t, S \cup {r}) /\ Kept(t, root, r)
  BY <1>2, <1>4, InsertedOK DEF Full
<1>6. Full(t, S \cup {r})
  BY <1>2, <1>5 DEF Full, Kept
<1>7. root' = t
  BY <1>4 DEF InsertRule
<1>8. (Full(root, Elems(rules)))'
  BY <1>3, <1>6, <1>7 DEF Full, Tree, LeafOf
<1>. QED  BY <1>3, <1>8 DEF Inv

LEMMA DeleteInv ==
  ASSUME Inv, NEW i \in DOMAIN rules, DeleteRule(i)
  PROVE  Inv'
<1>1. PICK S : S = Elems(rules)
  OBVIOUS
<1>2. S \in SUBSET Rules /\ Full(root, S)
  BY <1>1, ElemsIn DEF Inv
<1>3. PICK r : r = rules[i]
  OBVIOUS
<1>4. r \in Rules
  BY <1>3 DEF Inv
<1>5. rules' \in Seq(Rules) /\ NoDuplicates(rules') /\ Elems(rules') = S \ {r}
  BY <1>1, <1>3, SwapRemoveElems DEF Inv, DeleteRule
<1>6. PICK t : t = Deleted(root, r)
  OBVIOUS
<1>7. Tree(t, S \ {r}) /\ KeptBut(t, root, r)
  BY <1>2, <1>4, <1>6, DeletedOK DEF Full
<1>8. Full(t, S \ {r})
  BY <1>2, <1>7 DEF Full, KeptBut
<1>9. root' = t
  BY <1>3, <1>6 DEF DeleteRule
<1>10. (Full(root, Elems(rules)))'
  BY <1>5, <1>8, <1>9 DEF Full, Tree, LeafOf
<1>. QED  BY <1>5, <1>10 DEF Inv

(* Insertions that split leaves and deletions that contract the tree keep  *)
(* it a tree of the rules present which no packet misses a rule in.        *)
THEOREM Invariance == Spec => []Inv
<1>1. Inv /\ [Next]_vars => Inv'
  <2>. SUFFICES ASSUME Inv, [Next]_vars PROVE Inv'
    OBVIOUS
  <2>1. CASE UNCHANGED vars
    BY <2>1 DEF vars, Inv, Full, Tree, LeafOf
  <2>2. ASSUME NEW r \in Updated, InsertRule(r)
        PROVE  Inv'
    BY <2>2, HyperSplitAssumption, InsertInv
  <2>3. ASSUME NEW i \in {j \in DOMAIN rules : rules[j] \in Updated}, DeleteRule(i)
        PROVE  Inv'
    BY <2>3, DeleteInv
  <2>. QED  BY <2>1, <2>2, <2>3 DEF Next
<1>. QED  BY <1>1, InitInv, PTL DEF Spec

LEMMA InvComplete == Inv => LeavesComplete
<1>. SUFFICES ASSUME Inv, NEW p \in Packets
              PROVE  /\ LeafOf(root, p).rules \subseteq Elems(rules)
                     /\ {r \in Elems(rules) : <<r, p>> \in Match} \subseteq LeafOf(root, p).rules
  BY DEF LeavesComplete
<1>1. PICK S : S = Elems(rules)
  OBVIOUS
<1>2. S \in SUBSET Rules /\ Full(root, S)
  BY <1>1, ElemsIn DEF Inv
<1>. QED  BY <1>1, <1>2, LeafOver DEF Full

(* The leaf a packet is led to has every rule present that matches the     *)
(* packet, and no deleted one.                                             *)
THEOREM Complete == Spec => []LeavesComplete
BY Invariance, InvComplete, PTL

-----------------------------------------------------------------------------
(* The answers *)

LEMMA ExactAnswer ==
  ASSUME Inv, NEW p \in Packets
  PROVE  ClassifyAPacket(p) = Best(Matching(Elems(rules), p))
<1>1. PICK S : S = Elems(rules)
  OBVIOUS
<1>2. PICK L : L = LeafOf(root, p).rules
  OBVIOUS
<1>3. L \subseteq S /\ {r \in S : <<r, p>> \in Match} \subseteq L
  BY <1>1, <1>2, InvComplete DEF LeavesComplete
<1>4. Matching(L, p) = Matching(S, p)
  BY <1>3 DEF Matching
<1>. QED  BY <1>1, <1>2, <1>4 DEF ClassifyAPacket

(* Every packet is answered with the priority of the best rule present     *)
(* that matches it.                                                        *)
AnswersExact == \A p \in Packets : ClassifyAPacket(p) = Best(Matching(Elems(rules), p))

THEOREM Exactness == Spec => []AnswersExact
<1>1. Inv => AnswersExact
  BY ExactAnswer DEF AnswersExact
<1>. QED  BY <1>1, Invariance, PTL

Ideal == INSTANCE Classifier WITH answer <- [p \in Packets |-> ClassifyAPacket(p)]

LEMMA SameOperators ==
  /\ \A s : Ideal!Elems(s) = Elems(s)
  /\ \A s, i : Ideal!SwapRemove(s, i) = SwapRemove(s, i)
  /\ \A s, p : Ideal!Matching(Elems(s), p) = Matching(Elems(s), p)
  /\ \A S : Ideal!Best(S) = Best(S)
BY DEF Ideal!Elems, Elems, Ideal!SwapRemove, SwapRemove, Ideal!Matching, Matching, Ideal!Best, Best

LEMMA ExactAnswers ==
  Inv => [p \in Packets |-> ClassifyAPacket(p)] = Ideal!Exact(rules)
<1>1. Ideal!Exact(rules) = [p \in Packets |-> Best(Matching(Elems(rules), p))]
  BY SameOperators DEF Ideal!Exact
<1>. QED  BY <1>1, ExactAnswer

(* An update of HyperSplit is the update of a Classifier.  A HyperSplit    *)
(* is constructed from rules, and a Classifier starts without: only the    *)
(* steps correspond.                                                       *)
THEOREM StepsRefine == Spec => [][Ideal!Next]_<<rules, [p \in Packets |-> ClassifyAPacket(p)]>>
<1>1. Inv /\ Inv' /\ [Next]_vars
        => [Ideal!Next]_<<rules, [p \in Packets |-> ClassifyAPacket(p)]>>
  <2>. SUFFICES ASSUME Inv, Inv', [Next]_vars
                PROVE  [Ideal!Next]_<<rules, [p \in Packets |-> ClassifyAPacket(p)]>>
    OBVIOUS
  <2>1. [p \in Packets |-> ClassifyAPacket(p)]' = Ideal!Exact(rules')
    <3>1. (Inv => [p \in Packets |-> ClassifyAPacket(p)] = Ideal!Exact(rules))'
      BY ExactAnswers, PTL
    <3>. QED  BY <3>1 DEF Ideal!Exact
  <2>2. ASSUME NEW r \in Updated, InsertRule(r)
        PROVE  r \in Rules /\ Ideal!InsertRule(r)
    BY <2>1, <2>2, SameOperators, HyperSplitAssumption DEF InsertRule, Ideal!InsertRule
  <2>3. ASSUME NEW i \in DOMAIN rules, DeleteRule(i)
        PROVE  Ideal!DeleteRule(i)
    BY <2>1, <2>3, SameOperators DEF DeleteRule, Ideal!DeleteRule
  <2>4. CASE UNCHANGED vars
    BY <2>4 DEF vars, ClassifyAPacket, LeafOf
  <2>. QED  BY <2>2, <2>3, <2>4 DEF Next, Ideal!Next
<1>. QED  BY <1>1, Invariance, PTL DEF Spec

-----------------------------------------------------------------------------
(* The scan *)

(* The rules by falling priority *)
Descending(rl) ==
  /\ rl \in Seq(Rules)
  /\ \A i, j \in 1..Len(rl) : i < j => Priority[rl[i]] > Priority[rl[j]]

(* The matching rules at the bit i and at the bits of B after it *)
HitsFrom(B, i, p) ==
  {j \in 0..(Len(built.rules) - 1) :
     (j = i \/ (j \in B /\ j > i)) /\ <<built.rules[j + 1], p>> \in Match}

BestHit(B, i, p) == Best({Priority[built.rules[j + 1]] : j \in HitsFrom(B, i, p)})

(* Bit j of B, or one at n or beyond, comes after i, and no other between *)
NextIn(B, n, i, j) ==
  /\ j \in Nat /\ i < j /\ (j \in B \/ j >= n)
  /\ \A b \in B : i < b => j <= b \/ n <= b

LEMMA BestHitStep ==
  ASSUME Descending(built.rules), NEW B \in SUBSET Nat, NEW p, NEW i \in Nat, NEW n,
         NextIn(B, Len(built.rules), i, n) \/ i >= Len(built.rules)
  PROVE  BestHit(B, i, p) =
           IF i >= Len(built.rules) THEN -1
           ELSE IF <<built.rules[i + 1], p>> \in Match THEN Priority[built.rules[i + 1]]
           ELSE BestHit(B, n, p)
<1>. DEFINE rl == built.rules
            len == Len(rl)
<1>1. len \in Nat /\ \A j \in 1..len : rl[j] \in Rules
  BY DEF Descending
<1>. HIDE DEF len
<1>2. CASE i >= len
  <2>1. HitsFrom(B, i, p) = {}
    BY <1>1, <1>2 DEF HitsFrom, len
  <2>2. {Priority[rl[j + 1]] : j \in HitsFrom(B, i, p)} = {}
    BY <2>1
  <2>. QED  BY <1>2, <2>2 DEF BestHit, Best, len
<1>3. CASE i < len /\ <<rl[i + 1], p>> \in Match
  <2>. DEFINE P == {Priority[rl[j + 1]] : j \in HitsFrom(B, i, p)}
  <2>1. i \in HitsFrom(B, i, p)
    BY <1>1, <1>3 DEF HitsFrom, len
  <2>2. ASSUME NEW j \in HitsFrom(B, i, p) PROVE Priority[rl[j + 1]] <= Priority[rl[i + 1]]
                                           /\ Priority[rl[j + 1]] \in Int
    <3>1. j \in 0..(len - 1) /\ (j = i \/ j > i)
      BY <1>1 DEF HitsFrom, len
    <3>2. Priority[rl[i + 1]] \in Int /\ Priority[rl[j + 1]] \in Int
      BY <1>1, <1>3, <3>1, RuleSetAssumption
    <3>3. CASE j = i
      BY <3>2, <3>3
    <3>4. CASE j > i
      <4>1. i + 1 \in 1..len /\ j + 1 \in 1..len /\ i + 1 < j + 1
        BY <1>1, <1>3, <3>1, <3>4
      <4>2. Priority[rl[i + 1]] > Priority[rl[j + 1]]
        BY <4>1 DEF Descending, len
      <4>. QED  BY <3>2, <4>2
    <3>. QED  BY <3>1, <3>3, <3>4
  <2>3. P \in SUBSET Int /\ Priority[rl[i + 1]] \in P /\ \A m \in P : m <= Priority[rl[i + 1]]
    BY <2>1, <2>2
  <2>4. Best(P) = Priority[rl[i + 1]]
    <3>. HIDE DEF P
    <3>. QED  BY <2>3, BestUnique
  <2>. QED  BY <1>1, <1>3, <2>4 DEF BestHit, len
<1>4. CASE i < len /\ <<rl[i + 1], p>> \notin Match
  <2>1. NextIn(B, len, i, n)
    BY <1>1, <1>4 DEF len
  <2>2. HitsFrom(B, i, p) = HitsFrom(B, n, p)
    <3>1. ASSUME NEW j \in 0..(len - 1), <<rl[j + 1], p>> \in Match
          PROVE  (j = i \/ (j \in B /\ j > i)) <=> (j = n \/ (j \in B /\ j > n))
      BY <1>1, <1>4, <2>1, <3>1 DEF NextIn
    <3>. QED  BY <3>1 DEF HitsFrom, len
  <2>. QED  BY <1>1, <1>4, <2>2 DEF BestHit, len
<1>. QED  BY <1>1, <1>2, <1>3, <1>4 DEF len

LEMMA ScanOK ==
  ASSUME Descending(built.rules), NEW B \in SUBSET Nat, NEW p, NEW next,
         \A i \in Nat : i < Len(built.rules) => NextIn(B, Len(built.rules), i, next[i])
  PROVE  \A i \in Nat : Scan(next, p)[i] = BestHit(B, i, p)
<1>. DEFINE Step(f, i) ==
              IF i >= Len(built.rules) THEN -1
              ELSE IF <<built.rules[i + 1], p>> \in Match THEN Priority[built.rules[i + 1]]
              ELSE f[next[i]]
            g == [i \in Nat |-> BestHit(B, i, p)]
            IsScan(f) == f = [i \in Nat |-> Step(f, i)]
<1>0. Len(built.rules) \in Nat
  BY DEF Descending
<1>1. ASSUME NEW i \in Nat PROVE g[i] = Step(g, i)
  <2>1. i < Len(built.rules) => next[i] \in Nat
    BY DEF NextIn
  <2>2. BestHit(B, i, p) =
           IF i >= Len(built.rules) THEN -1
           ELSE IF <<built.rules[i + 1], p>> \in Match THEN Priority[built.rules[i + 1]]
           ELSE BestHit(B, next[i], p)
    <3>1. NextIn(B, Len(built.rules), i, next[i]) \/ i >= Len(built.rules)
      BY <1>0
    <3>. QED  BY <3>1, BestHitStep, Zenon
  <2>. QED  BY <1>0, <2>1, <2>2
<1>2. IsScan(g)
  <2>1. g = [i \in Nat |-> g[i]]
    OBVIOUS
  <2>. HIDE DEF g, Step
  <2>. QED  BY <1>1, <2>1
<1>3. PICK f : f = CHOOSE h : IsScan(h)
  OBVIOUS
<1>4. IsScan(f)
  BY <1>2, <1>3
<1>5. Scan(next, p) = f
  BY <1>3, Zenon DEF Scan
<1>6. \A i \in Nat : f[i] = Step(f, i)
  <2>. HIDE DEF Step
  <2>. QED  BY <1>4
<1>. DEFINE G == {k \in Nat : \A i \in Nat : i + k >= Len(built.rules) => f[i] = g[i]}
<1>7. 0 \in G
  <2>1. ASSUME NEW i \in Nat, i + 0 >= Len(built.rules)
        PROVE  f[i] = g[i]
    <3>1. f[i] = Step(f, i) /\ g[i] = Step(g, i)
      BY <1>1, <1>6, Zenon
    <3>2. i >= Len(built.rules)
      BY <1>0, <2>1
    <3>. HIDE DEF g
    <3>. QED  BY <3>1, <3>2
  <2>. QED  BY <2>1
<1>8. ASSUME NEW k \in G PROVE k + 1 \in G
  <2>1. ASSUME NEW i \in Nat, i + (k + 1) >= Len(built.rules)
        PROVE  f[i] = g[i]
    <3>1. CASE i >= Len(built.rules)
      BY <1>1, <1>6, <3>1
    <3>2. CASE i < Len(built.rules)
      <4>1. next[i] \in Nat /\ next[i] > i
        BY <3>2 DEF NextIn
      <4>2. next[i] + k >= Len(built.rules)
        BY <1>0, <2>1, <4>1
      <4>3. f[next[i]] = g[next[i]]
        BY <4>1, <4>2
      <4>4. f[i] = Step(f, i) /\ g[i] = Step(g, i)
        BY <1>1, <1>6, Zenon
      <4>5. Step(f, i) = Step(g, i)
        <5>. HIDE DEF g
        <5>. QED  BY <4>3
      <4>. QED  BY <4>4, <4>5, Zenon
    <3>. QED  BY <1>0, <3>1, <3>2
  <2>. QED  BY <2>1
<1>. HIDE DEF G
<1>9. G = Nat
  BY <1>7, <1>8, NaturalSet DEF G
<1>10. ASSUME NEW i \in Nat PROVE f[i] = g[i]
  <2>1. Len(built.rules) \in G /\ i + Len(built.rules) >= Len(built.rules)
    BY <1>0, <1>9
  <2>. QED  BY <2>1 DEF G
<1>. QED  BY <1>5, <1>10

-----------------------------------------------------------------------------
(* The bits of words *)

BitSets(n) == [1..n -> SUBSET (0..(BitsPerWord - 1))]

BitsIn(a) == {i \in Nat : i \div BitsPerWord + 1 \in DOMAIN a /\ i % BitsPerWord \in a[i \div BitsPerWord + 1]}

LEMMA WordOf ==
  ASSUME NEW i \in Nat
  PROVE  /\ i \div BitsPerWord \in Nat /\ i % BitsPerWord \in 0..(BitsPerWord - 1)
         /\ i = (i \div BitsPerWord) * BitsPerWord + (i % BitsPerWord)
BY BitVectorAssumption

LEMMA WordUnique ==
  ASSUME NEW w \in Nat, NEW b \in 0..(BitsPerWord - 1)
  PROVE  /\ w * BitsPerWord + b \in Nat
         /\ (w * BitsPerWord + b) \div BitsPerWord = w
         /\ (w * BitsPerWord + b) % BitsPerWord = b
BY BitVectorAssumption

LEMMA WordOrder ==
  ASSUME NEW w \in Nat, NEW v \in Nat, w <= v, NEW b \in 0..(BitsPerWord - 1), NEW c \in 0..(BitsPerWord - 1)
  PROVE  w < v \/ b < c <=> w * BitsPerWord + b < v * BitsPerWord + c
<1>1. BitsPerWord \in Nat \ {0}
  BY BitVectorAssumption
<1>2. CASE w < v
  <2>1. w * BitsPerWord + BitsPerWord <= v * BitsPerWord
    BY <1>1, <1>2
  <2>2. w * BitsPerWord \in Nat /\ v * BitsPerWord \in Nat
    BY <1>1
  <2>. QED  BY <1>1, <1>2, <2>1, <2>2
<1>3. CASE w = v
  <2>1. w * BitsPerWord \in Nat
    BY <1>1
  <2>. QED  BY <1>1, <1>3, <2>1
<1>. QED  BY <1>2, <1>3

(* The words that SetBits of len bits are in, a set S of bits *)
LEMMA WordsOK ==
  ASSUME NEW len \in Nat
  PROVE  \E n \in Nat : Words(len) = 1..n /\ n * BitsPerWord >= len
<1>. DEFINE n == (len + BitsPerWord - 1) \div BitsPerWord
<1>1. n \in Nat /\ n * BitsPerWord >= len
  BY BitVectorAssumption
<1>. HIDE DEF n
<1>2. Words(len) = 1..n
  BY DEF Words, n
<1>. QED  BY <1>1, <1>2

LEMMA BitSetOK ==
  ASSUME NEW S, NEW len \in Nat, NEW n \in Nat, Words(len) = 1..n
  PROVE  /\ BitSet(S, len) \in BitSets(n)
         /\ \A i \in Nat : i < len /\ n * BitsPerWord >= len => (i \in BitsIn(BitSet(S, len)) <=> i \in S)
         /\ BitsIn(BitSet(S, len)) \subseteq S
<1>. DEFINE a == BitSet(S, len)
<1>1. a = [w \in 1..n |-> {b \in 0..(BitsPerWord - 1) : (w - 1) * BitsPerWord + b \in S}]
  BY DEF BitSet
<1>2. a \in BitSets(n)
  BY <1>1 DEF BitSets
<1>3. ASSUME NEW i \in Nat
      PROVE  i \in BitsIn(a) <=> i \div BitsPerWord + 1 \in 1..n /\ i \in S
  <2>. DEFINE w == i \div BitsPerWord
              b == i % BitsPerWord
  <2>1. w \in Nat /\ b \in 0..(BitsPerWord - 1) /\ i = w * BitsPerWord + b
    BY WordOf
  <2>. HIDE DEF a
  <2>2. i \in BitsIn(a) <=> w + 1 \in 1..n /\ b \in a[w + 1]
    BY <1>1 DEF BitsIn
  <2>. HIDE DEF w, b
  <2>3. (w + 1) - 1 = w
    BY <2>1
  <2>4. w + 1 \in 1..n => (b \in a[w + 1] <=> w * BitsPerWord + b \in S)
    BY <1>1, <2>1, <2>3
  <2>5. i \in BitsIn(a) <=> w + 1 \in 1..n /\ i \in S
    BY <2>1, <2>2, <2>4, Zenon
  <2>. QED  BY <2>5 DEF w
<1>4. ASSUME NEW i \in Nat, i < len, n * BitsPerWord >= len
      PROVE  i \div BitsPerWord + 1 \in 1..n
  BY <1>4, BitVectorAssumption
<1>5. BitsIn(a) \subseteq Nat
  BY DEF BitsIn
<1>. HIDE DEF a
<1>. QED  BY <1>2, <1>3, <1>4, <1>5 DEF a

LEMMA AndOK ==
  ASSUME NEW n \in Nat, NEW a \in BitSets(n), NEW c \in BitSets(n)
  PROVE  And(a, c) \in BitSets(n) /\ BitsIn(And(a, c)) = BitsIn(a) \cap BitsIn(c)
<1>1. And(a, c) = [w \in 1..n |-> a[w] \cap c[w]]
  BY DEF And, BitSets
<1>2. And(a, c) \in BitSets(n)
  BY <1>1 DEF BitSets
<1>3. DOMAIN a = 1..n /\ DOMAIN c = 1..n /\ DOMAIN And(a, c) = 1..n
  BY <1>1 DEF BitSets
<1>4. \A i : i \in BitsIn(And(a, c)) <=> i \in BitsIn(a) /\ i \in BitsIn(c)
  BY <1>1, <1>3 DEF BitsIn
<1>. QED  BY <1>2, <1>4

(* A word and a place in it, for a bit *)
LEMMA BitAt ==
  ASSUME NEW n \in Nat, NEW a \in BitSets(n), NEW w \in 1..n, NEW b \in a[w]
  PROVE  /\ b \in 0..(BitsPerWord - 1)
         /\ (w - 1) * BitsPerWord + b \in BitsIn(a)
<1>1. b \in 0..(BitsPerWord - 1) /\ w - 1 \in Nat /\ (w - 1) + 1 = w /\ DOMAIN a = 1..n
  BY DEF BitSets
<1>2. PICK i : i = (w - 1) * BitsPerWord + b
  OBVIOUS
<1>3. i \in Nat /\ i \div BitsPerWord = w - 1 /\ i % BitsPerWord = b
  BY <1>1, <1>2, WordUnique
<1>4. i \in BitsIn(a)
  BY <1>1, <1>3 DEF BitsIn
<1>. QED  BY <1>1, <1>2, <1>4

(* FindFrom: the first bit that is in word w or after it *)
LEMMA FindFromOK ==
  ASSUME NEW n \in Nat, NEW a \in BitSets(n), NEW w \in 1..(n + 1)
  PROVE  /\ FindFrom(a, w) \in Nat
         /\ FindFrom(a, w) \in BitsIn(a) \/ FindFrom(a, w) >= n * BitsPerWord
         /\ FindFrom(a, w) >= (w - 1) * BitsPerWord
         /\ \A b \in BitsIn(a) : (w - 1) * BitsPerWord <= b => FindFrom(a, w) <= b
<1>. DEFINE set == {v \in 1..n : v >= w /\ a[v] # {}}
<1>0. DOMAIN a = 1..n /\ Len(a) = n /\ BitsPerWord \in Nat \ {0}
  BY BitVectorAssumption DEF BitSets
<1>1. FindFrom(a, w) = IF set = {} THEN n * BitsPerWord
                       ELSE (Min(set) - 1) * BitsPerWord + Min(a[Min(set)])
  BY <1>0 DEF FindFrom
<1>2. ASSUME NEW c \in BitsIn(a), (w - 1) * BitsPerWord <= c
      PROVE  /\ c \div BitsPerWord + 1 \in set /\ c % BitsPerWord \in a[c \div BitsPerWord + 1]
             /\ c \in Nat
  <2>1. c \in Nat /\ c \div BitsPerWord + 1 \in 1..n /\ c % BitsPerWord \in a[c \div BitsPerWord + 1]
    BY <1>0 DEF BitsIn
  <2>2. c \div BitsPerWord >= w - 1
    BY <1>0, <1>2, <2>1
  <2>3. PICK u : u = c \div BitsPerWord + 1
    OBVIOUS
  <2>4. u >= w /\ a[u] # {} /\ u \in 1..n
    BY <1>0, <2>1, <2>2, <2>3
  <2>. QED  BY <2>1, <2>3, <2>4
<1>. HIDE DEF set
<1>3. CASE set = {}
  <2>1. FindFrom(a, w) = n * BitsPerWord
    BY <1>1, <1>3
  <2>2. n * BitsPerWord \in Nat /\ n * BitsPerWord >= (w - 1) * BitsPerWord
    BY <1>0
  <2>. QED  BY <1>2, <1>3, <2>1, <2>2
<1>4. CASE set # {}
  <2>1. PICK v : v = Min(set)
    OBVIOUS
  <2>2. set \in SUBSET Nat
    BY DEF set
  <2>3. v \in set /\ \A u \in set : v <= u
    BY <1>4, <2>1, <2>2, LeastOf
  <2>4. v \in 1..n /\ v >= w /\ a[v] # {} /\ a[v] \in SUBSET (0..(BitsPerWord - 1))
    BY <2>3 DEF set, BitSets
  <2>5. PICK b : b = Min(a[v])
    OBVIOUS
  <2>6. b \in a[v] /\ \A c \in a[v] : b <= c
    <3>1. a[v] \in SUBSET Nat
      BY <1>0, <2>4
    <3>. QED  BY <2>4, <2>5, <3>1, LeastOf
  <2>7. PICK i : i = (v - 1) * BitsPerWord + b
    OBVIOUS
  <2>8. FindFrom(a, w) = i
    BY <1>1, <1>4, <2>1, <2>5, <2>7
  <2>9. i \in BitsIn(a) /\ i \in Nat
    BY <2>4, <2>6, <2>7, BitAt DEF BitsIn
  <2>10. i >= (w - 1) * BitsPerWord
    <3>1. b \in Nat
      BY <2>4, <2>6
    <3>2. (v - 1) * BitsPerWord >= (w - 1) * BitsPerWord
      BY <1>0, <2>4
    <3>3. (v - 1) * BitsPerWord \in Int /\ (w - 1) * BitsPerWord \in Int
      BY <1>0, <2>4
    <3>. QED  BY <2>7, <3>1, <3>2, <3>3
  <2>11. ASSUME NEW c \in BitsIn(a), (w - 1) * BitsPerWord <= c PROVE i <= c
    <3>. DEFINE u == c \div BitsPerWord
                d == c % BitsPerWord
    <3>1. u + 1 \in set /\ d \in a[u + 1] /\ c \in Nat
      BY <1>2, <2>11
    <3>2. c = u * BitsPerWord + d /\ u \in Nat /\ d \in 0..(BitsPerWord - 1)
      BY <3>1, WordOf
    <3>. HIDE DEF u, d
    <3>3. v - 1 <= u /\ v - 1 \in Nat /\ b \in 0..(BitsPerWord - 1)
      BY <2>3, <2>4, <2>6, <3>1, <3>2
    <3>4. CASE v - 1 < u
      <4>1. (v - 1) * BitsPerWord + b < u * BitsPerWord + d
        BY <3>2, <3>3, <3>4, WordOrder
      <4>. QED  BY <2>7, <2>9, <3>1, <3>2, <4>1
    <3>5. CASE v - 1 = u
      <4>1. d \in a[v]
        BY <2>4, <3>1, <3>5
      <4>2. b <= d /\ (v - 1) * BitsPerWord \in Nat
        BY <1>0, <2>6, <3>3, <4>1
      <4>. QED  BY <2>7, <3>2, <3>3, <3>5, <4>2
    <3>. QED  BY <3>2, <3>3, <3>4, <3>5
  <2>. QED  BY <2>8, <2>9, <2>10, <2>11
<1>. QED  BY <1>3, <1>4

LEMMA FindFirstOK ==
  ASSUME NEW n \in Nat, NEW a \in BitSets(n), NEW len \in Nat, len <= n * BitsPerWord
  PROVE  NextIn(BitsIn(a), len, -1, FindFirst(a))
<1>1. (1 - 1) * BitsPerWord = 0 /\ BitsPerWord \in Nat \ {0} /\ n * BitsPerWord \in Nat
  BY BitVectorAssumption
<1>2. BitsIn(a) \subseteq Nat /\ 1 \in 1..(n + 1)
  BY DEF BitsIn
<1>3. PICK j : j = FindFrom(a, 1)
  OBVIOUS
<1>4. /\ j \in Nat
      /\ j \in BitsIn(a) \/ j >= n * BitsPerWord
      /\ \A b \in BitsIn(a) : 0 <= b => j <= b
  BY <1>1, <1>2, <1>3, FindFromOK
<1>. QED  BY <1>1, <1>2, <1>3, <1>4 DEF NextIn, FindFirst

LEMMA FindNextOK ==
  ASSUME NEW n \in Nat, NEW a \in BitSets(n), NEW len \in Nat, len <= n * BitsPerWord,
         NEW i \in Nat, i < len
  PROVE  NextIn(BitsIn(a), len, i, FindNext(a, i))
<1>. DEFINE u == i \div BitsPerWord
            d == i % BitsPerWord
            later == {b \in a[u + 1] : b > d}
<1>0. BitsPerWord \in Nat \ {0} /\ DOMAIN a = 1..n /\ n * BitsPerWord \in Nat
  BY BitVectorAssumption DEF BitSets
<1>1. u \in Nat /\ d \in 0..(BitsPerWord - 1) /\ i = u * BitsPerWord + d
  BY WordOf
<1>2. u + 1 \in 1..n
  BY <1>0, BitVectorAssumption
<1>3. FindNext(a, i) = IF later # {} THEN ((u + 1) - 1) * BitsPerWord + Min(later) ELSE FindFrom(a, (u + 1) + 1)
  BY DEF FindNext
<1>. HIDE DEF u, d
<1>4. (u + 1) - 1 = u /\ ((u + 1) + 1) - 1 = u + 1 /\ (u + 1) + 1 \in 1..(n + 1)
  BY <1>1, <1>2
<1>5. later \in SUBSET Nat /\ \A b \in later : b \in a[u + 1] /\ b > d /\ b \in 0..(BitsPerWord - 1)
  BY <1>2 DEF BitSets
<1>6. ASSUME NEW c \in BitsIn(a), i < c
      PROVE  /\ c \in Nat
             /\ \/ (u + 1) * BitsPerWord <= c
                \/ c % BitsPerWord \in later /\ c = u * BitsPerWord + (c % BitsPerWord)
  <2>. DEFINE v == c \div BitsPerWord
              e == c % BitsPerWord
  <2>1. c \in Nat /\ v + 1 \in 1..n /\ e \in a[v + 1]
    BY <1>0 DEF BitsIn
  <2>2. v \in Nat /\ e \in 0..(BitsPerWord - 1) /\ c = v * BitsPerWord + e
    BY <2>1, WordOf
  <2>. HIDE DEF v, e
  <2>3. u * BitsPerWord \in Nat /\ v * BitsPerWord \in Nat
    BY <1>0, <1>1, <2>2
  <2>4. CASE v < u
    <3>1. c < i
      BY <1>1, <2>2, <2>4, WordOrder
    <3>. QED  BY <1>6, <2>1, <3>1
  <2>5. CASE v = u
    <3>1. e > d
      BY <1>1, <1>6, <2>2, <2>3, <2>5
    <3>2. e \in later
      BY <2>1, <2>5, <3>1
    <3>. QED  BY <2>1, <2>2, <2>5, <3>2 DEF e
  <2>6. CASE u < v
    <3>1. (u + 1) * BitsPerWord <= v * BitsPerWord /\ (u + 1) * BitsPerWord \in Nat
      BY <1>0, <1>1, <2>2, <2>6
    <3>. QED  BY <2>1, <2>2, <2>3, <3>1
  <2>. QED  BY <1>1, <2>2, <2>4, <2>5, <2>6
<1>. HIDE DEF later
<1>7. CASE later # {}
  <2>1. PICK b : b = Min(later)
    OBVIOUS
  <2>2. b \in later /\ \A c \in later : b <= c
    BY <1>5, <1>7, <2>1, LeastOf
  <2>3. b \in a[u + 1] /\ b > d /\ b \in 0..(BitsPerWord - 1)
    BY <1>5, <2>2
  <2>4. PICK j : j = u * BitsPerWord + b
    OBVIOUS
  <2>5. FindNext(a, i) = j
    BY <1>3, <1>4, <1>7, <2>1, <2>4
  <2>6. j \in BitsIn(a) /\ j \in Nat
    BY <1>2, <1>4, <2>3, <2>4, BitAt DEF BitsIn
  <2>7. u * BitsPerWord \in Nat
    BY <1>0, <1>1
  <2>8. i < j
    BY <1>1, <2>3, <2>4, <2>7
  <2>9. ASSUME NEW c \in BitsIn(a), i < c PROVE j <= c
    <3>1. CASE (u + 1) * BitsPerWord <= c
      <4>1. (u + 1) * BitsPerWord = u * BitsPerWord + BitsPerWord
        BY <1>0, <1>1
      <4>. QED  BY <1>0, <1>6, <2>3, <2>4, <2>7, <2>9, <3>1, <4>1
    <3>2. CASE c % BitsPerWord \in later /\ c = u * BitsPerWord + (c % BitsPerWord)
      <4>1. PICK e : e = c % BitsPerWord
        OBVIOUS
      <4>2. b <= e /\ c = u * BitsPerWord + e /\ e \in Nat
        BY <1>5, <2>2, <3>2, <4>1
      <4>. QED  BY <2>3, <2>4, <2>7, <4>2
    <3>. QED  BY <1>6, <2>9, <3>1, <3>2
  <2>. QED  BY <2>5, <2>6, <2>8, <2>9 DEF NextIn
<1>8. CASE later = {}
  <2>1. PICK w : w = u + 2
    OBVIOUS
  <2>2. w \in 1..(n + 1) /\ w - 1 = u + 1 /\ (u + 1) + 1 = w
    BY <1>1, <1>2, <2>1
  <2>3. PICK j : j = FindFrom(a, w)
    OBVIOUS
  <2>4. FindNext(a, i) = j
    BY <1>3, <1>8, <2>2, <2>3
  <2>5. /\ j \in Nat
        /\ j \in BitsIn(a) \/ j >= n * BitsPerWord
        /\ j >= (u + 1) * BitsPerWord
        /\ \A b \in BitsIn(a) : (u + 1) * BitsPerWord <= b => j <= b
    BY <2>2, <2>3, FindFromOK
  <2>6. (u + 1) * BitsPerWord = u * BitsPerWord + BitsPerWord /\ u * BitsPerWord \in Nat
    BY <1>0, <1>1
  <2>7. i < j
    BY <1>0, <1>1, <2>5, <2>6
  <2>8. \A c \in BitsIn(a) : i < c => (u + 1) * BitsPerWord <= c
    BY <1>6, <1>8
  <2>. QED  BY <1>0, <2>4, <2>5, <2>7, <2>8 DEF NextIn
<1>. QED  BY <1>7, <1>8

LEMMA FindJOK ==
  ASSUME NEW data \in SUBSET Nat, NEW len \in Nat, len <= Cardinality(Rules), Cardinality(Rules) \in Nat
  PROVE  /\ NextIn(data, len, -1, FindJ(data))
         /\ data \subseteq All64 => \A i \in Nat : i < len => NextIn(data, len, i, FindNext64(data, i))
<1>1. ASSUME NEW i \in Int, NEW D \in SUBSET Nat, D = {b \in data : i < b}, i < len
      PROVE  NextIn(data, len, i, FindJ(D))
  <2>1. CASE D = {}
    BY <1>1, <2>1 DEF FindJ, NextIn
  <2>2. CASE D # {}
    <3>1. Min(D) \in D /\ \A y \in D : Min(D) <= y
      BY <2>2, LeastOf
    <3>. QED  BY <1>1, <2>2, <3>1 DEF FindJ, NextIn
  <2>. QED  BY <2>1, <2>2
<1>2. NextIn(data, len, -1, FindJ(data))
  <2>1. \A b \in data : -1 < b
    OBVIOUS
  <2>2. data = {b \in data : -1 < b}
    BY <2>1
  <2>. QED  BY <1>1, <2>2
<1>3. ASSUME data \subseteq All64, NEW i \in Nat, i < len
      PROVE  NextIn(data, len, i, FindNext64(data, i))
  <2>1. {b \in data : i < b /\ b < BitsPerWord} = {b \in data : i < b}
    <3>1. \A b \in data : b < BitsPerWord
      BY <1>3, BitVectorAssumption DEF All64
    <3>. QED  BY <3>1
  <2>2. {b \in data : i < b} \in SUBSET Nat
    OBVIOUS
  <2>. QED  BY <1>1, <1>3, <2>1, <2>2 DEF FindNext64
<1>. QED  BY <1>2, <1>3

-----------------------------------------------------------------------------
(* The rules, and the answer of a scan *)

LEMMA FallingRules ==
  ASSUME NEW S \in SUBSET Rules
  PROVE  /\ Descending(ByPriority(S)) /\ Elems(ByPriority(S)) = S
         /\ Len(ByPriority(S)) <= Cardinality(Rules) /\ Cardinality(Rules) \in Nat
<1>1. IsFiniteSet(S) /\ Cardinality(S) <= Cardinality(Rules)
  BY RulesFinite, FS_Subset
<1>2. Cardinality(Rules) \in Nat
  BY RulesFinite, FS_CardinalityType
<1>3. ByPriority(S) = Falling(S)
  BY Zenon DEF ByPriority, Ranked, Falling
<1>4. /\ Falling(S) \in Seq(Rules) /\ Elems(Falling(S)) = S
      /\ Len(Falling(S)) = Cardinality(S)
      /\ \A i, j \in 1..Cardinality(S) : i < j => Priority[Falling(S)[i]] > Priority[Falling(S)[j]]
  BY <1>1, FallingOK
<1>. QED  BY <1>1, <1>2, <1>3, <1>4 DEF Descending

(* The priorities of the matching rules at bits of B *)
Scanned(B, p) ==
  {Priority[built.rules[j + 1]] :
     j \in {k \in B : k < Len(built.rules) /\ <<built.rules[k + 1], p>> \in Match}}

LEMMA FirstHit ==
  ASSUME Descending(built.rules), NEW B \in SUBSET Nat, NEW p, NEW i,
         NextIn(B, Len(built.rules), -1, i)
  PROVE  BestHit(B, i, p) = Best(Scanned(B, p))
<1>1. Len(built.rules) \in Nat /\ i \in Nat
  BY DEF Descending, NextIn
<1>2. HitsFrom(B, i, p) = {k \in B : k < Len(built.rules) /\ <<built.rules[k + 1], p>> \in Match}
  <2>1. \A k \in B : k < Len(built.rules) => (k = i \/ (k \in B /\ k > i)) /\ k \in 0..(Len(built.rules) - 1)
    BY <1>1 DEF NextIn
  <2>2. \A k \in 0..(Len(built.rules) - 1) : (k = i \/ (k \in B /\ k > i)) => k \in B /\ k < Len(built.rules)
    BY <1>1 DEF NextIn
  <2>. QED  BY <2>1, <2>2, Zenon DEF HitsFrom
<1>. QED  BY <1>2, Zenon DEF BestHit, Scanned

LEMMA ScannedMatch ==
  ASSUME Descending(built.rules), NEW B \in SUBSET Nat, NEW p
  PROVE  /\ Scanned(B, p) \subseteq Matching(Elems(built.rules), p)
         /\ Matching(Elems(built.rules), p) \in SUBSET (0..MaxPriority)
         /\ Best(Scanned(B, p)) \in Matching(Elems(built.rules), p) \cup {-1}
<1>. DEFINE rl == built.rules
            M == Matching(Elems(rl), p)
<1>1. Len(rl) \in Nat /\ DOMAIN rl = 1..Len(rl) /\ \A j \in 1..Len(rl) : rl[j] \in Rules
  BY DEF Descending
<1>2. ASSUME NEW k \in B, k < Len(rl), <<rl[k + 1], p>> \in Match
      PROVE  Priority[rl[k + 1]] \in M
  <2>1. rl[k + 1] \in Elems(rl)
    BY <1>1, <1>2 DEF Elems
  <2>. QED  BY <1>2, <2>1 DEF Matching
<1>3. Elems(rl) \subseteq Rules
  BY <1>1 DEF Elems
<1>4. M \in SUBSET (0..MaxPriority)
  <2>1. \A r \in Elems(rl) : Priority[r] \in 0..MaxPriority
    BY <1>3, RuleSetAssumption
  <2>. QED  BY <2>1 DEF Matching
<1>5. Scanned(B, p) \subseteq M
  <2>. HIDE DEF M
  <2>. QED  BY <1>2 DEF Scanned
<1>. HIDE DEF M
<1>6. CASE Scanned(B, p) = {}
  BY <1>4, <1>5, <1>6 DEF Best, M
<1>7. CASE Scanned(B, p) # {}
  <2>1. Best(Scanned(B, p)) \in Scanned(B, p)
    BY <1>4, <1>5, <1>7, BestIsMax
  <2>. QED  BY <1>4, <1>5, <2>1 DEF M
<1>. QED  BY <1>6, <1>7

(* When the bits have every rule that matches, they answer exactly. *)
LEMMA ScannedExact ==
  ASSUME Descending(built.rules), NEW B \in SUBSET Nat, NEW p, NEW n \in Nat,
         \A k \in B : k < Len(built.rules) => k < n,
         \A k \in 0..(Len(built.rules) - 1) : k < n /\ <<built.rules[k + 1], p>> \in Match => k \in B
  PROVE  Scanned(B, p) = Matching({built.rules[i] : i \in {j \in DOMAIN built.rules : j <= n}}, p)
<1>. DEFINE rl == built.rules
            F == {rl[i] : i \in {j \in DOMAIN rl : j <= n}}
<1>1. Len(rl) \in Nat /\ DOMAIN rl = 1..Len(rl)
  BY DEF Descending
<1>2. ASSUME NEW k \in B, k < Len(rl), <<rl[k + 1], p>> \in Match
      PROVE  Priority[rl[k + 1]] \in Matching(F, p)
  <2>1. k + 1 \in DOMAIN rl /\ k + 1 <= n
    BY <1>1, <1>2
  <2>2. rl[k + 1] \in F
    BY <2>1
  <2>. QED  BY <1>2, <2>2 DEF Matching
<1>3. ASSUME NEW i \in DOMAIN rl, i <= n, <<rl[i], p>> \in Match
      PROVE  Priority[rl[i]] \in Scanned(B, p)
  <2>1. i - 1 \in 0..(Len(rl) - 1) /\ i - 1 < n /\ (i - 1) + 1 = i
    BY <1>1, <1>3
  <2>2. i - 1 \in B /\ i - 1 < Len(rl)
    BY <1>1, <1>3, <2>1
  <2>. QED  BY <1>3, <2>1, <2>2 DEF Scanned
<1>4. Scanned(B, p) \subseteq Matching(F, p)
  <2>. HIDE DEF F
  <2>. QED  BY <1>2 DEF Scanned
<1>5. Matching(F, p) \subseteq Scanned(B, p)
  BY <1>3 DEF Matching
<1>. QED  BY <1>4, <1>5

-----------------------------------------------------------------------------
(* The answers, when the matchers lead to ranges that every matching rule  *)
(* contains *)

LEMMA BuiltOK ==
  ASSUME NEW S \in SUBSET Rules, built = BitVectorOf(S)
  PROVE  /\ built.rules = ByPriority(S)
         /\ Descending(built.rules) /\ Elems(built.rules) = S
         /\ Len(built.rules) \in Nat
         /\ Len(built.rules) <= Cardinality(Rules) /\ Cardinality(Rules) \in Nat
         /\ \A f \in MatchedFields :
              /\ built.ranges[f] = RangesOf(S, f)
              /\ DOMAIN built.sets[f] = DOMAIN built.ranges[f]
              /\ \A j \in DOMAIN built.ranges[f] :
                   built.sets[f][j] = Inside(built.rules, built.ranges[f][j], f)
<1>1. built.rules = ByPriority(S)
  BY DEF BitVectorOf
<1>2. /\ Descending(built.rules) /\ Elems(built.rules) = S
      /\ Len(built.rules) <= Cardinality(Rules) /\ Cardinality(Rules) \in Nat
  BY <1>1, FallingRules
<1>3. Len(built.rules) \in Nat
  BY <1>2 DEF Descending
<1>4. ASSUME NEW f \in MatchedFields
      PROVE  /\ built.ranges[f] = RangesOf(S, f)
             /\ DOMAIN built.sets[f] = DOMAIN built.ranges[f]
             /\ \A j \in DOMAIN built.ranges[f] :
                  built.sets[f][j] = Inside(built.rules, built.ranges[f][j], f)
  <2>1. built.ranges[f] = RangesOf(S, f)
    BY DEF BitVectorOf
  <2>2. built.sets[f] = [j \in DOMAIN RangesOf(S, f) |-> Inside(built.rules, RangesOf(S, f)[j], f)]
    BY <1>1 DEF BitVectorOf
  <2>. QED  BY <2>1, <2>2
<1>. QED  BY <1>1, <1>2, <1>3, <1>4

(* Every rule that matches p contains the range found, in both fields. *)
Leads(found, p) ==
  \A f \in MatchedFields, r \in Elems(built.rules) :
    <<r, p>> \in Match => /\ found[f] + 1 \in DOMAIN built.ranges[f]
                         /\ ContainsRange(RangeOf(r, f), built.ranges[f][found[f] + 1])

LEMMA NoRangeOK ==
  ASSUME BitVectorInit, NEW found, NoRange(found), NEW p, Leads(found, p)
  PROVE  \A R \in SUBSET Elems(built.rules) : Best(Matching(R, p)) = -1
<1>1. PICK S \in SUBSET Rules : built = BitVectorOf(S)
  BY DEF BitVectorInit
<1>2. PICK f \in MatchedFields : found[f] + 1 \notin DOMAIN built.sets[f]
  BY DEF NoRange
<1>3. found[f] + 1 \notin DOMAIN built.ranges[f]
  BY <1>1, <1>2, BuiltOK
<1>4. \A r \in Elems(built.rules) : <<r, p>> \notin Match
  BY <1>3 DEF Leads
<1>. QED  BY <1>4 DEF Matching, Best

(* A bit stands for a rule that contains both of the ranges found. *)
LEMMA BitsOfOK ==
  ASSUME BitVectorInit, NEW found, ~NoRange(found), NEW f \in MatchedFields, NEW p
  PROVE  /\ BitsOf(found, f) \subseteq 0..(Len(built.rules) - 1)
         /\ \A k \in 0..(Len(built.rules) - 1) :
              Leads(found, p) /\ <<built.rules[k + 1], p>> \in Match => k \in BitsOf(found, f)
<1>1. PICK S \in SUBSET Rules : built = BitVectorOf(S)
  BY DEF BitVectorInit
<1>2. found[f] + 1 \in DOMAIN built.sets[f]
  BY DEF NoRange
<1>3. BitsOf(found, f) = Inside(built.rules, built.ranges[f][found[f] + 1], f)
  BY <1>1, <1>2, BuiltOK DEF BitsOf
<1>4. Len(built.rules) \in Nat /\ DOMAIN built.rules = 1..Len(built.rules)
  BY <1>1, BuiltOK DEF Descending
<1>5. ASSUME NEW k \in 0..(Len(built.rules) - 1), Leads(found, p), <<built.rules[k + 1], p>> \in Match
      PROVE  k \in BitsOf(found, f)
  <2>1. built.rules[k + 1] \in Elems(built.rules)
    BY <1>4 DEF Elems
  <2>2. ContainsRange(RangeOf(built.rules[k + 1], f), built.ranges[f][found[f] + 1])
    BY <1>5, <2>1 DEF Leads
  <2>. QED  BY <1>3, <2>2 DEF Inside
<1>. QED  BY <1>3, <1>5 DEF Inside

LEMMA SolutionOK ==
  ASSUME BitVectorInit, NEW found, ~NoRange(found)
  PROVE  \E n \in Nat :
           /\ Len(built.rules) <= n * BitsPerWord
           /\ Solution(found) \in BitSets(n)
           /\ BitsIn(Solution(found)) \in SUBSET Nat
           /\ \A k \in 0..(Len(built.rules) - 1) :
                (\A f \in MatchedFields : k \in BitsOf(found, f)) => k \in BitsIn(Solution(found))
<1>. DEFINE len == Len(built.rules)
            full == BitSet(0..(len + BitsPerWord), len)
            a1 == BitSet(BitsOf(found, Order[1]), len)
            a2 == BitSet(BitsOf(found, Order[2]), len)
<1>1. len \in Nat
  BY BuiltOK DEF BitVectorInit
<1>2. PICK n \in Nat : Words(len) = 1..n /\ n * BitsPerWord >= len
  BY <1>1, WordsOK
<1>3. len <= n * BitsPerWord
  BY <1>1, <1>2, BitVectorAssumption
<1>. HIDE DEF len
<1>4. full \in BitSets(n) /\ a1 \in BitSets(n) /\ a2 \in BitSets(n)
  BY <1>1, <1>2, BitSetOK
<1>5. \A k \in 0..(len - 1) : /\ k \in BitsIn(full) <=> k \in 0..(len + BitsPerWord)
                              /\ k \in BitsIn(a1) <=> k \in BitsOf(found, Order[1])
                              /\ k \in BitsIn(a2) <=> k \in BitsOf(found, Order[2])
  <2>1. ASSUME NEW k \in 0..(len - 1)
        PROVE  k \in Nat /\ k < len
    BY <1>1
  <2>. HIDE DEF full, a1, a2
  <2>2. ASSUME NEW T
        PROVE  \A i \in Nat : i < len => (i \in BitsIn(BitSet(T, len)) <=> i \in T)
    BY <1>1, <1>2, BitSetOK
  <2>. QED  BY <2>1, <2>2 DEF full, a1, a2
<1>6. Solution(found) = And(And(full, a1), a2)
  BY DEF Solution, len
<1>. HIDE DEF full, a1, a2
<1>7. And(full, a1) \in BitSets(n) /\ BitsIn(And(full, a1)) = BitsIn(full) \cap BitsIn(a1)
  BY <1>4, AndOK
<1>8. Solution(found) \in BitSets(n)
      /\ BitsIn(Solution(found)) = BitsIn(And(full, a1)) \cap BitsIn(a2)
  BY <1>4, <1>6, <1>7, AndOK
<1>9. BitsIn(Solution(found)) \in SUBSET Nat
  BY DEF BitsIn
<1>10. ASSUME NEW k \in 0..(len - 1), \A f \in MatchedFields : k \in BitsOf(found, f)
       PROVE  k \in BitsIn(Solution(found))
  <2>1. k \in BitsOf(found, Order[1]) /\ k \in BitsOf(found, Order[2])
    BY <1>10 DEF MatchedFields
  <2>2. k \in 0..(len + BitsPerWord)
    BY <1>1, BitVectorAssumption
  <2>. QED  BY <1>5, <1>7, <1>8, <2>1, <2>2
<1>. QED  BY <1>3, <1>8, <1>9, <1>10 DEF len

LEMMA ClassifyOK ==
  ASSUME BitVectorInit, NEW found, NEW p
  PROVE  /\ Leads(found, p) => BitVectorClassify(found, p) = Best(Matching(Elems(built.rules), p))
         /\ BitVectorClassify(found, p) \in Matching(Elems(built.rules), p) \cup {-1}
<1>. DEFINE sol == Solution(found)
            next == [i \in Nat |-> FindNext(sol, i)]
            B == BitsIn(sol)
            len == Len(built.rules)
<1>1. Descending(built.rules) /\ len \in Nat
  BY BuiltOK DEF BitVectorInit
<1>2. CASE NoRange(found)
  <2>1. BitVectorClassify(found, p) = -1
    BY <1>2 DEF BitVectorClassify
  <2>. QED  BY <1>2, <2>1, NoRangeOK
<1>3. CASE ~NoRange(found)
  <2>1. BitVectorClassify(found, p) = Scan(next, p)[FindFirst(sol)]
    BY <1>3 DEF BitVectorClassify
  <2>2. PICK n \in Nat :
           /\ len <= n * BitsPerWord
           /\ sol \in BitSets(n)
           /\ B \in SUBSET Nat
           /\ \A k \in 0..(len - 1) : (\A f \in MatchedFields : k \in BitsOf(found, f)) => k \in B
    BY <1>3, SolutionOK
  <2>3. PICK first : first = FindFirst(sol)
    OBVIOUS
  <2>4. NextIn(B, len, -1, first)
    BY <1>1, <2>2, <2>3, FindFirstOK
  <2>5. \A i \in Nat : i < len => NextIn(B, len, i, next[i])
    BY <1>1, <2>2, FindNextOK
  <2>. HIDE DEF next, B, sol
  <2>6. Scan(next, p)[first] = BestHit(B, first, p)
    <3>1. first \in Nat
      BY <2>4 DEF NextIn
    <3>2. \A i \in Nat : Scan(next, p)[i] = BestHit(B, i, p)
      BY <1>1, <2>2, <2>5, ScanOK
    <3>. QED  BY <3>1, <3>2
  <2>7. BestHit(B, first, p) = Best(Scanned(B, p))
    BY <1>1, <2>2, <2>4, FirstHit
  <2>8. BitVectorClassify(found, p) = Best(Scanned(B, p))
    BY <2>1, <2>3, <2>6, <2>7
  <2>9. ASSUME Leads(found, p)
        PROVE  Scanned(B, p) = Matching(Elems(built.rules), p)
    <3>1. \A k \in 0..(len - 1) : <<built.rules[k + 1], p>> \in Match => k \in B
      <4>1. ASSUME NEW k \in 0..(len - 1), <<built.rules[k + 1], p>> \in Match
            PROVE  \A f \in MatchedFields : k \in BitsOf(found, f)
        BY <1>3, <2>9, <4>1, BitsOfOK
      <4>. QED  BY <2>2, <4>1
    <3>2. \A k \in B : k < len => k < len
      OBVIOUS
    <3>3. Scanned(B, p) = Matching({built.rules[i] : i \in {j \in DOMAIN built.rules : j <= len}}, p)
      BY <1>1, <2>2, <3>1, <3>2, ScannedExact
    <3>4. {j \in DOMAIN built.rules : j <= len} = DOMAIN built.rules
      BY <1>1 DEF Descending
    <3>. QED  BY <3>3, <3>4 DEF Elems
  <2>10. Best(Scanned(B, p)) \in Matching(Elems(built.rules), p) \cup {-1}
    BY <1>1, <2>2, ScannedMatch
  <2>. QED  BY <2>8, <2>9, <2>10
<1>. QED  BY <1>2, <1>3

LEMMA Classify64OK ==
  ASSUME BitVectorInit, NEW found, NEW p, Leads(found, p), NEW stray \in Strays
  PROVE  BitVector64Classify(found, stray, p) = Best(Matching(FirstWord, p))
<1>. DEFINE B == Solution64(found, stray)
            next == [i \in Nat |-> FindNext64(B, i)]
            len == Len(built.rules)
<1>1. /\ Descending(built.rules) /\ len \in Nat
      /\ len <= Cardinality(Rules) /\ Cardinality(Rules) \in Nat
  BY BuiltOK DEF BitVectorInit
<1>2. FirstWord \subseteq Elems(built.rules)
  BY DEF FirstWord, Elems
<1>3. CASE NoRange(found)
  <2>1. BitVector64Classify(found, stray, p) = -1
    BY <1>3 DEF BitVector64Classify
  <2>. QED  BY <1>2, <1>3, <2>1, NoRangeOK
<1>4. CASE ~NoRange(found)
  <2>1. BitVector64Classify(found, stray, p) = Scan(next, p)[FindJ(B)]
    BY <1>4 DEF BitVector64Classify
  <2>2. B \subseteq All64 /\ B \in SUBSET Nat
    <3>1. stray \subseteq All64
      BY DEF Strays
    <3>2. All64 \subseteq Nat
      BY BitVectorAssumption DEF All64
    <3>. QED  BY <3>1, <3>2 DEF Solution64
  <2>3. PICK first : first = FindJ(B)
    OBVIOUS
  <2>4. ASSUME NEW k \in 0..(len - 1), k < BitsPerWord, <<built.rules[k + 1], p>> \in Match
        PROVE  k \in B
    <3>1. \A f \in MatchedFields : k \in BitsOf(found, f)
      BY <1>4, <2>4, BitsOfOK
    <3>2. k \in All64
      BY <2>4, <1>1, BitVectorAssumption DEF All64
    <3>. QED  BY <3>1, <3>2 DEF Solution64
  <2>5. \A k \in B : k < len => k < BitsPerWord
    BY <2>2, BitVectorAssumption DEF All64
  <2>. HIDE DEF B
  <2>6. NextIn(B, len, -1, first) /\ \A i \in Nat : i < len => NextIn(B, len, i, next[i])
    BY <1>1, <2>2, <2>3, FindJOK
  <2>. HIDE DEF next
  <2>7. Scan(next, p)[first] = BestHit(B, first, p)
    <3>1. first \in Nat
      BY <2>6 DEF NextIn
    <3>2. \A i \in Nat : Scan(next, p)[i] = BestHit(B, i, p)
      BY <1>1, <2>2, <2>6, ScanOK
    <3>. QED  BY <3>1, <3>2
  <2>8. BestHit(B, first, p) = Best(Scanned(B, p))
    BY <1>1, <2>2, <2>6, FirstHit
  <2>9. Scanned(B, p) = Matching(FirstWord, p)
    <3>1. BitsPerWord \in Nat
      BY BitVectorAssumption
    <3>2. \A k \in 0..(len - 1) : k < BitsPerWord /\ <<built.rules[k + 1], p>> \in Match => k \in B
      BY <2>4
    <3>3. Scanned(B, p) = Matching({built.rules[i] : i \in {j \in DOMAIN built.rules : j <= BitsPerWord}}, p)
      BY <1>1, <2>2, <2>5, <3>1, <3>2, ScannedExact
    <3>. QED  BY <3>3 DEF FirstWord
  <2>. QED  BY <2>1, <2>3, <2>7, <2>8, <2>9
<1>. QED  BY <1>3, <1>4

LEMMA ExactByOK ==
  ASSUME BitVectorInit, NEW found, NEW p, Leads(found, p)
  PROVE  ExactBy(found, p)
BY ClassifyOK, Classify64OK DEF ExactBy

-----------------------------------------------------------------------------
(* Powers of two *)

PowersTo(g, n) == \A k \in 0..n : g[k] = IF k = 0 THEN 1 ELSE 2 * g[k - 1]

LEMMA PowersExist ==
  \A n \in Nat : \E g : PowersTo(g, n)
<1>. DEFINE G == {n \in Nat : \E g : PowersTo(g, n)}
<1>1. 0 \in G
  <2>. DEFINE g == [k \in 0..0 |-> 1]
  <2>1. PowersTo(g, 0)
    BY DEF PowersTo
  <2>. QED  BY <2>1
<1>2. ASSUME NEW n \in G PROVE n + 1 \in G
  <2>1. PICK h : PowersTo(h, n)
    OBVIOUS
  <2>. DEFINE g == [k \in 0..(n + 1) |-> IF k = n + 1 THEN 2 * h[n] ELSE h[k]]
  <2>2. PowersTo(g, n + 1)
    BY <2>1 DEF PowersTo
  <2>. QED  BY <2>2
<1>. HIDE DEF G
<1>3. G = Nat
  BY <1>1, <1>2, NaturalSet DEF G
<1>. QED  BY <1>3 DEF G

LEMMA PowersAgree ==
  ASSUME NEW n \in Nat, NEW m \in Nat, NEW g, NEW h, PowersTo(g, n), PowersTo(h, m)
  PROVE  \A k \in Nat : k <= n /\ k <= m => g[k] = h[k] /\ g[k] \in Nat \ {0}
<1>. DEFINE G == {k \in Nat : k <= n /\ k <= m => g[k] = h[k] /\ g[k] \in Nat \ {0}}
<1>1. 0 \in G
  BY DEF PowersTo
<1>2. ASSUME NEW k \in G PROVE k + 1 \in G
  <2>1. CASE k + 1 <= n /\ k + 1 <= m
    <3>1. g[k + 1] = 2 * g[(k + 1) - 1] /\ h[k + 1] = 2 * h[(k + 1) - 1]
      BY <2>1 DEF PowersTo
    <3>2. (k + 1) - 1 = k /\ g[k] = h[k] /\ g[k] \in Nat \ {0}
      BY <2>1
    <3>. QED  BY <3>1, <3>2
  <2>. QED  BY <2>1
<1>. HIDE DEF G
<1>3. G = Nat
  BY <1>1, <1>2, NaturalSet DEF G
<1>. QED  BY <1>3 DEF G

LEMMA PowerDef ==
  /\ PowerOfTwo[0] = 1
  /\ \A n \in Nat : PowerOfTwo[n] \in Nat \ {0} /\ PowerOfTwo[n + 1] = 2 * PowerOfTwo[n]
<1>. DEFINE some == [n \in Nat |-> CHOOSE g : PowersTo(g, n)]
            f == [n \in Nat |-> some[n][n]]
<1>1. \A n \in Nat : PowersTo(some[n], n)
  BY PowersExist
<1>. HIDE DEF some
<1>2. ASSUME NEW n \in Nat
      PROVE  f[n] \in Nat \ {0} /\ f[n] = IF n = 0 THEN 1 ELSE 2 * f[n - 1]
  <2>1. f[n] \in Nat \ {0}
    BY <1>1, PowersAgree
  <2>2. CASE n = 0
    BY <1>1, <2>2 DEF PowersTo
  <2>3. CASE n # 0
    <3>1. n - 1 \in Nat /\ f[n - 1] = some[n - 1][n - 1] /\ f[n] = some[n][n]
      BY <2>3
    <3>2. some[n][n - 1] = some[n - 1][n - 1]
      BY <1>1, <3>1, PowersAgree
    <3>3. some[n][n] = 2 * some[n][n - 1]
      BY <1>1, <2>3 DEF PowersTo
    <3>. QED  BY <2>1, <2>3, <3>1, <3>2, <3>3
  <2>. QED  BY <2>1, <2>2, <2>3
<1>. HIDE DEF f
<1>3. f = [n \in Nat |-> IF n = 0 THEN 1 ELSE 2 * f[n - 1]]
  <2>1. f = [n \in Nat |-> f[n]]
    BY DEF f
  <2>. QED  BY <1>2, <2>1
<1>4. PowerOfTwo = [n \in Nat |-> IF n = 0 THEN 1 ELSE 2 * PowerOfTwo[n - 1]]
  BY <1>3, Zenon DEF PowerOfTwo
<1>. DEFINE G == {n \in Nat : PowerOfTwo[n] = f[n]}
<1>5. 0 \in G
  BY <1>2, <1>4
<1>6. ASSUME NEW n \in G PROVE n + 1 \in G
  <2>1. n + 1 \in Nat /\ n + 1 # 0 /\ (n + 1) - 1 = n
    OBVIOUS
  <2>2. PowerOfTwo[n + 1] = 2 * PowerOfTwo[n]
    BY <1>4, <2>1
  <2>3. f[n + 1] = 2 * f[n]
    BY <1>2, <2>1
  <2>. QED  BY <2>2, <2>3
<1>. HIDE DEF G
<1>7. G = Nat
  BY <1>5, <1>6, NaturalSet DEF G
<1>8. \A n \in Nat : PowerOfTwo[n] = f[n]
  BY <1>7 DEF G
<1>9. ASSUME NEW n \in Nat PROVE PowerOfTwo[n + 1] = 2 * PowerOfTwo[n]
  <2>1. n + 1 \in Nat /\ n + 1 # 0 /\ (n + 1) - 1 = n
    OBVIOUS
  <2>. QED  BY <1>4, <2>1
<1>. QED  BY <1>2, <1>8, <1>9

(* A power divides the larger ones. *)
LEMMA PowerDivides ==
  ASSUME NEW j \in Nat, NEW k \in Nat, j <= k
  PROVE  \E q \in Nat \ {0} : PowerOfTwo[k] = q * PowerOfTwo[j]
<1>. DEFINE G == {d \in Nat : \E q \in Nat \ {0} : PowerOfTwo[j + d] = q * PowerOfTwo[j]}
<1>1. 0 \in G
  <2>1. PowerOfTwo[j + 0] = 1 * PowerOfTwo[j]
    BY PowerDef
  <2>. QED  BY <2>1
<1>2. ASSUME NEW d \in G PROVE d + 1 \in G
  <2>1. PICK q \in Nat \ {0} : PowerOfTwo[j + d] = q * PowerOfTwo[j]
    OBVIOUS
  <2>2. PowerOfTwo[j + (d + 1)] = 2 * PowerOfTwo[j + d]
    <3>1. j + (d + 1) = (j + d) + 1 /\ j + d \in Nat
      OBVIOUS
    <3>. QED  BY <3>1, PowerDef
  <2>3. 2 * (q * PowerOfTwo[j]) = (2 * q) * PowerOfTwo[j]
    BY PowerDef
  <2>4. 2 * q \in Nat \ {0}
    OBVIOUS
  <2>. QED  BY <2>1, <2>2, <2>3, <2>4
<1>. HIDE DEF G
<1>3. G = Nat
  BY <1>1, <1>2, NaturalSet DEF G
<1>4. k - j \in G /\ j + (k - j) = k
  BY <1>3
<1>. QED  BY <1>4 DEF G

LEMMA PowerLess ==
  ASSUME NEW j \in Nat, NEW k \in Nat, j < k
  PROVE  PowerOfTwo[j] < PowerOfTwo[k]
<1>1. PICK q \in Nat \ {0} : PowerOfTwo[k] = q * PowerOfTwo[j + 1]
  BY PowerDivides
<1>2. PowerOfTwo[j] \in Nat \ {0} /\ PowerOfTwo[j + 1] = 2 * PowerOfTwo[j]
  BY PowerDef
<1>3. PICK x : x = PowerOfTwo[j + 1]
  OBVIOUS
<1>4. x \in Nat /\ q * x >= x
  BY <1>2, <1>3
<1>. QED  BY <1>1, <1>2, <1>3, <1>4

-----------------------------------------------------------------------------
(* Ranges of prefixes *)

PrefixRanges == {s \in [low : Nat, high : Nat] : s.low <= s.high /\ PrefixRange(s.low, s.high)}

LEMMA PrefixShape ==
  ASSUME NEW s \in PrefixRanges
  PROVE  /\ s.low \in Nat /\ s.high \in Nat /\ s.low <= s.high
         /\ s = [low |-> s.low, high |-> s.high]
         /\ OpenBits(s) \in Nat
         /\ s.high - s.low + 1 = PowerOfTwo[OpenBits(s)]
         /\ s.low % PowerOfTwo[OpenBits(s)] = 0
<1>1. s.low \in Nat /\ s.high \in Nat /\ s.low <= s.high /\ s = [low |-> s.low, high |-> s.high]
  BY DEF PrefixRanges
<1>2. PICK k \in 0..PointBits : s.high - s.low + 1 = PowerOfTwo[k] /\ s.low % PowerOfTwo[k] = 0
  BY DEF PrefixRanges, PrefixRange
<1>3. PointBits \in Nat /\ k \in Nat
  BY BitVectorAssumption
<1>. DEFINE T == {i \in 0..PointBits : s.high - s.low < PowerOfTwo[i]}
<1>4. PowerOfTwo[k] \in Nat /\ s.high - s.low < PowerOfTwo[k]
  BY <1>1, <1>2, <1>3, PowerDef
<1>5. k \in T /\ T \in SUBSET Nat
  BY <1>3, <1>4
<1>6. PICK m : m = Min(T)
  OBVIOUS
<1>7. m \in T /\ m <= k
  BY <1>5, <1>6, LeastOf
<1>8. m \in Nat /\ s.high - s.low < PowerOfTwo[m] /\ PowerOfTwo[m] \in Nat
  BY <1>7, <1>3, PowerDef
<1>9. ~(m < k)
  <2>. SUFFICES ASSUME m < k PROVE FALSE
    OBVIOUS
  <2>1. PowerOfTwo[m] < PowerOfTwo[k]
    BY <1>3, <1>8, PowerLess
  <2>. QED  BY <1>1, <1>2, <1>4, <1>8, <2>1
<1>10. m = k
  BY <1>3, <1>7, <1>8, <1>9
<1>11. OpenBits(s) = k
  BY <1>6, <1>10 DEF OpenBits
<1>. QED  BY <1>1, <1>2, <1>3, <1>11

LEMMA Multiple ==
  ASSUME NEW P \in Nat \ {0}, NEW x \in Nat, x % P = 0
  PROVE  x \div P \in Nat /\ x = (x \div P) * P
OBVIOUS

LEMMA AgreesOK ==
  ASSUME NEW s \in PrefixRanges, NEW x \in Nat
  PROVE  Agrees(x, s) <=> s.low <= x /\ x <= s.high
<1>1. PICK P : P = PowerOfTwo[OpenBits(s)]
  OBVIOUS
<1>2. /\ s.low \in Nat /\ s.high \in Nat /\ s.low <= s.high /\ P \in Nat \ {0}
      /\ s.high - s.low + 1 = P /\ s.low % P = 0
  BY <1>1, PrefixShape, PowerDef
<1>3. PICK m \in Nat : m = s.low \div P /\ s.low = m * P
  BY <1>2
<1>4. x \div P = m <=> m * P <= x /\ x < m * P + P
  BY <1>2
<1>. QED  BY <1>1, <1>2, <1>3, <1>4 DEF Agrees

LEMMA NestedBy ==
  ASSUME NEW a \in PrefixRanges, NEW b \in PrefixRanges, OpenBits(b) <= OpenBits(a),
         NEW x \in Nat, a.low <= x, x <= a.high, b.low <= x, x <= b.high
  PROVE  ContainsRange(a, b)
<1>1. PICK P : P = PowerOfTwo[OpenBits(b)]
  OBVIOUS
<1>2. PICK Q : Q = PowerOfTwo[OpenBits(a)]
  OBVIOUS
<1>3. /\ P \in Nat \ {0} /\ Q \in Nat \ {0}
      /\ a.low \in Nat /\ a.high = a.low + Q - 1 /\ a.low % Q = 0
      /\ b.low \in Nat /\ b.high = b.low + P - 1 /\ b.low % P = 0
  BY <1>1, <1>2, PrefixShape, PowerDef
<1>4. PICK q \in Nat \ {0} : Q = q * P
  BY <1>1, <1>2, PrefixShape, PowerDivides
<1>5. PICK m \in Nat : m = a.low \div Q /\ a.low = m * Q
  BY <1>3, Multiple
<1>6. PICK n \in Nat : n = b.low \div P /\ b.low = n * P
  BY <1>3, Multiple
<1>7. a.low = (m * q) * P /\ m * q \in Nat
  BY <1>3, <1>4, <1>5
<1>8. PICK c \in Nat : c = m * q /\ a.low = c * P
  BY <1>7
<1>9. c <= n
  <2>. SUFFICES ASSUME n < c PROVE FALSE
    OBVIOUS
  <2>1. n * P + P <= c * P
    BY <1>3
  <2>. QED  BY <1>3, <1>6, <1>8, <2>1
<1>10. n < c + q
  <2>. SUFFICES ASSUME c + q <= n PROVE FALSE
    OBVIOUS
  <2>1. (c + q) * P <= n * P
    BY <1>3
  <2>2. (c + q) * P = c * P + q * P
    BY <1>3
  <2>. QED  BY <1>3, <1>4, <1>6, <1>8, <2>1, <2>2
<1>11. c * P <= n * P
  BY <1>3, <1>9
<1>12. n * P + P <= c * P + q * P
  <2>1. (n + 1) * P <= (c + q) * P
    BY <1>3, <1>10
  <2>. QED  BY <1>3, <2>1
<1>13. c * P \in Nat /\ n * P \in Nat /\ q * P \in Nat
  BY <1>3
<1>. QED  BY <1>3, <1>4, <1>6, <1>8, <1>11, <1>12, <1>13 DEF ContainsRange

(* Two prefixes are one inside of the other, or apart. *)
LEMMA Laminar ==
  ASSUME NEW a \in PrefixRanges, NEW b \in PrefixRanges
  PROVE  ContainsRange(a, b) \/ ContainsRange(b, a) \/ a.high < b.low \/ b.high < a.low
<1>1. /\ a.low \in Nat /\ a.high \in Nat /\ a.low <= a.high /\ OpenBits(a) \in Nat
      /\ b.low \in Nat /\ b.high \in Nat /\ b.low <= b.high /\ OpenBits(b) \in Nat
  BY PrefixShape
<1>2. ASSUME a.low <= b.high, b.low <= a.high
      PROVE  \E x \in Nat : a.low <= x /\ x <= a.high /\ b.low <= x /\ x <= b.high
  <2>1. CASE a.low <= b.low
    BY <1>1, <1>2, <2>1
  <2>2. CASE b.low <= a.low
    BY <1>1, <1>2, <2>2
  <2>. QED  BY <1>1, <2>1, <2>2
<1>3. OpenBits(b) <= OpenBits(a) \/ OpenBits(a) <= OpenBits(b)
  BY <1>1
<1>. QED  BY <1>1, <1>2, <1>3, NestedBy

(* On prefixes, InsideOut is a strict total order. *)
LEMMA InsideOutOrder ==
  /\ \A a \in PrefixRanges : ~InsideOut(a, a)
  /\ \A a, b, c \in PrefixRanges : InsideOut(a, b) /\ InsideOut(b, c) => InsideOut(a, c)
  /\ \A a, b \in PrefixRanges : a # b => InsideOut(a, b) \/ InsideOut(b, a)
<1>1. \A a \in PrefixRanges : ~InsideOut(a, a)
  BY PrefixShape DEF InsideOut, ContainsRange
<1>2. ASSUME NEW a \in PrefixRanges, NEW b \in PrefixRanges, NEW c \in PrefixRanges,
             InsideOut(a, b), InsideOut(b, c)
      PROVE  InsideOut(a, c)
  <2>1. /\ a.low \in Nat /\ a.high \in Nat /\ a.low <= a.high
        /\ b.low \in Nat /\ b.high \in Nat /\ b.low <= b.high
        /\ c.low \in Nat /\ c.high \in Nat /\ c.low <= c.high
    BY PrefixShape
  <2>2. /\ ContainsRange(a, b) \/ ContainsRange(b, a) \/ a.high < b.low \/ b.high < a.low
        /\ ContainsRange(b, c) \/ ContainsRange(c, b) \/ b.high < c.low \/ c.high < b.low
        /\ ContainsRange(a, c) \/ ContainsRange(c, a) \/ a.high < c.low \/ c.high < a.low
    BY Laminar
  <2>. QED  BY <1>2, <2>1, <2>2 DEF InsideOut, ContainsRange
<1>3. ASSUME NEW a \in PrefixRanges, NEW b \in PrefixRanges, a # b
      PROVE  InsideOut(a, b) \/ InsideOut(b, a)
  <2>1. /\ a.low \in Nat /\ a.high \in Nat /\ a = [low |-> a.low, high |-> a.high]
        /\ b.low \in Nat /\ b.high \in Nat /\ b = [low |-> b.low, high |-> b.high]
    BY PrefixShape
  <2>2. a.low # b.low \/ a.high # b.high
    BY <1>3, <2>1
  <2>. QED  BY <2>1, <2>2 DEF InsideOut, ContainsRange
<1>. QED  BY <1>1, <1>2, <1>3

LEMMA RangesOfOK ==
  ASSUME NEW S \in SUBSET Rules, NEW f \in MatchedFields
  PROVE  \E n \in Nat :
           /\ RangesOf(S, f) \in [1..n -> PrefixRanges]
           /\ Elems(RangesOf(S, f)) = {RangeOf(r, f) : r \in S}
           /\ \A i, j \in 1..n : i < j => InsideOut(RangesOf(S, f)[i], RangesOf(S, f)[j])
<1>. DEFINE T == {RangeOf(r, f) : r \in S}
<1>1. f \in Fields
  BY BoxAssumption, BitVectorAssumption DEF MatchedFields
<1>2. T \in SUBSET PrefixRanges
  <2>1. ASSUME NEW r \in S PROVE RangeOf(r, f) \in PrefixRanges
    <3>1. Low[r][f] \in Nat /\ High[r][f] \in Nat /\ Low[r][f] <= High[r][f]
      BY <1>1, BoxAssumption
    <3>2. PrefixRange(Low[r][f], High[r][f])
      BY BitVectorAssumption
    <3>. QED  BY <3>1, <3>2 DEF RangeOf, Interval, PrefixRanges
  <2>. QED  BY <2>1
<1>3. IsFiniteSet(T)
  <2>1. IsFiniteSet(S)
    BY RulesFinite, FS_Subset
  <2>2. PICK g : g = [r \in S |-> RangeOf(r, f)]
    OBVIOUS
  <2>3. T = {g[r] : r \in S}
    BY <2>2
  <2>. QED  BY <2>1, <2>2, <2>3, ImageFinite
<1>4. RangesOf(S, f) = [i \in 1..Cardinality(T) |->
                          CHOOSE x \in T : Cardinality({y \in T : InsideOut(y, x)}) = i - 1]
  BY Zenon DEF RangesOf, Ranked
<1>. HIDE DEF T
<1>5. PICK R : R = {e \in T \X T : InsideOut(e[1], e[2])}
  OBVIOUS
<1>6. \A x, y \in T : <<x, y>> \in R <=> InsideOut(x, y)
  BY <1>5
<1>7. /\ \A x \in T : <<x, x>> \notin R
      /\ \A x, y, z \in T : <<x, y>> \in R /\ <<y, z>> \in R => <<x, z>> \in R
      /\ \A x, y \in T : x # y => <<x, y>> \in R \/ <<y, x>> \in R
  BY <1>2, <1>6, InsideOutOrder
<1>8. \A x \in T : {y \in T : InsideOut(y, x)} = Below(T, R, x)
  BY <1>6 DEF Below
<1>9. RangesOf(S, f) = RankedBy(T, R)
  <2>1. ASSUME NEW i \in 1..Cardinality(T)
        PROVE  (CHOOSE x \in T : Cardinality({y \in T : InsideOut(y, x)}) = i - 1)
               = CHOOSE x \in T : Cardinality(Below(T, R, x)) = i - 1
    <3>1. \A x : (x \in T /\ Cardinality({y \in T : InsideOut(y, x)}) = i - 1)
                   <=> (x \in T /\ Cardinality(Below(T, R, x)) = i - 1)
      BY <1>8
    <3>. QED  BY <3>1, Zenon
  <2>. QED  BY <1>4, <2>1, Zenon DEF RankedBy
<1>10. /\ Cardinality(T) \in Nat /\ RankedBy(T, R) \in [1..Cardinality(T) -> T]
       /\ Elems(RankedBy(T, R)) = T
  BY <1>3, <1>7, RankedElems
<1>11. \A i, j \in 1..Cardinality(T) : i < j => <<RankedBy(T, R)[i], RankedBy(T, R)[j]>> \in R
  BY <1>3, <1>7, RankedOrder
<1>12. \A i, j \in 1..Cardinality(T) : i < j => InsideOut(RankedBy(T, R)[i], RankedBy(T, R)[j])
  BY <1>6, <1>10, <1>11
<1>13. RankedBy(T, R) \in [1..Cardinality(T) -> PrefixRanges]
  BY <1>2, <1>10
<1>. QED  BY <1>9, <1>10, <1>12, <1>13 DEF T

-----------------------------------------------------------------------------
(* Sums of boosts *)

LEMMA PartSumsAre ==
  ASSUME NEW n \in Nat, NEW c, c = [k \in 1..n |-> c[k]]
  PROVE  Sums(PartSums(c), c, n)
<1>1. Len(c) = n
  <2>1. DOMAIN c = 1..n
    OBVIOUS
  <2>. QED  BY <2>1
<1>2. PICK f : f = CHOOSE g : Sums(g, c, n)
  OBVIOUS
<1>3. Sums(f, c, n)
  BY <1>2, SumsExist
<1>4. PartSums(c) = f
  BY <1>1, <1>2, Zenon DEF PartSums, Sums
<1>. QED  BY <1>3, <1>4

LEMMA SumAmongStep ==
  ASSUME NEW b, NEW T, NEW n \in Nat
  PROVE  /\ SumAmong(b, T, 0) = 0
         /\ SumAmong(b, T, n + 1) = SumAmong(b, T, n) + (IF n + 1 \in T THEN b[n + 1] ELSE 0)
<1>. DEFINE c(m) == [k \in 1..m |-> IF k \in T THEN b[k] ELSE 0]
<1>1. \A m \in Nat : SumAmong(b, T, m) = PartSums(c(m))[m] /\ Sums(PartSums(c(m)), c(m), m)
  <2>1. ASSUME NEW m \in Nat PROVE Sums(PartSums(c(m)), c(m), m)
    <3>1. PICK d : d = c(m)
      OBVIOUS
    <3>2. d = [k \in 1..m |-> d[k]]
      BY <3>1
    <3>3. Sums(PartSums(d), d, m)
      BY <3>2, PartSumsAre
    <3>. QED  BY <3>1, <3>3
  <2>. QED  BY <2>1 DEF SumAmong
<1>2. SumAmong(b, T, 0) = 0
  <2>1. PICK d : d = c(0)
    OBVIOUS
  <2>2. PICK f : f = PartSums(d)
    OBVIOUS
  <2>3. SumAmong(b, T, 0) = f[0] /\ Sums(f, d, 0)
    BY <1>1, <2>1, <2>2
  <2>4. f[0] = 0
    BY <2>3 DEF Sums
  <2>. QED  BY <2>3, <2>4
<1>3. SumAmong(b, T, n + 1) = SumAmong(b, T, n) + (IF n + 1 \in T THEN b[n + 1] ELSE 0)
  <2>1. PICK d : d = c(n)
    OBVIOUS
  <2>2. PICK e : e = c(n + 1)
    OBVIOUS
  <2>3. PICK f : f = PartSums(d)
    OBVIOUS
  <2>4. PICK g : g = PartSums(e)
    OBVIOUS
  <2>5. \A k \in 1..n : d[k] = e[k]
    BY <2>1, <2>2
  <2>6. e[n + 1] = IF n + 1 \in T THEN b[n + 1] ELSE 0
    BY <2>2
  <2>7. Sums(f, d, n) /\ Sums(g, e, n + 1)
    BY <1>1, <2>1, <2>2, <2>3, <2>4
  <2>8. SumAmong(b, T, n) = f[n] /\ SumAmong(b, T, n + 1) = g[n + 1]
    BY <1>1, <2>1, <2>2, <2>3, <2>4
  <2>. DEFINE G == {k \in Nat : k <= n => f[k] = g[k]}
  <2>9. 0 \in G
    BY <2>7 DEF Sums
  <2>10. ASSUME NEW k \in G PROVE k + 1 \in G
    <3>1. CASE k + 1 <= n
      <4>1. f[k + 1] = f[(k + 1) - 1] + d[k + 1] /\ g[k + 1] = g[(k + 1) - 1] + e[k + 1]
        BY <2>7, <3>1 DEF Sums
      <4>2. (k + 1) - 1 = k /\ f[k] = g[k] /\ d[k + 1] = e[k + 1]
        BY <2>5, <3>1
      <4>. QED  BY <4>1, <4>2
    <3>. QED  BY <3>1
  <2>. HIDE DEF G
  <2>11. f[n] = g[n]
    <3>1. G = Nat
      BY <2>9, <2>10, NaturalSet DEF G
    <3>. QED  BY <3>1 DEF G
  <2>12. g[n + 1] = g[(n + 1) - 1] + e[n + 1] /\ (n + 1) - 1 = n
    BY <2>7 DEF Sums
  <2>. QED  BY <2>6, <2>8, <2>11, <2>12
<1>. QED  BY <1>2, <1>3

LEMMA SumAmongSame ==
  ASSUME NEW b, NEW d, NEW T, NEW n \in Nat, \A k \in 1..n : k \in T => b[k] = d[k]
  PROVE  SumAmong(b, T, n) = SumAmong(d, T, n)
<1>1. [k \in 1..n |-> IF k \in T THEN b[k] ELSE 0] = [k \in 1..n |-> IF k \in T THEN d[k] ELSE 0]
  OBVIOUS
<1>. QED  BY <1>1 DEF SumAmong

LEMMA SumAmongInt ==
  ASSUME NEW b, NEW T, NEW n \in Nat, \A k \in 1..n : k \in T => b[k] \in Int
  PROVE  SumAmong(b, T, n) \in Int
<1>. DEFINE G == {k \in Nat : k <= n => SumAmong(b, T, k) \in Int}
<1>1. 0 \in G
  BY SumAmongStep
<1>2. ASSUME NEW k \in G PROVE k + 1 \in G
  <2>1. k \in Nat
    OBVIOUS
  <2>2. SumAmong(b, T, k + 1) = SumAmong(b, T, k) + (IF k + 1 \in T THEN b[k + 1] ELSE 0)
    BY <2>1, SumAmongStep
  <2>3. CASE k + 1 <= n
    BY <2>2, <2>3
  <2>. QED  BY <2>3
<1>. HIDE DEF G
<1>3. G = Nat
  BY <1>1, <1>2, NaturalSet DEF G
<1>. QED  BY <1>3 DEF G

(* Nothing of T comes after m. *)
LEMMA SumAmongEnds ==
  ASSUME NEW b, NEW T, NEW m \in Nat, SumAmong(b, T, m) \in Int, NEW n \in Nat, m <= n,
         \A k \in 1..n : k \in T => k <= m
  PROVE  SumAmong(b, T, n) = SumAmong(b, T, m)
<1>. DEFINE G == {d \in Nat : m + d <= n => SumAmong(b, T, m + d) = SumAmong(b, T, m)}
<1>1. 0 \in G
  OBVIOUS
<1>2. ASSUME NEW d \in G PROVE d + 1 \in G
  <2>1. PICK k \in Nat : k = m + d
    OBVIOUS
  <2>2. SumAmong(b, T, k + 1) = SumAmong(b, T, k) + (IF k + 1 \in T THEN b[k + 1] ELSE 0)
    BY SumAmongStep
  <2>3. m + (d + 1) = k + 1
    BY <2>1
  <2>4. CASE k + 1 <= n
    BY <2>1, <2>2, <2>3, <2>4
  <2>. QED  BY <2>3, <2>4
<1>. HIDE DEF G
<1>3. G = Nat
  BY <1>1, <1>2, NaturalSet DEF G
<1>4. n - m \in G /\ m + (n - m) = n
  BY <1>3
<1>. QED  BY <1>4 DEF G

(* The boosts *)
Boosted(b, terms, n) ==
  b = [i \in 1..n |-> i - 1 - SumAmong(b, Containing(terms, i), i - 1)]

LEMMA BoostsExist ==
  ASSUME NEW terms, NEW n \in Nat
  PROVE  \E b : Boosted(b, terms, n)
<1>. DEFINE C(i) == Containing(terms, i)
            B(b, i) == i - 1 - SumAmong(b, C(i), i - 1)
            G == {m \in Nat : \E b : b = [i \in 1..m |-> B(b, i)]}
<1>1. 0 \in G
  <2>. DEFINE b == [i \in 1..0 |-> 0]
  <2>1. b = [i \in 1..0 |-> B(b, i)]
    OBVIOUS
  <2>. QED  BY <2>1
<1>2. ASSUME NEW m \in G PROVE m + 1 \in G
  <2>1. PICK b : b = [i \in 1..m |-> B(b, i)]
    OBVIOUS
  <2>2. PICK d : d = [i \in 1..(m + 1) |-> IF i = m + 1 THEN B(b, m + 1) ELSE b[i]]
    OBVIOUS
  <2>3. ASSUME NEW i \in 1..(m + 1) PROVE d[i] = B(d, i)
    <3>1. SumAmong(d, C(i), i - 1) = SumAmong(b, C(i), i - 1)
      <4>1. i - 1 \in Nat /\ \A k \in 1..(i - 1) : d[k] = b[k]
        BY <2>2
      <4>2. PICK T : T = C(i)
        OBVIOUS
      <4>3. SumAmong(d, T, i - 1) = SumAmong(b, T, i - 1)
        BY <4>1, SumAmongSame
      <4>. QED  BY <4>2, <4>3
    <3>2. B(d, i) = B(b, i)
      BY <3>1
    <3>. HIDE DEF B
    <3>3. CASE i = m + 1
      BY <2>2, <3>2, <3>3
    <3>4. CASE i # m + 1
      <4>1. i \in 1..m
        BY <3>4
      <4>2. b[i] = B(b, i)
        BY <2>1, <4>1
      <4>. QED  BY <2>2, <3>2, <3>4, <4>2
    <3>. QED  BY <3>3, <3>4
  <2>. HIDE DEF B
  <2>4. d = [i \in 1..(m + 1) |-> B(d, i)]
    <3>1. d = [i \in 1..(m + 1) |-> d[i]]
      BY <2>2
    <3>. QED  BY <2>3, <3>1
  <2>. QED  BY <2>4
<1>. HIDE DEF G
<1>3. G = Nat
  BY <1>1, <1>2, NaturalSet DEF G
<1>4. PICK b : b = [i \in 1..n |-> B(b, i)]
  BY <1>3 DEF G
<1>. QED  BY <1>4 DEF Boosted

LEMMA BoostsOK ==
  ASSUME NEW terms, NEW n \in Nat, DOMAIN terms = 1..n
  PROVE  \A i \in 1..n :
           /\ Boosts(terms)[i] \in Int
           /\ SumAmong(Boosts(terms), Containing(terms, i), i - 1) \in Int
           /\ Boosts(terms)[i] = i - 1 - SumAmong(Boosts(terms), Containing(terms, i), i - 1)
<1>1. PICK b : b = CHOOSE d : Boosted(d, terms, n)
  OBVIOUS
<1>2. Boosted(b, terms, n)
  BY <1>1, BoostsExist
<1>3. Boosts(terms) = b
  BY <1>1, Zenon DEF Boosts, Boosted
<1>4. \A i \in 1..n : b[i] = i - 1 - SumAmong(b, Containing(terms, i), i - 1)
  BY <1>2 DEF Boosted
<1>. DEFINE G == {m \in Nat : \A i \in 1..n : i <= m =>
                    b[i] \in Int /\ SumAmong(b, Containing(terms, i), i - 1) \in Int}
<1>5. 0 \in G
  OBVIOUS
<1>6. ASSUME NEW m \in G PROVE m + 1 \in G
  <2>1. ASSUME NEW i \in 1..n, i <= m + 1
        PROVE  b[i] \in Int /\ SumAmong(b, Containing(terms, i), i - 1) \in Int
    <3>1. i - 1 \in Nat /\ \A k \in 1..(i - 1) : b[k] \in Int
      BY <2>1
    <3>2. PICK T : T = Containing(terms, i)
      OBVIOUS
    <3>3. SumAmong(b, T, i - 1) \in Int
      BY <3>1, SumAmongInt
    <3>4. b[i] = i - 1 - SumAmong(b, T, i - 1)
      BY <1>4, <3>2
    <3>. QED  BY <3>2, <3>3, <3>4
  <2>. QED  BY <2>1
<1>. HIDE DEF G
<1>7. n \in G
  BY <1>5, <1>6, NaturalSet DEF G
<1>8. \A i \in 1..n : b[i] \in Int /\ SumAmong(b, Containing(terms, i), i - 1) \in Int
  BY <1>7 DEF G
<1>. QED  BY <1>3, <1>4, <1>8

(* What the terms around term i add, with its own boost, is its position. *)
LEMMA BoostsOf ==
  ASSUME NEW terms, NEW n \in Nat, DOMAIN terms = 1..n, NEW i \in 1..n,
         i \in Containing(terms, i), \A k \in Containing(terms, i) : k <= i
  PROVE  SumAmong(Boosts(terms), Containing(terms, i), n) = i - 1
<1>1. PICK b : b = Boosts(terms)
  OBVIOUS
<1>2. PICK T : T = Containing(terms, i)
  OBVIOUS
<1>3. PICK m \in Nat : m = i - 1 /\ m + 1 = i
  OBVIOUS
<1>4. b[i] \in Int /\ SumAmong(b, T, m) \in Int /\ b[i] = m - SumAmong(b, T, m)
  BY <1>1, <1>2, <1>3, BoostsOK
<1>5. SumAmong(b, T, m + 1) = SumAmong(b, T, m) + (IF m + 1 \in T THEN b[m + 1] ELSE 0)
  BY SumAmongStep
<1>6. SumAmong(b, T, i) = m
  BY <1>2, <1>3, <1>4, <1>5
<1>7. SumAmong(b, T, n) = SumAmong(b, T, i)
  <2>1. \A k \in 1..n : k \in T => k <= i
    BY <1>2
  <2>2. i <= n /\ i \in Nat /\ SumAmong(b, T, i) \in Int
    BY <1>6
  <2>. QED  BY <2>1, <2>2, SumAmongEnds
<1>. QED  BY <1>1, <1>2, <1>3, <1>6, <1>7

-----------------------------------------------------------------------------
(* The innermost range of a value *)

Listed(q, n) ==
  /\ n \in Nat /\ q \in [1..n -> PrefixRanges]
  /\ \A i, j \in 1..n : i < j => InsideOut(q[i], q[j])

Covers(s, x) == s.low <= x /\ x <= s.high

(* The first of the ranges that x is in *)
FirstOf(q, n, x, i) ==
  i \in 1..n /\ Covers(q[i], x) /\ \A k \in 1..n : k < i => ~Covers(q[k], x)

LEMMA FirstExists ==
  ASSUME NEW q, NEW n \in Nat, NEW x, NEW k \in 1..n, Covers(q[k], x)
  PROVE  \E i \in 1..n : FirstOf(q, n, x, i)
<1>. DEFINE T == {j \in 1..n : Covers(q[j], x)}
<1>1. T \in SUBSET Nat /\ T # {}
  OBVIOUS
<1>2. PICK i : i = Min(T)
  OBVIOUS
<1>3. i \in T /\ \A j \in T : i <= j
  BY <1>1, <1>2, LeastOf
<1>. QED  BY <1>3 DEF FirstOf

LEMMA Innermost ==
  ASSUME NEW q, NEW n, Listed(q, n), NEW x \in Nat, NEW i, FirstOf(q, n, x, i)
  PROVE  \A k \in 1..n : Covers(q[k], x) <=> ContainsRange(q[k], q[i])
<1>1. i \in 1..n /\ n \in Nat /\ q[i] \in PrefixRanges /\ Covers(q[i], x)
  BY DEF FirstOf, Listed
<1>2. ASSUME NEW k \in 1..n
      PROVE  Covers(q[k], x) <=> ContainsRange(q[k], q[i])
  <2>1. q[k] \in PrefixRanges
    BY DEF Listed
  <2>2. /\ q[i].low \in Nat /\ q[i].high \in Nat /\ q[i].low <= q[i].high
        /\ q[k].low \in Nat /\ q[k].high \in Nat /\ q[k].low <= q[k].high
    BY <1>1, <2>1, PrefixShape
  <2>3. ASSUME ContainsRange(q[k], q[i]) PROVE Covers(q[k], x)
    BY <1>1, <2>2, <2>3 DEF ContainsRange, Covers
  <2>4. ASSUME Covers(q[k], x) PROVE ContainsRange(q[k], q[i])
    <3>1. k = i \/ i < k
      BY <1>1, <2>4 DEF FirstOf
    <3>2. CASE k = i
      BY <2>2, <3>2 DEF ContainsRange
    <3>3. CASE i < k
      <4>1. InsideOut(q[i], q[k])
        BY <1>1, <3>3 DEF Listed
      <4>2. ContainsRange(q[i], q[k]) \/ ContainsRange(q[k], q[i])
            \/ q[i].high < q[k].low \/ q[k].high < q[i].low
        BY <1>1, <2>1, Laminar
      <4>. QED  BY <1>1, <2>2, <2>4, <4>1, <4>2 DEF InsideOut, Covers
    <3>. QED  BY <3>1, <3>2, <3>3
  <2>. QED  BY <2>3, <2>4
<1>. QED  BY <1>2

(* The equation of EqnMatcher *)
LEMMA EqnMatchOK ==
  ASSUME NEW q, NEW n, Listed(q, n), NEW x \in Nat, NEW i, FirstOf(q, n, x, i)
  PROVE  EqnMatch(q, x) = i - 1
<1>1. n \in Nat /\ DOMAIN q = 1..n /\ i \in 1..n
  BY DEF Listed, FirstOf
<1>2. Len(q) = n
  BY <1>1
<1>3. PICK t : t = Reversed(q)
  OBVIOUS
<1>4. DOMAIN t = 1..n /\ \A j \in 1..n : t[j] = q[n + 1 - j] /\ n + 1 - j \in 1..n
  BY <1>1, <1>2, <1>3 DEF Reversed
<1>5. Len(t) = n
  BY <1>1, <1>4
<1>6. PICK j : j = n + 1 - i
  OBVIOUS
<1>7. j \in 1..n /\ n + 1 - j = i /\ t[j] = q[i]
  BY <1>1, <1>4, <1>6
<1>8. PICK C : C = Containing(t, j)
  OBVIOUS
<1>9. \A k \in 1..n : k \in C <=> Covers(q[n + 1 - k], x)
  <2>1. ASSUME NEW k \in 1..n PROVE k \in C <=> Covers(q[n + 1 - k], x)
    <3>1. k \in C <=> ContainsRange(t[k], t[j])
      BY <1>4, <1>8 DEF Containing
    <3>2. t[k] = q[n + 1 - k] /\ n + 1 - k \in 1..n
      BY <1>4
    <3>. QED  BY <1>7, <3>1, <3>2, Innermost
  <2>. QED  BY <2>1
<1>10. C \subseteq 1..n
  BY <1>4, <1>8 DEF Containing
<1>11. {k \in DOMAIN t : Agrees(x, t[k])} = C
  <2>1. ASSUME NEW k \in 1..n PROVE Agrees(x, t[k]) <=> k \in C
    <3>1. t[k] = q[n + 1 - k] /\ n + 1 - k \in 1..n
      BY <1>4
    <3>2. PICK s : s = t[k]
      OBVIOUS
    <3>3. s \in PrefixRanges
      BY <3>1, <3>2 DEF Listed
    <3>4. Agrees(x, s) <=> Covers(s, x)
      BY <3>3, AgreesOK DEF Covers
    <3>. QED  BY <1>9, <3>1, <3>2, <3>4
  <2>. QED  BY <1>4, <1>10, <2>1
<1>12. j \in C /\ \A k \in C : k <= j
  <2>1. j \in C
    BY <1>7, <1>9 DEF FirstOf
  <2>2. ASSUME NEW k \in C, k > j PROVE FALSE
    <3>1. k \in 1..n /\ Covers(q[n + 1 - k], x)
      BY <1>9, <1>10
    <3>2. n + 1 - k \in 1..n /\ n + 1 - k < i
      BY <1>1, <1>7, <2>2, <3>1
    <3>. QED  BY <3>1, <3>2 DEF FirstOf
  <2>3. \A k \in C : k \in Int
    BY <1>1, <1>10
  <2>. QED  BY <1>1, <1>7, <2>1, <2>2, <2>3
<1>13. SumAmong(Boosts(t), C, n) = j - 1
  BY <1>1, <1>4, <1>7, <1>8, <1>12, BoostsOf
<1>14. EqnMatch(q, x) = n - 1 - SumAmong(Boosts(t), C, n)
  BY <1>2, <1>3, <1>5, <1>11 DEF EqnMatch, SumOfTerms
<1>. QED  BY <1>1, <1>6, <1>13, <1>14

-----------------------------------------------------------------------------
(* The binary search *)

(* How many of the first m dividers are not above x *)
Reached(d, m, x, K) ==
  K \in 0..m /\ \A j \in 1..m : d[j] <= x <=> j <= K

LEMMA ReachedExists ==
  ASSUME NEW m \in Nat, NEW d \in [1..m -> Nat], NEW x \in Nat,
         \A i, j \in 1..m : i < j => d[i] < d[j]
  PROVE  \E K : Reached(d, m, x, K)
<1>. DEFINE T == {j \in 1..m : x < d[j]}
<1>1. CASE T = {}
  <2>1. Reached(d, m, x, m)
    BY <1>1 DEF Reached
  <2>. QED  BY <2>1
<1>2. CASE T # {}
  <2>1. T \in SUBSET Nat
    OBVIOUS
  <2>2. PICK i : i = Min(T)
    OBVIOUS
  <2>3. i \in T /\ \A j \in T : i <= j
    BY <1>2, <2>1, <2>2, LeastOf
  <2>4. Reached(d, m, x, i - 1)
    BY <2>3 DEF Reached
  <2>. QED  BY <2>4
<1>. QED  BY <1>1, <1>2

Clamp(K, l, r) == IF K < l THEN l ELSE IF K > r THEN r ELSE K

LEMMA Halves ==
  ASSUME NEW l \in Nat, NEW r \in Nat, l < r
  PROVE  /\ (l + r) \div 2 \in Nat /\ l <= (l + r) \div 2 /\ (l + r) \div 2 < r
OBVIOUS

LEMMA SeekOK ==
  ASSUME NEW m \in Nat, NEW d \in [1..m -> Nat], NEW x \in Nat, NEW K, Reached(d, m, x, K)
  PROVE  Seek(d, x) = K
<1>1. Len(d) = m
  OBVIOUS
<1>. DEFINE S == 0..m
            M(l, r) == (l + r) \div 2
            Is(h) == h = [s \in S \X S |->
                            IF s[1] = s[2] THEN s[1]
                            ELSE IF x < d[M(s[1], s[2]) + 1] THEN h[<<s[1], M(s[1], s[2])>>]
                            ELSE h[<<M(s[1], s[2]) + 1, s[2]>>]]
<1>2. PICK g : g = [s \in S \X S |-> IF s[1] <= s[2] THEN Clamp(K, s[1], s[2]) ELSE 0]
  OBVIOUS
<1>3. \A l, r \in S : g[<<l, r>>] = IF l <= r THEN Clamp(K, l, r) ELSE 0
  BY <1>2
<1>4. ASSUME NEW l \in S, NEW r \in S
      PROVE  g[<<l, r>>] = IF l = r THEN l
                       ELSE IF x < d[M(l, r) + 1] THEN g[<<l, M(l, r)>>] ELSE g[<<M(l, r) + 1, r>>]
  <2>1. CASE l = r
    <3>1. g[<<l, l>>] = Clamp(K, l, l)
      BY <1>3
    <3>. QED  BY <2>1, <3>1 DEF Clamp, Reached
  <2>2. CASE l < r
    <3>1. PICK k : k = M(l, r)
      OBVIOUS
    <3>2. k \in S /\ k + 1 \in S /\ k + 1 \in 1..m /\ l <= k /\ k < r
      BY <2>2, <3>1
    <3>3. d[k + 1] <= x <=> k + 1 <= K
      BY <3>2 DEF Reached
    <3>4. d[k + 1] \in Nat /\ K \in Nat
      BY <3>2 DEF Reached
    <3>5. /\ g[<<l, k>>] = Clamp(K, l, k) /\ g[<<k + 1, r>>] = Clamp(K, k + 1, r)
          /\ g[<<l, r>>] = Clamp(K, l, r)
      BY <1>3, <2>2, <3>2
    <3>6. g[<<l, r>>] = IF x < d[k + 1] THEN g[<<l, k>>] ELSE g[<<k + 1, r>>]
      BY <2>2, <3>2, <3>3, <3>4, <3>5 DEF Clamp
    <3>. QED  BY <2>2, <3>1, <3>6
  <2>3. CASE r < l
    <3>1. PICK k : k = M(l, r)
      OBVIOUS
    <3>2. k \in S /\ k + 1 \in S /\ r <= k /\ k < l
      BY <2>3, <3>1
    <3>3. g[<<l, k>>] = 0 /\ g[<<k + 1, r>>] = 0 /\ g[<<l, r>>] = 0
      BY <1>3, <2>3, <3>2
    <3>. QED  BY <2>3, <3>1, <3>3
  <2>. QED  BY <2>1, <2>2, <2>3
<1>5. ASSUME NEW s \in S \X S
      PROVE  g[s] = IF s[1] = s[2] THEN s[1]
                    ELSE IF x < d[M(s[1], s[2]) + 1] THEN g[<<s[1], M(s[1], s[2])>>]
                    ELSE g[<<M(s[1], s[2]) + 1, s[2]>>]
  <2>1. s[1] \in S /\ s[2] \in S /\ s = <<s[1], s[2]>>
    OBVIOUS
  <2>. QED  BY <1>4, <2>1
<1>6. Is(g)
  <2>1. g = [s \in S \X S |-> g[s]]
    BY <1>2
  <2>. QED  BY <1>5, <2>1
<1>7. PICK h : h = CHOOSE f : Is(f)
  OBVIOUS
<1>8. Is(h)
  BY <1>6, <1>7
<1>9. Seek(d, x) = h[<<0, m>>]
  BY <1>1, <1>7, Zenon DEF Seek
<1>10. \A l, r \in S : h[<<l, r>>] = IF l = r THEN l
                                 ELSE IF x < d[M(l, r) + 1] THEN h[<<l, M(l, r)>>] ELSE h[<<M(l, r) + 1, r>>]
  BY <1>8
<1>. DEFINE G == {n \in Nat : \A l, r \in S : l <= r /\ r - l <= n => h[<<l, r>>] = Clamp(K, l, r)}
<1>11. 0 \in G
  <2>1. ASSUME NEW l \in S, NEW r \in S, l <= r, r - l <= 0 PROVE h[<<l, r>>] = Clamp(K, l, r)
    <3>1. l = r
      BY <2>1
    <3>2. h[<<l, l>>] = l
      BY <1>10
    <3>3. Clamp(K, l, l) = l
      BY DEF Clamp, Reached
    <3>. QED  BY <3>1, <3>2, <3>3
  <2>. QED  BY <2>1
<1>12. ASSUME NEW n \in G PROVE n + 1 \in G
  <2>1. ASSUME NEW l \in S, NEW r \in S, l <= r, r - l <= n + 1 PROVE h[<<l, r>>] = Clamp(K, l, r)
    <3>1. CASE l = r
      BY <1>10, <3>1 DEF Clamp
    <3>2. CASE l < r
      <4>1. PICK k : k = M(l, r)
        OBVIOUS
      <4>2. k \in S /\ k + 1 \in S /\ k + 1 \in 1..m /\ l <= k /\ k < r
        BY <3>2, <4>1
      <4>3. h[<<l, k>>] = Clamp(K, l, k) /\ h[<<k + 1, r>>] = Clamp(K, k + 1, r)
        <5>1. k - l <= n /\ r - (k + 1) <= n /\ k + 1 <= r
          BY <2>1, <3>2, <4>2
        <5>. QED  BY <4>2, <5>1
      <4>4. h[<<l, r>>] = IF x < d[k + 1] THEN h[<<l, k>>] ELSE h[<<k + 1, r>>]
        BY <1>10, <3>2, <4>1
      <4>5. /\ d[k + 1] <= x <=> k + 1 <= K
            /\ d[k + 1] \in Nat /\ K \in Nat
        BY <4>2 DEF Reached
      <4>. QED  BY <3>2, <4>2, <4>3, <4>4, <4>5 DEF Clamp
    <3>. QED  BY <2>1, <3>1, <3>2
  <2>. QED  BY <2>1
<1>. HIDE DEF G
<1>13. G = Nat
  BY <1>11, <1>12, NaturalSet DEF G
<1>14. h[<<0, m>>] = Clamp(K, 0, m)
  <2>1. m \in G /\ 0 \in S /\ m \in S /\ 0 <= m /\ m - 0 <= m
    BY <1>13
  <2>. QED  BY <2>1 DEF G
<1>. QED  BY <1>9, <1>14 DEF Clamp, Reached

-----------------------------------------------------------------------------
(* The segments between dividers *)

LEMMA AfterHigh ==
  ASSUME NEW high \in Nat, NEW top \in Nat, high <= top
  PROVE  /\ (high + 1) % (top + 1) \in Nat
         /\ high < top => (high + 1) % (top + 1) = high + 1
OBVIOUS

LEMMA DividersOK ==
  ASSUME NEW q, NEW n, Listed(q, n), NEW f \in Fields, \A k \in 1..n : q[k].high <= Top[f]
  PROVE  \E m \in Nat :
           /\ Dividers(q, f) \in [1..m -> Nat]
           /\ \A i, j \in 1..m : i < j => Dividers(q, f)[i] < Dividers(q, f)[j]
           /\ \A k \in 1..n :
                /\ q[k].low = 0 \/ \E j \in 1..m : Dividers(q, f)[j] = q[k].low
                /\ q[k].high < Top[f] => \E j \in 1..m : Dividers(q, f)[j] = q[k].high + 1
<1>. DEFINE E == Elems(q)
            L == {s.low : s \in E}
            H == {(s.high + 1) % (Top[f] + 1) : s \in E}
            D == (L \cup H) \ {0}
<1>1. n \in Nat /\ DOMAIN q = 1..n /\ Top[f] \in Nat
  BY BoxAssumption DEF Listed
<1>2. \A k \in 1..n : /\ q[k].low \in Nat /\ q[k].high \in Nat
                      /\ q[k].high <= Top[f]
  BY PrefixShape DEF Listed
<1>3. E = {q[k] : k \in 1..n}
  BY <1>1 DEF Elems
<1>4. IsFiniteSet(1..n)
  BY <1>1, FS_Interval
<1>5. IsFiniteSet(E)
  BY <1>1, <1>3, <1>4, ImageFinite
<1>6. \A s \in E : s.low \in Nat /\ s.high \in Nat /\ s.high <= Top[f]
  BY <1>2, <1>3
<1>. HIDE DEF E
<1>7. IsFiniteSet(L) /\ L \in SUBSET Nat
  <2>1. PICK g : g = [s \in E |-> s.low]
    OBVIOUS
  <2>2. DOMAIN g = E /\ L = {g[s] : s \in E}
    BY <2>1
  <2>3. L \in SUBSET Nat
    BY <1>6
  <2>. HIDE DEF L
  <2>. QED  BY <1>5, <2>2, <2>3, ImageFinite
<1>8. IsFiniteSet(H) /\ H \in SUBSET Nat
  <2>1. PICK g : g = [s \in E |-> (s.high + 1) % (Top[f] + 1)]
    OBVIOUS
  <2>2. DOMAIN g = E /\ H = {g[s] : s \in E}
    BY <2>1
  <2>3. ASSUME NEW s \in E PROVE (s.high + 1) % (Top[f] + 1) \in Nat
    BY <1>1, <1>6, AfterHigh
  <2>4. H \in SUBSET Nat
    BY <2>3
  <2>. HIDE DEF H
  <2>. QED  BY <1>5, <2>2, <2>4, ImageFinite
<1>9. \A k \in 1..n : q[k].low \in L
  BY <1>3
<1>10. ASSUME NEW k \in 1..n, q[k].high < Top[f] PROVE q[k].high + 1 \in H
  <2>1. q[k] \in E
    BY <1>3
  <2>2. (q[k].high + 1) % (Top[f] + 1) = q[k].high + 1
    BY <1>1, <1>2, <1>10, AfterHigh
  <2>. QED  BY <2>1, <2>2
<1>. HIDE DEF L, H
<1>11. IsFiniteSet(D) /\ D \in SUBSET Nat /\ D \in SUBSET Int
  <2>1. IsFiniteSet(L \cup H)
    BY <1>7, <1>8, FS_Union
  <2>. QED  BY <1>7, <1>8, <2>1, FS_Subset
<1>12. Dividers(q, f) = Ranked(D, <)
  BY Zenon DEF Dividers, D, L, H, E
<1>13. \A k \in 1..n : /\ q[k].low = 0 \/ q[k].low \in D
                       /\ q[k].high < Top[f] => q[k].high + 1 \in D
  BY <1>2, <1>9, <1>10
<1>. HIDE DEF D
<1>14. PICK d : d = Ranked(D, <)
  OBVIOUS
<1>15. PICK m : m = Cardinality(D)
  OBVIOUS
<1>16. /\ m \in Nat /\ d \in [1..m -> D] /\ Elems(d) = D
       /\ \A i, j \in 1..m : i < j => d[i] < d[j]
  BY <1>11, <1>14, <1>15, SortedNumbers, Zenon
<1>17. \A y \in D : \E j \in 1..m : d[j] = y
  BY <1>16 DEF Elems
<1>18. d \in [1..m -> Nat]
  BY <1>11, <1>16
<1>19. Dividers(q, f) = d
  BY <1>12, <1>14, Zenon
<1>20. \A k \in 1..n : /\ q[k].low = 0 \/ \E j \in 1..m : d[j] = q[k].low
                       /\ q[k].high < Top[f] => \E j \in 1..m : d[j] = q[k].high + 1
  BY <1>13, <1>17
<1>. QED  BY <1>16, <1>18, <1>19, <1>20

LEMMA RangeSearchOK ==
  ASSUME NEW q, NEW n, Listed(q, n), NEW f \in Fields, \A k \in 1..n : q[k].high <= Top[f],
         NEW x \in Nat, x <= Top[f], NEW i, FirstOf(q, n, x, i)
  PROVE  RangeSearch(q, f, x) = i - 1
<1>1. n \in Nat /\ DOMAIN q = 1..n /\ Top[f] \in Nat /\ i \in 1..n
  BY BoxAssumption DEF Listed, FirstOf
<1>2. PICK d : d = Dividers(q, f)
  OBVIOUS
<1>3. PICK m \in Nat :
        /\ d \in [1..m -> Nat]
        /\ \A a, b \in 1..m : a < b => d[a] < d[b]
        /\ \A k \in 1..n :
             /\ q[k].low = 0 \/ \E j \in 1..m : d[j] = q[k].low
             /\ q[k].high < Top[f] => \E j \in 1..m : d[j] = q[k].high + 1
  BY <1>2, DividersOK
<1>4. PICK K : Reached(d, m, x, K)
  BY <1>3, ReachedExists
<1>5. Seek(d, x) = K
  BY <1>3, <1>4, SeekOK
<1>6. PICK y : y = IF K = 0 THEN 0 ELSE d[K]
  OBVIOUS
<1>7. K \in 0..m /\ \A j \in 1..m : d[j] <= x <=> j <= K
  BY <1>4 DEF Reached
<1>8. y \in Nat /\ y <= x /\ \A j \in 1..m : d[j] <= x => d[j] <= y
  <2>1. CASE K = 0
    <3>1. \A j \in 1..m : ~(j <= K)
      BY <2>1
    <3>. QED  BY <1>6, <1>7, <2>1, <3>1
  <2>2. CASE K # 0
    <3>1. K \in 1..m /\ y = d[K] /\ K <= K
      BY <1>6, <1>7, <2>2
    <3>2. y \in Nat /\ y <= x
      BY <1>3, <1>7, <3>1
    <3>3. ASSUME NEW j \in 1..m, d[j] <= x PROVE d[j] <= y
      <4>1. j < K \/ j = K
        BY <1>7, <3>3, <3>1
      <4>2. d[j] \in Nat /\ d[K] \in Nat
        BY <1>3, <3>1
      <4>. QED  BY <1>3, <3>1, <4>1, <4>2
    <3>. QED  BY <3>2, <3>3
  <2>. QED  BY <2>1, <2>2
<1>9. \A k \in 1..n : Covers(q[k], y) <=> Covers(q[k], x)
  <2>1. ASSUME NEW k \in 1..n PROVE Covers(q[k], y) <=> Covers(q[k], x)
    <3>1. q[k].low \in Nat /\ q[k].high \in Nat /\ q[k].high <= Top[f]
      BY PrefixShape DEF Listed
    <3>2. ASSUME Covers(q[k], x) PROVE Covers(q[k], y)
      <4>1. q[k].low <= x
        BY <3>2 DEF Covers
      <4>2. q[k].low <= y
        BY <1>3, <1>8, <3>1, <4>1
      <4>. QED  BY <1>8, <3>1, <3>2, <4>2 DEF Covers
    <3>3. ASSUME Covers(q[k], y) PROVE Covers(q[k], x)
      <4>1. q[k].low <= y /\ y <= q[k].high
        BY <3>3 DEF Covers
      <4>2. ~(q[k].high < x)
        <5>. SUFFICES ASSUME q[k].high < x PROVE FALSE
          OBVIOUS
        <5>1. q[k].high < Top[f]
          BY <1>1, <3>1
        <5>2. PICK j \in 1..m : d[j] = q[k].high + 1
          BY <1>3, <5>1
        <5>3. d[j] <= x
          BY <3>1, <5>2
        <5>4. d[j] <= y
          BY <1>8, <5>3
        <5>. QED  BY <1>8, <3>1, <4>1, <5>2, <5>4
      <4>. QED  BY <1>8, <3>1, <4>1, <4>2 DEF Covers
    <3>. QED  BY <3>2, <3>3
  <2>. QED  BY <2>1
<1>10. FirstOf(q, n, y, i)
  BY <1>1, <1>9 DEF FirstOf
<1>. DEFINE T == {n} \cup {j - 1 : j \in {k \in 1..n : Covers(q[k], y)}}
<1>11. Min(T) = i - 1
  <2>1. T \in SUBSET Nat /\ T # {}
    BY <1>1
  <2>2. i - 1 \in T
    BY <1>10 DEF FirstOf
  <2>3. ASSUME NEW t \in T PROVE i - 1 <= t
    <3>1. CASE t = n
      BY <1>1, <3>1
    <3>2. CASE t # n
      <4>1. PICK j \in 1..n : t = j - 1 /\ Covers(q[j], y)
        BY <3>2
      <4>2. ~(j < i)
        BY <1>10, <4>1 DEF FirstOf
      <4>. QED  BY <1>1, <4>1, <4>2
    <3>. QED  BY <3>1, <3>2
  <2>. HIDE DEF T
  <2>4. PICK u : u = Min(T)
    OBVIOUS
  <2>5. u \in T /\ \A t \in T : u <= t
    BY <2>1, <2>4, LeastOf
  <2>. QED  BY <1>1, <2>1, <2>2, <2>3, <2>4, <2>5
<1>12. FirstContaining(q, y) = Min(T)
  <2>1. Len(q) = n
    BY <1>1
  <2>2. {k \in DOMAIN q : q[k].low <= y /\ y <= q[k].high} = {k \in 1..n : Covers(q[k], y)}
    BY <1>1 DEF Covers
  <2>. QED  BY <2>1, <2>2, Zenon DEF FirstContaining
<1>13. RangeSearch(q, f, x) = FirstContaining(q, y)
  BY <1>2, <1>5, <1>6, Zenon DEF RangeSearch, SearchIn
<1>. QED  BY <1>11, <1>12, <1>13, Zenon

-----------------------------------------------------------------------------
(* What the matchers find *)

LEMMA LeadsOK ==
  ASSUME BitVectorInit, NEW p \in Packets
  PROVE  Leads(EqnFound(p), p) /\ Leads(SearchFound(p), p)
<1>1. PICK S \in SUBSET Rules : built = BitVectorOf(S)
  BY DEF BitVectorInit
<1>2. Elems(built.rules) = S
  BY <1>1, BuiltOK
<1>3. ASSUME NEW f \in MatchedFields, NEW r \in S, <<r, p>> \in Match
      PROVE  \E i \in DOMAIN built.ranges[f] :
               /\ EqnFound(p)[f] = i - 1 /\ SearchFound(p)[f] = i - 1 /\ i \in Nat
               /\ ContainsRange(RangeOf(r, f), built.ranges[f][i])
  <2>1. PICK q : q = built.ranges[f]
    OBVIOUS
  <2>2. PICK x : x = Value[p][f]
    OBVIOUS
  <2>3. f \in Fields
    BY BoxAssumption, BitVectorAssumption DEF MatchedFields
  <2>4. /\ x \in Nat /\ Low[r][f] <= x /\ x <= High[r][f]
        /\ Low[r][f] \in Nat /\ High[r][f] \in Nat /\ High[r][f] <= Top[f] /\ Top[f] \in Nat
    BY <1>3, <2>2, <2>3, BoxAssumption
  <2>5. q = RangesOf(S, f)
    BY <1>1, <2>1, BuiltOK
  <2>6. PICK n \in Nat :
          /\ q \in [1..n -> PrefixRanges]
          /\ Elems(q) = {RangeOf(s, f) : s \in S}
          /\ \A i, j \in 1..n : i < j => InsideOut(q[i], q[j])
    BY <2>5, RangesOfOK
  <2>7. Listed(q, n)
    BY <2>6 DEF Listed
  <2>8. DOMAIN q = 1..n
    BY <2>6
  <2>9. ASSUME NEW k \in 1..n PROVE q[k].high <= Top[f]
    <3>1. q[k] \in Elems(q)
      BY <2>8 DEF Elems
    <3>2. PICK s \in S : q[k] = RangeOf(s, f)
      BY <2>6, <3>1
    <3>3. High[s][f] <= Top[f]
      BY <2>3, BoxAssumption
    <3>. QED  BY <3>2, <3>3 DEF RangeOf, Interval
  <2>10. PICK k \in 1..n : q[k] = RangeOf(r, f)
    <3>1. RangeOf(r, f) \in Elems(q)
      BY <2>6
    <3>. QED  BY <2>8, <3>1 DEF Elems
  <2>11. Covers(q[k], x)
    BY <2>4, <2>10 DEF Covers, RangeOf, Interval
  <2>12. PICK i \in 1..n : FirstOf(q, n, x, i)
    BY <2>11, FirstExists
  <2>13. ContainsRange(RangeOf(r, f), q[i])
    BY <2>4, <2>7, <2>10, <2>11, <2>12, Innermost
  <2>14. EqnMatch(q, x) = i - 1
    BY <2>4, <2>7, <2>12, EqnMatchOK
  <2>15. RangeSearch(q, f, x) = i - 1
    <3>1. x <= Top[f]
      BY <2>4
    <3>. QED  BY <2>3, <2>4, <2>7, <2>9, <2>12, <3>1, RangeSearchOK
  <2>16. EqnFound(p)[f] = EqnMatch(q, x) /\ SearchFound(p)[f] = RangeSearch(q, f, x)
    BY <2>1, <2>2 DEF EqnFound, SearchFound
  <2>17. i \in DOMAIN q /\ i \in Nat
    BY <2>8
  <2>. QED  BY <2>1, <2>13, <2>14, <2>15, <2>16, <2>17
<1>4. ASSUME NEW f \in MatchedFields, NEW r \in S, <<r, p>> \in Match,
             NEW found, found = EqnFound(p) \/ found = SearchFound(p)
      PROVE  /\ found[f] + 1 \in DOMAIN built.ranges[f]
             /\ ContainsRange(RangeOf(r, f), built.ranges[f][found[f] + 1])
  <2>1. PICK i \in DOMAIN built.ranges[f] :
          /\ EqnFound(p)[f] = i - 1 /\ SearchFound(p)[f] = i - 1 /\ i \in Nat
          /\ ContainsRange(RangeOf(r, f), built.ranges[f][i])
    BY <1>3, <1>4
  <2>2. found[f] = i - 1
    BY <1>4, <2>1
  <2>3. found[f] + 1 = i
    BY <2>1, <2>2
  <2>. QED  BY <2>1, <2>3
<1>. QED  BY <1>2, <1>4 DEF Leads

LEMMA BuiltAnswers == BitVectorInit => BitVectorAnswers
<1>. SUFFICES ASSUME BitVectorInit, NEW p \in Packets
              PROVE  /\ ExactBy(EqnFound(p), p)
                     /\ ExactBy(SearchFound(p), p)
                     /\ BitVectorClassify(PrefixFound(p), p)
                          \in Matching(Elems(built.rules), p) \cup {-1}
  BY DEF BitVectorAnswers
<1>1. Leads(EqnFound(p), p) /\ Leads(SearchFound(p), p)
  BY LeadsOK
<1>2. ExactBy(EqnFound(p), p) /\ ExactBy(SearchFound(p), p)
  BY <1>1, ExactByOK
<1>3. BitVectorClassify(PrefixFound(p), p) \in Matching(Elems(built.rules), p) \cup {-1}
  BY ClassifyOK
<1>. QED  BY <1>2, <1>3

(* Whatever rules a BitVector is built from, EqnMatcher and                *)
(* BinaryRangeSearch lead a packet to a set of rules in which the first    *)
(* one that matches is the best of all; a BitVector64 finds the best of    *)
(* the rules of its first word; and whatever range LongestPrefixMatch      *)
(* leads to, a rule that is found matches.                                 *)
THEOREM BitVectorsAnswer == BitVectorSpec => []BitVectorAnswers
<1>1. BitVectorInit /\ [UpdateIgnored]_built => BitVectorInit'
  <2>. SUFFICES ASSUME BitVectorInit, [UpdateIgnored]_built PROVE BitVectorInit'
    OBVIOUS
  <2>1. built' = built
    BY DEF UpdateIgnored
  <2>. QED  BY <2>1 DEF BitVectorInit
<1>. QED  BY <1>1, BuiltAnswers, PTL DEF BitVectorSpec

=============================================================================
