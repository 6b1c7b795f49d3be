---------------------------- MODULE Cmap_proofs ----------------------------
(***************************************************************************)
(* The cuckoo hash map, for every size of a bucket, every assignment of    *)
(* hashes and every function rehash: the invariant of the writer, the      *)
(* multimap it implements, the searches that run next to it and the bounds *)
(* on its load.                                                            *)
(***************************************************************************)
EXTENDS CmapReaders, TLAPS, WellFoundedInduction, FiniteSetTheorems

-----------------------------------------------------------------------------
(* Least elements *)

LEMMA LeastNumber ==
  ASSUME NEW S \in SUBSET Nat, S # {}
  PROVE  First(S) \in S /\ \A n \in S : First(S) <= n
<1>1. PICK i \in S : \A q \in S : ~ (<<q, i>> \in OpToRel(<, Nat))
  BY NatLessThanWellFounded, WFMin, Zenon
<1>2. \A q \in S : ~ (q < i)
  BY <1>1 DEF OpToRel
<1>3. \A q \in S : i <= q
  BY <1>2
<1>. QED  BY <1>3 DEF First

LEMMA FirstSlot ==
  ASSUME NEW S \in SUBSET Slots, S # {}
  PROVE  First(S) \in S /\ First(S) \in Slots /\ \A s \in S : First(S) <= s
<1>1. S \subseteq Nat
  BY CmapAssumption DEF Slots
<1>. QED  BY <1>1, LeastNumber

-----------------------------------------------------------------------------
(* A table, the buckets of a hash and the searches *)

LEMMA BucketsOf ==
  ASSUME NEW t, IsTable(t), NEW h \in Hashes
  PROVE  Bucket1(t, h) \in 0..t.mask /\ Bucket2(t, h) \in 0..t.mask
<1>1. HashFinish[t.basis][h] \in Nat \X Nat /\ t.mask \in Nat
  BY CmapAssumption DEF IsTable
<1>2. HashFinish[t.basis][h][1] \in Nat /\ HashFinish[t.basis][h][2] \in Nat
  BY <1>1
<1>3. \A n \in Nat : n % (t.mask + 1) \in 0..t.mask
  BY <1>1
<1>. QED  BY <1>2, <1>3 DEF Bucket1, Bucket2

LEMMA CellOf ==
  ASSUME NEW t, IsTable(t), NEW c \in Cell(t)
  PROVE  /\ c = <<c[1], c[2]>> /\ c[1] \in 0..t.mask /\ c[2] \in Slots
         /\ At(t, c) \in Slot
         /\ At(t, c).hash \in Hashes \cup {Zero} /\ At(t, c).chain \in Seq(Nodes)
<1>1. c = <<c[1], c[2]>> /\ c[1] \in 0..t.mask /\ c[2] \in Slots
  BY DEF Cell
<1>2. t.bucket \in [0..t.mask -> [Slots -> Slot]]
  BY DEF IsTable
<1>3. At(t, c) \in Slot
  BY <1>1, <1>2 DEF At
<1>. QED  BY <1>1, <1>3 DEF Slot

(* A search for h looks at d before it looks at c. *)
Before(t, h, d, c) ==
  \/ d[1] = c[1] /\ d[2] < c[2]
  \/ d[1] = Bucket1(t, h) /\ c[1] # Bucket1(t, h)

(* What Homes says of one slot, and that a node is on its chain once *)
InHome(t, c) ==
  /\ c[1] \in {Bucket1(t, At(t, c).hash), Bucket2(t, At(t, c).hash)}
  /\ \A i \in DOMAIN At(t, c).chain : NodeHash[At(t, c).chain[i]] = At(t, c).hash
  /\ \A i, j \in DOMAIN At(t, c).chain : At(t, c).chain[i] = At(t, c).chain[j] => i = j

(* X is the cell a pending move is about to overwrite, or empty.  Nothing  *)
(* hides a live slot of another cell from a search, but for a copy of it.  *)
FoundFirst(t, X) ==
  \A c \in LiveCells(t) \ X, d \in Cell(t) :
    At(t, d).hash = At(t, c).hash /\ Before(t, At(t, c).hash, d, c)
      => d \in X /\ At(t, d).chain = At(t, c).chain

Copied(t, X) ==
  \A d \in LiveCells(t) \cap X : \E c \in LiveCells(t) \ X : At(t, c) = At(t, d)

(* What holds of a table: every live slot is in a bucket its hash is       *)
(* looked for in, with a chain of distinct nodes of that hash, a search    *)
(* comes to it first, and nothing is stored in the cell of X alone.        *)
Sound(t, X) ==
  /\ IsTable(t)
  /\ \A c \in LiveCells(t) : InHome(t, c)
  /\ FoundFirst(t, X)
  /\ Copied(t, X)

(* The chains a table keeps; two tables with the same contents answer      *)
(* every search alike, wherever the slots are (SameContents).              *)
Contents(t, X) == {At(t, c) : c \in LiveCells(t) \ X}

LEMMA LiveHash ==
  ASSUME NEW t, NEW c \in LiveCells(t), IsTable(t), InHome(t, c)
  PROVE  /\ c \in Cell(t)
         /\ At(t, c).hash \in Hashes
         /\ At(t, c).chain \in Seq(Nodes) /\ At(t, c).chain # <<>>
         /\ Len(At(t, c).chain) \in Nat \ {0}
<1>1. c \in Cell(t) /\ At(t, c).chain # <<>>
  BY DEF LiveCells
<1>2. At(t, c).chain \in Seq(Nodes)
  BY <1>1, CellOf
<1>3. Len(At(t, c).chain) \in Nat \ {0} /\ 1 \in DOMAIN At(t, c).chain
  BY <1>1, <1>2
<1>4. At(t, c).chain[1] \in Nodes
  BY <1>2, <1>3
<1>5. At(t, c).hash \in Hashes
  BY <1>3, <1>4, CmapAssumption DEF InHome
<1>. QED  BY <1>1, <1>2, <1>3, <1>5

(* Two live slots with one hash are one, or one is the pending copy. *)
LEMMA OneLive ==
  ASSUME NEW t, NEW X, Sound(t, X),
         NEW c \in LiveCells(t) \ X, NEW d \in LiveCells(t) \ X,
         At(t, c).hash = At(t, d).hash
  PROVE  c = d
<1>. DEFINE h == At(t, c).hash
<1>1. IsTable(t) /\ InHome(t, c) /\ InHome(t, d)
  BY DEF Sound
<1>2. c \in Cell(t) /\ d \in Cell(t)
  BY DEF LiveCells
<1>3. /\ c = <<c[1], c[2]>> /\ d = <<d[1], d[2]>>
      /\ c[2] \in Nat /\ d[2] \in Nat
  BY <1>1, <1>2, CellOf, CmapAssumption DEF Slots
<1>4. ~ Before(t, h, d, c) /\ ~ Before(t, h, c, d)
  BY <1>2 DEF Sound, FoundFirst
<1>5. c[1] \in {Bucket1(t, h), Bucket2(t, h)} /\ d[1] \in {Bucket1(t, h), Bucket2(t, h)}
  BY <1>1 DEF InHome
<1>6. c[1] = d[1] /\ ~ (c[2] < d[2]) /\ ~ (d[2] < c[2])
  BY <1>4, <1>5 DEF Before
<1>. QED  BY <1>3, <1>6

-----------------------------------------------------------------------------
(* What a search returns *)

LEMMA MissedInBucket ==
  ASSUME NEW t, NEW b, NEW h, WithHash(t, b, h) = {}
  PROVE  FindInBucket(t, b, h) = <<>>
BY DEF FindInBucket

LEMMA FoundInBucket ==
  ASSUME NEW t, NEW b \in 0..t.mask, NEW h, WithHash(t, b, h) # {}
  PROVE  \E s \in Slots :
           /\ <<b, s>> \in Cell(t) /\ At(t, <<b, s>>).hash = h
           /\ FindInBucket(t, b, h) = At(t, <<b, s>>).chain
           /\ \A r \in WithHash(t, b, h) : s <= r
<1>. DEFINE s == First(WithHash(t, b, h))
<1>1. s \in WithHash(t, b, h) /\ s \in Slots /\ \A r \in WithHash(t, b, h) : s <= r
  BY FirstSlot DEF WithHash
<1>2. t.bucket[b][s].hash = h /\ FindInBucket(t, b, h) = t.bucket[b][s].chain
  BY <1>1 DEF FindInBucket, WithHash
<1>. QED  BY <1>1, <1>2 DEF Cell, At

(* A bucket with a live slot of the hash that no copy stands for answers   *)
(* with its chain.                                                         *)
LEMMA FindHere ==
  ASSUME NEW t, NEW X, Sound(t, X), NEW c \in LiveCells(t) \ X
  PROVE  FindInBucket(t, c[1], At(t, c).hash) = At(t, c).chain
<1>. DEFINE h == At(t, c).hash
<1>1. IsTable(t) /\ c \in Cell(t)
  BY DEF Sound, LiveCells
<1>2. c = <<c[1], c[2]>> /\ c[1] \in 0..t.mask /\ c[2] \in Slots
  BY <1>1, CellOf
<1>3. c[2] \in WithHash(t, c[1], h)
  BY <1>2 DEF WithHash, At
<1>4. PICK s \in Slots :
        /\ <<c[1], s>> \in Cell(t) /\ At(t, <<c[1], s>>).hash = h
        /\ FindInBucket(t, c[1], h) = At(t, <<c[1], s>>).chain
        /\ \A r \in WithHash(t, c[1], h) : s <= r
  BY SMTT(40), <1>2, <1>3, FoundInBucket
<1>5. CASE s = c[2]
  BY <1>2, <1>4, <1>5
<1>6. CASE s # c[2]
  <2>1. s < c[2]
    <3>1. s <= c[2] /\ s \in Nat /\ c[2] \in Nat
      BY <1>2, <1>3, <1>4, CmapAssumption DEF Slots
    <3>. QED  BY <1>6, <3>1
  <2>2. Before(t, h, <<c[1], s>>, c)
    BY <2>1 DEF Before
  <2>. QED  BY <1>4, <2>2 DEF Sound, FoundFirst
<1>. QED  BY <1>5, <1>6

LEMMA FindLive ==
  ASSUME NEW t, NEW X, Sound(t, X), NEW c \in LiveCells(t) \ X
  PROVE  Find(t, At(t, c).hash) = At(t, c).chain
<1>. DEFINE h == At(t, c).hash
            b == Bucket1(t, h)
<1>1. IsTable(t) /\ c \in Cell(t) /\ InHome(t, c)
  BY DEF Sound, LiveCells
<1>2. h \in Hashes /\ At(t, c).chain # <<>>
  BY <1>1, LiveHash
<1>3. FindInBucket(t, c[1], h) = At(t, c).chain
  BY FindHere
<1>4. CASE c[1] = b
  BY <1>2, <1>3, <1>4 DEF Find
<1>5. CASE c[1] # b
  <2>1. c[1] = Bucket2(t, h)
    BY <1>1, <1>5 DEF InHome
  <2>2. b \in 0..t.mask
    BY <1>1, <1>2, BucketsOf
  <2>3. CASE FindInBucket(t, b, h) = <<>>
    BY <1>3, <2>1, <2>3 DEF Find
  <2>4. CASE FindInBucket(t, b, h) # <<>>
    <3>. WithHash(t, b, h) # {}
      BY <2>4, MissedInBucket
    <3>1. PICK s \in Slots :
            /\ <<b, s>> \in Cell(t) /\ At(t, <<b, s>>).hash = h
            /\ FindInBucket(t, b, h) = At(t, <<b, s>>).chain
      BY <2>2, FoundInBucket
    <3>2. Before(t, h, <<b, s>>, c)
      BY <1>5 DEF Before
    <3>3. At(t, <<b, s>>).chain = At(t, c).chain
      BY <3>1, <3>2 DEF Sound, FoundFirst
    <3>. QED  BY <2>4, <3>1, <3>3 DEF Find
  <2>. QED  BY <2>3, <2>4
<1>. QED  BY <1>4, <1>5

LEMMA BucketHit ==
  ASSUME NEW t, NEW X, Sound(t, X), NEW b \in 0..t.mask, NEW h,
         FindInBucket(t, b, h) # <<>>
  PROVE  \E x \in Contents(t, X) : x.hash = h /\ x.chain = FindInBucket(t, b, h)
<1>. WithHash(t, b, h) # {}
  BY MissedInBucket
<1>1. PICK s \in Slots :
        /\ <<b, s>> \in Cell(t) /\ At(t, <<b, s>>).hash = h
        /\ FindInBucket(t, b, h) = At(t, <<b, s>>).chain
  BY FoundInBucket
<1>2. <<b, s>> \in LiveCells(t)
  BY <1>1 DEF LiveCells
<1>3. \E c \in LiveCells(t) \ X : At(t, c) = At(t, <<b, s>>)
  BY <1>2 DEF Sound, Copied
<1>. QED  BY <1>1, <1>3 DEF Contents

LEMMA FindHit ==
  ASSUME NEW t, NEW X, Sound(t, X), NEW h \in Hashes, Find(t, h) # <<>>
  PROVE  \E x \in Contents(t, X) : x.hash = h /\ x.chain = Find(t, h)
<1>1. Bucket1(t, h) \in 0..t.mask /\ Bucket2(t, h) \in 0..t.mask
  BY BucketsOf DEF Sound
<1>. QED  BY <1>1, BucketHit DEF Find

LEMMA FindContent ==
  ASSUME NEW t, NEW X, Sound(t, X), NEW x \in Contents(t, X)
  PROVE  /\ Find(t, x.hash) = x.chain /\ x.chain # <<>> /\ x.hash \in Hashes /\ x \in Slot
         /\ \A i \in DOMAIN x.chain : NodeHash[x.chain[i]] = x.hash
         /\ \A i, j \in DOMAIN x.chain : x.chain[i] = x.chain[j] => i = j
<1>1. PICK c \in LiveCells(t) \ X : x = At(t, c)
  BY DEF Contents
<1>2. IsTable(t) /\ InHome(t, c) /\ c \in Cell(t)
  BY DEF Sound, LiveCells
<1>. QED  BY <1>1, <1>2, FindLive, LiveHash, CellOf DEF InHome

(* A search answers with what the table contains, wherever it is. *)
LEMMA SameContents ==
  ASSUME NEW t, NEW X, Sound(t, X), NEW u, NEW Y, Sound(u, Y),
         Contents(t, X) = Contents(u, Y), NEW h \in Hashes
  PROVE  Find(t, h) = Find(u, h)
BY FindHit, FindContent

-----------------------------------------------------------------------------
(* Stores *)

(* u is t but for the content x of the cell c, and the count. *)
Writes(u, t, c, x) ==
  /\ IsTable(u)
  /\ u.mask = t.mask /\ u.basis = t.basis
  /\ \A d \in Cell(t) : At(u, d) = IF d = c THEN x ELSE At(t, d)

LEMMA SetSlotWrites ==
  ASSUME NEW t, IsTable(t), NEW b \in 0..t.mask, NEW s \in Slots, NEW x \in Slot
  PROVE  /\ Writes(SetSlot(t, b, s, x), t, <<b, s>>, x)
         /\ SetSlot(t, b, s, x).n = t.n
<1>. DEFINE u == SetSlot(t, b, s, x)
<1>1. /\ DOMAIN t = {"mask", "basis", "n", "bucket"}
      /\ t.bucket \in [0..t.mask -> [Slots -> Slot]]
  BY DEF IsTable
<1>2. /\ DOMAIN u = {"mask", "basis", "n", "bucket"}
      /\ u.mask = t.mask /\ u.basis = t.basis /\ u.n = t.n
      /\ u.bucket = [t.bucket EXCEPT ![b] = [t.bucket[b] EXCEPT ![s] = x]]
  BY <1>1 DEF SetSlot
<1>. HIDE DEF u
<1>3. u.bucket \in [0..t.mask -> [Slots -> Slot]]
  <2>1. [t.bucket[b] EXCEPT ![s] = x] \in [Slots -> Slot]
    BY <1>1
  <2>. QED  BY <1>1, <1>2, <2>1
<1>4. IsTable(u)
  BY <1>2, <1>3 DEF IsTable
<1>5. ASSUME NEW d \in Cell(t)
      PROVE  At(u, d) = IF d = <<b, s>> THEN x ELSE At(t, d)
  <2>1. d = <<d[1], d[2]>> /\ d[1] \in 0..t.mask /\ d[2] \in Slots
    BY <1>5 DEF Cell
  <2>2. At(u, d) = IF d[1] = b /\ d[2] = s THEN x ELSE t.bucket[d[1]][d[2]]
    <3>1. /\ u.bucket[b] = [t.bucket[b] EXCEPT ![s] = x]
          /\ d[1] # b => u.bucket[d[1]] = t.bucket[d[1]]
      BY <1>1, <1>2, <2>1
    <3>2. u.bucket[b][d[2]] = IF d[2] = s THEN x ELSE t.bucket[b][d[2]]
      BY ZenonT(40), <1>1, <2>1, <3>1
    <3>. QED  BY <3>1, <3>2 DEF At
  <2>. QED  BY <2>1, <2>2 DEF At
<1>. QED  BY <1>2, <1>4, <1>5 DEF Writes, u

LEMMA CountedWrites ==
  ASSUME NEW t, NEW c, NEW x, NEW u, Writes(u, t, c, x), NEW n \in Nat
  PROVE  /\ Writes([u EXCEPT !.n = n], t, c, x)
         /\ [u EXCEPT !.n = n].n = n
<1>. DEFINE v == [u EXCEPT !.n = n]
<1>1. IsTable(u)
  BY DEF Writes
<1>2. /\ DOMAIN v = {"mask", "basis", "n", "bucket"}
      /\ v.mask = u.mask /\ v.basis = u.basis /\ v.n = n /\ v.bucket = u.bucket
  BY <1>1 DEF IsTable
<1>3. IsTable(v)
  BY <1>1, <1>2 DEF IsTable
<1>4. \A d : At(v, d) = At(u, d)
  BY <1>2 DEF At
<1>. QED  BY <1>2, <1>3, <1>4 DEF Writes

LEMMA SameShape ==
  ASSUME NEW t, NEW u, u.mask = t.mask, u.basis = t.basis
  PROVE  /\ Cell(u) = Cell(t)
         /\ \A h : Bucket1(u, h) = Bucket1(t, h) /\ Bucket2(u, h) = Bucket2(t, h)
         /\ \A h, d, c : Before(u, h, d, c) <=> Before(t, h, d, c)
BY DEF Cell, Bucket1, Bucket2, Before

LEMMA WrittenCells ==
  ASSUME NEW t, NEW c \in Cell(t), NEW x, NEW u, Writes(u, t, c, x)
  PROVE  /\ At(u, c) = x
         /\ \A d \in Cell(t) \ {c} : At(u, d) = At(t, d)
         /\ LiveCells(u) \ {c} = LiveCells(t) \ {c}
         /\ c \in LiveCells(u) <=> x.chain # <<>>
<1>1. Cell(u) = Cell(t)
  BY SameShape DEF Writes
<1>2. At(u, c) = x /\ \A d \in Cell(t) \ {c} : At(u, d) = At(t, d)
  BY DEF Writes
<1>. QED  BY <1>1, <1>2 DEF LiveCells

LEMMA StoredElsewhere ==
  ASSUME NEW t, NEW c \in Cell(t), NEW x, x.chain # <<>>, NEW u, Writes(u, t, c, x),
         NEW Y, c \notin Y, \A d \in LiveCells(t) \cap Y : At(t, d) = x
  PROVE  Contents(u, Y) = Contents(t, {c}) \cup {x}
<1>1. /\ At(u, c) = x /\ c \in LiveCells(u)
      /\ LiveCells(u) \ {c} = LiveCells(t) \ {c}
      /\ \A d \in LiveCells(t) \ {c} : At(u, d) = At(t, d)
  BY WrittenCells DEF LiveCells
<1>2. Contents(u, Y) \subseteq Contents(t, {c}) \cup {x}
  BY <1>1 DEF Contents
<1>3. Contents(t, {c}) \cup {x} \subseteq Contents(u, Y)
  BY <1>1 DEF Contents
<1>. QED  BY <1>2, <1>3

(* A live content x may be stored in the cell c when the other slots with  *)
(* its hash are dead and out of the way, or the copy that is left behind.  *)
LEMMA StoreSound ==
  ASSUME NEW t, NEW X, Sound(t, X), NEW c \in Cell(t), X \subseteq {c},
         NEW x \in Slot, x.chain # <<>>,
         c[1] \in {Bucket1(t, x.hash), Bucket2(t, x.hash)},
         \A i \in DOMAIN x.chain : NodeHash[x.chain[i]] = x.hash,
         \A i, j \in DOMAIN x.chain : x.chain[i] = x.chain[j] => i = j,
         NEW Y, c \notin Y, \A d \in LiveCells(t) \cap Y : At(t, d) = x,
         \A d \in Cell(t) \ {c} : At(t, d).hash = x.hash =>
           \/ d \in Y /\ At(t, d) = x
           \/ At(t, d).chain = <<>> /\ ~ Before(t, x.hash, d, c),
         NEW u, Writes(u, t, c, x)
  PROVE  Sound(u, Y)
<1>1. /\ At(u, c) = x /\ c \in LiveCells(u)
      /\ LiveCells(u) \ {c} = LiveCells(t) \ {c}
      /\ \A d \in Cell(t) \ {c} : At(u, d) = At(t, d)
  BY WrittenCells
<1>2. /\ Cell(u) = Cell(t)
      /\ \A h : Bucket1(u, h) = Bucket1(t, h) /\ Bucket2(u, h) = Bucket2(t, h)
      /\ \A h, d, e : Before(u, h, d, e) <=> Before(t, h, d, e)
  BY SameShape DEF Writes
<1>3. LiveCells(t) \subseteq Cell(t) /\ LiveCells(u) \subseteq Cell(t)
  BY <1>2 DEF LiveCells
<1>4. ASSUME NEW e \in LiveCells(u) PROVE InHome(u, e)
  <2>1. CASE e = c
    BY <1>1, <1>2, <2>1 DEF InHome
  <2>2. CASE e # c
    <3>1. e \in LiveCells(t) /\ At(u, e) = At(t, e)
      BY <1>1, <1>3, <1>4, <2>2
    <3>2. InHome(t, e)
      BY <3>1 DEF Sound
    <3>. QED  BY <1>2, <3>1, <3>2 DEF InHome
  <2>. QED  BY <2>1, <2>2
<1>5. ASSUME NEW e \in LiveCells(u) \ Y, NEW d \in Cell(u),
             At(u, d).hash = At(u, e).hash, Before(u, At(u, e).hash, d, e)
      PROVE  d \in Y /\ At(u, d).chain = At(u, e).chain
  <2>1. Before(t, At(u, e).hash, d, e) /\ d \in Cell(t) /\ e \in Cell(t)
    BY <1>2, <1>3, <1>5
  <2>2. CASE e = c
    <3>1. d # c
      <4>. SUFFICES ASSUME d = c PROVE FALSE
        OBVIOUS
      <4>1. c[2] < c[2]
        BY <2>1, <2>2 DEF Before
      <4>2. c[2] \in Nat
        BY CellOf, CmapAssumption DEF Sound, Slots
      <4>. QED  BY <4>1, <4>2
    <3>2. At(t, d).hash = x.hash /\ At(u, d) = At(t, d)
      BY <1>1, <1>5, <2>1, <2>2, <3>1
    <3>. QED  BY <1>1, <2>1, <2>2, <3>1, <3>2
  <2>3. CASE e # c
    <3>1. e \in LiveCells(t) \ X /\ At(u, e) = At(t, e) /\ e \notin Y
      BY <1>1, <1>3, <1>5, <2>3
    <3>2. At(t, e).chain # <<>> /\ e \in Cell(t) \ {c}
      BY <2>3, <3>1 DEF LiveCells
    <3>3. At(t, e).hash # x.hash
      BY <3>1, <3>2
    <3>4. d # c
      BY <1>1, <1>5, <3>1, <3>3
    <3>5. At(u, d) = At(t, d)
      BY <1>1, <2>1, <3>4
    <3>6. d \in X
      BY <1>5, <2>1, <3>1, <3>5 DEF Sound, FoundFirst
    <3>. QED  BY <3>4, <3>6
  <2>. QED  BY <2>2, <2>3
<1>6. ASSUME NEW d \in LiveCells(u) \cap Y
      PROVE  \E e \in LiveCells(u) \ Y : At(u, e) = At(u, d)
  <2>1. d \in LiveCells(t) \cap Y /\ d # c
    BY <1>1, <1>6
  <2>2. At(u, d) = At(t, d) /\ At(t, d) = x
    BY <1>1, <1>3, <2>1
  <2>. QED  BY <1>1, <2>2
<1>7. IsTable(u)
  BY DEF Writes
<1>. QED  BY <1>4, <1>5, <1>6, <1>7 DEF Sound, FoundFirst, Copied

(* A live slot is emptied; its hash stays. *)
LEMMA EmptiedSound ==
  ASSUME NEW t, Sound(t, {}), NEW c \in LiveCells(t),
         NEW x, x.hash = At(t, c).hash, x.chain = <<>>,
         NEW u, Writes(u, t, c, x)
  PROVE  Sound(u, {}) /\ Contents(u, {}) = Contents(t, {c})
<1>0. c \in Cell(t)
  BY DEF LiveCells
<1>1. /\ At(u, c) = x
      /\ LiveCells(u) = LiveCells(t) \ {c}
      /\ \A d \in Cell(t) \ {c} : At(u, d) = At(t, d)
  BY <1>0, WrittenCells
<1>2. /\ Cell(u) = Cell(t)
      /\ \A h : Bucket1(u, h) = Bucket1(t, h) /\ Bucket2(u, h) = Bucket2(t, h)
      /\ \A h, d, e : Before(u, h, d, e) <=> Before(t, h, d, e)
  BY SameShape DEF Writes
<1>3. LiveCells(t) \subseteq Cell(t)
  BY DEF LiveCells
<1>4. \A e \in LiveCells(u) : InHome(u, e)
  BY <1>1, <1>2, <1>3 DEF Sound, InHome
<1>5. ASSUME NEW e \in LiveCells(u), NEW d \in Cell(u),
             At(u, d).hash = At(u, e).hash, Before(u, At(u, e).hash, d, e)
      PROVE  FALSE
  <2>1. At(u, e) = At(t, e) /\ At(u, d).hash = At(t, d).hash /\ e \in LiveCells(t)
    BY <1>1, <1>2, <1>3, <1>5
  <2>2. Before(t, At(t, e).hash, d, e) /\ d \in Cell(t) /\ At(t, d).hash = At(t, e).hash
    BY <1>2, <1>5, <2>1
  <2>. QED  BY <2>1, <2>2 DEF Sound, FoundFirst
<1>6. Contents(u, {}) = Contents(t, {c})
  BY <1>1, <1>3 DEF Contents
<1>. QED  BY <1>4, <1>5, <1>6 DEF Sound, FoundFirst, Copied, Writes

(* The cell of a live slot holds a content of its own. *)
LEMMA ContentsBut ==
  ASSUME NEW t, Sound(t, {}), NEW c \in LiveCells(t)
  PROVE  /\ Contents(t, {c}) = Contents(t, {}) \ {At(t, c)}
         /\ \A x \in Contents(t, {c}) : x.hash # At(t, c).hash
<1>1. ASSUME NEW d \in LiveCells(t) \ {c} PROVE At(t, d).hash # At(t, c).hash
  BY <1>1, OneLive
<1>. QED  BY <1>1 DEF Contents

(* A dead slot is as good as one that is about to be overwritten. *)
LEMMA DeadCell ==
  ASSUME NEW t, Sound(t, {}), NEW c \in Cell(t), At(t, c).chain = <<>>
  PROVE  Sound(t, {c}) /\ Contents(t, {c}) = Contents(t, {})
<1>1. c \notin LiveCells(t)
  BY DEF LiveCells
<1>. QED  BY <1>1 DEF Sound, FoundFirst, Copied, Contents

-----------------------------------------------------------------------------
(* The search for a path *)

LEMMA NaturalSet ==
  ASSUME NEW S \in SUBSET Nat, 0 \in S, \A n \in S : n + 1 \in S
  PROVE  S = Nat
<1>. SUFFICES ASSUME Nat \ S # {} PROVE FALSE
  OBVIOUS
<1>1. PICK m \in Nat \ S : \A n \in Nat \ S : m <= n
  BY LeastNumber
<1>2. m # 0 /\ m - 1 \in Nat
  OBVIOUS
<1>3. m - 1 \in S
  BY <1>1, <1>2
<1>. QED  BY <1>2, <1>3

(* Paths computes what its equation says. *)
Extended(t, S) ==
  UNION {{<<q[1], p>> : p \in Hops(t, q[2], EndOf(t, q[1], q[2]))} : q \in S}

Roots(starts) == {<<b, <<>>>> : b \in starts}

Obeys(f, t, starts, n) ==
  f = [d \in 0..n |-> IF d = 0 THEN Roots(starts) ELSE Extended(t, f[d - 1])]

LEMMA PathsExist ==
  ASSUME NEW t, NEW starts, NEW n \in Nat
  PROVE  \E f : Obeys(f, t, starts, n)
<1>. DEFINE G == {k \in Nat : \E f : Obeys(f, t, starts, k)}
<1>1. 0 \in G
  <2>. DEFINE f == [d \in 0..0 |-> Roots(starts)]
  <2>1. Obeys(f, t, starts, 0)
    BY DEF Obeys
  <2>. QED  BY <2>1
<1>2. ASSUME NEW k \in G PROVE k + 1 \in G
  <2>1. PICK f : Obeys(f, t, starts, k)
    OBVIOUS
  <2>. DEFINE g == [d \in 0..(k + 1) |-> IF d = k + 1 THEN Extended(t, f[k]) ELSE f[d]]
  <2>2. ASSUME NEW d \in 0..(k + 1)
        PROVE  g[d] = IF d = 0 THEN Roots(starts) ELSE Extended(t, g[d - 1])
    BY <2>1 DEF Obeys
  <2>3. g = [d \in 0..(k + 1) |-> g[d]]
    OBVIOUS
  <2>4. Obeys(g, t, starts, k + 1)
    BY <2>2, <2>3 DEF Obeys
  <2>. QED  BY <2>4
<1>. HIDE DEF G
<1>3. G = Nat
  BY <1>1, <1>2, NaturalSet DEF G
<1>. QED  BY <1>3 DEF G

LEMMA PathsObeys ==
  ASSUME NEW t, NEW starts
  PROVE  Obeys(Paths(t, starts), t, starts, MaxDepth + 1)
<1>1. \E f : Obeys(f, t, starts, MaxDepth + 1)
  <2>. MaxDepth + 1 \in Nat
    BY CmapAssumption
  <2>. QED  BY PathsExist
<1>2. Paths(t, starts) = CHOOSE f : Obeys(f, t, starts, MaxDepth + 1)
  BY DEF Paths, Obeys, Extended, Roots
<1>. QED  BY <1>1, <1>2

(* A path of full buckets from the bucket b *)
Linked(t, b, p) ==
  /\ Len(p) > 0 => p[1][1] = b
  /\ \A i \in 1..Len(p) :
       /\ EmptySlots(t, p[i][1]) = {}
       /\ OtherBucket(t, p[i][1], p[i][2]) # p[i][1]
  /\ \A i \in 1..(Len(p) - 1) : OtherBucket(t, p[i][1], p[i][2]) = p[i + 1][1]

LinkedPaths(t, starts, d) ==
  {q \in starts \X Seq(Cell(t)) : Len(q[2]) = d /\ Linked(t, q[1], q[2])}

LEMMA OtherBucketOf ==
  ASSUME NEW t, NEW X, Sound(t, X), NEW c \in LiveCells(t)
  PROVE  /\ OtherBucket(t, c[1], c[2]) \in 0..t.mask
         /\ OtherBucket(t, c[1], c[2]) \in {Bucket1(t, At(t, c).hash), Bucket2(t, At(t, c).hash)}
<1>1. /\ IsTable(t) /\ At(t, c).hash \in Hashes
  BY LiveHash DEF Sound
<1>2. /\ Bucket1(t, At(t, c).hash) \in 0..t.mask
      /\ Bucket2(t, At(t, c).hash) \in 0..t.mask
  BY <1>1, BucketsOf
<1>. QED  BY <1>2 DEF OtherBucket, At

LEMMA FullBucket ==
  ASSUME NEW t, NEW b \in 0..t.mask, EmptySlots(t, b) = {}, NEW s \in Slots
  PROVE  <<b, s>> \in LiveCells(t) /\ Live(t, b, s)
BY DEF EmptySlots, Live, LiveCells, Cell, At

LEMMA EndOfPath ==
  ASSUME NEW t, NEW X, Sound(t, X), NEW b \in 0..t.mask,
         NEW p \in Seq(Cell(t)), Linked(t, b, p)
  PROVE  EndOf(t, b, p) \in 0..t.mask
<1>1. CASE p = <<>>
  BY <1>1 DEF EndOf
<1>2. CASE p # <<>>
  <2>1. Len(p) \in 1..Len(p) /\ p[Len(p)] \in Cell(t)
    BY <1>2
  <2>2. EmptySlots(t, p[Len(p)][1]) = {}
    BY <2>1 DEF Linked
  <2>3. p[Len(p)] = <<p[Len(p)][1], p[Len(p)][2]>> /\ p[Len(p)][1] \in 0..t.mask
        /\ p[Len(p)][2] \in Slots
    BY <2>1 DEF Cell
  <2>4. p[Len(p)] \in LiveCells(t)
    BY <2>2, <2>3, FullBucket
  <2>. QED  BY <1>2, <2>4, OtherBucketOf DEF EndOf, Last
<1>. QED  BY <1>1, <1>2

LEMMA ExtendedPaths ==
  ASSUME NEW t, NEW X, Sound(t, X), NEW starts \in SUBSET (0..t.mask), NEW d \in Nat
  PROVE  Extended(t, LinkedPaths(t, starts, d)) = LinkedPaths(t, starts, d + 1)
<1>1. ASSUME NEW q \in LinkedPaths(t, starts, d),
             NEW p \in Hops(t, q[2], EndOf(t, q[1], q[2]))
      PROVE  <<q[1], p>> \in LinkedPaths(t, starts, d + 1)
  <2>. DEFINE b == EndOf(t, q[1], q[2])
  <2>1. q[1] \in starts /\ q[2] \in Seq(Cell(t)) /\ Len(q[2]) = d /\ Linked(t, q[1], q[2])
    BY DEF LinkedPaths
  <2>2. b \in 0..t.mask
    BY <2>1, EndOfPath
  <2>3. PICK s \in Slots : EmptySlots(t, b) = {} /\ OtherBucket(t, b, s) # b /\ p = Append(q[2], <<b, s>>)
    BY DEF Hops
  <2>4. <<b, s>> \in Cell(t)
    BY <2>2 DEF Cell
  <2>5. p \in Seq(Cell(t)) /\ Len(p) = d + 1 /\ p[d + 1] = <<b, s>>
        /\ \A i \in 1..d : p[i] = q[2][i]
    BY <2>1, <2>3, <2>4
  <2>6. \A i \in 1..(d + 1) :
          EmptySlots(t, p[i][1]) = {} /\ OtherBucket(t, p[i][1], p[i][2]) # p[i][1]
    BY SMTT(40), <2>1, <2>3, <2>5 DEF Linked
  <2>7. d = 0 => b = q[1]
    BY <2>1 DEF EndOf
  <2>8. d > 0 => b = OtherBucket(t, q[2][d][1], q[2][d][2])
    BY <2>1 DEF EndOf, Last
  <2>9. p[1][1] = q[1]
    BY <2>1, <2>5, <2>7 DEF Linked
  <2>10. \A i \in 1..d : OtherBucket(t, p[i][1], p[i][2]) = p[i + 1][1]
    BY <2>1, <2>5, <2>8 DEF Linked
  <2>11. Linked(t, q[1], p)
    <3>1. 1..Len(p) = 1..(d + 1) /\ 1..(Len(p) - 1) = 1..d
      BY <2>5
    <3>. HIDE DEF b
    <3>. QED  BY <2>6, <2>9, <2>10, <3>1 DEF Linked
  <2>. QED  BY <2>1, <2>5, <2>11 DEF LinkedPaths
<1>2. ASSUME NEW q \in LinkedPaths(t, starts, d + 1)
      PROVE  q \in Extended(t, LinkedPaths(t, starts, d))
  <2>. DEFINE p == q[2]
              r == SubSeq(p, 1, d)
              b == EndOf(t, q[1], r)
  <2>1. /\ q = <<q[1], p>>
        /\ q[1] \in starts /\ p \in Seq(Cell(t)) /\ Len(p) = d + 1 /\ Linked(t, q[1], p)
    BY DEF LinkedPaths
  <2>2. r \in Seq(Cell(t)) /\ Len(r) = d /\ (\A i \in 1..d : r[i] = p[i])
        /\ p = Append(r, p[d + 1]) /\ p[d + 1] \in Cell(t)
    BY <2>1
  <2>. HIDE DEF r, p
  <2>3. Linked(t, q[1], r)
    <3>1. /\ Len(p) > 0 /\ 1..Len(r) = 1..d /\ 1..Len(p) = 1..(d + 1)
          /\ 1..(Len(r) - 1) = 1..(d - 1) /\ 1..(Len(p) - 1) = 1..d
      BY <2>1, <2>2
    <3>2. Len(r) > 0 => r[1][1] = q[1]
      BY <2>1, <2>2, <3>1 DEF Linked
    <3>3. \A i \in 1..d : EmptySlots(t, r[i][1]) = {}
            /\ OtherBucket(t, r[i][1], r[i][2]) # r[i][1]
      <4>1. \A i \in 1..d : i \in 1..(d + 1)
        OBVIOUS
      <4>2. \A i \in 1..d : EmptySlots(t, p[i][1]) = {}
              /\ OtherBucket(t, p[i][1], p[i][2]) # p[i][1]
        BY <2>1, <3>1, <4>1 DEF Linked
      <4>. QED  BY <2>2, <4>2
    <3>4. \A i \in 1..(d - 1) : OtherBucket(t, r[i][1], r[i][2]) = r[i + 1][1]
      <4>1. ASSUME NEW i \in 1..(d - 1)
            PROVE  OtherBucket(t, r[i][1], r[i][2]) = r[i + 1][1]
        <5>1. i \in 1..d /\ i + 1 \in 1..d
          OBVIOUS
        <5>2. OtherBucket(t, p[i][1], p[i][2]) = p[i + 1][1]
          BY <2>1, <3>1, <5>1 DEF Linked
        <5>. QED  BY <2>2, <5>1, <5>2
      <4>. QED  BY <4>1
    <3>. QED  BY <3>1, <3>2, <3>3, <3>4 DEF Linked
  <2>4. <<q[1], r>> \in LinkedPaths(t, starts, d)
    BY <2>1, <2>2, <2>3 DEF LinkedPaths
  <2>5. b = p[d + 1][1]
    <3>1. CASE d = 0
      BY <2>1, <2>2, <3>1 DEF EndOf, Linked
    <3>2. CASE d > 0
      BY <2>1, <2>2, <3>2 DEF EndOf, Last, Linked
    <3>. QED  BY <3>1, <3>2
  <2>6. p[d + 1] = <<b, p[d + 1][2]>> /\ p[d + 1][2] \in Slots
    BY <2>2, <2>5 DEF Cell
  <2>7. EmptySlots(t, b) = {} /\ OtherBucket(t, b, p[d + 1][2]) # b
    <3>1. d + 1 \in 1..Len(p)
      BY <2>1
    <3>. HIDE DEF b
    <3>. QED  BY <2>1, <2>5, <3>1 DEF Linked
  <2>8. p \in Hops(t, r, b)
    BY <2>2, <2>6, <2>7 DEF Hops
  <2>. QED  BY <2>1, <2>4, <2>8 DEF Extended
<1>3. Extended(t, LinkedPaths(t, starts, d)) \subseteq LinkedPaths(t, starts, d + 1)
  BY <1>1 DEF Extended
<1>4. LinkedPaths(t, starts, d + 1) \subseteq Extended(t, LinkedPaths(t, starts, d))
  BY <1>2
<1>. QED  BY <1>3, <1>4

LEMMA PathsLinked ==
  ASSUME NEW t, NEW X, Sound(t, X), NEW starts \in SUBSET (0..t.mask),
         NEW d \in 0..(MaxDepth + 1)
  PROVE  Paths(t, starts)[d] = LinkedPaths(t, starts, d)
<1>. DEFINE P == Paths(t, starts)
            G == {n \in Nat : n <= MaxDepth + 1 => P[n] = LinkedPaths(t, starts, n)}
<1>. MaxDepth \in Nat
  BY CmapAssumption
<1>1. \A n \in 0..(MaxDepth + 1) :
        P[n] = IF n = 0 THEN Roots(starts) ELSE Extended(t, P[n - 1])
  BY PathsObeys DEF Obeys
<1>2. 0 \in G
  <2>1. P[0] = Roots(starts)
    BY <1>1
  <2>2. ASSUME NEW b \in starts PROVE <<b, <<>>>> \in LinkedPaths(t, starts, 0)
    <3>1. Linked(t, b, <<>>)
      BY DEF Linked
    <3>2. <<>> \in Seq(Cell(t)) /\ Len(<<>>) = 0
      OBVIOUS
    <3>. QED  BY <3>1, <3>2 DEF LinkedPaths
  <2>3. ASSUME NEW q \in LinkedPaths(t, starts, 0) PROVE q \in P[0]
    <3>1. q = <<q[1], <<>>>> /\ q[1] \in starts
      BY DEF LinkedPaths
    <3>. QED  BY <2>1, <3>1 DEF Roots
  <2>4. P[0] = LinkedPaths(t, starts, 0)
    BY <2>1, <2>2, <2>3 DEF Roots
  <2>. QED  BY <2>4
<1>3. ASSUME NEW n \in G PROVE n + 1 \in G
  <2>. SUFFICES ASSUME n + 1 <= MaxDepth + 1 PROVE P[n + 1] = LinkedPaths(t, starts, n + 1)
    OBVIOUS
  <2>0. n \in Nat /\ n + 1 \in 0..(MaxDepth + 1) /\ n + 1 # 0 /\ (n + 1) - 1 = n
    OBVIOUS
  <2>1. P[n + 1] = Extended(t, P[n])
    BY <1>1, <2>0
  <2>2. P[n] = LinkedPaths(t, starts, n)
    BY <2>0
  <2>. QED  BY <2>0, <2>1, <2>2, ExtendedPaths
<1>. HIDE DEF G
<1>4. G = Nat
  BY <1>2, <1>3, NaturalSet DEF G
<1>. QED  BY <1>4 DEF G

(* A path that comes back to a bucket is longer than the one without the   *)
(* detour, which ends in the same bucket.                                  *)
LEMMA ShortPath ==
  ASSUME NEW t, NEW b, NEW d \in Nat, NEW p \in Seq(Cell(t)), Len(p) = d, Linked(t, b, p),
         NEW i \in 1..d, NEW j \in 1..d, i < j, p[i][1] = p[j][1]
  PROVE  \E n \in 1..(d - 1), r \in Seq(Cell(t)) :
           Len(r) = n /\ Linked(t, b, r) /\ EndOf(t, b, r) = EndOf(t, b, p)
<1>. DEFINE n == d - (j - i)
            at(k) == IF k < i THEN k ELSE k + (j - i)
            r == [k \in 1..n |-> p[at(k)]]
<1>1. n \in 1..(d - 1) /\ at(n) = d /\ \A k \in 1..n : at(k) \in 1..d
  OBVIOUS
<1>2. r \in Seq(Cell(t)) /\ Len(r) = n /\ r # <<>> /\ p # <<>>
      /\ \A k \in 1..n : r[k] = p[at(k)]
  BY <1>1
<1>. HIDE DEF r
<1>3. EndOf(t, b, r) = EndOf(t, b, p)
  BY <1>1, <1>2 DEF EndOf, Last
<1>4. r[1][1] = b
  <2>1. p[1][1] = b
    BY DEF Linked
  <2>2. CASE i = 1
    <3>1. at(1) = j
      BY <2>2
    <3>. QED  BY <1>1, <1>2, <2>1, <2>2, <3>1
  <2>3. CASE i > 1
    <3>1. at(1) = 1
      BY <2>3
    <3>. QED  BY <1>1, <1>2, <2>1, <3>1
  <2>. QED  BY <2>2, <2>3
<1>5. \A k \in 1..d :
        EmptySlots(t, p[k][1]) = {} /\ OtherBucket(t, p[k][1], p[k][2]) # p[k][1]
  BY DEF Linked
<1>6. \A k \in 1..(d - 1) : OtherBucket(t, p[k][1], p[k][2]) = p[k + 1][1]
  BY DEF Linked
<1>7. ASSUME NEW k \in 1..(n - 1)
      PROVE  OtherBucket(t, r[k][1], r[k][2]) = r[k + 1][1]
  <2>1. k \in 1..n /\ k + 1 \in 1..n
    BY <1>1
  <2>2. CASE k + 1 < i
    <3>1. at(k) = k /\ at(k + 1) = k + 1 /\ k \in 1..(d - 1)
      BY <2>2
    <3>. QED  BY <1>2, <1>6, <2>1, <3>1
  <2>3. CASE k + 1 = i
    <3>1. at(k) = k /\ at(k + 1) = j /\ k \in 1..(d - 1)
      BY <2>3
    <3>2. r[k] = p[k] /\ r[k + 1] = p[j]
      BY <1>2, <2>1, <3>1
    <3>3. OtherBucket(t, p[k][1], p[k][2]) = p[i][1]
      BY <1>6, <2>3, <3>1
    <3>. QED  BY <3>2, <3>3
  <2>4. CASE k + 1 > i
    <3>. DEFINE m == k + (j - i)
    <3>1. at(k) = m /\ at(k + 1) = m + 1 /\ m \in 1..(d - 1)
      BY <1>1, <2>4
    <3>2. r[k] = p[m] /\ r[k + 1] = p[m + 1]
      BY <1>2, <2>1, <3>1
    <3>. QED  BY <1>6, <3>1, <3>2
  <2>. QED  BY <2>2, <2>3, <2>4
<1>8. \A k \in 1..n :
        EmptySlots(t, r[k][1]) = {} /\ OtherBucket(t, r[k][1], r[k][2]) # r[k][1]
  BY <1>1, <1>2, <1>5
<1>9. Linked(t, b, r)
  BY <1>2, <1>4, <1>7, <1>8 DEF Linked
<1>. QED  BY <1>1, <1>2, <1>3, <1>9

(* pp goes from one of the buckets starts, through full ones that all      *)
(* differ, to the first empty slot of the bucket that p leads to.          *)
Shortest(t, starts, pp) ==
  \E b \in starts, p \in Seq(Cell(t)) :
    /\ Len(p) > 0 /\ Linked(t, b, p)
    /\ \A i, j \in 1..Len(p) : p[i][1] = p[j][1] => i = j
    /\ EmptySlots(t, EndOf(t, b, p)) # {}
    /\ pp = Append(p, <<EndOf(t, b, p), First(EmptySlots(t, EndOf(t, b, p)))>>)

LEMMA FoundPath ==
  ASSUME NEW t, NEW X, Sound(t, X), NEW starts \in SUBSET (0..t.mask),
         NEW pp \in FoundPaths(t, starts)
  PROVE  Shortest(t, starts, pp)
<1>. DEFINE P == Paths(t, starts)
            Good(d) == {q \in P[d] : EmptySlots(t, EndOf(t, q[1], q[2])) # {}}
            depths == {d \in 1..(MaxDepth + 1) : Good(d) # {}}
            d0 == First(depths)
<1>. MaxDepth \in Nat
  BY CmapAssumption
<1>1. depths # {} /\ \E q \in Good(d0) : pp = Completed(t, q)
  BY DEF FoundPaths
<1>2. depths \in SUBSET Nat
  OBVIOUS
<1>3. d0 \in depths /\ \A n \in depths : d0 <= n
  BY <1>1, <1>2, LeastNumber
<1>. HIDE DEF d0
<1>4. PICK q \in Good(d0) : pp = Completed(t, q)
  BY <1>1
<1>5. d0 \in 1..(MaxDepth + 1)
  BY <1>3
<1>6. ASSUME NEW n \in 1..(MaxDepth + 1) PROVE P[n] = LinkedPaths(t, starts, n)
  <2>1. n \in 0..(MaxDepth + 1)
    OBVIOUS
  <2>. QED  BY <2>1, PathsLinked
<1>7. /\ q[1] \in starts /\ q[2] \in Seq(Cell(t)) /\ Len(q[2]) = d0 /\ Linked(t, q[1], q[2])
      /\ EmptySlots(t, EndOf(t, q[1], q[2])) # {}
  BY <1>5, <1>6 DEF LinkedPaths
<1>8. ASSUME NEW i \in 1..d0, NEW j \in 1..d0, q[2][i][1] = q[2][j][1], i < j
      PROVE  FALSE
  <2>1. PICK n \in 1..(d0 - 1), r \in Seq(Cell(t)) :
          Len(r) = n /\ Linked(t, q[1], r) /\ EndOf(t, q[1], r) = EndOf(t, q[1], q[2])
    BY <1>5, <1>7, <1>8, ShortPath
  <2>2. n \in 1..(MaxDepth + 1) /\ n < d0
    BY <1>5
  <2>3. <<q[1], r>> \in LinkedPaths(t, starts, n)
    BY <1>7, <2>1 DEF LinkedPaths
  <2>4. <<q[1], r>> \in Good(n)
    BY <1>6, <1>7, <2>1, <2>2, <2>3
  <2>5. n \in depths
    BY <2>2, <2>4
  <2>. QED  BY <1>3, <1>5, <2>2, <2>5
<1>9. \A i, j \in 1..d0 : q[2][i][1] = q[2][j][1] => i = j
  BY <1>5, <1>8
<1>10. pp = Append(q[2], <<EndOf(t, q[1], q[2]), First(EmptySlots(t, EndOf(t, q[1], q[2])))>>)
  BY <1>4 DEF Completed
<1>11. \A i, j \in 1..Len(q[2]) : q[2][i][1] = q[2][j][1] => i = j
  BY <1>7, <1>9
<1>12. Len(q[2]) > 0
  BY <1>5, <1>7
<1>. HIDE DEF Good, depths
<1>. QED  BY <1>7, <1>10, <1>11, <1>12 DEF Shortest

(* The path of an insertion: full buckets, each the other bucket of the    *)
(* slot before, none twice, and an empty slot behind live ones at the end. *)
PathOK(t, p, h) ==
  /\ p \in Seq(Cell(t)) /\ Len(p) > 0
  /\ p[1][1] \in {Bucket1(t, h), Bucket2(t, h)}
  /\ \A i \in 1..(Len(p) - 1) :
       /\ OtherBucket(t, p[i][1], p[i][2]) = p[i + 1][1]
       /\ EmptySlots(t, p[i][1]) = {}
  /\ \A i, j \in 1..Len(p) : p[i][1] = p[j][1] => i = j
  /\ \A s \in Slots : s < p[Len(p)][2] => Live(t, p[Len(p)][1], s)

LEMMA FoundPathOK ==
  ASSUME NEW t, NEW X, Sound(t, X), NEW h \in Hashes,
         NEW pp \in FoundPaths(t, ToSet(Candidates(t, h)))
  PROVE  /\ PathOK(t, pp, h) /\ Len(pp) > 1
         /\ At(t, pp[Len(pp)]).chain = <<>>
<1>. DEFINE starts == {Bucket1(t, h), Bucket2(t, h)}
<1>1. ToSet(Candidates(t, h)) = starts
  BY DEF Candidates, ToSet
<1>2. starts \in SUBSET (0..t.mask)
  BY BucketsOf DEF Sound
<1>. HIDE DEF starts
<1>0. pp \in FoundPaths(t, starts)
  BY <1>1
<1>3. PICK b \in starts, p \in Seq(Cell(t)) :
        /\ Len(p) > 0 /\ Linked(t, b, p)
        /\ \A i, j \in 1..Len(p) : p[i][1] = p[j][1] => i = j
        /\ EmptySlots(t, EndOf(t, b, p)) # {}
        /\ pp = Append(p, <<EndOf(t, b, p), First(EmptySlots(t, EndOf(t, b, p)))>>)
  <2>1. Shortest(t, starts, pp)
    BY <1>0, <1>2, FoundPath
  <2>. QED  BY <2>1 DEF Shortest
<1>. DEFINE n == Len(p)
            e == EndOf(t, b, p)
            s == First(EmptySlots(t, e))
<1>4. e \in 0..t.mask
  BY <1>2, <1>3, EndOfPath
<1>5. s \in EmptySlots(t, e) /\ s \in Slots /\ \A r \in EmptySlots(t, e) : s <= r
  BY <1>3, FirstSlot DEF EmptySlots
<1>6. n \in Nat \ {0} /\ <<e, s>> \in Cell(t)
  BY <1>3, <1>4, <1>5 DEF Cell
<1>7. e = OtherBucket(t, p[n][1], p[n][2])
  BY <1>3, <1>6 DEF EndOf, Last
<1>. HIDE DEF e, s
<1>8. /\ pp \in Seq(Cell(t)) /\ Len(pp) = n + 1 /\ pp[n + 1] = <<e, s>>
      /\ \A i \in 1..n : pp[i] = p[i]
  BY <1>3, <1>6 DEF e, s
<1>9. pp[1][1] = b
  BY <1>3, <1>6, <1>8 DEF Linked
<1>10. \A i \in 1..n : EmptySlots(t, p[i][1]) = {}
  BY <1>3 DEF Linked
<1>11. \A i \in 1..n : OtherBucket(t, pp[i][1], pp[i][2]) = pp[i + 1][1]
  <2>1. \A i \in 1..(n - 1) : OtherBucket(t, p[i][1], p[i][2]) = p[i + 1][1]
    BY <1>3 DEF Linked
  <2>2. ASSUME NEW i \in 1..n PROVE OtherBucket(t, pp[i][1], pp[i][2]) = pp[i + 1][1]
    <3>1. CASE i = n
      BY <1>6, <1>7, <1>8, <3>1
    <3>2. CASE i # n
      <4>1. i \in 1..(n - 1) /\ i + 1 \in 1..n
        BY <1>6, <3>2
      <4>. QED  BY <1>8, <2>1, <4>1
    <3>. QED  BY <3>1, <3>2
  <2>. QED  BY <2>2
<1>12. \A i \in 1..n : p[i][1] # e
  BY <1>3, <1>10 DEF e
<1>13. ASSUME NEW i \in 1..(n + 1), NEW j \in 1..(n + 1), pp[i][1] = pp[j][1]
       PROVE  i = j
  <2>1. (i \in 1..n \/ i = n + 1) /\ (j \in 1..n \/ j = n + 1)
    BY <1>6
  <2>. QED  BY <1>3, <1>8, <1>12, <1>13, <2>1
<1>14. ASSUME NEW r \in Slots, r < s PROVE Live(t, e, r)
  <2>1. r \notin EmptySlots(t, e)
    <3>1. r \in Nat /\ s \in Nat
      BY <1>5, CmapAssumption DEF Slots
    <3>. QED  BY <1>5, <1>14, <3>1
  <2>. QED  BY <2>1 DEF EmptySlots
<1>15. At(t, <<e, s>>).chain = <<>>
  BY <1>5 DEF EmptySlots, Live, At
<1>16. PathOK(t, pp, h)
  <2>1. 1..Len(pp) = 1..(n + 1) /\ 1..(Len(pp) - 1) = 1..n
    BY <1>6, <1>8
  <2>2. \A i \in 1..n : EmptySlots(t, pp[i][1]) = {}
    BY <1>8, <1>10
  <2>3. pp[1][1] \in {Bucket1(t, h), Bucket2(t, h)}
    BY <1>9 DEF starts
  <2>4. pp[Len(pp)] = <<e, s>> /\ Len(pp) > 0
    BY <1>6, <1>8
  <2>5. \A r \in Slots : r < pp[Len(pp)][2] => Live(t, pp[Len(pp)][1], r)
    BY <1>14, <2>4
  <2>6. \A i, j \in 1..Len(pp) : pp[i][1] = pp[j][1] => i = j
    BY <1>13, <2>1
  <2>7. \A i \in 1..(Len(pp) - 1) :
          /\ OtherBucket(t, pp[i][1], pp[i][2]) = pp[i + 1][1]
          /\ EmptySlots(t, pp[i][1]) = {}
    BY <1>11, <2>1, <2>2
  <2>. QED  BY <1>8, <2>3, <2>4, <2>5, <2>6, <2>7 DEF PathOK
<1>. QED  BY <1>6, <1>8, <1>15, <1>16

-----------------------------------------------------------------------------
(* The stores of an insertion *)

(* A slot content whose nodes belong together *)
OneChainOf(x) ==
  /\ x \in Slot /\ x.chain # <<>> /\ x.hash \in Hashes
  /\ \A i \in DOMAIN x.chain : NodeHash[x.chain[i]] = x.hash
  /\ \A i, j \in DOMAIN x.chain : x.chain[i] = x.chain[j] => i = j

(* The contents S after the chain of h was put to q *)
WithChain(S, h, q) == {y \in S : y.hash # h} \cup {[hash |-> h, chain |-> q]}

(* u contains what t did, and the chain of x in front of what the hash had.*)
Inserted(u, t, X, x) ==
  /\ Sound(u, {})
  /\ Contents(u, {}) = WithChain(Contents(t, X), x.hash, x.chain \o Find(t, x.hash))

NoneWithHash(t, h) ==
  WithHash(t, Bucket1(t, h), h) = {} /\ WithHash(t, Bucket2(t, h), h) = {}

LEMMA NoneContained ==
  ASSUME NEW t, NEW X, Sound(t, X), NEW h \in Hashes, NoneWithHash(t, h)
  PROVE  /\ \A y \in Contents(t, X) : y.hash # h
         /\ \A c \in LiveCells(t) : At(t, c).hash # h
         /\ Find(t, h) = <<>>
<1>1. ASSUME NEW c \in LiveCells(t), At(t, c).hash = h PROVE FALSE
  <2>1. InHome(t, c) /\ c \in Cell(t)
    BY DEF Sound, LiveCells
  <2>2. c[1] \in {Bucket1(t, h), Bucket2(t, h)} /\ c[2] \in Slots
    BY <1>1, <2>1, CellOf DEF InHome, Sound
  <2>3. c[2] \in WithHash(t, c[1], h)
    BY <1>1, <2>2 DEF WithHash, At
  <2>. QED  BY <2>2, <2>3 DEF NoneWithHash
<1>2. Find(t, h) = <<>>
  BY MissedInBucket DEF Find, NoneWithHash
<1>. QED  BY <1>1, <1>2 DEF Contents

LEMMA PlainContent ==
  ASSUME NEW x \in Slot
  PROVE  [hash |-> x.hash, chain |-> x.chain \o <<>>] = x
<1>1. x.chain \in Seq(Nodes)
  BY DEF Slot
<1>2. x.chain \o <<>> = x.chain
  BY <1>1
<1>. QED  BY <1>2 DEF Slot

(* The content goes to a cell of its candidate buckets where no slot has   *)
(* its hash.                                                               *)
LEMMA NewInserted ==
  ASSUME NEW t, NEW X, Sound(t, X), NEW x, OneChainOf(x), NoneWithHash(t, x.hash),
         NEW c \in Cell(t), X \subseteq {c}, At(t, c).chain = <<>> \/ X = {c},
         c[1] \in {Bucket1(t, x.hash), Bucket2(t, x.hash)},
         NEW u, Writes(u, t, c, x)
  PROVE  Inserted(u, t, X, x)
<1>. DEFINE h == x.hash
<1>1. x \in Slot /\ x.chain # <<>> /\ h \in Hashes
  BY DEF OneChainOf
<1>2. ASSUME NEW d \in Cell(t), At(t, d).hash = h
      PROVE  At(t, d).chain = <<>> /\ ~ Before(t, h, d, c)
  <2>1. d[1] \notin {Bucket1(t, h), Bucket2(t, h)}
    <3>1. d[2] \in Slots
      BY CellOf DEF Sound
    <3>2. d[2] \in WithHash(t, d[1], h)
      BY <1>2, <3>1 DEF WithHash, At
    <3>. QED  BY <3>2 DEF NoneWithHash
  <2>2. ~ Before(t, h, d, c)
    BY <2>1 DEF Before
  <2>3. d \notin LiveCells(t)
    BY <1>1, <1>2, NoneContained
  <2>. QED  BY <2>2, <2>3 DEF LiveCells
<1>3. Sound(u, {})
  BY <1>1, <1>2, StoreSound DEF OneChainOf
<1>4. Contents(u, {}) = Contents(t, {c}) \cup {x}
  BY <1>1, StoredElsewhere
<1>5. Contents(t, {c}) = Contents(t, X)
  <2>1. CASE X = {c}
    BY <2>1
  <2>2. CASE X = {}
    BY <2>2, DeadCell
  <2>. QED  BY <2>1, <2>2
<1>6. Find(t, h) = <<>> /\ \A y \in Contents(t, X) : y.hash # h
  BY <1>1, NoneContained
<1>7. [hash |-> h, chain |-> x.chain \o Find(t, h)] = x
  BY <1>1, <1>6, PlainContent
<1>8. Contents(u, {}) = WithChain(Contents(t, X), h, x.chain \o Find(t, h))
  BY <1>4, <1>5, <1>6, <1>7 DEF WithChain
<1>. QED  BY <1>3, <1>8 DEF Inserted

(* The bucket of a slot that may take the content x: the first candidate   *)
(* that has the hash.                                                      *)
LEMMA FirstOfTwo ==
  ASSUME NEW S \in SUBSET (1..2), S # {}
  PROVE  First(S) \in S /\ (First(S) = 2 => 1 \notin S)
<1>1. First(S) \in S /\ \A n \in S : First(S) <= n
  BY LeastNumber
<1>. QED  BY <1>1

LEMMA CandidateOf ==
  ASSUME NEW t, NEW h
  PROVE  /\ Candidates(t, h)[1] = Bucket1(t, h) /\ Candidates(t, h)[2] = Bucket2(t, h)
         /\ Dups(t, h) \in SUBSET (1..2) /\ Room(t, h) \in SUBSET (1..2)
         /\ \A i \in 1..2 : i \in Dups(t, h) <=> WithHash(t, Candidates(t, h)[i], h) # {}
         /\ \A i \in 1..2 : i \in Room(t, h) <=> EmptySlots(t, Candidates(t, h)[i]) # {}
BY DEF Candidates, Dups, Room

LEMMA NoDups ==
  ASSUME NEW t, NEW h, Dups(t, h) = {}
  PROVE  NoneWithHash(t, h)
BY CandidateOf DEF NoneWithHash

(* The slot that may hold the chain of h: no other one with that hash is   *)
(* live, or stands before it in a search.                                  *)
ChainCell(t, h, c) ==
  /\ c \in Cell(t) /\ At(t, c).hash = h
  /\ c[1] \in {Bucket1(t, h), Bucket2(t, h)}
  /\ \A d \in Cell(t) \ {c} : At(t, d).hash = h =>
       At(t, d).chain = <<>> /\ ~ Before(t, h, d, c)

LEMMA DupSlot ==
  ASSUME NEW t, Sound(t, {}), NEW h \in Hashes, Dups(t, h) # {},
         NEW b, b = Candidates(t, h)[First(Dups(t, h))],
         NEW s, s = First(WithHash(t, b, h)), NEW c, c = <<b, s>>
  PROVE  /\ ChainCell(t, h, c)
         /\ b \in 0..t.mask /\ s \in Slots
         /\ Find(t, h) = At(t, c).chain
<1>. DEFINE i == First(Dups(t, h))
<1>1. i \in Dups(t, h) /\ i \in 1..2 /\ (i = 2 => 1 \notin Dups(t, h))
  BY FirstOfTwo, CandidateOf
<1>2. WithHash(t, b, h) # {} /\ (i = 1 => b = Bucket1(t, h)) /\ (i = 2 => b = Bucket2(t, h))
      /\ (i = 2 => WithHash(t, Bucket1(t, h), h) = {})
  BY <1>1, CandidateOf
<1>. HIDE DEF i
<1>3. b \in {Bucket1(t, h), Bucket2(t, h)} /\ b \in 0..t.mask
      /\ (b # Bucket1(t, h) => WithHash(t, Bucket1(t, h), h) = {})
  BY SMTT(40), <1>1, <1>2, BucketsOf DEF Sound
<1>4. s \in WithHash(t, b, h) /\ s \in Slots /\ \A r \in WithHash(t, b, h) : s <= r
  BY <1>2, FirstSlot DEF WithHash
<1>5. c \in Cell(t) /\ At(t, c).hash = h
  BY Zenon, <1>3, <1>4 DEF Cell, At, WithHash
<1>6. ASSUME NEW d \in Cell(t) \ {c}, At(t, d).hash = h
      PROVE  At(t, d).chain = <<>> /\ ~ Before(t, h, d, c)
  <2>1. d = <<d[1], d[2]>> /\ d[2] \in Slots /\ d[2] \in Nat /\ s \in Nat
    BY SMTT(40), <1>4, CellOf, CmapAssumption DEF Sound, Slots
  <2>2. d[2] \in WithHash(t, d[1], h)
    BY <1>6, <2>1 DEF WithHash, At
  <2>3. ~ Before(t, h, d, c)
    BY <1>3, <1>4, <2>1, <2>2 DEF Before
  <2>4. ASSUME d \in LiveCells(t) PROVE FALSE
    <3>1. d[1] \in {Bucket1(t, h), Bucket2(t, h)}
      BY <1>6, <2>4 DEF Sound, InHome
    <3>2. Before(t, h, c, d)
      <4>1. CASE d[1] = b
        <5>1. d[2] # s /\ s <= d[2]
          BY <1>4, <1>6, <2>1, <2>2, <4>1
        <5>2. s < d[2]
          BY <2>1, <5>1
        <5>. QED  BY <4>1, <5>2 DEF Before
      <4>2. CASE d[1] # b
        <5>1. b = Bucket1(t, h) /\ d[1] # Bucket1(t, h)
          BY <1>3, <2>2, <3>1, <4>2
        <5>. QED  BY <5>1 DEF Before
      <4>. QED  BY <4>1, <4>2
    <3>. QED  BY <1>5, <1>6, <2>4, <3>2 DEF Sound, FoundFirst
  <2>. QED  BY <2>3, <2>4 DEF LiveCells
<1>7. Find(t, h) = At(t, c).chain
  <2>1. CASE c \in LiveCells(t)
    BY <1>5, <2>1, FindLive
  <2>2. CASE c \notin LiveCells(t)
    <3>1. At(t, c).chain = <<>>
      BY <1>5, <2>2 DEF LiveCells
    <3>2. ASSUME Find(t, h) # <<>> PROVE FALSE
      <4>1. PICK y \in Contents(t, {}) : y.hash = h /\ y.chain = Find(t, h)
        BY <3>2, FindHit
      <4>2. PICK d \in LiveCells(t) : y = At(t, d)
        BY DEF Contents
      <4>. QED  BY <1>6, <3>1, <3>2, <4>1, <4>2 DEF LiveCells
    <3>. QED  BY <3>1, <3>2
  <2>. QED  BY <2>1, <2>2
<1>8. c[1] = b
  OBVIOUS
<1>. QED  BY <1>3, <1>4, <1>5, <1>6, <1>7, <1>8 DEF ChainCell

LEMMA LiveChainCell ==
  ASSUME NEW t, Sound(t, {}), NEW c \in LiveCells(t)
  PROVE  ChainCell(t, At(t, c).hash, c)
<1>1. c \in Cell(t) /\ InHome(t, c)
  BY DEF Sound, LiveCells
<1>2. ASSUME NEW d \in Cell(t) \ {c}, At(t, d).hash = At(t, c).hash
      PROVE  At(t, d).chain = <<>> /\ ~ Before(t, At(t, c).hash, d, c)
  <2>1. d \notin LiveCells(t)
    BY <1>2, OneLive
  <2>. QED  BY <1>2, <2>1 DEF LiveCells, Sound, FoundFirst
<1>. QED  BY <1>1, <1>2 DEF ChainCell, InHome

(* Another chain of the same hash is stored there. *)
LEMMA ChainStored ==
  ASSUME NEW t, Sound(t, {}), NEW y, OneChainOf(y), NEW c, ChainCell(t, y.hash, c),
         NEW u, Writes(u, t, c, y)
  PROVE  /\ Sound(u, {})
         /\ Contents(u, {}) = {z \in Contents(t, {}) : z.hash # y.hash} \cup {y}
<1>1. c \in Cell(t) /\ y \in Slot /\ y.chain # <<>>
  BY DEF ChainCell, OneChainOf
<1>2. Sound(u, {})
  <2>1. \A d \in Cell(t) \ {c} : At(t, d).hash = y.hash =>
           \/ d \in {} /\ At(t, d) = y
           \/ At(t, d).chain = <<>> /\ ~ Before(t, y.hash, d, c)
    BY DEF ChainCell
  <2>2. /\ {} \subseteq {c} /\ c \notin {} /\ \A d \in LiveCells(t) \cap {} : At(t, d) = y
        /\ c[1] \in {Bucket1(t, y.hash), Bucket2(t, y.hash)}
        /\ \A i \in DOMAIN y.chain : NodeHash[y.chain[i]] = y.hash
        /\ \A i, j \in DOMAIN y.chain : y.chain[i] = y.chain[j] => i = j
    BY DEF ChainCell, OneChainOf
  <2>. QED  BY <1>1, <2>1, <2>2, StoreSound
<1>3. Contents(u, {}) = Contents(t, {c}) \cup {y}
  <2>1. c \notin {} /\ \A d \in LiveCells(t) \cap {} : At(t, d) = y
    OBVIOUS
  <2>. QED  BY <1>1, <2>1, StoredElsewhere
<1>4. Contents(t, {c}) = {z \in Contents(t, {}) : z.hash # y.hash}
  <2>0. At(t, c).hash = y.hash
    BY DEF ChainCell
  <2>1. CASE c \notin LiveCells(t)
    <3>1. Contents(t, {c}) = Contents(t, {})
      BY <1>1, <2>1, DeadCell DEF LiveCells
    <3>2. \A d \in LiveCells(t) : At(t, d).hash # y.hash
      BY <2>1 DEF LiveCells, ChainCell
    <3>. QED  BY <3>1, <3>2 DEF Contents
  <2>2. CASE c \in LiveCells(t)
    <3>1. /\ Contents(t, {c}) = Contents(t, {}) \ {At(t, c)}
          /\ \A z \in Contents(t, {c}) : z.hash # At(t, c).hash
      BY <2>2, ContentsBut
    <3>. QED  BY <2>0, <3>1
  <2>. QED  BY <2>1, <2>2
<1>. QED  BY <1>2, <1>3, <1>4

LEMMA JoinedChains ==
  ASSUME NEW p \in Seq(Nodes), NEW q \in Seq(Nodes), NEW h,
         \A i \in DOMAIN p : NodeHash[p[i]] = h,
         \A i \in DOMAIN q : NodeHash[q[i]] = h,
         \A i, j \in DOMAIN p : p[i] = p[j] => i = j,
         \A i, j \in DOMAIN q : q[i] = q[j] => i = j,
         \A i \in DOMAIN p, j \in DOMAIN q : p[i] # q[j]
  PROVE  /\ p \o q \in Seq(Nodes)
         /\ p # <<>> => p \o q # <<>>
         /\ \A i \in DOMAIN (p \o q) : NodeHash[(p \o q)[i]] = h
         /\ \A i, j \in DOMAIN (p \o q) : (p \o q)[i] = (p \o q)[j] => i = j
<1>. DEFINE m == Len(p)
            n == Len(q)
            r == p \o q
<1>1. /\ m \in Nat /\ n \in Nat /\ DOMAIN p = 1..m /\ DOMAIN q = 1..n
      /\ r \in Seq(Nodes) /\ Len(r) = m + n /\ DOMAIN r = 1..(m + n)
      /\ (p # <<>> => m > 0)
  OBVIOUS
<1>2. ASSUME NEW i \in 1..(m + n)
      PROVE  \/ i \in 1..m /\ r[i] = p[i]
             \/ i - m \in 1..n /\ r[i] = q[i - m]
  BY <1>1
<1>. HIDE DEF r, m, n
<1>3. ASSUME NEW i \in DOMAIN r PROVE NodeHash[r[i]] = h
  <2>1. CASE i \in 1..m /\ r[i] = p[i]
    BY <1>1, <2>1
  <2>2. CASE i - m \in 1..n /\ r[i] = q[i - m]
    BY <1>1, <2>2
  <2>. QED  BY <1>1, <1>2, <2>1, <2>2
<1>4. ASSUME NEW i \in DOMAIN r, NEW j \in DOMAIN r, r[i] = r[j] PROVE i = j
  <2>1. CASE i \in 1..m /\ r[i] = p[i]
    <3>1. j \in 1..m /\ r[j] = p[j]
      BY <1>1, <1>2, <1>4, <2>1
    <3>. QED  BY <1>1, <1>4, <2>1, <3>1
  <2>2. CASE i - m \in 1..n /\ r[i] = q[i - m]
    <3>1. j - m \in 1..n /\ r[j] = q[j - m]
      BY <1>1, <1>2, <1>4, <2>2
    <3>2. i - m = j - m
      BY <1>1, <1>4, <2>2, <3>1
    <3>. QED  BY <1>1, <3>2
  <2>. QED  BY <1>1, <1>2, <2>1, <2>2
<1>5. p # <<>> => r # <<>>
  BY <1>1
<1>. QED  BY <1>1, <1>3, <1>4, <1>5 DEF r

(* cmap_insert_dup *)
LEMMA DupInserted ==
  ASSUME NEW t, Sound(t, {}), NEW x, OneChainOf(x), NEW c, ChainCell(t, x.hash, c),
         NEW q, q = Find(t, x.hash), q = At(t, c).chain,
         \A i \in DOMAIN x.chain, j \in DOMAIN q : x.chain[i] # q[j],
         NEW y, y \in Slot, y.hash = x.hash, y.chain = x.chain \o q,
         NEW u, Writes(u, t, c, y)
  PROVE  Inserted(u, t, {}, x)
<1>1. c \in Cell(t) /\ x.chain \in Seq(Nodes) /\ q \in Seq(Nodes) /\ x.chain # <<>>
      /\ At(t, c).hash = x.hash /\ x.hash \in Hashes
  BY CellOf DEF ChainCell, OneChainOf, Slot, Sound
<1>2. /\ \A i \in DOMAIN q : NodeHash[q[i]] = x.hash
      /\ \A i, j \in DOMAIN q : q[i] = q[j] => i = j
  <2>1. CASE q = <<>>
    BY <2>1
  <2>2. CASE q # <<>>
    <3>1. InHome(t, c)
      BY <1>1, <2>2 DEF Sound, LiveCells
    <3>. QED  BY <1>1, <3>1 DEF InHome
  <2>. QED  BY <2>1, <2>2
<1>3. OneChainOf(y)
  <2>1. /\ x.chain \o q \in Seq(Nodes)
        /\ x.chain \o q # <<>>
        /\ \A i \in DOMAIN (x.chain \o q) : NodeHash[(x.chain \o q)[i]] = x.hash
        /\ \A i, j \in DOMAIN (x.chain \o q) : (x.chain \o q)[i] = (x.chain \o q)[j] => i = j
    BY <1>1, <1>2, JoinedChains DEF OneChainOf
  <2>. QED  BY <1>1, <2>1 DEF OneChainOf
<1>4. /\ Sound(u, {})
      /\ Contents(u, {}) = {z \in Contents(t, {}) : z.hash # x.hash} \cup {y}
  BY <1>3, ChainStored
<1>5. y = [hash |-> x.hash, chain |-> x.chain \o q]
  BY DEF Slot
<1>. QED  BY <1>4, <1>5 DEF Inserted, WithChain

-----------------------------------------------------------------------------
(* The moves *)

(* One move of cmap_insert_bfs: from the last cell but one of the path p   *)
(* into the last; the path that remains is r.                              *)
LastMove(p, from, to, r) ==
  /\ Len(p) > 1
  /\ from = p[Len(p) - 1] /\ to = p[Len(p)]
  /\ r = SubSeq(p, 1, Len(p) - 1)

LEMMA MoveKeeps ==
  ASSUME NEW t, NEW p, NEW h \in Hashes, NEW from, NEW to, NEW r, LastMove(p, from, to, r),
         Sound(t, {to}), PathOK(t, p, h), NoneWithHash(t, h),
         NEW u, Writes(u, t, to, At(t, from))
  PROVE  /\ Sound(u, {from})
         /\ Contents(u, {from}) = Contents(t, {to})
         /\ PathOK(u, r, h)
         /\ NoneWithHash(u, h)
<1>. DEFINE x == At(t, from)
            g == x.hash
<1>0. PICK k : k = Len(p)
  OBVIOUS
<1>21. k > 1 /\ from = p[k - 1] /\ to = p[k]
  BY <1>0 DEF LastMove
<1>1. /\ p \in Seq(Cell(t)) /\ k \in Nat /\ k - 1 \in 1..(k - 1) /\ k - 1 \in 1..k /\ k \in 1..k
      /\ to \in Cell(t) /\ from \in Cell(t)
  BY <1>0, <1>21 DEF PathOK
<1>2. /\ IsTable(t)
      /\ to = <<to[1], to[2]>> /\ to[1] \in 0..t.mask /\ to[2] \in Slots
      /\ from = <<from[1], from[2]>> /\ from[1] \in 0..t.mask /\ from[2] \in Slots
      /\ x \in Slot
  BY <1>1, CellOf DEF Sound
<1>3. /\ OtherBucket(t, from[1], from[2]) = to[1]
      /\ EmptySlots(t, from[1]) = {}
  <2>1. (k - 1) + 1 = k
    BY <1>1
  <2>. QED  BY <1>0, <1>1, <1>21, <2>1 DEF PathOK
<1>4. from[1] # to[1] /\ from # to
  BY <1>0, <1>1, <1>21 DEF PathOK
<1>5. \A s \in Slots : s < to[2] => Live(t, to[1], s)
  BY <1>0, <1>21 DEF PathOK
<1>6. from \in LiveCells(t) \ {to} /\ InHome(t, from)
  BY <1>2, <1>3, <1>4, FullBucket DEF Sound
<1>7. g \in Hashes /\ x.chain # <<>>
  BY <1>2, <1>6, LiveHash
<1>8. /\ to[1] \in {Bucket1(t, g), Bucket2(t, g)} /\ from[1] \in {Bucket1(t, g), Bucket2(t, g)}
      /\ \A i \in DOMAIN x.chain : NodeHash[x.chain[i]] = g
      /\ \A i, j \in DOMAIN x.chain : x.chain[i] = x.chain[j] => i = j
  BY <1>3, <1>6, OtherBucketOf DEF InHome
<1>. HIDE DEF x
<1>9. ASSUME NEW d \in Cell(t) \ {to}, At(t, d).hash = g, d # from
      PROVE  At(t, d).chain = <<>> /\ ~ Before(t, g, d, to)
  <2>1. d \notin LiveCells(t)
    BY <1>6, <1>9, OneLive DEF x, Sound
  <2>2. At(t, d).chain = <<>>
    BY <2>1 DEF LiveCells
  <2>3. d = <<d[1], d[2]>> /\ d[1] \in 0..t.mask /\ d[2] \in Slots
    BY <1>2, CellOf
  <2>4. ~ Live(t, d[1], d[2])
    BY <2>2 DEF Live, At
  <2>5. d[1] # from[1]
    BY <1>2, <1>3, <2>1, <2>3, FullBucket
  <2>6. ~ (d[1] = to[1] /\ d[2] < to[2])
    BY <1>5, <2>3, <2>4
  <2>7. ~ (d[1] = Bucket1(t, g) /\ to[1] # Bucket1(t, g))
    BY <1>4, <1>8, <2>5
  <2>. QED  BY <2>2, <2>6, <2>7 DEF Before
<1>10. Writes(u, t, to, x)
  BY DEF x
<1>11. Sound(t, {to})
  OBVIOUS
<1>12. \A d \in LiveCells(t) \cap {from} : At(t, d) = x
  BY DEF x
<1>13. Sound(u, {from})
  <2>1. \A d \in Cell(t) \ {to} : At(t, d).hash = x.hash =>
           \/ d \in {from} /\ At(t, d) = x
           \/ At(t, d).chain = <<>> /\ ~ Before(t, x.hash, d, to)
    BY <1>9 DEF x
  <2>. QED  BY <1>1, <1>2, <1>4, <1>7, <1>8, <1>10, <1>11, <1>12, <2>1, StoreSound
<1>14. Contents(u, {from}) = Contents(t, {to})
  <2>1. Contents(u, {from}) = Contents(t, {to}) \cup {x}
    <3>1. to \in Cell(t) /\ to \notin {from} /\ x.chain # <<>>
      BY <1>1, <1>4, <1>7
    <3>2. PICK Y : Y = {from}
      OBVIOUS
    <3>3. to \notin Y /\ \A d \in LiveCells(t) \cap Y : At(t, d) = x
      BY <1>12, <3>1, <3>2
    <3>4. Contents(u, Y) = Contents(t, {to}) \cup {x}
      BY <1>10, <3>1, <3>3, StoredElsewhere
    <3>. QED  BY <3>2, <3>4
  <2>2. x \in Contents(t, {to})
    BY <1>6 DEF Contents, x
  <2>. QED  BY <2>1, <2>2
<1>15. /\ Cell(u) = Cell(t) /\ u.mask = t.mask
       /\ \A e : Bucket1(u, e) = Bucket1(t, e) /\ Bucket2(u, e) = Bucket2(t, e)
  BY <1>10, SameShape DEF Writes
<1>16. ASSUME NEW c \in Cell(t), c # to
       PROVE  u.bucket[c[1]][c[2]] = t.bucket[c[1]][c[2]]
  BY <1>10, <1>16 DEF Writes, At
<1>17. ASSUME NEW c \in Cell(t), c # to
       PROVE  OtherBucket(u, c[1], c[2]) = OtherBucket(t, c[1], c[2])
  BY <1>15, <1>16, <1>17 DEF OtherBucket
<1>18. ASSUME NEW b \in 0..t.mask, b # to[1], NEW s \in Slots
       PROVE  Live(u, b, s) = Live(t, b, s)
  <2>1. <<b, s>> \in Cell(t) /\ <<b, s>> # to
    BY <1>2, <1>18 DEF Cell
  <2>. QED  BY <1>16, <2>1 DEF Live
<1>19. PathOK(u, r, h)
  <2>1. /\ r \in Seq(Cell(t)) /\ Len(r) = k - 1 /\ Len(r) > 0
        /\ \A i \in 1..(k - 1) : r[i] = p[i]
    BY <1>0, <1>1 DEF LastMove
  <2>2. \A i \in 1..(k - 1) : i \in 1..k /\ p[i] \in Cell(t) /\ p[i] # to /\ p[i][1] # to[1]
    BY <1>0, <1>1, <1>21 DEF PathOK
  <2>3. r[1][1] \in {Bucket1(u, h), Bucket2(u, h)}
    BY <1>1, <1>15, <2>1 DEF PathOK
  <2>4. \A i \in 1..(k - 1) : OtherBucket(t, p[i][1], p[i][2]) = p[i + 1][1]
          /\ EmptySlots(t, p[i][1]) = {}
    BY <1>0 DEF PathOK
  <2>5. \A i \in 1..(k - 1) : EmptySlots(u, p[i][1]) = {}
    <3>1. ASSUME NEW i \in 1..(k - 1) PROVE EmptySlots(u, p[i][1]) = {}
      <4>1. p[i][1] \in 0..t.mask
        BY <1>2, <2>2, CellOf
      <4>. QED  BY <1>18, <2>2, <2>4, <4>1 DEF EmptySlots
    <3>. QED  BY <3>1
  <2>6. \A i \in 1..((k - 1) - 1) :
          /\ OtherBucket(u, r[i][1], r[i][2]) = r[i + 1][1]
          /\ EmptySlots(u, r[i][1]) = {}
    <3>1. \A i \in 1..((k - 1) - 1) : i \in 1..(k - 1) /\ i + 1 \in 1..(k - 1)
      BY <1>1
    <3>. QED  BY <1>17, <2>1, <2>2, <2>4, <2>5, <3>1
  <2>7. \A i, j \in 1..(k - 1) : r[i][1] = r[j][1] => i = j
    BY <1>0, <2>1, <2>2 DEF PathOK
  <2>8. \A s \in Slots : s < r[k - 1][2] => Live(u, r[k - 1][1], s)
    <3>1. r[k - 1] = from /\ EmptySlots(u, from[1]) = {}
      BY <1>1, <1>21, <2>1, <2>5
    <3>. QED  BY <3>1 DEF EmptySlots
  <2>. QED  BY <1>15, <2>1, <2>3, <2>6, <2>7, <2>8 DEF PathOK
<1>20. NoneWithHash(u, h)
  <2>1. g # h
    BY <1>6, <1>11, NoneContained DEF x
  <2>2. ASSUME NEW b \in {Bucket1(t, h), Bucket2(t, h)}, NEW s \in Slots
        PROVE  u.bucket[b][s].hash # h
    <3>1. b \in 0..t.mask
      BY <1>2, BucketsOf
    <3>2. <<b, s>> \in Cell(t)
      BY <3>1 DEF Cell
    <3>3. At(u, <<b, s>>) = IF <<b, s>> = to THEN x ELSE At(t, <<b, s>>)
      BY <1>10, <3>2 DEF Writes
    <3>4. t.bucket[b][s].hash # h
      BY DEF NoneWithHash, WithHash
    <3>. QED  BY <2>1, <3>3, <3>4 DEF At
  <2>. QED  BY <1>15, <2>2 DEF NoneWithHash, WithHash
<1>. QED  BY <1>13, <1>14, <1>19, <1>20

-----------------------------------------------------------------------------
(* Answers and contents *)

(* The contents S after the chain of h became q *)
Updated(S, h, q) ==
  {y \in S : y.hash # h} \cup (IF q = <<>> THEN {} ELSE {[hash |-> h, chain |-> q]})

LEMMA UpdatedFind ==
  ASSUME NEW t, NEW X, Sound(t, X), NEW u, NEW Y, Sound(u, Y), NEW h, NEW q,
         Contents(u, Y) = Updated(Contents(t, X), h, q), NEW g \in Hashes
  PROVE  Find(u, g) = IF g = h THEN q ELSE Find(t, g)
<1>1. CASE g # h
  <2>1. \A y : y.hash = g => (y \in Contents(u, Y) <=> y \in Contents(t, X))
    BY <1>1 DEF Updated
  <2>2. CASE Find(t, g) # <<>>
    <3>1. PICK y \in Contents(t, X) : y.hash = g /\ y.chain = Find(t, g)
      BY <2>2, FindHit
    <3>. QED  BY <1>1, <2>1, <3>1, FindContent
  <2>3. CASE Find(u, g) # <<>>
    <3>1. PICK y \in Contents(u, Y) : y.hash = g /\ y.chain = Find(u, g)
      BY <2>3, FindHit
    <3>. QED  BY <1>1, <2>1, <3>1, FindContent
  <2>. QED  BY <1>1, <2>2, <2>3
<1>2. CASE g = h
  <2>1. CASE q = <<>>
    <3>1. \A y \in Contents(u, Y) : y.hash # h
      BY <2>1 DEF Updated
    <3>2. ~ (Find(u, g) # <<>>)
      BY <1>2, <3>1, FindHit
    <3>. QED  BY <1>2, <2>1, <3>2
  <2>2. CASE q # <<>>
    <3>. DEFINE y == [hash |-> h, chain |-> q]
    <3>1. y \in Contents(u, Y) /\ y.hash = h /\ y.chain = q
      BY <2>2 DEF Updated
    <3>. HIDE DEF y
    <3>. QED  BY <1>2, <3>1, FindContent
  <2>. QED  BY <2>1, <2>2
<1>. QED  BY <1>1, <1>2

(* The nodes stored are those the searches find. *)
LEMMA StoredContents ==
  ASSUME NEW t, NEW X, Sound(t, X)
  PROVE  Stored(t) = UNION {ToSet(y.chain) : y \in Contents(t, X)}
<1>1. ASSUME NEW x \in Stored(t)
      PROVE  \E y \in Contents(t, X) : x \in ToSet(y.chain)
  <2>1. PICK b \in 0..t.mask, s \in Slots : x \in ToSet(t.bucket[b][s].chain)
    BY DEF Stored
  <2>2. <<b, s>> \in Cell(t) /\ x \in ToSet(At(t, <<b, s>>).chain)
    BY <2>1 DEF Cell, At
  <2>3. At(t, <<b, s>>).chain # <<>>
    BY <2>2 DEF ToSet
  <2>4. <<b, s>> \in LiveCells(t)
    BY <2>2, <2>3 DEF LiveCells
  <2>5. PICK c \in LiveCells(t) \ X : At(t, c) = At(t, <<b, s>>)
    BY <2>4 DEF Sound, Copied
  <2>. QED  BY <2>2, <2>5 DEF Contents
<1>2. ASSUME NEW y \in Contents(t, X), NEW x \in ToSet(y.chain)
      PROVE  x \in Stored(t)
  <2>1. PICK c \in LiveCells(t) : y = At(t, c)
    BY DEF Contents
  <2>2. c[1] \in 0..t.mask /\ c[2] \in Slots
    BY CellOf DEF LiveCells, Sound
  <2>. QED  BY <2>1, <2>2 DEF Stored, At
<1>. QED  BY <1>1, <1>2

LEMMA StoredFind ==
  ASSUME NEW t, NEW X, Sound(t, X)
  PROVE  Stored(t) = UNION {ToSet(Find(t, h)) : h \in Hashes}
<1>1. Stored(t) = UNION {ToSet(y.chain) : y \in Contents(t, X)}
  BY StoredContents
<1>2. ASSUME NEW y \in Contents(t, X)
      PROVE  y.hash \in Hashes /\ Find(t, y.hash) = y.chain
  BY FindContent
<1>3. ASSUME NEW h \in Hashes, NEW x \in ToSet(Find(t, h))
      PROVE  \E y \in Contents(t, X) : x \in ToSet(y.chain)
  <2>1. Find(t, h) # <<>>
    BY <1>3 DEF ToSet
  <2>. QED  BY <1>3, <2>1, FindHit
<1>. QED  BY <1>1, <1>2, <1>3

(* A node is on the chain of its hash and nowhere else. *)
LEMMA OnItsChain ==
  ASSUME NEW t, NEW X, Sound(t, X), NEW h \in Hashes
  PROVE  /\ Find(t, h) \in Seq(Nodes)
         /\ \A i \in DOMAIN Find(t, h) : NodeHash[Find(t, h)[i]] = h
         /\ \A i, j \in DOMAIN Find(t, h) : Find(t, h)[i] = Find(t, h)[j] => i = j
         /\ \A x \in Nodes : x \in ToSet(Find(t, h)) <=> x \in Stored(t) /\ NodeHash[x] = h
<1>1. ASSUME NEW g \in Hashes, Find(t, g) # <<>>
      PROVE  /\ Find(t, g) \in Seq(Nodes)
             /\ \A i \in DOMAIN Find(t, g) : NodeHash[Find(t, g)[i]] = g
             /\ \A i, j \in DOMAIN Find(t, g) : Find(t, g)[i] = Find(t, g)[j] => i = j
  <2>1. PICK y \in Contents(t, X) : y.hash = g /\ y.chain = Find(t, g)
    BY <1>1, FindHit
  <2>2. y \in Slot
    BY <2>1, FindContent
  <2>3. /\ \A i \in DOMAIN y.chain : NodeHash[y.chain[i]] = y.hash
        /\ \A i, j \in DOMAIN y.chain : y.chain[i] = y.chain[j] => i = j
    BY <2>1, FindContent
  <2>. QED  BY <2>1, <2>2, <2>3 DEF Slot
<1>2. \A g \in Hashes : \A x \in ToSet(Find(t, g)) : NodeHash[x] = g
  BY <1>1 DEF ToSet
<1>3. Find(t, h) = <<>> => Find(t, h) \in Seq(Nodes)
  OBVIOUS
<1>4. \A x \in Nodes : x \in ToSet(Find(t, h)) <=> x \in Stored(t) /\ NodeHash[x] = h
  BY <1>2, StoredFind
<1>5. /\ \A i \in DOMAIN Find(t, h) : NodeHash[Find(t, h)[i]] = h
      /\ \A i, j \in DOMAIN Find(t, h) : Find(t, h)[i] = Find(t, h)[j] => i = j
  <2>1. CASE Find(t, h) # <<>>
    BY <1>1, <2>1
  <2>2. CASE Find(t, h) = <<>>
    BY <2>2
  <2>. QED  BY <2>1, <2>2
<1>. QED  BY <1>1, <1>3, <1>4, <1>5

LEMMA StoredNodes ==
  ASSUME NEW t, NEW X, Sound(t, X)
  PROVE  Stored(t) \subseteq Nodes
<1>1. ASSUME NEW h \in Hashes, NEW x \in ToSet(Find(t, h)) PROVE x \in Nodes
  <2>1. Find(t, h) \in Seq(Nodes)
    BY OnItsChain
  <2>. QED  BY <2>1 DEF ToSet
<1>. QED  BY <1>1, StoredFind

-----------------------------------------------------------------------------
(* The count of a table, a new table *)

LEMMA CountedSound ==
  ASSUME NEW t, NEW X, Sound(t, X), NEW n \in Nat, NEW u, u = [t EXCEPT !.n = n]
  PROVE  /\ Sound(u, X) /\ Contents(u, X) = Contents(t, X)
         /\ u.mask = t.mask /\ u.n = n
<1>1. IsTable(t)
  BY DEF Sound
<1>2. /\ DOMAIN u = {"mask", "basis", "n", "bucket"}
      /\ u.mask = t.mask /\ u.basis = t.basis /\ u.n = n /\ u.bucket = t.bucket
  BY <1>1 DEF IsTable
<1>3. IsTable(u)
  BY <1>1, <1>2 DEF IsTable
<1>4. \A d : At(u, d) = At(t, d)
  BY <1>2 DEF At
<1>5. /\ Cell(u) = Cell(t)
      /\ \A h : Bucket1(u, h) = Bucket1(t, h) /\ Bucket2(u, h) = Bucket2(t, h)
      /\ \A h, d, c : Before(u, h, d, c) <=> Before(t, h, d, c)
  BY <1>2, SameShape
<1>6. LiveCells(u) = LiveCells(t)
  BY <1>4, <1>5 DEF LiveCells
<1>7. \A c : InHome(u, c) <=> InHome(t, c)
  BY <1>4, <1>5 DEF InHome
<1>8. FoundFirst(u, X)
  <2>1. FoundFirst(t, X)
    BY DEF Sound
  <2>. QED  BY <1>4, <1>5, <1>6, <2>1 DEF FoundFirst
<1>9. Copied(u, X)
  <2>1. Copied(t, X)
    BY DEF Sound
  <2>. QED  BY <1>4, <1>6, <2>1 DEF Copied
<1>10. Contents(u, X) = Contents(t, X)
  BY <1>4, <1>6 DEF Contents
<1>. QED  BY <1>2, <1>3, <1>6, <1>7, <1>8, <1>9, <1>10 DEF Sound

LEMMA NewTable ==
  ASSUME NEW m \in Nat, NEW basis \in Bases, NEW t, t = ImplCreate(m, basis)
  PROVE  /\ Sound(t, {}) /\ Contents(t, {}) = {}
         /\ t.mask = m /\ t.n = 0
<1>1. NoItem \in Slot /\ NoItem.chain = <<>>
  BY DEF NoItem, Slot
<1>2. /\ DOMAIN t = {"mask", "basis", "n", "bucket"}
      /\ t.mask = m /\ t.basis = basis /\ t.n = 0
      /\ t.bucket = [b \in 0..m |-> [s \in Slots |-> NoItem]]
  BY DEF ImplCreate
<1>. HIDE DEF NoItem
<1>3. IsTable(t)
  BY <1>1, <1>2 DEF IsTable
<1>4. LiveCells(t) = {}
  <2>1. ASSUME NEW c \in Cell(t) PROVE At(t, c).chain = <<>>
    <3>1. c[1] \in 0..m /\ c[2] \in Slots
      BY <1>2 DEF Cell
    <3>. QED  BY <1>1, <1>2, <3>1 DEF At
  <2>. QED  BY <2>1 DEF LiveCells
<1>. QED  BY <1>2, <1>3, <1>4 DEF Sound, FoundFirst, Copied, Contents

LEMMA NotNoTable ==
  ASSUME NEW t, IsTable(t)
  PROVE  t # NoTable
<1>1. t.mask \in Nat /\ NoTable.mask = -1
  BY DEF IsTable, NoTable
<1>. QED  BY <1>1

-----------------------------------------------------------------------------
(* The slots of the old table in the order cmap_try_rehash takes them *)

(* Number(c): the place of the cell c in that order; ContentsTo(t, p): the *)
(* chains of the first p slots.                                            *)
Number(c) == c[1] * K + c[2] - 1
ContentsTo(t, p) == {At(t, c) : c \in {e \in LiveCells(t) : Number(e) < p}}
Numbered(p) == <<p \div K, (p % K) + 1>>

LEMMA OneQuotient ==
  ASSUME NEW a \in Nat, NEW b \in Nat, NEW i \in 0..(K - 1), NEW j \in 0..(K - 1),
         a * K + i = b * K + j
  PROVE  a = b /\ i = j
BY CmapAssumption

LEMMA NumberOf ==
  ASSUME NEW t, IsTable(t), NEW c \in Cell(t)
  PROVE  /\ Number(c) \in Nat /\ Number(c) < (t.mask + 1) * K
         /\ \A d \in Cell(t) : Number(c) = Number(d) => c = d
<1>1. c = <<c[1], c[2]>> /\ c[1] \in 0..t.mask /\ c[2] \in 1..K
  BY CellOf DEF Slots
<1>2. t.mask \in Nat /\ K \in Nat \ {0}
  BY CmapAssumption DEF IsTable
<1>3. Number(c) = c[1] * K + (c[2] - 1) /\ c[1] * K \in Nat
  BY <1>1, <1>2 DEF Number
<1>4. Number(c) < (t.mask + 1) * K
  <2>1. (c[1] + 1) * K <= (t.mask + 1) * K
    BY <1>1, <1>2
  <2>2. (c[1] + 1) * K = c[1] * K + K /\ (t.mask + 1) * K \in Nat
    BY <1>1, <1>2
  <2>. QED  BY <1>1, <1>2, <1>3, <2>1, <2>2
<1>5. ASSUME NEW d \in Cell(t), Number(c) = Number(d) PROVE c = d
  <2>1. d = <<d[1], d[2]>> /\ d[1] \in 0..t.mask /\ d[2] \in 1..K
    BY CellOf DEF Slots
  <2>2. c[1] * K + (c[2] - 1) = d[1] * K + (d[2] - 1)
    BY <1>1, <1>2, <1>5, <2>1 DEF Number
  <2>3. c[1] = d[1] /\ c[2] - 1 = d[2] - 1
    <3>1. c[1] \in Nat /\ d[1] \in Nat
      BY <1>1, <1>2, <2>1
    <3>2. c[2] - 1 \in 0..(K - 1) /\ d[2] - 1 \in 0..(K - 1)
      BY <1>1, <1>2, <2>1
    <3>. QED  BY <2>2, <3>1, <3>2, OneQuotient
  <2>. QED  BY <1>1, <2>1, <2>3
<1>. QED  BY <1>1, <1>2, <1>3, <1>4, <1>5

LEMMA NumberedCell ==
  ASSUME NEW t, IsTable(t), NEW p \in Nat, p < (t.mask + 1) * K
  PROVE  /\ Numbered(p) \in Cell(t) /\ Number(Numbered(p)) = p
         /\ At(t, Numbered(p)) = t.bucket[p \div K][(p % K) + 1]
<1>1. t.mask \in Nat /\ K \in Nat \ {0}
  BY CmapAssumption DEF IsTable
<1>2. p % K \in 0..(K - 1) /\ p \div K \in Nat /\ p = K * (p \div K) + (p % K)
  BY <1>1
<1>. PICK q \in Nat, r \in 0..(K - 1) : q = p \div K /\ r = p % K
  BY <1>2
<1>3. p = K * q + r /\ p = q * K + r
  BY <1>1, <1>2
<1>4. q <= t.mask
  BY <1>1, <1>3
<1>5. Numbered(p) = <<q, r + 1>>
  BY DEF Numbered
<1>6. Numbered(p) \in Cell(t)
  BY <1>1, <1>4, <1>5 DEF Cell, Slots
<1>7. Number(Numbered(p)) = p
  <2>1. Number(Numbered(p)) = q * K + (r + 1) - 1
    BY <1>5 DEF Number
  <2>2. q * K \in Nat
    BY <1>1
  <2>. QED  BY <1>3, <2>1, <2>2
<1>. QED  BY <1>6, <1>7 DEF At, Numbered

LEMMA ContentsFrom ==
  ASSUME NEW t, IsTable(t)
  PROVE  /\ ContentsTo(t, 0) = {}
         /\ ContentsTo(t, (t.mask + 1) * K) = Contents(t, {})
<1>1. \A c \in LiveCells(t) : Number(c) \in Nat /\ Number(c) < (t.mask + 1) * K
  BY NumberOf DEF LiveCells
<1>2. \A c \in LiveCells(t) : ~ (Number(c) < 0)
  BY <1>1
<1>. QED  BY <1>1, <1>2 DEF ContentsTo, Contents

LEMMA ContentsNext ==
  ASSUME NEW t, Sound(t, {}), NEW p \in Nat, p < (t.mask + 1) * K, NEW x, x = At(t, Numbered(p))
  PROVE  /\ x.chain = <<>> => ContentsTo(t, p + 1) = ContentsTo(t, p)
         /\ x.chain # <<>> =>
              /\ ContentsTo(t, p + 1) = ContentsTo(t, p) \cup {x}
              /\ Numbered(p) \in LiveCells(t)
              /\ \A y \in ContentsTo(t, p) : y.hash # x.hash
<1>. PICK c : c = Numbered(p)
  OBVIOUS
<1>1. IsTable(t) /\ c \in Cell(t) /\ Number(c) = p
  BY NumberedCell DEF Sound
<1>2. \A d \in LiveCells(t) : d \in Cell(t) /\ Number(d) \in Nat
  BY <1>1, NumberOf DEF LiveCells
<1>3. \A d \in LiveCells(t) : Number(d) < p + 1 <=> Number(d) < p \/ d = c
  <2>1. ASSUME NEW d \in LiveCells(t) PROVE Number(d) < p + 1 <=> Number(d) < p \/ d = c
    <3>1. Number(d) = p <=> d = c
      BY <1>1, <1>2, NumberOf
    <3>. QED  BY <1>2, <3>1
  <2>. QED  BY <2>1
<1>4. CASE x.chain = <<>>
  <2>1. c \notin LiveCells(t)
    BY <1>4 DEF LiveCells
  <2>. QED  BY <1>3, <1>4, <2>1 DEF ContentsTo
<1>5. CASE x.chain # <<>>
  <2>1. c \in LiveCells(t)
    BY <1>1, <1>5 DEF LiveCells
  <2>2. ContentsTo(t, p + 1) = ContentsTo(t, p) \cup {x}
    BY <1>3, <2>1 DEF ContentsTo
  <2>3. ASSUME NEW d \in LiveCells(t), Number(d) < p PROVE At(t, d).hash # x.hash
    <3>1. d # c
      BY <1>1, <2>3
    <3>. QED  BY <2>1, <3>1, OneLive
  <2>. QED  BY <1>5, <2>1, <2>2, <2>3 DEF ContentsTo
<1>. QED  BY <1>4, <1>5

-----------------------------------------------------------------------------
(* The chains of cmap_replace__ *)

LEMMA OnceIn ==
  ASSUME NEW s \in Seq(Nodes), NEW x, x \in ToSet(s),
         \A i, j \in DOMAIN s : s[i] = s[j] => i = j
  PROVE  \E k \in 1..Len(s) : /\ s[k] = x /\ \A i \in 1..Len(s) : s[i] = x => i = k
                              /\ RemoveFirst(s, x) = SubSeq(s, 1, k - 1) \o SubSeq(s, k + 1, Len(s))
<1>1. DOMAIN s = 1..Len(s) /\ Len(s) \in Nat
  OBVIOUS
<1>2. PICK k \in 1..Len(s) : s[k] = x
  BY <1>1 DEF ToSet
<1>3. \A i \in 1..Len(s) : s[i] = x => i = k
  BY <1>1, <1>2
<1>4. {i \in 1..Len(s) : s[i] = x} = {k}
  BY <1>2, <1>3
<1>5. Min({k}) = k
  BY <1>1 DEF Min
<1>6. SelectInSeq(s, LAMBDA v : v = x) = k
  BY <1>4, <1>5 DEF SelectInSeq
<1>7. RemoveFirst(s, x) = RemoveAt(s, SelectInSeq(s, LAMBDA v : v = x))
  BY <1>2 DEF RemoveFirst
<1>. QED  BY <1>2, <1>3, <1>6, <1>7 DEF RemoveAt

Joined(r, p, q, k, n) ==
  /\ r \in Seq(Nodes) /\ Len(r) = n /\ DOMAIN r = 1..n
  /\ \A i \in 1..n : r[i] = IF i <= k THEN p[i] ELSE q[i - k]

LEMMA JoinedAt ==
  ASSUME NEW p \in Seq(Nodes), NEW q \in Seq(Nodes), NEW k, Len(p) = k,
         NEW n, k + Len(q) = n
  PROVE  Joined(p \o q, p, q, k, n)
BY DEF Joined

LEMMA RemovedFirst ==
  ASSUME NEW s \in Seq(Nodes), NEW x, x \in ToSet(s),
         \A i, j \in DOMAIN s : s[i] = s[j] => i = j,
         NEW r, r = RemoveFirst(s, x)
  PROVE  /\ r \in Seq(Nodes)
         /\ \A i \in DOMAIN r : r[i] \in ToSet(s)
         /\ \A i, j \in DOMAIN r : r[i] = r[j] => i = j
         /\ ToSet(r) = ToSet(s) \ {x}
<1>. PICK n \in Nat : n = Len(s) /\ DOMAIN s = 1..n
  OBVIOUS
<1>1. PICK k \in 1..n : /\ s[k] = x /\ \A i \in 1..n : s[i] = x => i = k
                        /\ r = SubSeq(s, 1, k - 1) \o SubSeq(s, k + 1, n)
  BY OnceIn
<1>2. /\ SubSeq(s, 1, k - 1) \in Seq(Nodes) /\ Len(SubSeq(s, 1, k - 1)) = k - 1
      /\ \A i \in 1..(k - 1) : SubSeq(s, 1, k - 1)[i] = s[i]
  OBVIOUS
<1>3. /\ SubSeq(s, k + 1, n) \in Seq(Nodes) /\ Len(SubSeq(s, k + 1, n)) = n - k
      /\ \A i \in 1..(n - k) : SubSeq(s, k + 1, n)[i] = s[i + k]
  OBVIOUS
<1>0. PICK p \in Seq(Nodes), q \in Seq(Nodes) :
       p = SubSeq(s, 1, k - 1) /\ q = SubSeq(s, k + 1, n)
  BY <1>2, <1>3
<1>4. /\ r \in Seq(Nodes) /\ Len(r) = n - 1 /\ DOMAIN r = 1..(n - 1)
      /\ \A i \in 1..(n - 1) : r[i] = IF i < k THEN s[i] ELSE s[i + 1]
  <2>1. r = p \o q
    BY <1>0, <1>1
  <2>2. Len(p) = k - 1 /\ Len(q) = n - k /\ k - 1 \in Nat /\ n - k \in Nat
    BY <1>0, <1>2, <1>3
  <2>0. PICK a \in Nat, m \in Nat : a = k - 1 /\ m = n - 1
    <3>1. k - 1 \in Nat /\ n - 1 \in Nat
      OBVIOUS
    <3>. QED  BY <3>1, Zenon
  <2>5. Len(p) = a /\ a + Len(q) = m
    BY <2>0, <2>2
  <2>6. Joined(p \o q, p, q, a, m)
    BY <2>5, JoinedAt
  <2>3. /\ r \in Seq(Nodes) /\ Len(r) = n - 1 /\ DOMAIN r = 1..(n - 1)
        /\ \A i \in 1..(n - 1) : r[i] = IF i <= k - 1 THEN p[i] ELSE q[i - (k - 1)]
    BY <2>0, <2>1, <2>6 DEF Joined
  <2>4. ASSUME NEW i \in 1..(n - 1) PROVE r[i] = IF i < k THEN s[i] ELSE s[i + 1]
    <3>1. CASE i < k
      BY <1>0, <1>2, <2>3, <3>1
    <3>2. CASE ~ (i < k)
      <4>1. i - (k - 1) \in 1..(n - k) /\ (i - (k - 1)) + k = i + 1
        BY <3>2
      <4>2. r[i] = q[i - (k - 1)]
        BY <2>3, <3>2
      <4>. QED  BY <1>0, <1>3, <3>2, <4>1, <4>2
    <3>. QED  BY <3>1, <3>2
  <2>. QED  BY <2>3, <2>4
<1>. DEFINE at(i) == IF i < k THEN i ELSE i + 1
<1>5. \A i \in 1..(n - 1) : at(i) \in 1..n /\ at(i) # k /\ r[i] = s[at(i)]
  BY <1>4
<1>6. \A i, j \in 1..(n - 1) : at(i) = at(j) => i = j
  OBVIOUS
<1>7. \A m \in 1..n : m # k => \E i \in 1..(n - 1) : at(i) = m
  <2>1. ASSUME NEW m \in 1..n, m # k PROVE \E i \in 1..(n - 1) : at(i) = m
    <3>1. CASE m < k
      <4>1. m \in 1..(n - 1) /\ at(m) = m
        BY <3>1
      <4>. QED  BY <4>1
    <3>2. CASE k < m
      <4>1. m - 1 \in 1..(n - 1) /\ at(m - 1) = m
        BY <3>2
      <4>. QED  BY <4>1
    <3>. QED  BY <2>1, <3>1, <3>2
  <2>. QED  BY <2>1
<1>. HIDE DEF at
<1>8. ASSUME NEW i \in DOMAIN r, NEW j \in DOMAIN r, r[i] = r[j] PROVE i = j
  <2>1. at(i) \in 1..n /\ at(j) \in 1..n /\ s[at(i)] = s[at(j)]
    BY <1>4, <1>5, <1>8
  <2>2. at(i) = at(j)
    BY <2>1
  <2>. QED  BY <1>4, <1>6, <2>2
<1>9. \A i \in DOMAIN r : r[i] \in ToSet(s) /\ r[i] # x
  BY ZenonT(40), <1>1, <1>4, <1>5 DEF ToSet
<1>10. ASSUME NEW y \in ToSet(s), y # x PROVE y \in ToSet(r)
  <2>1. PICK m \in 1..n : y = s[m] /\ m # k
    BY <1>1, <1>10 DEF ToSet
  <2>2. PICK i \in 1..(n - 1) : at(i) = m
    BY <1>7, <2>1
  <2>. QED  BY <1>4, <1>5, <2>1, <2>2 DEF ToSet
<1>11. ToSet(r) = ToSet(s) \ {x}
  <2>1. \A y \in ToSet(r) : y \in ToSet(s) \ {x}
    <3>1. ToSet(r) = {r[i] : i \in DOMAIN r}
      BY DEF ToSet
    <3>. QED  BY <1>9, <3>1
  <2>. QED  BY <1>10, <2>1
<1>. QED  BY <1>4, <1>8, <1>9, <1>11

LEMMA ReplacedAll ==
  ASSUME NEW s \in Seq(Nodes), NEW x, x \in ToSet(s), NEW y \in Nodes, y \notin ToSet(s),
         \A i, j \in DOMAIN s : s[i] = s[j] => i = j,
         NEW r, r = ReplaceAll(s, x, y)
  PROVE  /\ r \in Seq(Nodes) /\ r # <<>>
         /\ \A i \in DOMAIN r : r[i] \in ToSet(s) \cup {y}
         /\ \A i, j \in DOMAIN r : r[i] = r[j] => i = j
         /\ ToSet(r) = (ToSet(s) \ {x}) \cup {y}
<1>. PICK n \in Nat : n = Len(s) /\ DOMAIN s = 1..n
  OBVIOUS
<1>1. r = [i \in 1..n |-> IF s[i] = x THEN y ELSE s[i]]
  BY DEF ReplaceAll
<1>2. \A i \in 1..n : s[i] \in Nodes /\ s[i] \in ToSet(s) /\ s[i] # y
  BY DEF ToSet
<1>3. r \in Seq(Nodes) /\ Len(r) = n /\ DOMAIN r = 1..n
      /\ \A i \in 1..n : r[i] = IF s[i] = x THEN y ELSE s[i]
  BY <1>1, <1>2
<1>4. PICK k \in 1..n : s[k] = x
  BY DEF ToSet
<1>5. n > 0
  BY <1>4
<1>6. \A i, j \in DOMAIN r : r[i] = r[j] => i = j
  BY <1>2, <1>3
<1>7. \A i \in DOMAIN r : r[i] \in (ToSet(s) \ {x}) \cup {y}
  BY <1>2, <1>3
<1>8. r[k] = y /\ k \in DOMAIN r
  BY <1>3, <1>4
<1>9. ASSUME NEW z \in ToSet(s), z # x PROVE z \in ToSet(r)
  <2>1. PICK i \in 1..n : z = s[i]
    BY DEF ToSet
  <2>. QED  BY <1>3, <1>9, <2>1 DEF ToSet
<1>10. ToSet(r) = (ToSet(s) \ {x}) \cup {y}
  BY <1>7, <1>8, <1>9 DEF ToSet
<1>11. r # <<>>
  BY <1>3, <1>5
<1>. QED  BY <1>3, <1>6, <1>7, <1>10, <1>11

-----------------------------------------------------------------------------
(* cmap_replace__ *)

(* The slot it finds *)
ReplacedBucket(t, h) ==
  IF LiveWithHash(t, Bucket1(t, h), h) # {} THEN Bucket1(t, h) ELSE Bucket2(t, h)
ReplacedSlot(t, h) == First(LiveWithHash(t, ReplacedBucket(t, h), h))
ReplacedTable(t, h, r) ==
  [t EXCEPT !.bucket[ReplacedBucket(t, h)][ReplacedSlot(t, h)].chain = r]

LEMMA ReplacedCell ==
  ASSUME NEW t, Sound(t, {}), NEW h \in Hashes, Find(t, h) # <<>>,
         NEW b, b = ReplacedBucket(t, h), NEW s, s = ReplacedSlot(t, h),
         NEW c, c = <<b, s>>
  PROVE  /\ b \in 0..t.mask /\ s \in Slots
         /\ c \in LiveCells(t)
         /\ At(t, c).hash = h /\ At(t, c).chain = Find(t, h)
         /\ t.bucket[b][s] = At(t, c)
<1>1. PICK y \in Contents(t, {}) : y.hash = h
  BY FindHit
<1>2. PICK d \in LiveCells(t) : y = At(t, d)
  BY DEF Contents
<1>3. d \in Cell(t) /\ InHome(t, d) /\ d[1] \in {Bucket1(t, h), Bucket2(t, h)}
      /\ d[2] \in Slots /\ IsTable(t)
  BY <1>1, <1>2, CellOf DEF Sound, LiveCells, InHome
<1>4. d[2] \in LiveWithHash(t, d[1], h)
  BY <1>1, <1>2, <1>3 DEF LiveWithHash, WithHash, Live, At, LiveCells
<1>5. LiveWithHash(t, b, h) # {} /\ b \in {Bucket1(t, h), Bucket2(t, h)}
  BY <1>3, <1>4 DEF ReplacedBucket
<1>6. s \in LiveWithHash(t, b, h)
  BY <1>5, FirstSlot DEF ReplacedSlot, LiveWithHash, WithHash
<1>7. b \in 0..t.mask /\ s \in Slots /\ c \in Cell(t)
  BY <1>3, <1>5, <1>6, BucketsOf DEF LiveWithHash, WithHash, Cell
<1>8. t.bucket[b][s] = At(t, c)
  BY DEF At
<1>9. c \in LiveCells(t) /\ At(t, c).hash = h
  BY <1>6, <1>7, <1>8 DEF LiveWithHash, WithHash, Live, LiveCells
<1>. QED  BY <1>7, <1>8, <1>9, FindLive

(* The slot gets the chain r, which may be empty. *)
LEMMA ReplacedStored ==
  ASSUME NEW t, Sound(t, {}), NEW h, NEW c \in LiveCells(t), At(t, c).hash = h,
         NEW y \in Slot, y.hash = h,
         \A i \in DOMAIN y.chain : NodeHash[y.chain[i]] = h,
         \A i, j \in DOMAIN y.chain : y.chain[i] = y.chain[j] => i = j,
         NEW u, Writes(u, t, c, y)
  PROVE  Sound(u, {}) /\ Contents(u, {}) = Updated(Contents(t, {}), h, y.chain)
<1>1. IsTable(t) /\ h \in Hashes
  BY LiveHash DEF Sound
<1>2. CASE y.chain = <<>>
  <2>1. Sound(u, {}) /\ Contents(u, {}) = Contents(t, {c})
    BY <1>2, EmptiedSound
  <2>2. /\ Contents(t, {c}) = Contents(t, {}) \ {At(t, c)}
        /\ \A x \in Contents(t, {c}) : x.hash # h
    BY ContentsBut
  <2>. QED  BY <1>2, <2>1, <2>2 DEF Updated
<1>3. CASE y.chain # <<>>
  <2>1. OneChainOf(y)
    BY <1>1, <1>3 DEF OneChainOf
  <2>2. ChainCell(t, y.hash, c)
    BY LiveChainCell
  <2>3. Sound(u, {}) /\ Contents(u, {}) = {z \in Contents(t, {}) : z.hash # h} \cup {y}
    BY <2>1, <2>2, ChainStored
  <2>4. y = [hash |-> h, chain |-> y.chain]
    BY DEF Slot
  <2>. QED  BY <1>3, <2>3, <2>4 DEF Updated
<1>. QED  BY <1>2, <1>3

LEMMA ReplacedSound ==
  ASSUME NEW t, Sound(t, {}), NEW h \in Hashes, Find(t, h) # <<>>,
         NEW r \in Seq(Nodes),
         \A i \in DOMAIN r : NodeHash[r[i]] = h,
         \A i, j \in DOMAIN r : r[i] = r[j] => i = j,
         NEW u, u = ReplacedTable(t, h, r)
  PROVE  /\ Sound(u, {}) /\ Contents(u, {}) = Updated(Contents(t, {}), h, r)
         /\ u.mask = t.mask /\ u.n = t.n
<1>0. PICK b, s, c : b = ReplacedBucket(t, h) /\ s = ReplacedSlot(t, h) /\ c = <<b, s>>
  OBVIOUS
<1>1. /\ b \in 0..t.mask /\ s \in Slots /\ c \in LiveCells(t)
      /\ At(t, c).hash = h /\ At(t, c).chain = Find(t, h) /\ t.bucket[b][s] = At(t, c)
  BY <1>0, ReplacedCell
<1>2. IsTable(t) /\ c \in Cell(t) /\ At(t, c) \in Slot
  BY <1>1, CellOf DEF Sound, LiveCells
<1>3. PICK y : y = [At(t, c) EXCEPT !.chain = r]
  OBVIOUS
<1>4. y \in Slot /\ y.hash = h /\ y.chain = r
  BY <1>1, <1>2, <1>3 DEF Slot
<1>5. u = SetSlot(t, b, s, y)
  <2>1. u = [t EXCEPT !.bucket[b][s] = [t.bucket[b][s] EXCEPT !.chain = r]]
    BY <1>0 DEF ReplacedTable
  <2>. QED  BY <1>1, <1>3, <2>1 DEF SetSlot
<1>6. /\ Writes(SetSlot(t, b, s, y), t, <<b, s>>, y)
      /\ SetSlot(t, b, s, y).n = t.n
  BY <1>1, <1>2, <1>4, SetSlotWrites
<1>7. Writes(u, t, c, y) /\ u.n = t.n /\ u.mask = t.mask
  BY <1>0, <1>5, <1>6 DEF Writes
<1>8. Sound(u, {}) /\ Contents(u, {}) = Updated(Contents(t, {}), h, y.chain)
  BY <1>1, <1>4, <1>7, ReplacedStored
<1>. QED  BY <1>4, <1>7, <1>8

-----------------------------------------------------------------------------
(* The invariant *)

(* What is placed is the next slot of the old table, or the new node. *)
Pending ==
  pc \in {"place", "shift"} =>
    /\ item.chain # <<>>
    /\ Rehashing => pos < (impl.mask + 1) * K /\ item = At(impl, Numbered(pos))
    /\ ~ Rehashing => call \in Nodes /\ item = [hash |-> NodeHash[call], chain |-> <<call>>]

(* What each program counter of the writer stands for; a path is there     *)
(* only between the moves of cmap_insert_bfs, and leads into full buckets  *)
(* neither of which has the hash of the item.                              *)
Phases ==
  /\ pc = "copy" => Rehashing
  /\ pc = "idle" => ~ Rehashing /\ call = NoNode
  /\ pc # "shift" => path = <<>>
  /\ pc = "shift" => PathOK(Target, path, item.hash) /\ NoneWithHash(Target, item.hash)

(* The published table is sound at every step, and a table under           *)
(* construction has exactly the chains of the slots dealt with.            *)
TablesSound ==
  /\ Sound(Target, Moved)
  /\ Rehashing => Sound(impl, {}) /\ Contents(neww, Moved) = ContentsTo(impl, pos)

(* The count is that of the nodes stored; a node being inserted is not yet *)
(* one of them.                                                            *)
NodesCounted ==
  /\ IsFiniteSet(Stored(impl)) /\ impl.n = Cardinality(Stored(impl))
  /\ call # NoNode => call \notin Stored(impl)

Inv == TypeOK /\ Pending /\ Phases /\ TablesSound /\ NodesCounted

LEMMA TargetOf ==
  ASSUME Inv
  PROVE  /\ Rehashing => Target = neww /\ IsTable(neww)
         /\ ~ Rehashing => Target = impl /\ neww = NoTable
         /\ Sound(impl, IF Rehashing THEN {} ELSE Moved) /\ Sound(Target, Moved)
         /\ IsTable(impl) /\ IsTable(Target)
         /\ impl.mask \in Nat /\ Target.mask \in Nat
         /\ (impl.mask + 1) * K \in Nat /\ pos \in Nat
<1>1. IsTable(impl) /\ IsTable(Target) /\ impl.mask \in Nat /\ Target.mask \in Nat
  BY DEF Inv, TypeOK, Target, Rehashing, IsTable
<1>2. (impl.mask + 1) * K \in Nat
  BY <1>1, CmapAssumption
<1>. QED  BY <1>1, <1>2 DEF Inv, TypeOK, TablesSound, Target, Rehashing

LEMMA MovedOf ==
  ASSUME Inv, pc # "shift"
  PROVE  path = <<>> /\ Moved = {}
<1>1. path = <<>>
  BY DEF Inv, Phases
<1>. QED  BY <1>1 DEF Moved

LEMMA ItemOf ==
  ASSUME Inv, pc \in {"place", "shift"}
  PROVE  /\ OneChainOf(item)
         /\ \A i \in DOMAIN item.chain, j \in DOMAIN Find(Target, item.hash) :
              item.chain[i] # Find(Target, item.hash)[j]
         /\ Rehashing =>
              /\ Find(Target, item.hash) = <<>>
              /\ ContentsTo(impl, pos + 1) = ContentsTo(impl, pos) \cup {item}
              /\ \A y \in ContentsTo(impl, pos) : y.hash # item.hash
<1>1. CASE Rehashing
  <2>1. /\ Sound(impl, {}) /\ pos \in Nat /\ pos < (impl.mask + 1) * K
        /\ item = At(impl, Numbered(pos)) /\ item.chain # <<>>
        /\ Contents(Target, Moved) = ContentsTo(impl, pos) /\ Sound(Target, Moved)
    BY <1>1, TargetOf DEF Inv, Pending, TablesSound
  <2>2. /\ ContentsTo(impl, pos + 1) = ContentsTo(impl, pos) \cup {item}
        /\ Numbered(pos) \in LiveCells(impl)
        /\ \A y \in ContentsTo(impl, pos) : y.hash # item.hash
    BY <2>1, ContentsNext
  <2>3. item \in Contents(impl, {})
    BY <2>1, <2>2 DEF Contents
  <2>4. OneChainOf(item)
    BY <2>1, <2>3, FindContent DEF OneChainOf
  <2>5. Find(Target, item.hash) = <<>>
    <3>1. item.hash \in Hashes
      BY <2>4 DEF OneChainOf
    <3>. QED  BY <2>1, <2>2, <3>1, FindHit
  <2>6. DOMAIN Find(Target, item.hash) = {}
    BY <2>5
  <2>. QED  BY <2>2, <2>4, <2>5, <2>6
<1>2. CASE ~ Rehashing
  <2>1. /\ call \in Nodes /\ item = [hash |-> NodeHash[call], chain |-> <<call>>]
        /\ Target = impl /\ Sound(impl, Moved) /\ call \notin Stored(impl)
    BY <1>2, TargetOf, CmapAssumption DEF Inv, Pending, NodesCounted
  <2>2. NodeHash[call] \in Hashes
    BY <2>1, CmapAssumption
  <2>3. item.hash = NodeHash[call] /\ item.chain = <<call>> /\ item \in Slot
    BY <2>1, <2>2 DEF Slot
  <2>4. OneChainOf(item)
    BY <2>2, <2>3 DEF OneChainOf
  <2>5. call \notin ToSet(Find(impl, NodeHash[call]))
    BY <2>1, <2>2, StoredFind
  <2>6. \A j \in DOMAIN Find(impl, NodeHash[call]) : Find(impl, NodeHash[call])[j] # call
    BY <2>5 DEF ToSet
  <2>7. \A i \in DOMAIN item.chain : item.chain[i] = call
    BY <2>3
  <2>. QED  BY <1>2, <2>1, <2>3, <2>4, <2>6, <2>7
<1>. QED  BY <1>1, <1>2

-----------------------------------------------------------------------------
(* The steps of the multimap *)

Answers == [h \in Hashes |-> Find(impl, h)]
MultimapStep == Multimap!Next \/ Answers' = Answers

LEMMA AnswersSame ==
  ASSUME NEW t, NEW X, Sound(t, X), NEW u, NEW Y, Sound(u, Y),
         Contents(u, Y) = Contents(t, X)
  PROVE  /\ [h \in Hashes |-> Find(u, h)] = [h \in Hashes |-> Find(t, h)]
         /\ Stored(u) = Stored(t)
<1>1. \A h \in Hashes : Find(u, h) = Find(t, h)
  BY SameContents
<1>2. Stored(u) = Stored(t)
  BY StoredContents
<1>. QED  BY <1>1, <1>2

LEMMA AnswersUpdated ==
  ASSUME NEW t, NEW X, Sound(t, X), NEW u, NEW Y, Sound(u, Y), NEW h \in Hashes, NEW q,
         Contents(u, Y) = Updated(Contents(t, X), h, q)
  PROVE  /\ [g \in Hashes |-> Find(u, g)] = [[g \in Hashes |-> Find(t, g)] EXCEPT ![h] = q]
         /\ Stored(u) = (Stored(t) \ ToSet(Find(t, h))) \cup ToSet(q)
<1>1. \A g \in Hashes : Find(u, g) = IF g = h THEN q ELSE Find(t, g)
  BY UpdatedFind
<1>2. Stored(u) = UNION {ToSet(Find(u, g)) : g \in Hashes}
  BY StoredFind
<1>3. ASSUME NEW x \in Nodes PROVE x \in ToSet(Find(t, h)) <=> x \in Stored(t) /\ NodeHash[x] = h
  BY OnItsChain
<1>4. ASSUME NEW g \in Hashes, g # h, NEW x \in ToSet(Find(t, g))
      PROVE  x \in Stored(t) \ ToSet(Find(t, h))
  <2>1. x \in Stored(t)
    BY StoredFind
  <2>2. x \in Nodes
    BY <2>1, StoredNodes
  <2>3. NodeHash[x] = g
    BY <2>2, <1>4, OnItsChain
  <2>. QED  BY <1>3, <1>4, <2>1, <2>2, <2>3
<1>5. ASSUME NEW x \in Stored(t) \ ToSet(Find(t, h))
      PROVE  \E g \in Hashes : g # h /\ x \in ToSet(Find(t, g))
  BY StoredFind
<1>6. Stored(u) = (Stored(t) \ ToSet(Find(t, h))) \cup ToSet(q)
  BY <1>1, <1>2, <1>4, <1>5
<1>7. \A g \in Hashes :
        [k \in Hashes |-> Find(u, k)][g] = [[k \in Hashes |-> Find(t, k)] EXCEPT ![h] = q][g]
  BY <1>1
<1>. QED  BY <1>1, <1>6

(* HashMultimap has its own instance of the operators on sequences. *)
LEMMA SameOperators ==
  /\ \A s : Multimap!ToSet(s) = ToSet(s)
  /\ \A s, x : Multimap!RemoveFirst(s, x) = RemoveFirst(s, x)
  /\ \A s, x, y : Multimap!ReplaceAll(s, x, y) = ReplaceAll(s, x, y)
<1>1. \A s : Multimap!ToSet(s) = ToSet(s)
  BY DEF Multimap!ToSet, ToSet
<1>2. \A s, x : Multimap!RemoveFirst(s, x) = RemoveFirst(s, x)
  BY DEF Multimap!RemoveFirst, RemoveFirst, Multimap!RemoveAt, RemoveAt,
         Multimap!SelectInSeq, SelectInSeq, Multimap!Min, Min
<1>3. \A s, x, y : Multimap!ReplaceAll(s, x, y) = ReplaceAll(s, x, y)
  BY DEF Multimap!ReplaceAll, ReplaceAll
<1>. QED  BY <1>1, <1>2, <1>3

LEMMA MultimapStored ==
  ASSUME NEW X, Sound(impl, X)
  PROVE  Multimap!Stored = Stored(impl)
<1>1. Stored(impl) = UNION {ToSet(Find(impl, h)) : h \in Hashes}
  BY StoredFind
<1>. QED  BY <1>1, SameOperators DEF Multimap!Stored

-----------------------------------------------------------------------------
(* The writer's steps *)

(* The last store of an insertion *)
LEMMA InsertionStored ==
  ASSUME Inv, pc \in {"place", "shift"}, path' = <<>>, NEW v, StoreLast(v),
         Inserted(v, Target, Moved, item), v.mask = Target.mask, v.n = Target.n
  PROVE  Inv' /\ MultimapStep
<1>1. /\ OneChainOf(item) /\ Sound(Target, Moved) /\ Sound(v, {}) /\ IsTable(v) /\ IsTable(impl)
      /\ Contents(v, {}) = WithChain(Contents(Target, Moved), item.hash,
                                     item.chain \o Find(Target, item.hash))
  BY ItemOf, TargetOf DEF Inserted, Sound
<1>2. item \in Slot /\ item.chain # <<>> /\ item.hash \in Hashes /\ item.chain \in Seq(Nodes)
  BY <1>1 DEF OneChainOf, Slot
<1>3. Moved' = {} /\ path' \in Seq(Nat \X Slots)
  BY DEF Moved
<1>4. NoItem \in Slot
  BY DEF NoItem, Slot
<1>5. CASE Rehashing
  <2>1. /\ neww' = v /\ pos' = pos + 1 /\ pc' = "copy" /\ item' = NoItem
        /\ impl' = impl /\ call' = call
    BY <1>5 DEF StoreLast
  <2>2. Rehashing' /\ Target' = v
    BY <1>1, <2>1, NotNoTable DEF Rehashing, Target
  <2>3. /\ Sound(impl, {}) /\ pos \in Nat /\ pos < (impl.mask + 1) * K /\ (impl.mask + 1) * K \in Nat
        /\ Contents(Target, Moved) = ContentsTo(impl, pos)
    BY <1>5, TargetOf DEF Inv, Pending, TablesSound
  <2>4. Contents(v, {}) = ContentsTo(impl, pos + 1)
    <3>1. item.chain \o Find(Target, item.hash) = item.chain
      <4>1. Find(Target, item.hash) = <<>>
        BY <1>5, ItemOf
      <4>2. item.chain \o <<>> = item.chain
        BY <1>2
      <4>. QED  BY <4>1, <4>2
    <3>2. [hash |-> item.hash, chain |-> item.chain] = item
      BY <1>2 DEF Slot
    <3>3. /\ ContentsTo(impl, pos + 1) = ContentsTo(impl, pos) \cup {item}
          /\ \A y \in ContentsTo(impl, pos) : y.hash # item.hash
      BY <1>5, ItemOf
    <3>. QED  BY <1>1, <2>3, <3>1, <3>2, <3>3 DEF WithChain
  <2>5. TypeOK'
    BY <1>1, <1>3, <1>4, <2>1, <2>3 DEF Inv, TypeOK
  <2>6. Pending' /\ Phases'
    BY <2>1, <2>2 DEF Pending, Phases
  <2>7. TablesSound'
    BY <1>1, <1>3, <2>1, <2>2, <2>3, <2>4 DEF TablesSound
  <2>8. NodesCounted'
    BY <2>1 DEF Inv, NodesCounted
  <2>9. Answers' = Answers
    BY <2>1 DEF Answers
  <2>. QED  BY <2>5, <2>6, <2>7, <2>8, <2>9 DEF Inv, MultimapStep
<1>6. CASE ~ Rehashing
  <2>1. /\ impl' = [v EXCEPT !.n = v.n + 1] /\ pc' = "idle" /\ call' = NoNode /\ item' = NoItem
        /\ neww' = neww /\ pos' = pos
    BY <1>6 DEF StoreLast
  <2>2. /\ Target = impl /\ neww = NoTable /\ impl.n \in Nat
        /\ call \in Nodes /\ call # NoNode /\ item = [hash |-> NodeHash[call], chain |-> <<call>>]
    BY <1>6, TargetOf, CmapAssumption DEF Inv, Pending, IsTable
  <2>3. /\ Sound(impl', {}) /\ Contents(impl', {}) = Contents(v, {})
        /\ impl'.mask = impl.mask /\ impl'.n = impl.n + 1
    <3>1. v.n + 1 \in Nat
      BY <2>2
    <3>. QED  BY <1>1, <2>1, <2>2, <3>1, CountedSound
  <2>4. ~ Rehashing' /\ Target' = impl'
    BY <2>1, <2>2 DEF Rehashing, Target
  <2>5. /\ call \notin Stored(impl) /\ IsFiniteSet(Stored(impl))
        /\ impl.n = Cardinality(Stored(impl))
    BY <2>2 DEF Inv, NodesCounted
  <2>. DEFINE h == NodeHash[call]
              q == <<call>> \o Find(impl, h)
  <2>6. h \in Hashes /\ item.hash = h /\ item.chain = <<call>> /\ Find(impl, h) \in Seq(Nodes)
    BY <1>1, <2>2, CmapAssumption, OnItsChain
  <2>7. q # <<>> /\ ToSet(q) = {call} \cup ToSet(Find(impl, h))
    <3>1. Len(q) = 1 + Len(Find(impl, h)) /\ q[1] = call
          /\ \A i \in 1..Len(Find(impl, h)) : q[i + 1] = Find(impl, h)[i]
      BY <2>2, <2>6
    <3>2. DOMAIN q = 1..(1 + Len(Find(impl, h))) /\ DOMAIN Find(impl, h) = 1..Len(Find(impl, h))
          /\ Len(Find(impl, h)) \in Nat
      BY <2>2, <2>6, <3>1
    <3>3. \A x \in ToSet(q) : x = call \/ x \in ToSet(Find(impl, h))
      <4>1. ASSUME NEW i \in DOMAIN q PROVE q[i] = call \/ q[i] \in ToSet(Find(impl, h))
        <5>1. i = 1 \/ i - 1 \in 1..Len(Find(impl, h))
          BY <3>2
        <5>2. i - 1 \in 1..Len(Find(impl, h)) => q[i] = Find(impl, h)[i - 1]
          <6>1. (i - 1) + 1 = i
            BY <3>2
          <6>. QED  BY <3>1, <6>1
        <5>. QED  BY <3>1, <3>2, <5>1, <5>2 DEF ToSet
      <4>. QED  BY <4>1 DEF ToSet
    <3>4. call \in ToSet(q) /\ \A x \in ToSet(Find(impl, h)) : x \in ToSet(q)
      <4>1. 1 \in DOMAIN q /\ \A i \in DOMAIN Find(impl, h) : i + 1 \in DOMAIN q
        BY <3>2
      <4>2. \A i \in DOMAIN Find(impl, h) : q[i + 1] = Find(impl, h)[i]
        BY <3>1, <3>2
      <4>. QED  BY <3>1, <4>1, <4>2 DEF ToSet
    <3>. QED  BY <3>1, <3>2, <3>3, <3>4
  <2>. HIDE DEF q
  <2>8. Contents(impl', {}) = Updated(Contents(impl, Moved), h, q)
    BY <1>1, <2>2, <2>3, <2>6, <2>7 DEF WithChain, Updated, q
  <2>9. /\ [g \in Hashes |-> Find(impl', g)] = [[g \in Hashes |-> Find(impl, g)] EXCEPT ![h] = q]
        /\ Stored(impl') = (Stored(impl) \ ToSet(Find(impl, h))) \cup ToSet(q)
    <3>1. Sound(impl, Moved)
      BY <1>1, <2>2
    <3>2. h \in Hashes
      BY <2>6
    <3>. HIDE DEF h
    <3>. QED  BY <2>3, <2>8, <3>1, <3>2, AnswersUpdated
  <2>10. Stored(impl') = Stored(impl) \cup {call}
    BY <1>1, <2>2, <2>6, <2>7, <2>9, StoredFind
  <2>11. Multimap!InsertNode(call)
    <3>1. Multimap!Stored = Stored(impl)
      BY <1>1, <2>2, MultimapStored
    <3>. QED  BY <2>5, <2>6, <2>9, <3>1 DEF Multimap!InsertNode, q
  <2>12. TypeOK'
    <3>1. IsTable(impl')
      BY <2>3 DEF Sound
    <3>. QED  BY <1>3, <1>4, <2>1, <2>2, <2>3, <3>1 DEF Inv, TypeOK
  <2>13. Pending' /\ Phases'
    BY <2>1, <2>4 DEF Pending, Phases
  <2>14. TablesSound'
    BY <1>3, <2>3, <2>4 DEF TablesSound
  <2>15. NodesCounted'
    <3>1. IsFiniteSet(Stored(impl')) /\ Cardinality(Stored(impl')) = Cardinality(Stored(impl)) + 1
      BY <2>5, <2>10, FS_AddElement
    <3>. QED  BY <2>1, <2>3, <2>5, <3>1 DEF NodesCounted
  <2>. QED  BY <2>2, <2>11, <2>12, <2>13, <2>14, <2>15 DEF Inv, MultimapStep, Multimap!Next
<1>. QED  BY <1>5, <1>6

(* cmap_rehash starts over an empty table *)
LEMMA RehashBegun ==
  ASSUME NEW m \in Nat, BeginRehash(m), path' = <<>>, call' \in Nodes \cup {NoNode},
         Sound(impl', {}), NodesCounted'
  PROVE  Inv'
<1>1. PICK basis \in Bases : neww' = ImplCreate(m, basis)
  BY DEF BeginRehash
<1>2. pos' = 0 /\ pc' = "copy" /\ item' = NoItem
  BY DEF BeginRehash
<1>3. Sound(neww', {}) /\ Contents(neww', {}) = {} /\ IsTable(neww')
  BY <1>1, NewTable DEF Sound
<1>4. Rehashing' /\ Target' = neww' /\ Moved' = {}
  BY <1>3, NotNoTable DEF Rehashing, Target, Moved
<1>5. IsTable(impl') /\ impl'.mask \in Nat /\ (impl'.mask + 1) * K \in Nat
  <2>1. IsTable(impl') /\ impl'.mask \in Nat
    BY DEF Sound, IsTable
  <2>. QED  BY <2>1, CmapAssumption
<1>6. TypeOK'
  <2>1. NoItem \in Slot
    BY DEF NoItem, Slot
  <2>. QED  BY <1>2, <1>3, <1>5, <2>1 DEF TypeOK
<1>7. Pending' /\ Phases'
  BY <1>2, <1>4 DEF Pending, Phases
<1>8. TablesSound'
  BY <1>2, <1>3, <1>4, <1>5, ContentsFrom DEF TablesSound
<1>. QED  BY <1>6, <1>7, <1>8 DEF Inv

LEMMA InsertNodeStep ==
  ASSUME Inv, NEW x \in Nodes, InsertNode(x)
  PROVE  Inv' /\ MultimapStep
<1>1. /\ pc = "idle" /\ x \notin Stored(impl) /\ call' = x /\ impl' = impl /\ path' = path
  BY DEF InsertNode
<1>2. /\ ~ Rehashing /\ Target = impl /\ neww = NoTable
      /\ path = <<>> /\ Moved = {} /\ Sound(impl, {}) /\ impl.mask \in Nat
  BY <1>1, TargetOf, MovedOf DEF Inv, Phases
<1>3. NodesCounted'
  BY <1>1 DEF Inv, NodesCounted
<1>4. Answers' = Answers
  BY <1>1 DEF Answers
<1>5. CASE impl.n >= CalcMaxN(impl.mask)
  <2>1. BeginRehash(2 * impl.mask + 1) /\ 2 * impl.mask + 1 \in Nat
    BY <1>2, <1>5 DEF InsertNode
  <2>2. Inv'
    BY <1>1, <1>2, <1>3, <2>1, RehashBegun
  <2>. QED  BY <1>4, <2>2 DEF MultimapStep
<1>6. CASE ~ (impl.n >= CalcMaxN(impl.mask))
  <2>1. /\ item' = [hash |-> NodeHash[x], chain |-> <<x>>]
        /\ pc' = "place" /\ neww' = neww /\ pos' = pos
    BY <1>6 DEF InsertNode
  <2>2. ~ Rehashing' /\ Target' = impl /\ Moved' = {} /\ path' = <<>>
    BY <1>1, <1>2, <2>1 DEF Rehashing, Target, Moved
  <2>3. TypeOK'
    <3>1. [hash |-> NodeHash[x], chain |-> <<x>>] \in Slot
      BY CmapAssumption DEF Slot
    <3>2. TypeOK
      BY DEF Inv
    <3>. QED  BY <1>1, <2>1, <3>1, <3>2 DEF TypeOK
  <2>4. Pending' /\ Phases'
    BY <1>1, <2>1, <2>2 DEF Pending, Phases
  <2>5. TablesSound'
    BY <1>2, <2>2 DEF TablesSound
  <2>. QED  BY <1>3, <1>4, <2>3, <2>4, <2>5 DEF Inv, MultimapStep
<1>. QED  BY <1>5, <1>6

LEMMA PlaceFailsStep ==
  ASSUME Inv, PlaceFails
  PROVE  Inv' /\ MultimapStep
<1>1. pc = "place" /\ BeginRehash(Target.mask) /\ impl' = impl /\ call' = call /\ path' = path
  BY DEF PlaceFails
<1>2. path = <<>> /\ Moved = {} /\ Sound(impl, {}) /\ Target.mask \in Nat
  BY <1>1, TargetOf, MovedOf
<1>3. NodesCounted' /\ call' \in Nodes \cup {NoNode}
  BY <1>1 DEF Inv, NodesCounted, TypeOK
<1>4. Inv'
  BY <1>1, <1>2, <1>3, RehashBegun
<1>5. Answers' = Answers
  BY <1>1 DEF Answers
<1>. QED  BY <1>4, <1>5 DEF MultimapStep

LEMMA CopyStep ==
  ASSUME Inv, Copy
  PROVE  Inv' /\ MultimapStep
<1>1. /\ pc = "copy" /\ pos < (impl.mask + 1) * K /\ impl' = impl /\ neww' = neww
      /\ call' = call /\ path' = path
  BY DEF Copy
<1>2. /\ Rehashing /\ Sound(impl, {}) /\ IsTable(impl) /\ pos \in Nat /\ path = <<>> /\ Moved = {}
      /\ Contents(neww, {}) = ContentsTo(impl, pos) /\ Sound(neww, {})
      /\ (impl.mask + 1) * K \in Nat
  BY <1>1, TargetOf, MovedOf DEF Inv, Phases, TablesSound
<1>3. PICK old : old = At(impl, Numbered(pos)) /\ old = impl.bucket[pos \div K][(pos % K) + 1]
                 /\ Numbered(pos) \in Cell(impl)
  BY <1>1, <1>2, NumberedCell
<1>4. old \in Slot
  BY <1>2, <1>3, CellOf
<1>5. Rehashing' /\ Target' = neww /\ path' = <<>> /\ Moved' = {}
  BY <1>1, <1>2 DEF Rehashing, Target, Moved
<1>6. NodesCounted' /\ Answers' = Answers
  BY <1>1 DEF Inv, NodesCounted, Answers
<1>7. CASE old.chain = <<>>
  <2>1. pos' = pos + 1 /\ item' = item /\ pc' = pc
    BY <1>3, <1>7 DEF Copy
  <2>2. ContentsTo(impl, pos + 1) = ContentsTo(impl, pos)
    BY <1>1, <1>2, <1>3, <1>7, ContentsNext
  <2>3. TypeOK'
    BY <1>1, <1>2, <2>1 DEF Inv, TypeOK
  <2>4. Pending' /\ Phases'
    BY <1>1, <1>5, <2>1 DEF Pending, Phases
  <2>5. TablesSound'
    BY <1>1, <1>2, <1>5, <2>1, <2>2 DEF TablesSound
  <2>. QED  BY <1>6, <2>3, <2>4, <2>5 DEF Inv, MultimapStep
<1>8. CASE old.chain # <<>>
  <2>1. pos' = pos /\ item' = old /\ pc' = "place"
    BY <1>3, <1>8 DEF Copy
  <2>2. TypeOK'
    BY <1>1, <1>2, <1>4, <2>1 DEF Inv, TypeOK
  <2>3. Pending' /\ Phases'
    BY <1>1, <1>3, <1>5, <1>8, <2>1 DEF Pending, Phases
  <2>4. TablesSound'
    BY <1>1, <1>2, <1>5, <2>1 DEF TablesSound
  <2>. QED  BY <1>6, <2>2, <2>3, <2>4 DEF Inv, MultimapStep
<1>. QED  BY <1>7, <1>8

LEMMA PublishStep ==
  ASSUME Inv, Publish
  PROVE  Inv' /\ MultimapStep
<1>1. /\ pc = "copy" /\ pos = (impl.mask + 1) * K /\ impl' = [neww EXCEPT !.n = impl.n]
      /\ neww' = NoTable /\ pos' = 0 /\ call' = call /\ path' = path
  BY DEF Publish
<1>2. /\ Rehashing /\ Sound(impl, {}) /\ IsTable(impl) /\ path = <<>> /\ Moved = {}
      /\ Contents(neww, {}) = ContentsTo(impl, pos) /\ Sound(neww, {}) /\ impl.n \in Nat
  BY <1>1, TargetOf, MovedOf DEF Inv, Phases, TablesSound, IsTable
<1>3. Contents(neww, {}) = Contents(impl, {})
  BY <1>1, <1>2, ContentsFrom
<1>4. Sound(impl', {}) /\ Contents(impl', {}) = Contents(neww, {}) /\ impl'.n = impl.n
  BY <1>1, <1>2, CountedSound
<1>5. /\ [h \in Hashes |-> Find(impl', h)] = [h \in Hashes |-> Find(impl, h)]
      /\ Stored(impl') = Stored(impl)
  BY <1>2, <1>3, <1>4, AnswersSame
<1>6. ~ Rehashing' /\ Target' = impl' /\ path' = <<>> /\ Moved' = {}
  BY <1>1, <1>2 DEF Rehashing, Target, Moved
<1>7. NodesCounted'
  BY <1>1, <1>4, <1>5 DEF Inv, NodesCounted
<1>8. Answers' = Answers
  BY <1>5 DEF Answers
<1>9. IsTable(impl') /\ 0 \in 0..((impl'.mask + 1) * K)
  <2>1. IsTable(impl') /\ impl'.mask \in Nat
    BY <1>4 DEF Sound, IsTable
  <2>2. (impl'.mask + 1) * K \in Nat
    BY <2>1, CmapAssumption
  <2>. QED  BY <2>1, <2>2
<1>10. TablesSound'
  BY <1>4, <1>6 DEF TablesSound
<1>11. call \in Nodes \cup {NoNode} /\ item \in Slot
  BY DEF Inv, TypeOK
<1>12. CASE call = NoNode
  <2>1. pc' = "idle" /\ item' = item
    BY <1>12 DEF Publish
  <2>2. TypeOK'
    BY <1>1, <1>6, <1>9, <1>11, <2>1 DEF TypeOK
  <2>3. Pending' /\ Phases'
    BY <1>1, <1>6, <1>12, <2>1 DEF Pending, Phases
  <2>. QED  BY <1>7, <1>8, <1>10, <2>2, <2>3 DEF Inv, MultimapStep
<1>13. CASE call # NoNode
  <2>1. pc' = "place" /\ item' = [hash |-> NodeHash[call], chain |-> <<call>>] /\ call \in Nodes
    BY <1>11, <1>13 DEF Publish
  <2>2. item' \in Slot
    BY <2>1, CmapAssumption DEF Slot
  <2>3. TypeOK'
    BY <1>1, <1>6, <1>9, <1>11, <2>1, <2>2 DEF TypeOK
  <2>4. Pending' /\ Phases'
    BY <1>1, <1>6, <2>1 DEF Pending, Phases
  <2>. QED  BY <1>7, <1>8, <1>10, <2>3, <2>4 DEF Inv, MultimapStep
<1>. QED  BY <1>12, <1>13

(* cmap_replace__ changes the chain of x to r. *)
LEMMA ChainReplaced ==
  ASSUME Inv, pc = "idle", NEW x \in Nodes, x \in Stored(impl), NEW r \in Seq(Nodes),
         \A i \in DOMAIN r : NodeHash[r[i]] = NodeHash[x],
         \A i, j \in DOMAIN r : r[i] = r[j] => i = j,
         NEW h, h = NodeHash[x],
         NEW u, u = ReplacedTable(impl, h, r)
  PROVE  /\ Sound(u, {}) /\ u.mask = impl.mask /\ u.n = impl.n
         /\ [g \in Hashes |-> Find(u, g)] = [[g \in Hashes |-> Find(impl, g)] EXCEPT ![h] = r]
         /\ Stored(u) = (Stored(impl) \ ToSet(Find(impl, h))) \cup ToSet(r)
<1>1. Sound(impl, {}) /\ h \in Hashes
  BY TargetOf, MovedOf, CmapAssumption DEF Inv, Phases
<1>2. x \in ToSet(Find(impl, h))
  BY <1>1, OnItsChain
<1>3. Find(impl, h) # <<>>
  BY <1>2 DEF ToSet
<1>4. \A i \in DOMAIN r : NodeHash[r[i]] = h
  OBVIOUS
<1>5. /\ Sound(u, {}) /\ Contents(u, {}) = Updated(Contents(impl, {}), h, r)
      /\ u.mask = impl.mask /\ u.n = impl.n
  BY <1>1, <1>3, <1>4, ReplacedSound
<1>. QED  BY <1>1, <1>5, AnswersUpdated

LEMMA ReplaceNodeStep ==
  ASSUME Inv, NEW x \in Nodes, NEW y \in Nodes, ReplaceNode(x, y)
  PROVE  Inv' /\ MultimapStep
<1>1. /\ pc = "idle" /\ x \in Stored(impl) /\ y \notin Stored(impl) /\ NodeHash[x] = NodeHash[y]
      /\ neww' = neww /\ pc' = pc /\ call' = call /\ item' = item /\ path' = path /\ pos' = pos
  BY DEF ReplaceNode
<1>2. PICK h : h = NodeHash[x]
  OBVIOUS
<1>3. PICK q, r : q = Find(impl, h) /\ r = ReplaceAll(q, x, y)
  OBVIOUS
<1>4. /\ ~ Rehashing /\ Target = impl /\ path = <<>> /\ Moved = {} /\ Sound(impl, {})
      /\ h \in Hashes /\ neww = NoTable /\ call = NoNode
  BY <1>1, <1>2, TargetOf, MovedOf, CmapAssumption DEF Inv, Phases
<1>5. /\ q \in Seq(Nodes) /\ x \in ToSet(q) /\ y \notin ToSet(q)
      /\ \A i, j \in DOMAIN q : q[i] = q[j] => i = j
      /\ \A z \in ToSet(q) : NodeHash[z] = h
  <2>1. \A i \in DOMAIN q : NodeHash[q[i]] = h
    BY <1>3, <1>4, OnItsChain
  <2>. QED  BY <1>1, <1>2, <1>3, <1>4, <2>1, OnItsChain DEF ToSet
<1>6. /\ r \in Seq(Nodes)
      /\ \A i \in DOMAIN r : r[i] \in ToSet(q) \cup {y}
      /\ \A i, j \in DOMAIN r : r[i] = r[j] => i = j
      /\ ToSet(r) = (ToSet(q) \ {x}) \cup {y}
  BY <1>3, <1>5, ReplacedAll
<1>7. \A i \in DOMAIN r : NodeHash[r[i]] = NodeHash[x]
  BY <1>1, <1>2, <1>5, <1>6
<1>8. impl' = ReplacedTable(impl, h, r)
  <2>1. impl' = [impl EXCEPT !.bucket[ReplacedBucket(impl, h)][ReplacedSlot(impl, h)].chain
                   = ReplaceAll(@, x, y)]
    BY Zenon, <1>2 DEF ReplaceNode, Replaced, ReplacedBucket, ReplacedSlot
  <2>2. PICK b, s, c : b = ReplacedBucket(impl, h) /\ s = ReplacedSlot(impl, h) /\ c = <<b, s>>
    OBVIOUS
  <2>3. q # <<>>
    BY <1>5 DEF ToSet
  <2>4. /\ b \in 0..impl.mask /\ s \in Slots
        /\ At(impl, c).chain = q /\ impl.bucket[b][s] = At(impl, c)
    BY <1>3, <1>4, <2>2, <2>3, ReplacedCell
  <2>. QED  BY <1>3, <2>1, <2>2, <2>4 DEF ReplacedTable
<1>9. /\ Sound(impl', {}) /\ impl'.mask = impl.mask /\ impl'.n = impl.n
      /\ [g \in Hashes |-> Find(impl', g)] = [[g \in Hashes |-> Find(impl, g)] EXCEPT ![h] = r]
      /\ Stored(impl') = (Stored(impl) \ ToSet(q)) \cup ToSet(r)
  BY <1>1, <1>2, <1>3, <1>6, <1>7, <1>8, ChainReplaced
<1>10. ~ Rehashing' /\ Target' = impl' /\ path' = <<>> /\ Moved' = {}
  BY <1>1, <1>4 DEF Rehashing, Target, Moved
<1>11. Stored(impl') = (Stored(impl) \ {x}) \cup {y}
  <2>1. ToSet(q) \subseteq Stored(impl)
    BY <1>3, <1>4, StoredFind
  <2>. QED  BY <1>5, <1>6, <1>9, <2>1
<1>12. NodesCounted'
  <2>1. IsFiniteSet(Stored(impl)) /\ impl.n = Cardinality(Stored(impl)) /\ impl.n \in Nat
    BY <1>4 DEF Inv, NodesCounted, Sound, IsTable
  <2>2. IsFiniteSet(Stored(impl) \ {x}) /\ Cardinality(Stored(impl) \ {x}) = impl.n - 1
    BY <1>1, <2>1, FS_RemoveElement
  <2>3. IsFiniteSet(Stored(impl')) /\ Cardinality(Stored(impl')) = (impl.n - 1) + 1
    <3>1. PICK S : S = Stored(impl) \ {x}
      OBVIOUS
    <3>2. Stored(impl') = S \cup {y} /\ y \notin S
      BY <1>1, <1>11, <3>1
    <3>3. IsFiniteSet(S) /\ Cardinality(S) = impl.n - 1
      BY <2>2, <3>1
    <3>. QED  BY <3>2, <3>3, FS_AddElement
  <2>. QED  BY <1>1, <1>4, <1>9, <2>1, <2>3 DEF NodesCounted
<1>13. TypeOK'
  <2>1. IsTable(impl') /\ TypeOK
    BY <1>9 DEF Sound, Inv
  <2>. QED  BY <1>1, <1>9, <2>1 DEF TypeOK
<1>14. Pending' /\ Phases' /\ TablesSound'
  BY <1>1, <1>4, <1>9, <1>10 DEF Pending, Phases, TablesSound
<1>15. Multimap!ReplaceNode(x, y)
  <2>1. Multimap!Stored = Stored(impl)
    BY <1>4, MultimapStored
  <2>2. r = Multimap!ReplaceAll([g \in Hashes |-> Find(impl, g)][h], x, y)
    BY <1>3, <1>4, SameOperators
  <2>. QED  BY <1>1, <1>2, <1>9, <2>1, <2>2 DEF Multimap!ReplaceNode
<1>. QED  BY <1>12, <1>13, <1>14, <1>15 DEF Inv, MultimapStep, Multimap!Next

LEMMA RemoveNodeStep ==
  ASSUME Inv, NEW x \in Nodes, RemoveNode(x)
  PROVE  Inv' /\ MultimapStep
<1>1. pc = "idle" /\ x \in Stored(impl) /\ call' = call /\ path' = path
  BY DEF RemoveNode
<1>2. PICK h : h = NodeHash[x]
  OBVIOUS
<1>3. PICK q, r : q = Find(impl, h) /\ r = RemoveFirst(q, x)
  OBVIOUS
<1>4. /\ ~ Rehashing /\ Target = impl /\ path = <<>> /\ Moved = {} /\ Sound(impl, {})
      /\ h \in Hashes /\ neww = NoTable /\ call = NoNode /\ impl.mask \in Nat /\ impl.n \in Nat
  BY <1>1, <1>2, TargetOf, MovedOf, CmapAssumption DEF Inv, Phases, IsTable
<1>5. /\ q \in Seq(Nodes) /\ x \in ToSet(q)
      /\ \A i, j \in DOMAIN q : q[i] = q[j] => i = j
      /\ \A z \in ToSet(q) : NodeHash[z] = h
  <2>1. \A i \in DOMAIN q : NodeHash[q[i]] = h
    BY <1>3, <1>4, OnItsChain
  <2>. QED  BY <1>1, <1>2, <1>3, <1>4, <2>1, OnItsChain DEF ToSet
<1>6. /\ r \in Seq(Nodes)
      /\ \A i \in DOMAIN r : r[i] \in ToSet(q)
      /\ \A i, j \in DOMAIN r : r[i] = r[j] => i = j
      /\ ToSet(r) = ToSet(q) \ {x}
  BY <1>3, <1>5, RemovedFirst
<1>7. \A i \in DOMAIN r : NodeHash[r[i]] = NodeHash[x]
  BY <1>2, <1>5, <1>6
<1>8. PICK u : u = ReplacedTable(impl, h, r)
  OBVIOUS
<1>9. /\ Sound(u, {}) /\ u.mask = impl.mask /\ u.n = impl.n
      /\ [g \in Hashes |-> Find(u, g)] = [[g \in Hashes |-> Find(impl, g)] EXCEPT ![h] = r]
      /\ Stored(u) = (Stored(impl) \ ToSet(q)) \cup ToSet(r)
  BY <1>1, <1>2, <1>3, <1>6, <1>7, <1>8, ChainReplaced
<1>10. u = Replaced(impl, NodeHash[x], LAMBDA c : RemoveFirst(c, x))
  <2>1. Replaced(impl, NodeHash[x], LAMBDA c : RemoveFirst(c, x))
          = [impl EXCEPT !.bucket[ReplacedBucket(impl, h)][ReplacedSlot(impl, h)].chain
                   = RemoveFirst(@, x)]
    BY <1>2 DEF Replaced, ReplacedBucket, ReplacedSlot
  <2>2. PICK b, s, c : b = ReplacedBucket(impl, h) /\ s = ReplacedSlot(impl, h) /\ c = <<b, s>>
    OBVIOUS
  <2>3. q # <<>>
    BY <1>5 DEF ToSet
  <2>4. /\ b \in 0..impl.mask /\ s \in Slots
        /\ At(impl, c).chain = q /\ impl.bucket[b][s] = At(impl, c)
    BY <1>3, <1>4, <2>2, <2>3, ReplacedCell
  <2>. QED  BY <1>3, <1>8, <2>1, <2>2, <2>4 DEF ReplacedTable
<1>11. impl' = [u EXCEPT !.n = u.n - 1]
  BY <1>10 DEF RemoveNode
<1>12. Stored(u) = Stored(impl) \ {x}
  <2>1. ToSet(q) \subseteq Stored(impl)
    BY <1>3, <1>4, StoredFind
  <2>. QED  BY <1>5, <1>6, <1>9, <2>1
<1>13. /\ IsFiniteSet(Stored(u)) /\ Cardinality(Stored(u)) = impl.n - 1 /\ impl.n - 1 \in Nat
  <2>1. IsFiniteSet(Stored(impl)) /\ impl.n = Cardinality(Stored(impl))
    BY DEF Inv, NodesCounted
  <2>2. IsFiniteSet(Stored(u)) /\ Cardinality(Stored(u)) = impl.n - 1
    BY <1>1, <1>12, <2>1, FS_RemoveElement
  <2>3. Cardinality(Stored(u)) \in Nat
    BY <2>2, FS_CardinalityType
  <2>. QED  BY <2>2, <2>3
<1>14. /\ Sound(impl', {}) /\ Contents(impl', {}) = Contents(u, {})
       /\ impl'.mask = impl.mask /\ impl'.n = impl.n - 1
  <2>1. u.n - 1 \in Nat
    BY <1>9, <1>13
  <2>. QED  BY <1>9, <1>11, <2>1, CountedSound
<1>15. /\ [g \in Hashes |-> Find(impl', g)] = [[g \in Hashes |-> Find(impl, g)] EXCEPT ![h] = r]
       /\ Stored(impl') = Stored(u)
  BY <1>9, <1>14, AnswersSame
<1>16. NodesCounted'
  BY <1>1, <1>4, <1>13, <1>14, <1>15 DEF NodesCounted
<1>17. Multimap!RemoveNode(x)
  <2>1. Multimap!Stored = Stored(impl)
    BY <1>4, MultimapStored
  <2>2. r = Multimap!RemoveFirst([g \in Hashes |-> Find(impl, g)][h], x)
    BY <1>3, <1>4, SameOperators
  <2>. QED  BY <1>1, <1>2, <1>15, <2>1, <2>2 DEF Multimap!RemoveNode
<1>18. Inv'
  <2>1. CASE impl'.n < CalcMinN(impl'.mask)
    <3>1. BeginRehash(impl'.mask \div 2)
      BY <1>10, <1>11, <2>1 DEF RemoveNode
    <3>2. impl'.mask \div 2 \in Nat
      BY <1>4, <1>14
    <3>. QED  BY <1>1, <1>4, <1>14, <1>16, <3>1, <3>2, RehashBegun
  <2>2. CASE ~ (impl'.n < CalcMinN(impl'.mask))
    <3>1. neww' = neww /\ pc' = pc /\ item' = item /\ pos' = pos
      BY <1>10, <1>11, <2>2 DEF RemoveNode
    <3>2. ~ Rehashing' /\ Target' = impl' /\ path' = <<>> /\ Moved' = {}
      BY <1>1, <1>4, <3>1 DEF Rehashing, Target, Moved
    <3>3. TypeOK'
      <4>1. IsTable(impl') /\ TypeOK
        BY <1>14 DEF Sound, Inv
      <4>. QED  BY <1>1, <1>14, <3>1, <4>1 DEF TypeOK
    <3>4. Pending' /\ Phases' /\ TablesSound'
      BY <1>1, <1>4, <1>14, <3>1, <3>2 DEF Pending, Phases, TablesSound
    <3>. QED  BY <1>16, <3>3, <3>4 DEF Inv
  <2>. QED  BY <2>1, <2>2
<1>. QED  BY <1>17, <1>18 DEF MultimapStep, Multimap!Next

LEMMA RoomCell ==
  ASSUME NEW t, IsTable(t), NEW h \in Hashes, Room(t, h) # {},
         NEW b, b = Candidates(t, h)[First(Room(t, h))],
         NEW s, s = First(EmptySlots(t, b)), NEW c, c = <<b, s>>
  PROVE  /\ b \in 0..t.mask /\ s \in Slots /\ c \in Cell(t) /\ At(t, c).chain = <<>>
         /\ c[1] \in {Bucket1(t, h), Bucket2(t, h)}
<1>1. First(Room(t, h)) \in Room(t, h) /\ First(Room(t, h)) \in 1..2
  BY FirstOfTwo, CandidateOf
<1>2. EmptySlots(t, b) # {} /\ b \in {Bucket1(t, h), Bucket2(t, h)}
  BY <1>1, CandidateOf
<1>3. s \in EmptySlots(t, b) /\ s \in Slots
  BY <1>2, FirstSlot DEF EmptySlots
<1>4. b \in 0..t.mask
  BY <1>2, BucketsOf
<1>. QED  BY Zenon, <1>2, <1>3, <1>4 DEF Cell, At, EmptySlots, Live

(* cmap_try_insert, with each of its three outcomes *)
LEMMA PlaceStep ==
  ASSUME Inv, Place
  PROVE  Inv' /\ MultimapStep
<1>1. PICK t, h : t = Target /\ h = item.hash
  OBVIOUS
<1>2. /\ pc = "place" /\ path = <<>> /\ Moved = {} /\ IsTable(t) /\ Sound(t, {})
      /\ OneChainOf(item) /\ item \in Slot /\ h \in Hashes
  BY <1>1, TargetOf, MovedOf, ItemOf DEF Place, OneChainOf
<1>3. CASE Dups(t, h) # {} /\ path' = path /\ InsertDup(Candidates(t, h)[First(Dups(t, h))])
  <2>1. PICK b, s, c : /\ b = Candidates(t, h)[First(Dups(t, h))]
                       /\ s = First(WithHash(t, b, h)) /\ c = <<b, s>>
    OBVIOUS
  <2>2. PICK y : y = [item EXCEPT !.chain = @ \o t.bucket[b][s].chain]
    OBVIOUS
  <2>3. PICK q : q = Find(t, h)
    OBVIOUS
  <2>4. /\ ChainCell(t, h, c) /\ b \in 0..t.mask /\ s \in Slots
        /\ q = At(t, c).chain
    BY <1>2, <1>3, <2>1, <2>3, DupSlot
  <2>5. c \in Cell(t) /\ q \in Seq(Nodes) /\ t.bucket[b][s].chain = q
    BY <1>2, <2>1, <2>4, CellOf DEF ChainCell, At
  <2>6. y \in Slot /\ y.hash = h /\ y.chain = item.chain \o q
    <3>1. y = [item EXCEPT !.chain = item.chain \o q]
      BY <2>2, <2>5
    <3>2. item.chain \in Seq(Nodes) /\ item.chain \o q \in Seq(Nodes)
      BY <1>2, <2>5 DEF Slot
    <3>. QED  BY <1>1, <1>2, <3>1, <3>2 DEF Slot
  <2>7. PICK v : v = SetSlot(t, b, s, y)
    OBVIOUS
  <2>8. Writes(v, t, c, y) /\ v.n = t.n /\ v.mask = t.mask
    BY <1>2, <2>1, <2>4, <2>6, <2>7, SetSlotWrites DEF Writes
  <2>9. StoreLast(v)
    BY Zenon, <1>1, <1>3, <2>1, <2>2, <2>7 DEF InsertDup
  <2>10. \A i \in DOMAIN item.chain, j \in DOMAIN q : item.chain[i] # q[j]
    BY <1>1, <1>2, <2>3, ItemOf
  <2>11. Inserted(v, t, {}, item)
    BY <1>1, <1>2, <2>3, <2>4, <2>6, <2>8, <2>10, DupInserted
  <2>. QED  BY <1>1, <1>2, <1>3, <2>8, <2>9, <2>11, InsertionStored
<1>4. CASE /\ Dups(t, h) = {} /\ Room(t, h) # {} /\ path' = path
           /\ InsertBucket(Candidates(t, h)[First(Room(t, h))])
  <2>1. PICK b, s, c : /\ b = Candidates(t, h)[First(Room(t, h))]
                       /\ s = First(EmptySlots(t, b)) /\ c = <<b, s>>
    OBVIOUS
  <2>2. /\ b \in 0..t.mask /\ s \in Slots /\ c \in Cell(t) /\ At(t, c).chain = <<>>
        /\ c[1] \in {Bucket1(t, h), Bucket2(t, h)}
    BY <1>2, <1>4, <2>1, RoomCell
  <2>3. PICK v : v = SetSlot(t, b, s, item)
    OBVIOUS
  <2>4. Writes(v, t, c, item) /\ v.n = t.n /\ v.mask = t.mask
    BY <1>2, <2>1, <2>2, <2>3, SetSlotWrites DEF Writes
  <2>5. StoreLast(v)
    BY <1>1, <1>4, <2>1, <2>3 DEF InsertBucket
  <2>6. NoneWithHash(t, h)
    BY <1>4, NoDups
  <2>7. Inserted(v, t, {}, item)
    BY <1>1, <1>2, <2>2, <2>4, <2>6, NewInserted
  <2>. QED  BY <1>1, <1>2, <1>4, <2>4, <2>5, <2>7, InsertionStored
<1>5. CASE /\ Dups(t, h) = {} /\ path' \in FoundPaths(t, ToSet(Candidates(t, h)))
           /\ pc' = "shift" /\ UNCHANGED <<impl, neww, call, item, pos>>
  <2>1. PathOK(t, path', h) /\ Len(path') > 1 /\ At(t, path'[Len(path')]).chain = <<>>
    BY <1>2, <1>5, FoundPathOK
  <2>2. path' \in Seq(Cell(t)) /\ Len(path') \in Nat /\ path'[Len(path')] \in Cell(t)
    BY <2>1 DEF PathOK
  <2>3. Moved' = {path'[Len(path')]}
    BY <2>1 DEF Moved, Last
  <2>4. Rehashing' = Rehashing /\ Target' = t
    BY <1>1, <1>5 DEF Rehashing, Target
  <2>5. Sound(t, Moved') /\ Contents(t, Moved') = Contents(t, {})
    BY <1>2, <2>1, <2>2, <2>3, DeadCell
  <2>6. NoneWithHash(t, h)
    BY <1>5, NoDups
  <2>7. TypeOK'
    <3>1. Cell(t) \subseteq Nat \X Slots
      BY <1>2 DEF Cell, IsTable
    <3>2. path' \in Seq(Nat \X Slots)
      BY <2>2, <3>1
    <3>. QED  BY <1>5, <3>2 DEF Inv, TypeOK
  <2>8. Pending'
    BY <1>2, <1>5, <2>4 DEF Inv, Pending
  <2>9. Phases'
    BY <1>1, <1>5, <2>1, <2>4, <2>6 DEF Phases
  <2>10. TablesSound'
    <3>1. Rehashing => t = neww /\ Sound(impl, {}) /\ Contents(neww, {}) = ContentsTo(impl, pos)
      BY <1>1, <1>2, TargetOf DEF Inv, TablesSound
    <3>. QED  BY <1>5, <2>4, <2>5, <3>1 DEF TablesSound
  <2>11. NodesCounted' /\ Answers' = Answers
    BY <1>5 DEF Inv, NodesCounted, Answers
  <2>. QED  BY <2>7, <2>8, <2>9, <2>10, <2>11 DEF Inv, MultimapStep
<1>. QED  BY <1>1, <1>3, <1>4, <1>5 DEF Place

LEMMA ShiftLastStep ==
  ASSUME Inv, ShiftLast
  PROVE  Inv' /\ MultimapStep
<1>1. PICK t, h, c : t = Target /\ h = item.hash /\ c = path[1]
  OBVIOUS
<1>2. /\ pc = "shift" /\ Len(path) = 1 /\ path' = <<>> /\ IsTable(t) /\ Sound(t, Moved)
      /\ OneChainOf(item) /\ item \in Slot /\ PathOK(t, path, h) /\ NoneWithHash(t, h)
  BY <1>1, TargetOf, ItemOf DEF ShiftLast, OneChainOf, Inv, Phases
<1>3. Moved = {c}
  BY <1>1, <1>2 DEF Moved, Last
<1>4. c \in Cell(t) /\ c[1] \in {Bucket1(t, h), Bucket2(t, h)}
  BY <1>1, <1>2 DEF PathOK
<1>5. c = <<c[1], c[2]>> /\ c[1] \in 0..t.mask /\ c[2] \in Slots
  BY <1>2, <1>4, CellOf
<1>6. PICK v : v = SetSlot(t, c[1], c[2], item)
  OBVIOUS
<1>7. Writes(v, t, c, item) /\ v.n = t.n /\ v.mask = t.mask
  BY <1>2, <1>5, <1>6, SetSlotWrites DEF Writes
<1>8. StoreLast(v)
  BY <1>1, <1>6 DEF ShiftLast
<1>9. Inserted(v, t, Moved, item)
  BY <1>1, <1>2, <1>3, <1>4, <1>7, NewInserted
<1>. QED  BY <1>1, <1>2, <1>7, <1>8, <1>9, InsertionStored

LEMMA ShiftStep ==
  ASSUME Inv, Shift
  PROVE  Inv' /\ MultimapStep
<1>1. PICK t, h, k, from, to :
        /\ t = Target /\ h = item.hash /\ k = Len(path)
        /\ from = path[k - 1] /\ to = path[k]
  OBVIOUS
<1>2. /\ pc = "shift" /\ k > 1 /\ IsTable(t) /\ Sound(t, Moved) /\ h \in Hashes
      /\ PathOK(t, path, h) /\ NoneWithHash(t, h)
  BY <1>1, TargetOf, ItemOf DEF Shift, Inv, Phases, OneChainOf
<1>3. Moved = {to}
  BY <1>1, <1>2 DEF Moved, Last
<1>4. path \in Seq(Cell(t)) /\ k \in Nat /\ to \in Cell(t) /\ from \in Cell(t)
  BY <1>1, <1>2 DEF PathOK
<1>5. /\ to = <<to[1], to[2]>> /\ to[1] \in 0..t.mask /\ to[2] \in Slots
      /\ At(t, from) \in Slot
  BY <1>2, <1>4, CellOf
<1>6. PICK v : v = SetSlot(t, to[1], to[2], At(t, from))
  OBVIOUS
<1>7. Writes(v, t, to, At(t, from)) /\ v.n = t.n /\ v.mask = t.mask /\ IsTable(v)
  BY SMTT(40), <1>2, <1>5, <1>6, SetSlotWrites DEF Writes
<1>8. StoreMore(v) /\ path' = SubSeq(path, 1, k - 1)
  BY <1>1, <1>6 DEF Shift, Last, Front, At
<1>9. /\ Sound(v, {from}) /\ Contents(v, {from}) = Contents(t, {to})
      /\ PathOK(v, path', h) /\ NoneWithHash(v, h)
  <2>1. LastMove(path, from, to, path')
    BY <1>1, <1>2, <1>8 DEF LastMove
  <2>2. Sound(t, {to})
    BY <1>2, <1>3
  <2>. QED  BY <1>2, <1>7, <2>1, <2>2, MoveKeeps
<1>10. Moved' = {from} /\ path' \in Seq(Cell(t))
  <2>1. Len(path') = k - 1 /\ path'[k - 1] = path[k - 1] /\ path' \in Seq(Cell(t))
    <3>1. path \in Seq(Cell(t)) /\ Len(path) = k /\ k - 1 \in Nat /\ k - 1 \in 1..(k - 1) /\ k - 1 < k
      BY <1>1, <1>2, <1>4
    <3>. QED  BY <1>8, <3>1
  <2>. QED  BY <1>1, <1>2, <1>4, <2>1 DEF Moved, Last
<1>11. path' \in Seq(Nat \X Slots)
  <2>1. Cell(t) \subseteq Nat \X Slots
    BY <1>2 DEF Cell, IsTable
  <2>. QED  BY <1>10, <2>1
<1>12. pc' = "shift" /\ UNCHANGED <<call, item, pos>>
  BY <1>2, <1>8 DEF StoreMore
<1>13. CASE Rehashing
  <2>1. neww' = v /\ impl' = impl /\ t = neww
    BY <1>1, <1>8, <1>13, TargetOf DEF StoreMore
  <2>2. Rehashing' /\ Target' = v
    BY <1>7, <2>1, NotNoTable DEF Rehashing, Target
  <2>3. TypeOK'
    BY <1>7, <1>11, <1>12, <2>1 DEF Inv, TypeOK
  <2>4. Pending' /\ Phases'
    <3>1. Pending'
      BY <1>2, <1>12, <1>13, <2>1, <2>2 DEF Inv, Pending
    <3>2. PathOK(Target', path', item'.hash) /\ NoneWithHash(Target', item'.hash)
      BY <1>1, <1>9, <1>12, <2>2
    <3>. QED  BY <1>12, <3>1, <3>2 DEF Phases
  <2>5. TablesSound'
    <3>1. Sound(impl, {}) /\ Contents(neww, Moved) = ContentsTo(impl, pos)
      BY <1>13 DEF Inv, TablesSound
    <3>. QED  BY <1>3, <1>9, <1>10, <1>12, <2>1, <2>2, <3>1 DEF TablesSound
  <2>6. NodesCounted' /\ Answers' = Answers
    BY <1>12, <2>1 DEF Inv, NodesCounted, Answers
  <2>. QED  BY <2>3, <2>4, <2>5, <2>6 DEF Inv, MultimapStep
<1>14. CASE ~ Rehashing
  <2>1. neww' = neww /\ impl' = v /\ t = impl /\ neww = NoTable
    BY <1>1, <1>8, <1>14, TargetOf DEF StoreMore
  <2>2. ~ Rehashing' /\ Target' = v
    BY <2>1 DEF Rehashing, Target
  <2>3. /\ [g \in Hashes |-> Find(v, g)] = [g \in Hashes |-> Find(t, g)]
        /\ Stored(v) = Stored(t)
    BY <1>2, <1>3, <1>9, AnswersSame
  <2>4. TypeOK'
    BY <1>7, <1>11, <1>12, <2>1 DEF Inv, TypeOK
  <2>5. Pending' /\ Phases'
    <3>1. Pending'
      BY <1>2, <1>12, <1>14, <2>2 DEF Inv, Pending
    <3>2. PathOK(Target', path', item'.hash) /\ NoneWithHash(Target', item'.hash)
      BY <1>1, <1>9, <1>12, <2>2
    <3>. QED  BY <1>12, <3>1, <3>2 DEF Phases
  <2>6. TablesSound'
    BY <1>9, <1>10, <2>2 DEF TablesSound
  <2>7. NodesCounted' /\ Answers' = Answers
    BY <1>7, <1>12, <2>1, <2>3 DEF Inv, NodesCounted, Answers
  <2>. QED  BY <2>4, <2>5, <2>6, <2>7 DEF Inv, MultimapStep
<1>. QED  BY <1>13, <1>14

-----------------------------------------------------------------------------
(* The invariant of every behaviour *)

LEMMA InitInv == Init => Inv /\ Multimap!Init
<1>. SUFFICES ASSUME Init PROVE Inv /\ Multimap!Init
  OBVIOUS
<1>1. PICK basis \in Bases : impl = ImplCreate(0, basis)
  BY DEF Init
<1>2. /\ neww = NoTable /\ pc = "idle" /\ call = NoNode /\ item = NoItem /\ path = <<>> /\ pos = 0
  BY DEF Init
<1>3. Sound(impl, {}) /\ Contents(impl, {}) = {} /\ IsTable(impl) /\ impl.mask = 0 /\ impl.n = 0
  BY <1>1, NewTable DEF Sound
<1>4. ~ Rehashing /\ Target = impl /\ Moved = {}
  BY <1>2 DEF Rehashing, Target, Moved
<1>5. Stored(impl) = {}
  BY <1>3, StoredContents
<1>6. \A h \in Hashes : Find(impl, h) = <<>>
  BY <1>3, FindHit
<1>7. TypeOK
  <2>1. NoItem \in Slot /\ (0 + 1) * K \in Nat
    BY CmapAssumption DEF NoItem, Slot
  <2>. QED  BY <1>2, <1>3, <2>1 DEF TypeOK
<1>8. Pending /\ Phases /\ TablesSound
  BY <1>2, <1>3, <1>4 DEF Pending, Phases, TablesSound
<1>9. NodesCounted
  BY <1>2, <1>3, <1>5, FS_EmptySet DEF NodesCounted
<1>10. Multimap!Init
  BY <1>6 DEF Multimap!Init
<1>. QED  BY <1>7, <1>8, <1>9, <1>10 DEF Inv

LEMMA NextInv == Inv /\ Next => Inv' /\ MultimapStep
<1>1. ASSUME Inv, NEW x \in Nodes, InsertNode(x) PROVE Inv' /\ MultimapStep
  BY <1>1, InsertNodeStep
<1>2. ASSUME Inv, NEW x \in Nodes, RemoveNode(x) PROVE Inv' /\ MultimapStep
  BY <1>2, RemoveNodeStep
<1>3. ASSUME Inv, NEW x \in Nodes, NEW y \in Nodes, ReplaceNode(x, y) PROVE Inv' /\ MultimapStep
  BY <1>3, ReplaceNodeStep
<1>4. ASSUME Inv, WriterStep PROVE Inv' /\ MultimapStep
  BY <1>4, PlaceStep, PlaceFailsStep, ShiftStep, ShiftLastStep, CopyStep, PublishStep DEF WriterStep
<1>. QED  BY <1>1, <1>2, <1>3, <1>4 DEF Next

LEMMA StutterInv == Inv /\ UNCHANGED vars => Inv' /\ Answers' = Answers
BY DEF vars, Inv, TypeOK, Pending, Phases, TablesSound, NodesCounted, Target, Rehashing, Moved, Answers

LEMMA Invariant == Spec => []Inv
<1>1. Init => Inv
  BY InitInv
<1>2. Inv /\ [Next]_vars => Inv'
  BY NextInv, StutterInv
<1>. QED  BY <1>1, <1>2, PTL DEF Spec

-----------------------------------------------------------------------------
(* The theorems about the writer *)

(* The variables keep their types: cmap_insert_bfs, cmap_replace__ and     *)
(* cmap_try_rehash never leave the buckets and slots of their table, and   *)
(* the count of cmap_remove never goes below zero.                         *)
THEOREM TypeCorrect == Spec => []TypeOK
BY Invariant, PTL DEF Inv

LEMMA InvOneChain == Inv => OneChain
<1>. SUFFICES ASSUME Inv,
                     NEW t \in {impl} \cup (IF Rehashing THEN {neww} ELSE {}),
                     NEW X, X = IF t = Target THEN Moved ELSE {},
                     NEW c \in LiveCells(t) \ X, NEW d \in LiveCells(t) \ X,
                     At(t, c).hash = At(t, d).hash
              PROVE  c = d
  BY DEF OneChain
<1>1. Sound(t, X)
  BY TargetOf
<1>. QED  BY <1>1, OneLive

(* No two live slots of a table have the same hash, whatever sequence of   *)
(* insertions, removals, replacements and rehashes has been run, but for   *)
(* the copy a move of cmap_insert_bfs has just made.                       *)
THEOREM OneChainAlways == Spec => []OneChain
BY Invariant, InvOneChain, PTL

LEMMA InvHomes == Inv => Homes
<1>. SUFFICES ASSUME Inv,
                     NEW t \in {impl} \cup (IF Rehashing THEN {neww} ELSE {}),
                     NEW c \in LiveCells(t)
              PROVE  InHome(t, c)
  BY DEF Homes, InHome
<1>. QED  BY TargetOf DEF Sound

(* Every node is on the chain of its own hash, in a bucket that cmap_find  *)
(* visits for that hash, also in the middle of the moves and of a rehash.  *)
THEOREM HomesAlways == Spec => []Homes
BY Invariant, InvHomes, PTL

LEMMA InvRehashKeepsChains == Inv => RehashKeepsChains
<1>. SUFFICES ASSUME Inv, Rehashing, pc = "copy", NEW h \in Hashes
              PROVE  Find(neww, h) =
                       IF \E c \in CopiedSoFar : At(impl, c).hash = h THEN Find(impl, h) ELSE <<>>
  BY DEF RehashKeepsChains
<1>1. /\ Moved = {} /\ Sound(neww, {}) /\ Sound(impl, {}) /\ IsTable(impl) /\ pos \in Nat
      /\ Contents(neww, {}) = ContentsTo(impl, pos)
  BY TargetOf, MovedOf DEF Inv, TablesSound
<1>2. CopiedSoFar = {e \in LiveCells(impl) : Number(e) < pos}
  <2>1. ASSUME NEW e \in LiveCells(impl) PROVE e[1] * K + e[2] <= pos <=> Number(e) < pos
    <3>1. e \in Cell(impl)
      BY DEF LiveCells
    <3>2. Number(e) \in Nat
      BY <1>1, <3>1, NumberOf
    <3>3. e[1] \in Nat /\ e[2] \in Nat /\ e[1] * K \in Nat
      BY <1>1, <3>1, CellOf, CmapAssumption DEF Slots
    <3>. QED  BY <1>1, <3>2, <3>3 DEF Number
  <2>. QED  BY <2>1 DEF CopiedSoFar
<1>3. CASE \E c \in CopiedSoFar : At(impl, c).hash = h
  <2>1. PICK c \in LiveCells(impl) : At(impl, c).hash = h /\ Number(c) < pos
    BY <1>2, <1>3
  <2>2. At(impl, c) \in Contents(neww, {})
    BY <1>1, <2>1 DEF ContentsTo
  <2>. QED  BY <1>1, <1>3, <2>1, <2>2, FindLive, FindContent
<1>4. CASE ~ \E c \in CopiedSoFar : At(impl, c).hash = h
  <2>1. \A y \in Contents(neww, {}) : y.hash # h
    BY <1>1, <1>2, <1>4 DEF ContentsTo
  <2>. QED  BY <1>1, <1>4, <2>1, FindHit
<1>. QED  BY <1>3, <1>4

(* Whenever cmap_try_rehash comes to an old slot, the new table answers    *)
(* every search as the old one does, restricted to the slots before it.    *)
THEOREM RehashKeepsChainsAlways == Spec => []RehashKeepsChains
BY Invariant, InvRehashKeepsChains, PTL

(* A cmap implements the multimap: every step of the writer leaves every   *)
(* answer of cmap_find alone, or is one insertion, removal or replacement  *)
(* of a node; the moves, the copying and the publication of a table show   *)
(* in no answer.                                                           *)
THEOREM Refinement == Spec => MultimapSpec
<1>1. Init => Multimap!Init
  BY InitInv
<1>2. Inv /\ [Next]_vars => [Multimap!Next]_Answers
  BY NextInv, StutterInv DEF MultimapStep
<1>3. Inv /\ [Next]_vars => [Multimap!Next]_[h \in Hashes |-> Find(impl, h)]
  BY <1>2 DEF Answers
<1>. QED  BY <1>1, <1>3, Invariant, PTL DEF Spec, MultimapSpec, Multimap!Spec

-----------------------------------------------------------------------------
(* What a step of the writer does to the first bucket of a search *)

Missed(t, h) == FindInBucket(t, Bucket1(t, h), h) = <<>>

LEMMA SameBucket ==
  ASSUME NEW t, NEW u, NEW b, u.bucket[b] = t.bucket[b], NEW h
  PROVE  FindInBucket(u, b, h) = FindInBucket(t, b, h)
BY DEF FindInBucket, WithHash

(* At most the chain of the cell c changes. *)
ChainChanged(u, t, c) ==
  /\ u.mask = t.mask /\ u.basis = t.basis
  /\ \A b \in 0..t.mask : \A s \in Slots :
       /\ u.bucket[b][s].hash = t.bucket[b][s].hash
       /\ <<b, s>> # c => u.bucket[b][s] = t.bucket[b][s]

LEMMA OtherChain ==
  ASSUME NEW t, NEW c, NEW u, ChainChanged(u, t, c), NEW b \in 0..t.mask, NEW h,
         \A s \in Slots : t.bucket[b][s].hash = h => <<b, s>> # c
  PROVE  FindInBucket(u, b, h) = FindInBucket(t, b, h)
<1>1. WithHash(u, b, h) = WithHash(t, b, h)
  BY DEF WithHash, ChainChanged
<1>2. CASE WithHash(t, b, h) = {}
  BY <1>1, <1>2 DEF FindInBucket
<1>3. CASE WithHash(t, b, h) # {}
  <2>1. PICK s : s = First(WithHash(t, b, h))
    OBVIOUS
  <2>2. s \in Slots /\ t.bucket[b][s].hash = h
    BY <1>3, <2>1, FirstSlot DEF WithHash
  <2>3. u.bucket[b][s] = t.bucket[b][s]
    BY <2>2 DEF ChainChanged
  <2>. QED  BY <1>1, <1>3, <2>1, <2>3 DEF FindInBucket
<1>. QED  BY <1>2, <1>3

LEMMA ChainChangedMiss ==
  ASSUME NEW t, Sound(t, {}), NEW h \in Hashes, NEW c \in Cell(t), NEW u, ChainChanged(u, t, c),
         Missed(t, h), At(t, c).hash = h /\ At(t, c).chain = <<>> => Find(t, h) = <<>>
  PROVE  Missed(u, h) \/ Find(t, h) = <<>>
<1>1. PICK b : b = Bucket1(t, h)
  OBVIOUS
<1>2. b \in 0..t.mask /\ Bucket1(u, h) = b /\ FindInBucket(t, b, h) = <<>>
  BY <1>1, BucketsOf, SameShape DEF Sound, ChainChanged, Missed
<1>3. CASE At(t, c).hash = h /\ At(t, c).chain = <<>>
  BY <1>3
<1>4. CASE At(t, c).hash = h /\ At(t, c).chain # <<>>
  <2>1. c \in LiveCells(t)
    BY <1>4 DEF LiveCells
  <2>2. FindInBucket(t, c[1], h) # <<>>
    BY <1>4, <2>1, FindHere
  <2>3. c[1] # b
    BY <1>2, <2>2
  <2>4. FindInBucket(u, b, h) = FindInBucket(t, b, h)
    BY <1>2, <2>3, OtherChain
  <2>. QED  BY <1>2, <2>4 DEF Missed
<1>5. CASE At(t, c).hash # h
  <2>1. \A s \in Slots : t.bucket[b][s].hash = h => <<b, s>> # c
    BY <1>5 DEF At
  <2>2. FindInBucket(u, b, h) = FindInBucket(t, b, h)
    BY <1>2, <2>1, OtherChain
  <2>. QED  BY <1>2, <2>2 DEF Missed
<1>. QED  BY <1>3, <1>4, <1>5

LEMMA CellStored ==
  ASSUME NEW m, NEW T \in [0..m -> [Slots -> Slot]], NEW b \in 0..m, NEW s \in Slots, NEW y,
         NEW U, U = [T EXCEPT ![b] = [T[b] EXCEPT ![s] = y]]
  PROVE  \A a \in 0..m : \A r \in Slots : U[a][r] = IF a = b /\ r = s THEN y ELSE T[a][r]
OBVIOUS

LEMMA EditedChain ==
  ASSUME NEW t, IsTable(t), NEW b \in 0..t.mask, NEW s \in Slots, NEW e,
         NEW u, u = [t EXCEPT !.bucket[b][s].chain = e]
  PROVE  ChainChanged(u, t, <<b, s>>) /\ IsTable(t)
<1>1. /\ DOMAIN t = {"mask", "basis", "n", "bucket"}
      /\ t.bucket \in [0..t.mask -> [Slots -> Slot]]
  BY DEF IsTable
<1>2. PICK y : y = [t.bucket[b][s] EXCEPT !.chain = e]
  OBVIOUS
<1>3. y.hash = t.bucket[b][s].hash
  BY <1>1, <1>2 DEF Slot
<1>4. /\ u.mask = t.mask /\ u.basis = t.basis
      /\ u.bucket = [t.bucket EXCEPT ![b] = [t.bucket[b] EXCEPT ![s] = y]]
  BY <1>1, <1>2
<1>5. ASSUME NEW a \in 0..t.mask, NEW r \in Slots
      PROVE  u.bucket[a][r] = IF a = b /\ r = s THEN y ELSE t.bucket[a][r]
  <2>1. PICK T, U : T = t.bucket /\ U = u.bucket
    OBVIOUS
  <2>2. U[a][r] = IF a = b /\ r = s THEN y ELSE T[a][r]
    <3>1. T \in [0..t.mask -> [Slots -> Slot]] /\ U = [T EXCEPT ![b] = [T[b] EXCEPT ![s] = y]]
      BY <1>1, <1>4, <2>1
    <3>. QED  BY <3>1, CellStored
  <2>. QED  BY <2>1, <2>2
<1>. QED  BY <1>3, <1>4, <1>5 DEF ChainChanged

LEMMA StoredChain ==
  ASSUME NEW t, IsTable(t), NEW b \in 0..t.mask, NEW s \in Slots,
         NEW y, y.hash = t.bucket[b][s].hash,
         NEW u, u = [SetSlot(t, b, s, y) EXCEPT !.n = @ + 1]
  PROVE  ChainChanged(u, t, <<b, s>>)
<1>1. /\ DOMAIN t = {"mask", "basis", "n", "bucket"}
      /\ t.bucket \in [0..t.mask -> [Slots -> Slot]]
  BY DEF IsTable
<1>2. /\ u.mask = t.mask /\ u.basis = t.basis
      /\ u.bucket = [t.bucket EXCEPT ![b] = [t.bucket[b] EXCEPT ![s] = y]]
  BY <1>1 DEF SetSlot
<1>3. ASSUME NEW a \in 0..t.mask, NEW r \in Slots
      PROVE  u.bucket[a][r] = IF a = b /\ r = s THEN y ELSE t.bucket[a][r]
  <2>1. PICK T, U : T = t.bucket /\ U = u.bucket
    OBVIOUS
  <2>2. U[a][r] = IF a = b /\ r = s THEN y ELSE T[a][r]
    <3>1. T \in [0..t.mask -> [Slots -> Slot]] /\ U = [T EXCEPT ![b] = [T[b] EXCEPT ![s] = y]]
      BY <1>1, <1>2, <2>1
    <3>. QED  BY <3>1, CellStored
  <2>. QED  BY <2>1, <2>2
<1>. QED  BY <1>2, <1>3 DEF ChainChanged

LEMMA ReplacedMiss ==
  ASSUME NEW t, Sound(t, {}), NEW g \in Hashes, Find(t, g) # <<>>, NEW e,
         NEW v, v = ReplacedTable(t, g, e),
         NEW u, u.bucket = v.bucket, u.mask = t.mask, u.basis = t.basis,
         NEW h \in Hashes, Missed(t, h)
  PROVE  Missed(u, h) \/ Find(t, h) = <<>>
<1>1. PICK b, s, c : b = ReplacedBucket(t, g) /\ s = ReplacedSlot(t, g) /\ c = <<b, s>>
  OBVIOUS
<1>2. /\ b \in 0..t.mask /\ s \in Slots /\ c \in LiveCells(t)
  BY <1>1, ReplacedCell
<1>3. v = [t EXCEPT !.bucket[b][s].chain = e]
  BY <1>1 DEF ReplacedTable
<1>4. IsTable(t) /\ c \in Cell(t) /\ At(t, c).chain # <<>>
  BY <1>2 DEF Sound, LiveCells
<1>5. ChainChanged(v, t, <<b, s>>)
  BY <1>2, <1>3, <1>4, EditedChain
<1>6. ChainChanged(u, t, c)
  BY <1>1, <1>5 DEF ChainChanged
<1>. QED  BY <1>4, <1>6, ChainChangedMiss

(* Which answers a step without a counted store in the first bucket changes *)
LEMMA InstantOrKept ==
  ASSUME Inv, Next, ~ (Rehashing /\ neww' = NoTable), NEW h \in Hashes, Missed(impl, h),
         ~ SetBucketStep(Bucket1(impl, h))
  PROVE  Missed(impl', h) \/ Find(impl, h) = <<>>
<1>0. PICK t, b1 : t = impl /\ b1 = Bucket1(impl, h)
  OBVIOUS
<1>1. IsTable(t) /\ b1 \in 0..t.mask
  BY <1>0, TargetOf, BucketsOf
<1>2. CASE impl' = impl
  BY <1>2
<1>3. ASSUME impl'.mask = impl.mask, impl'.basis = impl.basis, impl'.bucket[b1] = impl.bucket[b1]
      PROVE  Missed(impl', h)
  <2>1. Bucket1(impl', h) = b1
    BY <1>0, <1>3, SameShape
  <2>. QED  BY <1>0, <1>3, <2>1, SameBucket DEF Missed
<1>4. CASE Rehashing
  <2>1. CASE Place \/ Shift \/ ShiftLast
    BY Zenon, <1>2, <1>4, <2>1 DEF Place, Shift, ShiftLast, InsertDup, InsertBucket, StoreLast, StoreMore
  <2>2. ~ Publish
    BY <1>4 DEF Publish
  <2>3. pc # "idle"
    BY <1>4 DEF Inv, Phases
  <2>. QED  BY Zenon, <1>2, <2>1, <2>2, <2>3
            DEF Next, WriterStep, InsertNode, RemoveNode, ReplaceNode, PlaceFails, Copy
<1>5. CASE ~ Rehashing
  <2>0. Target = impl /\ neww = NoTable
    BY <1>5, TargetOf
  <2>1. CASE Shift
    <3>1. PICK c, y : impl' = SetSlot(t, c[1], c[2], y) /\ c = Last(path) /\ pc = "shift"
      BY <1>0, <1>5, <2>0, <2>1 DEF Shift, StoreMore
    <3>2. c[1] # b1
      BY <1>0, <1>5, <3>1 DEF SetBucketStep
    <3>. QED  BY <1>0, <1>1, <1>3, <3>1, <3>2 DEF SetSlot, IsTable
  <2>2. CASE ShiftLast
    <3>1. PICK c : /\ impl' = [SetSlot(t, c[1], c[2], item) EXCEPT !.n = @ + 1]
                   /\ c = Last(path) /\ pc = "shift"
      BY <1>0, <1>5, <2>0, <2>2 DEF ShiftLast, StoreLast, Last
    <3>2. c[1] # b1
      BY <1>0, <1>5, <3>1 DEF SetBucketStep
    <3>. QED  BY <1>0, <1>1, <1>3, <3>1, <3>2 DEF SetSlot, IsTable
  <2>3. CASE Place
    <3>0. PICK g : g = item.hash
      OBVIOUS
    <3>1. /\ pc = "place" /\ Moved = {} /\ Sound(t, {}) /\ g \in Hashes /\ t = Target
      BY <1>0, <1>5, <2>0, <2>3, <3>0, TargetOf, MovedOf, ItemOf DEF Place, OneChainOf
    <3>2. CASE Dups(t, g) # {} /\ InsertDup(Candidates(t, g)[First(Dups(t, g))])
      <4>1. PICK b, s, c : /\ b = Candidates(t, g)[First(Dups(t, g))]
                           /\ s = First(WithHash(t, b, g)) /\ c = <<b, s>>
        OBVIOUS
      <4>2. /\ ChainCell(t, g, c) /\ b \in 0..t.mask /\ s \in Slots
            /\ Find(t, g) = At(t, c).chain
        BY <3>1, <3>2, <4>1, DupSlot
      <4>3. c \in Cell(t) /\ At(t, c).hash = g /\ t.bucket[b][s].hash = g
        BY <4>1, <4>2 DEF ChainCell, At
      <4>4. PICK y : y = [item EXCEPT !.chain = @ \o t.bucket[b][s].chain]
        OBVIOUS
      <4>5. y.hash = g
        <5>1. item \in Slot
          BY DEF Inv, TypeOK
        <5>. QED  BY <3>0, <4>4, <5>1 DEF Slot
      <4>6. impl' = [SetSlot(t, b, s, y) EXCEPT !.n = @ + 1]
        BY Zenon, <1>5, <3>0, <3>1, <3>2, <4>1, <4>4 DEF InsertDup, StoreLast
      <4>7. ChainChanged(impl', t, <<b, s>>)
        BY <1>1, <4>2, <4>3, <4>5, <4>6, StoredChain
      <4>8. At(t, c).hash = h /\ At(t, c).chain = <<>> => Find(t, h) = <<>>
        BY <4>2, <4>3
      <4>. QED  BY <1>0, <3>1, <4>1, <4>3, <4>7, <4>8, ChainChangedMiss
    <3>3. CASE Dups(t, g) = {} /\ InsertBucket(Candidates(t, g)[First(Room(t, g))])
      <4>1. PICK b, s : impl' = [SetSlot(t, b, s, item) EXCEPT !.n = @ + 1] /\ pc' = "idle"
        BY <1>5, <3>1, <3>3 DEF InsertBucket, StoreLast
      <4>2. WithHash(t, Bucket1(t, g), g) = {} /\ WithHash(t, Bucket2(t, g), g) = {}
        BY <3>3, NoDups DEF NoneWithHash
      <4>3. impl'.bucket[b1] = impl.bucket[b1]
        BY <1>0, <1>5, <3>0, <3>1, <4>1, <4>2 DEF SetBucketStep
      <4>4. impl'.mask = impl.mask /\ impl'.basis = impl.basis
        BY <1>0, <1>1, <4>1 DEF SetSlot, IsTable
      <4>. QED  BY <1>3, <4>3, <4>4
    <3>4. CASE UNCHANGED impl
      BY <1>2, <3>4
    <3>. QED  BY <2>3, <3>0, <3>1, <3>2, <3>3, <3>4 DEF Place
  <2>7. pc = "idle" => Sound(t, {})
    BY <1>0, <1>5, TargetOf, MovedOf
  <2>8. ASSUME NEW x \in Stored(t), pc = "idle", NEW g, g = NodeHash[x]
        PROVE  g \in Hashes /\ Find(t, g) # <<>>
    <3>1. x \in Nodes
      BY <2>7, <2>8, StoredNodes
    <3>2. g \in Hashes
      BY <2>8, <3>1, CmapAssumption
    <3>3. x \in ToSet(Find(t, g))
      BY SMTT(40), <2>7, <2>8, <3>1, <3>2, OnItsChain
    <3>. QED  BY <3>2, <3>3 DEF ToSet
  <2>4. ASSUME NEW x \in Nodes, RemoveNode(x)
        PROVE  Missed(impl', h) \/ Find(impl, h) = <<>>
    <3>1. pc = "idle" /\ x \in Stored(t)
      BY <1>0, <2>4 DEF RemoveNode
    <3>2. PICK g, e, v : /\ g = NodeHash[x]
                         /\ e = RemoveFirst(t.bucket[ReplacedBucket(t, g)][ReplacedSlot(t, g)].chain, x)
                         /\ v = ReplacedTable(t, g, e)
      OBVIOUS
    <3>3. v = Replaced(impl, NodeHash[x], LAMBDA c : RemoveFirst(c, x))
      BY Zenon, <1>0, <3>2 DEF Replaced, ReplacedBucket, ReplacedSlot, ReplacedTable
    <3>4. impl' = [v EXCEPT !.n = @ - 1]
      BY <2>4, <3>3 DEF RemoveNode
    <3>5. /\ v.mask = t.mask /\ v.basis = t.basis
          /\ impl'.bucket = v.bucket /\ impl'.mask = v.mask /\ impl'.basis = v.basis
      BY <1>1, <3>2, <3>4 DEF ReplacedTable, IsTable
    <3>6. g \in Hashes /\ Find(t, g) # <<>>
      BY SMTT(40), <2>8, <3>1, <3>2
    <3>. QED  BY <1>0, <2>7, <3>1, <3>2, <3>5, <3>6, ReplacedMiss
  <2>5. ASSUME NEW x \in Nodes, NEW y \in Nodes, ReplaceNode(x, y)
        PROVE  Missed(impl', h) \/ Find(impl, h) = <<>>
    <3>1. pc = "idle" /\ x \in Stored(t)
      BY <1>0, <2>5 DEF ReplaceNode
    <3>2. PICK g, e, v : /\ g = NodeHash[x]
                         /\ e = ReplaceAll(t.bucket[ReplacedBucket(t, g)][ReplacedSlot(t, g)].chain, x, y)
                         /\ v = ReplacedTable(t, g, e)
      OBVIOUS
    <3>3. v = Replaced(impl, NodeHash[x], LAMBDA c : ReplaceAll(c, x, y))
      BY Zenon, <1>0, <3>2 DEF Replaced, ReplacedBucket, ReplacedSlot, ReplacedTable
    <3>4. impl' = v
      BY <2>5, <3>3 DEF ReplaceNode
    <3>5. v.mask = t.mask /\ v.basis = t.basis
      BY <1>1, <3>2 DEF ReplacedTable, IsTable
    <3>6. g \in Hashes /\ Find(t, g) # <<>>
      BY <2>8, <3>1, <3>2
    <3>. QED  BY <1>0, <2>7, <3>1, <3>2, <3>4, <3>5, <3>6, ReplacedMiss
  <2>6. ~ Publish /\ ~ Copy
    BY <1>5 DEF Inv, Phases, Publish, Copy
  <2>. QED  BY <1>2, <2>1, <2>2, <2>3, <2>4, <2>5, <2>6
            DEF Next, WriterStep, InsertNode, PlaceFails
<1>. QED  BY <1>4, <1>5

-----------------------------------------------------------------------------
(* The readers *)

Reader == [pc : {"idle", "first", "second", "recheck", "returned", "undefined"}, hash : Hashes,
           moved : BOOLEAN, freed : BOOLEAN, node : Seq(Nodes), seen : SUBSET Seq(Nodes)]

(* The state f of a reader, next to the published table *)
SearchOK(f) ==
  /\ f.pc \in {"first", "second", "recheck"} => Find(impl, f.hash) \in f.seen
  /\ f.pc = "second" /\ ~ f.freed /\ ~ f.moved => Missed(impl, f.hash) \/ <<>> \in f.seen
  /\ f.pc = "recheck" => f.node = <<>>
  /\ f.pc = "recheck" /\ ~ f.freed /\ ~ f.moved => <<>> \in f.seen
  /\ f.pc = "returned" => f.node \in f.seen

ReadersInv ==
  /\ find \in [Readers -> Reader]
  /\ \A r \in Readers : SearchOK(find[r])

LEMMA BucketAnswer ==
  ASSUME NEW t, NEW X, Sound(t, X), NEW b \in 0..t.mask, NEW h \in Hashes,
         FindInBucket(t, b, h) # <<>>
  PROVE  FindInBucket(t, b, h) = Find(t, h)
<1>1. PICK x \in Contents(t, X) : x.hash = h /\ x.chain = FindInBucket(t, b, h)
  BY BucketHit
<1>. QED  BY <1>1, FindContent

LEMMA PublishedSound ==
  ASSUME Inv
  PROVE  \E X : Sound(impl, X)
BY TargetOf

LEMMA ReaderInit == ReadersInit => ReadersInv
<1>. SUFFICES ASSUME ReadersInit PROVE ReadersInv
  OBVIOUS
<1>1. PICK h \in Hashes : find = [r \in Readers |-> Idle(h)]
  BY DEF ReadersInit
<1>2. Idle(h) \in Reader /\ Idle(h).pc = "idle"
  BY DEF Idle, Reader
<1>. QED  BY <1>1, <1>2 DEF ReadersInv, SearchOK

LEMMA FoundReader ==
  ASSUME find \in [Readers -> Reader], NEW r \in Readers, NEW c \in Seq(Nodes),
         NEW p \in {"first", "second", "recheck", "returned", "undefined"}, NEW m \in BOOLEAN,
         find' = [find EXCEPT ![r].node = c, ![r].pc = p, ![r].moved = m]
  PROVE  /\ find' \in [Readers -> Reader]
         /\ find'[r].node = c /\ find'[r].pc = p /\ find'[r].moved = m
         /\ find'[r].hash = find[r].hash /\ find'[r].freed = find[r].freed
         /\ find'[r].seen = find[r].seen
         /\ \A q \in Readers : q # r => find'[q] = find[q]
BY ZenonT(40) DEF Reader

LEMMA NextPhase ==
  ASSUME find \in [Readers -> Reader], NEW r \in Readers,
         NEW p \in {"first", "second", "recheck", "returned", "undefined"},
         find' = [find EXCEPT ![r].pc = p]
  PROVE  /\ find' \in [Readers -> Reader]
         /\ find'[r].pc = p
         /\ find'[r].hash = find[r].hash /\ find'[r].freed = find[r].freed
         /\ find'[r].seen = find[r].seen /\ find'[r].moved = find[r].moved
         /\ find'[r].node = find[r].node
         /\ \A q \in Readers : q # r => find'[q] = find[q]
BY DEF Reader

LEMMA SearchStep ==
  ASSUME Inv, ReadersInv, NEW r \in Readers, NEW b,
         b \in {Bucket1(impl, find[r].hash), Bucket2(impl, find[r].hash)},
         NEW miss, \/ miss = "second" /\ find[r].pc = "first" /\ b = Bucket1(impl, find[r].hash)
                   \/ miss = "recheck" /\ find[r].pc = "second" /\ b = Bucket2(impl, find[r].hash),
         Search(r, b, miss), UNCHANGED impl
  PROVE  /\ find' \in [Readers -> Reader] /\ SearchOK(find'[r])
         /\ \A q \in Readers : q # r => find'[q] = find[q]
<1>1. PICK f, h, c : f = find[r] /\ h = f.hash /\ c = FindInBucket(impl, b, h)
  OBVIOUS
<1>2. f \in Reader /\ h \in Hashes /\ SearchOK(f)
  BY <1>1 DEF ReadersInv, Reader
<1>3. PICK X : Sound(impl, X)
  BY PublishedSound
<1>4. b \in 0..impl.mask
  BY <1>1, <1>2, <1>3, BucketsOf DEF Sound
<1>5. Find(impl, h) \in f.seen /\ Find(impl, h) \in Seq(Nodes)
  BY <1>1, <1>2, <1>3, OnItsChain DEF SearchOK
<1>6. CASE f.freed
  <2>1. find' = [find EXCEPT ![r].pc = "undefined"]
    BY <1>1, <1>6 DEF Search
  <2>2. /\ find' \in [Readers -> Reader] /\ find'[r].pc = "undefined"
        /\ \A q \in Readers : q # r => find'[q] = find[q]
    BY <2>1, NextPhase DEF ReadersInv
  <2>. QED  BY <2>2 DEF SearchOK
<1>7. CASE ~ f.freed /\ c # <<>>
  <2>1. PICK m \in BOOLEAN : m = (f.moved /\ miss # "second")
    OBVIOUS
  <2>2. find' = [find EXCEPT ![r].node = c, ![r].pc = "returned", ![r].moved = m]
    BY <1>1, <1>2, <1>7, <2>1 DEF Search, ReadersInv
  <2>3. c = Find(impl, h)
    BY SMTT(40), <1>1, <1>2, <1>3, <1>4, <1>7, BucketAnswer
  <2>4. /\ find' \in [Readers -> Reader] /\ find'[r].pc = "returned" /\ find'[r].node = c
        /\ find'[r].seen = f.seen
        /\ \A q \in Readers : q # r => find'[q] = find[q]
    <3>1. c \in Seq(Nodes)
      BY <1>5, <2>3
    <3>. QED  BY ZenonT(40), <1>1, <2>2, <3>1, FoundReader DEF ReadersInv
  <2>. QED  BY <1>5, <2>3, <2>4 DEF SearchOK
<1>8. CASE ~ f.freed /\ c = <<>>
  <2>1. PICK m \in BOOLEAN : m = (f.moved /\ miss # "second")
    OBVIOUS
  <2>2. find' = [find EXCEPT ![r].node = c, ![r].pc = miss, ![r].moved = m]
    BY <1>1, <1>2, <1>8, <2>1 DEF Search, ReadersInv
  <2>3. c \in Seq(Nodes)
    BY <1>8
  <2>4. /\ find' \in [Readers -> Reader] /\ find'[r].pc = miss /\ find'[r].node = <<>>
        /\ find'[r].moved = m /\ find'[r].freed = f.freed
        /\ find'[r].hash = h /\ find'[r].seen = f.seen
        /\ \A q \in Readers : q # r => find'[q] = find[q]
    BY ZenonT(40), <1>1, <1>8, <2>2, <2>3, FoundReader DEF ReadersInv
  <2>5. CASE miss = "second"
    <3>1. Missed(impl, h)
      BY <1>1, <1>8, <2>5 DEF Missed
    <3>. QED  BY <1>5, <2>4, <2>5, <3>1 DEF SearchOK
  <2>6. CASE miss = "recheck"
    <3>1. b = Bucket2(impl, h) /\ f.pc = "second" /\ (m <=> f.moved)
      <4>1. b = Bucket2(impl, h) /\ f.pc = "second"
        BY <1>1, <2>6
      <4>2. miss # "second"
        BY <2>6
      <4>3. m <=> f.moved
        BY <2>1, <4>2, Zenon
      <4>. QED  BY <4>1, <4>3
    <3>2. Missed(impl, h) => Find(impl, h) = <<>>
      BY <1>1, <1>8, <3>1 DEF Missed, Find
    <3>3. ~ f.freed /\ ~ m => <<>> \in f.seen
      BY <1>1, <1>2, <1>5, <3>1, <3>2 DEF SearchOK
    <3>. QED  BY <1>5, <1>8, <2>4, <2>6, <3>3 DEF SearchOK
  <2>. QED  BY <2>5, <2>6
<1>. QED  BY <1>6, <1>7, <1>8

LEMMA RecheckStep ==
  ASSUME Inv, ReadersInv, NEW r \in Readers, Recheck(r), UNCHANGED impl
  PROVE  /\ find' \in [Readers -> Reader] /\ SearchOK(find'[r])
         /\ \A q \in Readers : q # r => find'[q] = find[q]
<1>1. PICK f, p : /\ f = find[r]
                  /\ p = CASE f.freed -> "undefined"
                           [] ~ f.freed /\ f.moved -> "first"
                           [] OTHER -> "returned"
  OBVIOUS
<1>2. f \in Reader /\ SearchOK(f) /\ f.pc = "recheck" /\ find' = [find EXCEPT ![r].pc = p]
  BY <1>1 DEF ReadersInv, Recheck
<1>3. f.freed \in BOOLEAN /\ f.moved \in BOOLEAN
  BY <1>2 DEF Reader
<1>4. \/ f.freed /\ p = "undefined"
      \/ ~ f.freed /\ f.moved /\ p = "first"
      \/ ~ f.freed /\ ~ f.moved /\ p = "returned"
  BY <1>1, <1>3
<1>5. p \in {"first", "second", "recheck", "returned", "undefined"}
  BY <1>4
<1>6. /\ find' \in [Readers -> Reader]
      /\ find'[r].pc = p
      /\ find'[r].hash = f.hash /\ find'[r].seen = f.seen /\ find'[r].node = f.node
      /\ \A q \in Readers : q # r => find'[q] = find[q]
  BY <1>1, <1>2, <1>5, NextPhase DEF ReadersInv
<1>. QED  BY <1>2, <1>4, <1>6 DEF SearchOK

LEMMA ReaderStepInv ==
  ASSUME Inv, ReadersInv, UNCHANGED vars, NEW r \in Readers,
         ReaderStep(r) \/ \E h \in Hashes : Call(r, h)
  PROVE  ReadersInv'
<1>1. impl' = impl
  BY DEF vars
<1>2. find \in [Readers -> Reader] /\ SearchOK(find[r]) /\ find[r] \in Reader
  BY DEF ReadersInv
<1>3. /\ find' \in [Readers -> Reader] /\ SearchOK(find'[r])
      /\ \A q \in Readers : q # r => find'[q] = find[q]
  <2>1. CASE First1(r)
    BY <1>1, <2>1, SearchStep DEF First1
  <2>2. CASE Second1(r)
    BY <1>1, <2>2, SearchStep DEF Second1
  <2>3. CASE Recheck(r)
    BY <1>1, <2>3, RecheckStep
  <2>4. CASE Return(r)
    <3>1. Idle(find[r].hash) \in Reader /\ Idle(find[r].hash).pc = "idle"
      BY <1>2 DEF Idle, Reader
    <3>. QED  BY <1>2, <2>4, <3>1 DEF Return, SearchOK
  <2>5. ASSUME NEW h \in Hashes, Call(r, h)
        PROVE  /\ find' \in [Readers -> Reader] /\ SearchOK(find'[r])
               /\ \A q \in Readers : q # r => find'[q] = find[q]
    <3>1. PICK f : f = [Idle(h) EXCEPT !.pc = "first", !.seen = {Find(impl, h)}]
      OBVIOUS
    <3>2. Find(impl, h) \in Seq(Nodes)
      BY PublishedSound, OnItsChain
    <3>3. f \in Reader /\ f.pc = "first" /\ f.hash = h /\ f.seen = {Find(impl, h)}
      <4>1. PICK S : S = {Find(impl, h)}
        OBVIOUS
      <4>2. S \in SUBSET Seq(Nodes)
        BY <3>2, <4>1
      <4>3. Idle(h) \in Reader
        BY DEF Idle, Reader
      <4>4. f = [Idle(h) EXCEPT !.pc = "first", !.seen = S] /\ Idle(h).hash = h
        BY <3>1, <4>1 DEF Idle
      <4>. QED  BY <4>1, <4>2, <4>3, <4>4 DEF Reader
    <3>4. find' = [find EXCEPT ![r] = f]
      BY Zenon, <2>5, <3>1 DEF Call
    <3>. QED  BY <1>2, <3>3, <3>4 DEF SearchOK
  <2>. QED  BY <2>1, <2>2, <2>3, <2>4, <2>5 DEF ReaderStep
<1>4. \A q \in Readers : SearchOK(find'[q])
  BY <1>3 DEF ReadersInv
<1>. QED  BY <1>1, <1>3, <1>4 DEF ReadersInv, SearchOK, Missed

LEMMA WriteObserved ==
  ASSUME Inv, Inv', Next, ReadersInv, NEW r \in Readers,
         find' = [q \in Readers |-> Observe(q)]
  PROVE  find'[r] \in Reader /\ SearchOK(find[r])'
<1>1. PICK f, g, h : f = find[r] /\ g = find'[r] /\ h = f.hash
  OBVIOUS
<1>2. f \in Reader /\ h \in Hashes /\ SearchOK(f) /\ g = Observe(r)
  BY <1>1 DEF ReadersInv, Reader
<1>3. CASE f.pc \notin {"first", "second", "recheck"}
  <2>1. g = f
    BY Zenon, <1>1, <1>2, <1>3 DEF Observe, InSearch
  <2>. QED  BY <1>1, <1>2, <1>3, <2>1 DEF SearchOK
<1>4. CASE f.pc \in {"first", "second", "recheck"}
  <2>1. PICK e \in BOOLEAN, m \in BOOLEAN, s \in {f.seen \cup {Find(impl', h)}} :
          /\ e = (f.freed \/ (Rehashing /\ neww' = NoTable))
          /\ m = (f.moved \/ (f.pc # "first" /\ ~ f.freed /\ SetBucketStep(Bucket1(impl, h))))
          /\ s = f.seen \cup {Find(impl', h)}
    OBVIOUS
  <2>2. g = [f EXCEPT !.freed = e, !.moved = m, !.seen = s]
    BY Zenon, <1>1, <1>2, <1>4, <2>1 DEF Observe, InSearch
  <2>3. Find(impl', h) \in Seq(Nodes)
    <3>1. Sound(Target', Moved') /\ (Rehashing' => Sound(impl', {}))
      BY DEF Inv, TablesSound
    <3>2. \E X : Sound(impl', X)
      BY <3>1 DEF Target
    <3>. QED  BY <1>2, <3>2, OnItsChain
  <2>4. /\ g \in Reader /\ g.pc = f.pc /\ g.hash = h /\ g.node = f.node
        /\ g.freed = e /\ g.moved = m /\ g.seen = s
    <3>1. s \in SUBSET Seq(Nodes)
      BY <1>2, <2>1, <2>3 DEF Reader
    <3>. QED  BY <1>1, <1>2, <2>2, <3>1 DEF Reader
  <2>5. f.pc = "second" /\ ~ e /\ ~ m => Missed(impl', h) \/ <<>> \in s
    <3>1. SUFFICES ASSUME f.pc = "second", ~ e, ~ m PROVE Missed(impl', h) \/ <<>> \in s
      OBVIOUS
    <3>2. /\ ~ f.freed /\ ~ f.moved /\ ~ (Rehashing /\ neww' = NoTable)
          /\ ~ SetBucketStep(Bucket1(impl, h))
      BY <2>1, <3>1
    <3>3. Missed(impl, h) \/ <<>> \in f.seen
      BY <1>1, <1>2, <3>1, <3>2 DEF SearchOK
    <3>4. Find(impl, h) \in f.seen
      BY <1>1, <1>2, <3>1 DEF SearchOK
    <3>. QED  BY <1>2, <2>1, <3>2, <3>3, <3>4, InstantOrKept
  <2>6. Find(impl', h) \in s /\ f.seen \subseteq s
    BY <2>1
  <2>7. (~ e => ~ f.freed) /\ (~ m => ~ f.moved)
    BY <2>1
  <2>. QED  BY <1>1, <1>2, <1>4, <2>4, <2>5, <2>6, <2>7 DEF SearchOK
<1>. QED  BY <1>3, <1>4

LEMMA ReadersInvariant == ReadersSpec => [](Inv /\ ReadersInv)
<1>1. ReadersInit => Inv /\ ReadersInv
  BY ReaderInit, InitInv DEF ReadersInit
<1>2. Inv /\ ReadersInv /\ [ReadersNext]_allVars => (Inv /\ ReadersInv)'
  <2>1. ASSUME Inv, ReadersInv, Write PROVE Inv' /\ ReadersInv'
    <3>1. Inv' /\ Next /\ find' = [q \in Readers |-> Observe(q)]
      BY <2>1, NextInv DEF Write
    <3>2. \A r \in Readers : find'[r] \in Reader /\ SearchOK(find[r])'
      BY <2>1, <3>1, WriteObserved
    <3>3. find' \in [Readers -> Reader]
      BY <3>1, <3>2
    <3>. QED  BY <3>1, <3>2, <3>3 DEF ReadersInv
  <2>2. ASSUME Inv, ReadersInv, UNCHANGED vars, NEW r \in Readers,
               ReaderStep(r) \/ \E h \in Hashes : Call(r, h)
        PROVE  Inv' /\ ReadersInv'
    BY <2>2, ReaderStepInv, StutterInv
  <2>3. ASSUME Inv, ReadersInv, UNCHANGED allVars PROVE Inv' /\ ReadersInv'
    <3>1. UNCHANGED vars /\ find' = find
      BY <2>3 DEF allVars
    <3>2. impl' = impl
      BY <3>1 DEF vars
    <3>. QED  BY <2>3, <3>1, <3>2, StutterInv DEF ReadersInv, SearchOK, Missed
  <2>. QED  BY <2>1, <2>2, <2>3 DEF ReadersNext
<1>. QED  BY <1>1, <1>2, PTL DEF ReadersSpec

(* A search that runs next to the writer, and whose table was not freed,   *)
(* returns what an instantaneous one would have returned at some moment    *)
(* of the call: comparing the counter of the first bucket again is enough. *)
THEOREM FindLinearizableAlways == ReadersSpec => []FindLinearizable
<1>1. ReadersInv => FindLinearizable
  BY DEF ReadersInv, SearchOK, FindLinearizable
<1>. QED  BY <1>1, ReadersInvariant, PTL

-----------------------------------------------------------------------------
(* The load *)

(* What the bounds on the load ask of the constants.  CMAP_MAX_LOAD and    *)
(* CMAP_MIN_LOAD are 85 and 20 percent: with the five slots of a 64-bit    *)
(* build it holds; with the seven of a 32-bit one the third part does not, *)
(* and the empty table is under its minimum.                               *)
LoadAssumption == K * MaxLoad >= 100 /\ 2 * MinLoad <= MaxLoad /\ K * MinLoad <= 100

(* The masks: 0, and 2 * m + 1 for every mask m *)
Masks ==
  {m \in Nat : \A S \in SUBSET Nat : 0 \in S /\ (\A k \in S : 2 * k + 1 \in S) => m \in S}

LEMMA MaskCases ==
  /\ 0 \in Masks
  /\ \A m \in Masks : m \in Nat /\ 2 * m + 1 \in Masks
  /\ \A m \in Masks : m = 0 \/ (m \div 2 \in Masks /\ m = 2 * (m \div 2) + 1)
<1>1. 0 \in Masks
  BY DEF Masks
<1>2. ASSUME NEW m \in Masks PROVE m \in Nat /\ 2 * m + 1 \in Masks
  <2>1. m \in Nat /\ 2 * m + 1 \in Nat
    BY DEF Masks
  <2>. QED  BY <2>1 DEF Masks
<1>3. ASSUME NEW m \in Masks PROVE m = 0 \/ (m \div 2 \in Masks /\ m = 2 * (m \div 2) + 1)
  <2>1. PICK S : S = {0} \cup {2 * k + 1 : k \in Masks}
    OBVIOUS
  <2>2. S \in SUBSET Masks
    BY <1>1, <1>2, <2>1
  <2>3. S \in SUBSET Nat /\ 0 \in S /\ \A k \in S : 2 * k + 1 \in S
    BY <1>2, <2>1, <2>2
  <2>4. m \in S
    BY <2>3 DEF Masks
  <2>5. CASE m # 0
    <3>1. PICK k \in Masks : m = 2 * k + 1
      BY <2>1, <2>4, <2>5
    <3>2. k \in Nat /\ m \div 2 = k
      BY <1>2, <3>1
    <3>. QED  BY <3>1, <3>2
  <2>. QED  BY <2>5
<1>. QED  BY <1>1, <1>2, <1>3

(* The bounds of a table with s slots *)
LEMMA BoundsOf ==
  ASSUME NEW m \in Nat
  PROVE  \E s \in Nat, x \in Nat, y \in Nat :
           /\ s = (m + 1) * K /\ s >= K
           /\ x = s * MaxLoad /\ y = s * MinLoad
           /\ CalcMaxN(m) = (x - 1) \div 100 /\ CalcMinN(m) = (y - 1) \div 100
<1>1. PICK s \in Nat : s = (m + 1) * K /\ s >= K
  <2>1. (m + 1) * K \in Nat /\ (m + 1) * K >= K
    BY CmapAssumption
  <2>. QED  BY <2>1
<1>2. s * MaxLoad \in Nat /\ s * MinLoad \in Nat
  BY CmapAssumption
<1>. QED  BY <1>1, <1>2 DEF CalcMaxN, CalcMinN

LEMMA LoadBounds ==
  ASSUME LoadAssumption, NEW s \in Nat, s >= K
  PROVE  /\ s * MaxLoad >= 100 /\ 2 * (s * MinLoad) <= s * MaxLoad
         /\ s * MaxLoad \in Nat /\ s * MinLoad \in Nat
         /\ (2 * s) * MaxLoad = 2 * (s * MaxLoad)
         /\ (2 * s) * MinLoad = 2 * (s * MinLoad)
<1>1. K \in Nat /\ MaxLoad \in Nat /\ MinLoad \in Nat
  BY CmapAssumption
<1>2. s * MaxLoad \in Nat /\ s * MinLoad \in Nat /\ K * MaxLoad \in Nat
  BY <1>1
<1>3. s * MaxLoad >= K * MaxLoad
  BY <1>1
<1>4. s * (2 * MinLoad) <= s * MaxLoad
  BY <1>1 DEF LoadAssumption
<1>5. s * (2 * MinLoad) = 2 * (s * MinLoad)
  BY <1>1
<1>6. (2 * s) * MaxLoad = 2 * (s * MaxLoad) /\ (2 * s) * MinLoad = 2 * (s * MinLoad)
  BY <1>1
<1>. QED  BY <1>2, <1>3, <1>4, <1>5, <1>6 DEF LoadAssumption

(* One node over the maximum fits into the table of twice the size. *)
LEMMA Doubled ==
  ASSUME LoadAssumption, NEW m \in Nat
  PROVE  /\ CalcMinN(2 * m + 1) <= CalcMaxN(m) + 1
         /\ CalcMaxN(m) + 1 <= CalcMaxN(2 * m + 1)
         /\ CalcMaxN(m) \in Nat
<1>1. PICK s \in Nat, x \in Nat, y \in Nat :
        /\ s = (m + 1) * K /\ s >= K
        /\ x = s * MaxLoad /\ y = s * MinLoad
        /\ CalcMaxN(m) = (x - 1) \div 100 /\ CalcMinN(m) = (y - 1) \div 100
  BY BoundsOf
<1>2. x >= 100 /\ 2 * y <= x
  BY <1>1, LoadBounds
<1>3. CalcMaxN(2 * m + 1) = (2 * x - 1) \div 100 /\ CalcMinN(2 * m + 1) = (2 * y - 1) \div 100
  <2>1. ((2 * m + 1) + 1) * K = 2 * s
    BY <1>1, CmapAssumption
  <2>. QED  BY <1>1, <2>1, LoadBounds DEF CalcMaxN, CalcMinN
<1>. QED  BY <1>1, <1>2, <1>3

(* One node under the minimum fits into the table of half the size. *)
LEMMA Halved ==
  ASSUME LoadAssumption, NEW m \in Masks, NEW n \in Nat, n < CalcMinN(m), n + 1 >= CalcMinN(m)
  PROVE  /\ m \div 2 \in Masks
         /\ CalcMinN(m \div 2) <= n /\ n <= CalcMaxN(m \div 2)
<1>1. m # 0
  <2>1. CalcMinN(0) = (K * MinLoad - 1) \div 100
    BY CmapAssumption DEF CalcMinN
  <2>2. K * MinLoad \in Nat
    BY CmapAssumption
  <2>. QED  BY <2>1, <2>2 DEF LoadAssumption
<1>2. PICK k \in Masks : k = m \div 2 /\ m = 2 * k + 1 /\ k \in Nat
  BY <1>1, MaskCases
<1>3. PICK s \in Nat, x \in Nat, y \in Nat :
        /\ s = (k + 1) * K /\ s >= K
        /\ x = s * MaxLoad /\ y = s * MinLoad
        /\ CalcMaxN(k) = (x - 1) \div 100 /\ CalcMinN(k) = (y - 1) \div 100
  BY <1>2, BoundsOf
<1>4. x >= 100 /\ 2 * y <= x
  BY <1>3, LoadBounds
<1>5. CalcMinN(m) = (2 * y - 1) \div 100
  <2>1. (m + 1) * K = 2 * s
    BY <1>2, <1>3, CmapAssumption
  <2>. QED  BY <1>3, <2>1, LoadBounds DEF CalcMinN
<1>6. (y - 1) \div 100 <= n
  BY <1>5
<1>7. n <= (x - 1) \div 100
  BY <1>4, <1>5
<1>. QED  BY <1>2, <1>3, <1>6, <1>7

(* The nodes the table will hold when the call in progress returns *)
Held == IF call = NoNode THEN impl.n ELSE impl.n + 1

LoadOK ==
  /\ Target.mask \in Masks
  /\ CalcMinN(Target.mask) <= Held /\ Held <= CalcMaxN(Target.mask)

LEMMA SameLoad ==
  ASSUME LoadOK, Target'.mask = Target.mask, Held' = Held
  PROVE  LoadOK'
BY DEF LoadOK, CalcMinN, CalcMaxN

LEMMA MasksOf ==
  ASSUME NEW t, IsTable(t), NEW b, NEW s, NEW y
  PROVE  SetSlot(t, b, s, y).mask = t.mask /\ SetSlot(t, b, s, y).n = t.n
BY DEF SetSlot, IsTable

LEMMA BegunMask ==
  ASSUME NEW m \in Nat, BeginRehash(m)
  PROVE  Target'.mask = m
<1>1. PICK basis \in Bases : neww' = ImplCreate(m, basis)
  BY DEF BeginRehash
<1>2. neww'.mask = m
  BY <1>1 DEF ImplCreate
<1>3. IsTable(neww')
  BY <1>1, NewTable DEF Sound
<1>. QED  BY <1>2, <1>3, NotNoTable DEF Target, Rehashing

LEMMA LastStored ==
  ASSUME Inv, pc \in {"place", "shift"},
         NEW b, NEW s, NEW y, NEW v, v = SetSlot(Target, b, s, y), StoreLast(v)
  PROVE  Target'.mask = Target.mask /\ Held' = Held
<1>1. v.mask = Target.mask /\ v.n = Target.n /\ Target.mask \in Nat /\ Target.mask # -1
  BY TargetOf, MasksOf
<1>2. CASE Rehashing
  <2>1. neww' = v /\ impl' = impl /\ call' = call
    BY <1>2 DEF StoreLast
  <2>2. v # NoTable
    BY <1>1 DEF NoTable
  <2>. QED  BY <1>1, <2>1, <2>2 DEF Target, Rehashing, Held
<1>3. CASE ~ Rehashing
  <2>1. neww' = neww /\ impl' = [v EXCEPT !.n = @ + 1] /\ call' = NoNode
    BY <1>3 DEF StoreLast
  <2>2. Target = impl /\ Target' = impl' /\ call \in Nodes /\ IsTable(impl)
    BY <1>3, <2>1, TargetOf DEF Target, Rehashing, Inv, Pending
  <2>3. impl'.n = impl.n + 1 /\ impl'.mask = v.mask
    BY <1>1, <2>1, <2>2 DEF IsTable, SetSlot
  <2>. QED  BY <1>1, <2>1, <2>2, <2>3, CmapAssumption DEF Held
<1>. QED  BY <1>2, <1>3

LEMMA InitLoad == LoadAssumption /\ Init => LoadOK
<1>. SUFFICES ASSUME LoadAssumption, Init PROVE LoadOK
  OBVIOUS
<1>1. impl.mask = 0 /\ impl.n = 0 /\ neww = NoTable /\ call = NoNode
  BY DEF Init, ImplCreate
<1>2. Target.mask = 0 /\ Held = 0
  BY <1>1 DEF Target, Rehashing, Held
<1>3. CalcMinN(0) <= 0 /\ 0 <= CalcMaxN(0)
  <2>1. (0 + 1) * K = K /\ K * MinLoad \in Nat /\ K * MaxLoad \in Nat
    BY CmapAssumption
  <2>. QED  BY <2>1 DEF LoadAssumption, CalcMinN, CalcMaxN
<1>. QED  BY <1>2, <1>3, MaskCases DEF LoadOK

LEMMA InsertNodeLoad ==
  ASSUME LoadAssumption, Inv, LoadOK, NEW x \in Nodes, InsertNode(x)
  PROVE  LoadOK'
<1>1. pc = "idle" /\ call' = x /\ impl' = impl
  BY DEF InsertNode
<1>2. /\ ~ Rehashing /\ call = NoNode /\ x # NoNode /\ Target = impl /\ neww = NoTable
      /\ impl.mask \in Nat /\ impl.n \in Nat
  BY <1>1, TargetOf, CmapAssumption DEF Inv, Phases, IsTable
<1>3. Held = impl.n /\ Held' = impl.n + 1
  BY <1>1, <1>2 DEF Held
<1>4. /\ impl.mask \in Masks
      /\ CalcMinN(impl.mask) <= impl.n /\ impl.n <= CalcMaxN(impl.mask)
  BY <1>2, <1>3 DEF LoadOK
<1>5. PICK m \in Nat : m = 2 * impl.mask + 1
  BY <1>2
<1>6. /\ m \in Masks /\ CalcMinN(m) <= CalcMaxN(impl.mask) + 1
      /\ CalcMaxN(impl.mask) + 1 <= CalcMaxN(m) /\ CalcMaxN(impl.mask) \in Nat
  BY <1>2, <1>4, <1>5, Doubled, MaskCases
<1>7. CASE impl.n >= CalcMaxN(impl.mask)
  <2>1. Target'.mask = m
    BY <1>5, <1>7, BegunMask DEF InsertNode
  <2>2. impl.n = CalcMaxN(impl.mask)
    BY <1>2, <1>4, <1>6, <1>7
  <2>. QED  BY <1>3, <1>6, <2>1, <2>2 DEF LoadOK, CalcMinN, CalcMaxN
<1>8. CASE ~ (impl.n >= CalcMaxN(impl.mask))
  <2>1. neww' = neww
    BY <1>8 DEF InsertNode
  <2>2. Target'.mask = impl.mask
    BY <1>1, <1>2, <2>1 DEF Target, Rehashing
  <2>3. CalcMinN(impl.mask) \in Int
    <3>1. (impl.mask + 1) * K * MinLoad \in Nat
      BY <1>2, CmapAssumption
    <3>. QED  BY <3>1 DEF CalcMinN
  <2>4. CalcMinN(impl.mask) <= impl.n + 1 /\ impl.n + 1 <= CalcMaxN(impl.mask)
    BY <1>2, <1>4, <1>6, <1>8, <2>3
  <2>. QED  BY <1>3, <1>4, <2>2, <2>4 DEF LoadOK, CalcMinN, CalcMaxN
<1>. QED  BY <1>7, <1>8

LEMMA EditedLoad ==
  ASSUME NEW t, IsTable(t), NEW b, NEW s, NEW e, NEW u, u = [t EXCEPT !.bucket[b][s].chain = e]
  PROVE  u.mask = t.mask /\ u.n = t.n /\ DOMAIN u = DOMAIN t
BY DEF IsTable

LEMMA RemoveNodeLoad ==
  ASSUME LoadAssumption, Inv, Inv', LoadOK, NEW x \in Nodes, RemoveNode(x)
  PROVE  LoadOK'
<1>1. pc = "idle" /\ call' = call
  BY DEF RemoveNode
<1>2. /\ ~ Rehashing /\ call = NoNode /\ Target = impl /\ neww = NoTable
      /\ IsTable(impl) /\ impl.mask \in Nat /\ impl.n \in Nat /\ impl'.n \in Nat
  BY <1>1, TargetOf DEF Inv, Phases, IsTable, TypeOK
<1>3. PICK e, v : /\ e = RemoveFirst(impl.bucket[ReplacedBucket(impl, NodeHash[x])]
                                               [ReplacedSlot(impl, NodeHash[x])].chain, x)
                  /\ v = ReplacedTable(impl, NodeHash[x], e)
  OBVIOUS
<1>4. v = Replaced(impl, NodeHash[x], LAMBDA c : RemoveFirst(c, x))
  BY Zenon, <1>3 DEF Replaced, ReplacedBucket, ReplacedSlot, ReplacedTable
<1>5. impl' = [v EXCEPT !.n = @ - 1]
  BY <1>4 DEF RemoveNode
<1>6. v.mask = impl.mask /\ v.n = impl.n /\ DOMAIN v = DOMAIN impl
  BY <1>2, <1>3, EditedLoad DEF ReplacedTable
<1>7. impl'.mask = impl.mask /\ impl'.n = impl.n - 1
  BY <1>2, <1>5, <1>6 DEF IsTable
<1>8. Held = impl.n /\ Held' = impl.n - 1
  BY <1>1, <1>2, <1>7 DEF Held
<1>9. /\ impl.mask \in Masks
      /\ CalcMinN(impl.mask) <= impl.n /\ impl.n <= CalcMaxN(impl.mask)
      /\ CalcMaxN(impl.mask) \in Nat
  BY <1>2, <1>8, Doubled DEF LoadOK
<1>10. PICK n \in Nat : n = impl.n - 1 /\ n = impl'.n
  BY <1>2, <1>7
<1>0. CalcMinN(impl.mask) \in Int
  <2>1. (impl.mask + 1) * K * MinLoad \in Nat
    BY <1>2, CmapAssumption
  <2>. QED  BY <2>1 DEF CalcMinN
<1>11. CASE n < CalcMinN(impl.mask)
  <2>1. BeginRehash(impl.mask \div 2)
    BY <1>4, <1>5, <1>7, <1>10, <1>11 DEF RemoveNode
  <2>2. n + 1 >= CalcMinN(impl.mask)
    BY <1>2, <1>9, <1>10
  <2>3. PICK m : m = impl.mask \div 2
    OBVIOUS
  <2>4. m \in Masks /\ CalcMinN(m) <= n /\ n <= CalcMaxN(m)
    BY <1>9, <1>11, <2>2, <2>3, Halved
  <2>5. Target'.mask = m
    BY <2>1, <2>3, <2>4, MaskCases, BegunMask
  <2>. QED  BY <1>8, <1>10, <2>4, <2>5 DEF LoadOK, CalcMinN, CalcMaxN
<1>12. CASE ~ (n < CalcMinN(impl.mask))
  <2>1. neww' = neww
    BY <1>4, <1>5, <1>7, <1>10, <1>12 DEF RemoveNode
  <2>2. Target'.mask = impl.mask
    BY <1>2, <1>7, <2>1 DEF Target, Rehashing
  <2>3. CalcMinN(impl.mask) <= n /\ n <= CalcMaxN(impl.mask)
    BY <1>0, <1>2, <1>9, <1>10, <1>12
  <2>. QED  BY <1>8, <1>9, <1>10, <2>2, <2>3 DEF LoadOK, CalcMinN, CalcMaxN
<1>. QED  BY <1>11, <1>12

LEMMA ReplaceNodeLoad ==
  ASSUME Inv, LoadOK, NEW x \in Nodes, NEW y \in Nodes, ReplaceNode(x, y)
  PROVE  LoadOK'
<1>1. pc = "idle" /\ call' = call /\ neww' = neww
  BY DEF ReplaceNode
<1>2. ~ Rehashing /\ Target = impl /\ IsTable(impl)
  BY <1>1, TargetOf DEF Inv, Phases
<1>3. PICK e, v : /\ e = ReplaceAll(impl.bucket[ReplacedBucket(impl, NodeHash[x])]
                                              [ReplacedSlot(impl, NodeHash[x])].chain, x, y)
                  /\ v = ReplacedTable(impl, NodeHash[x], e)
  OBVIOUS
<1>4. v = Replaced(impl, NodeHash[x], LAMBDA c : ReplaceAll(c, x, y))
  BY Zenon, <1>3 DEF Replaced, ReplacedBucket, ReplacedSlot, ReplacedTable
<1>5. impl' = v
  BY <1>4 DEF ReplaceNode
<1>6. v.mask = impl.mask /\ v.n = impl.n
  BY <1>2, <1>3, EditedLoad DEF ReplacedTable
<1>7. Target'.mask = Target.mask /\ Held' = Held
  BY <1>1, <1>2, <1>5, <1>6 DEF Target, Rehashing, Held
<1>. QED  BY <1>7, SameLoad

LEMMA WriterLoad ==
  ASSUME Inv, LoadOK, WriterStep
  PROVE  LoadOK'
<1>0. Target.mask \in Nat /\ IsTable(Target)
  BY TargetOf
<1>1. CASE Place
  <2>1. CASE \E b, s, y : StoreLast(SetSlot(Target, b, s, y))
    BY <1>1, <2>1, LastStored, SameLoad DEF Place
  <2>2. CASE UNCHANGED <<impl, neww, call>>
    <3>1. Target'.mask = Target.mask /\ Held' = Held
      BY <2>2 DEF Target, Rehashing, Held
    <3>. QED  BY <3>1, SameLoad
  <2>. QED  BY Zenon, <1>1, <2>1, <2>2 DEF Place, InsertDup, InsertBucket
<1>2. CASE PlaceFails
  <2>1. Target'.mask = Target.mask
    BY <1>0, <1>2, BegunMask DEF PlaceFails
  <2>2. Held' = Held
    BY <1>2 DEF PlaceFails, Held
  <2>. QED  BY <2>1, <2>2, SameLoad
<1>3. CASE Shift
  <2>1. PICK b, s, y : StoreMore(SetSlot(Target, b, s, y))
    BY <1>3 DEF Shift
  <2>2. PICK v : v = SetSlot(Target, b, s, y)
    OBVIOUS
  <2>3. v.mask = Target.mask /\ v.n = Target.n /\ Target.mask # -1
    BY <1>0, <2>2, MasksOf
  <2>4. v # NoTable /\ StoreMore(v)
    BY <2>1, <2>2, <2>3 DEF NoTable
  <2>5. Target'.mask = Target.mask /\ Held' = Held
    BY <2>3, <2>4 DEF StoreMore, Target, Rehashing, Held
  <2>. QED  BY <2>5, SameLoad
<1>4. CASE ShiftLast
  <2>1. pc = "shift" /\ \E b, s, y : StoreLast(SetSlot(Target, b, s, y))
    BY <1>4 DEF ShiftLast
  <2>. QED  BY <2>1, LastStored, SameLoad
<1>5. CASE Copy
  <2>1. Target'.mask = Target.mask /\ Held' = Held
    BY <1>5 DEF Copy, Target, Rehashing, Held
  <2>. QED  BY <2>1, SameLoad
<1>6. CASE Publish
  <2>1. /\ impl' = [neww EXCEPT !.n = impl.n] /\ neww' = NoTable /\ call' = call
        /\ Rehashing /\ Target = neww /\ IsTable(neww)
    BY <1>6, TargetOf DEF Publish, Inv, Phases
  <2>2. impl'.mask = neww.mask /\ impl'.n = impl.n
    BY <2>1 DEF IsTable
  <2>3. Target'.mask = Target.mask /\ Held' = Held
    BY <2>1, <2>2 DEF Target, Rehashing, Held
  <2>. QED  BY <2>3, SameLoad
<1>. QED  BY <1>1, <1>2, <1>3, <1>4, <1>5, <1>6 DEF WriterStep

(* Between two calls cmap_count is the number of nodes stored, and the     *)
(* load is neither over the maximum nor under the minimum: one doubling in *)
(* cmap_insert and one halving in cmap_remove are always enough.           *)
THEOREM CountedAlways ==
  ASSUME LoadAssumption
  PROVE  Spec => []Counted
<1>1. Init => Inv /\ LoadOK
  BY InitInv, InitLoad
<1>2. Inv /\ LoadOK /\ [Next]_vars => (Inv /\ LoadOK)'
  <2>. SUFFICES ASSUME Inv, LoadOK, [Next]_vars PROVE Inv' /\ LoadOK'
    OBVIOUS
  <2>1. Inv'
    BY NextInv, StutterInv
  <2>2. CASE Next
    BY <2>1, <2>2, InsertNodeLoad, RemoveNodeLoad, ReplaceNodeLoad, WriterLoad DEF Next
  <2>3. CASE UNCHANGED vars
    <3>1. Target'.mask = Target.mask /\ Held' = Held
      BY <2>3 DEF vars, Target, Rehashing, Held
    <3>. QED  BY <2>1, <3>1, SameLoad
  <2>. QED  BY <2>1, <2>2, <2>3
<1>3. Inv /\ LoadOK => Counted
  <2>. SUFFICES ASSUME Inv, LoadOK, pc = "idle"
                PROVE  /\ impl.n = Cardinality(Stored(impl))
                       /\ impl.n <= CalcMaxN(impl.mask)
                       /\ impl.n >= CalcMinN(impl.mask)
    BY DEF Counted
  <2>1. Target = impl /\ Held = impl.n /\ impl.n = Cardinality(Stored(impl)) /\ impl.mask \in Nat
        /\ impl.n \in Nat
    BY TargetOf DEF Inv, Phases, Held, NodesCounted, IsTable
  <2>2. CalcMinN(impl.mask) \in Int
    <3>1. (impl.mask + 1) * K * MinLoad \in Nat
      BY <2>1, CmapAssumption
    <3>. QED  BY <3>1 DEF CalcMinN
  <2>. QED  BY <2>1, <2>2 DEF LoadOK
<1>. QED  BY <1>1, <1>2, <1>3, PTL DEF Spec
=============================================================================
