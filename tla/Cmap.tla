-------------------------------- MODULE Cmap --------------------------------
(***************************************************************************)
(* The cuckoo hash map of src/src/OVS/cmap.cpp, seen at the granularity of *)
(* the stores a concurrent reader could observe: one step per slot written *)
(* by cmap_set_bucket, one per plain pointer store of cmap_insert_dup and  *)
(* cmap_replace__, and one for the publication of a rehashed table.        *)
(*                                                                         *)
(* A bucket has K slots.  A slot keeps a hash and the chain of nodes       *)
(* stored under it; an empty chain is a null nodes[i].next.  A removed     *)
(* chain leaves its hash behind, and a zeroed slot holds the hash Zero,    *)
(* which a client may use as well.                                         *)
(***************************************************************************)
EXTENDS Integers, Sequences, FiniteSets, SequencesExt

CONSTANTS
  K,              \* CMAP_K, the slots of a bucket
  MaxLoad,        \* CMAP_MAX_LOAD and CMAP_MIN_LOAD, in percent
  MinLoad,
  MaxDepth,       \* MAX_DEPTH of cmap_insert_bfs
  Nodes,
  Hashes,         \* the hashes clients use
  NodeHash,       \* NodeHash[x]: the hash node x is inserted under
  Zero,           \* the hash of a zeroed slot
  Bases,          \* the values random_uint32 gives to `basis'
  HashFinish,     \* HashFinish[basis][h]: low and high half of rehash(h)
  NoNode

ASSUME CmapAssumption ==
  /\ K \in Nat \ {0}
  /\ Hashes \subseteq Nat
  /\ MaxLoad \in Nat /\ MinLoad \in Nat /\ MaxDepth \in Nat
  /\ Bases # {}
  /\ NodeHash \in [Nodes -> Hashes]
  /\ HashFinish \in [Bases -> [Hashes -> Nat \X Nat]]
  /\ NoNode \notin Nodes

VARIABLES
  impl,     \* cmap->impl, the table readers see
  neww,     \* the table cmap_rehash fills (mask -1: no rehash is running)
  pc,       \* what the writer does: idle, copy, place or shift
  call,     \* the node cmap_insert was called with, NoNode in cmap_replace
  item,     \* the slot content cmap_try_insert has to place
  path,     \* the cells of the path cmap_insert_bfs found, still to be moved
  pos       \* how many old slots cmap_try_rehash has dealt with

vars == <<impl, neww, pc, call, item, path, pos>>

Slots == 1..K
Slot  == [hash : Hashes \cup {Zero}, chain : Seq(Nodes)]
NoTable == [mask |-> -1]
NoItem  == [hash |-> Zero, chain |-> <<>>]

-----------------------------------------------------------------------------
(* Tables and lookups *)

(* The products are cut by the rounding of CMAP_MAX_LOAD and CMAP_MIN_LOAD *)
(* just below the percentage, hence the -1.                                *)
CalcMaxN(mask) == ((mask + 1) * K * MaxLoad - 1) \div 100
CalcMinN(mask) == ((mask + 1) * K * MinLoad - 1) \div 100

ImplCreate(mask, basis) ==
  [mask |-> mask, basis |-> basis, n |-> 0,
   bucket |-> [b \in 0..mask |-> [s \in Slots |-> NoItem]]]

(* The two candidate buckets of a hash: h1 & mask and other_hash(h1) & mask *)
Bucket1(t, h) == HashFinish[t.basis][h][1] % (t.mask + 1)
Bucket2(t, h) == HashFinish[t.basis][h][2] % (t.mask + 1)

(* The two buckets in the order they are tried *)
Candidates(t, h) == <<Bucket1(t, h), Bucket2(t, h)>>

(* Mutant: the next bucket instead of the other one. *)
OtherBucket_Next(t, b, s) ==
  LET h == t.bucket[b][s].hash
  IN  IF Bucket1(t, h) = b THEN (b + 1) % (t.mask + 1) ELSE Bucket1(t, h)

(* other_bucket_protected: where the content of a slot may go instead *)
OtherBucket(t, b, s) ==
  LET h == t.bucket[b][s].hash
  IN  IF Bucket1(t, h) = b THEN Bucket2(t, h) ELSE Bucket1(t, h)

Live(t, b, s)     == t.bucket[b][s].chain # <<>>
WithHash(t, b, h) == {s \in Slots : t.bucket[b][s].hash = h}
EmptySlots(t, b)  == {s \in Slots : ~ Live(t, b, s)}
First(S)          == CHOOSE s \in S : \A r \in S : s <= r

(* cmap_find_in_bucket: the first slot with the hash answers, live or not *)
FindInBucket(t, b, h) ==
  IF WithHash(t, b, h) = {} THEN <<>>
  ELSE t.bucket[b][First(WithHash(t, b, h))].chain

(* cmap_find, when nothing changes meanwhile *)
Find(t, h) ==
  LET c == FindInBucket(t, Bucket1(t, h), h)
  IN  IF c # <<>> THEN c ELSE FindInBucket(t, Bucket2(t, h), h)

Stored(t) == UNION {ToSet(t.bucket[b][s].chain) : b \in 0..t.mask, s \in Slots}

-----------------------------------------------------------------------------
(* cmap_try_insert works on the table under construction while cmap_rehash *)
(* runs, and on the published table otherwise.                             *)

Rehashing == neww # NoTable
Target    == IF Rehashing THEN neww ELSE impl

SetSlot(t, b, s, content) == [t EXCEPT !.bucket[b][s] = content]

BeginRehash(mask) ==
  /\ \E basis \in Bases : neww' = ImplCreate(mask, basis)
  /\ pos' = 0
  /\ pc' = "copy"
  /\ item' = NoItem

(* The target after a store of the insertion in progress.  The last store  *)
(* ends cmap_try_insert: cmap_try_rehash goes on with the next old slot,   *)
(* cmap_insert counts the node and returns.                                *)
StoreLast(t) ==
  IF Rehashing
  THEN /\ neww' = t
       /\ pos' = pos + 1
       /\ pc' = "copy"
       /\ item' = NoItem
       /\ UNCHANGED <<impl, call>>
  ELSE /\ impl' = [t EXCEPT !.n = @ + 1]
       /\ pc' = "idle"
       /\ call' = NoNode
       /\ item' = NoItem
       /\ UNCHANGED <<neww, pos>>

StoreMore(t) ==
  /\ IF Rehashing THEN neww' = t /\ UNCHANGED impl
                  ELSE impl' = t /\ UNCHANGED neww
  /\ UNCHANGED <<pc, call, item, pos>>

(* Mutant: the new chain goes behind the old one. *)
InsertDup_Behind(b) ==
  LET t == Target
      s == First(WithHash(t, b, item.hash))
  IN  StoreLast(SetSlot(t, b, s,
        [item EXCEPT !.chain = t.bucket[b][s].chain \o @]))

(* cmap_insert_dup: the first slot of b with the hash takes the new chain  *)
(* in front of what it has.                                                *)
InsertDup(b) ==
  LET t == Target
      s == First(WithHash(t, b, item.hash))
  IN  StoreLast(SetSlot(t, b, s,
        [item EXCEPT !.chain = @ \o t.bucket[b][s].chain]))

(* cmap_insert_bucket: cmap_set_bucket on the first empty slot *)
InsertBucket(b) ==
  StoreLast(SetSlot(Target, b, First(EmptySlots(Target, b)), item))

-----------------------------------------------------------------------------
(* cmap_insert_bfs.  A path is the sequence of cells <<bucket, slot>> the  *)
(* queue entry stands for; Paths[d] are the entries with d slots.          *)

EndOf(t, start, p) ==
  IF p = <<>> THEN start ELSE OtherBucket(t, Last(p)[1], Last(p)[2])

(* Only a full bucket is expanded: an empty slot ends the search. *)
Hops(t, p, b) ==
  IF EmptySlots(t, b) # {} THEN {}
  ELSE {Append(p, <<b, s>>) : s \in {r \in Slots : OtherBucket(t, b, r) # b}}

Paths(t, starts) ==
  LET P[d \in 0..(MaxDepth + 1)] ==
        IF d = 0 THEN {<<b, <<>>>> : b \in starts}
        ELSE UNION {{<<q[1], p>> : p \in Hops(t, q[2], EndOf(t, q[1], q[2]))}
                    : q \in P[d - 1]}
  IN  P

(* The searches that succeed: a path whose last bucket has an empty slot,  *)
(* completed by the first such slot.  The search is breadth first, so only *)
(* the shortest are found; which of them comes first is left open.         *)
Completed(t, q) ==
  LET b == EndOf(t, q[1], q[2])
  IN  Append(q[2], <<b, First(EmptySlots(t, b))>>)

FoundPaths(t, starts) ==
  LET P == Paths(t, starts)
      Good(d) == {q \in P[d] : EmptySlots(t, EndOf(t, q[1], q[2])) # {}}
      depths == {d \in 1..(MaxDepth + 1) : Good(d) # {}}
  IN  IF depths = {} THEN {} ELSE {Completed(t, q) : q \in Good(First(depths))}

(* Mutant: only the first bucket is searched for the hash. *)
Dups_First(t, h) == {i \in {1} : WithHash(t, Candidates(t, h)[i], h) # {}}

(* cmap_try_insert: the candidates whose bucket has the hash, or room *)
Dups(t, h) == {i \in 1..2 : WithHash(t, Candidates(t, h)[i], h) # {}}
Room(t, h) == {i \in 1..2 : EmptySlots(t, Candidates(t, h)[i]) # {}}

Place ==
  LET h == item.hash
      b == Candidates(Target, h)
      dups == Dups(Target, h)
      room == Room(Target, h)
  IN  /\ pc = "place"
      /\ \/ dups # {} /\ InsertDup(b[First(dups)]) /\ UNCHANGED path
         \/ dups = {} /\ room # {} /\ InsertBucket(b[First(room)]) /\ UNCHANGED path
         \/ /\ dups = {} /\ room = {}
            /\ path' \in FoundPaths(Target, ToSet(b))
            /\ pc' = "shift"
            /\ UNCHANGED <<impl, neww, call, item, pos>>

(* Mutant: the retry keeps the basis. *)
PlaceFails_SameBasis ==
  /\ pc = "place"
  /\ Dups(Target, item.hash) = {} /\ Room(Target, item.hash) = {}
  /\ FoundPaths(Target, ToSet(Candidates(Target, item.hash))) = {}
  /\ neww' = ImplCreate(Target.mask, Target.basis)
  /\ pos' = 0 /\ pc' = "copy" /\ item' = NoItem
  /\ UNCHANGED <<impl, call, path>>

(* cmap_try_insert returns false: cmap_rehash clears the table it fills    *)
(* and takes another basis, cmap_insert rehashes at the same size.         *)
PlaceFails ==
  /\ pc = "place"
  /\ Dups(Target, item.hash) = {} /\ Room(Target, item.hash) = {}
  /\ FoundPaths(Target, ToSet(Candidates(Target, item.hash))) = {}
  /\ BeginRehash(Target.mask)
  /\ UNCHANGED <<impl, call, path>>

(* The moves of cmap_insert_bfs, from the end of the path backward *)
Shift ==
  /\ pc = "shift" /\ Len(path) > 1
  /\ LET from == path[Len(path) - 1]
         to   == Last(path)
     IN  StoreMore(SetSlot(Target, to[1], to[2], Target.bucket[from[1]][from[2]]))
  /\ path' = Front(path)

ShiftLast ==
  /\ pc = "shift" /\ Len(path) = 1
  /\ StoreLast(SetSlot(Target, path[1][1], path[1][2], item))
  /\ path' = <<>>

-----------------------------------------------------------------------------
(* The operations *)

(* Mutant: the table grows one node too late. *)
InsertNode_Late(x) ==
  /\ pc = "idle"
  /\ x \notin Stored(impl)
  /\ call' = x
  /\ IF impl.n > CalcMaxN(impl.mask)
     THEN BeginRehash(2 * impl.mask + 1)
     ELSE /\ item' = [hash |-> NodeHash[x], chain |-> <<x>>]
          /\ pc' = "place"
          /\ UNCHANGED <<neww, pos>>
  /\ UNCHANGED <<impl, path>>

InsertNode(x) ==
  /\ pc = "idle"
  /\ x \notin Stored(impl)
  /\ call' = x
  /\ IF impl.n >= CalcMaxN(impl.mask)
     THEN BeginRehash(2 * impl.mask + 1)
     ELSE /\ item' = [hash |-> NodeHash[x], chain |-> <<x>>]
          /\ pc' = "place"
          /\ UNCHANGED <<neww, pos>>
  /\ UNCHANGED <<impl, path>>

(* The slot cmap_replace__ finds: live, in the first candidate bucket or   *)
(* else in the second.                                                     *)
LiveWithHash(t, b, h) == {s \in WithHash(t, b, h) : Live(t, b, s)}

Replaced(t, h, Edit(_)) ==
  LET b == IF LiveWithHash(t, Bucket1(t, h), h) # {} THEN Bucket1(t, h) ELSE Bucket2(t, h)
      s == First(LiveWithHash(t, b, h))
  IN  [t EXCEPT !.bucket[b][s].chain = Edit(@)]

ReplaceNode(x, y) ==
  /\ pc = "idle"
  /\ x \in Stored(impl) /\ y \notin Stored(impl) /\ NodeHash[x] = NodeHash[y]
  /\ impl' = Replaced(impl, NodeHash[x], LAMBDA c : ReplaceAll(c, x, y))
  /\ UNCHANGED <<neww, pc, call, item, path, pos>>

(* Mutant: the node is counted out twice. *)
RemoveNode_Twice(x) ==
  LET t == [Replaced(impl, NodeHash[x], LAMBDA c : RemoveFirst(c, x)) EXCEPT !.n = @ - 2]
  IN  /\ pc = "idle"
      /\ x \in Stored(impl)
      /\ impl' = t
      /\ IF t.n < CalcMinN(t.mask)
         THEN BeginRehash(t.mask \div 2)
         ELSE UNCHANGED <<neww, pc, item, pos>>
      /\ UNCHANGED <<call, path>>

RemoveNode(x) ==
  LET t == [Replaced(impl, NodeHash[x], LAMBDA c : RemoveFirst(c, x)) EXCEPT !.n = @ - 1]
  IN  /\ pc = "idle"
      /\ x \in Stored(impl)
      /\ impl' = t
      /\ IF t.n < CalcMinN(t.mask)
         THEN BeginRehash(t.mask \div 2)
         ELSE UNCHANGED <<neww, pc, item, pos>>
      /\ UNCHANGED <<call, path>>

(* Mutant: the chain is cut behind its first node, as cmap_insert does. *)
Copy_Head ==
  /\ pc = "copy" /\ pos < (impl.mask + 1) * K
  /\ LET old == impl.bucket[pos \div K][(pos % K) + 1]
     IN  IF old.chain = <<>>
         THEN pos' = pos + 1 /\ UNCHANGED <<item, pc>>
         ELSE item' = [old EXCEPT !.chain = <<Head(old.chain)>>] /\ pc' = "place" /\ UNCHANGED pos
  /\ UNCHANGED <<impl, neww, call, path>>

(* cmap_try_rehash, at the old slot number pos *)
Copy ==
  /\ pc = "copy" /\ pos < (impl.mask + 1) * K
  /\ LET old == impl.bucket[pos \div K][(pos % K) + 1]
     IN  IF old.chain = <<>>
         THEN pos' = pos + 1 /\ UNCHANGED <<item, pc>>
         ELSE item' = old /\ pc' = "place" /\ UNCHANGED pos
  /\ UNCHANGED <<impl, neww, call, path>>

(* The end of cmap_rehash: the new table is published, the old one freed. *)
Publish ==
  /\ pc = "copy" /\ pos = (impl.mask + 1) * K
  /\ impl' = [neww EXCEPT !.n = impl.n]
  /\ neww' = NoTable
  /\ pos' = 0
  /\ IF call = NoNode
     THEN pc' = "idle" /\ UNCHANGED item
     ELSE pc' = "place" /\ item' = [hash |-> NodeHash[call], chain |-> <<call>>]
  /\ UNCHANGED <<call, path>>

Init ==
  /\ \E basis \in Bases : impl = ImplCreate(0, basis)
  /\ neww = NoTable
  /\ pc = "idle"
  /\ call = NoNode
  /\ item = NoItem
  /\ path = <<>>
  /\ pos = 0

WriterStep == Place \/ PlaceFails \/ Shift \/ ShiftLast \/ Copy \/ Publish

Next ==
  \/ \E x \in Nodes : InsertNode(x) \/ RemoveNode(x)
  \/ \E x, y \in Nodes : ReplaceNode(x, y)
  \/ WriterStep

Spec == Init /\ [][Next]_vars
=============================================================================
