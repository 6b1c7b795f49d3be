-------------------------- MODULE CmapBucket_proofs --------------------------
(***************************************************************************)
(* The bucket's counter does what cmap_find relies on, for any number of   *)
(* slots, nodes, hashes, readers and writes and any even counter width,    *)
(* when every access is performed in program order.                        *)
(***************************************************************************)
EXTENDS CmapBucket, TLAPS, WellFoundedInduction

Counters == 0..(CounterMod - 1)

Reader ==
  [pc : {"idle", "counter", "hash", "node", "verify", "accepted"}, hash : Hashes, c : Counters,
   i : Slots, node : Ptr, since : Nat, seen : SUBSET Ptr]

(* The type invariant. *)
Typed ==
  /\ hashes \in [Slots -> Hashes] /\ nodes \in [Slots -> Ptr] /\ counter \in Counters
  /\ set \in [pc : {"idle", "node", "hash", "even"}, c : Counters, i : Slots, node : Ptr, hash : Hashes]
  /\ find \in [Readers -> Reader]
  /\ writes \in Nat

Busy == IF set.pc = "idle" THEN 0 ELSE 1

(* The counter is odd exactly while a slot is being set. *)
OddWhileBusy ==
  /\ counter % 2 = Busy
  /\ set.pc # "idle" => counter = set.c + 1

(* How many stores to the counter since the reader read it *)
Stores(f) == 2 * (writes - f.since) + Busy

Wrapped(n) == IF n < CounterMod THEN n ELSE n - CounterMod

(* As long as it did not come round, the counter tells how many. *)
Counts(f) ==
  f.pc \in {"hash", "node", "verify"} =>
    /\ f.since <= writes /\ f.c % 2 = 0
    /\ Stores(f) < CounterMod =>
         counter = Wrapped(f.c + Stores(f))

Undisturbed(f) == set.pc = "idle" /\ writes = f.since

(* What a search has found so far if no slot was set since it began *)
FoundSoFar(f) ==
  /\ f.pc = "hash" => f.node = Null
  /\ f.pc \in {"hash", "node"} /\ Undisturbed(f) =>
       /\ Answer(f.hash) \in f.seen
       /\ \A j \in Slots : j < f.i => hashes[j] # f.hash
       /\ f.pc = "node" => hashes[f.i] = f.hash
  /\ f.pc = "verify" /\ Undisturbed(f) => f.node \in f.seen

(* What SearchAtomic says of one reader *)
Accepted(f) ==
  f.pc = "accepted" /\ 2 * (writes - f.since) < CounterMod => f.node \in f.seen

ReaderInv(f) == Counts(f) /\ FoundSoFar(f) /\ Accepted(f)

Inv == Typed /\ OddWhileBusy /\ \A r \in Readers : ReaderInv(find[r])

-----------------------------------------------------------------------------
(* Arithmetic of the counter *)

LEMMA NextCount ==
  ASSUME NEW x \in Nat, x < CounterMod
  PROVE  (x + 1) % CounterMod = IF x + 1 < CounterMod THEN x + 1 ELSE 0
<1>1. CounterMod \in Nat /\ CounterMod > 1
  BY BucketAssumption
<1>2. CASE x + 1 < CounterMod
  BY <1>1, <1>2
<1>3. CASE x + 1 = CounterMod
  BY <1>1, <1>3
<1>. QED  BY <1>1, <1>2, <1>3

LEMMA FirstLeast ==
  ASSUME NEW S \in SUBSET Slots, NEW i \in S, \A j \in Slots : j < i => j \notin S
  PROVE  First(S) = i
<1>1. K \in Nat
  BY BucketAssumption
<1>2. \A s \in S : s \in Int /\ i <= s
  BY <1>1 DEF Slots
<1>3. \A s \in S : (\A q \in S : s <= q) => s = i
  BY <1>2
<1>. QED  BY <1>2, <1>3 DEF First

LEMMA AnswerThere ==
  ASSUME Typed, NEW h, NEW i \in Slots, hashes[i] = h, \A j \in Slots : j < i => hashes[j] # h
  PROVE  Answer(h) = nodes[i]
<1>. DEFINE S == {s \in Slots : hashes[s] = h}
<1>1. First(S) = i
  BY FirstLeast
<1>. QED  BY <1>1 DEF Answer, AnswerOf

LEMMA FirstSlot ==
  ASSUME NEW S \in SUBSET Slots, S # {}
  PROVE  First(S) \in S
<1>1. S \subseteq Nat
  BY BucketAssumption DEF Slots
<1>2. PICK i \in S : \A q \in S : ~ (<<q, i>> \in OpToRel(<, Nat))
  BY <1>1, NatLessThanWellFounded, WFMin, Zenon
<1>3. \A q \in S : ~ (q < i)
  BY <1>1, <1>2 DEF OpToRel
<1>4. \A q \in S : i <= q
  BY <1>1, <1>3
<1>. QED  BY <1>4 DEF First

LEMMA AnswerType ==
  ASSUME NEW hs, NEW ns \in [Slots -> Ptr], NEW h
  PROVE  AnswerOf(hs, ns, h) \in Ptr
<1>. DEFINE S == {s \in Slots : hs[s] = h}
<1>1. CASE S = {}
  BY <1>1 DEF AnswerOf, Ptr
<1>2. CASE S # {}
  <2>1. First(S) \in Slots
    BY <1>2, FirstSlot
  <2>. QED  BY <1>2, <2>1 DEF AnswerOf
<1>. QED  BY <1>1, <1>2

-----------------------------------------------------------------------------
(* The initial state *)

LEMMA InitInv == Init => Inv
<1>. SUFFICES ASSUME Init PROVE Inv
  OBVIOUS
<1>1. 1 \in Slots /\ 0 \in Counters /\ Zero \in Hashes /\ Null \in Ptr
  BY BucketAssumption DEF Slots, Counters, Ptr
<1>2. Typed
  BY <1>1 DEF Init, Typed, Reader
<1>3. OddWhileBusy
  BY DEF Init, OddWhileBusy, Busy
<1>4. \A r \in Readers : ReaderInv(find[r])
  BY DEF Init, ReaderInv, Counts, FoundSoFar, Accepted
<1>. QED  BY <1>2, <1>3, <1>4 DEF Inv

-----------------------------------------------------------------------------
(* A step of the writer leaves every search where it is and only adds      *)
(* answers to its history.                                                 *)

Watched(r) ==
  /\ find'[r] \in Reader
  /\ find'[r] = [find[r] EXCEPT !.seen = find'[r].seen]
  /\ find[r].seen \subseteq find'[r].seen
  /\ set'.pc = "idle" /\ find[r].pc # "idle" => AnswerOf(hashes', nodes', find[r].hash) \in find'[r].seen

LEMMA Observed ==
  ASSUME Typed, Observe, nodes' \in [Slots -> Ptr], NEW r \in Readers
  PROVE  Watched(r)
<1>. DEFINE f == find[r]
            a == AnswerOf(hashes', nodes', f.hash)
<1>1. f \in Reader
  BY DEF Typed
<1>2. a \in Ptr
  BY AnswerType
<1>. HIDE DEF a
<1>3. find'[r] = IF set'.pc # "idle" THEN f
                 ELSE [f EXCEPT !.seen = IF f.pc = "idle" THEN @ ELSE @ \cup {a}]
  BY DEF Observe, a
<1>4. CASE set'.pc # "idle" \/ f.pc = "idle"
  BY <1>1, <1>3, <1>4 DEF Watched, Reader
<1>5. CASE set'.pc = "idle" /\ f.pc # "idle"
  <2>1. find'[r] = [f EXCEPT !.seen = f.seen \cup {a}]
    BY <1>1, <1>3, <1>5 DEF Reader
  <2>2. find'[r].seen = f.seen \cup {a}
    BY <1>1, <2>1 DEF Reader
  <2>3. find'[r] \in Reader
    BY <1>1, <1>2, <2>1 DEF Reader
  <2>. QED  BY <2>1, <2>2, <2>3 DEF Watched, a
<1>. QED  BY <1>4, <1>5

LEMMA ObservedType ==
  ASSUME Typed, Observe, nodes' \in [Slots -> Ptr]
  PROVE  find' \in [Readers -> Reader]
<1>1. \A r \in Readers : find'[r] \in Reader
  BY Observed DEF Watched
<1>2. find' = [r \in Readers |-> find'[r]]
  BY DEF Observe
<1>. QED  BY <1>1, <1>2

LEMMA SameSearch ==
  ASSUME Typed, NEW r \in Readers, Watched(r)
  PROVE  /\ find[r] \in Reader /\ find[r].seen \subseteq find'[r].seen
         /\ find'[r].pc = find[r].pc /\ find'[r].hash = find[r].hash /\ find'[r].c = find[r].c
         /\ find'[r].i = find[r].i /\ find'[r].node = find[r].node /\ find'[r].since = find[r].since
<1>1. find[r] \in Reader
  BY DEF Typed
<1>. QED  BY <1>1 DEF Watched, Reader

LEMMA StoreCounted ==
  ASSUME NEW c \in Counters, NEW n \in Nat, n + 1 < CounterMod,
         NEW k \in Counters, k = Wrapped(c + n)
  PROVE  (k + 1) % CounterMod = Wrapped(c + (n + 1))
<1>1. CounterMod \in Nat
  BY BucketAssumption
<1>2. k \in Nat /\ k < CounterMod /\ c \in Nat /\ c < CounterMod
  BY <1>1 DEF Counters
<1>3. (k + 1) % CounterMod = IF k + 1 < CounterMod THEN k + 1 ELSE 0
  BY <1>2, NextCount
<1>. QED  BY <1>1, <1>2, <1>3 DEF Wrapped

(* The counter keeps counting: one more store, or none. *)
LEMMA WriterCounts ==
  ASSUME Typed, NEW r \in Readers, Watched(r), Counts(find[r]), writes' \in Nat, writes <= writes',
         \/ writes' = writes /\ Busy' = Busy /\ counter' = counter
         \/ 2 * writes' + Busy' = 2 * writes + Busy + 1 /\ counter' = (counter + 1) % CounterMod
  PROVE  Counts(find[r])'
<1>. DEFINE f == find[r]
            g == find'[r]
<1>1. /\ f \in Reader /\ g.pc = f.pc /\ g.c = f.c /\ g.since = f.since
      /\ writes \in Nat /\ counter \in Counters /\ CounterMod \in Nat
  BY SameSearch, BucketAssumption DEF Typed
<1>2. f.since \in Nat /\ f.c \in Counters /\ Busy \in {0, 1} /\ Busy' \in {0, 1}
  BY <1>1 DEF Reader, Busy
<1>. DEFINE n == Stores(f)
            m == 2 * (writes' - g.since) + Busy'
<1>3. SUFFICES ASSUME f.pc \in {"hash", "node", "verify"}
               PROVE  /\ g.since <= writes' /\ g.c % 2 = 0
                      /\ m < CounterMod => counter' = Wrapped(g.c + m)
  BY <1>1 DEF Counts, Stores, Wrapped
<1>4. f.since <= writes /\ f.c % 2 = 0 /\ (n < CounterMod => counter = Wrapped(f.c + n))
  BY <1>3 DEF Counts
<1>5. n \in Nat /\ n = 2 * (writes - f.since) + Busy
  BY <1>1, <1>2, <1>4 DEF Stores
<1>6. g.since <= writes' /\ g.c % 2 = 0
  BY <1>1, <1>2, <1>4
<1>7. CASE writes' = writes /\ Busy' = Busy /\ counter' = counter
  BY <1>1, <1>4, <1>5, <1>6, <1>7
<1>8. CASE 2 * writes' + Busy' = 2 * writes + Busy + 1 /\ counter' = (counter + 1) % CounterMod
  <2>. DEFINE b == Busy
              d == Busy'
              v == writes'
  <2>0. b \in Int /\ d \in Int /\ v \in Int /\ 2 * v + d = 2 * writes + b + 1
    BY <1>2, <1>8
  <2>1. m = n + 1
    <3>1. n = 2 * (writes - f.since) + b /\ m = 2 * (v - f.since) + d
      BY <1>1, <1>5
    <3>. HIDE DEF b, d, v, m, n
    <3>. QED  BY <1>1, <1>2, <2>0, <3>1
  <2>2. ASSUME m < CounterMod  PROVE  counter' = Wrapped(g.c + m)
    <3>1. counter = Wrapped(f.c + n) /\ n + 1 < CounterMod
      BY <1>1, <1>4, <1>5, <2>1, <2>2
    <3>. HIDE DEF n, m
    <3>2. (counter + 1) % CounterMod = Wrapped(f.c + (n + 1))
      BY <1>1, <1>2, <1>5, <3>1, StoreCounted
    <3>. QED  BY <1>1, <1>8, <2>1, <3>2
  <2>. QED  BY <1>6, <2>2
<1>. QED  BY <1>7, <1>8

(* While a slot is being set, nothing is said of a search but its count. *)
LEMMA WriterBusy ==
  ASSUME Typed, NEW r \in Readers, Watched(r), ReaderInv(find[r]), Counts(find[r])',
         set'.pc # "idle", writes' = writes
  PROVE  ReaderInv(find[r])'
<1>1. FoundSoFar(find[r])'
  BY SameSearch DEF ReaderInv, FoundSoFar, Undisturbed
<1>2. Accepted(find[r])'
  BY SameSearch DEF ReaderInv, Accepted
<1>. QED  BY <1>1, <1>2 DEF ReaderInv

-----------------------------------------------------------------------------
(* The actions of the writer *)

LEMMA SetCounterOddInv ==
  ASSUME AsWritten, Inv, NEW i \in Slots, NEW x \in Nodes, NEW h \in Hashes, SetCounterOdd(i, x, h)
  PROVE  Inv'
<1>1. /\ Typed /\ OddWhileBusy /\ Observe /\ set.pc = "idle"
      /\ hashes' = hashes /\ nodes' = nodes /\ writes' = writes
      /\ set' = [pc |-> "node", c |-> counter, i |-> i, node |-> x, hash |-> h]
      /\ counter' = (counter + 1) % CounterMod
  BY DEF SetCounterOdd, Inv
<1>2. counter \in Nat /\ counter < CounterMod /\ CounterMod \in Nat /\ CounterMod % 2 = 0
  BY <1>1, BucketAssumption DEF Typed, Counters
<1>3. counter % 2 = 0 /\ Busy = 0 /\ Busy' = 1
  BY <1>1 DEF OddWhileBusy, Busy
<1>4. counter' = counter + 1 /\ counter + 1 < CounterMod
  <2>1. counter + 1 < CounterMod
    BY <1>2, <1>3
  <2>. QED  BY <1>1, <1>2, <2>1, NextCount
<1>5. Typed'
  <2>1. find' \in [Readers -> Reader]
    BY <1>1, ObservedType DEF Typed
  <2>2. counter' \in Counters
    BY <1>2, <1>4 DEF Counters
  <2>. QED  BY <1>1, <2>1, <2>2 DEF Typed, Ptr
<1>6. OddWhileBusy'
  BY <1>1, <1>2, <1>3, <1>4 DEF OddWhileBusy
<1>7. ASSUME NEW r \in Readers  PROVE ReaderInv(find[r])'
  <2>1. Watched(r) /\ ReaderInv(find[r])
    BY <1>1, Observed DEF Typed, Inv
  <2>2. 2 * writes' + Busy' = 2 * writes + Busy + 1 /\ writes' \in Nat /\ writes <= writes'
    BY <1>1, <1>3 DEF Typed
  <2>3. Counts(find[r])'
    BY <1>1, <2>1, <2>2, WriterCounts DEF ReaderInv
  <2>. QED  BY <1>1, <2>1, <2>3, WriterBusy
<1>. QED  BY <1>5, <1>6, <1>7 DEF Inv

LEMMA SetNodeInv ==
  ASSUME Inv, SetNode
  PROVE  Inv'
<1>1. /\ Typed /\ OddWhileBusy /\ Observe /\ set.pc = "node"
      /\ nodes' = [nodes EXCEPT ![set.i] = set.node] /\ set' = [set EXCEPT !.pc = "hash"]
      /\ hashes' = hashes /\ counter' = counter /\ writes' = writes
  BY DEF SetNode, Inv
<1>2. nodes' \in [Slots -> Ptr]
  BY <1>1 DEF Typed
<1>3. find' \in [Readers -> Reader]
  BY <1>1, <1>2, ObservedType
<1>4. set'.pc = "hash" /\ set'.c = set.c /\ Busy' = Busy
  BY <1>1 DEF Typed, Busy
<1>5. Typed'
  BY <1>1, <1>2, <1>3 DEF Typed
<1>6. OddWhileBusy'
  BY <1>1, <1>4 DEF OddWhileBusy
<1>7. ASSUME NEW r \in Readers  PROVE ReaderInv(find[r])'
  <2>1. Watched(r) /\ ReaderInv(find[r])
    BY <1>1, <1>2, Observed DEF Inv
  <2>2. writes' \in Nat /\ writes <= writes'
    BY <1>1 DEF Typed
  <2>3. Counts(find[r])'
    BY <1>1, <1>4, <2>1, <2>2, WriterCounts DEF ReaderInv
  <2>. QED  BY <1>1, <1>4, <2>1, <2>3, WriterBusy
<1>. QED  BY <1>5, <1>6, <1>7 DEF Inv

LEMMA SetHashInv ==
  ASSUME Inv, SetHash
  PROVE  Inv'
<1>1. /\ Typed /\ OddWhileBusy /\ Observe /\ set.pc = "hash"
      /\ hashes' = [hashes EXCEPT ![set.i] = set.hash] /\ set' = [set EXCEPT !.pc = "even"]
      /\ nodes' = nodes /\ counter' = counter /\ writes' = writes
  BY DEF SetHash, Inv
<1>2. nodes' \in [Slots -> Ptr]
  BY <1>1 DEF Typed
<1>3. find' \in [Readers -> Reader]
  BY <1>1, <1>2, ObservedType
<1>4. set'.pc = "even" /\ set'.c = set.c /\ Busy' = Busy
  BY <1>1 DEF Typed, Busy
<1>5. Typed'
  BY <1>1, <1>2, <1>3 DEF Typed
<1>6. OddWhileBusy'
  BY <1>1, <1>4 DEF OddWhileBusy
<1>7. ASSUME NEW r \in Readers  PROVE ReaderInv(find[r])'
  <2>1. Watched(r) /\ ReaderInv(find[r])
    BY <1>1, <1>2, Observed DEF Inv
  <2>2. writes' \in Nat /\ writes <= writes'
    BY <1>1 DEF Typed
  <2>3. Counts(find[r])'
    BY <1>1, <1>4, <2>1, <2>2, WriterCounts DEF ReaderInv
  <2>. QED  BY <1>1, <1>4, <2>1, <2>3, WriterBusy
<1>. QED  BY <1>5, <1>6, <1>7 DEF Inv

(* Every search begun before this store has been disturbed. *)
LEMMA SetCounterEvenInv ==
  ASSUME Inv, SetCounterEven
  PROVE  Inv'
<1>1. /\ Typed /\ OddWhileBusy /\ Observe /\ set.pc = "even"
      /\ counter' = (set.c + 2) % CounterMod /\ set' = [set EXCEPT !.pc = "idle"]
      /\ writes' = writes + 1 /\ hashes' = hashes /\ nodes' = nodes
  BY DEF SetCounterEven, Inv
<1>2. /\ counter \in Nat /\ counter < CounterMod /\ CounterMod \in Nat /\ CounterMod > 1
      /\ CounterMod % 2 = 0 /\ set.c \in Nat /\ writes \in Nat
  BY <1>1, BucketAssumption DEF Typed, Counters
<1>3. counter % 2 = 1 /\ counter = set.c + 1 /\ Busy = 1 /\ set'.pc = "idle" /\ Busy' = 0
  BY <1>1 DEF OddWhileBusy, Busy, Typed
<1>4. counter' = (counter + 1) % CounterMod
  BY <1>1, <1>2, <1>3
<1>5. counter' = IF counter + 1 < CounterMod THEN counter + 1 ELSE 0
  BY <1>2, <1>4, NextCount
<1>6. Typed'
  <2>1. find' \in [Readers -> Reader]
    BY <1>1, ObservedType DEF Typed
  <2>2. counter' \in Counters
    BY <1>2, <1>5 DEF Counters
  <2>3. set' \in [pc : {"idle", "node", "hash", "even"}, c : Counters, i : Slots, node : Ptr, hash : Hashes]
    BY <1>1 DEF Typed
  <2>. QED  BY <1>1, <2>1, <2>2, <2>3 DEF Typed
<1>7. OddWhileBusy'
  BY <1>2, <1>3, <1>5 DEF OddWhileBusy
<1>8. ASSUME NEW r \in Readers  PROVE ReaderInv(find[r])'
  <2>1. Watched(r) /\ ReaderInv(find[r])
    BY <1>1, Observed DEF Inv, Typed
  <2>2. 2 * writes' + Busy' = 2 * writes + Busy + 1 /\ writes' \in Nat /\ writes <= writes'
    BY <1>1, <1>2, <1>3
  <2>3. Counts(find[r])'
    BY <1>1, <1>4, <2>1, <2>2, WriterCounts DEF ReaderInv
  <2>4. find[r].since \in Nat
    BY <1>1 DEF Typed, Reader
  <2>5. FoundSoFar(find[r])'
    <3>1. find[r].pc \in {"hash", "node", "verify"} => find[r].since < writes'
      BY <1>1, <1>2, <2>1, <2>4 DEF ReaderInv, Counts
    <3>. QED  BY <1>1, <2>1, <2>4, <3>1, SameSearch DEF ReaderInv, FoundSoFar, Undisturbed
  <2>6. Accepted(find[r])'
    <3>1. 2 * (writes' - find[r].since) < CounterMod => 2 * (writes - find[r].since) < CounterMod
      BY <1>1, <1>2, <2>4
    <3>. QED  BY <1>1, <2>1, <3>1, SameSearch DEF ReaderInv, Accepted
  <2>. QED  BY <2>3, <2>5, <2>6 DEF ReaderInv
<1>. QED  BY <1>6, <1>7, <1>8 DEF Inv

(* The store changes an answer between two loads of a search: the search   *)
(* has seen the new one too.                                               *)
LEMMA StoreChainInv ==
  ASSUME Inv, NEW i \in Slots, NEW x \in Ptr, StoreChain(i, x)
  PROVE  Inv'
<1>1. /\ Typed /\ OddWhileBusy /\ Observe /\ set.pc = "idle"
      /\ nodes' = [nodes EXCEPT ![i] = x]
      /\ hashes' = hashes /\ counter' = counter /\ set' = set /\ writes' = writes
  BY DEF StoreChain, Inv
<1>2. nodes' \in [Slots -> Ptr]
  BY <1>1 DEF Typed
<1>3. find' \in [Readers -> Reader]
  BY <1>1, <1>2, ObservedType
<1>4. Busy' = Busy
  BY <1>1 DEF Busy
<1>5. Typed'
  BY <1>1, <1>2, <1>3 DEF Typed
<1>6. OddWhileBusy'
  BY <1>1, <1>4 DEF OddWhileBusy
<1>7. ASSUME NEW r \in Readers  PROVE ReaderInv(find[r])'
  <2>1. Watched(r) /\ ReaderInv(find[r])
    BY <1>1, <1>2, Observed DEF Inv
  <2>2. writes' \in Nat /\ writes <= writes'
    BY <1>1 DEF Typed
  <2>3. Counts(find[r])'
    BY <1>1, <1>4, <2>1, <2>2, WriterCounts DEF ReaderInv
  <2>4. find[r].pc # "idle" => Answer(find[r].hash)' \in find'[r].seen
    BY <1>1, <2>1, SameSearch DEF Answer, Watched
  <2>5. FoundSoFar(find[r])'
    BY <1>1, <2>1, <2>4, SameSearch DEF ReaderInv, FoundSoFar, Undisturbed
  <2>6. Accepted(find[r])'
    BY <1>1, <2>1, SameSearch DEF ReaderInv, Accepted
  <2>. QED  BY <2>3, <2>5, <2>6 DEF ReaderInv
<1>. QED  BY <1>5, <1>6, <1>7 DEF Inv

-----------------------------------------------------------------------------
(* The actions of a reader *)

LEMMA ReaderMoves ==
  ASSUME Inv, NEW r \in Readers, NEW f \in Reader, Goto(r, f), ReaderInv(f)
  PROVE  Inv'
<1>1. /\ Typed /\ OddWhileBusy /\ find' = [find EXCEPT ![r] = f] /\ hashes' = hashes /\ nodes' = nodes
      /\ counter' = counter /\ set' = set /\ writes' = writes
  BY DEF Goto, Inv
<1>2. Typed' /\ OddWhileBusy'
  BY <1>1 DEF Typed, OddWhileBusy, Busy
<1>3. ASSUME NEW q \in Readers  PROVE ReaderInv(find[q])'
  <2>1. PICK g \in Reader : find'[q] = g /\ ReaderInv(g)
    BY <1>1 DEF Typed, Inv
  <2>. QED
    BY <1>1, <2>1 DEF ReaderInv, Counts, Stores, Busy, FoundSoFar, Undisturbed, Answer, Accepted
<1>. QED  BY <1>2, <1>3 DEF Inv

LEMMA CallInv ==
  ASSUME Inv, NEW r \in Readers, NEW h \in Hashes, Call(r, h)
  PROVE  Inv'
<1>. DEFINE f == [find[r] EXCEPT !.pc = "counter", !.hash = h, !.seen = {}]
<1>1. f \in Reader /\ f.pc = "counter"
  BY DEF Inv, Typed, Reader
<1>2. ReaderInv(f)
  BY <1>1 DEF ReaderInv, Counts, FoundSoFar, Accepted
<1>. QED  BY <1>1, <1>2, ReaderMoves DEF Call

LEMMA ReadCounterInv ==
  ASSUME Inv, NEW r \in Readers, ReadCounter(r)
  PROVE  Inv'
<1>. DEFINE a == Answer(find[r].hash)
            f == [find[r] EXCEPT !.pc = "hash", !.c = counter, !.i = 1, !.node = Null,
                                 !.since = writes,
                                 !.seen = IF set.pc = "idle" THEN {a} ELSE {}]
<1>1. /\ Typed /\ OddWhileBusy /\ counter % 2 = 0 /\ find[r] \in Reader /\ counter \in Counters
      /\ writes \in Nat /\ CounterMod \in Nat /\ CounterMod > 1
  BY BucketAssumption DEF ReadCounter, Inv, Typed
<1>2. set.pc = "idle" /\ Busy = 0
  BY <1>1 DEF OddWhileBusy, Busy
<1>3. a \in Ptr /\ 1 \in Slots /\ Null \in Ptr
  BY <1>1, AnswerType, BucketAssumption DEF Typed, Answer, Slots, Ptr
<1>4. /\ f \in Reader /\ f.pc = "hash" /\ f.c = counter /\ f.i = 1 /\ f.node = Null
      /\ f.since = writes /\ f.seen = {a} /\ f.hash = find[r].hash
  <2>. HIDE DEF a
  <2>. QED  BY <1>1, <1>2, <1>3 DEF Reader
<1>5. Goto(r, f)
  BY DEF ReadCounter
<1>. HIDE DEF f
<1>6. Counts(f)
  <2>1. Stores(f) = 0
    BY <1>1, <1>2, <1>4 DEF Stores
  <2>2. counter \in Nat /\ counter < CounterMod
    BY <1>1 DEF Counters
  <2>3. counter = Wrapped(f.c + 0)
    BY <1>4, <2>2 DEF Wrapped
  <2>. QED  BY <1>1, <1>4, <2>1, <2>2, <2>3 DEF Counts
<1>7. FoundSoFar(f)
  <2>1. \A j \in Slots : ~ (j < 1)
    BY BucketAssumption DEF Slots
  <2>. QED  BY <1>4, <2>1 DEF FoundSoFar
<1>8. Accepted(f)
  BY <1>4 DEF Accepted
<1>. QED  BY <1>4, <1>5, <1>6, <1>7, <1>8, ReaderMoves DEF ReaderInv

LEMMA ReadHashInv ==
  ASSUME Inv, NEW r \in Readers, ReadHash(r)
  PROVE  Inv'
<1>. DEFINE e == find[r]
            f == [e EXCEPT
                    !.pc = CASE hashes[e.i] = e.hash -> "node"
                             [] hashes[e.i] # e.hash /\ e.i < K -> "hash"
                             [] OTHER -> "verify",
                    !.i = IF hashes[@] # e.hash /\ @ < K THEN @ + 1 ELSE @]
<1>1. /\ Typed /\ e \in Reader /\ e.pc = "hash" /\ ReaderInv(e) /\ Goto(r, f) /\ K \in Nat
      /\ e.i \in Nat /\ 1 <= e.i /\ e.i <= K
  BY BucketAssumption DEF ReadHash, Inv, Typed, Reader, Slots
<1>2. f.hash = e.hash /\ f.c = e.c /\ f.node = e.node /\ f.since = e.since /\ f.seen = e.seen
  BY <1>1 DEF Reader
<1>3. e.node = Null /\ Counts(e)
  BY <1>1 DEF ReaderInv, FoundSoFar
<1>4. ASSUME Undisturbed(e)
      PROVE  Answer(e.hash) \in e.seen /\ \A j \in Slots : j < e.i => hashes[j] # e.hash
  BY <1>1, <1>4 DEF ReaderInv, FoundSoFar
<1>5. CASE hashes[e.i] = e.hash
  <2>1. f.pc = "node" /\ f.i = e.i /\ f \in Reader
    BY <1>1, <1>5 DEF Reader
  <2>. HIDE DEF f
  <2>2. Counts(f)
    BY <1>1, <1>2, <1>3, <2>1 DEF Counts, Stores
  <2>3. FoundSoFar(f)
    BY <1>2, <1>4, <1>5, <2>1 DEF FoundSoFar, Undisturbed
  <2>. QED  BY <1>1, <2>1, <2>2, <2>3, ReaderMoves DEF ReaderInv, Accepted
<1>6. CASE hashes[e.i] # e.hash /\ e.i < K
  <2>1. f.pc = "hash" /\ f.i = e.i + 1 /\ f \in Reader
    <3>1. f = [e EXCEPT !.pc = "hash", !.i = e.i + 1]
      BY <1>1, <1>6 DEF Reader
    <3>2. e.i + 1 \in Slots
      BY <1>1, <1>6 DEF Slots
    <3>. HIDE DEF f
    <3>. QED  BY <1>1, <3>1, <3>2 DEF Reader
  <2>. HIDE DEF f
  <2>2. Counts(f)
    BY <1>1, <1>2, <1>3, <2>1 DEF Counts, Stores
  <2>3. \A j \in Slots : j < f.i => j < e.i \/ j = e.i
    BY <1>1, <2>1 DEF Slots
  <2>4. FoundSoFar(f)
    BY <1>2, <1>3, <1>4, <1>6, <2>1, <2>3 DEF FoundSoFar, Undisturbed
  <2>. QED  BY <1>1, <2>1, <2>2, <2>4, ReaderMoves DEF ReaderInv, Accepted
<1>7. CASE hashes[e.i] # e.hash /\ e.i = K
  <2>1. f.pc = "verify" /\ f \in Reader
    <3>0. hashes[e.i] # e.hash /\ ~ (e.i < K)
      BY <1>1, <1>7
    <3>1. f = [e EXCEPT !.pc = "verify"]
      <4>1. f.pc = "verify" /\ f.i = e.i
        BY <1>1, <3>0 DEF Reader
      <4>. QED  BY <1>1, <3>0, <4>1 DEF Reader
    <3>. HIDE DEF f
    <3>. QED  BY <1>1, <3>1 DEF Reader
  <2>. HIDE DEF f
  <2>2. Counts(f)
    BY <1>1, <1>2, <1>3, <2>1 DEF Counts, Stores
  <2>3. ASSUME Undisturbed(e)  PROVE Null \in e.seen
    <3>1. \A j \in Slots : j < e.i \/ j = e.i
      BY <1>1, <1>7 DEF Slots
    <3>2. \A j \in Slots : hashes[j] # e.hash
      BY <1>4, <1>7, <2>3, <3>1
    <3>3. Answer(e.hash) = Null
      BY <3>2 DEF Answer, AnswerOf
    <3>. QED  BY <1>4, <2>3, <3>3
  <2>4. FoundSoFar(f)
    BY <1>2, <1>3, <2>1, <2>3 DEF FoundSoFar, Undisturbed
  <2>. QED  BY <1>1, <2>1, <2>2, <2>4, ReaderMoves DEF ReaderInv, Accepted
<1>. QED  BY <1>1, <1>5, <1>6, <1>7

LEMMA ReadNodeInv ==
  ASSUME Inv, NEW r \in Readers, ReadNode(r)
  PROVE  Inv'
<1>. DEFINE e == find[r]
            f == [e EXCEPT !.pc = "verify", !.node = nodes[e.i]]
<1>1. Typed /\ e \in Reader /\ e.pc = "node" /\ ReaderInv(e) /\ Goto(r, f) /\ e.i \in Slots
  BY DEF ReadNode, Inv, Typed, Reader
<1>2. /\ f \in Reader /\ f.pc = "verify" /\ f.node = nodes[e.i] /\ f.c = e.c /\ f.since = e.since
      /\ f.seen = e.seen
  BY <1>1 DEF Typed, Reader
<1>. HIDE DEF f
<1>3. Counts(f)
  BY <1>1, <1>2 DEF ReaderInv, Counts, Stores
<1>4. FoundSoFar(f)
  <2>1. ASSUME Undisturbed(e)  PROVE nodes[e.i] \in e.seen
    <3>1. /\ Answer(e.hash) \in e.seen /\ hashes[e.i] = e.hash
          /\ \A j \in Slots : j < e.i => hashes[j] # e.hash
      BY <1>1, <2>1 DEF ReaderInv, FoundSoFar
    <3>. QED  BY <1>1, <3>1, AnswerThere
  <2>. QED  BY <1>2, <2>1 DEF FoundSoFar, Undisturbed
<1>. QED  BY <1>1, <1>2, <1>3, <1>4, ReaderMoves DEF ReaderInv, Accepted

(* The counter is what it was, and too few slots were set for it to have   *)
(* come round: none was.                                                   *)
LEMMA VerifyInv ==
  ASSUME AsWritten, Inv, NEW r \in Readers, Verify(r)
  PROVE  Inv'
<1>. DEFINE e == find[r]
            f == [e EXCEPT !.pc = IF counter = e.c THEN "accepted" ELSE "counter"]
<1>1. Typed /\ OddWhileBusy /\ e \in Reader /\ e.pc = "verify" /\ ReaderInv(e) /\ Goto(r, f)
  BY DEF Verify, Inv, Typed
<1>2. /\ f \in Reader /\ f.pc = (IF counter = e.c THEN "accepted" ELSE "counter")
      /\ f.node = e.node /\ f.since = e.since /\ f.seen = e.seen
  BY <1>1 DEF Reader
<1>. HIDE DEF f
<1>3. ASSUME counter = e.c, 2 * (writes - e.since) < CounterMod
      PROVE  e.node \in e.seen
  <2>1. /\ e.since \in Nat /\ e.c \in Nat /\ e.c < CounterMod /\ writes \in Nat /\ CounterMod \in Nat
        /\ e.since <= writes /\ e.c % 2 = 0
        /\ Stores(e) < CounterMod => counter = Wrapped(e.c + Stores(e))
    BY <1>1, BucketAssumption DEF Typed, Reader, Counters, ReaderInv, Counts
  <2>2. Busy = 0 /\ set.pc = "idle"
    BY <1>1, <1>3, <2>1 DEF OddWhileBusy, Busy
  <2>3. Stores(e) = 2 * (writes - e.since)
    BY <2>1, <2>2 DEF Stores
  <2>4. Stores(e) \in Nat /\ Stores(e) < CounterMod /\ e.c = Wrapped(e.c + Stores(e))
    BY <1>3, <2>1, <2>3
  <2>5. Stores(e) = 0
    BY <2>1, <2>4 DEF Wrapped
  <2>6. Undisturbed(e)
    <3>1. e.since \in Nat /\ writes \in Nat /\ 2 * (writes - e.since) = 0
      BY <2>1, <2>3, <2>5
    <3>. HIDE DEF e
    <3>. QED  BY <2>2, <3>1 DEF Undisturbed
  <2>. QED  BY <1>1, <2>6 DEF ReaderInv, FoundSoFar
<1>4. Counts(f) /\ FoundSoFar(f)
  BY <1>2 DEF Counts, FoundSoFar
<1>5. Accepted(f)
  BY <1>2, <1>3 DEF Accepted
<1>. QED  BY <1>1, <1>2, <1>4, <1>5, ReaderMoves DEF ReaderInv

LEMMA ReturnInv ==
  ASSUME Inv, NEW r \in Readers, Return(r)
  PROVE  Inv'
<1>. DEFINE f == [find[r] EXCEPT !.pc = "idle", !.c = 0, !.i = 1, !.node = Null, !.since = 0, !.seen = {}]
<1>1. 1 \in Slots /\ 0 \in Counters /\ Null \in Ptr
  BY BucketAssumption DEF Slots, Counters, Ptr
<1>2. f \in Reader /\ f.pc = "idle"
  BY <1>1 DEF Inv, Typed, Reader
<1>3. ReaderInv(f)
  BY <1>2 DEF ReaderInv, Counts, FoundSoFar, Accepted
<1>. QED  BY <1>2, <1>3, ReaderMoves DEF Return

-----------------------------------------------------------------------------

LEMMA NextInv == AsWritten /\ Inv /\ [Next]_vars => Inv'
<1>. SUFFICES ASSUME AsWritten, Inv, [Next]_vars PROVE Inv'
  OBVIOUS
<1>1. CASE UNCHANGED vars
  BY <1>1 DEF vars, Inv, Typed, OddWhileBusy, Busy, ReaderInv, Counts, Stores, FoundSoFar, Undisturbed,
              Answer, Accepted
<1>2. ASSUME NEW i \in Slots, NEW x \in Nodes, NEW h \in Hashes, SetCounterOdd(i, x, h)
      PROVE  Inv'
  BY <1>2, SetCounterOddInv
<1>3. CASE WriterStep
  BY <1>3, SetNodeInv, SetHashInv, SetCounterEvenInv DEF WriterStep
<1>4. ASSUME NEW i \in Slots, NEW x \in Ptr, StoreChain(i, x)
      PROVE  Inv'
  BY <1>4, StoreChainInv
<1>5. ASSUME NEW r \in Readers, ReaderStep(r) \/ Return(r) \/ \E h \in Hashes : Call(r, h)
      PROVE  Inv'
  BY <1>5, ReadCounterInv, ReadHashInv, ReadNodeInv, VerifyInv, ReturnInv, CallInv DEF ReaderStep
<1>. QED  BY <1>1, <1>2, <1>3, <1>4, <1>5 DEF Next

(* With the accesses in program order, an accepted search of a bucket      *)
(* returns what the bucket held under the hash at some moment since the    *)
(* search read the counter, unless the counter came round meanwhile        *)
(* (cmap_find, cmap.cpp): whatever K, the width of the counter, the number *)
(* of readers and the number of updates.                                   *)
THEOREM SearchIsAtomic == AsWritten => (Spec => []SearchAtomic)
<1>1. Inv => SearchAtomic
  BY DEF Inv, ReaderInv, Accepted, SearchAtomic
<1>. SUFFICES ASSUME AsWritten PROVE Spec => []SearchAtomic
  OBVIOUS
<1>. QED  BY <1>1, InitInv, NextInv, PTL DEF Spec

(* The counter is odd exactly while cmap_set_bucket is between its two     *)
(* stores, which is what read_even_counter waits for.                      *)
THEOREM CounterOddWhileSet == AsWritten => (Spec => []OddWhileBusy)
<1>1. Inv => OddWhileBusy
  BY DEF Inv
<1>. SUFFICES ASSUME AsWritten PROVE Spec => []OddWhileBusy
  OBVIOUS
<1>. QED  BY <1>1, InitInv, NextInv, PTL DEF Spec
=============================================================================
