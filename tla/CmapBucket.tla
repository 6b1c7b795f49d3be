----------------------------- MODULE CmapBucket -----------------------------
(***************************************************************************)
(* One bucket of a cmap (src/src/OVS/cmap.cpp), load by load and store by  *)
(* store: the writer updates slots, readers search the bucket without a    *)
(* lock and use the bucket's counter to find out whether a slot was being  *)
(* replaced meanwhile.                                                     *)
(*                                                                         *)
(* The fields are plain ints and pointers.  AsWritten says that the build  *)
(* keeps every access in program order.  Without it the optimizer may do   *)
(* what it may do to plain fields: drop the first store to the counter,    *)
(* which the last one overwrites, and answer counter_changed from the      *)
(* value read_even_counter has loaded.                                     *)
(***************************************************************************)
EXTENDS Integers, Sequences, FiniteSets

CONSTANTS
  K,            \* CMAP_K
  Hashes, Zero, \* Zero: the hash of a zeroed slot, a possible hash
  Nodes, Null,
  Readers,
  CounterMod,   \* counters are uint32_t: 2^32
  MaxWrites,    \* bound: how many calls of cmap_set_bucket are explored
  AsWritten

ASSUME BucketAssumption ==
  /\ K \in Nat \ {0}
  /\ Zero \in Hashes
  /\ Null \notin Nodes
  /\ CounterMod \in Nat /\ CounterMod > 1 /\ CounterMod % 2 = 0
  /\ MaxWrites \in Nat
  /\ AsWritten \in BOOLEAN

VARIABLES
  hashes, nodes, counter,  \* the bucket
  set,                     \* the call of cmap_set_bucket in progress
  find,                    \* find[r]: reader r in the inner loop of cmap_find__
  writes                   \* (history) completed calls of cmap_set_bucket

bucket == <<hashes, nodes, counter>>
vars == <<hashes, nodes, counter, set, find, writes>>

Slots == 1..K
Ptr   == Nodes \cup {Null}

First(S) == CHOOSE s \in S : \A q \in S : s <= q

(* What cmap_find_in_bucket returns when nothing changes *)
AnswerOf(hs, ns, h) ==
  LET S == {s \in Slots : hs[s] = h}
  IN  IF S = {} THEN Null ELSE ns[First(S)]

Answer(h) == AnswerOf(hashes, nodes, h)

Init ==
  /\ hashes = [s \in Slots |-> Zero]
  /\ nodes = [s \in Slots |-> Null]
  /\ counter = 0
  /\ set = [pc |-> "idle", c |-> 0, i |-> 1, node |-> Null, hash |-> Zero]
  /\ find = [r \in Readers |-> [pc |-> "idle", hash |-> Zero, c |-> 0, i |-> 1,
                                node |-> Null, since |-> 0, seen |-> {}]]
  /\ writes = 0

-----------------------------------------------------------------------------
(* The writer *)

(* The history of the readers: the answers of the bucket between updates *)
Observe ==
  find' = [r \in Readers |->
            IF set'.pc # "idle" THEN find[r]
            ELSE [find[r] EXCEPT !.seen = IF find[r].pc = "idle" THEN @
                                          ELSE @ \cup {AnswerOf(hashes', nodes', find[r].hash)}]]

(* Mutant: the first store to the counter is left out. *)
SetCounterOdd_Dropped(i, x, h) ==
  /\ set.pc = "idle" /\ writes < MaxWrites
  /\ set' = [pc |-> "node", c |-> counter, i |-> i, node |-> x, hash |-> h]
  /\ UNCHANGED counter
  /\ UNCHANGED <<hashes, nodes, writes>>
  /\ Observe

(* cmap_set_bucket is called for an empty slot, or along a path of         *)
(* cmap_insert_bfs for a slot whose content has been copied elsewhere.     *)
SetCounterOdd(i, x, h) ==
  /\ set.pc = "idle" /\ writes < MaxWrites
  /\ set' = [pc |-> "node", c |-> counter, i |-> i, node |-> x, hash |-> h]
  /\ \/ counter' = (counter + 1) % CounterMod
     \/ ~ AsWritten /\ UNCHANGED counter
  /\ UNCHANGED <<hashes, nodes, writes>>
  /\ Observe

SetNode ==
  /\ set.pc = "node"
  /\ nodes' = [nodes EXCEPT ![set.i] = set.node]
  /\ set' = [set EXCEPT !.pc = "hash"]
  /\ UNCHANGED <<hashes, counter, writes>>
  /\ Observe

SetHash ==
  /\ set.pc = "hash"
  /\ hashes' = [hashes EXCEPT ![set.i] = set.hash]
  /\ set' = [set EXCEPT !.pc = "even"]
  /\ UNCHANGED <<nodes, counter, writes>>
  /\ Observe

(* Mutant: the counter stays odd. *)
SetCounterEven_Odd ==
  /\ set.pc = "even"
  /\ counter' = (set.c + 1) % CounterMod
  /\ set' = [set EXCEPT !.pc = "idle"]
  /\ writes' = writes + 1
  /\ UNCHANGED <<hashes, nodes>>
  /\ Observe

SetCounterEven ==
  /\ set.pc = "even"
  /\ counter' = (set.c + 2) % CounterMod
  /\ set' = [set EXCEPT !.pc = "idle"]
  /\ writes' = writes + 1
  /\ UNCHANGED <<hashes, nodes>>
  /\ Observe

(* The plain store of cmap_insert_dup and cmap_replace__: another chain    *)
(* under the same hash                                                     *)
StoreChain(i, x) ==
  /\ set.pc = "idle"
  /\ nodes' = [nodes EXCEPT ![i] = x]
  /\ UNCHANGED <<hashes, counter, set, writes>>
  /\ Observe

-----------------------------------------------------------------------------
(* A reader.  The step taken is named by pc; the result of a search the    *)
(* counter does not accept is thrown away and the search starts again.     *)

Goto(r, f) == find' = [find EXCEPT ![r] = f] /\ UNCHANGED <<hashes, nodes, counter, set, writes>>

Call(r, h) ==
  /\ find[r].pc = "idle"
  /\ Goto(r, [find[r] EXCEPT !.pc = "counter", !.hash = h, !.seen = {}])

(* read_even_counter *)
ReadCounter(r) ==
  /\ find[r].pc = "counter" /\ counter % 2 = 0
  /\ Goto(r, [find[r] EXCEPT !.pc = "hash", !.c = counter, !.i = 1, !.node = Null,
                             !.since = writes,
                             !.seen = IF set.pc = "idle" THEN {Answer(find[r].hash)} ELSE {}])

(* cmap_find_in_bucket *)
ReadHash(r) ==
  /\ find[r].pc = "hash"
  /\ Goto(r, [find[r] EXCEPT
        !.pc = CASE hashes[find[r].i] = find[r].hash -> "node"
                 [] hashes[find[r].i] # find[r].hash /\ find[r].i < K -> "hash"
                 [] OTHER -> "verify",
        !.i = IF hashes[@] # find[r].hash /\ @ < K THEN @ + 1 ELSE @])

ReadNode(r) ==
  /\ find[r].pc = "node"
  /\ Goto(r, [find[r] EXCEPT !.pc = "verify", !.node = nodes[find[r].i]])

(* counter_changed *)
Verify(r) ==
  /\ find[r].pc = "verify"
  /\ \/ Goto(r, [find[r] EXCEPT !.pc = IF counter = find[r].c THEN "accepted" ELSE "counter"])
     \/ ~ AsWritten /\ Goto(r, [find[r] EXCEPT !.pc = "accepted"])

Return(r) ==
  /\ find[r].pc = "accepted"
  /\ Goto(r, [find[r] EXCEPT !.pc = "idle", !.c = 0, !.i = 1, !.node = Null, !.since = 0, !.seen = {}])

WriterStep == SetNode \/ SetHash \/ SetCounterEven
ReaderStep(r) == ReadCounter(r) \/ ReadHash(r) \/ ReadNode(r) \/ Verify(r)

Next ==
  \/ \E i \in Slots, x \in Nodes, h \in Hashes : SetCounterOdd(i, x, h)
  \/ WriterStep
  \/ \E i \in Slots, x \in Ptr : StoreChain(i, x)
  \/ \E r \in Readers : ReaderStep(r) \/ Return(r) \/ \E h \in Hashes : Call(r, h)

Spec == Init /\ [][Next]_vars

(* The writer finishes a call it started and readers keep running. *)
FairSpec == Spec /\ WF_vars(WriterStep) /\ \A r \in Readers : WF_vars(ReaderStep(r))

(* This function works even if cmap is changing concurrently (cmap.cpp,    *)
(* cmap_find): an accepted search returns what the bucket held under the   *)
(* hash at some moment since the search read the counter, provided fewer   *)
(* than CounterMod / 2 slots were set meanwhile - the counter's width is   *)
(* part of the argument, since it comes round after that many.             *)
SearchAtomic ==
  \A r \in Readers :
    find[r].pc = "accepted" /\ 2 * (writes - find[r].since) < CounterMod
      => find[r].node \in find[r].seen

(* A search is never stuck behind the writer: once the bucket is no longer *)
(* written to, every reader in the loop gets out of it.                    *)
SearchReturns ==
  \A r \in Readers : find[r].pc \in {"counter", "hash", "node", "verify"} ~> find[r].pc = "accepted"
=============================================================================
