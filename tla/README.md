# A TLA+ development of libEveryPacketClassifier

The library collects packet classifiers: structures that hold a changing list
of prioritised rules and answer, for a packet, the priority of the best rule
that matches it.  Around them stands a benchmark (a simulator of update traces
and a thread pool), and below one of them a lock-free hash table taken from
Open vSwitch.  This directory holds TLA+ models of it, the TLC configurations
that check them on small instances, and TLAPS proofs for all instances.

Paths below are relative to `src/src/`.  `PROJECT.json` maps every definition
to the lines it translates, every property to a plausible bug that breaks it.

## 1. Inventory

| Component | State it keeps | Operations | What is hard |
|---|---|---|---|
| `OVS/cmap.*` cuckoo hash map | published table (mask, basis, count, buckets of K=5 slots, each a hash and a chain), per bucket a seqlock counter, the table being filled by a rehash | `cmap_insert`, `cmap_replace`, `cmap_remove`, `cmap_find` (lock-free), `cmap_find_protected`, `cmap_find_batch`, cursors | readers between a writer's stores; displacement paths; rehash that fails and retries; memory freed under readers |
| `OVS/TupleSpaceSearch.*` TupleSpaceSearch | `rules`, map from key to tuple (a cmap per tuple) | construct, `InsertRule`, `DeleteRule(i)`, `ClassifyAPacket` | index deletes that move the last rule; equal hashes of unequal keys |
| same, PriorityTupleSpaceSearch | the same and a vector of tuples sorted by cached maximum | the same | two containers and a cached maximum that a search trusts to stop early |
| `TupleMerge/SlottedTable.*` | per-field lengths, cmap, multiset of priorities, maximum | `Insertion`, `Deletion`, `Collisions`, `ClassifyAPacket` | whether a rule fits a table |
| `TupleMerge/TupleMergeOnline.*` | list of tables, `assignments` (priority to table), `rules` | insert with split at the collision limit, delete, search | rules that move between tables; when to sort; what an emptied table takes with it |
| `TupleMerge/TupleMergeOffline.*` | tables built from the whole list; then those of TupleMerge Online | construct; insert, delete and search inherited | the greedy choice of a tuple counts collisions under another hash than the table that is filled |
| `PartitionSort/*` | vector of multi-level interval trees, each of red-black trees; `rules` with the tree of each | insert, delete, search, reconstruction of a tree with few rules | rotations with path compression; a reconstruction that reads stale data; which tree is popped when empty |
| `Utilities/IntervalUtilities.*` | none (pure) | interval scheduling and unique intervals for PartitionSort | greedy algorithms |
| `HyperSplit/*`, `HyperCuts/*`, `ByteCuts/*`, `Trees/*` | decision trees over boxes of rules | construct, search; HyperSplit also insert and delete | clipping, redundancy removal, children computed from equal parts, 8- and 16-bit fields |
| `BitVector/*` | per-field ranges with a bit set of rules each | construct, search | scans across words, three matchers that must agree |
| `list_classifier.h`, `BruteForce.h` | sorted list | the linear search other classifiers are compared with | none |
| `Utilities/thread_pool.h` | mutex, condition variable, queue, `stop`, worker threads | constructor, `enqueue`, destructor | lost wakeups, shutdown races |
| `Simulation.*` | two containers of rules (in use, available), request trace, futures, results | `SetupComputation`, `load_ruleset_into_classifier`, `ruhn_only_packet_classification`, `run_task_sequnce` | indices recorded in advance and replayed; tasks that refer to the caller's locals; exceptions out of a wait |
| `packetClassificators.cpp` | arguments | the three modes, validation against the list | - |
| `packet_classifier.h`, `ElementaryClasses.h` | rules, packets, statistics | interface of every classifier, comparisons | comparators that are no strict weak order |
| `IO/*`, `ClassBenchTraceGenerator/*` | none | parsing, de-duplication, printing, trace generation | pure I/O |
| `pcv/`, `packet_classifier_from_generic_classifier.*`, `construct_classifier_by_name.*` | an external object | adapters and a factory | algorithms outside this repository |

How they interact.  `main` builds one or more classifiers of a kind by name and
gives them to a simulator, which enqueues one task per classifier in its thread
pool and waits on futures; tasks share the simulator's containers and the first
one writes the results.  The simulator's bookkeeping and a classifier's rule
list must stay equal element by element, because deletions are by index and
both fill the hole with their last element.  TupleSpaceSearch, its priority
variant and the slotted tables of TupleMerge keep their rules in cmaps, as
chains of nodes with equal hashes.  Every classifier runs on one thread at a
time; the cmap alone is written for concurrent readers.

What makes them correct.  A classifier answers each packet as the linear search
over its rule list would, after any sequence of inserts and deletes.  A cmap is
a multimap with one chain per hash, and a search that races a writer answers
something that was true during the call.  The pool runs each accepted task once
and its destructor ends with all of them run.  The simulator replays a trace
whose indices are always valid, and hands out results of finished tasks only.

`PROJECT.json` lists under `hazards` where this code can go wrong in a way a
test would hardly reach, with the properties aimed at each.

## 2. Modules

A module `X` holds state and actions, and what is claimed of them, or
`XProperties` does; `MCX` has the constants of a TLC instance, `X_proofs` the
theorems.

```
HashMultimap  <-implements-  Cmap <- CmapProperties <- CmapReaders <- Cmap_proofs
                             CmapBucket <- CmapBucket_proofs   (one bucket, store by store)
TaskPool      <-implements-  ThreadPool <- ThreadPoolProperties <- ThreadPool_proofs
RuleSet <- Classifier        (what every classifier promises)
   TupleTable, PrefixTuples <- TupleSpaceSearch          -implements-> Classifier
                            <- PriorityTupleSpaceSearch  -implements-> TupleSpaceSearch, Classifier
   SlottedTable             <- TupleMergeOnline <- TupleMergeOnlineProperties <- TupleMergeOffline
                               <- TupleMergeOnline_proofs
   Boxes <- HyperSplit                                 \
         <- ByteCuts, HyperCuts, BitVector             \
         <- RedBlackTree <- PartitionSort              --> ClassifierByName <- TreesProperties
         <- HyperSplit, BitVector <- Boxes_proofs
   Requests                 <- Simulation (over TaskPool) <- Simulation_proofs
```

* **HashMultimap** is the abstract multimap of cmap.h: for each hash the list
  of its nodes, insert at the head, remove, replace.
* **Cmap** is the table with one writer and steps as wide as one bucket store.
  `InsertNode` begins `cmap_insert`: `InsertDup` looks for the chain of the
  hash, `Room` for an empty slot, `Paths` are the breadth-first displacements
  of `cmap_insert_bfs`, performed from the empty end by `Shift` and
  `ShiftLast`.  `PlaceFails` begins a rehash, or another attempt at one with a
  new basis; `Copy` moves one slot, `Publish` replaces the table.
  `ReplaceNode` and `RemoveNode` are `cmap_replace` and `cmap_remove`.  The hash
  function is a constant.
* **CmapReaders** adds lock-free searches between those steps, reading one
  bucket at a time and looking at the counter of the first again after the second,
  as `cmap_find__` does.  A rehash frees the table a reader may still hold; a
  search that goes on in it ends as undefined, and nothing is claimed of it.
* **CmapBucket** is one bucket with every store of `cmap_set_bucket` and every
  load of a search a step.  `AsWritten = TRUE` performs them in program order,
  `FALSE` leaves out what a compiler may leave out of plain accesses.
* **TaskPool** is a queue whose tasks start in order, can be closed, and is gone
  when closed and drained.  **ThreadPool** is `thread_pool.h` at the grain of
  lock, wait, pop, notify: workers, clients in `enqueue`, and the owner in the
  destructor.
* **RuleSet** has the constants of all classifiers: rules with distinct
  priorities and prefix lengths, packets, `Match`, and the swap-with-last
  removal that classifiers and bookkeeping share.  **Classifier** is the
  abstract classifier: a list of rules and the answer to each packet.
* **TupleTable** is one tuple (its chains, priorities and maximum),
  **PrefixTuples** the key of a rule, **TupleSpaceSearch** and
  **PriorityTupleSpaceSearch** the two classifiers.  A tuple's cmap is taken
  as the multimap that Cmap is checked to implement.
* **SlottedTable** and **TupleMergeOnline** are the table and the classifier of
  TupleMerge.  A table lives in `heap` for as long as something can refer to it:
  the code leaves tables that `erase` dropped in `assignments`.
  **TupleMergeOffline** adds the construction from a list: `Common` are the
  tuples looked at, `Takes` the rules each would take, `BestTuple` the choice,
  `SelectTable` the table made and `Constructed` the whole with the final sort.
  Its loops are recursive functions of the position in a list or the round.  The
  rules that remain after a table are a set, since they stay in the order of
  falling priority.
* **Boxes** are rules as ranges, **HyperSplit** the tree with its choice of
  dimension and split point, the split of a full leaf on insert and the
  contraction on delete.  A leaf holds a set, since its search looks at every
  rule.  `SplitFrom`, `InsertedFrom`, `DeletedFrom` and `LeafFrom` are recursive
  functions over the trees of at most k levels (`Trees`); `levels` in a node counts
  them and decides nothing.  The right half of a split keeps its low bound and is given `s + 1` as
  the high one (HyperSplit_nodes.cpp:156): the model has the bounds the code
  has, and they affect where later splits fall, not who answers.
* **ByteCuts** has no updates and is written as operators: the partition by
  prefix length (`Parts`), the builders (`BuildNode`, `BuildCutNode`,
  `BuildSecondaryRoot`) that return the tree and what it could not take, and
  the search.
* **HyperCuts** is the construction (`DimensionsToCut`, the levels of halving
  that count the cuts, `WithChildren` with the removal of redundant rules) and
  the search that computes the child of a packet (`ChildIndex`).  Points are
  unsigned integers below `Word`, because the halves of a single value wrap.
* **BitVector** has the three matchers (`EqnMatch`, `RangeSearch`,
  `LongestPrefix`), the bit sets as words with their scans, and both searches.
  The matched fields are the addresses, whose ranges are prefixes: EqnMatcher
  and LongestPrefixMatch keep a low end and a mask of a range, no more.  There
  is nothing to update: its state is what the construction has made.  A BitSet64
  scans for the first half of its bits only, and to set a bit beyond its end is
  undefined: it may set others (`Strays`).
* **RedBlackTree** is `red_black_tree.cpp` node by node: the tree of one field
  whose nodes hold trees of the next, with a chain in place of nodes while
  there is a single rule (path compression), insertion and deletion with their
  fix-ups, and `CanInsert`.  An operation that throws, reads through null or
  does not return gives a tree with a fault.  The code leaves the parent of a
  new root as it was, so that later fix-ups can work above the root; a tree
  that thereby lost a node or has a circle is taken for a fault at once.
* **PartitionSort** is the vector of such trees, with the tree of every rule.
  Two values the code does not initialise are free choices: the colour of a
  new node in some paths (`red`), and the size of a vector that is read after
  the parts it held are gone (`stale`).
* **ClassifierByName** constructs HyperSplit, ByteCuts, HyperCuts, BitVector or
  PartitionSort, one by its name, and gives it the updates it takes.
* **Requests** is the computation of the update trace (shuffles, the pass that
  swaps requests so that neither container underflows, the draw of indices),
  **Simulation** the main thread and its tasks over the abstract pool.

Modules that recursive operators reach (ByteCuts, HyperCuts, PartitionSort and
what constructs them by name) are for TLC only; all others,
HyperSplit among them, are written without recursion, or with recursive functions,
so that they can be proved about.

## 3. Runs

Every run is exhaustive within its constants.

| Run | Shows | Bounds, and why they suffice |
|---|---|---|
| `cmap` | One chain per hash, in one of its two buckets; the count; copies of a rehash; refinement of HashMultimap; every call returns | K=2 slots (the code: 5), 5 nodes over 4 hashes, 2 bases: two-step displacements, chains of two, growing and failed rehashes all occur |
| `cmap_readers` | Every search that races the writer is linearizable | K=1, so that displacement is the rule and not the exception; one reader (readers do not interact) |
| `cmap_bucket` | A search of one bucket is atomic and ends | 2 slots, a counter modulo 4, 3 writes: the counter wraps (twice per write) under a reader |
| `pool` | No task lost or run twice, no lost wakeup, drained shutdown, refinement of TaskPool, liveness | 2 workers, 2 clients, 3 tasks, one spurious wakeup: two waiters, two notifiers and the destructor can all meet |
| `ptss` | Both tuple spaces: map, vector, chains and maxima agree; refinement of Classifier and of TupleSpaceSearch | 5 rules in 3 tuples, unequal keys with equal hash, 4 packets, one matching several tuples |
| `tuple_merge` | From an empty classifier and from Offline's construction of every list: assignments, fit, order, exact answers on the listed tables, only emptied tables drop; a constructed table has no more colliding rules than the limit | 4 rules, collision limit 2, so one insert splits by SA, DA or DP, and a construction makes up to three tables |
| `tuple_merge_delete` (violation) | Rules in use that are not searched any more | 5 rules, collision limit 1 |
| `simulation` | Indices in range over two trials, lists in step, results complete | 3 rules, 5 requests (2 inserts, 2 deletes, 1 packet) in every order and with every draw, 2 classifiers |
| `simulation_wait` (violation) | `run_task_sequnce` ends before its tasks | same instance |
| `trees` | HyperSplit's leaves have every rule; ByteCuts loses nothing and is exact where its leaves are in order; HyperCuts is exact where no field was cut into more parts than it has values; BitVector is exact with two of its matchers; PartitionSort answers with rules that are present and match, and meets no overlap | see below |
| `hypercuts_valid` (violation) | HyperCuts answers otherwise than the list | same instance |
| `partition_valid` (violation) | PartitionSort loses a rule it was given in the order of the file | same instance |

The instance of `trees`: 15 rules over 4 fields of 4 bits, 15 packets.
HyperSplit inserts and deletes 3 of the rules in every order, beginning with
each of the 8 sets of them; the static three are constructed from the same 8
sets.  Leaves hold 1 rule (ByteCuts, HyperSplit) or 2 (HyperCuts, `SpaceFactor`
4 as in the code).  ByteCuts has nybbles of 1 bit (the code: 4), cuts of up to
2 bits (`MaxDelta`, 16), spans of 2 (`MaxSpan`, 16) and rate 1 (`PrimaryRate`,
5): cuts, splits, rules refused at two depths, a second primary tree and a
secondary one all occur.  A word of a bit set has 4 bits (`BitsPerWord`, 32), so
that 15 rules fill four, the last in part, and are more than a BitSet64 has bits.
The ranges of DA are nested three deep.  PartitionSort inserts and deletes within two sets of
4 rules (`Together`), one with a tree of two below a node and one with an
overlap; a tree is mature at 3 rules (`Mature`, 10), so that rebuilding,
maturity, unzipping and zipping of chains, rotations and both fix-ups occur.

Deadlock is checked except where the program ends: in `pool`, `simulation` and
`simulation_wait` (pool joined, simulator destroyed), and in `trees` and its two
violation runs, where a static classifier takes no updates and PartitionSort may
stop at a fault.

**Findings.**  The four violation runs are disagreements between the code and
what its comments and tests promise, met while modelling:

* `TupleMergeOnline::DeleteRule` erases all tables behind an emptied one.
* `run_task_sequnce` waits on futures that were never given a task, throws and
  leaves tasks running.
* HyperCuts cuts a field into more parts than it has values (the check is
  commented out), after which the child that a search computes is not the one
  that holds the packet.
* PartitionSort's reconstruction of a small tree serialises all nodes but the
  root and, reading the size of a vector that is stale, may accept the result:
  the first rule of the tree is gone.

The last two were reproduced by programs built from the source, on the
instances of the runs.  Other disagreements show in the models, and no run is
spent on them:

* `BuildPrimaryRoot` of ByteCuts hands what it cannot take to the next tree in
  the order in which its nodes refused it; only `BuildSecondaryRoot` sorts.  In
  the instance of `trees`, rule 1 is refused above rule 10, so the second tree
  has the leaf <1, 10> and a packet that both match gets priority 1.
  `ByteCutsAnswers` therefore claims exactness only for packets whose leaves are
  in order.  The same happens in the program, given 294 rules.
* BitVector is built with LongestPrefixMatch, whose table has the length where
  its header says the index: rules are missed, and `test_BitVector` of
  tests/test_simple_functionality.py would fail.  `BitVectorAnswers` claims of
  it only that what it answers matches, and exactness for the other matchers.
* With `AsWritten = FALSE` a search of a bucket is not atomic: the seqlock rests
  on accesses that a compiler may merge.  `cmap_rehash` frees the old table at
  once, although cmap.h speaks of parallel searches.  Nothing in the repository
  searches a map while another thread changes it.

**Fairness.**  Liveness needs: the writer of a cmap keeps taking steps (weak
fairness of its step) and `random_uint32` does not avoid a basis for ever (strong
fairness of a retry with each basis: the bases are random draws); in the
bucket, writer and readers are scheduled (weak); in the pool, each worker and
client is scheduled and the mutex, once free again and again, is passed on
(weak fairness of each thread's step, the steps that need the mutex being
enabled whenever it is free), and the destructor, once begun, goes on.  Nothing
forces a client to call, or the destructor to be called.

## 4. Proofs

All hold for any constants that satisfy the named assumptions (`RuleSetAssumption`,
`FieldsAssumption`, `PoolAssumption`, `BucketAssumption`, ...), and TLC evaluates
these on every run.  The inductive invariants were checked with TLC before they
were proved.

* **TupleTable_proofs**: lemmas on the operators: a list without duplicates
  after append and swap-remove, a maximum of a non-empty set of priorities, and
  that a rule that matches a packet has the packet's hash in its own tuple.
* **PriorityTupleSpaceSearch_proofs**: `Invariance` proves the inductive
  invariant: types; map and vector hold the same tuples; tuples hold the rules
  of the list by key, their priorities and true maximum; the vector is sorted.
  The sort and the chains each need the other: `pop_back` removes the right
  tuple only because an empty tuple's maximum is -1 and the vector is sorted
  after it.  From it follow `TypeCorrect`, `VectorCorrect`, `StaysSorted`,
  `TuplesCorrect` and `MaximaCorrect`.  `Refinement` shows that the search, which
  stops at the first tuple whose maximum cannot win, answers as the rule list
  demands; `PlainRefinement` that it is a TupleSpaceSearch with more
  bookkeeping, and `PlainAnswers` that the plain search of its tuples is exact
  too.
  `TuplesInvariance` and `TuplesRefinement` are the invariant of TupleSpaceSearch
  by itself and its refinement of Classifier by the search that asks every tuple.
* **TupleMergeOnline_proofs**: the inductive invariant says that every table's
  chains, priorities and maximum agree (`TableOf`), that a table stores exactly
  the rules assigned to it (`StoredWhereAssigned`), that its rules fit it, and
  that the listed tables are different, allocated and sorted.  An insertion
  with a split is the step that disturbs all of it: rules change their table,
  two maxima change, and a table may be new.  `AssignmentsLead`, `RulesFit`,
  `StaysSorted` and `OnlyDeletionDrops` follow.  `ExactAnswers` shows that
  skipping tables by their maximum loses nothing: by a least counterexample,
  the best priority after i tables is the best answer of these i (the recursive
  function of the search is shown to exist in the same way); and a rule's table
  hashes by no more than the rule's own prefixes (`LengthsOK`, `FitsItsTable`),
  so that its packets find it.  `OnlyEmptiedTablesDrop` is not weakened to
  states in which everything is searched: it holds also after tables have been
  dropped.

  Each of these theorems is stated for `Spec`, the online classifier, and for
  `OfflineSpec`, which may begin with a construction.  For that, `MadeOf` is
  proved of the tables after every round: the rules that do not remain are in
  one listed table each, which their assignment leads to, fit it, and are no
  more of one hash than `CollideLimit` (`Fills`).  Every round takes at least
  one rule, so that the construction ends with none left: the tuple of a table
  is `Common` to some of the first rules, hence no longer than the first rule's
  prefixes (`BestTupleOK`), because the first tuple looked at takes that rule and
  so beats the empty one the loop begins with.  `ConstructionStaysBounded` is
  `ConstructionBounded`: the bound is that of the hash the table has, and not of
  the hash of all fields by which its tuple was chosen.  The construction needs
  `CollideLimit` above 0 (`OfflineAssumption`), as does the program: with 0 no
  round takes a rule and it never ends.  The theorems for `Spec` do not need it.
* **Boxes_proofs**, HyperSplit: for every set of rules, every `LeafSize` and every
  order of updates.  `Trees[k]` and the four recursive functions are first shown to
  exist, and to be what one step makes of the level below.  The invariant is about
  trees, `Full`: the root is a tree in `TreesOver`, whose leaves hold only rules
  that can reach them, and no packet is led to a leaf that lacks a rule of the list
  which matches it.
  Neither half is preserved by itself: a deletion that contracts a split puts the
  other child in its place, which loses nothing only because the empty leaf was
  complete, and a leaf that splits anew finds the rules of both sides because it
  held all that reach it.  A rule may stand in many leaves, so an insertion and
  a deletion go down both sides of a split that they straddle, while a packet
  goes down one; the induction compares them level by level.  Wherever
  `SelectDimToSplit` and `SelectSplitPoint` choose to cut does not matter to the
  answers, but that they choose a field and a point of it does, and that a
  half is smaller than the whole, which ends the recursion: so sums, ranks and
  minima over sequences are followed too.  `Complete` is `LeavesComplete`,
  `Exactness` says that every packet is answered with the best rule of the list,
  and `StepsRefine` that every step is one of Classifier.
* **Boxes_proofs**, BitVector: `BitVectorsAnswer`, for every set of rules whose
  addresses are prefixes (`BitVectorAssumption`) and every size of a word.  As
  nothing is updated, the invariant is `BitVectorInit`, and the work is in what
  the functions compute.  A power of two divides the larger ones, so two prefixes
  are one inside of the other or apart (`Laminar`); the order of the ranges,
  InsideOutCompare, is therefore total on them, and the first range that holds a
  value is the innermost (`Innermost`).  EqnMatcher finds it because the terms a
  value satisfies are those around the innermost one, and what these add is by
  the definition of a boost its position (`BoostsOf`).  BinaryRangeSearch finds it
  because no range begins or ends between a value and the divider before it
  (`RangeSearchOK`).  Every rule that matches contains the innermost range, in
  both fields (`LeadsOK`), so its bit is in the intersection; a scan visits the
  bits of the words in order and misses none (`FindNextOK`, by quotient and
  remainder), and the first rule it finds that matches has the highest priority
  (`ScanOK`).  With any other index from a matcher, as LongestPrefixMatch
  returns them, the scan still answers only rules that match (`ClassifyOK`).
* **CmapBucket_proofs**, for `AsWritten`: the writer's completed stores and its
  counter go together, so that while a search is under way the counter has
  advanced by the stores made since it was read, up to a multiple of its
  range.  A search that finds its counter again, and was not slower than a whole
  cycle, has seen no store, and returns what the bucket held when it began:
  `SearchIsAtomic`.  `CounterOddWhileSet`: the counter is odd exactly while an
  update is between its two stores, which is what readers wait out.
* **Cmap_proofs**: the writer, the refinement and the readers.  The invariant
  `Inv` speaks of tables rather than steps: a table is `Sound` but for a cell X
  when every live slot is in a bucket its hash is searched in, its chain has
  distinct nodes of that hash, a search comes to it first, and whatever X still
  holds is also elsewhere.  Its `Contents` are the chains outside X, and two
  sound tables with the same contents answer every search alike, wherever the
  slots are (`SameContents`).  `TablesSound` says that the table being written
  is sound, X being the cell the next move of `cmap_insert_bfs` overwrites, and
  that a table a rehash fills has exactly the chains of the slots it came to.
  A displacement path, once chosen, stays one while it is performed from its
  empty end (`PathOK`): for that it must visit no cell twice, and it does not
  because `cmap_insert_bfs` takes the first one breadth-first, a shortest one.
  The frontier of that search is a recursive function; that it exists, and what
  its elements are, is shown by a least counterexample (`NaturalSet`, below).
  `TypeCorrect`, `OneChainAlways`, `HomesAlways` and `RehashKeepsChainsAlways`
  follow, and `Refinement`: a step changes the contents by one insertion, removal
  or replacement, or not at all.  `FindLinearizableAlways` adds an invariant of
  each reader (`SearchOK`): the answer of the moment is among those it has seen,
  and when it has left its first bucket without an answer and the counter there
  has not moved, either that bucket still misses or the hash was absent at some
  moment.  It rests on: a live slot leaves a bucket only by a counted store.
  `CountedAlways` is stated for `LoadAssumption`: doubling makes room for another
  node, a table just doubled or halved is within both bounds, and the empty one
  is not under its minimum.  The 85 and 20 percent of cmap.cpp with
  the five slots of a 64-bit build satisfy it.  The seven slots of a 32-bit
  build do not (20 percent of 7 is 1 node): there an empty map is under its
  minimum load and `Counted` is false; only the decision when to shrink depends
  on it.
* **ThreadPool_proofs**: the inductive invariant is type correctness, the
  conservation of tasks, `HandsFull` (a worker or client past its first step
  holds a task), `OwnOffers` (no two clients push one task) and `Shutdown` (when
  workers may be gone).  From it: `TypeCorrect`, `NoTaskLost`, `JoinDrains`,
  `Refinement` of TaskPool.  `WakeupsSuffice` adds a counting argument: the
  difference between queued tasks and workers awake or notifications pending is
  preserved step by step.
* **Simulation_proofs**: `InUse(T, n)` counts the rules in use before request n,
  half of the ruleset plus the insertions minus the deletions before it.  The
  argument of `SetupComputation` is that with `Balanced` requests (as many
  insertions as deletions, more than one rule) a blocked request always finds a
  later one of the other kind to be exchanged with: more than four fifths in
  use is more than at the end, so deletions outnumber insertions among the
  requests left.  The exchange keeps the count at the end (`EarlierSwapped`), so
  no adjusted request takes from an empty container, and the size is again one
  half when the indices are drawn, where nothing is blocked.  `UpdateOK` says
  that the requests drawn so far have an index of the container they take from
  (`Drawn`), and that every task is at a request with the containers that those
  before it leave (`Replayed`); a trial ends with as many rules in use as it
  began with, so the next one, on whatever rules the containers have by then,
  finds the same lengths.  `IndicesInRangeAlways` and `InStepAlways` follow.
  The hypothesis is needed: with one rule none is in use and a deletion is
  blocked for good, with more of one kind than of the other a request may stay
  blocked and keep its index -1.  `ResultsCompleteAlways` has no hypothesis:
  `Stage` says which tasks are enqueued and which are done where the running
  thread is, so that a classifier answers only after its task has loaded it,
  and `Asked` what the first task has written of the trial it is in.

Induction.  The library's induction theorems take an operator and cannot be
used, but that a non-empty set of naturals has a least element can
(`NatLessThanWellFounded`, `WFMin`).  Its consequence `NaturalSet`, that a set with
0 and with the successor of each of its members has all naturals, serves for
the recursive functions of the models: the search over tuples, the frontier of
a displacement, the pass over a trace of requests, the levels of a tree, the
loops of TupleMergeOffline, the sums and scans of BitVector.  That such a function exists is proved for each:
what is written `f[k \in S] == ...` only chooses one if there is one.

Only model-checked: liveness and ENABLED (out of the prover's reach), so
`CallsReturn`, `SearchReturns`, `AcceptedRuns` and `DestructorEnds`; and ByteCuts,
HyperCuts and PartitionSort, which have recursive operators that the
prover's solver does not take: `ByteCutsAnswers`, `HyperCutsAnswers`,
`AnswersSound` and `NoOverlapMet`.

## 5. Not modelled

* cmap: cursors and iteration, `cmap_find_batch`, `cmap_find_protected` (it
  takes its second bucket from the wrong hash, but nothing calls it), the limit
  MAX_QUEUE of the displacement search (500 entries, beyond small tables; its
  effect is a rehash), the hash function itself.
* Simulator: times and statistics.  After `run_task_sequnce` has thrown the
  model lets the tasks go on as if their references were still good; what they
  do to destroyed objects is undefined.
* Undefined behaviour that leaves no trace in the modelled state: the erased
  iterator PriorityTupleSpaceSearch::DeleteRule dereferences.  The
  uninitialised `hasChanged` of TupleMergeOnline::DeleteRule is a free choice in
  the model.
* SlottedTable's variant that ignores fields: no constructor in use asks for it.
* Constructing one classifier object twice (main never does).
* `HyperSplitTable`, the HyperCuts options for compression, binning and merging
  (switched off), PartitionSort's other partitioners and recursive queries:
  no callers.  Tree sizes, heights and memory accounting.
* The partitioner PartitionSort does call returns parts without rules whatever
  the rules are (GetRuleIndices copies a vector nobody fills); the model has the
  outcome, not the scheduling of intervals that leads to it.
* I/O, argument parsing, the trace generator, the TCAM and map helpers, and the
  external classifiers behind the adapters.

## 6. Plan

1. Done: cmap, thread pool, both tuple spaces, TupleMerge Online and Offline,
   the simulator, HyperSplit, ByteCuts, HyperCuts, BitVector and PartitionSort;
   proofs of the pool, the tuple spaces, TupleMerge Online and Offline,
   HyperSplit, BitVector, the bucket, the map with its readers and the simulator.
2. Left to prove: ByteCuts and HyperCuts as recursive functions over the levels of
   a tree, as HyperSplit is, and that a leaf's list in priority order answers
   exactly; the order of PartitionSort's trees,
   which only RedBlackTree with its nodes as a set of addresses, instead of
   recursive operators, would let the prover speak of.
3. Left to model: cursors over a cmap that is being changed, and the limit
   MAX_QUEUE with a smaller value as a constant.
