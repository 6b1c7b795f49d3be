---------------------------- MODULE RedBlackTree ----------------------------
(***************************************************************************)
(* The trees of PartitionSort (src/src/PartitionSort/red_black_tree.cpp):  *)
(* a binary tree of disjoint ranges of one field, in which every node has  *)
(* a tree for the next field.  A tree with one rule has no nodes but the   *)
(* chain of that rule's ranges.  A key is the sequence of ranges of a rule *)
(* from the field of a tree on, in the field order of the whole; a level   *)
(* is given by how much of the key is left.  Nodes are numbered, 0 is the  *)
(* null pointer.  An operation that does not return leaves a tree with a   *)
(* fault: an exception, an access through null, or an endless loop.        *)
(***************************************************************************)
EXTENDS Boxes

Nil == 0

EmptyTree ==
  [count |-> 0, chain |-> <<>>, priorities |-> {}, root |-> Nil, nodes |-> <<>>, fault |-> "none"]

Failed(why) == [EmptyTree EXCEPT !.fault = why]

Fails(t) == t.fault # "none"

(* A tree with one rule *)
Single(key, p) == [EmptyTree EXCEPT !.count = 1, !.chain = key, !.priorities = {p}]

GetMaxPriority(t) == Best(t.priorities)

Red(t, x) == t.nodes[x].red

Coloured(t, x, red) == [t EXCEPT !.nodes[x].red = red]

Opposite(side) == IF side = "left" THEN "right" ELSE "left"

-----------------------------------------------------------------------------
(* Rotations leave the parent of a root as it was, so that a later step    *)
(* can lose the root, free a node that is still linked or close a circle.  *)
(* Such a tree is taken for a fault at once, though it may not be read.    *)

RECURSIVE Reached(_, _)
Reached(t, S) ==
  LET more == (S \cup {t.nodes[x][side] : x \in S, side \in {"left", "right"}}) \ {Nil}
  IN  IF more = S \/ ~(more \subseteq DOMAIN t.nodes) THEN more ELSE Reached(t, more)

Links(t, S) == {<<x, side>> \in S \X {"left", "right"} : t.nodes[x][side] # Nil}

LosesNode(t, S) ==
  \E x \in S : x \notin DOMAIN t.nodes \/ t.nodes[x].parent \notin DOMAIN t.nodes \cup {Nil}

CheckedBelow(t, S) ==
  CASE LosesNode(t, S) -> Failed("freed")
    [] ~LosesNode(t, S) /\ Cardinality(Links(t, S)) >= Cardinality(S) -> Failed("loops")
    [] OTHER -> t

Checked(t) ==
  CASE Fails(t) -> t
    [] ~Fails(t) /\ t.root \notin DOMAIN t.nodes -> Failed("freed")
    [] OTHER -> CheckedBelow(t, Reached(t, {t.root}))

-----------------------------------------------------------------------------
(* Ranges: two that share nothing but an end do not intersect and are      *)
(* neither less nor greater, which throws.                                 *)

IsIntersect(a, b) == b.low < a.high /\ a.low < b.high

Cmp(a, b) ==
  CASE a = b                         -> "equal"
    [] a # b /\ IsIntersect(a, b)    -> "overlap"
    [] a.high < b.low                -> "less"
    [] a.low > b.high                -> "greater"
    [] OTHER                         -> "throws"

(* The node with the key, or the one to put it under *)
Place(at, under, fault) == [at |-> at, under |-> under, fault |-> fault]

RECURSIVE Descend(_, _, _, _)
Descend(t, y, x, key) ==
  IF x = Nil THEN Place(Nil, y, "none")
  ELSE CASE Cmp(t.nodes[x].key, key) = "equal"   -> Place(x, x, "none")
         [] Cmp(t.nodes[x].key, key) = "greater" -> Descend(t, x, t.nodes[x].left, key)
         [] Cmp(t.nodes[x].key, key) = "less"    -> Descend(t, x, t.nodes[x].right, key)
         [] OTHER -> Place(Nil, x, Cmp(t.nodes[x].key, key))

PlaceOf(t, key) == Descend(t, Nil, t.root, key)

-----------------------------------------------------------------------------
(* canInsert *)

Unlike(a, b) == {i \in DOMAIN a : a[i] # b[i]}

(* Mutant: whatever differs can be told apart. *)
ChainTakes_Always(t, key) == TRUE

(* The first ranges that differ must not intersect. *)
ChainTakes(t, key) ==
  LET unlike == Unlike(key, t.chain)
  IN  unlike = {} \/ ~IsIntersect(key[Min(unlike)], t.chain[Min(unlike)])

RECURSIVE CanInsert(_, _)

CanInsertAt(t, key, place) ==
  CASE place.fault = "overlap" -> "no"
    [] place.fault = "throws"  -> "throws"
    [] place.fault = "none" /\ place.at = Nil -> "yes"
    [] OTHER -> CanInsert(t.nodes[place.at].next, Tail(key))

CanInsert(t, key) ==
  CASE key = <<>> -> "yes"
    [] key # <<>> /\ t.count = 1 -> IF ChainTakes(t, key) THEN "yes" ELSE "no"
    [] OTHER -> CanInsertAt(t, key, PlaceOf(t, key[1]))

-----------------------------------------------------------------------------
(* rotateLeft and rotateRight: p's child on the opposite side takes its    *)
(* place.  The parent of the child is set only if p has a parent.          *)

TakeChild(t, p, y, side) ==
  LET inner == t.nodes[y][side]
      moved == [t EXCEPT !.nodes[p][Opposite(side)] = inner]
  IN  IF inner = Nil THEN moved ELSE [moved EXCEPT !.nodes[inner].parent = p]

Hang(t, p, y) ==
  LET above == t.nodes[p].parent
  IN  IF above = Nil THEN [t EXCEPT !.root = y]
      ELSE [t EXCEPT !.nodes[y].parent = above,
                     !.nodes[above][IF t.nodes[above].left = p THEN "left" ELSE "right"] = y]

Turned(t, p, y, side) ==
  [Hang(TakeChild(t, p, y, side), p, y) EXCEPT !.nodes[y][side] = p, !.nodes[p].parent = y]

Rotate(t, p, side) ==
  IF t.nodes[p][Opposite(side)] = Nil THEN t ELSE Turned(t, p, t.nodes[p][Opposite(side)], side)

(* _insertFix.  An uncle that is not red leaves the loop where it is. *)
RECURSIVE FixInsert(_, _)

RootBlack(t) == Coloured(t, t.root, FALSE)

Recoloured(t, parent, uncle, g) ==
  RootBlack(Coloured(Coloured(Coloured(t, parent, FALSE), uncle, FALSE), g, TRUE))

(* x is turned to the outside first. *)
Lifted(t, x, g, side) ==
  RootBlack(Rotate(Coloured(Coloured(t, t.nodes[x].parent, FALSE), g, TRUE), g, Opposite(side)))

FixAround(t, x, parent, g, side) ==
  LET uncle == t.nodes[g][Opposite(side)]
  IN  CASE uncle # Nil /\ Red(t, uncle)  -> FixInsert(Recoloured(t, parent, uncle, g), g)
        [] uncle # Nil /\ ~Red(t, uncle) -> Failed("loops")
        [] uncle = Nil /\ t.nodes[parent][Opposite(side)] = x ->
             FixInsert(Lifted(Rotate(t, parent, side), parent, g, side), parent)
        [] OTHER -> FixInsert(Lifted(t, x, g, side), x)

FixBelow(t, x, parent, g) ==
  IF g = Nil THEN Failed("null")
  ELSE FixAround(t, x, parent, g, IF t.nodes[g].left = parent THEN "left" ELSE "right")

FixInsert(t, x) ==
  LET parent == t.nodes[x].parent
  IN  IF parent = Nil \/ ~Red(t, parent) THEN t ELSE FixBelow(t, x, parent, t.nodes[parent].parent)

InsertFix(t, x) == IF t.root = x THEN Coloured(t, x, FALSE) ELSE FixInsert(t, x)

-----------------------------------------------------------------------------
(* insertWithPathCompression.  red is what the memory of a new node holds: *)
(* the constructor leaves it as it is.                                     *)

NewId(t) == Min((1..(1 + Cardinality(DOMAIN t.nodes))) \ DOMAIN t.nodes)

Node(key, parent, red, next) ==
  [key |-> key, left |-> Nil, right |-> Nil, parent |-> parent, red |-> red, next |-> next]

(* A child of the root is linked on the left, whatever its key. *)
SideUnder(t, y, key) ==
  IF y = t.root \/ Cmp(t.nodes[y].key, key) = "greater" THEN "left" ELSE "right"

Linked(t, y, id, node) ==
  IF t.root = Nil THEN [t EXCEPT !.root = id, !.nodes = id :> node]
  ELSE [t EXCEPT !.nodes = (id :> node) @@ [@ EXCEPT ![y][SideUnder(t, y, node.key)] = id]]

LinkAt(t, place, key, next, red) ==
  IF place.fault # "none" THEN Failed(place.fault)
  ELSE Checked(InsertFix(Linked(t, place.under, NewId(t), Node(key, place.under, red, next)), NewId(t)))

Link(t, key, next, red) == LinkAt(t, PlaceOf(t, key), key, next, red)

WithNext(t, x, next) == IF Fails(next) THEN next ELSE [t EXCEPT !.nodes[x].next = next]

(* The chain of the one rule is unzipped as far as the new rule shares it. *)
RECURSIVE Unzipped(_, _, _, _, _, _)

SharedNode(t, range, next) == IF Fails(next) THEN next ELSE Link(t, range, next, FALSE)

Unzipped(t, old, key, pold, p, red) ==
  CASE old = <<>> -> [t EXCEPT !.priorities = @ \cup {pold, p}]
    [] old # <<>> /\ old[1] = key[1] ->
         SharedNode(t, key[1], Unzipped([EmptyTree EXCEPT !.count = 2], Tail(old), Tail(key), pold, p, red))
    [] OTHER -> Link(Link(t, old[1], Single(Tail(old), pold), FALSE), key[1], Single(Tail(key), p), red)

RECURSIVE Insert(_, _, _, _)

InsertBelow(t, place, key, p, red) ==
  IF place.fault = "none" /\ place.at # Nil
  THEN WithNext(t, place.at, Insert(t.nodes[place.at].next, Tail(key), p, red))
  ELSE LinkAt(t, place, key[1], Single(Tail(key), p), red)

Insert(t, key, p, red) ==
  LET counted == [t EXCEPT !.count = @ + 1]
  IN  CASE key = <<>> \/ t.count = 0 ->
             [counted EXCEPT !.priorities = @ \cup {p}, !.chain = @ \o key]
        [] key # <<>> /\ t.count = 1 ->
             Unzipped([counted EXCEPT !.chain = <<>>], t.chain, key, GetMaxPriority(t), p, red)
        [] OTHER -> InsertBelow(counted, PlaceOf(t, key[1]), key, p, red)

-----------------------------------------------------------------------------
(* deleteNode.  x may be null where y has no child; its parent is set all  *)
(* the same.                                                               *)

RECURSIVE FixDelete(_, _)

RedFar(t, s, side)  == Red(t, t.nodes[s][Opposite(side)])
BothBlack(t, s, side) == ~RedFar(t, s, side) /\ ~Red(t, t.nodes[s][side])

AfterLoop(t, p) == FixDelete(RootBlack(Coloured(t, p, FALSE)), p)

(* s has the red child on the far side. *)
FarRed(t, parent, s, side) ==
  Rotate(Coloured(Coloured(Coloured(t, s, Red(t, parent)), parent, FALSE),
                  t.nodes[s][Opposite(side)], FALSE), parent, side)

NearTurned(t, s, side) ==
  Rotate(Coloured(Coloured(t, s, TRUE), t.nodes[s][side], FALSE), s, Opposite(side))

Balanced(t, parent, s, side) ==
  IF RedFar(t, s, side) THEN FarRed(t, parent, s, side)
  ELSE LET near == NearTurned(t, s, side) IN FarRed(near, parent, near.nodes[parent][Opposite(side)], side)

NullMet(t, s, side) ==
  \/ s = Nil
  \/ t.nodes[s][Opposite(side)] = Nil
  \/ ~RedFar(t, s, side) /\ t.nodes[s][side] = Nil

FixWith(t, parent, s, side) ==
  IF BothBlack(t, s, side) THEN AfterLoop(Coloured(t, s, TRUE), parent)
  ELSE LET b == Balanced(t, parent, s, side) IN AfterLoop(b, b.root)

FixBeside(t, parent, s, side) ==
  IF NullMet(t, s, side) THEN Failed("null") ELSE FixWith(t, parent, s, side)

(* A red sibling is turned above first. *)
SiblingRaised(t, parent, s, side) ==
  Rotate(Coloured(Coloured(t, s, FALSE), parent, TRUE), parent, side)

FixUnder(t, parent, s, side) ==
  IF s = Nil THEN Failed("null")
  ELSE IF Red(t, s)
       THEN LET raised == SiblingRaised(t, parent, s, side)
            IN  FixBeside(raised, parent, raised.nodes[parent][Opposite(side)], side)
       ELSE FixBeside(t, parent, s, side)

FixDelete(t, p) ==
  IF p = t.root \/ Red(t, p) THEN t
  ELSE LET parent == t.nodes[p].parent
           side   == IF t.nodes[parent].left = p THEN "left" ELSE "right"
       IN  FixUnder(t, parent, t.nodes[parent][Opposite(side)], side)

(* getSuccessor: the greatest on the left *)
RECURSIVE Rightmost(_, _)
Rightmost(t, x) == IF t.nodes[x].right = Nil THEN x ELSE Rightmost(t, t.nodes[x].right)

Spliced(t, y, x) ==
  LET parent == t.nodes[y].parent
      side   == IF parent # t.root /\ t.nodes[parent].left # y THEN "right" ELSE "left"
  IN  [t EXCEPT !.nodes[x].parent = parent, !.nodes[parent][side] = x]

Without(t, x) == [t EXCEPT !.nodes = [n \in DOMAIN @ \ {x} |-> @[n]]]

(* y is put where z was *)
Replaced(t, z, y) ==
  LET old == t.nodes[z]
  IN  Without([t EXCEPT !.nodes[y].left = old.left, !.nodes[y].right = old.right,
                        !.nodes[y].parent = old.parent, !.nodes[y].red = old.red,
                        !.nodes[old.left].parent = y, !.nodes[old.right].parent = y,
                        !.nodes[old.parent][IF t.nodes[old.parent].left = z THEN "left" ELSE "right"] = y], z)

Removed(t, z, y) ==
  CASE Fails(t) -> t
    [] ~Fails(t) /\ y = z -> Without(t, z)
    [] OTHER -> IF Nil \in {t.nodes[z].left, t.nodes[z].right, t.nodes[z].parent}
                THEN Failed("null") ELSE Replaced(t, z, y)

SpliceOut(t, z, y, x) ==
  IF x = Nil \/ t.nodes[y].parent = Nil THEN Failed("null")
  ELSE Checked(Removed(IF Red(t, y) THEN Spliced(t, y, x) ELSE FixDelete(Spliced(t, y, x), x), z, y))

DeleteNode(t, z) ==
  LET y == IF Nil \in {t.nodes[z].left, t.nodes[z].right} THEN z ELSE Rightmost(t, t.nodes[z].left)
  IN  SpliceOut(t, z, y, IF t.nodes[y].left = Nil THEN t.nodes[y].right ELSE t.nodes[y].left)

-----------------------------------------------------------------------------
(* deleteWithPathCompression.  A tree of count 0 is one that was deleted. *)

(* Two rules are left: the one that stays is zipped into a chain.  It is   *)
(* looked for by the ranges of the one that goes.                          *)
RECURSIVE Zipped(_, _, _, _)

Stays(priorities, p) == IF Cardinality(priorities) = 2 THEN priorities \ {p} ELSE priorities

Step(t, chain, x, key, p) == Zipped(t.nodes[x].next, Append(chain, t.nodes[x].key), Tail(key), p)

Other(x) == IF x.left = Nil THEN x.right ELSE x.left

Zipped(t, chain, key, p) ==
  CASE t.count = 1 \/ key = <<>> -> Single(chain \o t.chain, Best(Stays(t.priorities, p)))
    [] OTHER -> LET x == t.nodes[t.root]
                    c == Cmp(x.key, key[1])
                IN  CASE x.left = Nil /\ x.right = Nil   -> Step(t, chain, t.root, key, p)
                      [] Other(x) # Nil /\ c = "equal"   -> Step(t, chain, Other(x), key, p)
                      [] Other(x) # Nil /\ c = "throws"  -> Failed("throws")
                      [] OTHER                           -> Step(t, chain, t.root, key, p)

RECURSIVE Delete(_, _, _)

AfterDelete(t, x, next) ==
  CASE Fails(next) -> next
    [] ~Fails(next) /\ next.count = 0 -> DeleteNode(t, x)
    [] OTHER -> [t EXCEPT !.nodes[x].next = next]

DeleteBelow(t, place, key, p) ==
  CASE place.fault # "none" -> Failed(IF place.fault = "overlap" THEN "loops" ELSE place.fault)
    [] place.fault = "none" /\ place.at = Nil -> Failed("throws")
    [] OTHER -> AfterDelete(t, place.at, Delete(t.nodes[place.at].next, Tail(key), p))

Delete(t, key, p) ==
  CASE key = <<>> -> [t EXCEPT !.count = @ - 1, !.priorities = @ \ {p}]
    [] key # <<>> /\ t.count = 1 -> EmptyTree
    [] key # <<>> /\ t.count = 2 -> Zipped(t, <<>>, key, p)
    [] OTHER -> DeleteBelow([t EXCEPT !.count = @ - 1], PlaceOf(t, key[1]), key, p)

-----------------------------------------------------------------------------
(* exactQueryIterative: values in the field order *)

InRange(range, v) == range.low <= v /\ v <= range.high

RECURSIVE Holding(_, _, _)
Holding(t, x, v) ==
  CASE x = Nil -> Nil
    [] x # Nil /\ v < t.nodes[x].key.low  -> Holding(t, t.nodes[x].left, v)
    [] x # Nil /\ v > t.nodes[x].key.high -> Holding(t, t.nodes[x].right, v)
    [] OTHER -> x

RECURSIVE Query(_, _)
QueryBelow(t, x, values) == IF x = Nil THEN -1 ELSE Query(t.nodes[x].next, Tail(values))

Query(t, values) ==
  CASE values = <<>> -> GetMaxPriority(t)
    [] values # <<>> /\ t.count = 1 ->
         IF \A i \in DOMAIN values : InRange(t.chain[i], values[i]) THEN GetMaxPriority(t) ELSE -1
    [] OTHER -> QueryBelow(t, Holding(t, t.root, values[1]), values)

-----------------------------------------------------------------------------
(* serializeIntoRules: the rules below x as boxes in the field order *)

Box(ranges, p) == [ranges |-> ranges, priority |-> p]

RECURSIVE Serialized(_, _, _)

SerializedTree(t, ranges, left) ==
  IF t.count = 1 \/ left = 0 THEN {Box(ranges \o t.chain, p) : p \in t.priorities}
  ELSE Serialized(t, t.root, [ranges |-> ranges, left |-> left])

Serialized(t, x, at) ==
  IF x = Nil THEN {}
  ELSE SerializedTree(t.nodes[x].next, Append(at.ranges, t.nodes[x].key), at.left - 1)
       \cup Serialized(t, t.nodes[x].left, at) \cup Serialized(t, t.nodes[x].right, at)
=============================================================================
