--------------------------- MODULE CmapProperties ---------------------------
(***************************************************************************)
(* What cmap.h and the comments of cmap.cpp promise of Cmap.               *)
(***************************************************************************)
EXTENDS Cmap

Cell(t)     == (0..t.mask) \X Slots
At(t, c)    == t.bucket[c[1]][c[2]]
LiveCells(t) == {c \in Cell(t) : At(t, c).chain # <<>>}

IsTable(t) ==
  /\ DOMAIN t = {"mask", "basis", "n", "bucket"}
  /\ t.mask \in Nat /\ t.basis \in Bases /\ t.n \in Nat
  /\ t.bucket \in [0..t.mask -> [Slots -> Slot]]

(* The type invariant. *)
TypeOK ==
  /\ IsTable(impl)
  /\ neww = NoTable \/ IsTable(neww)
  /\ pc \in {"idle", "copy", "place", "shift"}
  /\ call \in Nodes \cup {NoNode}
  /\ item \in Slot
  /\ path \in Seq(Nat \X Slots)
  /\ pos \in 0..((impl.mask + 1) * K)

(* The cells the path still moves into: while a move is half done, the     *)
(* content of the cell before the last of the path stands in two cells.    *)
Moved == IF Len(path) > 0 THEN {Last(path)} ELSE {}

(* A single client-provided hash value exists in only a single chain in a  *)
(* single bucket (cmap.cpp, Handling Duplicates): no two live slots of a   *)
(* table have the same hash, but for the cell a pending move is about to   *)
(* overwrite.                                                              *)
OneChain ==
  \A t \in {impl} \cup (IF Rehashing THEN {neww} ELSE {}) :
    \A c, d \in LiveCells(t) \ (IF t = Target THEN Moved ELSE {}) :
      At(t, c).hash = At(t, d).hash => c = d

(* Every node on a chain has exactly the hash of its slot, and the slot is *)
(* in one of the two buckets a search for that hash visits.                *)
Homes ==
  \A t \in {impl} \cup (IF Rehashing THEN {neww} ELSE {}) :
    \A c \in LiveCells(t) :
      /\ c[1] \in {Bucket1(t, At(t, c).hash), Bucket2(t, At(t, c).hash)}
      /\ \A i \in DOMAIN At(t, c).chain : NodeHash[At(t, c).chain[i]] = At(t, c).hash

(* Between two calls cmap_count is the number of nodes stored, and the     *)
(* table is neither over its maximum load nor under its minimum.           *)
Counted ==
  pc = "idle" =>
    /\ impl.n = Cardinality(Stored(impl))
    /\ impl.n <= CalcMaxN(impl.mask)
    /\ impl.n >= CalcMinN(impl.mask)

(* While a rehash copies, the new table answers every search exactly as    *)
(* the old one restricted to the slots already copied.                     *)
CopiedSoFar ==
  {c \in LiveCells(impl) : c[1] * K + c[2] <= pos}
RehashKeepsChains ==
  Rehashing /\ pc = "copy" =>
    \A h \in Hashes :
      Find(neww, h) =
        IF \E c \in CopiedSoFar : At(impl, c).hash = h THEN Find(impl, h) ELSE <<>>

(* Seen by a search, the published table is at every step - also in the    *)
(* middle of the moves of cmap_insert_bfs and of a rehash - the multimap   *)
(* of cmap.h: each step leaves every answer alone or performs one          *)
(* operation on it.                                                        *)
Multimap == INSTANCE HashMultimap WITH chain <- [h \in Hashes |-> Find(impl, h)]
MultimapSpec == Multimap!Spec

(* Every call returns if each step the writer can take is taken and        *)
(* random_uint32 never avoids a basis for ever: fairness is weak for the   *)
(* steps and strong for a retry that takes a given basis.                  *)
RetryWith(basis) == PlaceFails /\ neww'.basis = basis
FairSpec == Spec /\ WF_vars(WriterStep) /\ \A basis \in Bases : SF_vars(RetryWith(basis))
CallsReturn == (pc # "idle") ~> (pc = "idle")
=============================================================================
