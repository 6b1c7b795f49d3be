---------------------------- MODULE HashMultimap ----------------------------
(***************************************************************************)
(* What a cmap promises to its client (src/src/OVS/cmap.h): a multimap     *)
(* from client supplied hashes to nodes.  The nodes of one hash form one   *)
(* list, the most recently inserted node first.                            *)
(***************************************************************************)
EXTENDS Sequences, SequencesExt

CONSTANTS Nodes, Hashes, NodeHash  \* NodeHash[x]: the hash x is stored under

VARIABLE chain                     \* chain[h]: the list of nodes of hash h

Stored == UNION {ToSet(chain[h]) : h \in Hashes}

Init == chain = [h \in Hashes |-> <<>>]

InsertNode(x) ==
  /\ x \notin Stored
  /\ chain' = [chain EXCEPT ![NodeHash[x]] = <<x>> \o @]

RemoveNode(x) ==
  /\ x \in Stored
  /\ chain' = [chain EXCEPT ![NodeHash[x]] = RemoveFirst(@, x)]

(* y takes the place of x in its list. *)
ReplaceNode(x, y) ==
  /\ x \in Stored /\ y \notin Stored /\ NodeHash[x] = NodeHash[y]
  /\ chain' = [chain EXCEPT ![NodeHash[x]] = ReplaceAll(@, x, y)]

Next ==
  \/ \E x \in Nodes : InsertNode(x) \/ RemoveNode(x)
  \/ \E x, y \in Nodes : ReplaceNode(x, y)

Spec == Init /\ [][Next]_chain
=============================================================================
