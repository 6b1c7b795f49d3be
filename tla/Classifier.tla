----------------------------- MODULE Classifier -----------------------------
(***************************************************************************)
(* What every PacketClassifier promises (src/src/Simulation.h, and the     *)
(* validation in packetClassificators.cpp): a packet is answered with the  *)
(* priority of the best rule present that matches it, -1 when none does,   *)
(* and the rule at index i is the same in the classifier as in the         *)
(* Bookkeeper of the caller, who deletes by index.                         *)
(***************************************************************************)
EXTENDS RuleSet

VARIABLES
  rules,    \* the rules present, in the order the indices of DeleteRule name
  answer    \* answer[p]: what ClassifyAPacket(p) returns

Exact(rs) == [p \in Packets |-> Best(Matching(Elems(rs), p))]

Init == rules = <<>> /\ answer = Exact(<<>>)

InsertRule(r) ==
  /\ r \notin Elems(rules)
  /\ rules' = Append(rules, r)
  /\ answer' = Exact(rules')

DeleteRule(i) ==
  /\ rules' = SwapRemove(rules, i)
  /\ answer' = Exact(rules')

Next ==
  \/ \E r \in Rules : InsertRule(r)
  \/ \E i \in DOMAIN rules : DeleteRule(i)

Spec == Init /\ [][Next]_<<rules, answer>>
=============================================================================
