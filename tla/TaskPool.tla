------------------------------ MODULE TaskPool ------------------------------
(***************************************************************************)
(* What a thread pool promises to those who use it: tasks are started in   *)
(* the order in which they were accepted, each at most once, none is       *)
(* accepted after the pool was closed, and the pool is gone only after     *)
(* every accepted task has finished.                                       *)
(***************************************************************************)
EXTENDS Sequences, SequencesExt

CONSTANT Tasks

VARIABLES queue, running, done, closed, gone

vars == <<queue, running, done, closed, gone>>

Init ==
  /\ queue = <<>>
  /\ running = {}
  /\ done = {}
  /\ closed = FALSE
  /\ gone = FALSE

Accept(t) ==
  /\ ~ closed
  /\ t \notin ToSet(queue) \cup running \cup done
  /\ queue' = Append(queue, t)
  /\ UNCHANGED <<running, done, closed, gone>>

Start ==
  /\ queue # <<>>
  /\ running' = running \cup {Head(queue)}
  /\ queue' = Tail(queue)
  /\ UNCHANGED <<done, closed, gone>>

Finish(t) ==
  /\ t \in running
  /\ running' = running \ {t}
  /\ done' = done \cup {t}
  /\ UNCHANGED <<queue, closed, gone>>

Close ==
  /\ ~ closed
  /\ closed' = TRUE
  /\ UNCHANGED <<queue, running, done, gone>>

Vanish ==
  /\ closed /\ queue = <<>> /\ running = {}
  /\ gone' = TRUE
  /\ UNCHANGED <<queue, running, done, closed>>

Next ==
  \/ \E t \in Tasks : Accept(t) \/ Finish(t)
  \/ Start \/ Close \/ Vanish

Spec == Init /\ [][Next]_vars
=============================================================================
