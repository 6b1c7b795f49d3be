------------------------ MODULE ThreadPoolProperties ------------------------
(***************************************************************************)
(* What Simulation and any other user of ThreadPool relies on.             *)
(***************************************************************************)
EXTENDS ThreadPool, SequencesExt

(* The type invariant. *)
TypeOK ==
  /\ mutex \in Threads \cup {Free}
  /\ tasks \in Seq(Tasks)
  /\ stop \in BOOLEAN
  /\ worker \in [Workers -> [pc : {"acquire", "test", "wait", "run", "exited"},
                             task : Tasks \cup {NoTask}]]
  /\ client \in [Clients -> [pc : {"idle", "acquire", "push", "notify"},
                             task : Tasks \cup {NoTask}]]
  /\ owner \in {"alive", "stop", "notify", "join", "joined"}
  /\ offered \subseteq Tasks
  /\ accepted \subseteq Tasks
  /\ done \subseteq Tasks
  /\ spurious \in 0..MaxSpurious

(* Every accepted task is at each moment in exactly one place: once in the *)
(* queue, in the hands of one worker, or finished.  Nothing is dropped     *)
(* between the move out of the queue and its pop, and nothing runs twice.  *)
Queued  == ToSet(tasks)
Running == {worker[w].task : w \in Workers} \ {NoTask}
TaskConserved ==
  /\ \A i, j \in DOMAIN tasks : tasks[i] = tasks[j] => i = j
  /\ \A v, w \in Workers : worker[v].task = worker[w].task /\ worker[v].task # NoTask => v = w
  /\ Queued \cap Running = {}
  /\ done \cap (Queued \cup Running) = {}
  /\ accepted = Queued \cup Running \cup done

(* No wakeup is lost: when a worker waits although there is work, then for *)
(* every queued task a worker is on its way to the queue or a notification *)
(* is still to come.                                                       *)
Awake   == {w \in Workers : worker[w].pc \in {"acquire", "test"}}
Pending == {c \in Clients : client[c].pc = "notify"}
NoLostWakeup ==
  Waiting # {} => Len(tasks) <= Cardinality(Awake) + Cardinality(Pending)

(* A worker leaves only a stopped and empty pool, so that the destructor   *)
(* returns with every accepted task finished.                              *)
DrainedWhenJoined ==
  /\ \A w \in Workers : At(w, "exited") => stop /\ tasks = <<>>
  /\ owner = "joined" => accepted = done

(* The pool implements TaskPool: tasks start in the order of the queue,    *)
(* none is accepted after stop, and the pool is gone when all is done.     *)
Pool == INSTANCE TaskPool WITH
  queue   <- tasks,
  running <- Running,
  closed  <- stop,
  gone    <- (owner = "joined")
PoolSpec == Pool!Spec

(* Every task enqueue has accepted is run in the end, and a destructor     *)
(* that has taken the mutex returns: no worker sleeps through stop.        *)
AcceptedRuns    == \A t \in Tasks : t \in accepted ~> t \in done
DestructorEnds  == owner = "stop" ~> owner = "joined"
=============================================================================
