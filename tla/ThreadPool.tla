----------------------------- MODULE ThreadPool -----------------------------
(***************************************************************************)
(* src/src/Utilities/thread_pool.h: the workers, the threads that call     *)
(* enqueue and the owner that runs the destructor, interleaved at every    *)
(* acquisition and release of queue_mutex and at every notification.       *)
(*                                                                         *)
(* A thread's step inside the mutex is one action (everything it touches   *)
(* is touched under the mutex only); notify_one and notify_all are called  *)
(* outside of it and are actions of their own.                             *)
(***************************************************************************)
EXTENDS Integers, Sequences, FiniteSets

CONSTANTS
  Workers,       \* the threads of the pool
  Clients,       \* the threads that call enqueue
  Owner,         \* the thread that runs ~ThreadPool
  Tasks,
  NoTask, Free,  \* no task; an unlocked mutex
  MaxSpurious    \* bound: how many spurious wakeups are explored

ASSUME PoolAssumption ==
  /\ Workers # {} /\ IsFiniteSet(Workers) /\ IsFiniteSet(Clients)
  /\ Workers \cap Clients = {} /\ Owner \notin Workers \cup Clients
  /\ NoTask \notin Tasks
  /\ Free \notin Workers \cup Clients \cup {Owner}
  /\ MaxSpurious \in Nat

VARIABLES
  mutex,      \* the thread that holds queue_mutex
  tasks,      \* the queue
  stop,
  worker,     \* worker[w]: where worker w is, and the task it has taken
  client,     \* client[c]: where c is in enqueue, and with which task
  owner,      \* where the owner is in the destructor
  offered,    \* (history) the tasks enqueue was called with; each is tried once
  accepted,   \* (history) the tasks enqueue has put into the queue
  done,       \* the tasks whose future is ready
  spurious    \* spurious wakeups so far

vars == <<mutex, tasks, stop, worker, client, owner, offered, accepted, done, spurious>>

Threads == Workers \cup Clients \cup {Owner}

Init ==
  /\ mutex = Free
  /\ tasks = <<>>
  /\ stop = FALSE
  /\ worker = [w \in Workers |-> [pc |-> "acquire", task |-> NoTask]]
  /\ client = [c \in Clients |-> [pc |-> "idle", task |-> NoTask]]
  /\ owner = "alive"
  /\ offered = {}
  /\ accepted = {}
  /\ done = {}
  /\ spurious = 0

At(w, pc)       == worker[w].pc = pc
Waiting         == {w \in Workers : At(w, "wait")}
WorkerTo(w, pc) == worker' = [worker EXCEPT ![w].pc = pc]

-----------------------------------------------------------------------------
(* The loop of a worker *)

WorkerLock(w) ==
  /\ At(w, "acquire") /\ mutex = Free
  /\ mutex' = w
  /\ WorkerTo(w, "test")
  /\ UNCHANGED <<tasks, stop, client, owner, offered, accepted, done, spurious>>

(* condition.wait: the predicate is false, the mutex is released in the    *)
(* same instant the thread starts to wait.                                 *)
WorkerWait(w) ==
  /\ At(w, "test") /\ ~ stop /\ tasks = <<>>
  /\ mutex' = Free
  /\ WorkerTo(w, "wait")
  /\ UNCHANGED <<tasks, stop, client, owner, offered, accepted, done, spurious>>

(* condition.wait may return from its inner wait without a notification *)
SpuriousWakeup(w) ==
  /\ At(w, "wait") /\ spurious < MaxSpurious
  /\ spurious' = spurious + 1
  /\ WorkerTo(w, "acquire")
  /\ UNCHANGED <<mutex, tasks, stop, client, owner, offered, accepted, done>>

(* Mutant: a stopped worker leaves the queue as it is. *)
WorkerExit_Undrained(w) ==
  /\ At(w, "test") /\ stop
  /\ mutex' = Free
  /\ WorkerTo(w, "exited")
  /\ UNCHANGED <<tasks, stop, client, owner, offered, accepted, done, spurious>>

WorkerExit(w) ==
  /\ At(w, "test") /\ stop /\ tasks = <<>>
  /\ mutex' = Free
  /\ WorkerTo(w, "exited")
  /\ UNCHANGED <<tasks, stop, client, owner, offered, accepted, done, spurious>>

(* Mutant: the task stays in the queue. *)
WorkerTake_NoPop(w) ==
  /\ At(w, "test") /\ tasks # <<>>
  /\ worker' = [worker EXCEPT ![w] = [pc |-> "run", task |-> Head(tasks)]]
  /\ tasks' = tasks
  /\ mutex' = Free
  /\ UNCHANGED <<stop, client, owner, offered, accepted, done, spurious>>

WorkerTake(w) ==
  /\ At(w, "test") /\ tasks # <<>>
  /\ worker' = [worker EXCEPT ![w] = [pc |-> "run", task |-> Head(tasks)]]
  /\ tasks' = Tail(tasks)
  /\ mutex' = Free
  /\ UNCHANGED <<stop, client, owner, offered, accepted, done, spurious>>

(* task(): a packaged_task, which stores a result or an exception *)
WorkerRun(w) ==
  /\ At(w, "run")
  /\ done' = done \cup {worker[w].task}
  /\ worker' = [worker EXCEPT ![w] = [pc |-> "acquire", task |-> NoTask]]
  /\ UNCHANGED <<mutex, tasks, stop, client, owner, offered, accepted, spurious>>

-----------------------------------------------------------------------------
(* enqueue *)

EnqueueCall(c, t) ==
  /\ client[c].pc = "idle" /\ owner # "joined"
  /\ t \notin offered
  /\ offered' = offered \cup {t}
  /\ client' = [client EXCEPT ![c] = [pc |-> "acquire", task |-> t]]
  /\ UNCHANGED <<mutex, tasks, stop, worker, owner, accepted, done, spurious>>

EnqueueLock(c) ==
  /\ client[c].pc = "acquire" /\ mutex = Free
  /\ mutex' = c
  /\ client' = [client EXCEPT ![c].pc = "push"]
  /\ UNCHANGED <<tasks, stop, worker, owner, offered, accepted, done, spurious>>

(* throw std::runtime_error("enqueue on stopped ThreadPool") *)
EnqueueThrow(c) ==
  /\ client[c].pc = "push" /\ stop
  /\ mutex' = Free
  /\ client' = [client EXCEPT ![c] = [pc |-> "idle", task |-> NoTask]]
  /\ UNCHANGED <<tasks, stop, worker, owner, offered, accepted, done, spurious>>

(* Mutant: the task is pushed after it was moved from. *)
EnqueuePush_Moved(c) ==
  /\ client[c].pc = "push" /\ ~ stop
  /\ tasks' = Append(tasks, NoTask)
  /\ accepted' = accepted \cup {client[c].task}
  /\ mutex' = Free
  /\ client' = [client EXCEPT ![c].pc = "notify"]
  /\ UNCHANGED <<stop, worker, owner, offered, done, spurious>>

(* Mutant: stop is not looked at. *)
EnqueuePush_Stopped(c) ==
  /\ client[c].pc = "push" 
  /\ tasks' = Append(tasks, client[c].task)
  /\ accepted' = accepted \cup {client[c].task}
  /\ mutex' = Free
  /\ client' = [client EXCEPT ![c].pc = "notify"]
  /\ UNCHANGED <<stop, worker, owner, offered, done, spurious>>

EnqueuePush(c) ==
  /\ client[c].pc = "push" /\ ~ stop
  /\ tasks' = Append(tasks, client[c].task)
  /\ accepted' = accepted \cup {client[c].task}
  /\ mutex' = Free
  /\ client' = [client EXCEPT ![c].pc = "notify"]
  /\ UNCHANGED <<stop, worker, owner, offered, done, spurious>>

(* Mutant: nobody is notified. *)
EnqueueNotify_None(c) ==
  /\ client[c].pc = "notify"
  /\ UNCHANGED worker
  /\ client' = [client EXCEPT ![c] = [pc |-> "idle", task |-> NoTask]]
  /\ UNCHANGED <<mutex, tasks, stop, owner, offered, accepted, done, spurious>>

(* condition.notify_one: any one of the waiting threads, if there is one *)
EnqueueNotify(c) ==
  /\ client[c].pc = "notify"
  /\ IF Waiting = {} THEN UNCHANGED worker ELSE \E w \in Waiting : WorkerTo(w, "acquire")
  /\ client' = [client EXCEPT ![c] = [pc |-> "idle", task |-> NoTask]]
  /\ UNCHANGED <<mutex, tasks, stop, owner, offered, accepted, done, spurious>>

-----------------------------------------------------------------------------
(* ~ThreadPool *)

DestroyLock ==
  /\ owner = "alive" /\ mutex = Free
  /\ mutex' = Owner
  /\ owner' = "stop"
  /\ UNCHANGED <<tasks, stop, worker, client, offered, accepted, done, spurious>>

DestroyStop ==
  /\ owner = "stop"
  /\ stop' = TRUE
  /\ mutex' = Free
  /\ owner' = "notify"
  /\ UNCHANGED <<tasks, worker, client, offered, accepted, done, spurious>>

(* Mutant: notify_one instead of notify_all. *)
DestroyNotify_One ==
  /\ owner = "notify"
  /\ IF Waiting = {} THEN UNCHANGED worker ELSE \E w \in Waiting : WorkerTo(w, "acquire")
  /\ owner' = "join"
  /\ UNCHANGED <<mutex, tasks, stop, client, offered, accepted, done, spurious>>

DestroyNotify ==
  /\ owner = "notify"
  /\ worker' = [w \in Workers |->
       IF At(w, "wait") THEN [worker[w] EXCEPT !.pc = "acquire"] ELSE worker[w]]
  /\ owner' = "join"
  /\ UNCHANGED <<mutex, tasks, stop, client, offered, accepted, done, spurious>>

(* Every worker is joined; the members are destroyed, so that no call of   *)
(* enqueue may be in progress (the clients' part of the contract).         *)
DestroyJoin ==
  /\ owner = "join"
  /\ \A w \in Workers : At(w, "exited")
  /\ \A c \in Clients : client[c].pc = "idle"
  /\ owner' = "joined"
  /\ UNCHANGED <<mutex, tasks, stop, worker, client, offered, accepted, done, spurious>>

-----------------------------------------------------------------------------
WorkerStep(w) ==
  WorkerLock(w) \/ WorkerWait(w) \/ WorkerExit(w) \/ WorkerTake(w) \/ WorkerRun(w)

ClientStep(c) == EnqueueLock(c) \/ EnqueueThrow(c) \/ EnqueuePush(c) \/ EnqueueNotify(c)

DestroyEnd == DestroyStop \/ DestroyNotify \/ DestroyJoin

Next ==
  \/ \E w \in Workers : WorkerStep(w) \/ SpuriousWakeup(w)
  \/ \E c \in Clients : ClientStep(c) \/ \E t \in Tasks : EnqueueCall(c, t)
  \/ DestroyLock \/ DestroyEnd

Spec == Init /\ [][Next]_vars

(* Threads that can run do run.  Nobody has to call enqueue or to destroy  *)
(* the pool; a call that has begun, and a destructor that has the mutex,   *)
(* go on.  The waits for the mutex end because only finitely many calls    *)
(* and spurious wakeups can overtake a thread.                             *)
FairSpec ==
  /\ Spec
  /\ \A w \in Workers : WF_vars(WorkerStep(w))
  /\ \A c \in Clients : WF_vars(ClientStep(c))
  /\ WF_vars(DestroyEnd)
=============================================================================
