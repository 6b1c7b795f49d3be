-------------------------- MODULE ThreadPool_proofs --------------------------
(***************************************************************************)
(* ThreadPool implements TaskPool and loses no task and no wakeup, for     *)
(* every number of workers, clients, tasks and spurious wakeups.           *)
(***************************************************************************)
EXTENDS ThreadPoolProperties, FiniteSetTheorems, TLAPS

-----------------------------------------------------------------------------
(* The queue *)

LEMMA AppendQueue ==
  ASSUME NEW S, NEW s \in Seq(S), NEW t \in S
  PROVE  /\ Append(s, t) \in Seq(S) /\ Len(Append(s, t)) = Len(s) + 1
         /\ ToSet(Append(s, t)) = ToSet(s) \cup {t}
         /\ (\A i, j \in DOMAIN s : s[i] = s[j] => i = j) /\ t \notin ToSet(s)
              => \A i, j \in DOMAIN Append(s, t) : Append(s, t)[i] = Append(s, t)[j] => i = j
<1>. DEFINE q == Append(s, t)
            n == Len(s)
<1>1. q \in Seq(S) /\ Len(q) = n + 1 /\ n \in Nat
  OBVIOUS
<1>2. q[n + 1] = t /\ \A i \in 1..n : q[i] = s[i]
  OBVIOUS
<1>3. DOMAIN s = 1..n /\ DOMAIN q = 1..(n + 1)
  OBVIOUS
<1>. HIDE DEF q, n
<1>4. ToSet(q) = ToSet(s) \cup {t}
  <2>1. \A y \in ToSet(q) : y \in ToSet(s) \cup {t}
    BY <1>1, <1>2, <1>3 DEF ToSet
  <2>2. \A y \in ToSet(s) : y \in ToSet(q)
    BY <1>1, <1>2, <1>3 DEF ToSet
  <2>3. t \in ToSet(q)
    BY <1>1, <1>2, <1>3 DEF ToSet
  <2>. QED  BY <2>1, <2>2, <2>3
<1>5. (\A i, j \in DOMAIN s : s[i] = s[j] => i = j) /\ t \notin ToSet(s)
        => \A i, j \in DOMAIN q : q[i] = q[j] => i = j
  BY <1>1, <1>2, <1>3 DEF ToSet
<1>. QED  BY <1>1, <1>4, <1>5 DEF q, n

LEMMA TailQueue ==
  ASSUME NEW S, NEW s \in Seq(S), s # <<>>,
         \A i, j \in DOMAIN s : s[i] = s[j] => i = j
  PROVE  /\ Tail(s) \in Seq(S) /\ Len(Tail(s)) = Len(s) - 1
         /\ Head(s) \in S /\ Head(s) \in ToSet(s)
         /\ ToSet(Tail(s)) = ToSet(s) \ {Head(s)}
         /\ \A i, j \in DOMAIN Tail(s) : Tail(s)[i] = Tail(s)[j] => i = j
<1>. DEFINE q == Tail(s)
            n == Len(s)
<1>1. q \in Seq(S) /\ Len(q) = n - 1 /\ n \in Nat /\ n > 0 /\ Head(s) = s[1]
  OBVIOUS
<1>2. \A i \in 1..(n - 1) : q[i] = s[i + 1]
  OBVIOUS
<1>3. DOMAIN s = 1..n /\ DOMAIN q = 1..(n - 1)
  OBVIOUS
<1>4. Head(s) \in S
  OBVIOUS
<1>. HIDE DEF q, n
<1>5. ToSet(q) = ToSet(s) \ {Head(s)}
  <2>1. \A y \in ToSet(q) : y \in ToSet(s) /\ y # Head(s)
    BY <1>1, <1>2, <1>3 DEF ToSet
  <2>2. ASSUME NEW i \in DOMAIN s, s[i] # Head(s) PROVE s[i] \in ToSet(q)
    <3>1. i - 1 \in 1..(n - 1) /\ q[i - 1] = s[i]
      BY <1>1, <1>2, <1>3, <2>2
    <3>. QED  BY <1>3, <3>1 DEF ToSet
  <2>. QED  BY <2>1, <2>2 DEF ToSet
<1>6. ASSUME NEW i \in DOMAIN q, NEW j \in DOMAIN q, q[i] = q[j] PROVE i = j
  <2>1. i + 1 \in DOMAIN s /\ j + 1 \in DOMAIN s /\ s[i + 1] = s[j + 1]
    BY <1>1, <1>2, <1>3, <1>6
  <2>2. i + 1 = j + 1
    BY <2>1
  <2>. QED  BY <1>1, <1>3, <2>2
<1>7. Head(s) \in ToSet(s)
  BY <1>1, <1>3 DEF ToSet
<1>. QED  BY <1>1, <1>4, <1>5, <1>6, <1>7 DEF q, n

-----------------------------------------------------------------------------
(* The inductive invariant *)

(* A worker holds a task exactly while it runs it. *)
HandsFull == \A w \in Workers : worker[w].task # NoTask <=> worker[w].pc = "run"

(* What a client is about to push is its own, and not in the pool yet. *)
ToPush == {c \in Clients : client[c].pc \in {"acquire", "push"}}
OwnOffers ==
  /\ accepted \subseteq offered
  /\ \A c \in ToPush : client[c].task \in offered \ accepted
  /\ \A c, d \in ToPush : client[c].task = client[d].task => c = d

(* How far the destructor is tells whether the pool is stopped; what has   *)
(* ended has ended for good.                                               *)
Shutdown ==
  /\ stop <=> owner \notin {"alive", "stop"}
  /\ \A w \in Workers : At(w, "exited") => stop /\ tasks = <<>>
  /\ owner = "joined" => /\ \A w \in Workers : At(w, "exited")
                         /\ \A c \in Clients : client[c].pc = "idle"

Inv == TypeOK /\ TaskConserved /\ HandsFull /\ OwnOffers /\ Shutdown

LEMMA InitInv == Init => Inv
<1>. SUFFICES ASSUME Init PROVE Inv
  OBVIOUS
<1>1. TypeOK
  <2>1. /\ worker \in [Workers -> [pc : {"acquire", "test", "wait", "run", "exited"},
                                 task : Tasks \cup {NoTask}]]
        /\ client \in [Clients -> [pc : {"idle", "acquire", "push", "notify"},
                                 task : Tasks \cup {NoTask}]]
    BY DEF Init
  <2>2. spurious \in 0..MaxSpurious
    BY PoolAssumption DEF Init
  <2>3. /\ mutex \in Threads \cup {Free} /\ stop \in BOOLEAN
        /\ owner \in {"alive", "stop", "notify", "join", "joined"}
        /\ offered \subseteq Tasks /\ accepted \subseteq Tasks /\ done \subseteq Tasks
    BY DEF Init
  <2>4. tasks \in Seq(Tasks)
    BY DEF Init
  <2>. QED  BY <2>1, <2>2, <2>3, <2>4 DEF TypeOK
<1>2. Queued = {} /\ Running = {}
  BY DEF Init, Queued, Running, ToSet
<1>3. TaskConserved
  BY <1>2 DEF Init, TaskConserved
<1>4. HandsFull /\ OwnOffers /\ Shutdown
  BY DEF Init, HandsFull, OwnOffers, ToPush, Shutdown, At
<1>. QED  BY <1>1, <1>3, <1>4 DEF Inv

LEMMA InvTypeOK ==
  ASSUME Inv, [Next]_vars
  PROVE  TypeOK'
<1>. USE DEF TypeOK, Threads
<1>0. TypeOK
  BY DEF Inv
<1>1. ASSUME NEW w \in Workers, WorkerStep(w) \/ SpuriousWakeup(w) PROVE TypeOK'
  <2>1. CASE WorkerLock(w)
    BY <1>0, <2>1 DEF WorkerLock, WorkerTo
  <2>2. CASE WorkerWait(w)
    BY <1>0, <2>2 DEF WorkerWait, WorkerTo
  <2>3. CASE WorkerExit(w)
    BY <1>0, <2>3 DEF WorkerExit, WorkerTo
  <2>4. CASE WorkerTake(w)
    BY <1>0, <2>4 DEF WorkerTake
  <2>5. CASE WorkerRun(w)
    <3>1. worker[w].task \in Tasks
      BY <1>0, <2>5 DEF Inv, HandsFull, WorkerRun, At
    <3>. QED  BY <1>0, <2>5, <3>1 DEF WorkerRun
  <2>6. CASE SpuriousWakeup(w)
    BY <1>0, <2>6, PoolAssumption DEF SpuriousWakeup, WorkerTo
  <2>. QED  BY <1>1, <2>1, <2>2, <2>3, <2>4, <2>5, <2>6 DEF WorkerStep
<1>2. ASSUME NEW c \in Clients, ClientStep(c) \/ \E t \in Tasks : EnqueueCall(c, t) PROVE TypeOK'
  <2>1. CASE EnqueueLock(c)
    BY <1>0, <2>1 DEF EnqueueLock
  <2>2. CASE EnqueueThrow(c)
    BY <1>0, <2>2 DEF EnqueueThrow
  <2>3. CASE EnqueuePush(c)
    <3>1. client[c].task \in Tasks
      BY <1>0, <2>3 DEF Inv, OwnOffers, ToPush, EnqueuePush
    <3>. QED  BY <1>0, <2>3, <3>1 DEF EnqueuePush
  <2>4. CASE EnqueueNotify(c)
    <3>1. worker' \in [Workers -> [pc : {"acquire", "test", "wait", "run", "exited"},
                                   task : Tasks \cup {NoTask}]]
      BY <1>0, <2>4 DEF EnqueueNotify, Waiting, WorkerTo
    <3>. QED  BY <1>0, <2>4, <3>1 DEF EnqueueNotify
  <2>5. CASE \E t \in Tasks : EnqueueCall(c, t)
    BY <1>0, <2>5 DEF EnqueueCall
  <2>. QED  BY <1>2, <2>1, <2>2, <2>3, <2>4, <2>5 DEF ClientStep
<1>3. CASE DestroyLock \/ DestroyEnd
  <2>1. CASE DestroyNotify
    <3>1. worker' \in [Workers -> [pc : {"acquire", "test", "wait", "run", "exited"},
                                   task : Tasks \cup {NoTask}]]
      BY <1>0, <2>1 DEF DestroyNotify
    <3>. QED  BY <1>0, <2>1, <3>1 DEF DestroyNotify
  <2>. QED  BY <1>0, <1>3, <2>1 DEF DestroyLock, DestroyEnd, DestroyStop, DestroyJoin
<1>4. CASE UNCHANGED vars
  BY <1>0, <1>4 DEF vars
<1>. QED  BY <1>1, <1>2, <1>3, <1>4 DEF Next

(* What the three steps that touch tasks do with them *)
LEMMA TakeEffect ==
  ASSUME Inv, NEW w \in Workers, WorkerTake(w)
  PROVE  /\ tasks \in Seq(Tasks) /\ tasks # <<>> /\ tasks' = Tail(tasks)
         /\ Head(tasks) \in Queued /\ Head(tasks) \in Tasks
         /\ Queued' = Queued \ {Head(tasks)}
         /\ Running' = Running \cup {Head(tasks)}
         /\ worker[w].task = NoTask /\ worker'[w].task = Head(tasks)
         /\ \A v \in Workers \ {w} : worker'[v] = worker[v]
         /\ UNCHANGED <<done, accepted>>
<1>1. /\ tasks \in Seq(Tasks) /\ tasks # <<>> /\ tasks' = Tail(tasks)
      /\ \A i, j \in DOMAIN tasks : tasks[i] = tasks[j] => i = j
  BY DEF Inv, TypeOK, TaskConserved, WorkerTake
<1>2. /\ Head(tasks) \in Queued /\ Head(tasks) \in Tasks
      /\ Queued' = Queued \ {Head(tasks)}
  BY <1>1, TailQueue DEF Queued
<1>3. /\ worker[w].task = NoTask /\ worker'[w].task = Head(tasks)
      /\ \A v \in Workers \ {w} : worker'[v] = worker[v]
  BY DEF Inv, TypeOK, HandsFull, WorkerTake, At
<1>4. Head(tasks) # NoTask
  BY <1>2, PoolAssumption
<1>5. Running' = Running \cup {Head(tasks)}
  BY <1>3, <1>4 DEF Running
<1>6. UNCHANGED <<done, accepted>>
  BY DEF WorkerTake
<1>. QED  BY <1>1, <1>2, <1>3, <1>5, <1>6

LEMMA RunEffect ==
  ASSUME Inv, NEW w \in Workers, WorkerRun(w)
  PROVE  /\ worker[w].task \in Running /\ worker[w].task \in Tasks
         /\ Running' = Running \ {worker[w].task}
         /\ done' = done \cup {worker[w].task}
         /\ worker'[w].task = NoTask
         /\ \A v \in Workers \ {w} : worker'[v] = worker[v]
         /\ UNCHANGED <<tasks, accepted>>
<1>1. /\ worker[w].task # NoTask /\ worker[w].task \in Tasks /\ worker'[w].task = NoTask
      /\ \A v \in Workers \ {w} : worker'[v] = worker[v]
  BY DEF Inv, TypeOK, HandsFull, WorkerRun, At
<1>2. \A v \in Workers \ {w} : worker[v].task # worker[w].task
  BY <1>1 DEF Inv, TaskConserved
<1>3. Running' = Running \ {worker[w].task} /\ worker[w].task \in Running
  BY <1>1, <1>2 DEF Running
<1>. QED  BY <1>1, <1>3 DEF WorkerRun

LEMMA PushEffect ==
  ASSUME Inv, NEW c \in Clients, EnqueuePush(c)
  PROVE  /\ tasks \in Seq(Tasks) /\ tasks' = Append(tasks, client[c].task)
         /\ client[c].task \in Tasks /\ client[c].task \notin accepted
         /\ Queued' = Queued \cup {client[c].task}
         /\ accepted' = accepted \cup {client[c].task}
         /\ UNCHANGED <<worker, done>>
<1>1. c \in ToPush /\ client[c].task \in Tasks /\ client[c].task \notin accepted
  BY DEF Inv, TypeOK, OwnOffers, ToPush, EnqueuePush
<1>2. tasks \in Seq(Tasks) /\ tasks' = Append(tasks, client[c].task)
  BY DEF Inv, TypeOK, EnqueuePush
<1>3. Queued' = Queued \cup {client[c].task}
  BY <1>1, <1>2, AppendQueue DEF Queued
<1>. QED  BY <1>1, <1>2, <1>3 DEF EnqueuePush

(* Every other step leaves the tasks where they are. *)
LEMMA OtherEffect ==
  ASSUME Inv, [Next]_vars,
         \A w \in Workers : ~ WorkerTake(w) /\ ~ WorkerRun(w),
         \A c \in Clients : ~ EnqueuePush(c)
  PROVE  /\ UNCHANGED <<tasks, done, accepted>>
         /\ \A w \in Workers : worker'[w].task = worker[w].task
<1>. DEFINE Kept == \A w \in Workers : worker'[w].task = worker[w].task
<1>0. worker \in [Workers -> [pc : {"acquire", "test", "wait", "run", "exited"},
                              task : Tasks \cup {NoTask}]]
  BY DEF Inv, TypeOK
<1>2. ASSUME NEW w \in Workers, WorkerStep(w) \/ SpuriousWakeup(w)
      PROVE  UNCHANGED <<tasks, done, accepted>> /\ Kept
  <2>1. CASE WorkerLock(w)
    BY <1>0, <2>1 DEF WorkerLock, WorkerTo
  <2>2. CASE WorkerWait(w)
    BY <1>0, <2>2 DEF WorkerWait, WorkerTo
  <2>3. CASE WorkerExit(w)
    BY <1>0, <2>3 DEF WorkerExit, WorkerTo
  <2>4. CASE SpuriousWakeup(w)
    BY <1>0, <2>4 DEF SpuriousWakeup, WorkerTo
  <2>. QED  BY <1>2, <2>1, <2>2, <2>3, <2>4 DEF WorkerStep
<1>3. ASSUME NEW c \in Clients, ClientStep(c) \/ \E t \in Tasks : EnqueueCall(c, t)
      PROVE  UNCHANGED <<tasks, done, accepted>> /\ Kept
  <2>1. CASE EnqueueLock(c)
    BY <2>1 DEF EnqueueLock
  <2>2. CASE EnqueueThrow(c)
    BY <2>2 DEF EnqueueThrow
  <2>3. CASE EnqueueNotify(c)
    BY <1>0, <2>3 DEF EnqueueNotify, Waiting, WorkerTo
  <2>4. CASE \E t \in Tasks : EnqueueCall(c, t)
    BY <2>4 DEF EnqueueCall
  <2>. QED  BY <1>3, <2>1, <2>2, <2>3, <2>4 DEF ClientStep
<1>4. ASSUME DestroyLock \/ DestroyEnd
      PROVE  UNCHANGED <<tasks, done, accepted>> /\ Kept
  BY <1>0, <1>4 DEF DestroyLock, DestroyEnd, DestroyStop, DestroyNotify, DestroyJoin, At
<1>5. ASSUME UNCHANGED vars
      PROVE  UNCHANGED <<tasks, done, accepted>> /\ Kept
  BY <1>5 DEF vars
<1>. QED  BY <1>2, <1>3, <1>4, <1>5 DEF Next

LEMMA InvTaskConserved ==
  ASSUME Inv, [Next]_vars
  PROVE  TaskConserved'
<1>0. TaskConserved
  BY DEF Inv
<1>1. ASSUME NEW w \in Workers, WorkerTake(w) PROVE TaskConserved'
  <2>1. Head(tasks) \notin Running
    BY <1>1, TakeEffect DEF Inv, TaskConserved
  <2>2. \A v \in Workers \ {w} : worker[v].task # Head(tasks)
    BY <2>1, <1>1, TakeEffect, PoolAssumption DEF Running
  <2>3. \A u, v \in Workers : worker'[u].task = worker'[v].task /\ worker'[u].task # NoTask => u = v
    BY <1>0, <1>1, <2>2, TakeEffect DEF TaskConserved
  <2>4. \A i, j \in DOMAIN tasks' : tasks'[i] = tasks'[j] => i = j
    <3>1. \A i, j \in DOMAIN tasks : tasks[i] = tasks[j] => i = j
      BY <1>0 DEF TaskConserved
    <3>. QED  BY <1>1, <3>1, TakeEffect, TailQueue
  <2>. QED  BY <1>0, <1>1, <2>1, <2>3, <2>4, TakeEffect DEF TaskConserved
<1>2. ASSUME NEW w \in Workers, WorkerRun(w) PROVE TaskConserved'
  <2>1. \A u, v \in Workers : worker'[u].task = worker'[v].task /\ worker'[u].task # NoTask => u = v
    BY <1>0, <1>2, RunEffect DEF TaskConserved
  <2>2. Queued' = Queued
    BY <1>2, RunEffect DEF Queued
  <2>. QED  BY <1>0, <1>2, <2>1, <2>2, RunEffect DEF TaskConserved
<1>3. ASSUME NEW c \in Clients, EnqueuePush(c) PROVE TaskConserved'
  <2>1. client[c].task \notin Queued \cup Running \cup done
    BY <1>0, <1>3, PushEffect DEF TaskConserved
  <2>2. \A i, j \in DOMAIN tasks' : tasks'[i] = tasks'[j] => i = j
    BY <1>0, <1>3, <2>1, PushEffect, AppendQueue DEF TaskConserved, Queued
  <2>3. Running' = Running
    BY <1>3, PushEffect DEF Running
  <2>. QED  BY <1>0, <1>3, <2>1, <2>2, <2>3, PushEffect DEF TaskConserved
<1>4. CASE /\ UNCHANGED <<tasks, done, accepted>>
           /\ \A w \in Workers : worker'[w].task = worker[w].task
  BY <1>0, <1>4 DEF TaskConserved, Queued, Running
<1>. QED  BY <1>1, <1>2, <1>3, <1>4, OtherEffect

LEMMA InvHandsFull ==
  ASSUME Inv, [Next]_vars
  PROVE  HandsFull'
<1>0. /\ worker \in [Workers -> [pc : {"acquire", "test", "wait", "run", "exited"},
                                 task : Tasks \cup {NoTask}]]
      /\ tasks \in Seq(Tasks) /\ HandsFull
  BY DEF Inv, TypeOK
<1>1. ASSUME NEW w \in Workers, WorkerStep(w) \/ SpuriousWakeup(w) PROVE HandsFull'
  <2>1. CASE WorkerLock(w)
    BY <1>0, <2>1 DEF HandsFull, WorkerLock, WorkerTo, At
  <2>2. CASE WorkerWait(w)
    BY <1>0, <2>2 DEF HandsFull, WorkerWait, WorkerTo, At
  <2>3. CASE WorkerExit(w)
    BY <1>0, <2>3 DEF HandsFull, WorkerExit, WorkerTo, At
  <2>4. CASE WorkerTake(w)
    <3>1. Head(tasks) # NoTask
      BY <2>4, TakeEffect, PoolAssumption
    <3>. QED  BY <1>0, <2>4, <3>1 DEF HandsFull, WorkerTake
  <2>5. CASE WorkerRun(w)
    BY <1>0, <2>5 DEF HandsFull, WorkerRun
  <2>6. CASE SpuriousWakeup(w)
    BY <1>0, <2>6 DEF HandsFull, SpuriousWakeup, WorkerTo, At
  <2>. QED  BY <1>1, <2>1, <2>2, <2>3, <2>4, <2>5, <2>6 DEF WorkerStep
<1>2. ASSUME NEW c \in Clients, ClientStep(c) \/ \E t \in Tasks : EnqueueCall(c, t)
      PROVE  HandsFull'
  <2>1. CASE EnqueueNotify(c)
    BY <1>0, <2>1 DEF HandsFull, EnqueueNotify, Waiting, WorkerTo, At
  <2>2. CASE UNCHANGED worker
    BY <1>0, <2>2 DEF HandsFull
  <2>. QED  BY <1>2, <2>1, <2>2
            DEF ClientStep, EnqueueCall, EnqueueLock, EnqueueThrow, EnqueuePush
<1>3. ASSUME DestroyLock \/ DestroyEnd PROVE HandsFull'
  <2>1. CASE DestroyNotify
    BY <1>0, <2>1 DEF HandsFull, DestroyNotify, At
  <2>2. CASE UNCHANGED worker
    BY <1>0, <2>2 DEF HandsFull
  <2>. QED  BY <1>3, <2>1, <2>2 DEF DestroyLock, DestroyEnd, DestroyStop, DestroyJoin
<1>4. CASE UNCHANGED vars
  BY <1>0, <1>4 DEF vars, HandsFull
<1>. QED  BY <1>1, <1>2, <1>3, <1>4 DEF Next

LEMMA InvOwnOffers ==
  ASSUME Inv, [Next]_vars
  PROVE  OwnOffers'
<1>0. /\ client \in [Clients -> [pc : {"idle", "acquire", "push", "notify"},
                                 task : Tasks \cup {NoTask}]]
      /\ OwnOffers
  BY DEF Inv, TypeOK
<1>1. ASSUME NEW c \in Clients, ClientStep(c) PROVE OwnOffers'
  <2>1. CASE EnqueueLock(c)
    BY <1>0, <2>1 DEF OwnOffers, ToPush, EnqueueLock
  <2>2. CASE EnqueueThrow(c)
    BY <1>0, <2>2 DEF OwnOffers, ToPush, EnqueueThrow
  <2>3. CASE EnqueuePush(c)
    BY <1>0, <2>3 DEF OwnOffers, ToPush, EnqueuePush
  <2>4. CASE EnqueueNotify(c)
    BY <1>0, <2>4 DEF OwnOffers, ToPush, EnqueueNotify
  <2>. QED  BY <1>1, <2>1, <2>2, <2>3, <2>4 DEF ClientStep
<1>2. ASSUME NEW c \in Clients, NEW t \in Tasks, EnqueueCall(c, t) PROVE OwnOffers'
  BY <1>0, <1>2 DEF OwnOffers, ToPush, EnqueueCall
<1>3. CASE UNCHANGED <<client, offered, accepted>>
  BY <1>0, <1>3 DEF OwnOffers, ToPush
<1>4. ASSUME NEW w \in Workers, WorkerStep(w) \/ SpuriousWakeup(w)
      PROVE  UNCHANGED <<client, offered, accepted>>
  BY <1>4 DEF WorkerStep, WorkerLock, WorkerWait, WorkerExit, WorkerTake, WorkerRun, SpuriousWakeup
<1>5. ASSUME DestroyLock \/ DestroyEnd PROVE UNCHANGED <<client, offered, accepted>>
  BY <1>5 DEF DestroyLock, DestroyEnd, DestroyStop, DestroyNotify, DestroyJoin
<1>. QED  BY <1>1, <1>2, <1>3, <1>4, <1>5 DEF Next, vars

LEMMA InvShutdown ==
  ASSUME Inv, [Next]_vars
  PROVE  Shutdown'
<1>0. /\ worker \in [Workers -> [pc : {"acquire", "test", "wait", "run", "exited"},
                                 task : Tasks \cup {NoTask}]]
      /\ client \in [Clients -> [pc : {"idle", "acquire", "push", "notify"},
                                 task : Tasks \cup {NoTask}]]
      /\ stop \in BOOLEAN /\ Shutdown
  BY DEF Inv, TypeOK
<1>. USE DEF At
<1>1. ASSUME NEW w \in Workers, WorkerStep(w) \/ SpuriousWakeup(w) PROVE Shutdown'
  <2>1. CASE WorkerLock(w)
    BY <1>0, <2>1 DEF Shutdown, WorkerLock, WorkerTo
  <2>2. CASE WorkerWait(w)
    BY <1>0, <2>2 DEF Shutdown, WorkerWait, WorkerTo
  <2>3. CASE WorkerExit(w)
    BY <1>0, <2>3 DEF Shutdown, WorkerExit, WorkerTo
  <2>4. CASE WorkerTake(w)
    BY <1>0, <2>4 DEF Shutdown, WorkerTake
  <2>5. CASE WorkerRun(w)
    BY <1>0, <2>5 DEF Shutdown, WorkerRun
  <2>6. CASE SpuriousWakeup(w)
    BY <1>0, <2>6 DEF Shutdown, SpuriousWakeup, WorkerTo
  <2>. QED  BY <1>1, <2>1, <2>2, <2>3, <2>4, <2>5, <2>6 DEF WorkerStep
<1>2. ASSUME NEW c \in Clients, ClientStep(c) \/ \E t \in Tasks : EnqueueCall(c, t)
      PROVE  Shutdown'
  <2>1. CASE EnqueueLock(c)
    BY <1>0, <2>1 DEF Shutdown, EnqueueLock
  <2>2. CASE EnqueueThrow(c)
    BY <1>0, <2>2 DEF Shutdown, EnqueueThrow
  <2>3. CASE EnqueuePush(c)
    BY <1>0, <2>3 DEF Shutdown, EnqueuePush
  <2>4. CASE EnqueueNotify(c)
    BY <1>0, <2>4 DEF Shutdown, EnqueueNotify, Waiting, WorkerTo
  <2>5. CASE \E t \in Tasks : EnqueueCall(c, t)
    BY <1>0, <2>5 DEF Shutdown, EnqueueCall
  <2>. QED  BY <1>2, <2>1, <2>2, <2>3, <2>4, <2>5 DEF ClientStep
<1>3. ASSUME DestroyLock \/ DestroyEnd PROVE Shutdown'
  <2>1. CASE DestroyLock
    BY <1>0, <2>1 DEF Shutdown, DestroyLock
  <2>2. CASE DestroyStop
    BY <1>0, <2>2 DEF Shutdown, DestroyStop
  <2>3. CASE DestroyNotify
    BY <1>0, <2>3 DEF Shutdown, DestroyNotify
  <2>4. CASE DestroyJoin
    BY <1>0, <2>4 DEF Shutdown, DestroyJoin
  <2>. QED  BY <1>3, <2>1, <2>2, <2>3, <2>4 DEF DestroyEnd
<1>4. CASE UNCHANGED vars
  BY <1>0, <1>4 DEF vars, Shutdown
<1>. QED  BY <1>1, <1>2, <1>3, <1>4 DEF Next

(* Inv is an inductive invariant of the pool. *)
THEOREM Invariance == Spec => []Inv
<1>1. Inv /\ [Next]_vars => Inv'
  BY InvTypeOK, InvTaskConserved, InvHandsFull, InvOwnOffers, InvShutdown DEF Inv
<1>. QED  BY InitInv, <1>1, PTL DEF Spec

(* Type correctness of thread_pool.h's model. *)
THEOREM TypeCorrect == Spec => []TypeOK
<1>1. Inv => TypeOK
  BY DEF Inv
<1>. QED  BY Invariance, <1>1, PTL

(* No interleaving of workers, enqueuing threads and the destructor drops  *)
(* a task or runs it twice (thread_pool.h, lines 42-52 and 71-81).         *)
THEOREM NoTaskLost == Spec => []TaskConserved
<1>1. Inv => TaskConserved
  BY DEF Inv
<1>. QED  BY Invariance, <1>1, PTL

(* Whenever the destructor returns, every task enqueue accepted has been   *)
(* run: the workers drain the queue before they leave (lines 46-47).       *)
THEOREM JoinDrains == Spec => []DrainedWhenJoined
<1>1. ASSUME Inv PROVE DrainedWhenJoined
  <2>. USE DEF Inv
  <2>1. \A w \in Workers : At(w, "exited") => stop /\ tasks = <<>>
    BY <1>1 DEF Shutdown
  <2>2. ASSUME owner = "joined" PROVE accepted = done
    <3>1. Queued = {}
      BY <1>1, <2>1, <2>2, PoolAssumption DEF Shutdown, Queued, ToSet
    <3>2. \A w \in Workers : worker[w].task = NoTask
      BY <1>1, <2>2 DEF Shutdown, HandsFull, At
    <3>3. Running = {}
      BY <3>2 DEF Running
    <3>. QED  BY <1>1, <3>1, <3>3 DEF TaskConserved
  <2>. QED  BY <2>1, <2>2 DEF DrainedWhenJoined
<1>. QED  BY Invariance, <1>1, PTL

-----------------------------------------------------------------------------
(* The wakeups *)

LEMMA OneMore ==
  ASSUME NEW S, IsFiniteSet(S), NEW x, x \notin S
  PROVE  /\ Cardinality(S \cup {x}) = Cardinality(S) + 1
         /\ Cardinality(S) \in Nat /\ Cardinality(S \cup {x}) \in Nat
  BY FS_AddElement, FS_CardinalityType

LEMMA OneLess ==
  ASSUME NEW S, IsFiniteSet(S), NEW x \in S
  PROVE  /\ Cardinality(S \ {x}) = Cardinality(S) - 1
         /\ Cardinality(S) \in Nat /\ Cardinality(S \ {x}) \in Nat
  BY FS_RemoveElement, FS_CardinalityType

LEMMA AwakeFinite ==
  /\ IsFiniteSet(Awake) /\ IsFiniteSet(Pending)
  /\ Cardinality(Awake) \in Nat /\ Cardinality(Pending) \in Nat
  /\ Cardinality(Awake') \in Nat /\ Cardinality(Pending') \in Nat
<1>1. /\ Awake \subseteq Workers /\ Pending \subseteq Clients
      /\ Awake' \subseteq Workers /\ Pending' \subseteq Clients
  BY DEF Awake, Pending
<1>. QED  BY <1>1, PoolAssumption, FS_Subset, FS_CardinalityType

(* A worker that starts to wait finds the queue empty; one that takes a    *)
(* task leaves with it; a task comes with a notification, which wakes a    *)
(* worker if any waits: the count of the queue stays below.                *)
LEMMA InvNoLostWakeup ==
  ASSUME Inv, NoLostWakeup, [Next]_vars
  PROVE  NoLostWakeup'
<1>0. /\ worker \in [Workers -> [pc : {"acquire", "test", "wait", "run", "exited"},
                                 task : Tasks \cup {NoTask}]]
      /\ client \in [Clients -> [pc : {"idle", "acquire", "push", "notify"},
                                 task : Tasks \cup {NoTask}]]
      /\ tasks \in Seq(Tasks) /\ Len(tasks) \in Nat
  BY DEF Inv, TypeOK
<1>. USE DEF At
<1>1. CASE /\ Waiting' \subseteq Waiting /\ tasks' = tasks
           /\ Cardinality(Awake') >= Cardinality(Awake)
           /\ Cardinality(Pending') >= Cardinality(Pending)
  BY <1>0, <1>1, AwakeFinite DEF NoLostWakeup
<1>2. CASE tasks' = <<>> \/ Waiting' = {}
  BY <1>2, AwakeFinite DEF NoLostWakeup
<1>3. ASSUME NEW w \in Workers, WorkerStep(w) \/ SpuriousWakeup(w) PROVE NoLostWakeup'
  <2>1. CASE WorkerLock(w)
    <3>1. Waiting' = Waiting /\ Awake' = Awake /\ Pending' = Pending /\ tasks' = tasks
      BY <1>0, <2>1 DEF WorkerLock, WorkerTo, Waiting, Awake, Pending
    <3>. QED  BY <3>1 DEF NoLostWakeup
  <2>2. CASE WorkerWait(w) \/ WorkerExit(w)
    BY <1>2, <2>2 DEF WorkerWait, WorkerExit
  <2>3. CASE WorkerTake(w)
    <3>1. /\ Waiting' = Waiting /\ Awake' = Awake \ {w} /\ Pending' = Pending
          /\ w \in Awake
      BY <1>0, <2>3 DEF WorkerTake, Waiting, Awake, Pending
    <3>2. Len(tasks') = Len(tasks) - 1
      BY <1>0, <2>3 DEF WorkerTake
    <3>3. Cardinality(Awake') = Cardinality(Awake) - 1
      BY <3>1, OneLess, AwakeFinite
    <3>. QED  BY <1>0, <3>1, <3>2, <3>3, AwakeFinite DEF NoLostWakeup
  <2>4. CASE WorkerRun(w) \/ SpuriousWakeup(w)
    <3>1. /\ Waiting' \subseteq Waiting /\ Awake' = Awake \cup {w} /\ Pending' = Pending
          /\ w \notin Awake /\ tasks' = tasks
      BY <1>0, <2>4 DEF WorkerRun, SpuriousWakeup, WorkerTo, Waiting, Awake, Pending
    <3>2. Cardinality(Awake') = Cardinality(Awake) + 1
      BY <3>1, OneMore, AwakeFinite
    <3>. QED  BY <1>1, <3>1, <3>2, AwakeFinite
  <2>. QED  BY <1>3, <2>1, <2>2, <2>3, <2>4 DEF WorkerStep
<1>4. ASSUME NEW c \in Clients, ClientStep(c) \/ \E t \in Tasks : EnqueueCall(c, t)
      PROVE  NoLostWakeup'
  <2>1. CASE EnqueuePush(c)
    <3>1. /\ Waiting' = Waiting /\ Awake' = Awake /\ Pending' = Pending \cup {c}
          /\ c \notin Pending
      BY <1>0, <2>1 DEF EnqueuePush, Waiting, Awake, Pending
    <3>2. Len(tasks') = Len(tasks) + 1
      BY <1>0, <2>1, PushEffect, AppendQueue
    <3>3. Cardinality(Pending') = Cardinality(Pending) + 1
      BY <3>1, OneMore, AwakeFinite
    <3>. QED  BY <1>0, <3>1, <3>2, <3>3, AwakeFinite DEF NoLostWakeup
  <2>2. CASE EnqueueNotify(c) /\ Waiting = {}
    <3>1. Waiting' = {}
      BY <2>2 DEF EnqueueNotify, Waiting
    <3>. QED  BY <1>2, <3>1
  <2>3. CASE EnqueueNotify(c) /\ Waiting # {}
    <3>1. PICK w \in Waiting : WorkerTo(w, "acquire")
      BY <2>3 DEF EnqueueNotify
    <3>2. Awake' = Awake \cup {w} /\ w \notin Awake
      BY <1>0, <3>1 DEF WorkerTo, Waiting, Awake
    <3>3. Pending' = Pending \ {c} /\ c \in Pending /\ tasks' = tasks
      BY <1>0, <2>3 DEF EnqueueNotify, Pending
    <3>4. Cardinality(Awake') = Cardinality(Awake) + 1
      BY <3>2, OneMore, AwakeFinite
    <3>5. Cardinality(Pending') = Cardinality(Pending) - 1
      BY <3>3, OneLess, AwakeFinite
    <3>. QED  BY <1>0, <2>3, <3>3, <3>4, <3>5, AwakeFinite DEF NoLostWakeup
  <2>4. CASE EnqueueLock(c) \/ EnqueueThrow(c) \/ \E t \in Tasks : EnqueueCall(c, t)
    <3>0. UNCHANGED <<worker, tasks>>
      BY <2>4 DEF EnqueueLock, EnqueueThrow, EnqueueCall
    <3>2. Pending' = Pending
      <4>1. CASE EnqueueLock(c)
        BY <1>0, <4>1 DEF EnqueueLock, Pending
      <4>2. CASE EnqueueThrow(c)
        BY <1>0, <4>2 DEF EnqueueThrow, Pending
      <4>3. CASE \E t \in Tasks : EnqueueCall(c, t)
        BY <1>0, <4>3 DEF EnqueueCall, Pending
      <4>. QED  BY <2>4, <4>1, <4>2, <4>3
    <3>1. Waiting' = Waiting /\ Awake' = Awake /\ Pending' = Pending /\ tasks' = tasks
      BY <3>0, <3>2 DEF Waiting, Awake
    <3>. QED  BY <3>1 DEF NoLostWakeup
  <2>. QED  BY <1>4, <2>1, <2>2, <2>3, <2>4 DEF ClientStep
<1>5. ASSUME DestroyLock \/ DestroyEnd PROVE NoLostWakeup'
  <2>1. CASE DestroyNotify
    <3>1. Waiting' = {}
      BY <1>0, <2>1 DEF DestroyNotify, Waiting
    <3>. QED  BY <1>2, <3>1
  <2>2. CASE UNCHANGED <<worker, client, tasks>>
    BY <2>2 DEF NoLostWakeup, Waiting, Awake, Pending
  <2>. QED  BY <1>5, <2>1, <2>2 DEF DestroyLock, DestroyEnd, DestroyStop, DestroyJoin
<1>6. CASE UNCHANGED vars
  BY <1>6 DEF vars, NoLostWakeup, Waiting, Awake, Pending
<1>. QED  BY <1>3, <1>4, <1>5, <1>6 DEF Next

(* No worker waits past a task: enqueue may notify outside of the mutex    *)
(* (thread_pool.h, line 81) because the predicate is tested inside (43-45).*)
THEOREM WakeupsSuffice == Spec => []NoLostWakeup
<1>1. Init => NoLostWakeup
  BY DEF Init, NoLostWakeup, Waiting, At
<1>2. Inv /\ NoLostWakeup /\ [Next]_vars => NoLostWakeup'
  BY InvNoLostWakeup
<1>. QED  BY Invariance, <1>1, <1>2, PTL DEF Spec

-----------------------------------------------------------------------------
(* The refinement *)

LEMMA OwnerStop ==
  ASSUME Inv, [Next]_vars,
         \A w \in Workers : ~ WorkerTake(w) /\ ~ WorkerRun(w),
         \A c \in Clients : ~ EnqueuePush(c),
         ~ DestroyStop, ~ DestroyJoin
  PROVE  UNCHANGED <<tasks, Running, done, stop, owner = "joined">>
<1>1. UNCHANGED <<tasks, done>> /\ Running' = Running
  BY OtherEffect DEF Running
<1>2. stop' = stop /\ (owner = "joined" <=> owner' = "joined")
  <2>1. ASSUME NEW w \in Workers, WorkerStep(w) \/ SpuriousWakeup(w)
        PROVE  UNCHANGED <<stop, owner>>
    BY <2>1 DEF WorkerStep, WorkerLock, WorkerWait, WorkerExit, WorkerTake, WorkerRun,
                SpuriousWakeup
  <2>2. ASSUME NEW c \in Clients, ClientStep(c) \/ \E t \in Tasks : EnqueueCall(c, t)
        PROVE  UNCHANGED <<stop, owner>>
    BY <2>2 DEF ClientStep, EnqueueLock, EnqueueThrow, EnqueuePush, EnqueueNotify, EnqueueCall
  <2>3. ASSUME DestroyLock \/ DestroyNotify
        PROVE  stop' = stop /\ owner # "joined" /\ owner' # "joined"
    BY <2>3 DEF DestroyLock, DestroyNotify
  <2>. QED  BY <2>1, <2>2, <2>3 DEF Next, DestroyEnd, vars
<1>. QED  BY <1>1, <1>2

LEMMA StepMaps ==
  ASSUME Inv, [Next]_vars
  PROVE  [Pool!Next]_(Pool!vars)
<1>1. ASSUME NEW w \in Workers, WorkerTake(w) PROVE Pool!Start
  BY <1>1, TakeEffect DEF WorkerTake, Pool!Start
<1>2. ASSUME NEW w \in Workers, WorkerRun(w) PROVE \E t \in Tasks : Pool!Finish(t)
  <2>1. Pool!Finish(worker[w].task)
    BY <1>2, RunEffect DEF WorkerRun, Pool!Finish
  <2>. QED  BY <1>2, <2>1, RunEffect
<1>3. ASSUME NEW c \in Clients, EnqueuePush(c) PROVE \E t \in Tasks : Pool!Accept(t)
  <2>1. client[c].task \notin Queued \cup Running \cup done
    BY <1>3, PushEffect DEF Inv, TaskConserved
  <2>2. ~ stop /\ UNCHANGED <<Running, done, stop, owner>>
    BY <1>3 DEF EnqueuePush, Running
  <2>3. Pool!Accept(client[c].task)
    BY <1>3, <2>1, <2>2, PushEffect DEF Pool!Accept, Queued, ToSet, Pool!ToSet
  <2>. QED  BY <1>3, <2>3, PushEffect
<1>4. ASSUME DestroyStop PROVE Pool!Close
  BY <1>4 DEF Inv, Shutdown, DestroyStop, Pool!Close, Running
<1>5. ASSUME DestroyJoin PROVE Pool!Vanish
  <2>1. \A w \in Workers : worker[w].task = NoTask
    BY <1>5 DEF Inv, HandsFull, DestroyJoin, At
  <2>2. Running = {} /\ Running' = Running
    BY <1>5, <2>1 DEF DestroyJoin, Running
  <2>3. stop /\ tasks = <<>>
    BY <1>5, PoolAssumption DEF Inv, Shutdown, DestroyJoin
  <2>. QED  BY <1>5, <2>2, <2>3 DEF DestroyJoin, Pool!Vanish
<1>. QED  BY <1>1, <1>2, <1>3, <1>4, <1>5, OwnerStop DEF Pool!Next, Pool!vars

(* The pool implements the queue of tasks TaskPool describes: tasks start  *)
(* in order, enqueue throws rather than accepts after stop, and the        *)
(* destructor returns when all is done.                                    *)
THEOREM Refinement == Spec => PoolSpec
<1>1. Init => Pool!Init
  <2>1. ASSUME Init PROVE Running = {}
    BY <2>1 DEF Init, Running
  <2>. QED  BY <2>1 DEF Init, Pool!Init
<1>2. Inv /\ [Next]_vars => [Pool!Next]_(Pool!vars)
  BY StepMaps
<1>. QED  BY Invariance, <1>1, <1>2, PTL DEF Spec, PoolSpec, Pool!Spec
=============================================================================
