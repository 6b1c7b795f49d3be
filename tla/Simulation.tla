----------------------------- MODULE Simulation -----------------------------
(***************************************************************************)
(* PacketClassficationSimulator (src/src/Simulation.cpp) and the thread    *)
(* that runs it: ruhn_only_packet_classification, or SetupComputation and  *)
(* run_task_sequnce.  There is one classifier of a kind, and one thread of *)
(* the pool, for each of the tasks of a batch.  The pool is the TaskPool   *)
(* that ThreadPool implements, a classifier keeps the rules and answers    *)
(* with the priorities that Classifier demands.                            *)
(***************************************************************************)
EXTENDS Requests

CONSTANTS
  Classifiers,   \* how many: the value of the option t
  Trials,
  Trace          \* the packets, in the order they are classified

ASSUME SimulationAssumption ==
  /\ Classifiers \in Nat \ {0} /\ Trials \in Nat \ {0}
  /\ Trace \in Seq(Packets) /\ NumPacket <= Len(Trace)

VARIABLES
  pc,                             \* where the running thread is
  next,                           \* the request, task or future it is at
  sequence,                       \* the requests, with random_index_trace
  size,                           \* current_size of SetupComputation
  rules_in_use, available_pool,
  temp,                           \* the two temporary containers of SetupComputation
  queue, running, done, closed, gone,   \* the pool
  job,                            \* the local variables of the tasks
  ds,                             \* ds[i]: the rules of classifier i
  results

mainVars == <<pc, next, sequence, size, rules_in_use, available_pool, temp>>
poolVars == <<queue, running, done, closed, gone>>
jobVars  == <<job, ds, results>>
vars     == <<mainVars, poolVars, jobVars>>

Jobs == {"load", "classify", "update"} \X (1..Classifiers)
Pool == INSTANCE TaskPool WITH Tasks <- Jobs

Local(t, k, u, a) == [trial |-> t, at |-> k, in_use |-> u, available |-> a]

Init ==
  /\ pc \in {"load", "setup"}
  /\ next = 1
  /\ sequence = <<>> /\ size = 0
  /\ rules_in_use = <<>> /\ available_pool = <<>>
  /\ temp = Local(0, 0, <<>>, <<>>)
  /\ Pool!Init
  /\ job = [j \in Jobs |-> Local(0, 0, <<>>, <<>>)]
  /\ ds = [i \in 1..Classifiers |-> <<>>]
  /\ results = <<>>

-----------------------------------------------------------------------------
(* SetupComputation *)

Setup ==
  LET n == Cardinality(Rules)
  IN  /\ pc = "setup"
      /\ \E types \in Shuffles, shuff_rules \in SetToSeqs(Rules) :
           LET a == Adjusted(types, n \div 2)
           IN  /\ sequence' = [i \in DOMAIN types |-> [type |-> a.types[i], index |-> -1]]
               /\ size' = a.size
               /\ rules_in_use' = SubSeq(shuff_rules, 1, n \div 2)
               /\ available_pool' = SubSeq(shuff_rules, n \div 2 + 1, n)
      /\ temp' = Local(0, 0, rules_in_use', available_pool')
      /\ pc' = "indices"
      /\ UNCHANGED <<next, poolVars, jobVars>>

(* What a request does with the two containers, in SetupComputation and in *)
(* run_task_sequnce alike                                                  *)
Exchanged(l, type, i) ==
  CASE type = "Insertion" ->
         [l EXCEPT !.in_use = Append(@, PoppedRule(l.available, i)), !.available = PopRule(@, i)]
    [] type = "Deletion" ->
         [l EXCEPT !.available = Append(@, PoppedRule(l.in_use, i)), !.in_use = PopRule(@, i)]
    [] OTHER -> l

DrawIndex ==
  LET type == sequence[next].type
  IN  /\ pc = "indices" /\ next <= Len(sequence)
      /\ \E i \in Indices(type, size, Source(type, temp.in_use, temp.available)) :
           /\ sequence' = [sequence EXCEPT ![next].index = i]
           /\ temp' = IF type = "ClassifyPacket" \/ Blocked(type, size) THEN temp
                      ELSE Exchanged(temp, type, i)
      /\ next' = next + 1
      /\ UNCHANGED <<pc, size, rules_in_use, available_pool, poolVars, jobVars>>

SetupReturns ==
  /\ pc = "indices" /\ next > Len(sequence)
  /\ pc' = "update"
  /\ next' = 1
  /\ temp' = Local(0, 0, <<>>, <<>>)
  /\ UNCHANGED <<sequence, size, rules_in_use, available_pool, poolVars, jobVars>>

-----------------------------------------------------------------------------
(* One batch of tasks: pool.enqueue for each classifier, then sumTime over *)
(* the futures.  The futures of run_task_sequnce are pushed behind as many *)
(* futures without a state, and get of such a one throws.                  *)

Waiting == [load |-> "load_wait", classify |-> "classify_wait", update |-> "update_wait"]
After   == [load |-> "classify", classify |-> "returned", update |-> "returned"]

Futures(batch) ==
  LET tasks == [i \in 1..Classifiers |-> <<batch, i>>]
  IN  IF batch = "update" THEN [i \in 1..Classifiers |-> <<>>] \o tasks ELSE tasks

Enqueue(batch) ==
  /\ pc = batch
  /\ IF next <= Classifiers
     THEN Pool!Accept(<<batch, next>>) /\ next' = next + 1 /\ UNCHANGED pc
     ELSE pc' = Waiting[batch] /\ next' = 1 /\ UNCHANGED poolVars
  /\ UNCHANGED <<sequence, size, rules_in_use, available_pool, temp, jobVars>>

(* Mutant: the futures are collected, nobody waits for them. *)
GetFuture_Never(batch) ==
  /\ pc = Waiting[batch]
  /\ pc' = After[batch] /\ next' = 1
  /\ UNCHANGED <<sequence, size, rules_in_use, available_pool, temp, poolVars, jobVars>>

GetFuture(batch) ==
  /\ pc = Waiting[batch]
  /\ \/ /\ next > Len(Futures(batch))
        /\ pc' = After[batch] /\ next' = 1
     \/ /\ next <= Len(Futures(batch)) /\ Futures(batch)[next] \in done
        /\ next' = next + 1 /\ UNCHANGED pc
     \/ /\ next <= Len(Futures(batch)) /\ Futures(batch)[next] = <<>>
        /\ pc' = "threw" /\ UNCHANGED next
  /\ UNCHANGED <<sequence, size, rules_in_use, available_pool, temp, poolVars, jobVars>>

(* The simulator goes out of scope, and with it the pool *)
Destroy ==
  /\ \/ pc = "returned" /\ pc' = "joining" /\ Pool!Close
     \/ pc = "joining" /\ pc' = "end" /\ Pool!Vanish
  /\ UNCHANGED <<next, sequence, size, rules_in_use, available_pool, temp, jobVars>>

-----------------------------------------------------------------------------
(* The tasks *)

(* The answer of a classifier with the rules rs *)
Answer(rs, p) == Best(Matching(Elems(rs), p))

Start ==
  LET j == Head(queue)
  IN  /\ Cardinality(running) < Classifiers
      /\ Pool!Start
      /\ job' = [job EXCEPT ![j] =
           IF j[1] = "update" THEN Local(1, 1, rules_in_use, available_pool)
                              ELSE Local(1, 1, <<>>, <<>>)]
      /\ IF j[1] = "update" THEN ds' = [ds EXCEPT ![j[2]] = rules_in_use] ELSE UNCHANGED ds
      /\ UNCHANGED <<mainVars, results>>

Load(i) ==
  /\ Pool!Finish(<<"load", i>>)
  /\ ds' = [ds EXCEPT ![i] = SetToSeq(Rules)]
  /\ UNCHANGED <<mainVars, job, results>>

(* run_only_packet_classification: the first task clears results at the    *)
(* start of every trial                                                    *)
ClassifyOne(i) ==
  LET j == <<"classify", i>>
      at == job[j].at
  IN  /\ j \in running /\ job[j].trial <= Trials
      /\ IF at <= Len(Trace)
         THEN /\ job' = [job EXCEPT ![j].at = at + 1]
              /\ results' = IF i # 1 THEN results
                            ELSE Append(IF at = 1 THEN <<>> ELSE results, Answer(ds[i], Trace[at]))
         ELSE job' = [job EXCEPT ![j] = Local(@.trial + 1, 1, <<>>, <<>>)] /\ UNCHANGED results
      /\ UNCHANGED <<mainVars, poolVars, ds>>

(* A request of run_task_sequnce.  The guards of the code look at the      *)
(* members, which are not empty, and never skip a request.  An index past  *)
(* the end is undefined behaviour: the model stops there (see              *)
(* IndicesInRange).  random_index_trace goes to the classifier, too.       *)
InRange(l, n) ==
  n.type = "ClassifyPacket"
    \/ LET source == Source(n.type, l.in_use, l.available)
       IN  source # <<>> => n.index \in 0..(Len(source) - 1)

Performed(rs, l, n) ==
  CASE n.type = "Insertion" -> Append(rs, PoppedRule(l.available, n.index))
    [] n.type = "Deletion"  -> IF rs = <<>> THEN rs ELSE SwapRemove(rs, n.index + 1)
    [] OTHER -> rs

(* How many packets were classified before this request of the trial *)
PacketCounter(at) == Cardinality({k \in 1..(at - 1) : sequence[k].type = "ClassifyPacket"})

Request(i) ==
  LET j == <<"update", i>>
      l == job[j]
      n == sequence[l.at]
      p == Trace[(PacketCounter(l.at) % Len(Trace)) + 1]
  IN  /\ j \in running /\ l.trial <= Trials
      /\ IF l.at <= Len(sequence)
         THEN /\ InRange(l, n)
              /\ job' = [job EXCEPT ![j] = [Exchanged(l, n.type, n.index) EXCEPT !.at = @ + 1]]
              /\ ds' = [ds EXCEPT ![i] = Performed(@, l, n)]
              /\ results' = IF i = 1 /\ l.trial = 1 /\ n.type = "ClassifyPacket"
                            THEN Append(results, Answer(ds[i], p)) ELSE results
         ELSE /\ job' = [job EXCEPT ![j].trial = @ + 1, ![j].at = 1]
              /\ UNCHANGED <<ds, results>>
      /\ UNCHANGED <<mainVars, poolVars>>

FinishTask(j) ==
  /\ j[1] # "load" /\ job[j].trial > Trials
  /\ Pool!Finish(j)
  /\ UNCHANGED <<mainVars, jobVars>>

-----------------------------------------------------------------------------
Main == Setup \/ DrawIndex \/ SetupReturns \/ Destroy
          \/ \E batch \in DOMAIN After : Enqueue(batch) \/ GetFuture(batch)

Next ==
  \/ Main \/ Start
  \/ \E i \in 1..Classifiers : Load(i) \/ ClassifyOne(i) \/ Request(i)
  \/ \E j \in Jobs : FinishTask(j)

Spec == Init /\ [][Next]_vars

-----------------------------------------------------------------------------
(* What the benchmark's numbers and answers rest on                        *)

Updating == {j \in running : j[1] = "update" /\ job[j].trial <= Trials}

(* A sequence with as many insertions as deletions, as main asks for, can  *)
(* be replayed: in every trial - the containers are not reset between them *)
(* - each recorded index is one of the container it is used on.            *)
IndicesInRange ==
  \A j \in Updating :
    job[j].at <= Len(sequence) /\ sequence[job[j].at].type # "ClassifyPacket" =>
      sequence[job[j].at].index
        \in 0..(Len(Source(sequence[job[j].at].type, job[j].in_use, job[j].available)) - 1)

(* At all time, DS.rules = rules_in_use.rules (the comment of              *)
(* run_task_sequnce): the classifier and the Bookkeeper have the same      *)
(* rules at the same indices, and no rule is lost between the containers.  *)
InStep ==
  \A j \in Updating :
    /\ ds[j[2]] = job[j].in_use
    /\ NoDuplicates(job[j].in_use \o job[j].available)
    /\ Elems(job[j].in_use \o job[j].available) = Rules

(* When a classification run returns, each packet was answered once, from  *)
(* a classifier that had been constructed before, and no task that holds   *)
(* a reference to results is left.                                         *)
ResultsComplete ==
  pc = "returned" =>
    /\ queue = <<>> /\ running = {}
    /\ results = [k \in DOMAIN Trace |-> Best(Matching(Rules, Trace[k]))]

(* "Wait for all tasks in the pool to complete": sumTime is left, by       *)
(* return or by exception, only when every task enqueued has finished.     *)
WaitsForTasks ==
  pc \in {"returned", "threw"} => queue = <<>> /\ running = {}
=============================================================================
