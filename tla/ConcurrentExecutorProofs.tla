----------------------- MODULE ConcurrentExecutorProofs -----------------------
(* Theorems about ConcurrentExecutor, for every number of tasks, threads,    *)
(* connections and ticks.                                                    *)
EXTENDS ConcurrentExecutor, FiniteSetTheorems, SequenceTheorems, WellFoundedInduction, TLAPS

USE ExecutorConstants

Ok == {t \in Tasks : status[t] = "ok"}
Failed == {t \in Tasks : status[t] = "error"}

(* Sets of tasks are finite, and no larger than the bound.                   *)
LEMMA TaskSets ==
  /\ IsFiniteSet(Tasks)
  /\ Cardinality(Tasks) = MaxTasks
  /\ \A S \in SUBSET Tasks : IsFiniteSet(S) /\ Cardinality(S) \in 0..MaxTasks
<1>1. IsFiniteSet(Tasks) /\ Cardinality(Tasks) = MaxTasks
  BY FS_Interval DEF Tasks
<1>2. ASSUME NEW S \in SUBSET Tasks
      PROVE  IsFiniteSet(S) /\ Cardinality(S) \in 0..MaxTasks
  BY <1>1, FS_Subset, FS_CardinalityType
<1>. QED
  BY <1>1, <1>2

(* What a sequence holds after one more element is appended.                 *)
LEMMA RangeAppend ==
  ASSUME NEW S, NEW s \in Seq(S), NEW e \in S
  PROVE  Range(Append(s, e)) = Range(s) \union {e}
<1>1. DOMAIN s = 1..Len(s) /\ DOMAIN Append(s, e) = 1..(Len(s) + 1)
  BY LenProperties, AppendProperties
<1>. QED
  BY <1>1, AppendProperties DEF Range

-----------------------------------------------------------------------------
(* The counts.  While the calling thread collects, its counts are those of   *)
(* the futures it has seen, and a future it has seen is done and stays done. *)

Counted ==
  /\ collected \subseteq Done
  /\ result.succeeded = Cardinality(collected \cap Ok)
  /\ result.failed = Cardinality(collected \cap Failed)
  /\ Range(result.results) = collected \cap Ok
  /\ Len(result.results) = result.succeeded

(* The total is known in advance for a batch, and counted for a workload.    *)
Totalled ==
  /\ mode = "batch" => result.total = size /\ Cardinality(Submitted) <= size
  /\ mode = "batch" /\ caller \in {"collecting", "returned"} => Cardinality(Submitted) = size
  /\ mode # "batch" => result.total = Cardinality(collected)

(* Where the calling thread is, and what that says of the tasks.             *)
Placed ==
  /\ caller = "submitting" => collected = {}
  /\ caller = "returned" => collected = Submitted
  /\ caller \in {"returned", "raised"} => Done = Submitted

ExecutorInv == TypeOK /\ Counted /\ Totalled /\ Placed

LEMMA InitExecutor == Init => ExecutorInv
<1> SUFFICES ASSUME Init PROVE ExecutorInv
  OBVIOUS
<1>1. Done = {} /\ Submitted = {} /\ Cardinality({}) = 0
  BY FS_EmptySet DEF Init, Done, Submitted
<1>2. <<>> \in Seq(Tasks) /\ Len(<<>>) = 0 /\ Range(<<>>) = {}
  BY DEF Range
<1>3. collected = {} /\ caller = "submitting" /\ size \in 0..MaxTasks
  BY DEF Init
<1>4. /\ result.total = (IF mode = "batch" THEN size ELSE 0)
      /\ result.succeeded = 0 /\ result.failed = 0
      /\ result.results = <<>> /\ result.errors = <<>>
  BY DEF Init
<1>5. result \in [total : 0..MaxTasks, succeeded : 0..MaxTasks, failed : 0..MaxTasks,
                  results : Seq(Tasks), errors : Seq(Tasks)]
  BY <1>2, <1>3 DEF Init
<1>6. TypeOK
  BY <1>3, <1>5 DEF Init, TypeOK
<1>7. Counted
  BY <1>1, <1>2, <1>3, <1>4 DEF Counted
<1>8. Totalled /\ Placed
  BY <1>1, <1>3, <1>4 DEF Totalled, Placed
<1>. QED
  BY <1>6, <1>7, <1>8 DEF ExecutorInv

(* A step of the pool's threads: done tasks keep their outcome, no task is   *)
(* submitted, and the calling thread stays where it is.                      *)
LEMMA ThreadStep ==
  ASSUME ExecutorInv, NEW t \in Tasks, NEW s \in {"waiting", "querying", "ok", "error"},
         status[t] \in {"queued", "waiting", "querying"}, Advance(t, s),
         since' \in [Tasks -> 0..MaxTime]
  PROVE  ExecutorInv'
<1>. USE DEF ExecutorInv
<1>1. TypeOK'
  BY DEF TypeOK, Advance
<1>2. /\ Submitted' = Submitted
      /\ collected \cap Ok' = collected \cap Ok
      /\ collected \cap Failed' = collected \cap Failed
      /\ Done \subseteq Done'
  BY DEF Advance, TypeOK, Submitted, Done, Ok, Failed, Counted
<1>3. caller \notin {"returned", "raised"}
  BY DEF Placed, Done, Submitted
<1>4. Counted'
  BY <1>2 DEF Counted, Advance
<1>5. Totalled' /\ Placed'
  BY <1>2, <1>3 DEF Totalled, Placed, Advance
<1>. QED
  BY <1>1, <1>4, <1>5

LEMMA SubmitStep == ExecutorInv /\ Submit => ExecutorInv'
<1> SUFFICES ASSUME ExecutorInv, Submit PROVE ExecutorInv'
  OBVIOUS
<1>. USE DEF ExecutorInv
<1>1. PICK t \in Tasks : status[t] = "new" /\ status' = [status EXCEPT ![t] = "queued"]
  BY DEF Submit
<1>2. TypeOK'
  BY <1>1 DEF Submit, TypeOK
<1>3. Submitted' = Submitted \union {t} /\ t \notin Submitted
      /\ Ok' = Ok /\ Failed' = Failed /\ Done' = Done
  BY <1>1 DEF TypeOK, Submitted, Ok, Failed, Done
<1>4. Cardinality(Submitted') = Cardinality(Submitted) + 1 /\ Cardinality(Submitted) \in Nat
  <2>1. IsFiniteSet(Submitted) /\ Cardinality(Submitted) \in Nat
    BY TaskSets DEF Submitted
  <2>2. Cardinality(Submitted \union {t}) = Cardinality(Submitted) + 1
    BY <1>3, <2>1, FS_AddElement
  <2>. QED
    BY <1>3, <2>1, <2>2
<1>5. Totalled'
  BY <1>4 DEF Submit, MoreToSubmit, Totalled, TypeOK
<1>6. Counted' /\ Placed'
  BY <1>3 DEF Submit, Counted, Placed
<1>. QED
  BY <1>2, <1>5, <1>6

LEMMA CollectStep == ExecutorInv /\ Collect => ExecutorInv'
<1> SUFFICES ASSUME ExecutorInv, Collect PROVE ExecutorInv'
  OBVIOUS
<1>. USE DEF ExecutorInv
<1>1. PICK t \in Done \ collected : collected' = collected \union {t} /\ result' = Tally(t)
  BY DEF Collect
<1>2. t \in Tasks /\ status[t] \in {"ok", "error"} /\ (t \in Ok <=> status[t] = "ok")
      /\ (t \in Failed <=> status[t] = "error")
  BY DEF Done, Ok, Failed
<1>3. UNCHANGED <<mode, size, caller, now, status, since>>
  BY DEF Collect, tasks
<1>4. Ok' = Ok /\ Failed' = Failed /\ Submitted' = Submitted /\ Done' = Done
  BY <1>3 DEF Ok, Failed, Submitted, Done
<1>5. collected \subseteq Tasks /\ collected' \subseteq Tasks /\ t \notin collected
  BY <1>1, <1>2 DEF TypeOK
<1>6. /\ result.total \in 0..MaxTasks /\ result.succeeded \in 0..MaxTasks
      /\ result.failed \in 0..MaxTasks
      /\ result.results \in Seq(Tasks) /\ result.errors \in Seq(Tasks)
  BY DEF TypeOK
<1>7. Cardinality(collected') = Cardinality(collected) + 1
      /\ Cardinality(collected) \in Nat /\ Cardinality(collected') \in 0..MaxTasks
  BY <1>1, <1>5, TaskSets, FS_AddElement
<1>8. /\ result'.succeeded = Cardinality(collected' \cap Ok)
      /\ result'.failed = Cardinality(collected' \cap Failed)
  <2>1. CASE status[t] = "ok"
    <3>1. collected' \cap Ok = (collected \cap Ok) \union {t}
          /\ collected' \cap Failed = collected \cap Failed /\ t \notin collected \cap Ok
      BY <1>1, <1>2, <1>5, <2>1 DEF Failed
    <3>2. Cardinality(collected' \cap Ok) = Cardinality(collected \cap Ok) + 1
      BY <3>1, <1>5, TaskSets, FS_AddElement
    <3>3. result'.succeeded = result.succeeded + 1 /\ result'.failed = result.failed
      BY <1>1, <1>6, <2>1 DEF Tally
    <3>. QED
      BY <3>1, <3>2, <3>3 DEF Counted
  <2>2. CASE status[t] = "error"
    <3>1. collected' \cap Failed = (collected \cap Failed) \union {t}
          /\ collected' \cap Ok = collected \cap Ok /\ t \notin collected \cap Failed
      BY <1>1, <1>2, <1>5, <2>2 DEF Ok
    <3>2. Cardinality(collected' \cap Failed) = Cardinality(collected \cap Failed) + 1
      BY <3>1, <1>5, TaskSets, FS_AddElement
    <3>3. result'.succeeded = result.succeeded /\ result'.failed = result.failed + 1
      BY <1>1, <1>6, <2>2 DEF Tally
    <3>. QED
      BY <3>1, <3>2, <3>3 DEF Counted
  <2>. QED
    BY <1>2, <2>1, <2>2
<1>9. /\ result'.results \in Seq(Tasks) /\ result'.errors \in Seq(Tasks)
      /\ Range(result'.results) = collected' \cap Ok
      /\ Len(result'.results) = result'.succeeded
  <2>1. CASE status[t] = "ok"
    <3>1. result'.results = Append(result.results, t) /\ result'.errors = result.errors
          /\ result'.succeeded = result.succeeded + 1
      BY <1>1, <2>1 DEF Tally
    <3>. QED
      BY <3>1, <1>1, <1>2, <1>6, <2>1, RangeAppend, AppendProperties DEF Counted
  <2>2. CASE status[t] = "error"
    <3>1. result'.results = result.results /\ result'.succeeded = result.succeeded
          /\ result'.errors \in {result.errors, Append(result.errors, t)}
      BY <1>1, <1>6, <2>2 DEF Tally
    <3>2. Append(result.errors, t) \in Seq(Tasks)
      BY <1>2, <1>6, AppendProperties
    <3>3. collected' \cap Ok = collected \cap Ok
      BY <1>1, <2>2 DEF Ok
    <3>. QED
      BY <3>1, <3>2, <3>3, <1>6 DEF Counted
  <2>. QED
    BY <1>2, <2>1, <2>2
<1>10. /\ result'.total = (IF mode = "batch" THEN result.total ELSE result.total + 1)
       /\ result'.total \in 0..MaxTasks
  <2>1. result'.total = (IF mode = "batch" THEN result.total ELSE result.total + 1)
    BY <1>1 DEF Tally, Total
  <2>. QED
    BY <2>1, <1>6, <1>7 DEF Totalled
<1>11. result'.succeeded \in 0..MaxTasks /\ result'.failed \in 0..MaxTasks
  BY <1>5, <1>8, TaskSets
<1>12. result' = [total |-> result'.total, succeeded |-> result'.succeeded,
                  failed |-> result'.failed, results |-> result'.results,
                  errors |-> result'.errors]
  BY <1>1 DEF Tally
<1>13. result' \in [total : 0..MaxTasks, succeeded : 0..MaxTasks, failed : 0..MaxTasks,
                    results : Seq(Tasks), errors : Seq(Tasks)]
  BY <1>9, <1>10, <1>11, <1>12
<1>14. TypeOK'
  BY <1>3, <1>5, <1>13 DEF TypeOK
<1>15. Counted'
  BY <1>1, <1>4, <1>8, <1>9 DEF Counted
<1>16. Totalled' /\ Placed'
  BY <1>3, <1>4, <1>7, <1>10 DEF Totalled, Placed, Collect
<1>. QED
  BY <1>14, <1>15, <1>16

LEMMA NextExecutor == ExecutorInv /\ [Next]_vars => ExecutorInv'
<1> SUFFICES ASSUME ExecutorInv, [Next]_vars PROVE ExecutorInv'
  OBVIOUS
<1>. USE DEF ExecutorInv
<1>1. CASE UNCHANGED vars
  BY <1>1 DEF vars, tasks, TypeOK, Counted, Totalled, Placed, Ok, Failed, Done, Submitted
<1>2. CASE Tick
  BY <1>2 DEF Tick, tasks, TypeOK, Counted, Totalled, Placed, Ok, Failed, Done, Submitted
<1>3. CASE Submit
  BY <1>3, SubmitStep
<1>4. CASE Collect
  BY <1>4, CollectStep
<1>5. CASE NoQueries \/ StopSubmitting \/ Return \/ Unwound \/ Interrupt
  <2>. USE DEF NoQueries, StopSubmitting, Return, Unwound, Interrupt, tasks
  <2>1. TypeOK'
    BY <1>5 DEF TypeOK
  <2>2. Ok' = Ok /\ Failed' = Failed /\ Done' = Done /\ Submitted' = Submitted
    BY <1>5 DEF Ok, Failed, Done, Submitted
  <2>3. Counted'
    BY <1>5, <2>2 DEF Counted
  <2>4. Totalled'
    <3>1. Cardinality(Submitted) \in Nat /\ size \in Nat
      BY TaskSets DEF Submitted, TypeOK
    <3>. QED
      BY <1>5, <2>2, <3>1 DEF Totalled, MoreToSubmit
  <2>5. Placed'
    BY <1>5, <2>2 DEF Placed, Yielded, ShutDown, Counted, Done, Submitted
  <2>. QED
    BY <2>1, <2>3, <2>4, <2>5
<1>6. ASSUME NEW t \in Tasks, Start(t) \/ Acquire(t) \/ Refuse(t) \/ Answer(t)
      PROVE  ExecutorInv'
  <2>1. PICK s \in {"waiting", "querying", "ok", "error"} : Advance(t, s)
    BY <1>6 DEF Start, Acquire, Refuse, Answer
  <2>2. status[t] \in {"queued", "waiting", "querying"} /\ since' \in [Tasks -> 0..MaxTime]
    BY <1>6 DEF Start, ThreadTakes, Acquire, Refuse, Answer, TypeOK
  <2>. QED
    BY <2>1, <2>2, ThreadStep
<1>. QED
  BY <1>1, <1>2, <1>3, <1>4, <1>5, <1>6 DEF Next, Caller

LEMMA ExecutorInvariant == Spec => []ExecutorInv
BY InitExecutor, NextExecutor, PTL DEF Spec

(* The result record of every call keeps its shape and its counts in range.  *)
THEOREM ExecutorTypeCorrect == Spec => []TypeOK
<1>1. ExecutorInv => TypeOK
  BY DEF ExecutorInv
<1>. QED
  BY <1>1, ExecutorInvariant, PTL

(* A call that returns has counted each task it submitted once, with its     *)
(* outcome: executor.py's loops over as_completed and the total they report. *)
THEOREM EveryTaskIsAccountedFor == Spec => []AllAccountedFor
<1>1. ExecutorInv => AllAccountedFor
  <2> SUFFICES ASSUME ExecutorInv, caller = "returned" PROVE AllAccountedFor
    BY DEF AllAccountedFor
  <2>1. collected = Submitted
    BY DEF ExecutorInv, Placed
  <2>2. collected \cap Ok = Ok /\ collected \cap Failed = Failed
    BY <2>1 DEF Submitted, Ok, Failed
  <2>3. result.total = Cardinality(Submitted)
    BY <2>1 DEF ExecutorInv, Totalled, TypeOK
  <2>. QED
    BY <2>2, <2>3 DEF ExecutorInv, Counted, AllAccountedFor, Ok, Failed
<1>. QED
  BY <1>1, ExecutorInvariant, PTL

-----------------------------------------------------------------------------
(* Connections.  The threads are no more than max_workers.                   *)

WorkersBounded == Cardinality(Busy) <= MaxWorkers

LEMMA NextWorkers ==
  ExecutorInv /\ ExecutorInv' /\ WorkersBounded /\ [Next]_vars => WorkersBounded'
<1> SUFFICES ASSUME ExecutorInv, ExecutorInv', Cardinality(Busy) <= MaxWorkers, [Next]_vars
             PROVE  Cardinality(Busy') <= MaxWorkers
  BY DEF WorkersBounded
<1>1. TypeOK /\ TypeOK'
  BY DEF ExecutorInv
<1>2. IsFiniteSet(Busy) /\ Cardinality(Busy) \in Nat
  BY TaskSets DEF Busy
<1>3. CASE Busy' \subseteq Busy
  BY <1>2, <1>3, FS_Subset, FS_CardinalityType
<1>4. ASSUME NEW t \in Tasks, Start(t) PROVE Cardinality(Busy') <= MaxWorkers
  <2>1. Busy' = Busy \union {t} /\ Cardinality(Busy) < MaxWorkers
    BY <1>1, <1>4 DEF Start, ThreadTakes, Advance, TypeOK, Busy
  <2>. QED
    BY <1>2, <2>1, FS_AddElement
<1>5. ASSUME NEW t \in Tasks, Acquire(t) \/ Refuse(t) \/ Answer(t)
      PROVE  Busy' \subseteq Busy
  BY <1>1, <1>5 DEF Acquire, Refuse, Answer, Advance, TypeOK, Busy
<1>6. CASE Submit
  BY <1>1, <1>3, <1>6 DEF Submit, TypeOK, Busy
<1>7. CASE UNCHANGED status
  BY <1>3, <1>7 DEF Busy
<1>8. UNCHANGED vars \/ Tick \/ NoQueries \/ StopSubmitting \/ Collect \/ Return \/ Unwound
        \/ Interrupt => UNCHANGED status
  BY DEF vars, tasks, Tick, NoQueries, StopSubmitting, Collect, Return, Unwound, Interrupt
<1>. QED
  BY <1>3, <1>4, <1>5, <1>6, <1>7, <1>8 DEF Next, Caller

(* While the connections of the driver are used up, at most the workers     *)
(* above the pool's size wait for one: run_workload's max_workers against   *)
(* max_connection_pool_size.                                                *)
THEOREM QueriesFindConnections == Spec => []ConnectionsSuffice
<1>1. Init => WorkersBounded
  <2> SUFFICES ASSUME Init PROVE Busy = {} /\ Cardinality({}) = 0
    BY DEF WorkersBounded
  <2>. QED
    BY FS_EmptySet DEF Init, Busy
<1>2. ExecutorInv /\ WorkersBounded => ConnectionsSuffice
  <2> SUFFICES ASSUME ExecutorInv, Cardinality(Busy) <= MaxWorkers,
                      Cardinality(Querying) >= PoolSize
               PROVE  Cardinality(Waiting) <= MaxWorkers - PoolSize
    BY DEF ConnectionsSuffice, WorkersBounded
  <2>1. Busy = Querying \union Waiting /\ Querying \cap Waiting = {}
    BY DEF Busy, Querying, Waiting
  <2>2. /\ IsFiniteSet(Querying) /\ IsFiniteSet(Waiting) /\ IsFiniteSet(Busy)
        /\ Cardinality(Querying) \in Nat /\ Cardinality(Waiting) \in Nat
        /\ Cardinality(Busy) \in Nat
    BY TaskSets DEF Querying, Waiting, Busy
  <2>3. Cardinality(Busy) = Cardinality(Querying) + Cardinality(Waiting)
    <3>1. Cardinality(Querying \union Waiting) =
            Cardinality(Querying) + Cardinality(Waiting) - Cardinality(Querying \cap Waiting)
      BY <2>2, FS_Union
    <3>2. Cardinality(Querying \cap Waiting) = 0
      BY <2>1, FS_EmptySet
    <3>. QED
      BY <2>1, <2>2, <3>1, <3>2
  <2>. QED
    BY <2>2, <2>3
<1>. QED
  BY <1>1, <1>2, NextWorkers, ExecutorInvariant, PTL DEF Spec

-----------------------------------------------------------------------------
(* Waiting.  Of the tasks in the queue, one is at its head.                  *)

LEMMA HeadOfQueue ==
  ASSUME NEW T \in SUBSET Nat, T # {}
  PROVE  \E t \in T : \A u \in T : t <= u
<1> DEFINE Below == {p \in Nat \X Nat : p[1] < p[2]}
<1>1. IsWellFoundedOn(Below, Nat)
  BY NatLessThanWellFounded DEF OpToRel
<1>2. PICK t \in T : \A u \in T : ~(<<u, t>> \in Below)
  <2> HIDE DEF Below
  <2>. QED
    BY <1>1, WFMin
<1>3. \A u, v \in Nat : u < v => <<u, v>> \in Below
  BY DEF Below
<1> HIDE DEF Below
<1>4. \A u \in T : ~(u < t)
  BY <1>2, <1>3
<1>. QED
  BY <1>4

(* Somebody moves while a submitted task is not done: a query under way, or  *)
(* one that finds all connections free, or, with all threads idle, the task  *)
(* at the head of the queue.                                                 *)
LEMMA TasksMove ==
  ASSUME TypeOK, Done # Submitted
  PROVE  \E t \in Tasks : TaskCanMove(t)
<1>1. CASE Querying # {}
  BY <1>1 DEF Querying, TaskCanMove
<1>2. ASSUME Querying = {}, Busy # {} PROVE \E t \in Tasks : TaskCanMove(t)
  <2>1. PICK t \in Tasks : status[t] = "waiting"
    BY <1>2 DEF Querying, Busy
  <2>2. Cardinality(Querying) < PoolSize
    BY <1>2, FS_EmptySet
  <2>. QED
    BY <2>1, <2>2 DEF TaskCanMove
<1>3. ASSUME Busy = {} PROVE \E t \in Tasks : TaskCanMove(t)
  <2> DEFINE Queue == {t \in Tasks : status[t] = "queued"}
  <2>1. Queue # {}
    BY <1>3 DEF Done, Submitted, Busy, TypeOK
  <2>2. Queue \in SUBSET Nat
    BY DEF Tasks
  <2>3. PICK t \in Queue : \A u \in Queue : t <= u
    <3> HIDE DEF Queue
    <3>. QED
      BY <2>1, <2>2, HeadOfQueue
  <2>4. \A u \in 1..(t - 1) : status[u] # "queued"
    BY <2>3 DEF Tasks
  <2>5. Cardinality(Busy) < MaxWorkers
    BY <1>3, FS_EmptySet
  <2>. QED
    BY <2>3, <2>4, <2>5 DEF ThreadTakes, TaskCanMove
<1>. QED
  BY <1>1, <1>2, <1>3

(* A call never hangs on its own threads and connections, however few they   *)
(* are: as_completed and shutdown(wait=True) wait for tasks that can move.   *)
THEOREM CallsDoNotHang == Spec => []NoCallHangs
<1>1. ExecutorInv => NoCallHangs
  <2> SUFFICES ASSUME ExecutorInv, caller \in {"collecting", "unwinding"}, ~CallerCanMove
               PROVE  \E t \in Tasks : TaskCanMove(t)
    BY DEF NoCallHangs
  <2>1. Done # Submitted
    BY DEF ExecutorInv, Counted, CallerCanMove, Yielded, ShutDown
  <2>. QED
    BY <2>1, TasksMove DEF ExecutorInv
<1>. QED
  BY <1>1, ExecutorInvariant, PTL

-----------------------------------------------------------------------------
(* Refinement.  Every step of the call is a step of TaskBatch, or none.      *)

outcomeBar == [t \in Tasks |-> Outcome(status[t])]
endedBar == IF caller \in {"returned", "raised"} THEN caller ELSE "no"

(* Both modules count with the Cardinality of FiniteSets.                    *)
LEMMA SameCardinality == ASSUME NEW S PROVE Batch!Cardinality(S) = Cardinality(S)
BY DEF Batch!Cardinality, Cardinality

LEMMA BatchInit == Init => Batch!Init
BY DEF Init, Batch!Init, Outcome, Returned

(* A step that leaves every task's outcome, and does not end the call.       *)
LEMMA BatchStutter ==
  ASSUME \A t \in Tasks : Outcome(status[t])' = Outcome(status[t]),
         (caller' = caller /\ result' = result) \/ caller \notin {"returned", "raised"},
         caller' = caller \/ caller' \notin {"returned", "raised"}
  PROVE  UNCHANGED Batch!vars
BY DEF Batch!vars, Returned

(* A thread's step: it may complete its task.                                *)
LEMMA BatchThread ==
  ASSUME ExecutorInv, NEW t \in Tasks, NEW s \in {"waiting", "querying", "ok", "error"},
         status[t] \in {"queued", "waiting", "querying"}, Advance(t, s)
  PROVE  [Batch!Next]_(Batch!vars)
<1>1. caller \notin {"returned", "raised"} /\ caller' = caller /\ result' = result
  BY DEF ExecutorInv, Placed, Done, Submitted, Advance
<1>2. status' = [status EXCEPT ![t] = s] /\ status \in [Tasks -> {"new", "queued", "waiting", "querying", "ok", "error"}]
  BY DEF ExecutorInv, TypeOK, Advance
<1>3. CASE s \in {"waiting", "querying"}
  <2>1. \A u \in Tasks : Outcome(status[u])' = Outcome(status[u])
    BY <1>2, <1>3 DEF Outcome
  <2>. QED
    BY <1>1, <2>1, BatchStutter
<1>4. CASE s \in {"ok", "error"}
  <2>1. outcomeBar[t] = "pending"
    BY DEF outcomeBar, Outcome
  <2>2. outcomeBar' = [outcomeBar EXCEPT ![t] = s]
    BY <1>2, <1>4 DEF outcomeBar, Outcome
  <2>3. Batch!Complete(t)
    BY <1>1, <1>4, <2>1, <2>2 DEF Batch!Complete, outcomeBar, Returned
  <2>. QED
    BY <2>3 DEF Batch!Next
<1>. QED
  BY <1>3, <1>4

LEMMA BatchNext == ExecutorInv /\ ExecutorInv' /\ [Next]_vars => [Batch!Next]_(Batch!vars)
<1> SUFFICES ASSUME ExecutorInv, ExecutorInv', [Next]_vars PROVE [Batch!Next]_(Batch!vars)
  OBVIOUS
<1>1. CASE UNCHANGED vars \/ Tick \/ StopSubmitting \/ Interrupt \/ Collect
  <2>1. UNCHANGED status
    BY <1>1 DEF vars, tasks, Tick, StopSubmitting, Interrupt, Collect
  <2>2. (caller' = caller /\ result' = result) \/ caller \notin {"returned", "raised"}
    BY <1>1 DEF vars, Tick, StopSubmitting, Interrupt, Collect
  <2>3. caller' = caller \/ caller' \notin {"returned", "raised"}
    BY <1>1 DEF vars, Tick, StopSubmitting, Interrupt, Collect
  <2>. QED
    BY <2>1, <2>2, <2>3, BatchStutter DEF Outcome
<1>2. CASE Submit
  <2>1. PICK t \in Tasks : status[t] = "new" /\ status' = [status EXCEPT ![t] = "queued"]
    BY <1>2 DEF Submit
  <2>2. caller = "submitting" /\ caller' = caller /\ result' = result
    BY <1>2 DEF Submit
  <2>3. outcomeBar[t] = "none" /\ outcomeBar' = [outcomeBar EXCEPT ![t] = "pending"]
    BY <2>1 DEF outcomeBar, Outcome, ExecutorInv, TypeOK
  <2>4. Batch!Issue(t)
    BY <2>2, <2>3 DEF Batch!Issue, outcomeBar, Returned
  <2>. QED
    BY <2>4 DEF Batch!Next
<1>3. CASE Return \/ NoQueries
  <2>1. /\ UNCHANGED <<status, result>>
        /\ caller \notin {"returned", "raised"} /\ caller' = "returned"
    BY <1>3 DEF Return, NoQueries, tasks
  <2>2. AllAccountedFor'
    <3>1. collected' = Submitted'
      BY <2>1 DEF ExecutorInv, Placed
    <3>2. collected' \cap Ok' = Ok' /\ collected' \cap Failed' = Failed'
      BY <3>1 DEF Submitted, Ok, Failed
    <3>3. result'.total = Cardinality(Submitted')
      BY <2>1, <3>1 DEF ExecutorInv, Totalled, TypeOK
    <3>. QED
      BY <3>2, <3>3 DEF ExecutorInv, Counted, AllAccountedFor, Ok, Failed
  <2>3. /\ result'.succeeded = Cardinality({t \in Tasks : status'[t] = "ok"})
        /\ result'.failed = Cardinality({t \in Tasks : status'[t] = "error"})
    BY <2>1, <2>2 DEF AllAccountedFor
  <2>4. \A t \in Tasks : Outcome(status[t]) # "pending"
    BY <2>1 DEF ExecutorInv, Placed, Done, Submitted, Outcome
  <2>5. Batch!WithOutcome("ok") = {t \in Tasks : status[t] = "ok"}
        /\ Batch!WithOutcome("error") = {t \in Tasks : status[t] = "error"}
    BY DEF Batch!WithOutcome, Outcome, ExecutorInv, TypeOK
  <2>6. Batch!NonePending
    BY <2>4 DEF Batch!NonePending, Batch!WithOutcome
  <2>7. Batch!Report
    BY <2>1, <2>3, <2>5, <2>6, SameCardinality DEF Batch!Report, Returned, Outcome
  <2>. QED
    BY <2>7 DEF Batch!Next
<1>4. CASE Unwound
  <2>1. UNCHANGED <<status, result>> /\ caller = "unwinding" /\ caller' = "raised"
    BY <1>4 DEF Unwound, tasks
  <2>2. Batch!NonePending
    BY <2>1 DEF ExecutorInv, Placed, Done, Submitted, Outcome, Batch!NonePending, Batch!WithOutcome
  <2>3. Batch!Raise
    BY <2>1, <2>2 DEF Batch!Raise, Returned, Outcome
  <2>. QED
    BY <2>3 DEF Batch!Next
<1>5. ASSUME NEW t \in Tasks, Start(t) \/ Acquire(t) \/ Refuse(t) \/ Answer(t)
      PROVE  [Batch!Next]_(Batch!vars)
  <2>1. PICK s \in {"waiting", "querying", "ok", "error"} : Advance(t, s)
    BY <1>5 DEF Start, Acquire, Refuse, Answer
  <2>2. status[t] \in {"queued", "waiting", "querying"}
    BY <1>5 DEF Start, ThreadTakes, Acquire, Refuse, Answer
  <2>. QED
    BY <2>1, <2>2, BatchThread
<1>. QED
  BY <1>1, <1>2, <1>3, <1>4, <1>5 DEF Next, Caller

(* The thread pool, the loop over as_completed and the interrupted call      *)
(* implement the promise TaskBatch states, up to fairness.                   *)
THEOREM ExecutorImplementsBatch == Spec => ImplementsBatchSafely
BY BatchInit, BatchNext, ExecutorInvariant, PTL DEF Spec, ImplementsBatchSafely, Batch!SafeSpec

=============================================================================
