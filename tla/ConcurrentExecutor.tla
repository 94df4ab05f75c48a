-------------------------- MODULE ConcurrentExecutor --------------------------
(***************************************************************************)
(* One call of ConcurrentExecutor (run_same_query, run_parameterized or    *)
(* run_workload) or of run_throughput_workload: the calling thread, the    *)
(* threads of its ThreadPoolExecutor and the connections of the driver of  *)
(* the BoltClient they share.  Every call has a pool of its own.           *)
(***************************************************************************)
EXTENDS Integers, FiniteSets, Sequences, Functions

CONSTANTS
  MaxTasks,      (* Bound: tasks one call submits.                          *)
  MaxWorkers,    (* max_workers of the ThreadPoolExecutor.                  *)
  PoolSize,      (* max_connection_pool_size of the driver.                 *)
  Duration,      (* duration_secs of a workload.                            *)
  QueryTimeout,  (* timeout_secs of the BoltClient.                         *)
  MaxTime        (* Bound: the clock.                                       *)

ASSUME ExecutorConstants ==
  /\ MaxTasks \in Nat
  /\ MaxWorkers \in Nat \ {0}
  /\ PoolSize \in Nat \ {0}
  /\ Duration \in Nat
  /\ QueryTimeout \in Nat
  /\ MaxTime \in Nat /\ Duration <= MaxTime

Tasks == 1..MaxTasks

VARIABLES
  mode,          (* "batch", "workload" or "throughput".                    *)
  size,          (* Tasks of a batch.                                       *)
  caller,        (* Where the calling thread is.                            *)
  now,           (* time.time() since start_time.                           *)
  status,        (* Where each task is.                                     *)
  since,         (* When its query was sent.                                *)
  collected,     (* Futures as_completed has yielded.                       *)
  result         (* The ConcurrentResult or ThroughputResult.               *)

tasks == <<status, since>>
vars == <<mode, size, caller, now, tasks, collected, result>>

Done == {t \in Tasks : status[t] \in {"ok", "error"}}
Submitted == {t \in Tasks : status[t] # "new"}
Busy == {t \in Tasks : status[t] \in {"waiting", "querying"}}
Waiting == {t \in Tasks : status[t] = "waiting"}
Querying == {t \in Tasks : status[t] = "querying"}

TypeOK ==
  /\ mode \in {"batch", "workload", "throughput"}
  /\ size \in 0..MaxTasks
  /\ caller \in {"submitting", "collecting", "unwinding", "returned", "raised"}
  /\ now \in 0..MaxTime
  /\ status \in [Tasks -> {"new", "queued", "waiting", "querying", "ok", "error"}]
  /\ since \in [Tasks -> 0..MaxTime]
  /\ collected \subseteq Tasks
  /\ result \in [total : 0..MaxTasks, succeeded : 0..MaxTasks, failed : 0..MaxTasks,
                 results : Seq(Tasks), errors : Seq(Tasks)]

-----------------------------------------------------------------------------
Init ==
  /\ mode \in {"batch", "workload", "throughput"}
  /\ size \in 0..(IF mode = "batch" THEN MaxTasks ELSE 0)
  /\ caller = "submitting"
  /\ now = 0
  /\ status = [t \in Tasks |-> "new"]
  /\ since = [t \in Tasks |-> 0]
  /\ collected = {}
  /\ result = [total |-> IF mode = "batch" THEN size ELSE 0,
               succeeded |-> 0, failed |-> 0, results |-> <<>>, errors |-> <<>>]

Tick ==
  /\ now < MaxTime
  /\ now' = now + 1
  /\ UNCHANGED <<mode, size, caller, tasks, collected, result>>

-----------------------------------------------------------------------------
(* The calling thread *)

(* A batch submits its whole list, a workload until its time is up.        *)
IgnoresTheDeadline ==
  IF mode = "batch" THEN Cardinality(Submitted) < size ELSE TRUE
MoreToSubmit ==
  IF mode = "batch" THEN Cardinality(Submitted) < size ELSE now < Duration

Submit ==
  /\ caller = "submitting"
  /\ MoreToSubmit
  /\ \E t \in Tasks :
       /\ status[t] = "new"
       /\ \A u \in 1..(t - 1) : status[u] # "new"
       /\ status' = [status EXCEPT ![t] = "queued"]
  /\ UNCHANGED <<mode, size, caller, now, since, collected, result>>

(* run_throughput_workload returns at once when it has no queries.         *)
NoQueries ==
  /\ mode = "throughput"
  /\ caller = "submitting"
  /\ Submitted = {} /\ now = 0
  /\ caller' = "returned"
  /\ UNCHANGED <<mode, size, now, tasks, collected, result>>

StopSubmitting ==
  /\ caller = "submitting"
  /\ ~MoreToSubmit
  /\ caller' = "collecting"
  /\ UNCHANGED <<mode, size, now, tasks, collected, result>>

(* One turn of the loop over as_completed: a batch has set the total, a    *)
(* workload counts it here, and a throughput run keeps no errors.          *)
TotalAgain == result.total + 1
Total == IF mode = "batch" THEN result.total ELSE result.total + 1

CountsFirst(t) ==
  [total |-> Total,
   succeeded |-> result.succeeded + 1,
   failed |-> result.failed + (IF status[t] = "error" THEN 1 ELSE 0),
   results |-> IF status[t] = "ok" THEN Append(result.results, t) ELSE result.results,
   errors |-> IF status[t] = "error" /\ mode # "throughput"
              THEN Append(result.errors, t) ELSE result.errors]

Tally(t) ==
  [total |-> Total,
   succeeded |-> result.succeeded + (IF status[t] = "ok" THEN 1 ELSE 0),
   failed |-> result.failed + (IF status[t] = "error" THEN 1 ELSE 0),
   results |-> IF status[t] = "ok" THEN Append(result.results, t) ELSE result.results,
   errors |-> IF status[t] = "error" /\ mode # "throughput"
              THEN Append(result.errors, t) ELSE result.errors]

Collect ==
  /\ caller = "collecting"
  /\ \E t \in Done \ collected :
       /\ collected' = collected \union {t}
       /\ result' = Tally(t)
  /\ UNCHANGED <<mode, size, caller, now, tasks>>

(* The end of the with block: shutdown(wait=True) joins every thread, and  *)
(* cancels nothing that is queued.                                         *)
WaitsForThreads == Busy = {}
ShutDown == Done = Submitted
Yielded == collected = Submitted

Return ==
  /\ caller = "collecting"
  /\ Yielded
  /\ ShutDown
  /\ caller' = "returned"
  /\ UNCHANGED <<mode, size, now, tasks, collected, result>>

(* pytest-timeout raises in the calling thread, which leaves its loop for  *)
(* the end of the with block.                                              *)
Interrupt ==
  /\ caller \in {"submitting", "collecting"}
  /\ caller' = "unwinding"
  /\ UNCHANGED <<mode, size, now, tasks, collected, result>>

Unwound ==
  /\ caller = "unwinding"
  /\ ShutDown
  /\ caller' = "raised"
  /\ UNCHANGED <<mode, size, now, tasks, collected, result>>

-----------------------------------------------------------------------------
(* The threads of the pool, and BoltClient.execute in them *)

Advance(t, s) ==
  /\ status' = [status EXCEPT ![t] = s]
  /\ UNCHANGED <<mode, size, caller, now, collected, result>>

(* A thread takes the task at the head of the queue.                       *)
ThreadPerTask(t) == status[t] = "queued"
ThreadLostWithItsTask(t) ==
  /\ status[t] = "queued"
  /\ \A u \in 1..(t - 1) : status[u] # "queued"
  /\ Cardinality(Busy \union Done) < MaxWorkers
ThreadTakes(t) ==
  /\ status[t] = "queued"
  /\ \A u \in 1..(t - 1) : status[u] # "queued"
  /\ Cardinality(Busy) < MaxWorkers

Start(t) ==
  /\ ThreadTakes(t)
  /\ Advance(t, "waiting")
  /\ UNCHANGED since

(* session.run waits for a connection; it fails at once without a driver,  *)
(* and in time without a connection.                                       *)
Acquire(t) ==
  /\ status[t] = "waiting"
  /\ Cardinality(Querying) < PoolSize
  /\ Advance(t, "querying")
  /\ since' = [since EXCEPT ![t] = now]

Refuse(t) ==
  /\ status[t] = "waiting"
  /\ Advance(t, "error")
  /\ UNCHANGED since

(* The server answers; nothing on the client's side ends a query.          *)
Answer(t) ==
  /\ status[t] = "querying"
  /\ \E s \in {"ok", "error"} : Advance(t, s)
  /\ UNCHANGED since

-----------------------------------------------------------------------------
Caller == Submit \/ NoQueries \/ StopSubmitting \/ Collect \/ Return \/ Unwound

Next ==
  \/ Tick \/ Caller \/ Interrupt
  \/ \E t \in Tasks : Start(t) \/ Acquire(t) \/ Refuse(t) \/ Answer(t)

(* Time passes, no thread stalls, and the server answers every query.      *)
Fairness ==
  /\ WF_vars(Tick)
  /\ WF_vars(Caller)
  /\ \A t \in Tasks :
       WF_vars(Start(t)) /\ WF_vars(Acquire(t) \/ Refuse(t)) /\ WF_vars(Answer(t))

Spec == Init /\ [][Next]_vars /\ Fairness

-----------------------------------------------------------------------------
(* Properties *)

(* A call that returns has counted every task it submitted once, with the  *)
(* outcome it had, however the threads' completions interleaved.           *)
AllAccountedFor ==
  caller = "returned" =>
    /\ result.total = Cardinality(Submitted)
    /\ result.succeeded = Cardinality({t \in Tasks : status[t] = "ok"})
    /\ result.failed = Cardinality({t \in Tasks : status[t] = "error"})
    /\ Range(result.results) = {t \in Tasks : status[t] = "ok"}
    /\ Len(result.results) = result.succeeded

(* While the connections are used up, no more queries wait for one than     *)
(* there are workers above PoolSize, however many tasks are queued: with a  *)
(* max_workers up to the pool's size, no query of the call ever waits.      *)
ConnectionsSuffice ==
  Cardinality(Querying) >= PoolSize => Cardinality(Waiting) <= MaxWorkers - PoolSize

(* A caller that has to wait, for a future or at the end of its with       *)
(* block, waits for somebody who can move: a thread that can take a task,  *)
(* a query under way, or one that can have a connection.  Never does the   *)
(* call hang because its threads or connections are used up.               *)
CallerCanMove ==
  \/ caller = "collecting" /\ (Done \ collected # {} \/ (Yielded /\ ShutDown))
  \/ caller = "unwinding" /\ ShutDown
TaskCanMove(t) ==
  \/ ThreadTakes(t)
  \/ status[t] = "querying"
  \/ status[t] = "waiting" /\ Cardinality(Querying) < PoolSize

NoCallHangs ==
  caller \in {"collecting", "unwinding"} => CallerCanMove \/ \E t \in Tasks : TaskCanMove(t)

(* Every call comes to an end, interrupted or not.                         *)
CallEnds == <>(caller \in {"returned", "raised"})

(* The call implements what TaskBatch promises: its counts appear when it  *)
(* returns, and only then.                                                 *)
Outcome(s) ==
  CASE s = "new" -> "none"
    [] s \in {"ok", "error"} -> s
    [] OTHER -> "pending"
Returned(n) == IF caller = "returned" THEN n ELSE 0

Batch == INSTANCE TaskBatch WITH
  outcome <- [t \in Tasks |-> Outcome(status[t])],
  ended <- IF caller \in {"returned", "raised"} THEN caller ELSE "no",
  succeeded <- Returned(result.succeeded),
  failed <- Returned(result.failed)

ImplementsBatch == Batch!Spec
ImplementsBatchSafely == Batch!SafeSpec

(* The docstring of BoltClient (bolt_client.py:56): timeout_secs is the    *)
(* query timeout, so that no query is under way for longer.                *)
QueryTimesOut == \A t \in Querying : now - since[t] <= QueryTimeout

=============================================================================
