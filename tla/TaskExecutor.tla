---------------------------- MODULE TaskExecutor ----------------------------
(***************************************************************************)
(* run_bounded_tasks (src/src/builder/task_executor.cpp): a pool of worker *)
(* threads that claim tasks from a shared atomic counter, stop each other  *)
(* through failure_stop, and are joined before the caller's answer is read *)
(* off the failure slots in input order.                                   *)
(***************************************************************************)
EXTENDS Integers

CONSTANTS
  MaxTasks,       \* bound on the number of tasks of the modelled call
  MaxParallelism  \* bound on its max_parallelism argument

ASSUME BoundsAreNaturals == MaxTasks \in Nat /\ MaxParallelism \in Nat

VARIABLES
  size, parallelism, failing,  \* the call: never changed by it
  cancelRequested,             \* cancellation.stop_requested()
  nextTask,                    \* next_task
  failureStop,                 \* failure_stop.stop_requested()
  failures,                    \* failures[i]: "none", "error" or "cancelled"
  pc,                          \* where each worker stands
  index,                       \* each worker's local index
  phase,                       \* the calling thread: "called", "joining", "returned"
  done,                        \* tasks that ran to a successful end (history)
  result                       \* what the call returned

callVars   == <<size, parallelism, failing>>
sharedVars == <<nextTask, failureStop, failures>>
workerVars == <<pc, index>>
vars == <<callVars, cancelRequested, sharedVars, workerVars, phase, done, result>>

Slots   == 0 .. MaxTasks - 1
Workers == 1 .. MaxParallelism

Promise == INSTANCE TaskBatch

Tasks       == Promise!Batch
WorkerCount == IF parallelism < size THEN parallelism ELSE size

Init ==
  /\ size \in 0 .. MaxTasks
  /\ parallelism \in 0 .. MaxParallelism
  /\ failing \in SUBSET Tasks
  /\ cancelRequested = FALSE
  /\ nextTask = 0
  /\ failureStop = FALSE
  /\ failures = [i \in Slots |-> "none"]
  /\ pc = [w \in Workers |-> "absent"]
  /\ index = [w \in Workers |-> Promise!NoTask]
  /\ phase = "called"
  /\ done = {}
  /\ result = Promise!NoAnswer

\* The owner of the stop_source (the signal handler of the CLI, an embedding
\* application) may ask for cancellation at any moment, before or after the call.
RequestCancel ==
  /\ ~cancelRequested
  /\ cancelRequested' = TRUE
  /\ UNCHANGED <<callVars, sharedVars, workerVars, phase, done, result>>

-----------------------------------------------------------------------------
(* The calling thread *)

Return(answer) ==
  /\ result' = answer
  /\ phase' = "returned"
  /\ UNCHANGED <<callVars, cancelRequested, sharedVars, workerVars, done>>

RejectZeroParallelism ==
  /\ phase = "called"
  /\ parallelism = 0
  /\ Return(Promise!InvalidCall)

ReturnCancelledBeforeStart ==
  /\ phase = "called"
  /\ parallelism # 0
  /\ cancelRequested
  /\ Return(Promise!Cancelled)

ReturnEmpty ==
  /\ phase = "called"
  /\ parallelism # 0
  /\ ~cancelRequested
  /\ size = 0
  /\ Return(Promise!Success)

Launch ==
  /\ phase = "called"
  /\ parallelism # 0
  /\ size # 0
  /\ ~cancelRequested
  /\ pc' = [w \in Workers |-> IF w <= WorkerCount THEN "loop" ELSE "absent"]
  /\ phase' = "joining"
  /\ UNCHANGED <<callVars, cancelRequested, sharedVars, index, done, result>>

\* workers.clear() joins every thread.
Joined == \A w \in Workers : pc[w] \in {"absent", "exited"}

\* Mistake: any recorded failure is reported.
ReturnFirstFailure_Any ==
  /\ phase = "joining"
  /\ Joined
  /\ \E i \in Tasks :
       /\ failures[i] # "none"
       /\ Return(IF failures[i] = "error" THEN Promise!FailureOf(i) ELSE Promise!Cancelled)

ReturnFirstFailure ==
  /\ phase = "joining"
  /\ Joined
  /\ \E i \in Tasks :
       /\ failures[i] # "none"
       /\ \A j \in 0 .. i - 1 : failures[j] = "none"
       /\ Return(IF failures[i] = "error" THEN Promise!FailureOf(i) ELSE Promise!Cancelled)

ReturnWithoutFailure ==
  /\ phase = "joining"
  /\ Joined
  /\ \A i \in Tasks : failures[i] = "none"
  /\ Return(IF cancelRequested THEN Promise!Cancelled ELSE Promise!Success)

-----------------------------------------------------------------------------
(* A worker thread *)

Goto(w, label) == pc' = [pc EXCEPT ![w] = label]

\* Mistake: the stopped worker polls again instead of leaving its loop.
TestStop_Spins(w) ==
  /\ pc[w] = "loop"
  /\ Goto(w, IF failureStop THEN "loop" ELSE "fetch")
  /\ UNCHANGED <<callVars, cancelRequested, sharedVars, index, phase, done, result>>

\* while (!failure_stop.stop_requested())
TestStop(w) ==
  /\ pc[w] = "loop"
  /\ Goto(w, IF failureStop THEN "exited" ELSE "fetch")
  /\ UNCHANGED <<callVars, cancelRequested, sharedVars, index, phase, done, result>>

\* Mistake: the counter is read and written back non-atomically.
Fetch_LostUpdate(w) ==
  /\ pc[w] = "fetch"
  /\ index' = [index EXCEPT ![w] = nextTask]
  /\ nextTask' \in {nextTask, nextTask + 1}
  /\ Goto(w, IF nextTask >= size THEN "exited" ELSE "claimed")
  /\ UNCHANGED <<callVars, cancelRequested, failureStop, failures, phase, done, result>>

\* next_task.fetch_add(1), then the range test on the claimed index.
Fetch(w) ==
  /\ pc[w] = "fetch"
  /\ index' = [index EXCEPT ![w] = nextTask]
  /\ nextTask' = nextTask + 1
  /\ Goto(w, IF nextTask >= size THEN "exited" ELSE "claimed")
  /\ UNCHANGED <<callVars, cancelRequested, failureStop, failures, phase, done, result>>

\* Every failing exit of a worker writes its own slot and then stops the pool.
FailSlot(w, error) ==
  /\ failures' = [failures EXCEPT ![index[w]] = error]
  /\ failureStop' = TRUE
  /\ Goto(w, "exited")
  /\ UNCHANGED <<callVars, cancelRequested, nextTask, index, phase, done, result>>

CancelClaimed(w) ==
  /\ pc[w] = "claimed"
  /\ cancelRequested
  /\ FailSlot(w, "cancelled")

\* Mistake: a claimed index is dropped when another worker has failed meanwhile.
StartTask_DropsClaim(w) ==
  /\ pc[w] = "claimed"
  /\ ~cancelRequested
  /\ Goto(w, IF failureStop THEN "exited" ELSE "running")
  /\ UNCHANGED <<callVars, cancelRequested, sharedVars, index, phase, done, result>>

StartTask(w) ==
  /\ pc[w] = "claimed"
  /\ ~cancelRequested
  /\ Goto(w, "running")
  /\ UNCHANGED <<callVars, cancelRequested, sharedVars, index, phase, done, result>>

TaskSucceeds(w) ==
  /\ pc[w] = "running"
  /\ index[w] \notin failing
  /\ done' = done \cup {index[w]}
  /\ Goto(w, "loop")
  /\ UNCHANGED <<callVars, cancelRequested, sharedVars, index, phase, result>>

\* A task that returns a failure and one that throws leave the same trace.
TaskFails(w) ==
  /\ pc[w] = "running"
  /\ index[w] \in failing
  /\ FailSlot(w, "error")

\* Builder tasks poll the same stop_token through the telemetry collector and
\* return its cancellation error as their own.
TaskObservesCancel(w) ==
  /\ pc[w] = "running"
  /\ cancelRequested
  /\ FailSlot(w, "cancelled")

Worker(w) ==
  \/ TestStop(w)
  \/ Fetch(w)
  \/ CancelClaimed(w)
  \/ StartTask(w)
  \/ TaskSucceeds(w)
  \/ TaskFails(w)
  \/ TaskObservesCancel(w)

Caller ==
  \/ RejectZeroParallelism
  \/ ReturnCancelledBeforeStart
  \/ ReturnEmpty
  \/ Launch
  \/ ReturnFirstFailure
  \/ ReturnWithoutFailure

Next == RequestCancel \/ Caller \/ \E w \in Workers : Worker(w)

\* The operating system schedules every started thread, and tasks end.
Fairness == WF_vars(Caller) /\ \A w \in Workers : WF_vars(Worker(w))

Spec == Init /\ [][Next]_vars /\ Fairness

-----------------------------------------------------------------------------
(* Properties *)

Holds(w, i) == pc[w] \in {"claimed", "running"} /\ index[w] = i

TypeOK ==
  /\ size \in 0 .. MaxTasks
  /\ parallelism \in 0 .. MaxParallelism
  /\ failing \in SUBSET Tasks
  /\ cancelRequested \in BOOLEAN
  /\ nextTask \in Nat
  /\ failureStop \in BOOLEAN
  /\ failures \in [Slots -> {"none", "error", "cancelled"}]
  /\ pc \in [Workers -> {"absent", "loop", "fetch", "claimed", "running", "exited"}]
  /\ index \in [Workers -> Int]
  /\ phase \in {"called", "joining", "returned"}
  /\ done \in SUBSET Tasks
  /\ result \in {Promise!NoAnswer, Promise!Success, Promise!Cancelled, Promise!InvalidCall}
                  \cup {Promise!FailureOf(i) : i \in Tasks}

\* task_executor.hpp:14: worker scheduling cannot change the reported failure.
\* Whatever the schedule, and even when cancellation races the workers, a
\* reported task failure is that of the first failing task in input order.
FirstFailureReported ==
  \A i \in Tasks : result = Promise!FailureOf(i) =>
    /\ i \in failing
    /\ \A j \in failing : i <= j

\* Success is only reported after every task of the batch ran to its end: no
\* task is skipped by a worker that left its loop early.
SuccessIsComplete ==
  result = Promise!Success => done = Tasks /\ failing = {}

\* The shared counter hands each task to one worker, and a task that ran is not
\* claimed again: two workers never stage the same tile.
NoTaskRunsTwice ==
  \A w \in Workers : \A i \in Tasks : Holds(w, i) =>
    /\ i \notin done
    /\ \A v \in Workers : Holds(v, i) => v = w

\* The lambdas capture the caller's locals by reference: no worker is alive
\* once the call has returned.
NoWorkerOutlivesCall ==
  phase = "returned" => \A w \in Workers : pc[w] \in {"absent", "exited"}

\* The executor implements the promise of TaskBatch.
ImplementsBatch == Promise!BatchSpec

\* Every call returns, whatever fails and whenever cancellation arrives.
CallReturns == <>(phase = "returned")
=============================================================================
