------------------------- MODULE TaskExecutorProofs -------------------------
(***************************************************************************)
(* Proofs about run_bounded_tasks for every number of tasks and workers.   *)
(* IInv says which tasks are settled, held or unclaimed at every moment;   *)
(* everything the executor promises follows from it.                       *)
(***************************************************************************)
EXTENDS TaskExecutor, TLAPS

Settled(i) == i \in done \/ failures[i] # "none"

\* Before the workers are launched nothing has happened.
NotStarted ==
  phase = "called" =>
    /\ nextTask = 0
    /\ done = {}
    /\ \A i \in Slots : failures[i] = "none"
    /\ \A w \in Workers : pc[w] = "absent"
    /\ result = Promise!NoAnswer

\* The claimed indices are exactly those below nextTask: each is settled or
\* held by one worker, and the others are untouched.
Claims ==
  /\ \A w \in Workers : pc[w] \in {"claimed", "running"} =>
       /\ index[w] \in Tasks
       /\ index[w] < nextTask
       /\ ~Settled(index[w])
       /\ \A v \in Workers : Holds(v, index[w]) => v = w
  /\ \A i \in Tasks : i < nextTask => Settled(i) \/ \E w \in Workers : Holds(w, i)
  /\ \A i \in Slots : i >= nextTask => ~Settled(i)

\* What a slot or a completed task says about the call.
Records ==
  /\ done \cap failing = {}
  /\ \A i \in Slots : failures[i] # "none" => i \in Tasks /\ i \notin done /\ failureStop
  /\ \A i \in Slots : failures[i] = "error" => i \in failing
  /\ \A i \in Slots : failures[i] = "cancelled" => cancelRequested
  /\ failureStop => \E i \in Tasks : failures[i] # "none"

\* A worker leaves its loop only when the pool is stopped or no task is left.
Exits ==
  phase = "joining" =>
    /\ size > 0 /\ parallelism > 0
    /\ \A w \in Workers : w <= WorkerCount => pc[w] # "absent"
    /\ \A w \in Workers : pc[w] = "exited" => failureStop \/ nextTask >= size
    /\ result = Promise!NoAnswer

\* What the answer says once it is given.
Answered ==
  phase = "returned" =>
    /\ \A w \in Workers : pc[w] \in {"absent", "exited"}
    /\ result = Promise!Success => done = Tasks
    /\ \A i \in Tasks : result = Promise!FailureOf(i) =>
         i \in failing /\ \A j \in Tasks : j < i => j \in done

IInv == TypeOK /\ NotStarted /\ Claims /\ Records /\ Exits /\ Answered

-----------------------------------------------------------------------------
\* The values the answers are made of.
LEMMA Answers ==
  /\ Promise!NoAnswer # Promise!Success
  /\ Promise!NoAnswer # Promise!Cancelled
  /\ Promise!NoAnswer # Promise!InvalidCall
  /\ Promise!Success # Promise!Cancelled
  /\ Promise!Success # Promise!InvalidCall
  /\ \A i \in Int : /\ Promise!FailureOf(i) # Promise!NoAnswer
                    /\ Promise!FailureOf(i) # Promise!Success
                    /\ Promise!FailureOf(i) # Promise!Cancelled
                    /\ Promise!FailureOf(i) # Promise!InvalidCall
  /\ \A i, j \in Int : Promise!FailureOf(i) = Promise!FailureOf(j) => i = j
  BY DEF Promise!NoAnswer, Promise!Success, Promise!Cancelled, Promise!InvalidCall,
         Promise!Answer, Promise!FailureOf

LEMMA TasksAreSlots == TypeOK => Tasks \subseteq Slots /\ Slots \subseteq Int /\ Workers \subseteq Int
  BY BoundsAreNaturals DEF TypeOK, Tasks, Promise!Batch, Slots, Workers

LEMMA InitIInv == Init => IInv
<1> SUFFICES ASSUME Init PROVE IInv
  OBVIOUS
<1>1. TypeOK
  <2>1. result \in {Promise!NoAnswer, Promise!Success, Promise!Cancelled, Promise!InvalidCall}
                     \cup {Promise!FailureOf(i) : i \in Tasks}
    BY DEF Init
  <2>2. index \in [Workers -> Int] /\ pc \in [Workers -> {"absent"}]
    BY DEF Init, Promise!NoTask
  <2>3. failures \in [Slots -> {"none"}]
    BY DEF Init
  <2> QED BY <2>1, <2>2, <2>3 DEF Init, TypeOK
<1>2. NotStarted /\ Claims /\ Records
  BY BoundsAreNaturals, <1>1, TasksAreSlots
     DEF Init, NotStarted, Claims, Records, Settled, Holds, Slots, Tasks, Promise!Batch
<1>3. Exits /\ Answered
  BY DEF Init, Exits, Answered
<1> QED BY <1>1, <1>2, <1>3 DEF IInv

-----------------------------------------------------------------------------
\* The call's arguments are rigid, and so is everything computed from them.
LEMMA CallIsRigid ==
  [Next]_vars => /\ UNCHANGED callVars
                 /\ Tasks' = Tasks
                 /\ WorkerCount' = WorkerCount
<1> SUFFICES ASSUME [Next]_vars PROVE UNCHANGED callVars
  BY DEF callVars, Tasks, Promise!Batch, WorkerCount
<1>1. CASE RequestCancel  BY <1>1 DEF RequestCancel
<1>2. CASE Caller
  BY <1>2 DEF Caller, RejectZeroParallelism, ReturnCancelledBeforeStart, ReturnEmpty, Launch,
              ReturnFirstFailure, ReturnWithoutFailure, Return
<1>3. ASSUME NEW w \in Workers, Worker(w) PROVE UNCHANGED callVars
  BY <1>3 DEF Worker, TestStop, Fetch, CancelClaimed, StartTask, TaskSucceeds, TaskFails,
              TaskObservesCancel, FailSlot
<1>4. CASE UNCHANGED vars  BY <1>4 DEF vars
<1> QED BY <1>1, <1>2, <1>3, <1>4 DEF Next

LEMMA CallerStep ==
  ASSUME IInv, Caller PROVE IInv'
<1> USE BoundsAreNaturals DEF IInv
<1>0. Tasks' = Tasks /\ WorkerCount' = WorkerCount /\ UNCHANGED callVars
  BY CallIsRigid DEF Next
<1>1. CASE RejectZeroParallelism
  <2> USE <1>1 DEF RejectZeroParallelism, Return
  <2>1. TypeOK'
    BY <1>0 DEF TypeOK, callVars, sharedVars, workerVars
  <2>2. NotStarted' /\ Claims' /\ Records' /\ Exits'
    BY <1>0 DEF NotStarted, Claims, Records, Exits, Settled, Holds, callVars, sharedVars, workerVars
  <2>3. Answered'
    BY <1>0, Answers, TasksAreSlots DEF NotStarted, Answered, callVars, sharedVars, workerVars
  <2> QED BY <2>1, <2>2, <2>3
<1>2. CASE ReturnCancelledBeforeStart
  <2> USE <1>2 DEF ReturnCancelledBeforeStart, Return
  <2>1. TypeOK'
    BY <1>0 DEF TypeOK, callVars, sharedVars, workerVars
  <2>2. NotStarted' /\ Claims' /\ Records' /\ Exits'
    BY <1>0 DEF NotStarted, Claims, Records, Exits, Settled, Holds, callVars, sharedVars, workerVars
  <2>3. Answered'
    BY <1>0, Answers, TasksAreSlots DEF NotStarted, Answered, callVars, sharedVars, workerVars
  <2> QED BY <2>1, <2>2, <2>3
<1>3. CASE ReturnEmpty
  <2> USE <1>3 DEF ReturnEmpty, Return
  <2>1. TypeOK'
    BY <1>0 DEF TypeOK, callVars, sharedVars, workerVars
  <2>2. NotStarted' /\ Claims' /\ Records' /\ Exits'
    BY <1>0 DEF NotStarted, Claims, Records, Exits, Settled, Holds, callVars, sharedVars, workerVars
  <2>3. Answered'
    BY <1>0, Answers, TasksAreSlots
       DEF NotStarted, Answered, Tasks, Promise!Batch, callVars, sharedVars, workerVars
  <2> QED BY <2>1, <2>2, <2>3
<1>4. CASE Launch
  <2> USE <1>4 DEF Launch
  <2>1. TypeOK'
    BY <1>0 DEF TypeOK, callVars, sharedVars
  <2>2. NotStarted' /\ Answered'
    BY DEF NotStarted, Answered
  <2>3. Claims' /\ Records'
    BY <1>0 DEF TypeOK, NotStarted, Claims, Records, Settled, Holds, callVars, sharedVars
  <2>4. Exits'
    BY <1>0 DEF TypeOK, NotStarted, Exits, callVars, sharedVars
  <2> QED BY <2>1, <2>2, <2>3, <2>4
<1>5. CASE ReturnFirstFailure
  <2> USE DEF Return
  <2>1. PICK i \in Tasks :
          /\ failures[i] # "none"
          /\ \A j \in 0 .. i - 1 : failures[j] = "none"
          /\ Return(IF failures[i] = "error" THEN Promise!FailureOf(i) ELSE Promise!Cancelled)
    BY <1>5 DEF ReturnFirstFailure
  <2>2. TypeOK'
    BY <1>0, <2>1 DEF TypeOK, callVars, sharedVars, workerVars
  <2>3. NotStarted' /\ Claims' /\ Records' /\ Exits'
    BY <1>0, <1>5, <2>1 DEF ReturnFirstFailure, NotStarted, Claims, Records, Exits, Settled, Holds,
                             callVars, sharedVars, workerVars
  <2>4. \A j \in Tasks : j < i => j \in done
    <3> SUFFICES ASSUME NEW j \in Tasks, j < i PROVE j \in done
      OBVIOUS
    <3>1. j \in 0 .. i - 1 /\ failures[j] = "none"
      BY <2>1 DEF Tasks, Promise!Batch, TypeOK
    <3>2. i < nextTask
      <4>1. i \in Slots /\ i \in Int /\ nextTask \in Int
        BY TasksAreSlots DEF TypeOK
      <4>2. Settled(i)
        BY <2>1 DEF Settled
      <4> QED BY <4>1, <4>2 DEF Claims
    <3>3. j < nextTask
      BY <3>2 DEF TypeOK, Tasks, Promise!Batch
    <3>4. \A w \in Workers : ~Holds(w, j)
      BY <1>5 DEF ReturnFirstFailure, Joined, Holds
    <3> QED BY <3>1, <3>3, <3>4 DEF Claims, Settled
  <2>5. Answered'
    BY <1>0, <1>5, <2>1, <2>4, Answers, TasksAreSlots
       DEF ReturnFirstFailure, Joined, Answered, Records, callVars, sharedVars, workerVars
  <2> QED BY <2>2, <2>3, <2>5
<1>6. CASE ReturnWithoutFailure
  <2> USE <1>6 DEF ReturnWithoutFailure, Return
  <2>1. TypeOK'
    BY <1>0 DEF TypeOK, callVars, sharedVars, workerVars
  <2>2. NotStarted' /\ Claims' /\ Records' /\ Exits'
    BY <1>0 DEF NotStarted, Claims, Records, Exits, Settled, Holds, callVars, sharedVars, workerVars
  <2>3. done = Tasks
    <3>1. ~failureStop
      BY DEF Records
    <3>2. 1 \in Workers /\ 1 <= WorkerCount
      BY DEF Exits, WorkerCount, Workers, TypeOK
    <3>3. nextTask >= size
      BY <3>1, <3>2 DEF Exits, Joined
    <3>4. \A w \in Workers, i \in Tasks : ~Holds(w, i)
      BY DEF Joined, Holds
    <3>5. \A i \in Tasks : i < nextTask
      BY <3>3 DEF Tasks, Promise!Batch, TypeOK
    <3>6. \A i \in Tasks : i \in done
      BY <3>4, <3>5 DEF Claims, Settled
    <3> QED BY <3>6 DEF TypeOK
  <2>4. Answered'
    BY <1>0, <2>3, Answers, TasksAreSlots
       DEF Answered, Joined, callVars, sharedVars, workerVars
  <2> QED BY <2>1, <2>2, <2>4
<1> QED BY <1>1, <1>2, <1>3, <1>4, <1>5, <1>6 DEF Caller

LEMMA WorkerStep ==
  ASSUME IInv, NEW w \in Workers, Worker(w) PROVE IInv'
<1> USE BoundsAreNaturals DEF IInv
<1>0. Tasks' = Tasks /\ WorkerCount' = WorkerCount /\ UNCHANGED callVars
  BY CallIsRigid DEF Next
<1>a. /\ Tasks \subseteq Slots /\ Slots \subseteq Int /\ nextTask \in Nat /\ size \in Nat
      /\ Tasks = 0 .. size - 1
  BY TasksAreSlots DEF TypeOK, Tasks, Promise!Batch
<1>b. pc[w] # "absent" /\ pc[w] # "exited"
  BY DEF Worker, TestStop, Fetch, CancelClaimed, StartTask, TaskSucceeds, TaskFails, TaskObservesCancel
<1>c. phase = "joining" /\ phase' = phase /\ result' = result /\ UNCHANGED cancelRequested
  <2>1. phase = "joining"
    BY <1>b DEF NotStarted, Answered, TypeOK
  <2> QED BY <2>1 DEF Worker, TestStop, Fetch, CancelClaimed, StartTask, TaskSucceeds, TaskFails,
                      TaskObservesCancel, FailSlot
<1>d. NotStarted' /\ Answered'
  BY <1>c DEF NotStarted, Answered
<1>1. CASE TestStop(w)
  <2> USE <1>1 DEF TestStop, Goto
  <2>1. TypeOK'
    BY <1>0, <1>c DEF TypeOK, callVars, sharedVars
  <2>2. Claims'
    BY <1>0 DEF Claims, Settled, Holds, TypeOK, sharedVars
  <2>3. Records'
    BY <1>0, <1>c DEF Records, callVars, sharedVars
  <2>4. Exits'
    BY <1>0, <1>c DEF Exits, TypeOK, callVars, sharedVars
  <2> QED BY <1>d, <2>1, <2>2, <2>3, <2>4
<1>2. CASE Fetch(w)
  <2> USE <1>2 DEF Fetch, Goto
  <2>1. TypeOK'
    BY <1>0, <1>c DEF TypeOK, callVars
  <2>2. Claims'
    BY <1>0, <1>a DEF Claims, Settled, Holds, TypeOK
  <2>3. Records'
    BY <1>0, <1>c DEF Records, callVars
  <2>4. Exits'
    BY <1>0, <1>c DEF Exits, TypeOK, callVars
  <2> QED BY <1>d, <2>1, <2>2, <2>3, <2>4
<1>3. CASE StartTask(w)
  <2> USE <1>3 DEF StartTask, Goto
  <2>1. TypeOK'
    BY <1>0, <1>c DEF TypeOK, callVars, sharedVars
  <2>2. Claims'
    BY <1>0 DEF Claims, Settled, Holds, TypeOK, sharedVars
  <2>3. Records'
    BY <1>0, <1>c DEF Records, callVars, sharedVars
  <2>4. Exits'
    BY <1>0, <1>c DEF Exits, TypeOK, callVars, sharedVars
  <2> QED BY <1>d, <2>1, <2>2, <2>3, <2>4
<1>4. CASE TaskSucceeds(w)
  <2> USE <1>4 DEF TaskSucceeds, Goto
  <2>0. index[w] \in Tasks /\ index[w] < nextTask /\ ~Settled(index[w])
    BY DEF Claims
  <2>1. TypeOK'
    BY <1>0, <1>c, <2>0 DEF TypeOK, callVars, sharedVars
  <2>2. Claims'
    BY <1>0, <1>a, <2>0 DEF Claims, Settled, Holds, TypeOK, sharedVars
  <2>3. Records'
    BY <1>0, <1>c, <2>0 DEF Records, Settled, callVars, sharedVars
  <2>4. Exits'
    BY <1>0, <1>c DEF Exits, TypeOK, callVars, sharedVars
  <2> QED BY <1>d, <2>1, <2>2, <2>3, <2>4
<1>5. ASSUME NEW error \in {"error", "cancelled"}, FailSlot(w, error),
             pc[w] \in {"claimed", "running"},
             error = "error" => index[w] \in failing,
             error = "cancelled" => cancelRequested
      PROVE  IInv'
  <2> USE <1>5 DEF FailSlot, Goto
  <2>0. index[w] \in Tasks /\ index[w] < nextTask /\ ~Settled(index[w])
    BY DEF Claims
  <2>1. TypeOK'
    BY <1>0, <1>c DEF TypeOK, callVars
  <2>2. Claims'
    BY <1>0, <1>a, <2>0 DEF Claims, Settled, Holds, TypeOK
  <2>3. Records'
    BY <1>0, <1>a, <1>c, <2>0 DEF Records, Settled, TypeOK, callVars
  <2>4. Exits'
    BY <1>0, <1>c DEF Exits, TypeOK, callVars
  <2> QED BY <1>d, <2>1, <2>2, <2>3, <2>4
<1>6. CASE CancelClaimed(w)
  BY <1>5, <1>6 DEF CancelClaimed
<1>7. CASE TaskFails(w)
  BY <1>5, <1>7 DEF TaskFails
<1>8. CASE TaskObservesCancel(w)
  BY <1>5, <1>8 DEF TaskObservesCancel
<1> QED BY <1>1, <1>2, <1>3, <1>4, <1>6, <1>7, <1>8 DEF Worker

LEMMA NextIInv == IInv /\ [Next]_vars => IInv'
<1> SUFFICES ASSUME IInv, [Next]_vars PROVE IInv'
  OBVIOUS
<1>1. CASE RequestCancel
  <2> USE <1>1 DEF RequestCancel, callVars, sharedVars, workerVars, IInv
  <2>1. Tasks' = Tasks /\ WorkerCount' = WorkerCount
    BY CallIsRigid
  <2>2. TypeOK' /\ NotStarted'
    BY <2>1 DEF TypeOK, NotStarted
  <2>3. Claims' /\ Records'
    BY <2>1 DEF Claims, Records, Settled, Holds
  <2>4. Exits' /\ Answered'
    BY <2>1 DEF Exits, Answered
  <2> QED BY <2>2, <2>3, <2>4
<1>2. CASE Caller
  BY <1>2, CallerStep
<1>3. ASSUME NEW w \in Workers, Worker(w) PROVE IInv'
  BY <1>3, WorkerStep
<1>4. CASE UNCHANGED vars
  <2> USE <1>4 DEF vars, callVars, sharedVars, workerVars, IInv
  <2>1. Tasks' = Tasks /\ WorkerCount' = WorkerCount
    BY CallIsRigid
  <2>2. TypeOK' /\ NotStarted'
    BY <2>1 DEF TypeOK, NotStarted
  <2>3. Claims' /\ Records'
    BY <2>1 DEF Claims, Records, Settled, Holds
  <2>4. Exits' /\ Answered'
    BY <2>1 DEF Exits, Answered
  <2> QED BY <2>2, <2>3, <2>4
<1> QED BY <1>1, <1>2, <1>3, <1>4 DEF Next

-----------------------------------------------------------------------------
\* The strengthened invariant holds in every reachable state.
THEOREM ExecutorInvariant == Spec => []IInv
  BY InitIInv, NextIInv, PTL DEF Spec

\* Type correctness of the executor's state.
THEOREM TypeCorrect == Spec => []TypeOK
<1>1. IInv => TypeOK  BY DEF IInv
<1> QED BY <1>1, ExecutorInvariant, PTL

\* A failure reported by run_bounded_tasks is that of the first failing task,
\* for every number of tasks and workers and every schedule.
THEOREM ReportedFailureIsFirst == Spec => []FirstFailureReported
<1>1. IInv => FirstFailureReported
  <2> SUFFICES ASSUME IInv, NEW i \in Tasks, result = Promise!FailureOf(i)
               PROVE  i \in failing /\ \A j \in failing : i <= j
    BY DEF FirstFailureReported
  <2>1. phase = "returned"
    BY Answers, TasksAreSlots DEF IInv, NotStarted, Exits, TypeOK
  <2>2. i \in failing /\ \A j \in Tasks : j < i => j \in done
    BY <2>1 DEF IInv, Answered
  <2> QED BY <2>2 DEF IInv, Records, TypeOK, Tasks, Promise!Batch
<1> QED BY <1>1, ExecutorInvariant, PTL

\* A successful answer means every task ran and none failed.
THEOREM SuccessMeansAllRan == Spec => []SuccessIsComplete
<1>1. IInv => SuccessIsComplete
  <2> SUFFICES ASSUME IInv, result = Promise!Success
               PROVE  done = Tasks /\ failing = {}
    BY DEF SuccessIsComplete
  <2>1. phase = "returned"
    BY Answers DEF IInv, NotStarted, Exits, TypeOK
  <2> QED BY <2>1 DEF IInv, Answered, Records, TypeOK
<1> QED BY <1>1, ExecutorInvariant, PTL

\* No task is run by two workers, and none is run again.
THEOREM TasksRunOnce == Spec => []NoTaskRunsTwice
<1>1. IInv => NoTaskRunsTwice
  BY DEF IInv, NoTaskRunsTwice, Claims, Settled, Holds
<1> QED BY <1>1, ExecutorInvariant, PTL

\* The join protects the caller's locals.
THEOREM WorkersEndFirst == Spec => []NoWorkerOutlivesCall
<1>1. IInv => NoWorkerOutlivesCall
  BY DEF IInv, Answered, NoWorkerOutlivesCall
<1> QED BY <1>1, ExecutorInvariant, PTL

-----------------------------------------------------------------------------
\* Every step of the executor is a step of the batch it promises, or a stutter.
LEMMA StepImplementsBatch == IInv /\ IInv' /\ [Next]_vars => [Promise!BatchNext]_(Promise!batchVars)
<1> SUFFICES ASSUME IInv, IInv', [Next]_vars PROVE [Promise!BatchNext]_(Promise!batchVars)
  OBVIOUS
<1> USE DEF Promise!batchVars
<1>1. CASE RequestCancel
  BY <1>1 DEF RequestCancel, Promise!BatchNext, Promise!RequestCancel, callVars
<1>2. CASE Caller
  <2>1. CASE Launch
    BY <2>1 DEF Launch, callVars
  <2>2. result = Promise!NoAnswer \/ Launch
    BY <1>2 DEF IInv, NotStarted, Exits, Caller, RejectZeroParallelism, ReturnCancelledBeforeStart,
                ReturnEmpty, ReturnFirstFailure, ReturnWithoutFailure
  <2>3. CASE ~Launch
    <3>1. UNCHANGED <<callVars, cancelRequested, done>> /\ phase' = "returned"
      BY <1>2, <2>3 DEF Caller, RejectZeroParallelism, ReturnCancelledBeforeStart, ReturnEmpty,
                        ReturnFirstFailure, ReturnWithoutFailure, Return
    <3>2. \/ Promise!AnswerSuccess
          \/ \E i \in Promise!Batch : Promise!AnswerFailure(i)
          \/ Promise!AnswerCancelled
          \/ Promise!AnswerInvalid
      <4>1. CASE RejectZeroParallelism
        BY <4>1 DEF RejectZeroParallelism, Return, Promise!AnswerInvalid
      <4>2. CASE ReturnCancelledBeforeStart
        BY <4>2 DEF ReturnCancelledBeforeStart, Return, Promise!AnswerCancelled
      <4>3. CASE ReturnEmpty
        <5>1. done = Promise!Batch
          BY <4>3 DEF ReturnEmpty, IInv, NotStarted, Promise!Batch
        <5> QED BY <4>3, <5>1 DEF ReturnEmpty, Return, Promise!AnswerSuccess
      <4>4. CASE ReturnFirstFailure
        <5>1. PICK i \in Tasks :
                /\ failures[i] # "none"
                /\ result' = IF failures[i] = "error" THEN Promise!FailureOf(i) ELSE Promise!Cancelled
          BY <4>4 DEF ReturnFirstFailure, Return
        <5>2. CASE failures[i] = "error"
          <6>1. i \in failing /\ \A j \in Tasks : j < i => j \in done
            BY <3>1, <5>1, <5>2 DEF IInv, Answered, Tasks, Promise!Batch, callVars
          <6>2. \A j \in 0 .. i - 1 : j \in done
            BY <6>1 DEF Tasks, Promise!Batch, IInv, TypeOK
          <6> QED BY <5>1, <5>2, <6>1, <6>2 DEF Promise!AnswerFailure, Tasks
        <5>3. CASE failures[i] # "error"
          <6>1. cancelRequested
            BY <5>1, <5>3, TasksAreSlots DEF IInv, Records, TypeOK
          <6> QED BY <5>1, <5>3, <6>1 DEF Promise!AnswerCancelled
        <5> QED BY <5>2, <5>3
      <4>5. CASE ReturnWithoutFailure
        <5>1. CASE cancelRequested
          BY <4>5, <5>1 DEF ReturnWithoutFailure, Return, Promise!AnswerCancelled
        <5>2. CASE ~cancelRequested
          <6>1. result' = Promise!Success
            BY <4>5, <5>2 DEF ReturnWithoutFailure, Return
          <6>2. done' = Tasks'
            BY <3>1, <6>1 DEF IInv, Answered
          <6> QED BY <3>1, <6>1, <6>2 DEF Promise!AnswerSuccess, Tasks, Promise!Batch, callVars
        <5> QED BY <5>1, <5>2
      <4> QED BY <1>2, <2>3, <4>1, <4>2, <4>3, <4>4, <4>5 DEF Caller
    <3> QED BY <2>2, <2>3, <3>1, <3>2 DEF Promise!BatchNext, Promise!GiveAnswer, callVars
  <2> QED BY <2>1, <2>3
<1>3. ASSUME NEW w \in Workers, Worker(w) PROVE [Promise!BatchNext]_(Promise!batchVars)
  <2>1. CASE TaskSucceeds(w)
    <3>1. index[w] \in Tasks /\ index[w] \notin done
      BY <2>1 DEF TaskSucceeds, IInv, Claims, Settled
    <3>2. phase = "joining"
      BY <2>1 DEF TaskSucceeds, IInv, NotStarted, Answered, TypeOK
    <3>3. result = Promise!NoAnswer
      BY <3>2 DEF IInv, Exits
    <3>4. Promise!Complete(index[w])
      BY <2>1, <3>1, <3>3 DEF TaskSucceeds, Promise!Complete, Tasks, callVars
    <3> QED BY <3>1, <3>4 DEF Promise!BatchNext, Tasks
  <2>2. CASE ~TaskSucceeds(w)
    BY <1>3, <2>2 DEF Worker, TestStop, Fetch, CancelClaimed, StartTask, TaskFails,
                      TaskObservesCancel, FailSlot, callVars
  <2> QED BY <2>1, <2>2
<1>4. CASE UNCHANGED vars
  BY <1>4 DEF vars, callVars
<1> QED BY <1>1, <1>2, <1>3, <1>4 DEF Next

\* The executor implements the batch for every number of tasks and workers.
THEOREM ExecutorImplementsBatch == Spec => ImplementsBatch
<1>1. Init => Promise!BatchInit
  BY BoundsAreNaturals DEF Init, Promise!BatchInit, Tasks
<1> QED BY <1>1, StepImplementsBatch, ExecutorInvariant, PTL DEF Spec, ImplementsBatch, Promise!BatchSpec
=============================================================================
