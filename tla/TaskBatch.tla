------------------------------ MODULE TaskBatch ------------------------------
(***************************************************************************)
(* What run_bounded_tasks promises its callers                             *)
(* (src/src/builder/task_executor.hpp:14-18), with no worker in sight: the *)
(* tasks complete in any order, and the batch is answered once, either     *)
(* with success, with the failure of the first failing task in input       *)
(* order, or with a cancellation somebody asked for.                       *)
(***************************************************************************)
EXTENDS Integers

VARIABLES
  size,             \* number of tasks of the batch
  parallelism,      \* the max_parallelism argument
  failing,          \* the tasks that return or throw an error when run
  cancelRequested,  \* the caller's stop_token
  done,             \* tasks that ran to a successful end
  result            \* the answer, NoAnswer until it is given

batchVars == <<size, parallelism, failing, cancelRequested, done, result>>

NoTask == -1

Answer(kind)  == [kind |-> kind, task |-> NoTask]
NoAnswer      == Answer("none")
Success       == Answer("success")
Cancelled     == Answer("cancelled")
InvalidCall   == Answer("invalid")
FailureOf(i)  == [kind |-> "failure", task |-> i]

Batch == 0 .. size - 1

BatchInit ==
  /\ size \in Nat
  /\ parallelism \in Nat
  /\ failing \in SUBSET Batch
  /\ cancelRequested = FALSE
  /\ done = {}
  /\ result = NoAnswer

RequestCancel ==
  /\ ~cancelRequested
  /\ cancelRequested' = TRUE
  /\ UNCHANGED <<size, parallelism, failing, done, result>>

Complete(i) ==
  /\ result = NoAnswer
  /\ i \in Batch \ (failing \cup done)
  /\ done' = done \cup {i}
  /\ UNCHANGED <<size, parallelism, failing, cancelRequested, result>>

AnswerSuccess ==
  /\ done = Batch
  /\ result' = Success

AnswerFailure(i) ==
  /\ i \in failing
  /\ \A j \in 0 .. i - 1 : j \in done
  /\ result' = FailureOf(i)

AnswerCancelled ==
  /\ cancelRequested
  /\ result' = Cancelled

AnswerInvalid ==
  /\ parallelism = 0
  /\ result' = InvalidCall

GiveAnswer ==
  /\ result = NoAnswer
  /\ \/ AnswerSuccess
     \/ \E i \in Batch : AnswerFailure(i)
     \/ AnswerCancelled
     \/ AnswerInvalid
  /\ UNCHANGED <<size, parallelism, failing, cancelRequested, done>>

BatchNext ==
  \/ RequestCancel
  \/ \E i \in Batch : Complete(i)
  \/ GiveAnswer

BatchSpec == BatchInit /\ [][BatchNext]_batchVars
=============================================================================
