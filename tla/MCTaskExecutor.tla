--------------------------- MODULE MCTaskExecutor ---------------------------
(***************************************************************************)
(* TLC instance of TaskExecutor: every call of at most MaxTasks tasks with *)
(* at most MaxParallelism workers, every set of failing tasks and every    *)
(* moment of cancellation.                                                 *)
(***************************************************************************)
EXTENDS TaskExecutor
=============================================================================
