-------------------------- MODULE ObservedCommand --------------------------
(***************************************************************************)
(* One command of the command line (run_observed_command and main,         *)
(* src/src/cli/main.cpp) with its telemetry collector                      *)
(* (src/src/builder/telemetry.cpp), given an event log and a run-state     *)
(* directory. The main thread runs the operation and emits events when it  *)
(* enters a phase or reaches a checkpoint; the reporter thread emits one   *)
(* every interval; a monitor thread turns a signal into a stop request.    *)
(* Events go through the sink: a record is appended to the log, the log is *)
(* synchronized unless the event says running, progress.json is replaced.  *)
(* Each of these may fail, and the process may die before each of them.    *)
(***************************************************************************)
EXTENDS Integers, Sequences

CONSTANTS
  MaxEvents,   \* bound: no phase, checkpoint or heartbeat starts another event after so many
  None

ASSUME EventAssumption == MaxEvents \in Nat

\* No exit code is None.
ASSUME NoneAssumption == None \notin Int

VARIABLES
  pc,              \* where main and reporter stand
  step,            \* how far the Emit of each thread has come
  wants,           \* the state each thread emits
  sequence,        \* sequence_
  event,           \* the event of the thread that holds emit_mutex_
  reportingError,  \* reporting_error_ is set
  reporterStop,    \* stop token of the reporter
  signalled,       \* interruption_requested
  stopRequested,   \* the operation's stop token
  log,             \* records of the event log
  durable,         \* how many of them are synchronized
  progress,        \* what progress.json holds
  result,          \* what the operation returned
  exitCode

threads  == <<pc, step, wants>>
signals  == <<signalled, stopRequested>>
reported == <<log, durable, progress>>
answer   == <<result, exitCode>>
vars == <<threads, sequence, event, reportingError, reporterStop, signals, reported, answer>>

Threads == {"main", "reporter"}

Init ==
  /\ pc = [t \in Threads |-> IF t = "main" THEN "created" ELSE "none"]
  /\ step = [t \in Threads |-> "idle"]
  /\ wants = [t \in Threads |-> "running"]
  /\ sequence = 0
  /\ event = None
  /\ reportingError = FALSE
  /\ reporterStop = FALSE
  /\ signalled = FALSE /\ stopRequested = FALSE
  /\ log = <<>> /\ durable = 0 /\ progress = None
  /\ result = "none" /\ exitCode = None

Alive == pc["main"] \notin {"exited", "crashed"}

-----------------------------------------------------------------------------
(* Emit and the sink *)

Holding(t) == step[t] \in {"assigned", "appending", "appended", "synchronized"}

Want(t, state, where) ==
  /\ step[t] = "idle"
  /\ step' = [step EXCEPT ![t] = "wanted"]
  /\ wants' = [wants EXCEPT ![t] = state]
  /\ pc' = [pc EXCEPT ![t] = where]

Advance(t, from, to) ==
  /\ Alive
  /\ step[t] = from
  /\ step' = [step EXCEPT ![t] = to]
  /\ UNCHANGED <<pc, wants, reporterStop, signals, answer>>

\* Mistake: the sequence number is drawn before emit_mutex_ is taken.
Assign_Unlocked(t) ==
  /\ Advance(t, "wanted", "assigned")
  /\ ~reportingError
  /\ sequence' = sequence + 1
  /\ event' = [sequence |-> sequence + 1, state |-> wants[t]]
  /\ UNCHANGED <<reportingError, reported>>

Assign(t) ==
  /\ Advance(t, "wanted", "assigned")
  /\ \A u \in Threads : ~Holding(u)
  /\ ~reportingError
  /\ sequence' = sequence + 1
  /\ event' = [sequence |-> sequence + 1, state |-> wants[t]]
  /\ UNCHANGED <<reportingError, reported>>

\* Once the sink has failed nothing is emitted any more.
Refuse(t) ==
  /\ Advance(t, "wanted", "refused")
  /\ \A u \in Threads : ~Holding(u)
  /\ reportingError
  /\ UNCHANGED <<sequence, event, reportingError, reported>>

Record(whole) == [sequence |-> event.sequence, state |-> event.state, whole |-> whole]

\* A part of the record is in the file before all of it is.
BeginRecord(t) ==
  /\ Advance(t, "assigned", "appending")
  /\ log' = Append(log, Record(FALSE))
  /\ UNCHANGED <<sequence, event, reportingError, durable, progress>>

EndRecord(t) ==
  /\ Advance(t, "appending", "appended")
  /\ log' = [log EXCEPT ![Len(log)] = Record(TRUE)]
  /\ UNCHANGED <<sequence, event, reportingError, durable, progress>>

\* Mistake: the log is synchronized at checkpoints only.
Synchronize_Checkpoints(t) ==
  /\ Advance(t, "appended", "synchronized")
  /\ durable' = IF event.state = "checkpoint" THEN Len(log) ELSE durable
  /\ UNCHANGED <<sequence, event, reportingError, log, progress>>

Synchronize(t) ==
  /\ Advance(t, "appended", "synchronized")
  /\ durable' = IF event.state # "running" THEN Len(log) ELSE durable
  /\ UNCHANGED <<sequence, event, reportingError, log, progress>>

ReplaceProgress(t) ==
  /\ Advance(t, "synchronized", "reported")
  /\ progress' = event
  /\ UNCHANGED <<sequence, event, reportingError, log, durable>>

\* Mistake: the error is returned but not kept.
SinkFails_Forgotten(t) ==
  /\ Holding(t)
  /\ step[t] = "appended" => event.state # "running"
  /\ Advance(t, step[t], "refused")
  /\ UNCHANGED <<sequence, event, reportingError, reported>>

\* The log cannot be opened, written or synchronized, or the file not replaced.
SinkFails(t) ==
  /\ Holding(t)
  /\ step[t] = "appended" => event.state # "running"
  /\ Advance(t, step[t], "refused")
  /\ reportingError' = TRUE
  /\ UNCHANGED <<sequence, event, reported>>

Emit(t) ==
  \/ Assign(t) \/ Refuse(t) \/ BeginRecord(t) \/ EndRecord(t)
  \/ Synchronize(t) \/ ReplaceProgress(t)

-----------------------------------------------------------------------------
(* The main thread *)

Start ==
  /\ pc["main"] = "created"
  /\ Want("main", "running", "starting")
  /\ UNCHANGED <<sequence, event, reportingError, reporterStop, signals, reported, answer>>

Started ==
  /\ pc["main"] = "starting"
  /\ step["main"] = "reported"
  /\ pc' = [pc EXCEPT !["main"] = "operating", !["reporter"] = "waiting"]
  /\ step' = [step EXCEPT !["main"] = "idle"]
  /\ UNCHANGED <<wants, sequence, event, reportingError, reporterStop, signals, reported, answer>>

StartFails ==
  /\ pc["main"] = "starting"
  /\ step["main"] = "refused"
  /\ pc' = [pc EXCEPT !["main"] = "exited"]
  /\ result' = "failed"
  /\ exitCode' = 1
  /\ UNCHANGED <<step, wants, sequence, event, reportingError, reporterStop, signals, reported>>

SetPhase ==
  /\ pc["main"] = "operating"
  /\ sequence < MaxEvents
  /\ Want("main", "running", "operating")
  /\ UNCHANGED <<sequence, event, reportingError, reporterStop, signals, reported, answer>>

Check == IF stopRequested THEN "cancelled" ELSE IF reportingError THEN "failed" ELSE "success"

Checkpoint ==
  /\ pc["main"] = "operating"
  /\ sequence < MaxEvents
  /\ Check = "success"
  /\ Want("main", "checkpoint", "operating")
  /\ UNCHANGED <<sequence, event, reportingError, reporterStop, signals, reported, answer>>

\* What SetPhase answers is ignored, what Checkpoint answers is not.
Emitted ==
  /\ pc["main"] = "operating"
  /\ \/ step["main"] = "reported"
     \/ step["main"] = "refused" /\ wants["main"] = "running"
  /\ step' = [step EXCEPT !["main"] = "idle"]
  /\ UNCHANGED <<pc, wants, sequence, event, reportingError, reporterStop, signals, reported, answer>>

Return(value) ==
  /\ pc' = [pc EXCEPT !["main"] = "finishing"]
  /\ step' = [step EXCEPT !["main"] = "idle"]
  /\ result' = value
  /\ UNCHANGED <<wants, sequence, event, reportingError, reporterStop, signals, reported, exitCode>>

CheckpointFails ==
  /\ pc["main"] = "operating"
  /\ step["main"] = "refused"
  /\ wants["main"] = "checkpoint"
  /\ Return("failed")

\* The operation polls check_execution, fails by itself, or succeeds.
OperationReturns ==
  /\ pc["main"] = "operating"
  /\ step["main"] = "idle"
  /\ \/ Check # "success" /\ Return(Check)
     \/ Return("failed")
     \/ Return("success")

\* Mistake: the reporter is asked to stop but not waited for.
StopReporter_NoJoin ==
  /\ pc["main"] = "finishing"
  /\ reporterStop' = TRUE
  /\ pc' = [main |-> "joining", reporter |-> "ended"]
  /\ UNCHANGED <<step, wants, sequence, event, reportingError, signals, reported, answer>>

StopReporter ==
  /\ pc["main"] = "finishing"
  /\ reporterStop' = TRUE
  /\ pc' = [pc EXCEPT !["main"] = "joining"]
  /\ UNCHANGED <<step, wants, sequence, event, reportingError, signals, reported, answer>>

TerminalState ==
  CASE result = "success" -> "passed" [] result = "cancelled" -> "cancelled" [] OTHER -> "failed"

Finish ==
  /\ pc["main"] = "joining"
  /\ pc["reporter"] = "ended"
  /\ Want("main", TerminalState, "ending")
  /\ UNCHANGED <<sequence, event, reportingError, reporterStop, signals, reported, answer>>

\* Mistake: what Finish answers is ignored.
ExitStatus_IgnoresSink ==
  CASE result = "success" -> 0 [] result = "cancelled" -> 130 [] OTHER -> 1

ExitStatus ==
  CASE result = "success" /\ step["main"] = "reported" -> 0
    [] result = "cancelled" -> 130
    [] OTHER -> 1

Exit ==
  /\ pc["main"] = "ending"
  /\ step["main"] \in {"reported", "refused"}
  /\ pc' = [pc EXCEPT !["main"] = "exited"]
  /\ exitCode' = ExitStatus
  /\ UNCHANGED <<step, wants, sequence, event, reportingError, reporterStop, signals, reported, result>>

Main ==
  \/ Start \/ Started \/ StartFails \/ SetPhase \/ Checkpoint \/ Emitted
  \/ CheckpointFails \/ OperationReturns \/ StopReporter \/ Finish \/ Exit

-----------------------------------------------------------------------------
(* The other threads and the environment *)

Heartbeat ==
  /\ Alive
  /\ pc["reporter"] = "waiting"
  /\ ~reporterStop
  /\ sequence < MaxEvents
  /\ Want("reporter", "running", "emitting")
  /\ UNCHANGED <<sequence, event, reportingError, reporterStop, signals, reported, answer>>

\* Mistake: the reporter sleeps out its interval without looking at its stop token.
ReporterReturns_Deaf ==
  /\ Alive
  /\ \/ /\ pc["reporter"] = "emitting"
        /\ step["reporter"] \in {"reported", "refused"}
        /\ pc' = [pc EXCEPT !["reporter"] = IF step["reporter"] = "reported"
                                            THEN "waiting" ELSE "ended"]
  /\ step' = [step EXCEPT !["reporter"] = "idle"]
  /\ UNCHANGED <<wants, sequence, event, reportingError, reporterStop, signals, reported, answer>>

\* The wait ends at once when a stop is requested; a failed Emit ends the thread.
ReporterReturns ==
  /\ Alive
  /\ \/ /\ pc["reporter"] = "waiting"
        /\ reporterStop
        /\ pc' = [pc EXCEPT !["reporter"] = "ended"]
     \/ /\ pc["reporter"] = "emitting"
        /\ step["reporter"] \in {"reported", "refused"}
        /\ pc' = [pc EXCEPT !["reporter"] = IF step["reporter"] = "reported"
                                            THEN "waiting" ELSE "ended"]
  /\ step' = [step EXCEPT !["reporter"] = "idle"]
  /\ UNCHANGED <<wants, sequence, event, reportingError, reporterStop, signals, reported, answer>>

\* request_interruption, the handler of SIGINT and SIGTERM.
Signal ==
  /\ Alive
  /\ ~signalled
  /\ signalled' = TRUE
  /\ UNCHANGED <<threads, sequence, event, reportingError, reporterStop, stopRequested, reported, answer>>

Monitor ==
  /\ Alive
  /\ signalled /\ ~stopRequested
  /\ stopRequested' = TRUE
  /\ UNCHANGED <<threads, sequence, event, reportingError, reporterStop, signalled, reported, answer>>

Crash ==
  /\ Alive
  /\ pc' = [pc EXCEPT !["main"] = "crashed"]
  /\ UNCHANGED <<step, wants, sequence, event, reportingError, reporterStop, signals, reported, answer>>

Next ==
  \/ Main \/ Heartbeat \/ ReporterReturns \/ Signal \/ Monitor \/ Crash
  \/ \E t \in Threads : Emit(t) \/ SinkFails(t)

\* The threads keep running, and an operation does not enter phases for ever.
Fairness ==
  /\ WF_vars(Main) /\ SF_vars(OperationReturns) /\ WF_vars(ReporterReturns)
  /\ \A t \in Threads : WF_vars(Emit(t))

Spec == Init /\ [][Next]_vars /\ Fairness

-----------------------------------------------------------------------------
(* Properties *)

States   == {"running", "checkpoint", "passed", "cancelled", "failed"}
Terminal == {"passed", "cancelled", "failed"}
Events   == [sequence : Nat \ {0}, state : States]
Records  == [sequence : Nat \ {0}, state : States, whole : BOOLEAN]

MainPlaces     == {"created", "starting", "operating", "finishing", "joining", "ending",
                   "exited", "crashed"}
ReporterPlaces == {"none", "waiting", "emitting", "ended"}

TypeOK ==
  /\ pc \in [Threads -> MainPlaces \cup ReporterPlaces]
  /\ pc["main"] \in MainPlaces /\ pc["reporter"] \in ReporterPlaces
  /\ step \in [Threads -> {"idle", "wanted", "assigned", "appending", "appended",
                           "synchronized", "reported", "refused"}]
  /\ wants \in [Threads -> States]
  /\ sequence \in Nat
  /\ event \in Events \cup {None}
  /\ {reportingError, reporterStop, signalled, stopRequested} \subseteq BOOLEAN
  /\ log \in Seq(Records)
  /\ durable \in 0 .. Len(log)
  /\ progress \in Events \cup {None}
  /\ result \in {"none", "success", "cancelled", "failed"}
  /\ exitCode \in {None, 0, 1, 130}

\* What the readers of a log rely on, whatever fails and whenever the process
\* dies: two threads emit, but the records are numbered without a gap, and only
\* the last one can be truncated ("Readers tolerate only one truncated trailing
\* NDJSON record after process failure", plans/05).
LogReadable ==
  \A i \in DOMAIN log : log[i].sequence = i /\ (log[i].whole \/ i = Len(log))

\* Nothing follows the terminal event, although the reporter has a clock of its own.
TerminalEventLast == \A i \in 1 .. Len(log) - 1 : log[i].state \notin Terminal

\* Exit status 0 is given only when the passed event is whole and synchronized
\* at the end of the log and in progress.json; 130 only after a signal.
ExitStatusIsBacked ==
  /\ exitCode = 0 =>
       /\ Len(log) > 0
       /\ log[Len(log)] = [sequence |-> sequence, state |-> "passed", whole |-> TRUE]
       /\ durable = Len(log)
       /\ progress = [sequence |-> sequence, state |-> "passed"]
  /\ exitCode = 130 => signalled

\* progress.json never goes back to an older event, and never shows one that
\* the log does not hold.
ProgressFollowsLog ==
  [][progress' # progress =>
       /\ progress # None => progress.sequence < progress'.sequence
       /\ \E i \in DOMAIN log : log[i] = [sequence |-> progress'.sequence,
                                          state |-> progress'.state, whole |-> TRUE]]_vars

\* The command ends: no thread waits for ever for the mutex or the join.
CommandEnds == <>(~Alive)
=============================================================================
