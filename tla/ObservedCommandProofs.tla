------------------------ MODULE ObservedCommandProofs ------------------------
(***************************************************************************)
(* Proofs about an observed command for any number of events. IInv says    *)
(* what the log, its last record and progress.json hold while a thread     *)
(* stands at each step of Emit, and which threads may still emit when the  *)
(* terminal event is due.                                                  *)
(***************************************************************************)
EXTENDS ObservedCommand, TLAPS

\* One thread at a time is within emit_mutex_, with the newest number, and only
\* while the sink has not failed.
EmitInv ==
  /\ \A t, u \in Threads : Holding(t) /\ Holding(u) => t = u
  /\ \A t \in Threads : Holding(t) =>
       /\ ~reportingError
       /\ sequence > 0
       /\ event = [sequence |-> sequence, state |-> wants[t]]
       /\ progress # None => progress.sequence < sequence
  /\ progress # None => progress.sequence <= sequence

AllWhole(n) == Len(log) = n /\ \A i \in 1 .. n : log[i].whole

Last(t, whole) == log[sequence] = [sequence |-> sequence, state |-> wants[t], whole |-> whole]

\* What the log holds at each step of Emit.
LogInv ==
  /\ ~reportingError /\ (\A t \in Threads : ~Holding(t)) => AllWhole(sequence)
  /\ \A t \in Threads :
       /\ step[t] = "assigned" => AllWhole(sequence - 1)
       /\ step[t] = "appending" => Len(log) = sequence /\ Last(t, FALSE)
       /\ step[t] \in {"appended", "synchronized"} => AllWhole(sequence) /\ Last(t, TRUE)
       /\ step[t] = "synchronized" /\ wants[t] # "running" => durable = Len(log)

\* Who emits what, and when.
ThreadInv ==
  /\ wants["reporter"] = "running"
  /\ step["reporter"] # "idle" => pc["reporter"] = "emitting"
  /\ pc["main"] \in {"created", "starting"} => pc["reporter"] = "none"
  /\ pc["main"] = "ending" => pc["reporter"] = "ended" /\ wants["main"] = TerminalState
  /\ pc["main"] \in {"created", "finishing", "joining"} => step["main"] = "idle"
  /\ pc["main"] \notin {"ending", "exited", "crashed"} => wants["main"] \notin Terminal

\* A terminal event is the one the main thread emits last.
TerminalInv ==
  /\ TerminalEventLast
  /\ \A i \in 1 .. Len(log) : log[i].state \in Terminal =>
       /\ pc["main"] \in {"ending", "exited", "crashed"}
       /\ pc["main"] = "ending" => step["main"] \notin {"wanted", "assigned"}

\* What the answer rests on.
AnswerInv ==
  /\ stopRequested => signalled
  /\ result = "cancelled" => signalled
  /\ exitCode # None => pc["main"] = "exited"
  /\ pc["main"] = "ending" /\ step["main"] = "reported" =>
       /\ sequence > 0 /\ Len(log) = sequence /\ Last("main", TRUE)
       /\ durable = Len(log)
       /\ progress = [sequence |-> sequence, state |-> wants["main"]]
  /\ ExitStatusIsBacked

IInv == TypeOK /\ EmitInv /\ LogReadable /\ LogInv /\ ThreadInv /\ TerminalInv /\ AnswerInv

-----------------------------------------------------------------------------

LEMMA InitIInv == Init => IInv
<1> SUFFICES ASSUME Init PROVE IInv
  OBVIOUS
<1> USE NoneAssumption DEF Init, Threads
<1>1. Len(log) = 0 /\ log \in Seq(Records)
  OBVIOUS
<1>2. TypeOK
  <2>1. pc \in [Threads -> MainPlaces \cup ReporterPlaces]
    BY DEF MainPlaces, ReporterPlaces
  <2>2. pc["main"] \in MainPlaces /\ pc["reporter"] \in ReporterPlaces
    BY DEF MainPlaces, ReporterPlaces
  <2>3. wants \in [Threads -> States]
    BY DEF States
  <2>4. durable \in 0 .. Len(log)
    BY <1>1
  <2> QED BY <1>1, <2>1, <2>2, <2>3, <2>4 DEF TypeOK
<1>3. EmitInv /\ LogReadable /\ LogInv
  BY <1>1 DEF EmitInv, LogReadable, LogInv, AllWhole, Last, Holding
<1>4. ThreadInv /\ TerminalInv /\ AnswerInv
  BY <1>1 DEF ThreadInv, TerminalInv, TerminalEventLast, AnswerInv, ExitStatusIsBacked, Terminal
<1> QED BY <1>2, <1>3, <1>4 DEF IInv

\* Outside of Emit nothing is reported.
LEMMA ThreadStep ==
  ASSUME IInv, Main \/ Heartbeat \/ ReporterReturns \/ Signal \/ Monitor \/ Crash
  PROVE  IInv'
<1> USE NoneAssumption DEF IInv, Threads, States, Events, threads, signals, reported, answer,
    TypeOK, EmitInv, LogReadable, LogInv, ThreadInv, TerminalInv,
    AnswerInv, MainPlaces, ReporterPlaces, AllWhole, Last, Holding, TerminalState, Terminal,
    TerminalEventLast, ExitStatusIsBacked
<1>1. CASE Start
  BY <1>1 DEF Start, Want
<1>2. CASE Started
  BY <1>2 DEF Started
<1>3. CASE StartFails
  BY <1>3 DEF StartFails
<1>4. CASE SetPhase
  BY <1>4 DEF SetPhase, Want
<1>5. CASE Checkpoint
  BY <1>5 DEF Checkpoint, Want, Check
<1>6. CASE Emitted
  BY <1>6 DEF Emitted
<1>7. CASE CheckpointFails
  BY <1>7 DEF CheckpointFails, Return
<1>8. CASE OperationReturns
  <2>1. PICK value \in {"success", "cancelled", "failed"} :
          Return(value) /\ (value = "cancelled" => stopRequested)
    BY <1>8 DEF OperationReturns, Check
  <2>2. pc["main"] = "operating" /\ step["main"] = "idle"
    BY <1>8 DEF OperationReturns
  <2> QED BY <2>1, <2>2 DEF Return
<1>9. CASE StopReporter
  BY <1>9 DEF StopReporter
<1>10. CASE Finish
  BY <1>10 DEF Finish, Want, TerminalState
<1>11. CASE Exit
  <2>1. exitCode' \in {0, 1, 130}
    BY <1>11 DEF Exit, ExitStatus
  <2>2. exitCode' = 0 => result = "success" /\ step["main"] = "reported"
    BY <1>11 DEF Exit, ExitStatus
  <2>3. exitCode' = 130 => result = "cancelled"
    BY <1>11 DEF Exit, ExitStatus
  <2>4. pc["main"] = "ending" /\ step["main"] \in {"reported", "refused"}
    BY <1>11 DEF Exit
  <2>5. UNCHANGED <<step, wants, sequence, event, reportingError, reporterStop, signals, reported, result>>
        /\ pc' = [pc EXCEPT !["main"] = "exited"]
    BY <1>11 DEF Exit
  <2>6. (TypeOK /\ EmitInv /\ LogReadable /\ LogInv /\ ThreadInv /\ TerminalInv)'
    BY <2>1, <2>4, <2>5
  <2>7. ExitStatusIsBacked'
    BY <2>1, <2>2, <2>3, <2>4, <2>5
  <2> QED BY <2>1, <2>4, <2>5, <2>6, <2>7
<1>12. CASE Heartbeat
  BY <1>12 DEF Heartbeat, Want, Alive
<1>13. CASE ReporterReturns
  BY <1>13 DEF ReporterReturns, Alive
<1>14. CASE Signal
  BY <1>14 DEF Signal, Alive
<1>15. CASE Monitor
  BY <1>15 DEF Monitor, Alive
<1>16. CASE Crash
  BY <1>16 DEF Crash, Alive
<1> QED BY <1>1, <1>2, <1>3, <1>4, <1>5, <1>6, <1>7, <1>8, <1>9, <1>10, <1>11, <1>12, <1>13, <1>14, <1>15, <1>16 DEF Main

\* The steps of Emit that leave the log alone.
LEMMA EmitStep ==
  ASSUME IInv, NEW t \in Threads,
         Assign(t) \/ Refuse(t) \/ Synchronize(t) \/ ReplaceProgress(t) \/ SinkFails(t)
  PROVE  IInv'
<1> USE NoneAssumption DEF IInv, Threads, States, Events, threads, signals, reported, answer,
    TypeOK, EmitInv, LogReadable, LogInv, ThreadInv, TerminalInv,
    AnswerInv, MainPlaces, ReporterPlaces, AllWhole, Last, Holding, TerminalState, Terminal,
    TerminalEventLast, ExitStatusIsBacked
<1>1. CASE Assign(t)
  BY <1>1 DEF Assign, Advance, Alive
<1>2. CASE Refuse(t)
  BY <1>2 DEF Refuse, Advance, Alive
<1>3. CASE Synchronize(t)
  BY <1>3 DEF Synchronize, Advance, Alive
<1>4. CASE ReplaceProgress(t)
  BY <1>4 DEF ReplaceProgress, Advance, Alive, Record, Records
<1>5. CASE SinkFails(t)
  BY <1>5 DEF SinkFails, Advance, Alive
<1> QED BY <1>1, <1>2, <1>3, <1>4, <1>5

\* A record is appended to a log that is whole.
LEMMA BeginRecordStep ==
  ASSUME IInv, NEW t \in Threads, BeginRecord(t)
  PROVE  IInv'
<1> DEFINE new == [sequence |-> sequence, state |-> wants[t], whole |-> FALSE]
<1>1. /\ Holding(t) /\ step[t] = "assigned" /\ AllWhole(sequence - 1)
      /\ ~reportingError /\ sequence \in Nat /\ sequence > 0 /\ log \in Seq(Records)
      /\ pc["main"] \notin {"exited", "crashed"}
      /\ wants[t] \in States
  BY ZenonT(120) DEF BeginRecord, Advance, Alive, IInv, Holding, EmitInv, LogInv, TypeOK
<1>2. event = [sequence |-> sequence, state |-> wants[t]]
  BY <1>1 DEF IInv, EmitInv
<1>3. log' = Append(log, new)
  BY <1>2 DEF BeginRecord, Record
<1>4. new \in Records
  BY <1>1 DEF Records
<1>5. /\ log' \in Seq(Records) /\ Len(log') = sequence /\ log'[sequence] = new
      /\ \A i \in 1 .. sequence - 1 : log'[i] = log[i]
      /\ Len(log) = sequence - 1
  BY <1>1, <1>3, <1>4 DEF AllWhole
<1>6. /\ step' = [step EXCEPT ![t] = "appending"]
      /\ UNCHANGED <<pc, wants, reporterStop, signals, answer, sequence, event, reportingError,
                     durable, progress>>
  BY DEF BeginRecord, Advance
<1>7. TypeOK'
  BY <1>1, <1>5, <1>6 DEF IInv, TypeOK, signals, answer
<1>8. EmitInv'
  BY <1>1, <1>6 DEF IInv, EmitInv, Holding, TypeOK
<1>9. LogReadable'
  <2>1. \A i \in 1 .. sequence - 1 : log[i].sequence = i /\ log[i].whole
    BY <1>1 DEF IInv, LogReadable, AllWhole
  <2> QED BY <1>1, <1>5, <1>6, <2>1 DEF LogReadable
<1>10. LogInv'
  <2>1. \A u \in Threads : u # t => ~Holding(u)
    BY <1>1 DEF IInv, EmitInv
  <2> QED BY ZenonT(120), <1>1, <1>5, <1>6, <2>1 DEF IInv, LogInv, AllWhole, Last, Holding, TypeOK
<1>11. ThreadInv'
  BY <1>1, <1>6 DEF IInv, ThreadInv, TypeOK, Threads, TerminalState, answer
<1>12. TerminalInv'
  <2>1. \A i \in 1 .. Len(log) : log[i].state \notin Terminal
    BY <1>1 DEF IInv, TerminalInv, ThreadInv, Threads
  <2>2. wants[t] \in Terminal => t = "main" /\ pc["main"] = "ending"
    BY <1>1 DEF IInv, ThreadInv, Threads, Terminal
  <2>3. TerminalEventLast'
    BY <1>1, <1>5, <2>1 DEF TerminalEventLast
  <2>4. ASSUME NEW i \in 1 .. Len(log'), log'[i].state \in Terminal
        PROVE  pc'["main"] = "ending" /\ step'["main"] = "appending"
    <3>1. i = sequence
      BY <1>1, <1>5, <2>1, <2>4
    <3>2. wants[t] \in Terminal
      BY <1>5, <2>4, <3>1
    <3> QED BY <1>6, <2>2, <3>2 DEF IInv, TypeOK, Threads
  <2> QED BY <2>3, <2>4 DEF TerminalInv
<1>13. AnswerInv'
  <2>1. exitCode = None
    BY <1>1 DEF IInv, AnswerInv
  <2>2. ~(pc["main"] = "ending" /\ step'["main"] = "reported")
    BY <1>1, <1>6 DEF IInv, ThreadInv, TypeOK, Threads
  <2>3. ExitStatusIsBacked'
    BY NoneAssumption, <1>6, <2>1 DEF ExitStatusIsBacked, answer
  <2>4. /\ stopRequested' => signalled'
        /\ result' = "cancelled" => signalled'
        /\ exitCode' = None
    BY <1>6, <2>1 DEF IInv, AnswerInv, signals, answer
  <2>5. ~(pc'["main"] = "ending" /\ step'["main"] = "reported")
    BY <1>6, <2>2
  <2> QED BY <2>3, <2>4, <2>5 DEF AnswerInv
<1> QED BY <1>7, <1>8, <1>9, <1>10, <1>11, <1>12, <1>13 DEF IInv

\* Its last part makes the record whole.
LEMMA EndRecordStep ==
  ASSUME IInv, NEW t \in Threads, EndRecord(t)
  PROVE  IInv'
<1> DEFINE new == [sequence |-> sequence, state |-> wants[t], whole |-> TRUE]
<1>1. /\ Holding(t) /\ step[t] = "appending"
      /\ Len(log) = sequence /\ log[sequence] = [new EXCEPT !.whole = FALSE]
      /\ ~reportingError /\ sequence \in Nat /\ sequence > 0 /\ log \in Seq(Records)
      /\ pc["main"] \notin {"exited", "crashed"}
      /\ wants[t] \in States
  BY DEF EndRecord, Advance, Alive, IInv, Holding, EmitInv, LogInv, Last, TypeOK
<1>2. event = [sequence |-> sequence, state |-> wants[t]]
  BY <1>1 DEF IInv, EmitInv
<1>3. log' = [log EXCEPT ![sequence] = new]
  BY <1>1, <1>2 DEF EndRecord, Record
<1>4. new \in Records
  BY <1>1 DEF Records
<1>5. /\ log' \in Seq(Records) /\ Len(log') = sequence /\ log'[sequence] = new
      /\ \A i \in 1 .. sequence - 1 : log'[i] = log[i]
  BY <1>1, <1>3, <1>4
<1>6. /\ step' = [step EXCEPT ![t] = "appended"]
      /\ UNCHANGED <<pc, wants, reporterStop, signals, answer, sequence, event, reportingError,
                     durable, progress>>
  BY DEF EndRecord, Advance
<1>7. TypeOK'
  BY <1>1, <1>5, <1>6 DEF IInv, TypeOK, signals, answer
<1>8. EmitInv'
  BY <1>1, <1>6 DEF IInv, EmitInv, Holding, TypeOK
<1>9. /\ LogReadable'
      /\ AllWhole(sequence)'
  <2>1. \A i \in 1 .. sequence - 1 : log[i].sequence = i /\ log[i].whole
    BY <1>1 DEF IInv, LogReadable
  <2>2. \A i \in 1 .. sequence : log'[i].sequence = i /\ log'[i].whole
    BY <1>1, <1>5, <2>1
  <2>3. DOMAIN log' = 1 .. sequence /\ sequence' = sequence
    BY <1>5, <1>6
  <2> QED BY <1>5, <2>2, <2>3 DEF LogReadable, AllWhole
<1>10. LogInv'
  <2>1. \A u \in Threads : u # t => ~Holding(u)
    BY <1>1 DEF IInv, EmitInv
  <2>2. \A u \in Threads : u # t => step'[u] = step[u]
    BY <1>6 DEF IInv, TypeOK
  <2>3. step'[t] = "appended"
    BY <1>6 DEF IInv, TypeOK
  <2>4. Last(t, TRUE)'
    BY <1>5, <1>6 DEF Last
  <2> QED BY <1>9, <2>1, <2>2, <2>3, <2>4 DEF LogInv, Holding
<1>11. ThreadInv'
  BY <1>1, <1>6 DEF IInv, ThreadInv, TypeOK, Threads, TerminalState, answer
<1>12. TerminalInv'
  <2>1. \A i \in 1 .. Len(log) : log'[i].state = log[i].state
    BY <1>1, <1>5
  <2> QED BY <1>1, <1>5, <1>6, <2>1 DEF TerminalInv, TerminalEventLast, IInv, TypeOK
<1>13. AnswerInv'
  <2>1. exitCode = None
    BY <1>1 DEF IInv, AnswerInv
  <2>2. ~(pc["main"] = "ending" /\ step'["main"] = "reported")
    BY <1>1, <1>6 DEF IInv, ThreadInv, TypeOK, Threads
  <2>3. ExitStatusIsBacked'
    BY NoneAssumption, <1>6, <2>1 DEF ExitStatusIsBacked, answer
  <2>4. /\ stopRequested' => signalled'
        /\ result' = "cancelled" => signalled'
        /\ exitCode' = None
    BY <1>6, <2>1 DEF IInv, AnswerInv, signals, answer
  <2>5. ~(pc'["main"] = "ending" /\ step'["main"] = "reported")
    BY <1>6, <2>2
  <2> QED BY <2>3, <2>4, <2>5 DEF AnswerInv
<1> QED BY <1>7, <1>8, <1>9, <1>10, <1>11, <1>12, <1>13 DEF IInv

LEMMA NextIInv == IInv /\ [Next]_vars => IInv'
<1> SUFFICES ASSUME IInv, [Next]_vars PROVE IInv'
  OBVIOUS
<1>1. CASE UNCHANGED vars
  BY <1>1 DEF vars, threads, signals, reported, answer, IInv, TypeOK, EmitInv, LogReadable, LogInv,
    ThreadInv, TerminalInv, AnswerInv, AllWhole, Last, Holding, TerminalState, TerminalEventLast,
    ExitStatusIsBacked
<1>2. CASE Main \/ Heartbeat \/ ReporterReturns \/ Signal \/ Monitor \/ Crash
  BY <1>2, ThreadStep
<1>3. CASE \E t \in Threads : Emit(t) \/ SinkFails(t)
  BY <1>3, EmitStep, BeginRecordStep, EndRecordStep DEF Emit
<1> QED BY <1>1, <1>2, <1>3 DEF Next

THEOREM ObservedCommandInvariant == Spec => []IInv
  BY InitIInv, NextIInv, PTL DEF Spec

\* Threads, log and answer keep their types.
THEOREM TypeCorrect == Spec => []TypeOK
<1>1. IInv => TypeOK
  BY DEF IInv
<1> QED BY <1>1, ObservedCommandInvariant, PTL

\* The log can always be read, for any number of events and any failure: its
\* records are numbered without a gap, and only the last one can be truncated.
THEOREM LogAlwaysReadable == Spec => []LogReadable
<1>1. IInv => LogReadable
  BY DEF IInv
<1> QED BY <1>1, ObservedCommandInvariant, PTL

\* No heartbeat lands behind the terminal event.
THEOREM NothingAfterTheEnd == Spec => []TerminalEventLast
<1>1. IInv => TerminalEventLast
  BY DEF IInv, TerminalInv
<1> QED BY <1>1, ObservedCommandInvariant, PTL

\* Exit status 0 is backed by a whole, synchronized passed event.
THEOREM ExitStatusAlwaysBacked == Spec => []ExitStatusIsBacked
<1>1. IInv => ExitStatusIsBacked
  BY DEF IInv, AnswerInv
<1> QED BY <1>1, ObservedCommandInvariant, PTL

\* progress.json never goes back and never runs ahead of the log.
THEOREM ProgressAlwaysFollowsLog == Spec => ProgressFollowsLog
<1>1. ASSUME IInv, [Next]_vars, progress' # progress
      PROVE  /\ progress # None => progress.sequence < progress'.sequence
             /\ \E i \in DOMAIN log : log[i] = [sequence |-> progress'.sequence,
                                                state |-> progress'.state, whole |-> TRUE]
  <2>1. PICK t \in Threads : ReplaceProgress(t)
    BY <1>1 DEF Next, Main, Start, Started, StartFails, SetPhase, Checkpoint, Emitted,
      CheckpointFails, OperationReturns, Return, StopReporter, Finish, Exit, Heartbeat,
      ReporterReturns, Signal, Monitor, Crash, Emit, Assign, Refuse, BeginRecord, EndRecord,
      Synchronize, SinkFails, reported, vars
  <2>2. Holding(t) /\ step[t] = "synchronized" /\ progress' = event
    BY <2>1 DEF ReplaceProgress, Advance, Holding
  <2>3. /\ event = [sequence |-> sequence, state |-> wants[t]]
        /\ progress # None => progress.sequence < sequence
        /\ sequence \in Nat /\ sequence > 0
    BY <1>1, <2>2 DEF IInv, EmitInv, TypeOK
  <2>4. /\ sequence \in DOMAIN log
        /\ log[sequence] = [sequence |-> sequence, state |-> wants[t], whole |-> TRUE]
    <3>1. AllWhole(sequence) /\ Last(t, TRUE) /\ log \in Seq(Records)
      BY <1>1, <2>2 DEF IInv, LogInv, TypeOK
    <3> QED BY <2>3, <3>1 DEF AllWhole, Last
  <2> QED BY <2>2, <2>3, <2>4
<1> QED BY <1>1, ObservedCommandInvariant, PTL DEF Spec, ProgressFollowsLog
=============================================================================
