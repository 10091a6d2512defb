-------------------------- MODULE ObservedRunProofs --------------------------
(***************************************************************************)
(* Proofs about the run observer for any number of cancellations and       *)
(* interrupts. IInv relates the place of the supervisor to what it has     *)
(* written, to what it knows of the requests and to its child.             *)
(***************************************************************************)
EXTENDS ObservedRun, TLAPS

\* What status.json says while the supervisor stands at each place.
StatusInv ==
  /\ pc = "loading" => status.state = "created"
  /\ pc \in {"spawning", "assigning", "spawned"} => status.state = "starting"
  /\ status.state = "cancel_requested" => memory.requested
  /\ TERMINAL => pc \in {"returning", "interrupted", "awaiting", "cancelled", "exited", "dead"}

\* The supervisor remembers only what somebody asked for.
RequestInv ==
  /\ memory.sent => memory.requested
  /\ memory.force => memory.requested
  /\ memory.requested => request # None
  /\ pc \in {"interrupted", "awaiting", "cancelled"} => interrupts > 0

\* What the supervisor may assume of its child, and when it knows it.
ChildInv ==
  /\ (child = "ended") = (childCode # None)
  /\ pc \in {"loading", "spawning"} => child = "none"
  /\ pc \in {"loading", "spawning", "assigning"} => ~memory.known
  /\ pc = "assigning" => child # "none"
  /\ pc \in {"spawned", "polling", "looking", "delivering", "reporting"} =>
       child # "none" /\ memory.known
  /\ pc \in {"closing", "finishing", "returning"} => child = "ended" /\ memory.known
  /\ pc = "failing" => memory.known \/ child = "none"
  /\ pc = "cancelled" => child # "running" \/ ~memory.known
  /\ pc \in {"reaping", "recording"} => child # "running" \/ sig = "kill" \/ refused

\* The exit code in the supervisor's memory is that of its child.
CodeInv ==
  /\ memory.code \in {None, childCode}
  /\ pc \in {"finishing", "returning"} => memory.code = childCode

IInv ==
  /\ TypeOK /\ StatusInv /\ RequestInv /\ ChildInv /\ CodeInv
  /\ TerminalStatusIsTrue /\ NoChildLeftBehind /\ KillIsOptIn

-----------------------------------------------------------------------------

\* Before the supervisor runs nothing is written, requested or started.
LEMMA InitIInv == Init => IInv
<1> SUFFICES ASSUME Init PROVE IInv
  OBVIOUS
<1>1. TypeOK
  <2>1. memory \in Memories
    BY DEF Init, Memories, Codes
  <2>2. 0 \in 0 .. MaxInterrupts /\ 0 \in 0 .. MaxCancels
    BY BoundAssumption
  <2> QED BY <2>1, <2>2 DEF Init, TypeOK, Codes
<1>2. StatusInv /\ RequestInv /\ ChildInv /\ CodeInv
  BY NoneAssumption DEF Init, StatusInv, RequestInv, ChildInv, CodeInv, TERMINAL, TerminalStates
<1>3. TerminalStatusIsTrue /\ NoChildLeftBehind /\ KillIsOptIn
  BY DEF Init, TerminalStatusIsTrue, NoChildLeftBehind, KillIsOptIn, TERMINAL, TerminalStates
<1> QED BY <1>1, <1>2, <1>3 DEF IInv

\* The supervisor's loop and its regular way out.
LEMMA SuperviseStep ==
  ASSUME IInv, Supervise
  PROVE  IInv'
<1> USE BoundAssumption, NoneAssumption DEF IInv, TypeOK, StatusInv, RequestInv, ChildInv, CodeInv, TerminalStatusIsTrue,
    NoChildLeftBehind, KillIsOptIn, TERMINAL, TerminalStates, Trying, Requests, Codes, Memories,
    world, setting, canceler, process
<1>1. CASE Load
  BY <1>1 DEF Load, Goto, Write
<1>2. CASE Spawn
  BY <1>2 DEF Spawn, Goto
<1>3. CASE Assign
  <2>1. /\ memory' \in Memories /\ memory'.known
        /\ memory'.requested = memory.requested /\ memory'.force = memory.force
        /\ memory'.sent = memory.sent /\ memory'.code = memory.code
    BY <1>3 DEF Assign
  <2> QED BY <1>3, <2>1 DEF Assign, Goto
<1>10. CASE Conclude
  <2>1. /\ memory' \in Memories /\ memory'.known = memory.known
        /\ memory'.requested = memory.requested /\ memory'.force = memory.force
        /\ memory'.sent = memory.sent /\ memory'.code = childCode
    BY <1>10 DEF Conclude
  <2> QED BY <1>10, <2>1 DEF Conclude, Goto
<1>9. CASE Spawned
  BY <1>9 DEF Spawned, Goto, Write
<1>4. CASE Poll
  BY <1>4 DEF Poll, Goto
<1>5. CASE Look
  <2>1. /\ memory' \in Memories
        /\ memory'.force => memory'.requested
        /\ memory'.sent = memory.sent /\ (memory.force => memory'.force)
        /\ memory'.known = memory.known /\ memory'.code = memory.code
        /\ memory'.requested => request # None
        /\ memory.requested => memory'.requested
    BY <1>5 DEF Look
  <2> QED BY <1>5, <2>1 DEF Look, Goto
<1>6. CASE Report
  BY <1>6 DEF Report, Goto, Write
<1>7. CASE Finish
  BY <1>7 DEF Finish, Goto, Write, Verdict
<1>8. CASE Return
  BY <1>8 DEF Return, Exit, Goto
<1> QED BY <1>1, <1>2, <1>3, <1>4, <1>5, <1>6, <1>7, <1>8, <1>9, <1>10 DEF Supervise

\* The delivery of a request, and the failures of the supervisor.
LEMMA FailureStep ==
  ASSUME IInv, Deliver \/ DeliveryFails \/ WriteFails \/ Fails \/ Interrupt \/ Killed
  PROVE  IInv'
<1> USE BoundAssumption, NoneAssumption DEF IInv, TypeOK, StatusInv, RequestInv, ChildInv, CodeInv, TerminalStatusIsTrue,
    NoChildLeftBehind, KillIsOptIn, TERMINAL, TerminalStates, Trying, Requests, Codes, Memories,
    world, setting, canceler, process
<1>1. CASE Deliver
  <2>1. CASE memory.requested /\ ~memory.sent
    <3>1. memory' = [memory EXCEPT !.sent = TRUE]
      BY <1>1, <2>1 DEF Deliver
    <3>2. /\ memory' \in Memories
          /\ memory'.requested = memory.requested /\ memory'.force = memory.force
          /\ memory'.known = memory.known /\ memory'.code = memory.code
      BY <3>1
    <3>3. Signal(memory.force)
      BY <1>1, <2>1 DEF Deliver
    <3> QED BY <1>1, <2>1, <3>2, <3>3 DEF Deliver, Goto, Signal
  <2>2. CASE ~(memory.requested /\ ~memory.sent)
    BY <1>1, <2>2 DEF Deliver, Goto
  <2> QED BY <2>1, <2>2
<1>2. CASE DeliveryFails
  BY <1>2 DEF DeliveryFails, Goto
<1>3. CASE WriteFails
  BY <1>3 DEF WriteFails, Exit, Goto
<1>4. CASE Fails
  <2>1. TypeOK'
    BY <1>4 DEF Fails, Goto
  <2>2. StatusInv' /\ RequestInv' /\ ChildInv' /\ CodeInv'
    BY <1>4 DEF Fails, Goto
  <2>3. TerminalStatusIsTrue' /\ NoChildLeftBehind' /\ KillIsOptIn'
    BY <1>4 DEF Fails, Goto
  <2> QED BY <2>1, <2>2, <2>3
<1>5. CASE Interrupt
  BY <1>5 DEF Interrupt
<1>6. CASE Killed
  BY <1>6 DEF Killed
<1> QED BY <1>1, <1>2, <1>3, <1>4, <1>5, <1>6

\* The handlers of a failure and of an interrupt, and their own failures.
LEMMA HandleStep ==
  ASSUME IInv, Handle \/ KillFails \/ InterruptFails
  PROVE  IInv'
<1> USE BoundAssumption, NoneAssumption DEF IInv, TypeOK, StatusInv, RequestInv, ChildInv, CodeInv, TerminalStatusIsTrue,
    NoChildLeftBehind, KillIsOptIn, TERMINAL, TerminalStates, Trying, Requests, Codes, Memories,
    world, setting, canceler, process
<1>1. CASE KillChild
  BY <1>1 DEF KillChild, Goto, Signal
<1>2. CASE Reap
  BY <1>2 DEF Reap, Goto
<1>3. CASE RecordFailure
  BY <1>3 DEF RecordFailure, Exit, Goto
<1>4. CASE InterruptChild
  BY <1>4 DEF InterruptChild, Goto, Signal
<1>5. CASE AwaitChild
  BY <1>5 DEF AwaitChild, Goto
<1>6. CASE RecordCancellation
  BY <1>6 DEF RecordCancellation, Exit, Goto, Write
<1>7. CASE KillFails
  BY <1>7 DEF KillFails, Goto
<1>8. CASE InterruptFails
  BY <1>8 DEF InterruptFails, Exit, Goto
<1> QED BY <1>1, <1>2, <1>3, <1>4, <1>5, <1>6, <1>7, <1>8 DEF Handle

\* The child and the commands of other users.
LEMMA EnvironmentStep ==
  ASSUME IInv, Ends \/ Obeys \/ CancelReads \/ CancelWrites
  PROVE  IInv'
<1> USE BoundAssumption, NoneAssumption DEF IInv, TypeOK, StatusInv, RequestInv, ChildInv, CodeInv, TerminalStatusIsTrue,
    NoChildLeftBehind, KillIsOptIn, TERMINAL, TerminalStates, Trying, Requests, Codes, Memories,
    world, setting, canceler, process
<1>1. CASE Ends
  <2>1. TypeOK'
    BY <1>1 DEF Ends, End
  <2>2. StatusInv' /\ RequestInv' /\ ChildInv' /\ CodeInv'
    BY <1>1 DEF Ends, End
  <2>3. TerminalStatusIsTrue' /\ NoChildLeftBehind' /\ KillIsOptIn'
    BY <1>1 DEF Ends, End
  <2> QED BY <2>1, <2>2, <2>3
<1>2. CASE Obeys
  <2>1. TypeOK'
    BY <1>2 DEF Obeys, End
  <2>2. StatusInv' /\ RequestInv' /\ ChildInv' /\ CodeInv'
    BY <1>2 DEF Obeys, End
  <2>3. TerminalStatusIsTrue' /\ NoChildLeftBehind' /\ KillIsOptIn'
    BY <1>2 DEF Obeys, End
  <2> QED BY <2>1, <2>2, <2>3
<1>3. CASE CancelReads
  BY <1>3 DEF CancelReads
<1>4. CASE CancelWrites
  BY <1>4 DEF CancelWrites
<1> QED BY <1>1, <1>2, <1>3, <1>4

LEMMA NextIInv == IInv /\ [Next]_vars => IInv'
<1> SUFFICES ASSUME IInv, [Next]_vars PROVE IInv'
  OBVIOUS
<1>1. CASE UNCHANGED vars
  BY <1>1 DEF vars, setting, process, canceler, IInv, TypeOK, StatusInv, RequestInv, ChildInv, CodeInv,
    TerminalStatusIsTrue, NoChildLeftBehind, KillIsOptIn, TERMINAL
<1>2. CASE Next
  BY <1>2, SuperviseStep, FailureStep, HandleStep, EnvironmentStep DEF Next
<1> QED BY <1>1, <1>2

THEOREM ObservedRunInvariant == Spec => []IInv
  BY InitIInv, NextIInv, PTL DEF Spec

\* The status, the supervisor's memory and what is known of the child keep their
\* types, and the supervisor exits with a code.
THEOREM TypeCorrect == Spec => []TypeOK
<1>1. IInv => TypeOK
  BY DEF IInv
<1> QED BY <1>1, ObservedRunInvariant, PTL

\* A terminal status tells how the child ended, also when writing it failed at first,
\* for any number of cancellations and interrupts.
THEOREM TerminalStatusAlwaysTrue == Spec => []TerminalStatusIsTrue
<1>1. IInv => TerminalStatusIsTrue
  BY DEF IInv
<1> QED BY <1>1, ObservedRunInvariant, PTL

\* No path out of supervise leaves a running child behind a terminal status, except
\* a refused kill and an interrupt before the supervisor knows its child.
THEOREM NoOrphan == Spec => []NoChildLeftBehind
<1>1. IInv => NoChildLeftBehind
  BY DEF IInv
<1> QED BY <1>1, ObservedRunInvariant, PTL

\* A child is killed only for --force or when the supervisor gives up.
THEOREM KillNeedsForce == Spec => []KillIsOptIn
<1>1. IInv => KillIsOptIn
  BY DEF IInv
<1> QED BY <1>1, ObservedRunInvariant, PTL

\* status.json never goes back, and a terminal status is replaced only by an
\* interrupt between the last write and the return.
THEOREM StatusMonotone == Spec => StatusNeverGoesBack
<1>1. ASSUME IInv, [Next]_vars, status' # status
      PROVE  /\ Rank(status) <= Rank(status')
             /\ TERMINAL => status'.state = "cancelled" /\ pc = "cancelled"
  <2> USE <1>1 DEF IInv, StatusInv, TERMINAL, TerminalStates
  <2>1. status.state \in TerminalStates \cup {"created", "starting", "running", "cancel_requested"}
    BY DEF TypeOK
  <2>2. CASE Load
    BY <2>2, <2>1 DEF Load, Goto, Write, Rank
  <2>3. CASE Spawned
    BY <2>3, <2>1 DEF Spawned, Goto, Write, Rank
  <2>4. CASE Report
    BY <2>4, <2>1 DEF Report, Goto, Write, Rank
  <2>5. CASE Finish
    BY <2>5, <2>1 DEF Finish, Goto, Write, Verdict, Rank
  <2>6. CASE RecordFailure
    BY <2>6, <2>1 DEF RecordFailure, Exit, Goto, Rank
  <2>7. CASE RecordCancellation
    BY <2>7, <2>1 DEF RecordCancellation, Exit, Goto, Write, Rank
  <2>8. Load \/ Spawned \/ Report \/ Finish \/ RecordFailure \/ RecordCancellation
    BY DEF Next, Supervise, Handle, KillFails, InterruptFails, Spawn, Assign, Conclude, Poll, Look, Return, Deliver, DeliveryFails, WriteFails,
      Fails, KillChild, Reap, InterruptChild, AwaitChild, Interrupt, Killed, Ends, Obeys, End,
      CancelReads, CancelWrites, vars
  <2> QED BY <2>2, <2>3, <2>4, <2>5, <2>6, <2>7, <2>8
<1> QED BY <1>1, ObservedRunInvariant, PTL DEF Spec, StatusNeverGoesBack
=============================================================================
