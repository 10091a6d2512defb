----------------------------- MODULE ObservedRun -----------------------------
(***************************************************************************)
(* One attempt of the run observer (src/tools/run_observed.py) on a POSIX  *)
(* system: the supervisor (supervise, in the foreground for "run",         *)
(* detached for "start"), its child, a user who cancels,                    *)
(* and the files status.json and cancel.request.json they meet in. A file  *)
(* operation of the supervisor may fail, a signal may be refused, a        *)
(* foreground supervisor may be interrupted from the keyboard, and the     *)
(* supervisor may be killed.                                               *)
(***************************************************************************)
EXTENDS Integers

CONSTANTS
  MaxCancels,     \* bound: cancel commands
  MaxInterrupts,  \* bound: keyboard interrupts
  None

ASSUME BoundAssumption == {MaxCancels, MaxInterrupts} \subseteq Nat

\* No exit code and no request is None.
ASSUME NoneAssumption == None \notin Int \cup [force : BOOLEAN]

VARIABLES
  foreground,  \* "run", else "start"
  deaf,        \* the child ignores an interrupt and never ends by itself
  pc,          \* where the supervisor stands
  memory,      \* whether it has assigned child, cancellation_requested,
               \* cancellation_force, cancellation_sent, exit_code of its status
  answer,      \* its exit code
  interrupts,  \* keyboard interrupts so far
  child,       \* none, running or ended
  childCode,   \* its return code
  sig,         \* the strongest signal sent to it
  refused,     \* the system refused to kill it
  status,      \* status.json: state, exit_code, whether it has an error
  request,     \* cancel.request.json
  cancelling,  \* a cancel command between its read and its write
  cancels      \* cancel commands so far

setting  == <<foreground, deaf>>
process  == <<child, childCode, sig, refused>>
canceler == <<cancelling, cancels>>
vars == <<setting, pc, memory, answer, interrupts, process, status, request, canceler>>
world == <<setting, interrupts, request, canceler>>

TerminalStates == {"passed", "failed", "cancelled"}
TERMINAL == status.state \in TerminalStates

Init ==
  /\ foreground \in BOOLEAN
  /\ deaf \in BOOLEAN
  /\ pc = "loading"
  /\ memory = [known |-> FALSE, requested |-> FALSE, force |-> FALSE, sent |-> FALSE,
               code |-> None]
  /\ answer = None
  /\ interrupts = 0
  /\ child = "none" /\ childCode = None /\ sig = "none" /\ refused = FALSE
  /\ status = [state |-> "created", code |-> None, error |-> FALSE]
  /\ request = None
  /\ cancelling = None /\ cancels = 0

-----------------------------------------------------------------------------
(* The supervisor *)

Write(state, code) == status' = [state |-> state, code |-> code, error |-> FALSE]

Goto(from, to) ==
  /\ pc = from
  /\ pc' = to
  /\ UNCHANGED world

\* 1 stands for 1 and 2, the answers to an error.
Exit(from, code) ==
  /\ Goto(from, "exited")
  /\ answer' = code
  /\ UNCHANGED memory

Load ==
  /\ Goto("loading", "spawning")
  /\ Write("starting", None)
  /\ UNCHANGED <<memory, answer, process>>

\* Popen has started the child and has not returned.
Spawn ==
  /\ Goto("spawning", "assigning")
  /\ child' = "running"
  /\ UNCHANGED <<memory, answer, childCode, sig, refused, status>>

Assign ==
  /\ Goto("assigning", "spawned")
  /\ memory' = [memory EXCEPT !.known = TRUE]
  /\ UNCHANGED <<answer, process, status>>

Spawned ==
  /\ Goto("spawned", "polling")
  /\ Write("running", None)
  /\ UNCHANGED <<memory, answer, process>>

Poll ==
  /\ Goto("polling", IF child = "running" THEN "looking" ELSE "closing")
  /\ UNCHANGED <<memory, answer, process, status>>

\* A request is read once: the first one that is found.
Look ==
  /\ Goto("looking", "delivering")
  /\ memory' = IF request # None /\ ~memory.requested
               THEN [memory EXCEPT !.requested = TRUE, !.force = request.force]
               ELSE memory
  /\ UNCHANGED <<answer, process, status>>

Signal(force) ==
  /\ sig' = IF child # "running" \/ sig = "kill" THEN sig
            ELSE IF force THEN "kill" ELSE "interrupt"
  /\ UNCHANGED <<child, childCode, refused>>

Deliver ==
  /\ Goto("delivering", "reporting")
  /\ IF memory.requested /\ ~memory.sent
     THEN Signal(memory.force) /\ memory' = [memory EXCEPT !.sent = TRUE]
     ELSE UNCHANGED <<memory, process>>
  /\ UNCHANGED <<answer, status>>

\* Mistake: a signal that could not be delivered counts as sent.
DeliveryFails_Counts ==
  /\ Goto("delivering", "reporting")
  /\ memory.requested /\ ~memory.sent
  /\ memory' = [memory EXCEPT !.sent = TRUE]
  /\ UNCHANGED <<answer, process, status>>

DeliveryFails ==
  /\ Goto("delivering", "reporting")
  /\ memory.requested /\ ~memory.sent
  /\ UNCHANGED <<memory, answer, process, status>>

\* Mistake: a request counts as open only until its signal is sent.
Report_Undelivered ==
  /\ Goto("reporting", "polling")
  /\ Write(IF memory.requested /\ ~memory.sent THEN "cancel_requested" ELSE "running", None)
  /\ UNCHANGED <<memory, answer, process>>

Report ==
  /\ Goto("reporting", "polling")
  /\ Write(IF memory.requested THEN "cancel_requested" ELSE "running", None)
  /\ UNCHANGED <<memory, answer, process>>

\* Mistake: whether the run was cancelled is decided before how it ended.
Verdict_Swapped ==
  IF memory.sent \/ childCode = 130 THEN "cancelled"
  ELSE IF childCode = 0 THEN "passed" ELSE "failed"

Verdict ==
  IF childCode = 0 THEN "passed"
  ELSE IF memory.sent \/ childCode = 130 THEN "cancelled" ELSE "failed"

Conclude ==
  /\ Goto("closing", "finishing")
  /\ memory' = [memory EXCEPT !.code = childCode]
  /\ UNCHANGED <<answer, process, status>>

Finish ==
  /\ Goto("finishing", "returning")
  /\ Write(Verdict, memory.code)
  /\ UNCHANGED <<memory, answer, process>>

Return ==
  /\ Exit("returning", childCode)
  /\ UNCHANGED <<process, status>>

Supervise ==
  Load \/ Spawn \/ Assign \/ Spawned \/ Poll \/ Look \/ Report \/ Conclude \/ Finish \/ Return

-----------------------------------------------------------------------------
(* The supervisor's failures *)

Trying == {"spawning", "assigning", "spawned", "polling", "looking", "delivering",
           "reporting", "closing", "finishing", "returning"}

\* The first status cannot be written, or the one that tells of a failure.
WriteFails ==
  /\ pc \in {"loading", "recording", "cancelled"}
  /\ Exit(pc, 1)
  /\ UNCHANGED <<process, status>>

Fails ==
  /\ pc \in {"spawning", "spawned", "looking", "reporting", "closing", "finishing"}
  /\ Goto(pc, "failing")
  /\ UNCHANGED <<memory, answer, process, status>>

\* A handler signals only the child that the supervisor knows.
KillChild ==
  /\ Goto("failing", "reaping")
  /\ IF memory.known THEN Signal(TRUE) ELSE UNCHANGED process
  /\ UNCHANGED <<memory, answer, status>>

\* The kill is refused: the error is dropped, and nobody waits for the child.
KillFails ==
  /\ Goto("failing", "recording")
  /\ memory.known /\ child = "running"
  /\ refused' = TRUE
  /\ UNCHANGED <<memory, answer, child, childCode, sig, status>>

\* The child is waited for, but not for long.
Reap ==
  /\ Goto("reaping", "recording")
  /\ UNCHANGED <<memory, answer, process, status>>

\* The exit code stays what it was when the supervisor failed.
RecordFailure ==
  /\ Exit("recording", 1)
  /\ status' = [state |-> "failed", code |-> memory.code, error |-> TRUE]
  /\ UNCHANGED process

\* Within the handlers, and before the try, nothing catches an interrupt.
Interrupt ==
  /\ foreground
  /\ interrupts < MaxInterrupts
  /\ pc \notin {"exited", "dead"}
  /\ interrupts' = interrupts + 1
  /\ IF pc \in Trying THEN pc' = "interrupted" /\ UNCHANGED answer
                      ELSE pc' = "exited" /\ answer' = 130
  /\ UNCHANGED <<setting, memory, process, status, request, canceler>>

InterruptChild ==
  /\ Goto("interrupted", "awaiting")
  /\ IF memory.known THEN Signal(FALSE) ELSE UNCHANGED process
  /\ UNCHANGED <<memory, answer, status>>

\* The signal is refused: nothing catches the error, and no status is written.
InterruptFails ==
  /\ memory.known /\ child = "running"
  /\ Exit("interrupted", 1)
  /\ UNCHANGED <<process, status>>

\* Mistake: the supervisor does not wait for the child it interrupted.
AwaitChild_NoWait ==
  /\ Goto("awaiting", "cancelled")
  /\ UNCHANGED <<memory, answer, process, status>>

AwaitChild ==
  /\ Goto("awaiting", "cancelled")
  /\ memory.known => child # "running"
  /\ UNCHANGED <<memory, answer, process, status>>

RecordCancellation ==
  /\ Exit("cancelled", 130)
  /\ Write("cancelled", 130)
  /\ UNCHANGED process

Handle == KillChild \/ Reap \/ RecordFailure \/ InterruptChild \/ AwaitChild \/ RecordCancellation

Killed ==
  /\ pc \notin {"exited", "dead"}
  /\ pc' = "dead"
  /\ UNCHANGED <<memory, answer, process, status, world>>

-----------------------------------------------------------------------------
(* The child *)

End(code) ==
  /\ child = "running"
  /\ child' = "ended"
  /\ childCode' = code
  /\ UNCHANGED <<pc, memory, answer, status, world, sig, refused>>

\* 7 stands for every code that is neither 0 nor 130.
Ends == ~deaf /\ \E code \in {0, 7} : End(code)

\* A child that is interrupted may still end as it would have.
Obeys ==
  \/ sig = "interrupt" /\ ~deaf /\ \E code \in {0, 7, 130} : End(code)
  \/ sig = "kill" /\ End(-9)

-----------------------------------------------------------------------------
(* The other commands *)

CancelReads ==
  /\ cancelling = None
  /\ cancels < MaxCancels
  /\ ~TERMINAL
  /\ cancels' = cancels + 1
  /\ \E force \in BOOLEAN : cancelling' = [force |-> force]
  /\ UNCHANGED <<setting, pc, memory, answer, interrupts, process, status, request>>

CancelWrites ==
  /\ cancelling # None
  /\ request' = cancelling
  /\ cancelling' = None
  /\ UNCHANGED <<setting, pc, memory, answer, interrupts, process, status, cancels>>

Next ==
  \/ Supervise \/ Deliver \/ DeliveryFails \/ WriteFails \/ Fails \/ Handle
  \/ KillFails \/ InterruptFails
  \/ Interrupt \/ Killed
  \/ Ends \/ Obeys
  \/ CancelReads \/ CancelWrites

\* The processes run, a signal is delivered in the end, and a child that does
\* not ignore it obeys.
Fairness ==
  /\ WF_vars(Supervise) /\ SF_vars(Deliver) /\ WF_vars(Handle)
  /\ WF_vars(Obeys)

Spec == Init /\ [][Next]_vars /\ Fairness

-----------------------------------------------------------------------------
(* Properties *)

Requests == [force : BOOLEAN]
Codes    == {None, 0, 7, 130, -9}
Memories == [known : BOOLEAN, requested : BOOLEAN, force : BOOLEAN, sent : BOOLEAN, code : Codes]

TypeOK ==
  /\ {foreground, deaf} \subseteq BOOLEAN
  /\ pc \in Trying \cup {"loading", "failing", "reaping", "recording", "interrupted",
                          "awaiting", "cancelled", "exited", "dead"}
  /\ memory \in Memories
  /\ answer \in Codes \cup {1}
  /\ interrupts \in 0 .. MaxInterrupts
  /\ child \in {"none", "running", "ended"}
  /\ childCode \in Codes
  /\ sig \in {"none", "interrupt", "kill"}
  /\ refused \in BOOLEAN
  /\ status \in [state : TerminalStates \cup {"created", "starting", "running", "cancel_requested"},
                 code : Codes, error : BOOLEAN]
  /\ request \in Requests \cup {None}
  /\ cancelling \in Requests \cup {None}
  /\ cancels \in 0 .. MaxCancels
  /\ (answer # None) = (pc = "exited")

\* A terminal status tells how the child ended: passed only with return code 0,
\* which a late cancellation does not hide; failed without an error only when the
\* child failed and nobody cancelled; cancelled only when somebody asked for it. An
\* exit code is the child's own, or the 130 of an interrupt, also when the supervisor
\* failed after it had the code: then the error beside it tells that the run failed.
TerminalStatusIsTrue ==
  /\ status.state = "passed" => status.code = 0 /\ childCode = 0
  /\ TERMINAL /\ status.code = 0 => status.state = "passed" \/ status.error
  /\ status.state = "failed" /\ status.error => status.code \in {None, childCode}
  /\ status.state = "failed" /\ ~status.error =>
       status.code = childCode /\ childCode \notin {None, 0, 130} /\ ~memory.sent
  /\ status.state = "cancelled" =>
       /\ request # None \/ interrupts > 0 \/ childCode = 130
       /\ status.code \in {130, childCode} \ {None}

\* No child is left behind a terminal status: it has ended whenever the run passed,
\* failed by itself or was cancelled, and was killed when the supervisor failed. Two
\* windows are left: the system refuses the kill, which the failed status does not
\* tell, and an interrupt comes before Popen has returned the child it started.
NoChildLeftBehind ==
  /\ status.state = "passed" => child = "ended"
  /\ status.state = "failed" =>
       child # "running" \/ (status.error /\ (sig = "kill" \/ refused))
  /\ status.state = "cancelled" => child # "running" \/ ~memory.known

\* "Graceful cancel is the default; forced termination requires an explicit
\* separate option" (plans/05): a child is killed only when a user said --force or
\* the supervisor gives up, never because of an interrupt or a plain cancel.
KillIsOptIn ==
  sig = "kill" => memory.force \/ pc \in {"reaping", "recording", "exited", "dead"}

Rank(s) ==
  CASE s.state = "created" -> 0 [] s.state = "starting" -> 1 [] s.state = "running" -> 2
    [] s.state = "cancel_requested" -> 3 [] OTHER -> 4

\* status.json never goes back, and a terminal status is replaced only when the
\* keyboard interrupts the supervisor between its last write and its return.
StatusNeverGoesBack ==
  [][status' # status =>
       /\ Rank(status) <= Rank(status')
       /\ TERMINAL => status'.state = "cancelled" /\ pc = "cancelled"]_vars

\* A cancellation of a child that obeys ends the run, whenever the request comes
\* and although its delivery may fail at first.
CancelEnds == request # None /\ ~deaf ~> pc \in {"exited", "dead"}

\* "force termination instead of requesting graceful interruption" (help of
\* cancel --force): when a plain request was read and its signal sent, a request to
\* force ends the run, whatever the child did with that signal.
ForceEnds ==
  request = [force |-> TRUE] /\ memory.sent /\ ~memory.force ~> pc \in {"exited", "dead"}

=============================================================================
