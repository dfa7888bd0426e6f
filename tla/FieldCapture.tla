----------------------------- MODULE FieldCapture -----------------------------
(***************************************************************************)
(* The field-capture web tool (tools/run_field_capture_ui.py): HTTP        *)
(* handlers, worker threads, the ready timer and one capture subprocess    *)
(* around the state FieldCaptureApp keeps under its lock.                  *)
(*                                                                         *)
(* A handler that holds the lock throughout is one action.  A worker is a  *)
(* thread that takes one step per critical section or per subprocess call; *)
(* between two steps anything else may run.  A Ball answers a power command *)
(* or not, and a command that failed may still have been applied.          *)
(***************************************************************************)
EXTENDS Naturals, FiniteSets

CONSTANTS
    Count,          \* Repetitions of a session (session_args.count).
    Slots,          \* Names for threads; a bound on how many run at once.
    MaxAttempts,    \* Bound: capture attempts over all sessions.
    MaxSessions,    \* Bound: sessions prepared.
    MaxRetries      \* Bound: reconnections from the error phase.

ASSUME FieldAssumption ==
    /\ Count \in Nat \ {0} /\ MaxAttempts \in Nat /\ MaxSessions \in Nat
    /\ MaxRetries \in Nat /\ Slots # {}

VARIABLES
    app,        \* "up" or "down" (the main thread)
    phase,      \* state["phase"]
    lowPower,   \* state["low_power"]
    completed,  \* state["completed"]
    lastFailure,\* state["last_failure"]["repetition"], 0 for None
    shown,      \* state["attempt_id"], what the page displays
    attempt,    \* attempt_id, the counter
    current,    \* current_process: the attempt it runs, 0 for None
    timerOn,    \* ready_timer has been started and has not fired
    thread,     \* the worker and timer threads
    proc,       \* the capture subprocess of each attempt
    file,       \* the attempt that wrote the file of a repetition, 0 if absent
    device,     \* the Ball's power policy
    sessions,   \* sessions prepared so far
    retries,    \* reconnections so far
    posting,    \* the acknowledgement a page has under way: <<session, attempt>>
    counted     \* ghost: the attempt counted for each repetition

vars == <<app, phase, lowPower, completed, lastFailure, shown, attempt, current, timerOn,
          thread, proc, file, device, sessions, retries, posting, counted>>

State == <<phase, lowPower, completed, lastFailure, shown>>

Attempts == 1 .. MaxAttempts
Repetitions == 1 .. Count

(* The phases in which the tool waits for its operator.                    *)
Rest == {"idle", "ready", "complete", "error"}

(* The lines of the capture tool that the worker turns into phases.        *)
Lines == 1 .. 5
LinePhase == <<"countdown", "arming", "go_ready", "capturing", "freezing">>
GoReady == 3

(* A subprocess: the lines it has printed, how it ended ("" while it runs), *)
(* the acknowledgement it has been sent, and the file it writes.           *)
NoAck == <<0, 0>>
NoProcess == [lines |-> 0, exit |-> "none", ack |-> NoAck, session |-> 0, rep |-> 0]

(* A thread: where it is, the repetition, attempt and lines it works on.   *)
NoThread == [at |-> "none", rep |-> 0, try |-> 0, read |-> 0]
Started(at, rep, try) == [at |-> at, rep |-> rep, try |-> try, read |-> 0]

FreeSlot == CHOOSE t \in Slots : thread[t] = NoThread
HasSlot == \E t \in Slots : thread[t] = NoThread
Goes(t, at) == thread' = [thread EXCEPT ![t].at = at]
Ends(t) == thread' = [thread EXCEPT ![t] = NoThread]
Spawn(at, rep, try) == HasSlot /\ thread' = [thread EXCEPT ![FreeSlot] = Started(at, rep, try)]

Alive(n) == n # 0 /\ proc[n].exit = ""

Init ==
    /\ app = "up" /\ phase = "idle" /\ lowPower = TRUE
    /\ completed = 0 /\ lastFailure = 0 /\ shown = 0
    /\ attempt = 0 /\ current = 0 /\ timerOn = FALSE
    /\ thread = [t \in Slots |-> NoThread]
    /\ proc = [n \in Attempts |-> NoProcess]
    /\ file = [r \in Repetitions |-> 0]
    /\ device = "auto" /\ sessions = 0 /\ retries = 0
    /\ posting = NoAck /\ counted = [r \in Repetitions |-> 0]

-----------------------------------------------------------------------------
(***************************************************************************)
(* HTTP handlers.                                                          *)
(***************************************************************************)

MayPrepare == phase \in {"idle", "complete"} \/ (phase = "error" /\ lowPower)

(* A batch name whose files exist is refused, so a session starts without. *)
Prepare ==
    /\ app = "up" /\ MayPrepare /\ sessions < MaxSessions
    /\ sessions' = sessions + 1
    /\ phase' = "preparing" /\ lowPower' = FALSE
    /\ completed' = 0 /\ lastFailure' = 0 /\ shown' = 0
    /\ file' = [r \in Repetitions |-> 0] /\ counted' = [r \in Repetitions |-> 0]
    /\ proc' = [n \in Attempts |-> IF Alive(n) THEN proc[n] ELSE NoProcess]
    /\ Spawn("research", 0, 0)
    /\ UNCHANGED <<app, attempt, current, timerOn, device, retries, posting>>

(* start_capture while the last attempt failed and the Ball is in auto.    *)
Reconnect ==
    /\ app = "up" /\ phase = "error" /\ lowPower /\ lastFailure # 0
    /\ retries < MaxRetries /\ retries' = retries + 1
    /\ phase' = "preparing" /\ lowPower' = FALSE
    /\ Spawn("research", 0, 0)
    /\ UNCHANGED <<app, completed, lastFailure, shown, attempt, current, timerOn, proc, file,
                   device, sessions, posting, counted>>

StartCapture ==
    /\ app = "up" /\ phase = "ready" /\ attempt < MaxAttempts
    /\ timerOn' = FALSE
    /\ attempt' = attempt + 1 /\ shown' = attempt + 1
    /\ phase' = "countdown"
    /\ Spawn("popen", completed + 1, attempt + 1)
    /\ UNCHANGED <<app, lowPower, completed, lastFailure, current, proc, file, device,
                   sessions, retries, posting, counted>>

(* A page that polls go_ready paints GO and posts the attempt it painted,  *)
(* one request at a time and none after one that succeeded.                *)
Paint ==
    /\ app = "up" /\ phase = "go_ready" /\ posting = NoAck
    /\ proc[shown].ack = NoAck
    /\ posting' = <<sessions, shown>>
    /\ UNCHANGED <<app, State, attempt, current, timerOn, thread, proc, file, device, sessions,
                   retries, counted>>

(* Fault: any acknowledgement is good while a GO waits.                    *)
AnyAck == phase = "go_ready"

AckMatches == phase = "go_ready" /\ posting[2] = shown

(* The request arrives, late perhaps, and is written to the tool's stdin   *)
(* or refused.                                                             *)
AcknowledgeGo ==
    /\ app = "up" /\ posting # NoAck /\ posting' = NoAck
    /\ proc' = IF AckMatches /\ Alive(current)
                THEN [proc EXCEPT ![current].ack = posting] ELSE proc
    /\ UNCHANGED <<app, State, attempt, current, timerOn, thread, file, device, sessions,
                   retries, counted>>

Finish ==
    /\ app = "up" /\ phase \in {"ready", "error"}
    /\ phase' = "restoring" /\ timerOn' = FALSE
    /\ Spawn("restore", 0, 0)
    /\ UNCHANGED <<app, lowPower, completed, lastFailure, shown, attempt, current, proc, file,
                   device, sessions, retries, posting, counted>>

-----------------------------------------------------------------------------
(***************************************************************************)
(* The ready timer.  Once it has fired, cancelling it has no effect.       *)
(***************************************************************************)

TimerFires ==
    /\ app = "up" /\ timerOn
    /\ timerOn' = FALSE /\ Spawn("timeout", 0, 0)
    /\ UNCHANGED <<app, State, attempt, current, proc, file, device, sessions, retries, posting,
                   counted>>

(* Fault: the callback does not look at the phase again.                   *)
TimeoutUnchecked == TRUE

TimeoutApplies == phase = "ready"

ReadyTimeout(t) ==
    /\ thread[t].at = "timeout"
    /\ IF TimeoutApplies THEN phase' = "restoring" /\ Goes(t, "restore")
                         ELSE phase' = phase /\ Ends(t)
    /\ UNCHANGED <<app, lowPower, completed, lastFailure, shown, attempt, current, timerOn,
                   proc, file, device, sessions, retries, posting, counted>>

-----------------------------------------------------------------------------
(***************************************************************************)
(* Workers.                                                                *)
(***************************************************************************)

Quiet == UNCHANGED <<app, attempt, sessions, retries, posting>>

(* set_tag_power_mode as a subprocess: confirmed, or failed with the write *)
(* applied or lost.                                                        *)
Power(t, mode, ok, failed) ==
    /\ \/ device' = mode /\ Goes(t, ok)
       \/ device' \in {device, mode} /\ Goes(t, failed)
    /\ UNCHANGED <<State, current, timerOn, proc, file, counted>> /\ Quiet

Research(t) == thread[t].at = "research" /\ Power(t, "research", "ready", "abort")

SetReady(t) ==
    /\ thread[t].at = "ready"
    /\ phase' = "ready" /\ lowPower' = FALSE
    /\ Goes(t, "arm")
    /\ UNCHANGED <<completed, lastFailure, shown, current, timerOn, proc, file, device, counted>>
    /\ Quiet

ArmReadyTimeout(t) ==
    /\ thread[t].at = "arm"
    /\ timerOn' = TRUE /\ Ends(t)
    /\ UNCHANGED <<State, current, proc, file, device, counted>> /\ Quiet

(* The capture tool starts, or the operating system refuses to.            *)
Popen(t) ==
    /\ thread[t].at = "popen"
    /\ \/ /\ proc' = [proc EXCEPT ![thread[t].try] =
                         [NoProcess EXCEPT !.exit = "", !.session = sessions,
                                              !.rep = thread[t].rep]]
          /\ Goes(t, "register")
       \/ proc' = proc /\ Goes(t, "abort_popen")
    /\ UNCHANGED <<State, current, timerOn, file, device, counted>> /\ Quiet

Register(t) ==
    /\ thread[t].at = "register"
    /\ current' = thread[t].try /\ Goes(t, "read")
    /\ UNCHANGED <<State, timerOn, proc, file, device, counted>> /\ Quiet

(* One line of stderr that changes the phase.                              *)
ReadLine(t) ==
    /\ thread[t].at = "read"
    /\ thread[t].read < proc[thread[t].try].lines
    /\ phase' = LinePhase[thread[t].read + 1]
    /\ thread' = [thread EXCEPT ![t].read = @ + 1]
    /\ UNCHANGED <<lowPower, completed, lastFailure, shown, current, timerOn, proc, file, device,
                   counted>>
    /\ Quiet

(* End of file and wait(), then the finally clause.                        *)
ProcessDone(t) ==
    /\ thread[t].at = "read"
    /\ LET p == proc[thread[t].try] IN
       /\ p.exit \notin {"", "none"} /\ thread[t].read = p.lines
       /\ Goes(t, IF p.exit = "ok" THEN "analyze" ELSE "failed")
    /\ current' = 0
    /\ UNCHANGED <<State, timerOn, proc, file, device, counted>> /\ Quiet

(* Fault: unusable output of the analysis ends the worker.                 *)
AnalysisKillsWorker(t) == (\E next \in {"judge", "failed"} : Goes(t, next)) \/ Ends(t)

(* The analysis accepts the file, rejects it or prints something unusable. *)
AnalysisVerdict(t) == \E next \in {"judge", "failed", "abort"} : Goes(t, next)

Analyze(t) ==
    /\ thread[t].at = "analyze"
    /\ phase' = "analyzing"
    /\ AnalysisVerdict(t)
    /\ UNCHANGED <<lowPower, completed, lastFailure, shown, current, timerOn, proc, file, device,
                   counted>>
    /\ Quiet

CountResult(t) ==
    /\ thread[t].at = "judge"
    /\ completed' = thread[t].rep /\ lastFailure' = 0
    /\ counted' = [counted EXCEPT ![thread[t].rep] = thread[t].try]
    /\ Goes(t, IF thread[t].rep >= Count THEN "restore_complete" ELSE "ready")
    /\ UNCHANGED <<phase, lowPower, shown, current, timerOn, proc, file, device>> /\ Quiet

RetryAfterFailure(t) ==
    /\ thread[t].at = "failed"
    /\ file' = [file EXCEPT ![thread[t].rep] = 0]
    /\ lastFailure' = thread[t].rep /\ phase' = "recovering"
    /\ Goes(t, "research")
    /\ proc' = [proc EXCEPT ![thread[t].try] = NoProcess]
    /\ UNCHANGED <<lowPower, completed, shown, current, timerOn, device, counted>> /\ Quiet

(* _restore_worker: cancel, restoring, the command, then how it ended.     *)
BeginRestore(t) ==
    /\ thread[t].at \in {"restore", "restore_complete"}
    /\ timerOn' = FALSE /\ phase' = "restoring"
    /\ Goes(t, IF thread[t].at = "restore" THEN "auto" ELSE "auto_complete")
    /\ UNCHANGED <<lowPower, completed, lastFailure, shown, current, proc, file, device, counted>>
    /\ Quiet

Restore(t) ==
    \/ thread[t].at = "auto" /\ Power(t, "auto", "idle", "unrestored")
    \/ thread[t].at = "auto_complete" /\ Power(t, "auto", "complete", "unrestored")

(* Fault: a restore that could not be confirmed is taken for done.         *)
RestoredAlways(t) == TRUE

Restored(t) == thread[t].at # "unrestored"

EndRestore(t) ==
    /\ thread[t].at \in {"idle", "complete", "unrestored"}
    /\ phase' = (IF thread[t].at = "unrestored" THEN "error" ELSE thread[t].at)
    /\ lowPower' = Restored(t)
    /\ Ends(t)
    /\ UNCHANGED <<completed, lastFailure, shown, current, timerOn, proc, file, device, counted>>
    /\ Quiet

(* _fail_and_restore, from a worker or from the except clause of a capture *)
(* worker, whose finally clause runs after it: cancel, the command, error. *)
BeginAbort(t) ==
    /\ thread[t].at \in {"abort", "abort_popen"}
    /\ timerOn' = FALSE
    /\ Goes(t, IF thread[t].at = "abort" THEN "auto_abort" ELSE "auto_abort_popen")
    /\ UNCHANGED <<State, current, proc, file, device, counted>> /\ Quiet

Abort(t) ==
    \/ thread[t].at = "auto_abort" /\ Power(t, "auto", "error_low", "error_high")
    \/ thread[t].at = "auto_abort_popen" /\ Power(t, "auto", "error_low_popen", "error_high_popen")

EndAbort(t) ==
    /\ thread[t].at \in {"error_low", "error_high", "error_low_popen", "error_high_popen"}
    /\ phase' = "error"
    /\ lowPower' = (thread[t].at \in {"error_low", "error_low_popen"})
    /\ IF thread[t].at \in {"error_low", "error_high"} THEN Ends(t) ELSE Goes(t, "finally")
    /\ UNCHANGED <<completed, lastFailure, shown, current, timerOn, proc, file, device, counted>>
    /\ Quiet

Finally(t) ==
    /\ thread[t].at = "finally"
    /\ current' = 0 /\ Ends(t)
    /\ UNCHANGED <<State, timerOn, proc, file, device, counted>> /\ Quiet

Worker(t) ==
    /\ app = "up"
    /\ \/ Research(t) \/ SetReady(t) \/ ArmReadyTimeout(t) \/ ReadyTimeout(t)
       \/ Popen(t) \/ Register(t) \/ ReadLine(t) \/ ProcessDone(t)
       \/ Analyze(t) \/ CountResult(t) \/ RetryAfterFailure(t)
       \/ BeginRestore(t) \/ Restore(t) \/ EndRestore(t)
       \/ BeginAbort(t) \/ Abort(t) \/ EndAbort(t) \/ Finally(t)

-----------------------------------------------------------------------------
(***************************************************************************)
(* The capture tool (capture_tag_smp.py --wait-for-go-ack) as the worker   *)
(* sees it; TagCapture has its inside.                                     *)
(***************************************************************************)

MayPrint(n) == proc[n].lines = GoReady => proc[n].ack # NoAck

(* open(path, "x") precedes the first line and fails on an existing file.  *)
ToolPrints(n) ==
    /\ app = "up" /\ Alive(n) /\ proc[n].lines < Cardinality(Lines) /\ MayPrint(n)
    /\ proc[n].lines = 0 => file[proc[n].rep] = 0
    /\ file' = [file EXCEPT ![proc[n].rep] = n]
    /\ proc' = [proc EXCEPT ![n].lines = @ + 1]
    /\ UNCHANGED <<app, State, attempt, current, timerOn, thread, device, sessions, retries,
                   posting, counted>>

(* Every request of the tool and its wait for GO are bounded in time.      *)
ToolExits(n) ==
    /\ app = "up" /\ Alive(n)
    /\ \E how \in {"ok", "failed"} :
        /\ how = "ok" => proc[n].lines = Cardinality(Lines)
        /\ proc' = [proc EXCEPT ![n].exit = how]
    /\ UNCHANGED <<app, State, attempt, current, timerOn, thread, file, device, sessions,
                   retries, posting, counted>>

-----------------------------------------------------------------------------
(***************************************************************************)
(* Ctrl-C: close() reads the state, stops the tool and restores the Ball.  *)
(* Worker threads die with the process, a command they started does not.   *)
(***************************************************************************)

Close ==
    /\ app = "up" /\ app' = "down" /\ timerOn' = FALSE
    /\ proc' = IF Alive(current) THEN [proc EXCEPT ![current].exit = "failed"] ELSE proc
    /\ device' \in (IF lowPower THEN {device} ELSE {"auto", device})
    /\ UNCHANGED <<State, attempt, current, thread, file, sessions, retries, posting, counted>>

Orphan(t) ==
    /\ app = "down"
    /\ thread[t].at \in {"research", "auto", "auto_complete", "auto_abort", "auto_abort_popen"}
    /\ device' \in {device, IF thread[t].at = "research" THEN "research" ELSE "auto"}
    /\ Ends(t)
    /\ UNCHANGED <<app, State, attempt, current, timerOn, proc, file, sessions, retries, posting,
                   counted>>

Next ==
    \/ Prepare \/ Reconnect \/ StartCapture \/ Paint \/ AcknowledgeGo \/ Finish \/ TimerFires
    \/ \E t \in Slots : Worker(t) \/ Orphan(t)
    \/ \E n \in Attempts : ToolPrints(n) \/ ToolExits(n)
    \/ Close

(* A thread that can run runs, a subprocess ends.                          *)
Fairness ==
    /\ \A t \in Slots : WF_vars(Worker(t))
    /\ \A n \in Attempts : WF_vars(ToolExits(n))

Spec == Init /\ [][Next]_vars /\ Fairness

-----------------------------------------------------------------------------
(* Properties.                                                             *)

(* Threads that hold the phase: all but those that only have a last step   *)
(* left (arming the timer, looking at the phase, clearing the process).    *)
Holders == {t \in Slots : thread[t].at \notin {"none", "arm", "timeout", "finally"}}

(* A phase in which the operator may act has no worker that would still    *)
(* command the Ball or change the phase, any other phase has exactly one:  *)
(* handlers, timers and workers hand the batch over without a gap or a     *)
(* second owner.                                                           *)
PhaseHasOneOwner ==
    app = "up" => Cardinality(Holders) = IF phase \in Rest THEN 0 ELSE 1

(* The page offers a new batch on the word of low_power: it never says so  *)
(* of a Ball left in research mode, whatever commands failed on the way.   *)
LowPowerIsTrue == app = "up" /\ lowPower => device = "auto"

(* A repetition that counts has the file of the attempt that was counted,  *)
(* that attempt ended well, and the GO it acted on was painted for that    *)
(* very attempt of that very batch.                                        *)
CountedWasPerformed ==
    \A r \in 1 .. completed :
        LET n == counted[r] IN
        /\ n # 0 /\ file[r] = n /\ proc[n].exit = "ok" /\ proc[n].rep = r
        /\ proc[n].ack = <<sessions, n>>

(* A batch never hangs in a phase that refuses the operator.               *)
OperatorGetsTurn == phase \notin Rest ~> (phase \in Rest \/ app = "down")

=============================================================================
