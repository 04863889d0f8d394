------------------------------ MODULE CheckApi ------------------------------
(***************************************************************************)
(* `cmctl check api` (pkg/check/api/api.go) as the command of ExitHandler: *)
(* it polls, remembers the last error, and may set the exit code before    *)
(* main does.                                                              *)
(***************************************************************************)
EXTENDS ExitHandler

CONSTANTS
    Waits,      \* values of --wait, in ticks
    Interval,   \* --interval, in ticks
    CheckTime   \* bound: a check takes 1 to CheckTime ticks

ASSUME CheckAssumption ==
    /\ Waits \subseteq Nat
    /\ Interval \in Nat
    /\ CheckTime \in Nat \ {0}

VARIABLES
    wait,       \* --wait
    poll,       \* "check", "sleep", or how the polling ended
    lastError,  \* the error of the last failed check, "none" before
    elapsed,    \* time.Since(start)
    told        \* whether the command has set the exit code of a poll that failed

checkVars == <<wait, poll, lastError, elapsed, told>>

\* What errors.Is can tell about the error of a check.
Errors == {"canceled", "deadline", "other"}

CheckInit ==
    /\ Init
    /\ wait \in Waits
    /\ poll = "check"
    /\ lastError = "none"
    /\ elapsed = 0
    /\ told = FALSE

\* SetExitCode: the code it hands to SetExitCodeValue.
ErrorCodeOf(err) ==
    CASE err \in {"none", "canceled"} -> 0
      [] err = "deadline" -> TimeoutCode
      [] OTHER -> ErrorCode

\* Variant: a time-out of the wait is an error like any other.
PlainPollExitCode(pollErr) == ErrorCodeOf(lastError)

\* The exit code of a poll that failed.
PollExitCode(pollErr) ==
    IF pollErr = "deadline" /\ wait > 0 THEN ErrorCodeOf(pollErr) ELSE ErrorCodeOf(lastError)

\* Variant: the time between two checks is added to the wait.
WaitedLong(e) == e > wait + Interval

WaitedOut(e) == e > wait

Running == status = Alive /\ main = "command" /\ poll \in {"check", "sleep"}

\* Variant: lastError is declared again inside the condition.
CheckShadows(err, ticks) ==
    /\ Running
    /\ poll = "check"
    /\ elapsed' = elapsed + ticks
    /\ poll' = IF err = "none" THEN "ready" ELSE IF WaitedOut(elapsed') THEN "deadline" ELSE "sleep"
    /\ UNCHANGED <<vars, wait, lastError, told>>

\* The condition of the poll.  The first check is made whatever the context says.
Check(err, ticks) ==
    /\ Running
    /\ poll = "check"
    /\ err = "canceled" => cancelled
    /\ elapsed' = elapsed + ticks
    /\ lastError' = IF err = "none" THEN lastError ELSE err
    /\ poll' = IF err = "none" THEN "ready" ELSE IF WaitedOut(elapsed') THEN "deadline" ELSE "sleep"
    /\ UNCHANGED <<vars, wait, told>>

\* Variant: the wait is measured from the last check.
SleepRestarts(ticks) ==
    /\ Running
    /\ poll = "sleep"
    /\ \/ cancelled /\ poll' = "canceled" /\ UNCHANGED elapsed
       \/ ~cancelled /\ poll' = "check" /\ elapsed' = 0
    /\ UNCHANGED <<vars, wait, lastError, told>>

\* PollUntilContextCancel between two checks: its ticker runs during the checks too,
\* and no check is made once the context is cancelled.
Sleep(ticks) ==
    /\ Running
    /\ poll = "sleep"
    /\ \/ cancelled /\ poll' = "canceled" /\ UNCHANGED elapsed
       \/ ~cancelled /\ poll' = "check" /\ elapsed' = elapsed + ticks
    /\ UNCHANGED <<vars, wait, lastError, told>>

\* How the command ends, seen from main.
Outcome ==
    IF poll = "ready" \/ lastError = "none" THEN "ok"
    ELSE IF poll = "canceled" THEN "interrupted" ELSE "error"

InCommand == status = Alive /\ main = "command"

\* Variant: the exit code is set by a deferred call, which knows of no success.
SetsCodeDeferred ==
    /\ InCommand
    /\ poll \in {"ready", "deadline", "canceled"}
    /\ ~told
    /\ told' = TRUE
    /\ SetExitCodeValue(PollExitCode(poll))
    /\ UNCHANGED <<signalVars, command, main, status, wait, poll, lastError, elapsed>>

\* A poll that failed: the exit code is in the channel before Run returns.
SetsExitCode ==
    /\ InCommand
    /\ poll \in {"deadline", "canceled"}
    /\ ~told
    /\ told' = TRUE
    /\ SetExitCodeValue(PollExitCode(poll))
    /\ UNCHANGED <<signalVars, command, main, status, wait, poll, lastError, elapsed>>

\* Run returns nil or the last error, and main goes on with what it is given.
Return ==
    /\ InCommand
    /\ poll = "ready" \/ told
    /\ command' = Outcome
    /\ main' = IF Outcome = "ok" THEN "exit" ELSE "fatal"
    /\ UNCHANGED <<signalVars, codes, status, checkVars>>

CheckStep ==
    \/ \E err \in Errors \cup {"none"}, t \in 1..CheckTime : Check(err, t)
    \/ \E t \in 0..Interval : Sleep(t)
    \/ SetsExitCode
    \/ Return

CheckNext ==
    \/ CheckStep
    \/ (Handler \/ Main \/ \E s \in Signals : Interrupt(s)) /\ UNCHANGED checkVars

checkAllVars == <<vars, checkVars>>

CheckSpec == CheckInit /\ [][CheckNext]_checkAllVars

\* Each check is answered or times out, each sleep is over some time.
CheckFairSpec == CheckSpec /\ WF_checkAllVars(CheckStep)
                 /\ WF_checkAllVars((Handler \/ Main) /\ UNCHANGED checkVars)

-----------------------------------------------------------------------------
\* What CheckApi adds to ExitHandler, well typed.
CheckTypeOK ==
    /\ TypeOK
    /\ wait \in Waits
    /\ poll \in {"check", "sleep", "ready", "deadline", "canceled"}
    /\ lastError \in Errors \cup {"none"}
    /\ elapsed \in Nat
    /\ told \in BOOLEAN

\* Status 0 says the API is ready: the last check succeeded, whatever happened to the
\* checks before it and to the process (api.go:131-144).
ZeroMeansReady == Ended /\ status = 0 => poll = "ready"

\* Only a wait that timed out ends with 124 when no signal came, though the command
\* returns an error for which main sets 1 (api.go:132-139, main.go:62).
TimeoutReported ==
    Ended /\ sent = 0 /\ wait > 0 => (poll = "deadline" <=> status = TimeoutCode)

\* The wait is over at most one interval and one check late (api.go:111, 122).
WaitBounded == elapsed <= wait + Interval + CheckTime

\* The command ends, ready or not (api.go:122-124).
CheckEnds == <>Ended

\* In this process too nothing waits but the goroutine, for a signal or for room: the command
\* always has a check, a sleep or a return to go on with, and once it returned main goes on,
\* with whatever code the poll has left in the channel (api.go:110-144, exit.go:37-46).
CheckMoves ==
    /\ ~Ended /\ main = "command" => ENABLED <<CheckStep>>_checkAllVars
    /\ HandlerReady \/ MainReady =>
           ENABLED <<(Handler \/ Main) /\ UNCHANGED checkVars>>_checkAllVars

\* One signal is enough to end the command: the poll does not wait on once the context is
\* cancelled (api.go:110, signal.go:59-64).
InterruptEnds == sent >= 1 ~> Ended

\* A wait that was interrupted ends with the number of the signal: the code of an earlier
\* check's error, which the command sets after the poll, does not take its place, nor does
\* that of the error it returns (api.go:131-139, signal.go:60-64, exit.go:37-46).
InterruptReported ==
    Ended /\ poll = "canceled" /\ AlwaysErrCode => status \in {128 + first, SecondSignalCode}

\* What the channel holds for those who do not look into the command: its own code from
\* when it returns, as ExitHandler has it, the code of a signal at once.
CommandCodes ==
    IF main = "command" /\ codes \in {<<ErrorCode>>, <<TimeoutCode>>} THEN <<>> ELSE codes

EH == INSTANCE ExitHandler WITH codes <- CommandCodes

\* check api is a command as ExitHandler sees commands, though it sets its code in a step
\* of its own, with the signal goroutine and main about: it gives one code at most, none
\* when it succeeds, it replaces no code that is there, and it says it was interrupted
\* only if it was (api.go:131-144).
ImplementsExitHandler == EH!Spec
=============================================================================
