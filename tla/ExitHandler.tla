---------------------------- MODULE ExitHandler -----------------------------
(***************************************************************************)
(* How cmctl ends: internal/util/signal.go, internal/util/exit.go and      *)
(* main.go.  Three parties share the one-place channel of exit codes: the  *)
(* goroutine that handles signals, the command, and main's deferred exit.  *)
(***************************************************************************)
EXTENDS Naturals, Sequences, FiniteSets

CONSTANTS
    Signals,        \* numbers of the shutdown signals: SIGINT is 2, SIGTERM 15
    MaxSignals,     \* bound: signals sent to the process
    AlwaysErrCode   \* exitBehavior: TRUE in main, FALSE is GracefulShutdown

ASSUME ExitAssumption ==
    /\ Signals \subseteq 1..127
    /\ MaxSignals \in Nat
    /\ AlwaysErrCode \in BOOLEAN

VARIABLES
    signals,    \* the channel of signals, of size 2
    sent,       \* number of signals sent so far
    codes,      \* errorExitCodeChannel, of size 1
    handler,    \* where the signal goroutine is
    first,      \* the first signal it received, 0 before
    cancelled,  \* whether the command's context is cancelled
    command,    \* "running", or how the command ended
    main,       \* where main is
    status      \* exit status of the process, Alive while it runs

Alive == 256
ErrorCode == 1
TimeoutCode == 124
SecondSignalCode == 130

signalVars == <<signals, sent, handler, first, cancelled>>
vars == <<signalVars, codes, command, main, status>>

\* "interrupted": the command returned because it saw its context cancelled.
Outcomes == {"ok", "error", "interrupted"}

Codes == {ErrorCode, TimeoutCode, SecondSignalCode} \cup {128 + s : s \in Signals}

TypeOK ==
    /\ signals \in Seq(Signals)
    /\ sent \in 0..MaxSignals
    /\ codes \in {<<>>} \cup {<<c>> : c \in Codes}
    /\ handler \in {"first", "send", "cancel", "second"}
    /\ first \in Signals \cup {0}
    /\ cancelled \in BOOLEAN
    /\ command \in {"running"} \cup Outcomes
    /\ main \in {"command", "fatal", "exit", "ended"}
    /\ status \in Codes \cup {0, Alive}

Init ==
    /\ signals = <<>>
    /\ sent = 0
    /\ codes = <<>>
    /\ handler = "first"
    /\ first = 0
    /\ cancelled = FALSE
    /\ command = "running"
    /\ main = "command"
    /\ status = Alive

-----------------------------------------------------------------------------
\* signal.Notify does not wait for room in the channel.
Interrupt(s) ==
    /\ status = Alive
    /\ sent < MaxSignals
    /\ sent' = sent + 1
    /\ signals' = IF Len(signals) < 2 THEN Append(signals, s) ELSE signals
    /\ UNCHANGED <<codes, handler, first, cancelled, command, main, status>>

HandlerReceives ==
    /\ status = Alive
    /\ handler = "first"
    /\ signals # <<>>
    /\ signals' = Tail(signals)
    /\ first' = Head(signals)
    /\ handler' = IF AlwaysErrCode THEN "send" ELSE "cancel"
    /\ UNCHANGED <<sent, codes, cancelled, command, main, status>>

\* A send that waits until the channel is empty.
HandlerSends ==
    /\ status = Alive
    /\ handler = "send"
    /\ codes = <<>>
    /\ codes' = <<128 + first>>
    /\ handler' = "cancel"
    /\ UNCHANGED <<signals, sent, first, cancelled, command, main, status>>

\* Variant: every signal is handled like the first.
HandlerRepeats ==
    /\ status = Alive
    /\ handler = "cancel"
    /\ cancelled' = TRUE
    /\ handler' = "first"
    /\ UNCHANGED <<signals, sent, codes, first, command, main, status>>

HandlerCancels ==
    /\ status = Alive
    /\ handler = "cancel"
    /\ cancelled' = TRUE
    /\ handler' = "second"
    /\ UNCHANGED <<signals, sent, codes, first, command, main, status>>

HandlerExits ==
    /\ status = Alive
    /\ handler = "second"
    /\ signals # <<>>
    /\ status' = SecondSignalCode
    /\ UNCHANGED <<signalVars, codes, command, main>>

\* Variant: the last code wins.
OverwriteCode(c) == codes' = IF c = 0 THEN codes ELSE <<c>>

\* SetExitCodeValue: a send that does not wait.
SetExitCodeValue(c) == codes' = IF codes = <<>> /\ c # 0 THEN <<c>> ELSE codes

\* The command returns, nil or an error; a command that fails may have set an exit
\* code of its own before (only `check api` does).
CommandEnds(outcome, code) ==
    /\ status = Alive
    /\ main = "command"
    /\ outcome = "interrupted" => cancelled
    /\ outcome = "ok" => code = 0
    /\ SetExitCodeValue(code)
    /\ command' = outcome
    /\ main' = IF outcome = "ok" THEN "exit" ELSE "fatal"
    /\ UNCHANGED <<signalVars, status>>

\* Variant: the error is printed, and no more.
FatalPrints ==
    /\ status = Alive
    /\ main = "fatal"
    /\ main' = "exit"
    /\ UNCHANGED <<signalVars, codes, command, status>>

\* Variant: a send that waits until the channel is empty.
FatalWaits ==
    /\ codes = <<>>
    /\ status = Alive
    /\ main = "fatal"
    /\ SetExitCodeValue(ErrorCode)
    /\ main' = "exit"
    /\ UNCHANGED <<signalVars, command, status>>

\* CheckErr: BehaviorOnFatal sets the exit code; Goexit runs the deferred calls.
Fatal ==
    /\ status = Alive
    /\ main = "fatal"
    /\ SetExitCodeValue(ErrorCode)
    /\ main' = "exit"
    /\ UNCHANGED <<signalVars, command, status>>

\* Variant: a receive that waits.
ExitWaits ==
    /\ status = Alive
    /\ main = "exit"
    /\ codes # <<>>
    /\ main' = "ended"
    /\ codes' = <<>>
    /\ status' = Head(codes)
    /\ UNCHANGED <<signalVars, command>>

\* The function SetupExitHandler returns: a receive that does not wait.
Exit ==
    /\ status = Alive
    /\ main = "exit"
    /\ main' = "ended"
    /\ codes' = <<>>
    /\ status' = IF codes = <<>> THEN 0 ELSE Head(codes)
    /\ UNCHANGED <<signalVars, command>>

Handler == HandlerReceives \/ HandlerSends \/ HandlerCancels \/ HandlerExits

Main == Fatal \/ Exit

Next ==
    \/ \E s \in Signals : Interrupt(s)
    \/ Handler
    \/ Main
    \/ \E outcome \in Outcomes, code \in {0, ErrorCode, TimeoutCode} : CommandEnds(outcome, code)

Spec == Init /\ [][Next]_vars

\* Goroutines that can run do; a command need not end by itself.
Fairness == WF_vars(Handler) /\ WF_vars(Main)

FairSpec == Spec /\ Fairness

-----------------------------------------------------------------------------
Ended == status # Alive

\* A command that stopped because it was interrupted ends the process with the
\* number of the signal, not with the code of the error it returned: the code is
\* sent before the context is cancelled, and only the first counts (signal.go:60-64).
InterruptedCode ==
    Ended /\ command = "interrupted" /\ AlwaysErrCode
        => status \in {128 + first, SecondSignalCode}

\* Status 0 is that of a command that succeeded; a failure is never lost between
\* the goroutines (signal.go:70-79, exit.go:36-46, main.go:53-70).
FailureReported == Ended /\ command # "ok" => status # 0

\* What each exit status says (signal.go:61-67, exit.go:25-34, api.go:131-144): 0, that
\* the command succeeded; 1 and 124, that it failed, and not because it was interrupted
\* unless the exit is graceful; 130, a second signal or that the first was SIGINT; and
\* the number of another signal, that it was the first.
StatusMeans ==
    Ended =>
        /\ status = 0 => command = "ok"
        /\ status \in {ErrorCode, TimeoutCode} =>
               command = "error" \/ (command = "interrupted" /\ ~AlwaysErrCode)
        /\ status = SecondSignalCode => sent >= 2 \/ (AlwaysErrCode /\ first = 2)
        /\ status \notin {0, ErrorCode, TimeoutCode, SecondSignalCode} =>
               AlwaysErrCode /\ sent >= 1 /\ first # 0 /\ status = 128 + first

\* Where the signal goroutine waits for nothing, and where main does (signal.go:55-67,
\* main.go:37-63).
HandlerReady ==
    /\ ~Ended
    /\ \/ handler \in {"first", "second"} /\ signals # <<>>
       \/ handler = "send" /\ codes = <<>>
       \/ handler = "cancel"

MainReady == ~Ended /\ main \in {"fatal", "exit"}

\* All the goroutine ever waits for is a signal or, once, room for its code; once the
\* command returned main waits for nobody, whatever fills the channel of codes
\* (exit.go:37-46, signal.go:70-79).
ReadyMoves ==
    /\ HandlerReady => ENABLED <<Handler>>_vars
    /\ MainReady => ENABLED <<Main>>_vars

\* A command that ignores its context can be ended by a second signal
\* (signal.go:65-67).
SecondSignalEnds == sent >= 2 ~> Ended

\* A command that returned ends the process (main.go:37, 62-63).
ReturnEnds == command # "running" ~> Ended

\* What InterruptedCode and FailureReported rest on: from before the cancellation to
\* the exit the code of the signal is in the channel, and from the fatal error to the
\* exit some code is (signal.go:61-64, main.go:62).
CodeInv ==
    /\ handler # "first" => first # 0
    /\ cancelled => handler = "second"
    /\ command = "interrupted" => cancelled
    /\ /\ AlwaysErrCode
       /\ ~Ended
       /\ handler \in {"cancel", "second"}
       /\ command \in {"running", "interrupted"}
       => codes = <<128 + first>>
    /\ main = "command" <=> command = "running"
    /\ ~Ended /\ main = "exit" /\ command # "ok" => codes # <<>>

\* InterruptedCode, FailureReported and all their proofs need (signal.go:52-80).
ExitInv == TypeOK /\ CodeInv /\ InterruptedCode /\ FailureReported
=============================================================================
