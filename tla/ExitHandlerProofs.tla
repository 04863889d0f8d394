-------------------------- MODULE ExitHandlerProofs --------------------------
(***************************************************************************)
(* Proofs about ExitHandler, for any signals and any number of them, and   *)
(* about CheckApi, for any wait, interval and duration of a check.         *)
(***************************************************************************)
EXTENDS CheckApi, TLAPS

Moves ==
    \/ \E s \in Signals : Interrupt(s)
    \/ HandlerReceives
    \/ HandlerSends
    \/ HandlerCancels
    \/ HandlerExits
    \/ Fatal
    \/ Exit
    \/ \E outcome \in Outcomes, code \in {0, ErrorCode, TimeoutCode} : CommandEnds(outcome, code)

\* The disjuncts of Next, one by one (signal.go:52-80, main.go:35-71).
LEMMA NextMoves == Next <=> Moves
BY DEF Next, Handler, Main, Moves

\* A code is an exit status other than 0 (signal.go:62, exit.go:25-34).
LEMMA CodesAreStatuses == \A c \in Codes : c \in 1..255
BY ExitAssumption DEF Codes, ErrorCode, TimeoutCode, SecondSignalCode

\* What SetExitCodeValue leaves in the channel: the code that is there, or the new one
\* (exit.go:37-46).
LEMMA SetExitCodeKeeps ==
    ASSUME codes \in {<<>>} \cup {<<c>> : c \in Codes}, NEW code \in Codes \cup {0},
           SetExitCodeValue(code)
    PROVE  /\ codes' \in {<<>>} \cup {<<c>> : c \in Codes}
           /\ codes # <<>> => codes' = codes
           /\ code # 0 => codes' # <<>>
BY DEF SetExitCodeValue

\* The code sent by the signal goroutine is one of Codes (signal.go:62).
LEMMA SignalCodeIn == \A s \in Signals : 128 + s \in Codes
BY DEF Codes

\* The initial state (signal.go:27-57).
LEMMA InitInv == Init => ExitInv
<1> SUFFICES ASSUME Init
             PROVE  ExitInv
  OBVIOUS
<1>1. status = 256 /\ ~Ended
  BY DEF Init, Ended, Alive
<1>2. TypeOK
  <2>1. signals \in Seq(Signals)
    BY DEF Init
  <2>2. sent \in 0..MaxSignals /\ first \in Signals \cup {0}
    BY ExitAssumption DEF Init
  <2>3. codes \in {<<>>} \cup {<<c>> : c \in Codes}
    BY DEF Init
  <2> QED
    BY <2>1, <2>2, <2>3 DEF Init, TypeOK, Outcomes
<1>3. CodeInv
  BY <1>1 DEF Init, CodeInv
<1> QED
  BY <1>1, <1>2, <1>3 DEF ExitInv, InterruptedCode, FailureReported

\* No step leaves the types (signal.go:52-80, exit.go:37-46, main.go:35-71).
LEMMA StepType == ExitInv /\ [Next]_vars => TypeOK'
<1> SUFFICES ASSUME ExitInv, [Next]_vars
             PROVE  TypeOK'
  OBVIOUS
<1> USE DEF ExitInv, TypeOK, signalVars
<1>1. ASSUME NEW s \in Signals, Interrupt(s)
      PROVE  TypeOK'
  BY <1>1, ExitAssumption DEF Interrupt
<1>2. CASE HandlerReceives
  BY <1>2 DEF HandlerReceives
<1>3. CASE HandlerSends
  <2>1. first # 0
    BY <1>3 DEF HandlerSends, CodeInv
  <2> QED
    BY <1>3, <2>1, SignalCodeIn DEF HandlerSends
<1>4. CASE HandlerCancels
  BY <1>4 DEF HandlerCancels
<1>5. CASE HandlerExits
  BY <1>5 DEF HandlerExits, Codes
<1>6. CASE Fatal
  BY <1>6, SetExitCodeKeeps DEF Fatal, Codes
<1>7. CASE Exit
  BY <1>7 DEF Exit
<1>8. ASSUME NEW outcome \in Outcomes, NEW code \in {0, ErrorCode, TimeoutCode},
             CommandEnds(outcome, code)
      PROVE  TypeOK'
  BY <1>8, SetExitCodeKeeps DEF CommandEnds, Codes
<1>9. CASE UNCHANGED vars
  BY <1>9 DEF vars
<1> QED
  BY <1>1, <1>2, <1>3, <1>4, <1>5, <1>6, <1>7, <1>8, <1>9, NextMoves DEF Moves

\* No step breaks what is known of the channel of codes (signal.go:61-64, main.go:62).
LEMMA StepCode == ExitInv /\ [Next]_vars => CodeInv'
<1> SUFFICES ASSUME ExitInv, [Next]_vars
             PROVE  CodeInv'
  OBVIOUS
<1> USE DEF ExitInv, TypeOK, CodeInv, signalVars, Ended
<1>1. ASSUME NEW s \in Signals, Interrupt(s)
      PROVE  CodeInv'
  BY <1>1 DEF Interrupt
<1>2. CASE HandlerReceives
  BY <1>2, ExitAssumption DEF HandlerReceives
<1>3. CASE HandlerSends
  BY <1>3 DEF HandlerSends
<1>4. CASE HandlerCancels
  BY <1>4 DEF HandlerCancels
<1>5. CASE HandlerExits
  BY <1>5 DEF HandlerExits, SecondSignalCode, Alive
<1>6. CASE Fatal
  BY <1>6, SetExitCodeKeeps DEF Fatal, Codes, ErrorCode
<1>7. CASE Exit
  BY <1>7, CodesAreStatuses DEF Exit, Alive
<1>8. ASSUME NEW outcome \in Outcomes, NEW code \in {0, ErrorCode, TimeoutCode},
             CommandEnds(outcome, code)
      PROVE  CodeInv'
  BY <1>8, SetExitCodeKeeps DEF CommandEnds, Codes, Outcomes
<1>9. CASE UNCHANGED vars
  BY <1>9 DEF vars
<1> QED
  BY <1>1, <1>2, <1>3, <1>4, <1>5, <1>6, <1>7, <1>8, <1>9, NextMoves DEF Moves

\* The step that ends the process gives it the status its command calls for
\* (signal.go:67, 70-79).
LEMMA StepStatus == ExitInv /\ [Next]_vars => InterruptedCode' /\ FailureReported'
<1> SUFFICES ASSUME ExitInv, [Next]_vars
             PROVE  InterruptedCode' /\ FailureReported'
  OBVIOUS
<1> USE DEF ExitInv, InterruptedCode, FailureReported, Ended, signalVars
<1>1. CASE Exit
  <2>1. codes = <<>> => command = "ok"
    BY <1>1 DEF Exit, CodeInv
  <2>2. codes # <<>> => Head(codes) \in 1..255
    BY CodesAreStatuses DEF TypeOK
  <2>3. AlwaysErrCode /\ command = "interrupted" => codes # <<>> /\ Head(codes) = 128 + first
    BY <1>1 DEF Exit, CodeInv
  <2>4. /\ status' = IF codes = <<>> THEN 0 ELSE Head(codes)
        /\ command' = command /\ first' = first
    BY <1>1 DEF Exit
  <2>5. AlwaysErrCode /\ command' = "interrupted" => status' = 128 + first'
    BY <2>3, <2>4
  <2>6. InterruptedCode'
    BY <2>5
  <2>7. command' # "ok" => status' \in 1..255
    BY <2>1, <2>2, <2>4
  <2>8. FailureReported'
    BY <2>7
  <2> QED
    BY <2>6, <2>8
<1>2. CASE HandlerExits
  BY <1>2 DEF HandlerExits, SecondSignalCode
<1>3. CASE status' = status /\ status = Alive
  BY <1>3
<1>4. CASE UNCHANGED vars
  BY <1>4 DEF vars
<1> QED
  BY <1>1, <1>2, <1>3, <1>4, NextMoves
     DEF Moves, Interrupt, HandlerReceives, HandlerSends, HandlerCancels, Fatal, CommandEnds

\* ExitInv is inductive (signal.go:52-80, exit.go:37-46, main.go:35-71).
THEOREM ExitInvariant == Spec => []ExitInv
<1>1. ExitInv /\ [Next]_vars => ExitInv'
  BY StepType, StepCode, StepStatus DEF ExitInv
<1> QED
  BY InitInv, <1>1, PTL DEF Spec

\* The channel of exit codes never holds more than one, and only codes that mean
\* something (signal.go:28, exit.go:37-46).
THEOREM ExitTypeCorrect == Spec => []TypeOK
<1>1. ExitInv => TypeOK
  BY DEF ExitInv
<1> QED
  BY ExitInvariant, <1>1, PTL

\* A command that stopped because it was interrupted ends with the number of the
\* signal (signal.go:60-64).
THEOREM Interrupted == Spec => []InterruptedCode
<1>1. ExitInv => InterruptedCode
  BY DEF ExitInv
<1> QED
  BY ExitInvariant, <1>1, PTL

\* A failure is never reported as success (signal.go:70-79, main.go:53-70).
THEOREM FailuresReported == Spec => []FailureReported
<1>1. ExitInv => FailureReported
  BY DEF ExitInv
<1> QED
  BY ExitInvariant, <1>1, PTL

-----------------------------------------------------------------------------
\* Why a second signal ends the process, apart from fairness.  There are finitely many
\* places left to go through, and from the second signal on one of the two that end
\* the process can always move.

\* How many places the signal goroutine has before it, and how many main has
\* (signal.go:59-67, main.go:35-71).
HandlerLeft == CASE handler = "first" -> 3
                 [] handler = "send" -> 2
                 [] handler = "cancel" -> 1
                 [] OTHER -> 0

MainLeft == CASE main = "command" -> 3
              [] main = "fatal" -> 2
              [] main = "exit" -> 1
              [] OTHER -> 0

\* No step goes back, of the signal goroutine or of main, and each of their steps
\* leaves less to do or ends the process (signal.go:59-67, main.go:35-71).
EndAdvances ==
    /\ HandlerLeft' <= HandlerLeft /\ MainLeft' <= MainLeft
    /\ Handler => HandlerLeft' < HandlerLeft \/ Ended'
    /\ Main => MainLeft' < MainLeft

\* After two signals, or once the command returned, a process that has not ended is
\* not held up: the signal goroutine or main can take its next step
\* (signal.go:55-79, main.go:37-63).
NotHeldUp ==
    (sent >= 2 \/ command # "running") /\ ~Ended => HandlerReady \/ MainReady

\* The channel of signals has room for the two that count: the first is in it until
\* it is received, the second until the process ends (signal.go:28-30, 55-67).
SignalsHeld ==
    /\ Len(signals) <= 2 /\ Len(signals) <= sent
    /\ handler = "first" /\ sent >= 1 => signals # <<>>
    /\ handler = "first" /\ sent >= 2 => Len(signals) = 2
    /\ handler # "first" /\ sent >= 2 => signals # <<>>
    /\ handler # "first" => sent >= 1
    /\ main = "ended" => Ended

\* And no code is in the channel the goroutine sends to while the command runs.
HeldInv ==
    /\ SignalsHeld
    /\ handler \in {"first", "send"} /\ main = "command" => codes = <<>>

\* The lengths of the channel of signals (signal.go:30, 59, 66).
LEMMA SignalLengths ==
    ASSUME NEW q \in Seq(Signals)
    PROVE  /\ Len(q) \in Nat
           /\ q # <<>> <=> Len(q) >= 1
           /\ q # <<>> => Len(Tail(q)) = Len(q) - 1 /\ Tail(q) \in Seq(Signals)
           /\ \A s \in Signals : Len(Append(q, s)) = Len(q) + 1 /\ Append(q, s) \in Seq(Signals)
OBVIOUS

\* One more signal in a channel of two places (signal.go:30).
LEMMA RoomForTwo ==
    ASSUME NEW n \in Nat, NEW m, NEW k \in Nat,
           n <= 2, n <= k, n < 2 => m = n + 1, n = 2 => m = 2
    PROVE  /\ m <= 2 /\ m <= k + 1
           /\ (k >= 1 => n >= 1) => (k + 1 >= 2 => m = 2)
OBVIOUS

\* No step breaks what is known of the channel of signals (signal.go:52-80,
\* main.go:35-71).
LEMMA StepSignals == ExitInv /\ SignalsHeld /\ [Next]_vars => SignalsHeld'
<1> SUFFICES ASSUME ExitInv, SignalsHeld, [Next]_vars
             PROVE  SignalsHeld'
  OBVIOUS
<1>0. /\ signals \in Seq(Signals) /\ sent \in Nat
      /\ Len(signals) \in Nat /\ (signals # <<>> <=> Len(signals) >= 1)
  BY SignalLengths, ExitAssumption DEF ExitInv, TypeOK
<1>1. ASSUME NEW s \in Signals, Interrupt(s)
      PROVE  SignalsHeld'
  <2>1. /\ sent' = sent + 1
        /\ UNCHANGED <<codes, handler, main, status>>
        /\ Len(signals) < 2 => signals' = Append(signals, s)
        /\ Len(signals) >= 2 => signals' = signals
    BY <1>0, <1>1 DEF Interrupt
  <2>2. Len(signals) < 2 => Len(signals') = Len(signals) + 1 /\ signals' \in Seq(Signals)
    BY <1>0, <2>1, SignalLengths
  <2>3. signals' # <<>>
    BY <1>0, <2>1, <2>2, SignalLengths
  <2>4. Len(signals) = 2 => Len(signals') = 2
    BY <2>1
  <2>5. /\ Len(signals) <= 2 /\ Len(signals) <= sent
        /\ handler = "first" /\ sent >= 1 => Len(signals) >= 1
    BY <1>0 DEF SignalsHeld
  <2>6. /\ Len(signals') <= 2 /\ Len(signals') <= sent'
        /\ handler = "first" /\ sent' >= 2 => Len(signals') = 2
    <3>1. /\ Len(signals') <= 2 /\ Len(signals') <= sent + 1
          /\ (sent >= 1 => Len(signals) >= 1) => (sent + 1 >= 2 => Len(signals') = 2)
      BY <1>0, <2>2, <2>4, <2>5, RoomForTwo
    <3> QED
      BY <1>0, <2>1, <2>5, <3>1
  <2> QED
    BY <1>0, <2>1, <2>3, <2>6 DEF SignalsHeld, Ended
<1>2. CASE HandlerReceives
  <2>1. /\ signals' = Tail(signals) /\ signals # <<>> /\ handler = "first"
        /\ handler' \in {"send", "cancel"}
        /\ handler' = "send" \/ ~AlwaysErrCode
        /\ UNCHANGED <<sent, codes, main, status>>
    BY <1>2, ExitAssumption DEF HandlerReceives
  <2>2. Len(signals') = Len(signals) - 1 /\ (signals' # <<>> <=> Len(signals') >= 1)
    BY <1>0, <2>1, SignalLengths
  <2>3. sent >= 1
    BY <1>0, <1>2, <2>1 DEF SignalsHeld, HandlerReceives
  <2> QED
    BY <1>0, <2>1, <2>2, <2>3 DEF SignalsHeld, Ended
<1>3. CASE HandlerSends
  BY <1>3 DEF HandlerSends, SignalsHeld, Ended
<1>4. CASE HandlerCancels
  BY <1>4 DEF HandlerCancels, SignalsHeld, Ended
<1>5. CASE HandlerExits
  BY <1>5 DEF HandlerExits, SignalsHeld, Ended, signalVars, SecondSignalCode, Alive
<1>6. CASE Fatal
  BY <1>6 DEF Fatal, SignalsHeld, Ended, signalVars
<1>7. CASE Exit
  <2>1. codes # <<>> => Head(codes) \in 1..255
    BY CodesAreStatuses DEF ExitInv, TypeOK
  <2>2. status' = IF codes = <<>> THEN 0 ELSE Head(codes)
    BY <1>7 DEF Exit
  <2>3. status' \in 0..255
    BY <2>1, <2>2
  <2>4. Ended'
    BY <2>3 DEF Ended, Alive
  <2>5. /\ main' = "ended" /\ codes' = <<>>
        /\ UNCHANGED <<signals, sent, handler>>
    BY <1>7 DEF Exit, signalVars
  <2> QED
    BY <2>4, <2>5 DEF SignalsHeld
<1>8. ASSUME NEW outcome \in Outcomes, NEW code \in {0, ErrorCode, TimeoutCode},
             CommandEnds(outcome, code)
      PROVE  SignalsHeld'
  BY <1>8 DEF CommandEnds, SignalsHeld, Ended, signalVars
<1>9. CASE UNCHANGED vars
  BY <1>9 DEF vars, signalVars, SignalsHeld, Ended
<1> QED
  BY <1>1, <1>2, <1>3, <1>4, <1>5, <1>6, <1>7, <1>8, <1>9, NextMoves DEF Moves

\* No step puts a code where the goroutine is to put its own, while the command runs
\* (signal.go:59-64, exit.go:37-46).
LEMMA StepHeld == ExitInv /\ HeldInv /\ [Next]_vars => HeldInv'
<1> SUFFICES ASSUME ExitInv, HeldInv, [Next]_vars, handler' \in {"first", "send"}, main' = "command"
             PROVE  codes' = <<>>
  BY StepSignals DEF HeldInv
<1>1. handler \in {"first", "send"} /\ main = "command" => codes = <<>>
  BY DEF HeldInv
<1> QED
  BY <1>1, NextMoves
     DEF Moves, vars, signalVars, Interrupt, HandlerReceives, HandlerSends, HandlerCancels,
         HandlerExits, Fatal, Exit, CommandEnds

\* HeldInv is inductive (signal.go:52-80).
LEMMA HeldInvariant == Spec => []HeldInv
<1>1. Init => HeldInv
  <2>1. ASSUME Init
        PROVE  Len(signals) = 0
    BY <2>1 DEF Init
  <2> QED
    BY <2>1 DEF Init, HeldInv, SignalsHeld
<1> QED
  BY <1>1, StepHeld, ExitInvariant, PTL DEF Spec

\* However many signals are sent, and whenever: a second signal, or the return of the
\* command, leaves a process that can take the next step to its end
\* (signal.go:55-79, main.go:37-63).
THEOREM NeverHeldUp == Spec => []NotHeldUp
<1>1. ExitInv /\ HeldInv => NotHeldUp
  <2> SUFFICES ASSUME ExitInv, HeldInv, ~Ended, sent >= 2 \/ command # "running"
               PROVE  HandlerReady \/ MainReady
    BY DEF NotHeldUp
  <2>1. /\ handler \in {"first", "send", "cancel", "second"}
        /\ main \in {"command", "fatal", "exit"}
        /\ main = "command" <=> command = "running"
        /\ sent \in Nat
    BY ExitAssumption DEF ExitInv, TypeOK, CodeInv, HeldInv, SignalsHeld
  <2> QED
    BY <2>1 DEF HeldInv, SignalsHeld, HandlerReady, MainReady
<1> QED
  BY <1>1, ExitInvariant, HeldInvariant, PTL

\* Neither the signal goroutine nor main ever goes back, and each of their steps
\* leaves fewer places to go through or ends the process: with NeverHeldUp, five
\* steps of theirs end it (signal.go:59-67, main.go:35-71).
THEOREM EndOnlyAdvances == Spec => [][EndAdvances]_vars
<1>1. ExitInv /\ [Next]_vars => [EndAdvances]_vars
  <2> SUFFICES ASSUME ExitInv, Next
               PROVE  EndAdvances
    BY DEF vars
  <2> USE DEF EndAdvances, HandlerLeft, MainLeft, signalVars
  <2>1. HandlerReceives => HandlerLeft' < HandlerLeft /\ UNCHANGED main
    BY ExitAssumption DEF HandlerReceives
  <2>2. HandlerSends => HandlerLeft' < HandlerLeft /\ UNCHANGED main
    BY DEF HandlerSends
  <2>3. HandlerCancels => HandlerLeft' < HandlerLeft /\ UNCHANGED main
    BY DEF HandlerCancels
  <2>4. HandlerExits => Ended' /\ UNCHANGED <<handler, main>>
    BY DEF HandlerExits, Ended, SecondSignalCode, Alive
  <2>5. Fatal => MainLeft' < MainLeft /\ UNCHANGED handler
    BY DEF Fatal
  <2>6. Exit => MainLeft' < MainLeft /\ UNCHANGED handler
    BY DEF Exit
  <2>7. ASSUME NEW s \in Signals, Interrupt(s)
        PROVE  UNCHANGED <<handler, main>>
    BY <2>7 DEF Interrupt
  <2>8. ASSUME NEW outcome \in Outcomes, NEW code \in {0, ErrorCode, TimeoutCode},
               CommandEnds(outcome, code)
        PROVE  MainLeft' < MainLeft /\ UNCHANGED handler
    BY <2>8 DEF CommandEnds
  <2>9. HandlerLeft \in Nat /\ MainLeft \in Nat /\ HandlerLeft' \in Nat /\ MainLeft' \in Nat
    OBVIOUS
  <2>10. UNCHANGED handler => HandlerLeft' = HandlerLeft
    OBVIOUS
  <2>11. UNCHANGED main => MainLeft' = MainLeft
    OBVIOUS
  <2> HIDE DEF HandlerLeft, MainLeft
  <2>12. Handler => (HandlerLeft' < HandlerLeft \/ Ended') /\ HandlerLeft' <= HandlerLeft /\ UNCHANGED main
    BY <2>1, <2>2, <2>3, <2>4, <2>9, <2>10 DEF Handler
  <2>13. Main => MainLeft' < MainLeft /\ UNCHANGED handler
    BY <2>5, <2>6 DEF Main
  <2>14. (\E s \in Signals : Interrupt(s)) => UNCHANGED <<handler, main>>
    BY <2>7
  <2>15. (\E outcome \in Outcomes, code \in {0, ErrorCode, TimeoutCode} : CommandEnds(outcome, code))
            => MainLeft' < MainLeft /\ UNCHANGED handler
    BY <2>8
  <2>16. HandlerLeft' <= HandlerLeft /\ MainLeft' <= MainLeft
    BY <2>9, <2>10, <2>11, <2>12, <2>13, <2>14, <2>15 DEF Next
  <2> QED
    BY <2>12, <2>13, <2>16
<1> QED
  BY <1>1, ExitInvariant, PTL DEF Spec

-----------------------------------------------------------------------------
\* What can be read from the exit status, whatever signals came and when.

\* A code in the channel, by who can have sent it.
CodeMeans(c) ==
    \/ /\ c \in {ErrorCode, TimeoutCode}
       /\ command = "error" \/ (command = "interrupted" /\ ~AlwaysErrCode)
    \/ /\ AlwaysErrCode
       /\ sent >= 1 /\ first # 0 /\ c = 128 + first

MeansInv ==
    /\ first # 0 => handler # "first"
    /\ handler # "first" => sent >= Len(signals) + 1
    /\ handler = "send" => AlwaysErrCode
    /\ main = "fatal" => command \in {"error", "interrupted"}
    /\ codes # <<>> => CodeMeans(Head(codes))
    /\ StatusMeans

\* The codes the channel can hold are told apart by what they say (signal.go:62,
\* exit.go:25-34).
LEMMA SignalCodes == \A s \in Signals : 128 + s \in Nat /\ 128 + s >= 129
BY ExitAssumption

\* The code that is received is the status, and means what it meant in the channel
\* (signal.go:70-79).
LEMMA ExitMeans ==
    ASSUME ExitInv, HeldInv, MeansInv, Exit
    PROVE  StatusMeans'
<1>1. /\ UNCHANGED <<command, sent, first>>
      /\ main = "exit" /\ ~Ended
      /\ status' = IF codes = <<>> THEN 0 ELSE Head(codes)
  BY DEF Exit, signalVars, Ended
<1>2. CASE codes = <<>>
  <2>1. command = "ok"
    BY <1>1, <1>2 DEF ExitInv, CodeInv
  <2>2. status' = 0
    BY <1>1, <1>2
  <2> QED
    BY <1>1, <2>1, <2>2 DEF StatusMeans, ErrorCode, TimeoutCode, SecondSignalCode
<1>3. CASE codes # <<>>
  <2>1. CodeMeans(status') /\ status' \in 1..255
    BY <1>1, <1>3, CodesAreStatuses DEF MeansInv, ExitInv, TypeOK
  <2>2. first \in Signals \cup {0}
    BY DEF ExitInv, TypeOK
  <2>3. first # 0 => first \in Nat /\ 128 + first >= 129
    BY <2>2, ExitAssumption
  <2> QED
    BY <1>1, <2>1, <2>3
       DEF StatusMeans, CodeMeans, ErrorCode, TimeoutCode, SecondSignalCode
<1> QED
  BY <1>2, <1>3

\* A code that SetExitCodeValue adds is that of an error (exit.go:37-46).
LEMMA AddedMeans ==
    ASSUME ExitInv, MeansInv, NEW code \in {0, ErrorCode, TimeoutCode}, SetExitCodeValue(code),
           UNCHANGED <<sent, first>>,
           command' = command \/ command = "running",
           code # 0 /\ codes = <<>> =>
               command' = "error" \/ (command' = "interrupted" /\ ~AlwaysErrCode)
    PROVE  codes' # <<>> => CodeMeans(Head(codes))'
<1>1. CASE codes = <<>>
  <2>1. codes' = IF code # 0 THEN <<code>> ELSE <<>>
    BY <1>1 DEF SetExitCodeValue
  <2>2. code # 0 => Head(codes') = code /\ code \in {ErrorCode, TimeoutCode}
    BY <2>1
  <2> QED
    BY <1>1, <2>1, <2>2 DEF CodeMeans
<1>2. CASE codes # <<>>
  <2>1. codes' = codes /\ CodeMeans(Head(codes))
    BY <1>2 DEF SetExitCodeValue, MeansInv
  <2> QED
    BY <2>1 DEF CodeMeans
<1> QED
  BY <1>1, <1>2

\* MeansInv is kept by every step (signal.go:52-80, exit.go:37-46, main.go:35-71).
LEMMA StepMeans == ExitInv /\ HeldInv /\ MeansInv /\ [Next]_vars => MeansInv'
<1> SUFFICES ASSUME ExitInv, HeldInv, MeansInv, [Next]_vars
             PROVE  MeansInv'
  OBVIOUS
<1>0. /\ signals \in Seq(Signals) /\ sent \in Nat /\ Len(signals) \in Nat
  BY SignalLengths, ExitAssumption DEF ExitInv, TypeOK
<1>1. ASSUME NEW s \in Signals, Interrupt(s)
      PROVE  MeansInv'
  <2>1. /\ sent' = sent + 1 /\ status = Alive
        /\ UNCHANGED <<codes, handler, first, command, main, status>>
    BY <1>1 DEF Interrupt
  <2>2. Len(signals') \in Nat /\ Len(signals') <= Len(signals) + 1
    <3>1. CASE signals' = signals
      BY <1>0, <3>1
    <3>2. CASE signals' = Append(signals, s)
      BY <1>0, <3>2, SignalLengths
    <3> QED
      BY <1>1, <3>1, <3>2 DEF Interrupt
  <2>3. handler' # "first" => sent' >= Len(signals') + 1
    BY <1>0, <2>1, <2>2 DEF MeansInv
  <2>4. codes' # <<>> => CodeMeans(Head(codes))'
    BY <1>0, <2>1 DEF MeansInv, CodeMeans
  <2>5. StatusMeans'
    BY <2>1 DEF StatusMeans, Ended
  <2> QED
    BY <2>1, <2>3, <2>4, <2>5 DEF MeansInv
<1>2. CASE HandlerReceives
  <2>1. /\ signals # <<>> /\ signals' = Tail(signals) /\ status = Alive
        /\ handler = "first" /\ handler' # "first"
        /\ handler' = "send" => AlwaysErrCode
        /\ UNCHANGED <<sent, codes, command, main, status>>
    BY <1>2 DEF HandlerReceives
  <2>2. Len(signals') = Len(signals) - 1
    BY <1>0, <2>1, SignalLengths
  <2>3. sent' >= Len(signals') + 1
    BY <1>0, <2>1, <2>2 DEF HeldInv, SignalsHeld
  <2>4. codes # <<>> => first # 0 \/ Head(codes) \in {ErrorCode, TimeoutCode}
    BY DEF MeansInv, CodeMeans
  <2>5. first = 0
    BY <2>1 DEF MeansInv
  <2>6. codes' # <<>> => CodeMeans(Head(codes))'
    BY <2>1, <2>4, <2>5 DEF MeansInv, CodeMeans
  <2>7. StatusMeans'
    BY <2>1 DEF StatusMeans, Ended
  <2> QED
    BY <2>1, <2>3, <2>6, <2>7 DEF MeansInv
<1>3. CASE HandlerSends
  <2>1. /\ codes' = <<128 + first>> /\ status = Alive
        /\ handler = "send" /\ handler' = "cancel"
        /\ UNCHANGED <<signals, sent, first, command, main, status>>
    BY <1>3 DEF HandlerSends
  <2>2. AlwaysErrCode /\ sent >= 1 /\ first # 0
    BY <2>1 DEF MeansInv, HeldInv, SignalsHeld, ExitInv, CodeInv
  <2>3. CodeMeans(Head(codes))'
    BY <2>1, <2>2 DEF CodeMeans
  <2>4. StatusMeans'
    BY <2>1 DEF StatusMeans, Ended
  <2> QED
    BY <2>1, <2>3, <2>4 DEF MeansInv
<1>4. CASE HandlerCancels
  BY <1>4 DEF HandlerCancels, MeansInv, StatusMeans, CodeMeans, Ended
<1>5. CASE HandlerExits
  <2>1. /\ handler = "second" /\ signals # <<>> /\ status' = SecondSignalCode
        /\ UNCHANGED <<signals, sent, handler, first, codes, command, main>>
    BY <1>5 DEF HandlerExits, signalVars
  <2>2. sent >= 2
    BY <1>0, <2>1, SignalLengths DEF MeansInv
  <2>3. StatusMeans'
    BY <2>1, <2>2 DEF StatusMeans, SecondSignalCode, ErrorCode, TimeoutCode
  <2> QED
    BY <2>1, <2>3 DEF MeansInv, CodeMeans
<1>6. CASE Fatal
  <2>1. /\ SetExitCodeValue(ErrorCode) /\ status = Alive /\ main = "fatal" /\ main' = "exit"
        /\ UNCHANGED <<signals, sent, handler, first, cancelled, command, status>>
    BY <1>6 DEF Fatal, signalVars
  <2>2. /\ command \in {"error", "interrupted"}
        /\ command = "interrupted" /\ AlwaysErrCode => codes # <<>>
    BY <2>1 DEF MeansInv, ExitInv, CodeInv, Ended
  <2>3. codes' # <<>> => CodeMeans(Head(codes))'
    BY <2>1, <2>2, AddedMeans DEF TypeOK
  <2>4. StatusMeans'
    BY <2>1 DEF StatusMeans, Ended
  <2> QED
    BY <2>1, <2>3, <2>4 DEF MeansInv
<1>7. CASE Exit
  <2>1. StatusMeans'
    BY <1>7, ExitMeans
  <2>2. /\ codes' = <<>> /\ main' = "ended"
        /\ UNCHANGED <<signals, sent, handler, first, command>>
    BY <1>7 DEF Exit, signalVars
  <2> QED
    BY <2>1, <2>2 DEF MeansInv
<1>8. ASSUME NEW outcome \in Outcomes, NEW code \in {0, ErrorCode, TimeoutCode},
             CommandEnds(outcome, code)
      PROVE  MeansInv'
  <2>1. /\ SetExitCodeValue(code) /\ status = Alive /\ main = "command" /\ command' = outcome
        /\ outcome = "ok" => code = 0
        /\ outcome = "interrupted" => cancelled
        /\ main' = IF outcome = "ok" THEN "exit" ELSE "fatal"
        /\ UNCHANGED <<signals, sent, handler, first, cancelled, status>>
    BY <1>8 DEF CommandEnds, signalVars
  <2>2. /\ command = "running"
        /\ cancelled /\ AlwaysErrCode => codes # <<>>
    BY <2>1 DEF ExitInv, CodeInv, Ended
  <2>3. code # 0 /\ codes = <<>> =>
            command' = "error" \/ (command' = "interrupted" /\ ~AlwaysErrCode)
    BY <2>1, <2>2 DEF Outcomes
  <2>4. codes' # <<>> => CodeMeans(Head(codes))'
    BY <2>1, <2>2, <2>3, AddedMeans
  <2>5. StatusMeans'
    BY <2>1 DEF StatusMeans, Ended
  <2> QED
    BY <2>1, <2>4, <2>5 DEF MeansInv, Outcomes
<1>9. CASE UNCHANGED vars
  BY <1>9 DEF vars, signalVars, MeansInv, StatusMeans, CodeMeans, Ended
<1> QED
  BY <1>1, <1>2, <1>3, <1>4, <1>5, <1>6, <1>7, <1>8, <1>9, NextMoves DEF Moves

\* Every exit status is right about what happened (signal.go:61-79, exit.go:25-46,
\* main.go:53-70).
THEOREM StatusIsMeant == Spec => []StatusMeans
<1>1. Init => MeansInv
  <2>1. Init => ~Ended
    BY DEF Init, Ended, Alive
  <2> QED
    BY <2>1 DEF Init, MeansInv, StatusMeans
<1>2. MeansInv => StatusMeans
  BY DEF MeansInv
<1> QED
  BY <1>1, <1>2, StepMeans, ExitInvariant, HeldInvariant, PTL DEF Spec

-----------------------------------------------------------------------------
\* With the fairness of goroutines: that the process does end.  ENABLED is beyond the
\* provers, so the theorems name the fact about it that they need, ReadyMoves: it says
\* only that the steps have no guards but those of HandlerReady and MainReady.

\* Once the command returned, where main can be after a step, whoever took it
\* (main.go:37-63).
LEMMA MainGoesOn ==
    ExitInv /\ [Next]_vars =>
        /\ main = "fatal" => main' \in {"fatal", "exit"}
        /\ main = "exit" => main' = "exit" \/ Ended'
        /\ Main => (main = "fatal" /\ main' = "exit") \/ Ended'
<1> SUFFICES ASSUME ExitInv, [Next]_vars
             PROVE  /\ main = "fatal" => main' \in {"fatal", "exit"}
                    /\ main = "exit" => main' = "exit" \/ Ended'
                    /\ Main => (main = "fatal" /\ main' = "exit") \/ Ended'
  OBVIOUS
<1>1. CASE Exit
  <2>1. codes # <<>> => Head(codes) \in 1..255
    BY CodesAreStatuses DEF ExitInv, TypeOK
  <2>2. status' = IF codes = <<>> THEN 0 ELSE Head(codes)
    BY <1>1 DEF Exit
  <2>3. status' \in 0..255
    BY <2>1, <2>2
  <2>4. Ended'
    BY <2>3 DEF Ended, Alive
  <2>5. main = "exit"
    BY <1>1 DEF Exit
  <2> QED
    BY <2>4, <2>5
<1>2. CASE Fatal
  BY <1>2 DEF Fatal, Main, Exit
<1>3. CASE Handler \/ UNCHANGED vars \/ \E s \in Signals : Interrupt(s)
  <2>1. UNCHANGED main
    BY <1>3 DEF Handler, HandlerReceives, HandlerSends, HandlerCancels, HandlerExits,
                Interrupt, vars
  <2> QED
    BY <2>1 DEF Main, Fatal, Exit
<1>4. ASSUME NEW outcome \in Outcomes, NEW code \in {0, ErrorCode, TimeoutCode},
             CommandEnds(outcome, code)
      PROVE  main = "command" /\ ~Main
  BY <1>4 DEF CommandEnds, Main, Fatal, Exit
<1> QED
  BY <1>1, <1>2, <1>3, <1>4 DEF Next, Main

\* Main ends the process once the command returned (main.go:37-63, signal.go:70-79).
LEMMA MainEnds == Spec /\ WF_vars(Main) /\ []ReadyMoves => (MainReady ~> Ended)
<1> DEFINE InFatal == ~Ended /\ main = "fatal"
           InExit == ~Ended /\ main = "exit"
<1>1. ExitInv /\ InFatal /\ [Next]_vars => Ended' \/ InFatal' \/ InExit'
  BY MainGoesOn
<1>2. ExitInv /\ InFatal /\ <<Next /\ Main>>_vars => Ended' \/ InExit'
  BY MainGoesOn
<1>3. ExitInv /\ InExit /\ [Next]_vars => Ended' \/ InExit'
  BY MainGoesOn
<1>4. ExitInv /\ InExit /\ <<Next /\ Main>>_vars => Ended'
  BY MainGoesOn
<1>5. MainReady => InFatal \/ InExit
  BY DEF MainReady
<1>6. ReadyMoves /\ (InFatal \/ InExit) => ENABLED <<Main>>_vars
  BY DEF MainReady, ReadyMoves
<1>7. <<Main>>_vars => <<Next /\ Main>>_vars
  BY DEF Next
<1> QED
  BY <1>1, <1>2, <1>3, <1>4, <1>5, <1>6, <1>7, ExitInvariant, PTL DEF Spec

\* After two signals, where the goroutine is after a step, whoever took it: each of its
\* own steps takes it one place on (signal.go:59-67).
LEMMA HandlerGoesOn ==
    ExitInv /\ [Next]_vars =>
        /\ sent >= 2 => sent' >= 2
        /\ handler = "first" => handler' \in {"first", "send", "cancel"}
        /\ handler = "send" => handler' \in {"send", "cancel"}
        /\ handler = "cancel" => handler' \in {"cancel", "second"}
        /\ handler = "second" => handler' = "second"
        /\ Handler =>
               \/ Ended'
               \/ handler = "first" /\ handler' \in {"send", "cancel"}
               \/ handler = "send" /\ handler' = "cancel"
               \/ handler = "cancel" /\ handler' = "second"
<1> SUFFICES ASSUME ExitInv, [Next]_vars
             PROVE  /\ sent >= 2 => sent' >= 2
                    /\ handler = "first" => handler' \in {"first", "send", "cancel"}
                    /\ handler = "send" => handler' \in {"send", "cancel"}
                    /\ handler = "cancel" => handler' \in {"cancel", "second"}
                    /\ handler = "second" => handler' = "second"
                    /\ Handler =>
                           \/ Ended'
                           \/ handler = "first" /\ handler' \in {"send", "cancel"}
                           \/ handler = "send" /\ handler' = "cancel"
                           \/ handler = "cancel" /\ handler' = "second"
  OBVIOUS
<1>1. HandlerReceives => handler = "first" /\ handler' \in {"send", "cancel"} /\ sent' = sent
  BY ExitAssumption DEF HandlerReceives
<1>2. HandlerSends => handler = "send" /\ handler' = "cancel" /\ sent' = sent
  BY DEF HandlerSends
<1>3. HandlerCancels => handler = "cancel" /\ handler' = "second" /\ sent' = sent
  BY DEF HandlerCancels
<1>4. HandlerExits => handler = "second" /\ handler' = handler /\ sent' = sent /\ Ended'
  BY DEF HandlerExits, signalVars, Ended, SecondSignalCode, Alive
<1>5. sent \in Nat
  BY ExitAssumption DEF ExitInv, TypeOK
<1>6. (\E s \in Signals : Interrupt(s)) => sent' = sent + 1 /\ handler' = handler
  BY DEF Interrupt
<1>7. Main \/ UNCHANGED vars \/ (\E outcome \in Outcomes, code \in {0, ErrorCode, TimeoutCode} :
                                     CommandEnds(outcome, code))
        => sent' = sent /\ handler' = handler
  BY DEF Main, Fatal, Exit, CommandEnds, vars, signalVars
<1> QED
  BY <1>1, <1>2, <1>3, <1>4, <1>5, <1>6, <1>7 DEF Next, Handler

\* From the second signal on the goroutine goes through its places, unless main ends the
\* process first (signal.go:59-67).
LEMMA HandlerEnds ==
    Spec /\ WF_vars(Handler) /\ []ReadyMoves => (sent >= 2 ~> Ended \/ MainReady)
<1> DEFINE At(h) == sent >= 2 /\ ~Ended /\ ~MainReady /\ handler = h
           Over == Ended \/ MainReady
<1>1. ExitInv /\ At("first") /\ [Next]_vars
        => Over' \/ At("first")' \/ At("send")' \/ At("cancel")'
  BY HandlerGoesOn
<1>2. ExitInv /\ At("first") /\ <<Next /\ Handler>>_vars => Over' \/ At("send")' \/ At("cancel")'
  BY HandlerGoesOn
<1>3. ExitInv /\ At("send") /\ [Next]_vars => Over' \/ At("send")' \/ At("cancel")'
  BY HandlerGoesOn
<1>4. ExitInv /\ At("send") /\ <<Next /\ Handler>>_vars => Over' \/ At("cancel")'
  BY HandlerGoesOn
<1>5. ExitInv /\ At("cancel") /\ [Next]_vars => Over' \/ At("cancel")' \/ At("second")'
  BY HandlerGoesOn
<1>6. ExitInv /\ At("cancel") /\ <<Next /\ Handler>>_vars => Over' \/ At("second")'
  BY HandlerGoesOn
<1>7. ExitInv /\ At("second") /\ [Next]_vars => Over' \/ At("second")'
  BY HandlerGoesOn
<1>8. ExitInv /\ At("second") /\ <<Next /\ Handler>>_vars => Over'
  BY HandlerGoesOn
<1>9. ExitInv /\ sent >= 2 => Over \/ At("first") \/ At("send") \/ At("cancel") \/ At("second")
  BY DEF ExitInv, TypeOK
<1>10. NotHeldUp /\ ReadyMoves /\ (At("first") \/ At("send") \/ At("cancel") \/ At("second"))
         => ENABLED <<Handler>>_vars
  BY DEF NotHeldUp, ReadyMoves
<1>11. <<Handler>>_vars => <<Next /\ Handler>>_vars
  BY DEF Next
<1> HIDE DEF At, Over
<1>12. Over => Ended \/ MainReady
  BY DEF Over
<1> QED
  BY <1>1, <1>2, <1>3, <1>4, <1>5, <1>6, <1>7, <1>8, <1>9, <1>10, <1>11, <1>12,
     ExitInvariant, NeverHeldUp, PTL DEF Spec

\* A second signal ends the process, whatever the command does with its context, and
\* wherever the goroutine and main are (signal.go:65-67).
THEOREM SecondSignal == FairSpec /\ []ReadyMoves => SecondSignalEnds
BY HandlerEnds, MainEnds, PTL DEF FairSpec, Fairness, SecondSignalEnds

\* A command that returned ends the process, also while the goroutine waits for room in
\* the channel of codes (main.go:37, 62-63).
THEOREM ReturnIsTheEnd == FairSpec /\ []ReadyMoves => ReturnEnds
<1>1. ExitInv /\ HeldInv /\ command # "running" => Ended \/ MainReady
  BY DEF ExitInv, TypeOK, CodeInv, HeldInv, SignalsHeld, MainReady
<1> QED
  BY <1>1, MainEnds, ExitInvariant, HeldInvariant, PTL DEF FairSpec, Fairness, ReturnEnds

-----------------------------------------------------------------------------
\* What the poll, the command's code and the place of main say of each other
\* (api.go:110-144).
PollInv ==
    /\ poll \in {"check", "sleep", "ready", "deadline", "canceled"}
    /\ poll \in {"sleep", "deadline", "canceled"} => lastError # "none"
    /\ lastError \in Errors \cup {"none"}
    /\ elapsed \in Nat
    /\ told \in BOOLEAN
    /\ told => poll \in {"deadline", "canceled"}
    /\ poll = "canceled" => cancelled
    /\ main # "command" => command = Outcome /\ (poll = "ready" \/ told)
    /\ Ended /\ main = "command" => status = SecondSignalCode
    /\ main = "command" /\ ~told =>
           /\ codes \notin {<<ErrorCode>>, <<TimeoutCode>>}
           /\ handler \in {"first", "send"} => codes = <<>>

\* The check starts like any command (api.go:109-110).
LEMMA PollInit == CheckInit => PollInv
<1> SUFFICES ASSUME CheckInit
             PROVE  PollInv
  OBVIOUS
<1>1. /\ codes \notin {<<ErrorCode>>, <<TimeoutCode>>}
      /\ handler \in {"first", "send"} => codes = <<>>
  BY DEF CheckInit, Init
<1>2. main = "command" /\ ~Ended
  BY DEF CheckInit, Init, Ended
<1>3. poll = "check" /\ lastError = "none" /\ elapsed = 0 /\ told = FALSE
  BY DEF CheckInit
<1> QED
  BY ONLY <1>1, <1>2, <1>3 DEF PollInv

\* The code the command hands over is one of an error, or none (api.go:132-137,
\* exit.go:25-34).
LEMMA PollCode == PollExitCode(poll) \in {0, ErrorCode, TimeoutCode}
BY DEF PollExitCode, ErrorCodeOf

\* But for the exit code it sets, a step of check api is one that ExitHandler has without
\* a code of the command, or none (api.go:106-145).
LEMMA ExitHandlerStep ==
    ExitInv /\ PollInv /\ [CheckNext]_checkAllVars => [Next]_vars \/ SetsExitCode
<1> SUFFICES ASSUME ExitInv, PollInv, [CheckNext]_checkAllVars, ~SetsExitCode
             PROVE  [Next]_vars
  OBVIOUS
<1>1. ASSUME NEW err \in Errors \cup {"none"}, NEW t \in 1..CheckTime, Check(err, t)
      PROVE  UNCHANGED vars
  BY <1>1 DEF Check
<1>2. ASSUME NEW t \in 0..Interval, Sleep(t)
      PROVE  UNCHANGED vars
  BY <1>2 DEF Sleep
<1>3. CASE Return
  <2>1. Outcome \in Outcomes /\ (Outcome = "interrupted" => cancelled)
    BY DEF Outcome, Outcomes, PollInv
  <2>2. CommandEnds(Outcome, 0)
    BY <1>3, <2>1 DEF Return, InCommand, CommandEnds, SetExitCodeValue
  <2> QED
    BY <2>1, <2>2 DEF Next
<1>4. CASE (Handler \/ Main \/ \E s \in Signals : Interrupt(s)) /\ UNCHANGED checkVars
  BY <1>4 DEF Next
<1>5. CASE UNCHANGED checkAllVars
  BY <1>5 DEF checkAllVars
<1> QED
  BY <1>1, <1>2, <1>3, <1>4, <1>5 DEF CheckNext, CheckStep

\* Setting the exit code breaks nothing that the three parties rely on: it replaces no
\* code (api.go:132-137, exit.go:37-46).
LEMMA CodeSet == ExitInv /\ SignalsHeld /\ SetsExitCode => ExitInv' /\ SignalsHeld'
<1> SUFFICES ASSUME ExitInv, SignalsHeld, SetsExitCode
             PROVE  ExitInv' /\ SignalsHeld'
  OBVIOUS
<1>1. /\ SetExitCodeValue(PollExitCode(poll))
      /\ status = Alive /\ main = "command"
      /\ UNCHANGED <<signals, sent, handler, first, cancelled, command, main, status>>
  BY DEF SetsExitCode, InCommand, signalVars
<1>2. PollExitCode(poll) \in Codes \cup {0}
  BY PollCode DEF Codes
<1>3. /\ codes' \in {<<>>} \cup {<<c>> : c \in Codes}
      /\ codes # <<>> => codes' = codes
  BY <1>1, <1>2, SetExitCodeKeeps DEF ExitInv, TypeOK
<1>4. TypeOK'
  BY <1>1, <1>3 DEF ExitInv, TypeOK
<1>5. CodeInv'
  BY <1>1, <1>3 DEF ExitInv, CodeInv, Ended
<1> QED
  BY <1>1, <1>4, <1>5 DEF ExitInv, SignalsHeld, InterruptedCode, FailureReported, Ended

\* A step of CheckApi keeps PollInv (api.go:106-145).
LEMMA PollStep == ExitInv /\ PollInv /\ [CheckNext]_checkAllVars => PollInv'
<1> SUFFICES ASSUME ExitInv, PollInv, [CheckNext]_checkAllVars
             PROVE  PollInv'
  OBVIOUS
<1> USE DEF PollInv, checkVars, Ended, InCommand
<1>1. ASSUME NEW err \in Errors \cup {"none"}, NEW t \in 1..CheckTime, Check(err, t)
      PROVE  PollInv'
  <2>1. UNCHANGED <<handler, cancelled, codes, main, status, told>> /\ ~told
    BY <1>1 DEF Check, vars, signalVars
  <2>2. /\ elapsed' \in Nat
        /\ lastError' \in Errors \cup {"none"}
        /\ poll' \in {"ready", "deadline", "sleep"}
        /\ poll' # "ready" => lastError' # "none"
    BY <1>1, CheckAssumption DEF Check
  <2>3. main = "command" /\ status = Alive
    BY <1>1 DEF Check, Running
  <2> QED
    BY <2>1, <2>2, <2>3
<1>2. ASSUME NEW t \in 0..Interval, Sleep(t)
      PROVE  PollInv'
  <2>1. UNCHANGED <<handler, cancelled, codes, main, status, told, lastError>> /\ ~told
    BY <1>2 DEF Sleep, vars, signalVars
  <2>2. /\ elapsed' \in Nat
        /\ poll = "sleep"
        /\ \/ poll' = "canceled" /\ cancelled
           \/ poll' = "check"
    BY <1>2, CheckAssumption DEF Sleep
  <2>3. main = "command" /\ status = Alive
    BY <1>2 DEF Sleep, Running
  <2> QED
    BY <2>1, <2>2, <2>3
<1>3. CASE SetsExitCode
  BY <1>3 DEF SetsExitCode, signalVars
<1>4. CASE Return
  <2>1. Outcome' = Outcome
    BY <1>4 DEF Return, Outcome
  <2> QED
    BY <1>4, <2>1 DEF Return, signalVars
<1>5. ASSUME Handler \/ Main \/ \E s \in Signals : Interrupt(s), UNCHANGED checkVars
      PROVE  PollInv'
  <2>1. Outcome' = Outcome
    BY <1>5 DEF Outcome
  <2>2. CASE HandlerSends
    <3>1. first \in Nat /\ 128 + first >= 128
      <4>1. first \in Signals \cup {0}
        BY DEF ExitInv, TypeOK
      <4> QED
        BY <4>1, ExitAssumption
    <3>2. <<128 + first>> \notin {<<ErrorCode>>, <<TimeoutCode>>}
      BY <3>1 DEF ErrorCode, TimeoutCode
    <3> QED
      BY <1>5, <2>1, <2>2, <3>2 DEF HandlerSends
  <2>3. CASE Main
    <3>1. main # "command" /\ main' # "command" /\ UNCHANGED <<command, cancelled>>
      BY <2>3 DEF Main, Fatal, Exit, signalVars
    <3> QED
      BY <1>5, <2>1, <3>1
  <2>4. CASE HandlerReceives \/ HandlerCancels \/ HandlerExits \/ \E s \in Signals : Interrupt(s)
    <3>1. /\ UNCHANGED <<command, main, codes>> /\ (cancelled => cancelled')
          /\ status' = status \/ status' = SecondSignalCode
          /\ handler' \in {"first", "send"} => handler \in {"first", "send"}
      BY <2>4 DEF HandlerReceives, HandlerCancels, HandlerExits, Interrupt, signalVars
    <3> QED
      BY <1>5, <2>1, <3>1
  <2> QED
    BY <1>5, <2>2, <2>3, <2>4 DEF Handler
<1>6. CASE UNCHANGED checkAllVars
  <2>1. Outcome' = Outcome
    BY <1>6 DEF checkAllVars, Outcome
  <2> QED
    BY <1>6, <2>1 DEF checkAllVars, vars, signalVars
<1> QED
  BY <1>1, <1>2, <1>3, <1>4, <1>5, <1>6 DEF CheckNext, CheckStep

\* What ExitHandler and CheckApi know of a reachable state.
ReachInv == ExitInv /\ SignalsHeld /\ PollInv

LEMMA ReachStep == ReachInv /\ [CheckNext]_checkAllVars => ReachInv'
<1> SUFFICES ASSUME ReachInv, [CheckNext]_checkAllVars
             PROVE  ReachInv'
  OBVIOUS
<1>1. CASE [Next]_vars
  BY <1>1, PollStep, StepType, StepCode, StepStatus, StepSignals DEF ReachInv, ExitInv
<1>2. CASE SetsExitCode
  BY <1>2, PollStep, CodeSet DEF ReachInv
<1> QED
  BY <1>1, <1>2, ExitHandlerStep DEF ReachInv

\* What holds of the process that runs check api, and of its poll (api.go:106-145,
\* signal.go:52-80, main.go:35-71).
THEOREM PollInvariant == CheckSpec => []ReachInv
<1>1. CheckInit => SignalsHeld
  <2>1. ASSUME CheckInit
        PROVE  Len(signals) = 0
    BY <2>1 DEF CheckInit, Init
  <2> QED
    BY <2>1 DEF CheckInit, Init, SignalsHeld
<1>2. CheckInit => ReachInv
  BY <1>1, PollInit, InitInv DEF CheckInit, ReachInv
<1> QED
  BY <1>2, ReachStep, PTL DEF CheckSpec

\* A step of check api is one of the process as ExitHandler has it, or none: the command
\* ends with the code it left in the channel, if that is its own (api.go:131-144).
LEMMA RefinedStep == ReachInv /\ [CheckNext]_checkAllVars => [EH!Next]_EH!vars
<1> SUFFICES ASSUME ReachInv, [CheckNext]_checkAllVars
             PROVE  [EH!Next]_EH!vars
  OBVIOUS
<1> USE DEF EH!signalVars, signalVars, EH!Alive, Alive, EH!ErrorCode, ErrorCode, EH!TimeoutCode,
            TimeoutCode, EH!SecondSignalCode, SecondSignalCode
<1>1. ASSUME NEW err \in Errors \cup {"none"}, NEW t \in 1..CheckTime, Check(err, t)
      PROVE  UNCHANGED EH!vars
  BY <1>1 DEF Check, vars, EH!vars, CommandCodes
<1>2. ASSUME NEW t \in 0..Interval, Sleep(t)
      PROVE  UNCHANGED EH!vars
  BY <1>2 DEF Sleep, vars, EH!vars, CommandCodes
<1>3. CASE SetsExitCode
  <2>1. /\ main = "command" /\ main' = "command"
        /\ codes' = codes \/ (codes = <<>> /\ codes' \in {<<ErrorCode>>, <<TimeoutCode>>})
    BY <1>3, PollCode DEF SetsExitCode, InCommand, SetExitCodeValue
  <2>2. CommandCodes' = CommandCodes
    BY <2>1 DEF CommandCodes
  <2> QED
    BY <1>3, <2>2 DEF SetsExitCode, EH!vars
<1>4. CASE Return
  <2> DEFINE code == IF codes \in {<<ErrorCode>>, <<TimeoutCode>>} THEN Head(codes) ELSE 0
  <2>1. Outcome \in Outcomes /\ (Outcome = "interrupted" => cancelled)
    BY DEF Outcome, Outcomes, ReachInv, PollInv
  <2>2. Outcome = "ok" => code = 0
    BY <1>4 DEF Return, InCommand, Outcome, ReachInv, PollInv
  <2>3. code \in {0, ErrorCode, TimeoutCode}
    OBVIOUS
  <2>4. codes \in {<<ErrorCode>>, <<TimeoutCode>>} => codes = <<code>> /\ code # 0
    OBVIOUS
  <2>5. /\ main = "command" /\ status = Alive /\ codes' = codes
        /\ command' = Outcome /\ main' = IF Outcome = "ok" THEN "exit" ELSE "fatal"
        /\ UNCHANGED <<signals, sent, handler, first, cancelled, status>>
    BY <1>4 DEF Return, InCommand
  <2>6. EH!SetExitCodeValue(code)
    <3>1. main' # "command"
      BY <2>5
    <3>2. CASE codes \in {<<ErrorCode>>, <<TimeoutCode>>}
      <4>1. CommandCodes = <<>> /\ CommandCodes' = <<code>>
        BY <2>4, <2>5, <3>1, <3>2 DEF CommandCodes
      <4> HIDE DEF code
      <4> QED
        BY <2>4, <3>2, <4>1 DEF EH!SetExitCodeValue
    <3>3. CASE codes \notin {<<ErrorCode>>, <<TimeoutCode>>}
      <4>1. CommandCodes' = CommandCodes /\ code = 0
        BY <2>5, <3>1, <3>3 DEF CommandCodes
      <4> HIDE DEF code
      <4> QED
        BY <4>1 DEF EH!SetExitCodeValue
    <3> QED
      BY <3>2, <3>3
  <2> HIDE DEF code
  <2>7. EH!CommandEnds(Outcome, code)
    BY <2>1, <2>2, <2>5, <2>6 DEF EH!CommandEnds
  <2> QED
    BY <2>1, <2>3, <2>7 DEF EH!Next, EH!Outcomes, Outcomes
<1>5. ASSUME Handler \/ \E s \in Signals : Interrupt(s)
      PROVE  EH!Next
  <2>1. main' = main
    BY <1>5 DEF Handler, HandlerReceives, HandlerSends, HandlerCancels, HandlerExits, Interrupt
  <2>2. codes' = codes => CommandCodes' = CommandCodes
    BY <2>1 DEF CommandCodes
  <2>3. ASSUME NEW s \in Signals, Interrupt(s)
        PROVE  EH!Interrupt(s)
    BY <2>2, <2>3 DEF Interrupt, EH!Interrupt
  <2>4. HandlerReceives => EH!HandlerReceives
    BY <2>2 DEF HandlerReceives, EH!HandlerReceives
  <2>5. CASE HandlerSends
    <3>1. first \in Nat /\ 128 + first >= 128
      BY ExitAssumption DEF ReachInv, ExitInv, TypeOK
    <3>2. <<128 + first>> \notin {<<ErrorCode>>, <<TimeoutCode>>}
      BY <3>1
    <3>3. CommandCodes = <<>> /\ CommandCodes' = <<128 + first>>
      BY <2>5, <3>2 DEF HandlerSends, CommandCodes
    <3>4. EH!HandlerSends
      BY <2>5, <3>3 DEF HandlerSends, EH!HandlerSends
    <3> QED
      BY <3>4 DEF EH!Next, EH!Handler
  <2>6. HandlerCancels => EH!HandlerCancels
    BY <2>2 DEF HandlerCancels, EH!HandlerCancels
  <2>7. HandlerExits => EH!HandlerExits
    BY <2>2 DEF HandlerExits, EH!HandlerExits
  <2> QED
    BY <1>5, <2>3, <2>4, <2>5, <2>6, <2>7 DEF Handler, EH!Next, EH!Handler
<1>6. ASSUME Main
      PROVE  EH!Next
  <2>1. main # "command" /\ main' # "command"
    BY <1>6 DEF Main, Fatal, Exit
  <2>2. CommandCodes = codes /\ CommandCodes' = codes'
    BY <2>1 DEF CommandCodes
  <2>3. Fatal => EH!Fatal
    BY <2>2 DEF Fatal, EH!Fatal, SetExitCodeValue, EH!SetExitCodeValue
  <2>4. Exit => EH!Exit
    BY <2>2 DEF Exit, EH!Exit
  <2> QED
    BY <1>6, <2>3, <2>4 DEF Main, EH!Main, EH!Next
<1>7. CASE UNCHANGED checkAllVars
  BY <1>7 DEF checkAllVars, vars, EH!vars, CommandCodes
<1> QED
  BY <1>1, <1>2, <1>3, <1>4, <1>5, <1>6, <1>7 DEF CheckNext, CheckStep

\* check api is a command as ExitHandler sees commands, whatever the wait, the interval
\* and the duration of the checks, and whatever the signals do between the code it sets
\* and its return (api.go:131-144).
THEOREM CheckRefines == CheckSpec => ImplementsExitHandler
<1>1. CheckInit => EH!Init
  BY DEF CheckInit, Init, EH!Init, CommandCodes, EH!Alive, Alive
<1> QED
  BY <1>1, PollInvariant, RefinedStep, PTL DEF CheckSpec, ImplementsExitHandler, EH!Spec

\* Status 0 says that the last check succeeded (api.go:131-144, main.go:53-70).
THEOREM ReadyWhenZero == CheckSpec => []ZeroMeansReady
<1>1. ReachInv => ZeroMeansReady
  <2> SUFFICES ASSUME ReachInv, Ended, status = 0
               PROVE  poll = "ready"
    BY DEF ZeroMeansReady
  <2>1. command = "ok" /\ main # "command"
    BY DEF ReachInv, ExitInv, FailureReported, PollInv, SecondSignalCode
  <2>2. Outcome = "ok"
    BY <2>1 DEF ReachInv, PollInv
  <2> QED
    BY <2>1, <2>2 DEF ReachInv, PollInv, Outcome
<1> QED
  BY <1>1, PollInvariant, PTL

\* A wait that was interrupted ends with the number of the signal, whatever the errors of
\* the checks before (api.go:131-139, signal.go:60-64).
THEOREM InterruptIsReported == CheckSpec => []InterruptReported
<1>1. ReachInv => InterruptReported
  <2> SUFFICES ASSUME ReachInv, Ended, poll = "canceled", AlwaysErrCode
               PROVE  status \in {128 + first, SecondSignalCode}
    BY DEF InterruptReported
  <2>1. CASE main = "command"
    BY <2>1 DEF ReachInv, PollInv
  <2>2. CASE main # "command"
    <3>1. command = "interrupted"
      BY <2>2 DEF ReachInv, PollInv, Outcome
    <3> QED
      BY <3>1 DEF ReachInv, ExitInv, InterruptedCode
  <2> QED
    BY <2>1, <2>2
<1> QED
  BY <1>1, PollInvariant, PTL

-----------------------------------------------------------------------------
\* How long the polling has lasted, by the place where it is (api.go:111, 122).
ElapsedInv ==
    /\ wait \in Nat
    /\ elapsed \in Nat
    /\ poll = "check" => elapsed <= wait + Interval
    /\ poll = "sleep" => elapsed <= wait
    /\ elapsed <= wait + Interval + CheckTime

\* The wait is over at most one interval and one check late, for any interval and any
\* duration of the checks (api.go:111, 122).
THEOREM WaitIsBounded == CheckSpec => []WaitBounded
<1> USE CheckAssumption DEF ElapsedInv
<1>1. CheckInit => ElapsedInv
  BY DEF CheckInit
<1>2. ElapsedInv /\ [CheckNext]_checkAllVars => ElapsedInv'
  <2> SUFFICES ASSUME ElapsedInv, [CheckNext]_checkAllVars
               PROVE  ElapsedInv'
    OBVIOUS
  <2>1. ASSUME NEW err \in Errors \cup {"none"}, NEW t \in 1..CheckTime, Check(err, t)
        PROVE  ElapsedInv'
    BY <2>1 DEF Check, WaitedOut
  <2>2. ASSUME NEW t \in 0..Interval, Sleep(t)
        PROVE  ElapsedInv'
    BY <2>2 DEF Sleep
  <2>3. CASE UNCHANGED checkVars
    BY <2>3 DEF checkVars
  <2> QED
    BY <2>1, <2>2, <2>3 DEF CheckNext, CheckStep, SetsExitCode, Return, checkAllVars, checkVars
<1>3. ElapsedInv => WaitBounded
  BY DEF WaitBounded
<1> QED
  BY <1>1, <1>2, <1>3, PTL DEF CheckSpec

\* A step of the poll ends it or goes on, and time has passed with every check: with
\* WaitBounded there is no room for more than wait + Interval + CheckTime checks
\* (api.go:106-124).
PollAdvances ==
    /\ elapsed' >= elapsed
    /\ Running /\ CheckStep =>
           \/ ~Running'
           \/ poll = "check" /\ poll' = "sleep" /\ elapsed' > elapsed
           \/ poll = "sleep" /\ poll' = "check"

\* The poll never goes on without coming nearer to its end, whatever the checks answer
\* and whoever else moves (api.go:106-124).
THEOREM PollOnlyAdvances == CheckSpec => [][PollAdvances]_checkAllVars
<1>1. ReachInv /\ [CheckNext]_checkAllVars => [PollAdvances]_checkAllVars
  <2> SUFFICES ASSUME ReachInv, CheckNext
               PROVE  PollAdvances
    BY DEF checkAllVars
  <2>0. elapsed \in Nat
    BY DEF ReachInv, PollInv
  <2>1. ASSUME NEW err \in Errors \cup {"none"}, NEW t \in 1..CheckTime, Check(err, t)
        PROVE  /\ elapsed' > elapsed
               /\ poll = "check"
               /\ ~Running' \/ poll' = "sleep"
    BY <2>0, <2>1, CheckAssumption DEF Check, Running
  <2>2. ASSUME NEW t \in 0..Interval, Sleep(t)
        PROVE  /\ elapsed' >= elapsed
               /\ poll = "sleep"
               /\ ~Running' \/ poll' = "check"
    BY <2>0, <2>2, CheckAssumption DEF Sleep, Running
  <2>3. SetsExitCode \/ Return => ~Running /\ elapsed' = elapsed
    BY DEF SetsExitCode, Return, Running, checkVars, ReachInv, PollInv
  <2>4. ASSUME Handler \/ Main \/ \E s \in Signals : Interrupt(s), UNCHANGED checkVars
        PROVE  elapsed' = elapsed
    BY <2>4 DEF checkVars
  <2>5. Running /\ CheckStep =>
            \/ ~Running'
            \/ poll = "check" /\ poll' = "sleep" /\ elapsed' > elapsed
            \/ poll = "sleep" /\ poll' = "check"
    BY <2>1, <2>2, <2>3 DEF CheckStep
  <2>6. CheckStep => elapsed' >= elapsed
    <3>1. ASSUME NEW err \in Errors \cup {"none"}, NEW t \in 1..CheckTime, Check(err, t)
          PROVE  elapsed' >= elapsed
      BY <2>0, <3>1, CheckAssumption DEF Check
    <3> QED
      BY <2>0, <2>2, <2>3, <3>1 DEF CheckStep
  <2> QED
    BY <2>0, <2>4, <2>5, <2>6 DEF CheckNext, PollAdvances
<1> QED
  BY <1>1, PollInvariant, PTL DEF CheckSpec

-----------------------------------------------------------------------------
(* One signal ends check api.  The command is done when main has its result.  *)

Done == main \in {"fatal", "exit"}

Goroutines == (Handler \/ Main) /\ UNCHANGED checkVars

\* A step of the command is none of the goroutines (api.go:106-145).
LEMMA CommandMoves ==
    PollInv /\ CheckStep =>
        /\ UNCHANGED <<handler, cancelled, sent, status>> /\ main = "command"
        /\ \/ poll = "check" /\ poll' # "check" /\ main' = main
           \/ poll = "sleep" /\ main' = main /\ (cancelled => poll' = "canceled")
           \/ poll \in {"deadline", "canceled"} /\ ~told /\ UNCHANGED <<main, poll>> /\ told'
           \/ (poll = "ready" \/ told) /\ Done' /\ UNCHANGED poll
<1> SUFFICES ASSUME PollInv, CheckStep
             PROVE  /\ UNCHANGED <<handler, cancelled, sent, status>> /\ main = "command"
                    /\ \/ poll = "check" /\ poll' # "check" /\ main' = main
                       \/ poll = "sleep" /\ main' = main /\ (cancelled => poll' = "canceled")
                       \/ poll \in {"deadline", "canceled"} /\ ~told /\ UNCHANGED <<main, poll>> /\ told'
                       \/ (poll = "ready" \/ told) /\ Done' /\ UNCHANGED poll
  OBVIOUS
<1>1. ASSUME NEW err \in Errors \cup {"none"}, NEW t \in 1..CheckTime, Check(err, t)
      PROVE  /\ UNCHANGED <<handler, cancelled, sent, status, main>> /\ main = "command"
             /\ poll = "check" /\ poll' # "check"
  BY <1>1 DEF Check, Running, vars, signalVars
<1>2. ASSUME NEW t \in 0..Interval, Sleep(t)
      PROVE  /\ UNCHANGED <<handler, cancelled, sent, status, main>> /\ main = "command"
             /\ poll = "sleep" /\ (cancelled => poll' = "canceled")
  BY <1>2 DEF Sleep, Running, vars, signalVars
<1>3. CASE SetsExitCode
  BY <1>3 DEF SetsExitCode, InCommand, signalVars
<1>4. CASE Return
  BY <1>4 DEF Return, InCommand, Done, signalVars, checkVars
<1> QED
  BY <1>1, <1>2, <1>3, <1>4 DEF CheckStep

\* How many steps the goroutine and main have left at most once the command returned
\* (signal.go:52-80, main.go:37-63).
StepsLeft ==
    (IF main = "fatal" THEN 4 ELSE 0)
      + (CASE handler = "first" -> 4 [] handler = "send" -> 3 [] handler = "cancel" -> 2
           [] OTHER -> 1)

Finishing(k) == Done /\ ~Ended /\ StepsLeft <= k

LEMMA StepsGoDown ==
    ReachInv /\ Done /\ ~Ended /\ [CheckNext]_checkAllVars =>
        /\ Ended' \/ (Done' /\ StepsLeft' <= StepsLeft)
        /\ Goroutines => Ended' \/ (Done' /\ StepsLeft' < StepsLeft)
<1> SUFFICES ASSUME ReachInv, Done, ~Ended, [CheckNext]_checkAllVars, ~Ended'
             PROVE  /\ Done' /\ StepsLeft' <= StepsLeft
                    /\ Goroutines => StepsLeft' < StepsLeft
  OBVIOUS
<1>1. ExitInv /\ [Next]_vars
  BY ExitHandlerStep DEF ReachInv, SetsExitCode, InCommand, Done
<1>2. /\ handler \in {"first", "send", "cancel", "second"}
      /\ main \in {"fatal", "exit"}
  BY <1>1 DEF ExitInv, TypeOK, Done
<1>3. /\ main' \in {"fatal", "exit"} /\ (main = "exit" => main' = "exit")
      /\ Main => main = "fatal" /\ main' = "exit"
  BY <1>1, <1>2, MainGoesOn
<1>4. /\ handler = "first" => handler' \in {"first", "send", "cancel"}
      /\ handler = "send" => handler' \in {"send", "cancel"}
      /\ handler = "cancel" => handler' \in {"cancel", "second"}
      /\ handler = "second" => handler' = "second"
      /\ Handler => \/ handler = "first" /\ handler' \in {"send", "cancel"}
                    \/ handler = "send" /\ handler' = "cancel"
                    \/ handler = "cancel" /\ handler' = "second"
  BY <1>1, HandlerGoesOn
<1>5. StepsLeft' <= StepsLeft
  BY <1>2, <1>3, <1>4 DEF StepsLeft
<1>6. Handler \/ Main => StepsLeft' < StepsLeft
  BY <1>2, <1>3, <1>4 DEF StepsLeft
<1> QED
  BY <1>3, <1>5, <1>6 DEF Done, Goroutines

LEMMA OneStepLess ==
    ASSUME NEW j \in Nat, NEW k \in Nat, k = j + 1
    PROVE  /\ ReachInv /\ Finishing(k) /\ [CheckNext]_checkAllVars => Finishing(k)' \/ Ended'
           /\ ReachInv /\ Finishing(k) /\ <<CheckNext /\ Goroutines>>_checkAllVars
                => Finishing(j)' \/ Ended'
<1>0. StepsLeft \in Nat /\ StepsLeft' \in Nat
  BY DEF StepsLeft
<1> QED
  BY <1>0, StepsGoDown DEF Finishing

\* The process ends after its command, at the latest with the eighth step of the two
\* (main.go:37-63, signal.go:52-80).
LEMMA DoneEnds == CheckFairSpec /\ []CheckMoves => (Done ~> Ended)
<1> DEFINE Stays(k) ==
             ReachInv /\ Finishing(k) /\ [CheckNext]_checkAllVars => Finishing(k)' \/ Ended'
           Falls(k, j) ==
             ReachInv /\ Finishing(k) /\ <<CheckNext /\ Goroutines>>_checkAllVars
                 => Finishing(j)' \/ Ended'
<1>1. Stays(1) /\ Falls(1, 0)
  BY OneStepLess
<1>2. Stays(2) /\ Falls(2, 1)
  BY OneStepLess
<1>3. Stays(3) /\ Falls(3, 2)
  BY OneStepLess
<1>4. Stays(4) /\ Falls(4, 3)
  BY OneStepLess
<1>5. Stays(5) /\ Falls(5, 4)
  BY OneStepLess
<1>6. Stays(6) /\ Falls(6, 5)
  BY OneStepLess
<1>7. Stays(7) /\ Falls(7, 6)
  BY OneStepLess
<1>8. Stays(8) /\ Falls(8, 7)
  BY OneStepLess
<1>9. Done => Finishing(8) \/ Ended
  BY DEF Finishing, StepsLeft
<1>10. ~Finishing(0)
  BY DEF Finishing, StepsLeft
<1>11. CheckMoves /\ Done /\ ~Ended => ENABLED <<(Handler \/ Main) /\ UNCHANGED checkVars>>_checkAllVars
  BY DEF CheckMoves, MainReady, Done
<1>12. <<(Handler \/ Main) /\ UNCHANGED checkVars>>_checkAllVars
         => <<CheckNext /\ Goroutines>>_checkAllVars
  BY DEF CheckNext, Goroutines
<1>13. /\ Finishing(1) => Done /\ ~Ended
       /\ Finishing(2) => Done /\ ~Ended
       /\ Finishing(3) => Done /\ ~Ended
       /\ Finishing(4) => Done /\ ~Ended
       /\ Finishing(5) => Done /\ ~Ended
       /\ Finishing(6) => Done /\ ~Ended
       /\ Finishing(7) => Done /\ ~Ended
       /\ Finishing(8) => Done /\ ~Ended
  BY DEF Finishing
<1> QED
  BY <1>1, <1>2, <1>3, <1>4, <1>5, <1>6, <1>7, <1>8, <1>9, <1>10, <1>11, <1>12, <1>13,
     PollInvariant, PTL DEF CheckFairSpec, CheckSpec

\* What a step leaves of a command that runs: only its own steps go on with the poll or
\* end it (api.go:106-145).
LEMMA CommandStays ==
    main = "command" /\ [CheckNext]_checkAllVars =>
        \/ CheckStep
        \/ main' = "command" /\ UNCHANGED <<poll, told>> /\ (cancelled => cancelled')
<1>1. /\ HandlerReceives => main' = main /\ cancelled' = cancelled
      /\ HandlerSends => main' = main /\ cancelled' = cancelled
      /\ HandlerCancels => main' = main /\ cancelled'
      /\ HandlerExits => main' = main /\ cancelled' = cancelled
      /\ (\E s \in Signals : Interrupt(s)) => main' = main /\ cancelled' = cancelled
      /\ Main => main # "command"
  BY DEF HandlerReceives, HandlerSends, HandlerCancels, HandlerExits, Interrupt, Main, Fatal,
         Exit, signalVars
<1> QED
  BY <1>1 DEF CheckNext, checkAllVars, checkVars, vars, signalVars, Handler

\* A poll that is over, before the exit code is set and when nothing but the return is left.
ToTell == ~Ended /\ main = "command" /\ poll \in {"deadline", "canceled"} /\ ~told
ToReturn == ~Ended /\ main = "command" /\ (poll = "ready" \/ told)

\* A poll that is over ends the process, with whatever result (api.go:126-145,
\* main.go:37-63): of CheckEnds is left that the poll is over some time.
THEOREM PollOverEnds == CheckFairSpec /\ []CheckMoves => (~Running ~> Ended)
<1> DEFINE Over == Ended \/ Done
<1>1. ReachInv /\ ToTell /\ [CheckNext]_checkAllVars => Over' \/ ToTell' \/ ToReturn'
  BY CommandStays, CommandMoves DEF ToTell, ToReturn, ReachInv
<1>2. ReachInv /\ ToTell /\ <<CheckNext /\ CheckStep>>_checkAllVars => Over' \/ ToReturn'
  BY CommandMoves DEF ToTell, ToReturn, ReachInv
<1>3. ReachInv /\ ToReturn /\ [CheckNext]_checkAllVars => Over' \/ ToReturn'
  BY CommandStays, CommandMoves DEF ToReturn, ReachInv, PollInv
<1>4. ReachInv /\ ToReturn /\ <<CheckNext /\ CheckStep>>_checkAllVars => Over'
  BY CommandMoves DEF ToReturn, ReachInv, PollInv
<1>5. ReachInv /\ ~Running => Over \/ ToTell \/ ToReturn
  BY DEF ReachInv, ExitInv, TypeOK, SignalsHeld, PollInv, Running, Ended, Done, ToTell, ToReturn
<1>6. CheckMoves /\ (ToTell \/ ToReturn) => ENABLED <<CheckStep>>_checkAllVars
  BY DEF CheckMoves, ToTell, ToReturn
<1>7. <<CheckStep>>_checkAllVars => <<CheckNext /\ CheckStep>>_checkAllVars
  BY DEF CheckNext
<1> QED
  BY <1>1, <1>2, <1>3, <1>4, <1>5, <1>6, <1>7, PollInvariant, DoneEnds, PTL
     DEF CheckFairSpec, CheckSpec

\* The poll of a command whose context is cancelled.
Cancelled(place) == Running /\ cancelled /\ poll = place

LEMMA CancelledGoesOn ==
    ReachInv /\ [CheckNext]_checkAllVars =>
        /\ Cancelled("check") => ~Running' \/ Cancelled("check")' \/ Cancelled("sleep")'
        /\ Cancelled("sleep") => ~Running' \/ Cancelled("sleep")'
        /\ Cancelled("check") /\ CheckStep => ~Running' \/ Cancelled("sleep")'
        /\ Cancelled("sleep") /\ CheckStep => ~Running'
<1> SUFFICES ASSUME ReachInv, [CheckNext]_checkAllVars, Running, Running', cancelled
             PROVE  /\ cancelled'
                    /\ \/ poll' = poll /\ ~CheckStep
                       \/ poll = "check" /\ poll' = "sleep"
  BY DEF Cancelled, Running
<1>1. main = "command" /\ poll' \in {"check", "sleep"}
  BY DEF Running
<1>2. CASE CheckStep
  BY <1>1, <1>2, CommandMoves DEF ReachInv, PollInv, Running, Done
<1>3. CASE ~CheckStep
  BY <1>1, <1>3, CommandStays
<1> QED
  BY <1>2, <1>3

\* The poll of a command whose context is cancelled is over after one check and one wait at
\* most (api.go:110-124).
LEMMA CancelledEnds ==
    CheckFairSpec /\ []CheckMoves => (Running /\ cancelled ~> ~Running)
<1> DEFINE InCheck == Cancelled("check")
           InSleep == Cancelled("sleep")
<1>1. ReachInv /\ InCheck /\ [CheckNext]_checkAllVars => ~Running' \/ InCheck' \/ InSleep'
  BY CancelledGoesOn
<1>2. ReachInv /\ InCheck /\ <<CheckNext /\ CheckStep>>_checkAllVars => ~Running' \/ InSleep'
  BY CancelledGoesOn
<1>3. ReachInv /\ InSleep /\ [CheckNext]_checkAllVars => ~Running' \/ InSleep'
  BY CancelledGoesOn
<1>4. ReachInv /\ InSleep /\ <<CheckNext /\ CheckStep>>_checkAllVars => ~Running'
  BY CancelledGoesOn
<1>5. Running /\ cancelled => InCheck \/ InSleep
  BY DEF Running, Cancelled
<1>6. CheckMoves /\ (InCheck \/ InSleep) => ENABLED <<CheckStep>>_checkAllVars
  BY DEF CheckMoves, Cancelled, Running, Ended
<1>7. <<CheckStep>>_checkAllVars => <<CheckNext /\ CheckStep>>_checkAllVars
  BY DEF CheckNext
<1> HIDE DEF InCheck, InSleep
<1> QED
  BY <1>1, <1>2, <1>3, <1>4, <1>5, <1>6, <1>7, PollInvariant, PTL DEF CheckFairSpec, CheckSpec

\* The goroutine waits for a second signal only once it has cancelled the context
\* (signal.go:59-66).
LEMMA CancelledBefore == CheckSpec => [](handler = "second" => cancelled)
<1>1. CheckInit => (handler = "second" => cancelled)
  BY DEF CheckInit, Init
<1>2. (handler = "second" => cancelled) /\ [Next]_vars => (handler = "second" => cancelled)'
  BY ExitAssumption
     DEF Next, vars, signalVars, Interrupt, Handler, HandlerReceives, HandlerSends, HandlerCancels,
         HandlerExits, Main, Fatal, Exit, CommandEnds
<1>3. SetsExitCode => UNCHANGED <<handler, cancelled>>
  BY DEF SetsExitCode, signalVars
<1>4. ReachInv /\ (handler = "second" => cancelled) /\ [CheckNext]_checkAllVars
        => (handler = "second" => cancelled)'
  BY <1>2, <1>3, ExitHandlerStep DEF ReachInv
<1> QED
  BY <1>1, <1>4, PollInvariant, PTL DEF CheckSpec

\* A signal on its way to the context of a command that polls.
OnItsWay(h) == Running /\ sent >= 1 /\ handler = h

LEMMA SignalGoesOn ==
    ReachInv /\ [CheckNext]_checkAllVars =>
        /\ OnItsWay("first") =>
               ~Running' \/ OnItsWay("first")' \/ OnItsWay("send")' \/ OnItsWay("cancel")'
        /\ OnItsWay("send") => ~Running' \/ OnItsWay("send")' \/ OnItsWay("cancel")'
        /\ OnItsWay("cancel") => ~Running' \/ OnItsWay("cancel")' \/ OnItsWay("second")'
        /\ OnItsWay("first") /\ Goroutines =>
               ~Running' \/ OnItsWay("send")' \/ OnItsWay("cancel")'
        /\ OnItsWay("send") /\ Goroutines => ~Running' \/ OnItsWay("cancel")'
        /\ OnItsWay("cancel") /\ Goroutines => ~Running' \/ OnItsWay("second")'
<1> SUFFICES ASSUME ReachInv, [CheckNext]_checkAllVars, Running, Running', sent >= 1
             PROVE  /\ sent' >= 1
                    /\ handler = "first" => handler' \in {"first", "send", "cancel"}
                    /\ handler = "send" => handler' \in {"send", "cancel"}
                    /\ handler = "cancel" => handler' \in {"cancel", "second"}
                    /\ Goroutines =>
                           \/ handler = "first" /\ handler' \in {"send", "cancel"}
                           \/ handler = "send" /\ handler' = "cancel"
                           \/ handler = "cancel" /\ handler' = "second"
  BY DEF OnItsWay
<1>1. ExitInv /\ [Next]_vars
  BY ExitHandlerStep DEF ReachInv, PollInv, SetsExitCode, Running
<1>2. sent' >= 1
  BY <1>1, ExitAssumption
     DEF ExitInv, TypeOK, Next, vars, signalVars, Interrupt, Handler, HandlerReceives, HandlerSends,
         HandlerCancels, HandlerExits, Main, Fatal, Exit, CommandEnds
<1>3. ~Main /\ ~Ended'
  BY DEF Main, Fatal, Exit, Running, Ended
<1> QED
  BY <1>1, <1>2, <1>3, HandlerGoesOn DEF Goroutines

\* A signal cancels the context of the command, unless the poll is over before: there is
\* room for its code, as nobody else sends one while the poll goes on (signal.go:54-64,
\* api.go:131-137).
LEMMA SignalCancels ==
    CheckFairSpec /\ []CheckMoves => (sent >= 1 ~> ~Running \/ (Running /\ cancelled))
<1> DEFINE InFirst == OnItsWay("first")
           InSend == OnItsWay("send")
           InCancel == OnItsWay("cancel")
           InSecond == OnItsWay("second")
<1>1. ReachInv /\ InFirst /\ [CheckNext]_checkAllVars
        => ~Running' \/ InFirst' \/ InSend' \/ InCancel'
  BY SignalGoesOn
<1>2. ReachInv /\ InFirst /\ <<CheckNext /\ Goroutines>>_checkAllVars
        => ~Running' \/ InSend' \/ InCancel'
  BY SignalGoesOn
<1>3. ReachInv /\ InSend /\ [CheckNext]_checkAllVars => ~Running' \/ InSend' \/ InCancel'
  BY SignalGoesOn
<1>4. ReachInv /\ InSend /\ <<CheckNext /\ Goroutines>>_checkAllVars => ~Running' \/ InCancel'
  BY SignalGoesOn
<1>5. ReachInv /\ InCancel /\ [CheckNext]_checkAllVars => ~Running' \/ InCancel' \/ InSecond'
  BY SignalGoesOn
<1>6. ReachInv /\ InCancel /\ <<CheckNext /\ Goroutines>>_checkAllVars => ~Running' \/ InSecond'
  BY SignalGoesOn
<1>7. ReachInv /\ sent >= 1 => ~Running \/ InFirst \/ InSend \/ InCancel \/ InSecond
  BY DEF ReachInv, ExitInv, TypeOK, OnItsWay
<1>8. ReachInv /\ CheckMoves /\ (InFirst \/ InSend \/ InCancel)
        => ENABLED <<(Handler \/ Main) /\ UNCHANGED checkVars>>_checkAllVars
  <2>1. ReachInv /\ (InFirst \/ InSend \/ InCancel) => HandlerReady
    BY DEF ReachInv, SignalsHeld, PollInv, OnItsWay, Running, Ended, HandlerReady
  <2> QED
    BY <2>1 DEF CheckMoves
<1>9. <<(Handler \/ Main) /\ UNCHANGED checkVars>>_checkAllVars
        => <<CheckNext /\ Goroutines>>_checkAllVars
  BY DEF CheckNext, Goroutines
<1>10. InSecond /\ (handler = "second" => cancelled) => Running /\ cancelled
  BY DEF OnItsWay
<1> HIDE DEF InFirst, InSend, InCancel, InSecond
<1> QED
  BY <1>1, <1>2, <1>3, <1>4, <1>5, <1>6, <1>7, <1>8, <1>9, <1>10, PollInvariant,
     CancelledBefore, PTL DEF CheckFairSpec, CheckSpec

\* One signal ends check api, however long --wait, the interval and the checks are, and
\* whatever the checks answer: a second one is never needed (signal.go:52-64, api.go:110-124).
THEOREM OneSignalIsEnough == CheckFairSpec /\ []CheckMoves => InterruptEnds
BY SignalCancels, CancelledEnds, PollOverEnds, PTL DEF InterruptEnds

-----------------------------------------------------------------------------
\* What a process that no signal reached knows of its exit code (signal.go:52-64,
\* api.go:131-144).
QuietInv ==
    sent = 0 =>
        /\ signals = <<>> /\ handler = "first" /\ ~cancelled
        /\ main \in {"command", "fatal", "exit", "ended"}
        /\ main = "command" /\ ~told => codes = <<>>
        /\ wait > 0 /\ main = "command" /\ told => codes = <<TimeoutCode>>
        /\ main # "command" => poll \in {"ready", "deadline"}
        /\ wait > 0 /\ main \in {"fatal", "exit"} =>
               codes = IF poll = "deadline" THEN <<TimeoutCode>> ELSE <<>>
        /\ main = "fatal" => poll = "deadline"
        /\ Ended <=> main = "ended"
        /\ wait > 0 /\ Ended => status = IF poll = "deadline" THEN TimeoutCode ELSE 0

\* Any step after which no signal was sent keeps what is known (signal.go:52-80,
\* api.go:106-145).
LEMMA QuietStep == ReachInv /\ QuietInv /\ [CheckNext]_checkAllVars => QuietInv'
<1> SUFFICES ASSUME ReachInv, QuietInv, [CheckNext]_checkAllVars, sent' = 0
             PROVE  QuietInv'
  BY DEF QuietInv
<1>0. sent \in Nat /\ ExitInv /\ PollInv
  BY ExitAssumption DEF ReachInv, ExitInv, TypeOK
<1> USE DEF QuietInv, signalVars, checkVars, Ended, Alive
<1>1. ASSUME NEW err \in Errors \cup {"none"}, NEW t \in 1..CheckTime, Check(err, t)
      PROVE  QuietInv'
  BY <1>0, <1>1 DEF Check, Running, PollInv, vars
<1>2. ASSUME NEW t \in 0..Interval, Sleep(t)
      PROVE  QuietInv'
  BY <1>0, <1>2 DEF Sleep, Running, PollInv, vars
<1>3. CASE SetsExitCode \/ Return
  <2>1. sent = 0 /\ main = "command" /\ status = 256
    BY <1>3 DEF SetsExitCode, Return, InCommand
  <2>2. CASE SetsExitCode
    <3>1. codes = <<>> /\ poll = "deadline"
      BY <1>0, <2>1, <2>2 DEF SetsExitCode, PollInv
    <3>2. wait > 0 => codes' = <<TimeoutCode>>
      BY <2>2, <3>1 DEF SetsExitCode, SetExitCodeValue, PollExitCode, ErrorCodeOf, TimeoutCode
    <3> QED
      BY <2>1, <2>2, <3>2 DEF SetsExitCode
  <2>3. CASE Return
    <3>1. poll = "ready" \/ (told /\ poll = "deadline")
      BY <1>0, <2>1, <2>3 DEF Return, PollInv
    <3>2. Outcome = IF poll = "ready" THEN "ok" ELSE "error"
      BY <1>0, <3>1 DEF Outcome, PollInv
    <3>3. poll = "ready" => ~told
      BY <1>0 DEF PollInv
    <3>4. /\ main' = IF poll = "ready" THEN "exit" ELSE "fatal"
          /\ UNCHANGED <<signals, sent, handler, cancelled, codes, status, poll, wait, told>>
      BY <2>3, <3>2 DEF Return
    <3> QED
      BY <2>1, <3>1, <3>3, <3>4
  <2> QED
    BY <1>3, <2>2, <2>3
<1>4. ASSUME NEW s \in Signals, Interrupt(s)
      PROVE  QuietInv'
  BY <1>0, <1>4 DEF Interrupt
<1>5. CASE Handler /\ UNCHANGED checkVars
  BY <1>0, <1>5 DEF Handler, HandlerReceives, HandlerSends, HandlerCancels, HandlerExits
<1>6. CASE Fatal /\ UNCHANGED checkVars
  BY <1>6 DEF Fatal, SetExitCodeValue
<1>7. CASE Exit /\ UNCHANGED checkVars
  <2>1. /\ sent = 0 /\ UNCHANGED <<signals, handler, cancelled, poll, wait>>
        /\ main = "exit" /\ main' = "ended"
    BY <1>7 DEF Exit
  <2>2. wait > 0 => status' = IF poll = "deadline" THEN TimeoutCode ELSE 0
    BY <1>7, <2>1 DEF Exit
  <2>3. codes # <<>> => Head(codes) \in 1..255
    BY <1>0, CodesAreStatuses DEF ExitInv, TypeOK
  <2>4. status' = IF codes = <<>> THEN 0 ELSE Head(codes)
    BY <1>7 DEF Exit
  <2>5. status' \in 0..255
    BY <2>3, <2>4
  <2>6. status' # 256
    BY <2>5
  <2> QED
    BY <2>1, <2>2, <2>6
<1>8. CASE UNCHANGED checkAllVars
  BY <1>8 DEF checkAllVars, vars
<1> QED
  BY <1>1, <1>2, <1>3, <1>4, <1>5, <1>6, <1>7, <1>8 DEF CheckNext, CheckStep, Main

\* Without a signal the status is 124 exactly when the wait timed out, whatever the
\* errors of the checks were (api.go:132-139, main.go:62).
THEOREM TimeoutIsReported == CheckSpec => []TimeoutReported
<1>1. CheckInit => QuietInv
  BY DEF CheckInit, Init, QuietInv, Ended
<1>2. QuietInv => TimeoutReported
  BY DEF QuietInv, TimeoutReported, TimeoutCode
<1> QED
  BY <1>1, <1>2, QuietStep, PollInvariant, PTL DEF CheckSpec
=============================================================================
