--------------------------- MODULE RecorderProofs ---------------------------
(* Safety of one recorder for every kind of session and every interleaving of  *)
(* its goroutines, and the safety part of the refinement of RecorderSession.   *)
EXTENDS Recorder, TLAPS

\* Start has not spawned the chrome thread.
Starting == {"mkdir", "pulse", "pactl", "setSink", "xvfb", "setXvfb"}

\* The chrome thread has not reported START.
BeforeStart == {"off", "alloc", "launch", "join", "settle", "setFfmpeg",
                "afterStart"}

\* The inductive invariant.  The flag says whether a close has begun; the
\* hand-over is counted by the closer's position; a field stays assigned
\* between the spawn of its watcher and the first close; and START is counted
\* by the position of the chrome thread, which Start spawns once.
CloseInv ==
    /\ stopping <=> closePc # "idle"
    /\ ~stopping => cleanPc = "idle"
    /\ afterCloseCalls = IF closePc \in {"callback", "closed"} THEN 1 ELSE 0

PanicInv ==
    /\ crashed => stopping
    /\ \A c \in Cmds : ~stopping /\ watch[c] = "spawned" => cmd[c]

StartInv ==
    /\ startPc \in Starting => chromePc = "off"
    /\ chromePc \in BeforeStart => afterStartCalls = 0

\* Until the cleaner is through, a loaded sink has its id recorded.  The
\* exceptions are a pactl killed with its context, and Start about to record it.
SinkInv ==
    sink /\ cleanPc # "done" => pulseSinkId \/ CtxDone \/ startPc = "setSink"

IInv == TypeOK /\ CloseInv /\ PanicInv /\ StartInv /\ SinkInv

-----------------------------------------------------------------------------

\* The initial states satisfy the invariant, for both kinds of session.
LEMMA InitInv == Init => IInv
<1> SUFFICES ASSUME Init PROVE IInv
  OBVIOUS
<1>1. startPc \in StartStates
  BY DEF Init, StartStates
<1>2. /\ chromePc \in ChromeStates /\ closePc \in CloseStates
      /\ cleanPc \in CleanStates
  BY DEF Init, ChromeStates, CloseStates, CleanStates
<1>3. /\ cmd \in [Cmds -> BOOLEAN] /\ watch \in [Cmds -> WatchStates]
      /\ proc \in [Cmds -> ProcStates]
  BY DEF Init, WatchStates, ProcStates
<1>4. /\ stopping \in BOOLEAN /\ pulseSinkId \in BOOLEAN
      /\ closeChrome \in BOOLEAN /\ appCancelled \in BOOLEAN
      /\ chromeCancelled \in BOOLEAN /\ sink \in BOOLEAN /\ crashed \in BOOLEAN
  BY Zenon DEF Init
<1>5. afterStartCalls \in 0..1 /\ afterCloseCalls \in Nat
  <2>1. afterStartCalls = 0 /\ afterCloseCalls = 0
    BY DEF Init
  <2> QED BY <2>1
<1>6. chromeWatch = "off" /\ browser = "none"
  BY DEF Init
<1>7. TypeOK
  BY <1>1, <1>2, <1>3, <1>4, <1>5, <1>6, Zenon DEF TypeOK
<1>8. CloseInv /\ PanicInv /\ StartInv /\ SinkInv
  BY DEF Init, CloseInv, PanicInv, StartInv, SinkInv, BeforeStart
<1> QED BY <1>7, <1>8 DEF IInv

\* Close keeps the part of the invariant about itself, whoever calls it: the
\* winner of the swap moves the closer and the cleaner together with the flag.
LEMMA CallCloseInv ==
  ASSUME stopping \in BOOLEAN, closePc \in CloseStates, cleanPc \in CleanStates,
         CloseInv, CallClose, UNCHANGED afterCloseCalls
  PROVE  /\ stopping' \in BOOLEAN /\ closePc' \in CloseStates
         /\ cleanPc' \in CleanStates
         /\ CloseInv'
         /\ stopping => stopping'
         /\ cleanPc' = "done" <=> cleanPc = "done"
         /\ closePc' = "closed" <=> closePc = "closed"
  BY DEF CallClose, closing, CloseInv, CloseStates, CleanStates

\* Every step of the recorder keeps the invariant.
LEMMA NextInv == IInv /\ [Next]_vars => IInv'
<1> SUFFICES ASSUME IInv, [Next]_vars PROVE IInv'
  OBVIOUS
<1> USE DEF IInv, CtxDone, fields, threads, ctxs, world, calls
<1>1. CASE UNCHANGED vars
  BY <1>1 DEF vars, TypeOK, CloseInv, PanicInv, StartInv, SinkInv
<1>2. ASSUME StartStep, ~crashed PROVE IInv'
  <2>1. CASE MakeRecordDir
    BY <2>1, ~crashed DEF TypeOK, CloseInv, PanicInv, StartInv, SinkInv,
       MakeRecordDir, StartStates, Starting
  <2>2. CASE RunPactl
    BY <2>2, ~crashed DEF TypeOK, CloseInv, PanicInv, StartInv, SinkInv,
       RunPactl, StartStates, Starting
  <2>3. CASE PactlReturns
    <3>1. TypeOK'
      <4>1. startPc' \in StartStates /\ sink' \in BOOLEAN
        BY <2>3 DEF TypeOK, PactlReturns, StartStates
      <4> QED BY <2>3, <4>1 DEF TypeOK, PactlReturns
    <3>2. CloseInv'
      BY <2>3 DEF TypeOK, CloseInv, PactlReturns
    <3>3. PanicInv'
      BY <2>3, ~crashed DEF TypeOK, PanicInv, CloseInv, PactlReturns
    <3>4. StartInv'
      BY <2>3 DEF TypeOK, StartInv, PactlReturns, Starting
    <3>5. SinkInv'
      BY <2>3 DEF TypeOK, SinkInv, CloseInv, PactlReturns
    <3> QED BY <3>1, <3>2, <3>3, <3>4, <3>5
  <2>4. CASE SetPulseSinkId
    BY <2>4, ~crashed DEF TypeOK, CloseInv, PanicInv, StartInv, SinkInv,
       SetPulseSinkId, StartStates, Starting
  <2>5. CASE StartXvfb
    BY <2>5, ~crashed DEF TypeOK, CloseInv, PanicInv, StartInv, SinkInv,
       StartXvfb, StartStates, ProcStates, Cmds, Starting
  <2>6. CASE SetXvfbCmd
    BY <2>6, ~crashed DEF TypeOK, CloseInv, PanicInv, StartInv, SinkInv,
       SetXvfbCmd, StartStates, ChromeStates, WatchStates, Cmds, Starting,
       BeforeStart
  <2>7. CASE StartFailed
    BY <2>7, CallCloseInv, ~crashed DEF TypeOK, CloseInv, PanicInv, StartInv,
       SinkInv, StartFailed, StartStates, Starting
  <2> QED BY <1>2, <2>1, <2>2, <2>3, <2>4, <2>5, <2>6, <2>7
     DEF StartStep
<1>3. ASSUME ChromeStep, ~crashed PROVE IInv'
  <2>1. CASE NewChrome
    BY <2>1, ~crashed DEF TypeOK, CloseInv, PanicInv, StartInv, SinkInv,
       NewChrome, ChromeStates, BeforeStart, Starting
  <2>2. CASE LaunchBrowser
    BY <2>2, ~crashed DEF TypeOK, CloseInv, PanicInv, StartInv, SinkInv,
       LaunchBrowser, ChromeStates, BeforeStart, Starting
  <2>3. CASE JoinRoom
    BY <2>3, ~crashed DEF TypeOK, CloseInv, PanicInv, StartInv, SinkInv,
       JoinRoom, ChromeStates, BeforeStart, Starting
  <2>4. CASE RunError
    BY <2>4, ~crashed DEF TypeOK, CloseInv, PanicInv, StartInv, SinkInv,
       RunError, ChromeStates, BeforeStart, Starting
  <2>5. CASE StartFfmpeg
    BY <2>5, ~crashed DEF TypeOK, CloseInv, PanicInv, StartInv, SinkInv,
       StartFfmpeg, ChromeStates, BeforeStart, ProcStates, Cmds, Starting
  <2>6. CASE SetFfmpegCmd
    BY <2>6, ~crashed DEF TypeOK, CloseInv, PanicInv, StartInv, SinkInv,
       SetFfmpegCmd, ChromeStates, BeforeStart, WatchStates, Cmds, Starting
  <2>7. CASE AfterStart
    BY <2>7, ~crashed DEF TypeOK, CloseInv, PanicInv, StartInv, SinkInv,
       AfterStart, ChromeStates, BeforeStart, Starting
  <2>8. CASE ReportFailure
    BY <2>8, CallCloseInv, ~crashed DEF TypeOK, CloseInv, PanicInv, StartInv,
       SinkInv, ReportFailure, ChromeStates, BeforeStart, Starting
  <2> QED BY <1>3, <2>1, <2>2, <2>3, <2>4, <2>5, <2>6, <2>7, <2>8
     DEF ChromeStep
<1>4. ASSUME NEW c \in Cmds, WatchStep(c), ~crashed PROVE IInv'
  <2>1. CASE WatchBegins(c)
    <3>1. TypeOK'
      <4>1. watch' \in [Cmds -> WatchStates] /\ crashed' \in BOOLEAN
        BY <2>1 DEF TypeOK, WatchBegins, WatchStates
      <4> QED BY <2>1, <4>1 DEF TypeOK, WatchBegins
    <3>2. CloseInv'
      BY <2>1 DEF TypeOK, CloseInv, WatchBegins
    <3>3. PanicInv'
      BY <2>1, ~crashed DEF TypeOK, PanicInv, CloseInv, WatchBegins,
         WatchStates
    <3>4. StartInv'
      BY <2>1 DEF TypeOK, StartInv, WatchBegins
    <3>5. SinkInv'
      BY <2>1 DEF TypeOK, SinkInv, CloseInv, WatchBegins
    <3> QED BY <3>1, <3>2, <3>3, <3>4, <3>5
  <2>2. CASE WaitReturns(c)
    <3>1. TypeOK'
      BY <2>2, CallCloseInv DEF TypeOK, WaitReturns, CloseInv, WatchStates,
         closing
    <3>2. CloseInv'
      BY <2>2, CallCloseInv DEF TypeOK, CloseInv, WaitReturns, closing
    <3>3. PanicInv'
      BY <2>2, CallCloseInv, ~crashed DEF TypeOK, PanicInv, CloseInv,
         WaitReturns, WatchStates, closing
    <3>4. StartInv'
      BY <2>2, CallCloseInv DEF TypeOK, StartInv, WaitReturns
    <3>5. SinkInv'
      BY <2>2, CallCloseInv DEF TypeOK, SinkInv, CloseInv, WaitReturns,
         closing
    <3> QED BY <3>1, <3>2, <3>3, <3>4, <3>5
  <2> QED BY <1>4, <2>1, <2>2
     DEF WatchStep
<1>5. ASSUME CleanStep, ~crashed PROVE IInv'
  <2>1. CASE \E c \in Cmds : CloseCmd(c)
    BY <2>1, ~crashed DEF TypeOK, CloseInv, PanicInv, StartInv, SinkInv,
       CloseCmd, CleanStates, ProcStates, Cmds
  <2>2. CASE CloseChromeDp
    <3>1. TypeOK'
      <4>1. cleanPc' \in CleanStates /\ chromeCancelled' \in BOOLEAN
        BY <2>2 DEF TypeOK, CloseChromeDp, CleanStates
      <4> QED BY <2>2, <4>1 DEF TypeOK, CloseChromeDp
    <3>2. CloseInv'
      BY <2>2 DEF TypeOK, CloseInv, CloseChromeDp
    <3>3. PanicInv'
      BY <2>2, ~crashed DEF TypeOK, PanicInv, CloseInv, CloseChromeDp
    <3>4. StartInv'
      BY <2>2 DEF TypeOK, StartInv, CloseChromeDp
    <3>5. SinkInv'
      BY <2>2 DEF TypeOK, SinkInv, CloseInv, CloseChromeDp
    <3> QED BY <3>1, <3>2, <3>3, <3>4, <3>5
  <2>3. CASE ChromeClosed
    <3>1. TypeOK'
      BY <2>3 DEF TypeOK, ChromeClosed, CleanStates
    <3>2. CloseInv'
      BY <2>3 DEF TypeOK, CloseInv, ChromeClosed
    <3>3. PanicInv'
      BY <2>3, ~crashed DEF TypeOK, PanicInv, CloseInv, ChromeClosed
    <3>4. StartInv'
      BY <2>3 DEF TypeOK, StartInv, ChromeClosed
    <3>5. SinkInv'
      BY <2>3 DEF TypeOK, SinkInv, CloseInv, ChromeClosed
    <3> QED BY <3>1, <3>2, <3>3, <3>4, <3>5
  <2>4. CASE ClosePulse
    <3>1. TypeOK'
      <4>1. cleanPc' \in CleanStates /\ pulseSinkId' \in BOOLEAN
        BY <2>4 DEF TypeOK, ClosePulse, CleanStates
      <4> QED BY <2>4, <4>1 DEF TypeOK, ClosePulse
    <3>2. CloseInv'
      BY <2>4 DEF TypeOK, CloseInv, ClosePulse
    <3>3. PanicInv'
      BY <2>4, ~crashed DEF TypeOK, PanicInv, CloseInv, ClosePulse
    <3>4. StartInv'
      BY <2>4 DEF TypeOK, StartInv, ClosePulse
    <3>5. SinkInv'
      BY <2>4 DEF TypeOK, SinkInv, CloseInv, ClosePulse
    <3> QED BY <3>1, <3>2, <3>3, <3>4, <3>5
  <2>5. CASE PulseUnloaded
    <3>1. TypeOK'
      BY <2>5 DEF TypeOK, PulseUnloaded, CleanStates
    <3>2. CloseInv'
      BY <2>5 DEF TypeOK, CloseInv, PulseUnloaded
    <3>3. PanicInv'
      BY <2>5, ~crashed DEF TypeOK, PanicInv, CloseInv, PulseUnloaded
    <3>4. StartInv'
      BY <2>5 DEF TypeOK, StartInv, PulseUnloaded
    <3>5. SinkInv'
      BY <2>5 DEF TypeOK, SinkInv, CloseInv, PulseUnloaded
    <3> QED BY <3>1, <3>2, <3>3, <3>4, <3>5
  <2> QED BY <1>5, <2>1, <2>2, <2>3, <2>4, <2>5
     DEF CleanStep
<1>6. ASSUME CloseStep, ~crashed PROVE IInv'
  <2>1. CASE HandOver
    BY <2>1, ~crashed DEF TypeOK, CloseInv, PanicInv, StartInv, SinkInv,
       HandOver, CloseStates
  <2>2. CASE CancelCtx
    BY <2>2, ~crashed DEF TypeOK, CloseInv, PanicInv, StartInv, SinkInv,
       CancelCtx, CloseStates
  <2> QED BY <1>6, <2>1, <2>2
     DEF CloseStep
<1>7. ASSUME Env, ~crashed PROVE IInv'
  <2>1. CASE ErrorPage
    BY <2>1, CallCloseInv, ~crashed DEF TypeOK, CloseInv, PanicInv, StartInv,
       SinkInv, ErrorPage, ChromeStates, BeforeStart, Starting
  <2>2. CASE ExternalClose
    BY <2>2, CallCloseInv, ~crashed DEF TypeOK, CloseInv, PanicInv, StartInv,
       SinkInv, ExternalClose
  <2>3. CASE AppCancel
    BY <2>3, ~crashed DEF TypeOK, CloseInv, PanicInv, StartInv, SinkInv,
       AppCancel
  <2>4. CASE TargetLost
    BY <2>4, ~crashed DEF TypeOK, CloseInv, PanicInv, StartInv, SinkInv,
       TargetLost
  <2>5. CASE BrowserEnds
    BY <2>5, ~crashed DEF TypeOK, CloseInv, PanicInv, StartInv, SinkInv,
       BrowserEnds
  <2>6. CASE \E c \in Cmds : ProcEnds(c)
    BY <2>6, ~crashed DEF TypeOK, CloseInv, PanicInv, StartInv, SinkInv,
       ProcEnds, ProcStates, Alive
  <2> QED BY <1>7, <2>1, <2>2, <2>3, <2>4, <2>5, <2>6
     DEF Env
<1>8. ASSUME ReportBrowser, ~crashed PROVE IInv'
  BY <1>8, CallCloseInv, ~crashed DEF TypeOK, CloseInv, PanicInv, StartInv,
     SinkInv, ReportBrowser
<1>9. ASSUME NEW c \in Cmds, ProcKilled(c), ~crashed PROVE IInv'
  BY <1>9, ~crashed DEF TypeOK, CloseInv, PanicInv, StartInv, SinkInv,
     ProcKilled, ProcStates, Alive
<1>10. ASSUME BrowserKilled, ~crashed PROVE IInv'
  BY <1>10, ~crashed DEF TypeOK, CloseInv, PanicInv, StartInv, SinkInv,
     BrowserKilled, BrowserEnds
<1> QED
  BY <1>1, <1>2, <1>3, <1>4, <1>5, <1>6, <1>7, <1>8, <1>9, <1>10
     DEF Next, Terminated

-----------------------------------------------------------------------------

\* The inductive invariant holds in every behavior.
THEOREM Inductive == Spec => []IInv
  BY InitInv, NextInv, PTL DEF Spec

\* Type correctness.
THEOREM TypeCorrect == Spec => []TypeOK
  BY Inductive, PTL DEF IInv

\* OnAfterCloseCallback runs at most once, however many goroutines close the
\* recorder and whenever they do.
THEOREM OneHandOver == Spec => []HandedOverOnce
<1>1. IInv => HandedOverOnce
  BY DEF IInv, CloseInv, HandedOverOnce
<1> QED BY <1>1, Inductive, PTL

\* The cleaner leaves a loaded sink behind only when pactl failed, when it had
\* no time left, or when Close overtook Start before the id was recorded.
THEOREM SinkIsReleased == Spec => SinkReleased
<1>1. IInv /\ [Next]_vars
         => [cleanPc # "done" /\ cleanPc' = "done" /\ sink' =>
                cleanPc = "pulseWait" \/ ShutdownCtxDone
                   \/ startPc = "setSink"]_vars
  <2> SUFFICES ASSUME IInv, Next, ~crashed, cleanPc # "done",
                      cleanPc' = "done", sink', cleanPc # "pulseWait",
                      startPc # "setSink"
               PROVE  ShutdownCtxDone
    BY DEF Next, Terminated
  <2> USE DEF threads, fields, world
  <2>1. ~StartStep
    BY CallCloseInv DEF IInv, TypeOK, StartStep, MakeRecordDir, RunPactl,
       PactlReturns, SetPulseSinkId, StartXvfb, SetXvfbCmd, StartFailed, calls
  <2>2. ~ChromeStep
    BY CallCloseInv DEF IInv, TypeOK, ChromeStep, NewChrome, LaunchBrowser,
       JoinRoom, RunError, StartFfmpeg, SetFfmpegCmd, AfterStart,
       ReportFailure, calls
  <2>3. ~CloseStep /\ ~ReportBrowser /\ ~BrowserKilled
    BY CallCloseInv DEF IInv, TypeOK, CloseStep, HandOver, CancelCtx,
       ReportBrowser, BrowserKilled, BrowserEnds, calls
  <2>4. ~\E c \in Cmds : WatchStep(c) \/ ProcKilled(c)
    BY CallCloseInv DEF IInv, TypeOK, WatchStep, WatchBegins, WaitReturns,
       ProcKilled, calls, closing
  <2>5. ~Env
    BY CallCloseInv DEF IInv, TypeOK, Env, ErrorPage, ExternalClose, AppCancel,
       TargetLost, BrowserEnds, ProcEnds, calls
  <2>6. ClosePulse
    BY <2>1, <2>2, <2>3, <2>4, <2>5 DEF Next, Terminated, Over, CleanStep,
       CloseCmd, CloseChromeDp, ChromeClosed, PulseUnloaded
  <2> QED BY <2>6 DEF IInv, SinkInv, ClosePulse, ShutdownCtxDone
<1> QED BY <1>1, Inductive, PTL DEF Spec, SinkReleased

\* The unguarded read of a command field panics only after Close was called.
THEOREM NoPanicBeforeClose == Spec => []PanicOnlyWhileClosing
<1>1. IInv => PanicOnlyWhileClosing
  BY DEF IInv, PanicInv, PanicOnlyWhileClosing
<1> QED BY <1>1, Inductive, PTL

-----------------------------------------------------------------------------
(* Refinement of RecorderSession, safety *)

\* The four phases are told apart by the closer alone, unless the program is
\* gone.
LEMMA PhaseOf ==
  ASSUME TypeOK
  PROVE  Phase = IF crashed THEN "crashed"
                 ELSE IF closePc = "idle" THEN "running"
                 ELSE IF closePc = "waiting" THEN "closing"
                 ELSE IF closePc = "callback" THEN "handover" ELSE "ended"
  BY DEF TypeOK, CloseStates, Phase

\* The same after a step.
LEMMA PhaseOfNext ==
  ASSUME TypeOK'
  PROVE  Phase' = IF crashed' THEN "crashed"
                  ELSE IF closePc' = "idle" THEN "running"
                  ELSE IF closePc' = "waiting" THEN "closing"
                  ELSE IF closePc' = "callback" THEN "handover" ELSE "ended"
  BY DEF TypeOK, CloseStates, Phase

\* A call of Close is the session's BeginClose for the winner of the swap and a
\* stutter for everybody else.
LEMMA CallCloseMaps ==
  ASSUME TypeOK, TypeOK', CloseInv, ~crashed, CallClose,
         UNCHANGED <<crashed, afterStartCalls>>
  PROVE  [Session!Next]_Session!vars
  BY PhaseOf, PhaseOfNext DEF TypeOK, CallClose, closing, CloseInv, CloseStates,
     Session!Next, Session!BeginClose, Session!vars

\* A step that leaves Close alone and calls nobody is a stutter.
LEMMA StutterMaps ==
  ASSUME TypeOK, TypeOK', UNCHANGED <<closePc, crashed, afterStartCalls>>
  PROVE  [Session!Next]_Session!vars
  BY PhaseOf, PhaseOfNext DEF Session!vars

\* Every step of the recorder is a step of the session or a stutter.
LEMMA StepMaps ==
  IInv /\ IInv' /\ [Next]_vars => [Session!Next]_Session!vars
<1> SUFFICES ASSUME IInv, IInv', [Next]_vars
             PROVE  [Session!Next]_Session!vars
  OBVIOUS
<1> USE DEF IInv, fields, threads, ctxs, world, calls
<1>1. CASE UNCHANGED vars
  BY <1>1, StutterMaps DEF vars
<1>2. ASSUME ~crashed,
             StartFailed \/ ReportFailure \/ ErrorPage \/ ExternalClose
                \/ ReportBrowser
      PROVE  [Session!Next]_Session!vars
  BY <1>2, CallCloseMaps DEF StartFailed, ReportFailure, ErrorPage,
     ExternalClose, ReportBrowser
<1>3. ASSUME NEW c \in Cmds, WaitReturns(c), ~crashed
      PROVE  [Session!Next]_Session!vars
  BY <1>3, CallCloseMaps, StutterMaps DEF WaitReturns, closing
<1>4. ASSUME NEW c \in Cmds, ProcKilled(c) \/ ProcEnds(c) \/ CloseCmd(c)
      PROVE  [Session!Next]_Session!vars
  BY <1>4, StutterMaps DEF ProcKilled, ProcEnds, CloseCmd
<1>5. ASSUME MakeRecordDir \/ RunPactl \/ PactlReturns \/ SetPulseSinkId
                \/ StartXvfb \/ SetXvfbCmd
      PROVE  [Session!Next]_Session!vars
  BY <1>5, StutterMaps DEF MakeRecordDir, RunPactl, PactlReturns,
     SetPulseSinkId, StartXvfb, SetXvfbCmd
<1>6. ASSUME NewChrome \/ LaunchBrowser \/ JoinRoom \/ RunError \/ StartFfmpeg
                \/ SetFfmpegCmd
      PROVE  [Session!Next]_Session!vars
  BY <1>6, StutterMaps DEF NewChrome, LaunchBrowser, JoinRoom, RunError,
     StartFfmpeg, SetFfmpegCmd
<1>7. ASSUME CloseChromeDp \/ ChromeClosed \/ ClosePulse \/ PulseUnloaded
                \/ AppCancel \/ TargetLost \/ BrowserEnds \/ BrowserKilled
      PROVE  [Session!Next]_Session!vars
  BY <1>7, StutterMaps DEF CloseChromeDp, ChromeClosed, ClosePulse,
     PulseUnloaded, AppCancel, TargetLost, BrowserEnds, BrowserKilled
<1>8. ASSUME AfterStart, ~crashed
      PROVE  [Session!Next]_Session!vars
  <2>1. afterStartCalls = 0 /\ afterStartCalls' = 1 /\ Phase' = Phase
    BY <1>8, PhaseOf, PhaseOfNext DEF AfterStart, StartInv, BeforeStart
  <2>2. Phase # "crashed"
    BY <1>8, PhaseOf
  <2> QED BY <2>1, <2>2 DEF Session!Next, Session!Announce
<1>9. ASSUME NEW c \in Cmds, WatchBegins(c), ~crashed
      PROVE  [Session!Next]_Session!vars
  <2>1. CASE crashed'
    <3>1. Phase \in {"closing", "handover", "ended"} /\ Phase' = "crashed"
      BY <1>9, <2>1, PhaseOf, PhaseOfNext DEF WatchBegins, PanicInv, CloseInv,
         TypeOK
    <3> QED BY <1>9, <3>1 DEF WatchBegins, Session!Next, Session!Crash
  <2>2. CASE ~crashed'
    BY <1>9, <2>2, StutterMaps DEF WatchBegins
  <2> QED BY <2>1, <2>2
<1>10. ASSUME HandOver, ~crashed
       PROVE  [Session!Next]_Session!vars
  BY <1>10, PhaseOf, PhaseOfNext DEF HandOver, Session!Next, Session!HandOver
<1>11. ASSUME CancelCtx, ~crashed
       PROVE  [Session!Next]_Session!vars
  BY <1>11, PhaseOf, PhaseOfNext DEF CancelCtx, Session!Next, Session!Release
<1> QED
  BY <1>1, <1>2, <1>3, <1>4, <1>5, <1>6, <1>7, <1>8, <1>9, <1>10, <1>11
     DEF Next, Terminated, StartStep, ChromeStep, WatchStep, CleanStep,
         CloseStep, Env

\* A recorder behaves as the session its controller relies on: it closes once,
\* hands over once, reports START at most once and panics only while closing.
THEOREM ImplementsSession == Spec => Session!Init /\ [][Session!Next]_Session!vars
<1>1. Init => Session!Init
  BY InitInv, PhaseOf DEF Init, IInv, Session!Init
<1> QED BY <1>1, Inductive, StepMaps, PTL DEF Spec
=============================================================================
