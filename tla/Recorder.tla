------------------------------- MODULE Recorder -------------------------------
(* One recorder of pkg/recorder: Start, Close and the goroutines they spawn.   *)
(*                                                                             *)
(*   start thread    Recorder.Start, called by the controller's handler        *)
(*   chrome thread   launchChrome, then launchFfmpegProcess inside chromedp.Do *)
(*   watchers        one goroutine per external command blocked in Cmd.Wait,   *)
(*                   and the goroutines that watch the browser                 *)
(*   closer          the winner of Close's compare-and-swap                    *)
(*   cleaner         the goroutine Close spawns and waits for, up to 5 s       *)
(*                                                                             *)
(* Xvfb, ffmpeg, the browser and the pulse sink are external: they come up,    *)
(* fail or end at moments the code does not choose.  Time is abstract: every   *)
(* timer (30 s selectors, 5 s grace period) may fire at any step.              *)
EXTENDS Naturals

CONSTANT Task   \* r.Req.Task: the kind of session this recorder serves

ASSUME TaskAssumption == Task \in {"START_RECORDING", "START_RTMP"}

Cmds == {"xvfb", "ffmpeg"}   \* the commands kept in a *exec.Cmd field

VARIABLES
    \* --- fields of Recorder ---
    stopping,       \* the atomic flag Close swaps
    pulseSinkId,    \* a sink id is recorded
    cmd,            \* cmd[c]: xvfbCmd / ffmpegCmd is not nil
    closeChrome,    \* closeChrome is not nil
    \* --- goroutines ---
    startPc, chromePc, closePc, cleanPc,
    watch,          \* watch[c]: the goroutine that waits for command c
    chromeWatch,    \* the goroutines that watch the browser
    \* --- contexts ---
    appCancelled,   \* the application's context is cancelled
    chromeCancelled,\* closeChrome() has cancelled the browser's context
    \* --- the outside world ---
    proc,           \* proc[c]: the operating system process of command c
    browser,        \* "lost": the process is up, its target is gone
    sink,           \* the null sink is loaded in the sound server
    crashed,        \* a goroutine panicked: the whole program is gone
    \* --- calls made to the controller ---
    afterStartCalls, afterCloseCalls

fields  == <<stopping, pulseSinkId, cmd, closeChrome>>
threads == <<startPc, chromePc, closePc, cleanPc, watch, chromeWatch>>
ctxs    == <<appCancelled, chromeCancelled>>
world   == <<proc, browser, sink, crashed>>
calls   == <<afterStartCalls, afterCloseCalls>>
vars    == <<fields, threads, ctxs, world, calls>>

closing == <<stopping, closePc, cleanPc>>   \* what Close assigns

-----------------------------------------------------------------------------
(* Types *)

ProcStates   == {"none", "up", "interrupted", "exited", "failed"}
WatchStates  == {"off", "spawned", "waiting", "done"}
StartStates  == {"mkdir", "pulse", "pactl", "setSink", "xvfb", "setXvfb",
                 "failed", "returned"}
ChromeStates == {"off", "alloc", "launch", "join", "settle", "setFfmpeg",
                 "afterStart", "errorPage", "failing", "done"}
CloseStates  == {"idle", "waiting", "callback", "closed"}
CleanStates  == {"idle", "ffmpeg", "chrome", "chromeWait", "xvfb", "pulse",
                 "pulseWait", "done"}

TypeOK ==
    /\ stopping \in BOOLEAN /\ pulseSinkId \in BOOLEAN
    /\ cmd \in [Cmds -> BOOLEAN] /\ closeChrome \in BOOLEAN
    /\ startPc \in StartStates /\ chromePc \in ChromeStates
    /\ closePc \in CloseStates /\ cleanPc \in CleanStates
    /\ watch \in [Cmds -> WatchStates]
    /\ chromeWatch \in {"off", "on", "done"}
    /\ appCancelled \in BOOLEAN /\ chromeCancelled \in BOOLEAN
    /\ proc \in [Cmds -> ProcStates]
    /\ browser \in {"none", "up", "lost", "gone"}
    /\ sink \in BOOLEAN /\ crashed \in BOOLEAN
    /\ afterStartCalls \in 0..1 /\ afterCloseCalls \in Nat

Init ==
    /\ stopping = FALSE /\ pulseSinkId = FALSE
    /\ cmd = [c \in Cmds |-> FALSE] /\ closeChrome = FALSE
    /\ startPc = IF Task = "START_RECORDING" THEN "mkdir" ELSE "pulse"
    /\ chromePc = "off" /\ closePc = "idle" /\ cleanPc = "idle"
    /\ watch = [c \in Cmds |-> "off"] /\ chromeWatch = "off"
    /\ appCancelled = FALSE /\ chromeCancelled = FALSE
    /\ proc = [c \in Cmds |-> "none"] /\ browser = "none"
    /\ sink = FALSE /\ crashed = FALSE
    /\ afterStartCalls = 0 /\ afterCloseCalls = 0

-----------------------------------------------------------------------------
(* Contexts, the mutex, and Close's entry, used by every thread *)

\* r.ctx is done: Close's last statement, or the application's own context.
CtxDone == appCancelled \/ closePc = "closed"

\* shutdownCtx is done: the deadline made Close hand over before its cleaner was
\* done, or its parent is done, or Close has returned.
ShutdownCtxDone == closePc = "callback" \/ CtxDone

\* The context of the browser is done.
ChromeDone == chromeCancelled \/ CtxDone

\* r.Mutex is free: only closeChromeDp and closePulse keep it across a call
\* that takes time.
LockFree == cleanPc \notin {"chromeWait", "pulseWait"}

Alive(c) == proc[c] \in {"up", "interrupted"}

\* Mutant: the flag is tested but never set.
CallCloseNoSwap ==
    IF stopping THEN UNCHANGED closing
    ELSE /\ closePc' = "waiting"
         /\ cleanPc' = "ffmpeg"
         /\ UNCHANGED stopping

\* A call of Close: the winner of the swap spawns the cleaner and waits for it,
\* every other caller returns.
CallClose ==
    IF stopping THEN UNCHANGED closing
    ELSE /\ stopping' = TRUE
         /\ closePc' = "waiting"
         /\ cleanPc' = "ffmpeg"

-----------------------------------------------------------------------------
(* Start *)

\* os.MkdirAll, only when a file will be written.
MakeRecordDir ==
    /\ startPc = "mkdir"
    /\ startPc' \in {"pulse", "failed"}
    /\ UNCHANGED <<fields, chromePc, closePc, cleanPc, watch, chromeWatch,
                   ctxs, world, calls>>

\* exec refuses to start pactl under a context that is already done.
RunPactl ==
    /\ startPc = "pulse"
    /\ startPc' = IF CtxDone THEN "failed" ELSE "pactl"
    /\ UNCHANGED <<fields, chromePc, closePc, cleanPc, watch, chromeWatch,
                   ctxs, world, calls>>

\* pactl load-module ends.  On success the sink is loaded and only this thread
\* knows its id; killed with its context, pactl may have loaded a sink whose id
\* nobody will ever know.
PactlReturns ==
    /\ startPc = "pactl"
    /\ \/ startPc' = "setSink" /\ sink' = TRUE
       \/ startPc' = "failed" /\ UNCHANGED sink
       \/ CtxDone /\ startPc' = "failed" /\ sink' = TRUE
    /\ UNCHANGED <<fields, chromePc, closePc, cleanPc, watch, chromeWatch, ctxs,
                   proc, browser, crashed, calls>>

\* The id that pactl printed is recorded, under the mutex.
SetPulseSinkId ==
    /\ startPc = "setSink" /\ LockFree
    /\ pulseSinkId' = TRUE
    /\ startPc' = "xvfb"
    /\ UNCHANGED <<stopping, cmd, closeChrome, chromePc, closePc, cleanPc, watch,
                   chromeWatch, ctxs, world, calls>>

\* Mutant: the watcher is spawned before the field is assigned.
StartXvfbWatchFirst ==
    /\ startPc = "xvfb"
    /\ \/ /\ ~CtxDone /\ proc' = [proc EXCEPT !["xvfb"] = "up"]
          /\ startPc' = "setXvfb" /\ watch' = [watch EXCEPT !["xvfb"] = "spawned"]
       \/ startPc' = "failed" /\ UNCHANGED <<proc, watch>>
    /\ UNCHANGED <<fields, chromePc, closePc, cleanPc, chromeWatch, ctxs,
                   browser, sink, crashed, calls>>

\* exec.Start, not yet known to the recorder.
StartXvfb ==
    /\ startPc = "xvfb"
    /\ \/ ~CtxDone /\ proc' = [proc EXCEPT !["xvfb"] = "up"]
                   /\ startPc' = "setXvfb"
       \/ startPc' = "failed" /\ UNCHANGED proc
    /\ UNCHANGED <<fields, chromePc, closePc, cleanPc, watch, chromeWatch,
                   ctxs, browser, sink, crashed, calls>>

\* The field is assigned, the watcher and the chrome thread are spawned, and
\* Start returns nil.
SetXvfbCmd ==
    /\ startPc = "setXvfb" /\ LockFree
    /\ cmd' = [cmd EXCEPT !["xvfb"] = TRUE]
    /\ watch' = [watch EXCEPT !["xvfb"] = "spawned"]
    /\ chromePc' = "alloc"
    /\ startPc' = "returned"
    /\ UNCHANGED <<stopping, pulseSinkId, closeChrome, closePc, cleanPc,
                   chromeWatch, ctxs, world, calls>>

\* Start's deferred function.
StartFailed ==
    /\ startPc = "failed"
    /\ CallClose
    /\ startPc' = "returned"
    /\ UNCHANGED <<pulseSinkId, cmd, closeChrome, chromePc, watch,
                   chromeWatch, ctxs, world, calls>>

-----------------------------------------------------------------------------
(* launchChrome *)

NewChrome ==
    /\ chromePc = "alloc" /\ LockFree
    /\ closeChrome' = TRUE
    /\ chromePc' = "launch"
    /\ UNCHANGED <<stopping, pulseSinkId, cmd, startPc, closePc, cleanPc,
                   watch, chromeWatch, ctxs, world, calls>>

\* The first chromedp.Do starts the browser; chromedp.Detached may still fail,
\* and then nobody watches it.
LaunchBrowser ==
    /\ chromePc = "launch"
    /\ \/ /\ ~ChromeDone
          /\ browser' = "up"
          /\ \/ chromePc' = "join" /\ chromeWatch' = "on"
             \/ chromePc' = "failing" /\ UNCHANGED chromeWatch
       \/ chromePc' = "failing" /\ UNCHANGED <<browser, chromeWatch>>
    /\ UNCHANGED <<fields, startPc, closePc, cleanPc, watch, ctxs, proc, sink,
                   crashed, calls>>

\* Navigate, the join dialog and the main area went well.
JoinRoom ==
    /\ chromePc = "join" /\ browser = "up" /\ ~ChromeDone
    /\ chromePc' = "settle"
    /\ UNCHANGED <<fields, startPc, closePc, cleanPc, watch, chromeWatch, ctxs,
                   world, calls>>

\* chromedp.Do returns an error: a selector was not visible in 30 s, a command
\* found its target gone, or, on the last wait, the context ended.
RunError ==
    /\ \/ chromePc = "join"
       \/ chromePc = "errorPage" /\ (ChromeDone \/ browser = "gone")
    /\ chromePc' = "failing"
    /\ UNCHANGED <<fields, startPc, closePc, cleanPc, watch, chromeWatch, ctxs,
                   world, calls>>

\* After the 3 s sleep, which no context interrupts: exec.Start, or an error
\* in the arguments or from exec.
StartFfmpeg ==
    /\ chromePc = "settle"
    /\ \/ ~CtxDone /\ proc' = [proc EXCEPT !["ffmpeg"] = "up"]
                   /\ chromePc' = "setFfmpeg"
       \/ chromePc' = "failing" /\ UNCHANGED proc
    /\ UNCHANGED <<fields, startPc, closePc, cleanPc, watch, chromeWatch, ctxs,
                   browser, sink, crashed, calls>>

SetFfmpegCmd ==
    /\ chromePc = "setFfmpeg" /\ LockFree
    /\ cmd' = [cmd EXCEPT !["ffmpeg"] = TRUE]
    /\ watch' = [watch EXCEPT !["ffmpeg"] = "spawned"]
    /\ chromePc' = "afterStart"
    /\ UNCHANGED <<stopping, pulseSinkId, closeChrome, startPc, closePc,
                   cleanPc, chromeWatch, ctxs, world, calls>>

\* Mutant: the callback is called again.
AfterStartAgain ==
    /\ chromePc = "afterStart"
    /\ afterStartCalls' = afterStartCalls + 1
    /\ UNCHANGED <<fields, threads, ctxs, world, afterCloseCalls>>

\* OnAfterStartCallback, whatever has happened since.
AfterStart ==
    /\ chromePc = "afterStart"
    /\ afterStartCalls' = afterStartCalls + 1
    /\ chromePc' = "errorPage"
    /\ UNCHANGED <<fields, startPc, closePc, cleanPc, watch, chromeWatch, ctxs,
                   world, afterCloseCalls>>

\* The meeting shows its error page: the last Func calls Close.
ErrorPage ==
    /\ chromePc = "errorPage" /\ browser = "up" /\ ~ChromeDone
    /\ CallClose
    /\ chromePc' = "done"
    /\ UNCHANGED <<pulseSinkId, cmd, closeChrome, startPc, watch, chromeWatch,
                   ctxs, world, calls>>

\* stopChrome from the chrome thread: silent when Close was already called,
\* which CallClose is too.
ReportFailure ==
    /\ chromePc = "failing"
    /\ CallClose
    /\ chromePc' = "done"
    /\ UNCHANGED <<pulseSinkId, cmd, closeChrome, startPc, watch, chromeWatch,
                   ctxs, world, calls>>

\* stopChrome from the watchers of the browser: a detached or crashed target, a
\* lost connection, or the end of the event iterator with its context.
ReportBrowser ==
    /\ chromeWatch = "on"
    /\ browser \in {"lost", "gone"} \/ ChromeDone
    /\ CallClose
    /\ chromeWatch' = "done"
    /\ UNCHANGED <<pulseSinkId, cmd, closeChrome, startPc, chromePc, watch,
                   ctxs, world, calls>>

-----------------------------------------------------------------------------
(* The goroutines that wait for Xvfb and for ffmpeg *)

\* The watcher reads the field, without the lock.  It was assigned before the
\* goroutine was spawned, but Close may have reset it since: Wait on a nil
\* *exec.Cmd panics, and nothing recovers in this goroutine.
WatchBegins(c) ==
    /\ watch[c] = "spawned"
    /\ \/ cmd[c] /\ watch' = [watch EXCEPT ![c] = "waiting"]
                 /\ UNCHANGED crashed
       \/ ~cmd[c] /\ crashed' = TRUE /\ watch' = [watch EXCEPT ![c] = "done"]
    /\ UNCHANGED <<fields, startPc, chromePc, closePc, cleanPc, chromeWatch,
                   ctxs, proc, browser, sink, calls>>

\* Mutant: the error of Wait is logged and nothing else.
WaitReturnsLogOnly(c) ==
    /\ watch[c] = "waiting" /\ proc[c] \in {"exited", "failed"}
    /\ watch' = [watch EXCEPT ![c] = "done"]
    /\ UNCHANGED <<fields, startPc, chromePc, closePc, cleanPc, chromeWatch,
                   ctxs, world, calls>>

\* Wait returns: Close is called for an error, and for nothing else.
WaitReturns(c) ==
    /\ watch[c] = "waiting" /\ proc[c] \in {"exited", "failed"}
    /\ IF proc[c] = "failed" THEN CallClose ELSE UNCHANGED closing
    /\ watch' = [watch EXCEPT ![c] = "done"]
    /\ UNCHANGED <<pulseSinkId, cmd, closeChrome, startPc, chromePc,
                   chromeWatch, ctxs, world, calls>>

-----------------------------------------------------------------------------
(* Close: the cleaner *)

\* closeFfmpeg and closeXvfb: interrupt the process, forget it, and go on
\* without waiting for it to end.
CloseCmd(c) ==
    /\ cleanPc = c
    /\ proc' = IF cmd[c] /\ proc[c] = "up"
               THEN [proc EXCEPT ![c] = "interrupted"] ELSE proc
    /\ cmd' = [cmd EXCEPT ![c] = FALSE]
    /\ cleanPc' = IF c = "ffmpeg" THEN "chrome" ELSE "pulse"
    /\ UNCHANGED <<stopping, pulseSinkId, closeChrome, startPc, chromePc,
                   closePc, watch, chromeWatch, ctxs, browser, sink, crashed,
                   calls>>

\* closeChromeDp, up to its call of closeChrome().
CloseChromeDp ==
    /\ cleanPc = "chrome"
    /\ IF closeChrome THEN cleanPc' = "chromeWait" /\ chromeCancelled' = TRUE
                      ELSE cleanPc' = "xvfb" /\ UNCHANGED chromeCancelled
    /\ UNCHANGED <<fields, startPc, chromePc, closePc, watch, chromeWatch,
                   appCancelled, world, calls>>

\* closeChrome() returns once the browser process is gone.
ChromeClosed ==
    /\ cleanPc = "chromeWait" /\ browser \notin {"up", "lost"}
    /\ closeChrome' = FALSE
    /\ cleanPc' = "xvfb"
    /\ UNCHANGED <<stopping, pulseSinkId, cmd, startPc, chromePc, closePc,
                   watch, chromeWatch, ctxs, world, calls>>

\* Mutant: the id is cleared and the module stays loaded.
ClosePulseForgets ==
    /\ cleanPc = "pulse"
    /\ pulseSinkId' = FALSE
    /\ cleanPc' = "done"
    /\ UNCHANGED <<stopping, cmd, closeChrome, startPc, chromePc, closePc,
                   watch, chromeWatch, ctxs, world, calls>>

\* closePulse, up to pactl unload-module, which exec refuses to start once
\* shutdownCtx is done.
ClosePulse ==
    /\ cleanPc = "pulse"
    /\ IF pulseSinkId /\ ~ShutdownCtxDone
       THEN cleanPc' = "pulseWait" /\ UNCHANGED pulseSinkId
       ELSE cleanPc' = "done" /\ pulseSinkId' = FALSE
    /\ UNCHANGED <<stopping, cmd, closeChrome, startPc, chromePc, closePc,
                   watch, chromeWatch, ctxs, world, calls>>

\* pactl ends: with success, with an error of its own, or killed with its
\* context.  The id is forgotten in every case.
PulseUnloaded ==
    /\ cleanPc = "pulseWait"
    /\ sink' \in {FALSE, TRUE}
    /\ pulseSinkId' = FALSE
    /\ cleanPc' = "done"
    /\ UNCHANGED <<stopping, cmd, closeChrome, startPc, chromePc, closePc,
                   watch, chromeWatch, ctxs, proc, browser, crashed, calls>>

-----------------------------------------------------------------------------
(* Close: the closer *)

\* Mutant: Close waits for its cleaner however long it takes.
HandOverNoDeadline ==
    /\ closePc = "waiting" /\ cleanPc = "done"
    /\ afterCloseCalls' = afterCloseCalls + 1
    /\ closePc' = "callback"
    /\ UNCHANGED <<fields, startPc, chromePc, cleanPc, watch, chromeWatch,
                   ctxs, world, afterStartCalls>>

\* The select is over: the cleaner is done, r.ctx is, or the 5 s have expired,
\* at any step.  Then OnAfterCloseCallback takes over the recording.
HandOver ==
    /\ closePc = "waiting"
    /\ \E expired \in BOOLEAN : expired \/ cleanPc = "done" \/ CtxDone
    /\ afterCloseCalls' = afterCloseCalls + 1
    /\ closePc' = "callback"
    /\ UNCHANGED <<fields, startPc, chromePc, cleanPc, watch, chromeWatch,
                   ctxs, world, afterStartCalls>>

\* The callback returns and Close cancels r.ctx: "close everything if still
\* running".
CancelCtx ==
    /\ closePc = "callback"
    /\ closePc' = "closed"
    /\ UNCHANGED <<fields, startPc, chromePc, cleanPc, watch, chromeWatch,
                   ctxs, world, calls>>

-----------------------------------------------------------------------------
(* The environment *)

\* The controller closes the recorder: a stop request or the shutdown.  The
\* recorder is in the controller's map before Start is called.
ExternalClose ==
    /\ ~stopping
    /\ CallClose
    /\ UNCHANGED <<pulseSinkId, cmd, closeChrome, startPc, chromePc, watch,
                   chromeWatch, ctxs, world, calls>>

\* The application's context is cancelled (fx OnStop).
AppCancel ==
    /\ ~appCancelled
    /\ appCancelled' = TRUE
    /\ UNCHANGED <<fields, threads, chromeCancelled, world, calls>>

\* A command ends on its own or because it was interrupted.
ProcEnds(c) ==
    /\ Alive(c)
    /\ \E how \in {"exited", "failed"} : proc' = [proc EXCEPT ![c] = how]
    /\ UNCHANGED <<fields, threads, ctxs, browser, sink, crashed, calls>>

\* Mutant: the command was built with exec.Command, without r.ctx.
ProcKilledByNobody(c) == FALSE /\ UNCHANGED vars

\* exec.CommandContext kills the command when r.ctx is done.
ProcKilled(c) ==
    /\ CtxDone /\ Alive(c)
    /\ proc' = [proc EXCEPT ![c] = "failed"]
    /\ UNCHANGED <<fields, threads, ctxs, browser, sink, crashed, calls>>

\* The tab detaches or its renderer crashes; the browser process stays.
TargetLost ==
    /\ browser = "up"
    /\ browser' = "lost"
    /\ UNCHANGED <<fields, threads, ctxs, proc, sink, crashed, calls>>

\* The browser process ends by itself, or obeys closeChrome().
BrowserEnds ==
    /\ browser \in {"up", "lost"}
    /\ browser' = "gone"
    /\ UNCHANGED <<fields, threads, ctxs, proc, sink, crashed, calls>>

\* The allocator kills the browser when r.ctx, its parent, is done.
BrowserKilled == CtxDone /\ BrowserEnds

\* Nothing is left to do, or the program is gone.
Over ==
    \/ crashed
    \/ /\ startPc = "returned" /\ chromePc \in {"off", "done"}
       /\ closePc = "closed" /\ cleanPc = "done"
       /\ \A c \in Cmds : ~Alive(c) /\ watch[c] \in {"off", "done"}
       /\ browser \in {"none", "gone"} /\ chromeWatch # "on"

Terminated == Over /\ UNCHANGED vars

-----------------------------------------------------------------------------

StartStep == MakeRecordDir \/ RunPactl \/ PactlReturns \/ SetPulseSinkId
                \/ StartXvfb \/ SetXvfbCmd \/ StartFailed

\* Every step of the chrome thread but the one that waits for the error page.
ChromeStep == NewChrome \/ LaunchBrowser \/ JoinRoom \/ RunError \/ StartFfmpeg
                \/ SetFfmpegCmd \/ AfterStart \/ ReportFailure

WatchStep(c) == WatchBegins(c) \/ WaitReturns(c)

CleanStep == (\E c \in Cmds : CloseCmd(c)) \/ CloseChromeDp \/ ChromeClosed
                \/ ClosePulse \/ PulseUnloaded

CloseStep == HandOver \/ CancelCtx

Env == ErrorPage \/ ExternalClose \/ AppCancel \/ TargetLost \/ BrowserEnds
          \/ (\E c \in Cmds : ProcEnds(c))

Next ==
    \/ /\ ~crashed
       /\ \/ StartStep \/ ChromeStep \/ ReportBrowser
          \/ (\E c \in Cmds : WatchStep(c) \/ ProcKilled(c))
          \/ CleanStep \/ CloseStep \/ BrowserKilled \/ Env
    \/ Terminated

\* Goroutines run, the timer fires and a killed process dies.  Nothing is
\* assumed of a process that was only asked to stop, of closeChrome() while
\* the browser lives, or of the controller ever calling Close.
Fairness ==
    /\ WF_vars(~crashed /\ StartStep)
    /\ WF_vars(~crashed /\ ChromeStep)
    /\ WF_vars(~crashed /\ ReportBrowser)
    /\ \A c \in Cmds : WF_vars(~crashed /\ WatchStep(c))
    /\ \A c \in Cmds : WF_vars(~crashed /\ ProcKilled(c))
    /\ WF_vars(~crashed /\ CleanStep)
    /\ WF_vars(~crashed /\ CloseStep)
    /\ WF_vars(~crashed /\ BrowserKilled)

Spec == Init /\ [][Next]_vars
FairSpec == Spec /\ Fairness

-----------------------------------------------------------------------------
(* Properties *)

\* OnAfterCloseCallback runs at most once, although the controller, the start
\* thread, the chrome thread and every watcher may call Close at the same time:
\* END is reported, and the raw file handed over, exactly once.
HandedOverOnce == afterCloseCalls <= 1

\* The unguarded read of xvfbCmd / ffmpegCmd can take the program down only
\* once Close was called: a recorder nobody closes never panics.
PanicOnlyWhileClosing == crashed => stopping

\* A sink that is loaded when the cleaner finishes was left behind for one of
\* three reasons: pactl reported an error (cleanPc = "pulseWait"), the cleaner's
\* context was over, or Close overtook Start between the return of pactl and the
\* recording of the id, and found none (pulse.go:25-31).  Nothing else, in any
\* order of Start and Close, makes the cleaner miss the sink.
SinkReleased ==
    [][cleanPc # "done" /\ cleanPc' = "done" /\ sink' =>
          cleanPc = "pulseWait" \/ ShutdownCtxDone \/ startPc = "setSink"]_vars

\* Close always comes to its end, even when closing the browser hangs with the
\* mutex held.
CloseEnds == stopping ~> (closePc = "closed" \/ crashed)

\* Once Close has returned, every process this recorder ever started dies and
\* none comes up again, the ones started behind Close's back included.
NothingOutlivesClose ==
    closePc = "closed" ~>
        (crashed \/ [](browser \in {"none", "gone"} /\ \A c \in Cmds : ~Alive(c)))

\* Whatever breaks by itself (Start, Xvfb or ffmpeg with an error, the browser)
\* is reported through OnAfterCloseCallback without anybody asking.
FailureIsReported ==
    (\/ startPc = "failed"
     \/ \E c \in Cmds : proc[c] = "failed"
     \/ browser \in {"lost", "gone"})
        ~> (afterCloseCalls = 1 \/ crashed)

\* The session seen by the controller.
Phase ==
    CASE crashed                         -> "crashed"
      [] ~crashed /\ closePc = "idle"    -> "running"
      [] ~crashed /\ closePc = "waiting" -> "closing"
      [] ~crashed /\ closePc = "callback"-> "handover"
      [] ~crashed /\ closePc = "closed"  -> "ended"

Session == INSTANCE RecorderSession
               WITH phase <- Phase, announced <- afterStartCalls

\* This recorder implements the session its controller relies on.
SessionSpec == Session!Spec

(* What the repository says and the code does not do *)

\* recorder.go: "if something goes wrong then we can know from callback".
KnownFromCallback == crashed => afterCloseCalls = 1

\* recorder.go: "Graceful shutdown finished", and README: the post_recording
\* hook runs "after the raw file is saved".  After an orderly cleanup the ffmpeg
\* that was interrupted is no longer writing the file that is handed over.
RawFileComplete ==
    [][afterCloseCalls' # afterCloseCalls /\ cleanPc = "done"
          => proc["ffmpeg"] # "interrupted"]_vars
=============================================================================
