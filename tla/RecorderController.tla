-------------------------- MODULE RecorderController --------------------------
(* pkg/controllers, the recording side: the NATS handler that starts and stops *)
(* recorders, the map recordersInProgress, what onAfterClose does with a       *)
(* recorder that has ended, and the shutdown of the program.                   *)
(*                                                                             *)
(*   handler    the callback of the subscription: one message at a time        *)
(*   closers    one per recorder, inside Close, then inside onAfterClose       *)
(*   stoppers   the `go process.Close` of handleStopTask and callEndToAll      *)
(*   shutdown   the OnStop hooks of fx, in their order                         *)
(*                                                                             *)
(* A recorder is seen through the phases of RecorderSession, which Recorder    *)
(* implements.  A task id ("<room table id>-<task>") is a member of Tasks.     *)
EXTENDS Integers, FiniteSets

CONSTANTS
    Tasks,        \* task ids
    RtmpTasks,    \* those of START_RTMP: they produce no file
    MaxSessions   \* bound: how many START requests are accepted

None == 0      \* no recorder: a missing map entry
Purged == -1   \* no value: a purged key
Sessions == 1..MaxSessions

\* A task id is never the empty value a recorder has before it is created.
ASSUME ControllerAssumption ==
    /\ IsFiniteSet(Tasks) /\ None \notin Tasks
    /\ RtmpTasks \subseteq Tasks
    /\ MaxSessions \in Nat

VARIABLES
    recordersInProgress, \* the map: task id -> recorder or None
    task,                \* task[s]: the task id recorder s was created for
    phase,               \* phase[s]: its session, "new" before handleStartTask
    stopReq,             \* recorders whose `go process.Close` has not run yet
    \* --- handler ---
    handlerPc, handlerSession, handlerCount,
    \* --- onAfterClose, per recorder ---
    endPc, endCount,
    \* --- shutdown ---
    shutPc,              \* isShuttingDown is set in every state but "off"
    shutReq,             \* its goroutines that have not called Close yet
    waitFor,             \* recorders whose Close a shutdown goroutine runs
    \* --- outside ---
    progress,            \* current progress in the KV bucket, or Purged
    early,               \* recorders started before the END of an older one of
                         \* their task
    acked,               \* recorders whose STOP was answered with success
    ended,               \* ended[s]: END notifications sent
    saved,               \* saved[s]: a raw file is ready to be transcoded
    jobs,                \* jobs[s]: transcoding jobs published
    unreached            \* recorders whose job met an outage of NATS

handlerVars  == <<handlerPc, handlerSession, handlerCount>>
closerVars   == <<endPc, endCount>>
shutdownVars == <<shutPc, shutReq, waitFor>>
outside      == <<progress, early, acked, ended, saved, jobs, unreached>>
vars == <<recordersInProgress, task, phase, stopReq, handlerVars, closerVars,
          shutdownVars, outside>>

Phases     == {"new", "running", "closing", "handover", "ended", "crashed"}
HandlerPcs == {"idle", "starting", "closing", "count", "put"}
EndPcs     == {"none", "delete", "put", "notify", "file", "publish", "done"}
ShutPcs    == {"off", "wait", "unregister", "natsClose", "exit",
               "exited", "aborted"}

TypeOK ==
    /\ recordersInProgress \in [Tasks -> Sessions \cup {None}]
    /\ task \in [Sessions -> Tasks \cup {None}]
    /\ phase \in [Sessions -> Phases]
    /\ stopReq \subseteq Sessions
    /\ handlerPc \in HandlerPcs
    /\ handlerSession \in Sessions \cup {None}
    /\ handlerCount \in 0..Cardinality(Tasks)
    /\ endPc \in [Sessions -> EndPcs]
    /\ endCount \in [Sessions -> 0..Cardinality(Tasks)]
    /\ shutPc \in ShutPcs
    /\ shutReq \subseteq Sessions /\ waitFor \subseteq Sessions
    /\ progress \in 0..Cardinality(Tasks) \cup {Purged}
    /\ early \subseteq Sessions /\ acked \subseteq Sessions
    /\ ended \in [Sessions -> Nat]
    /\ saved \subseteq Sessions
    /\ jobs \in [Sessions -> Nat]
    /\ unreached \subseteq Sessions

Init ==
    /\ recordersInProgress = [t \in Tasks |-> None]
    /\ task = [s \in Sessions |-> None]
    /\ phase = [s \in Sessions |-> "new"]
    /\ stopReq = {}
    /\ handlerPc = "idle" /\ handlerSession = None /\ handlerCount = 0
    /\ endPc = [s \in Sessions |-> "none"]
    /\ endCount = [s \in Sessions |-> 0]
    /\ shutPc = "off"
    /\ shutReq = {} /\ waitFor = {}
    /\ progress = 0
    /\ early = {} /\ acked = {} /\ ended = [s \in Sessions |-> 0]
    /\ saved = {} /\ jobs = [s \in Sessions |-> 0]
    /\ unreached = {}

-----------------------------------------------------------------------------

\* The program has exited: after its last OnStop hook, because the hooks exceeded
\* the stop timeout of fx, or in a panic.
Gone == shutPc \in {"exited", "aborted"}

\* The NATS connection is open: subscriptions deliver, puts and publishes succeed
\* unless the server is out of reach, which it may be at any time.
NatsUp == shutPc \notin {"exit", "exited", "aborted"}

InProgress == {t \in Tasks : recordersInProgress[t] # None}

\* Mutant: a second caller runs the close again.
CallCloseAgain(s) ==
    phase' = IF phase[s] \in {"running", "ended"}
             THEN [phase EXCEPT ![s] = "closing"] ELSE phase

\* Recorder.Close: only the first caller has an effect.
CallClose(s) ==
    phase' = IF phase[s] = "running" THEN [phase EXCEPT ![s] = "closing"] ELSE phase

\* UpdateCurrentProgress: an error is logged by the caller and ignored.
PutProgress(n) ==
    \/ NatsUp /\ progress' = n
    \/ UNCHANGED progress

-----------------------------------------------------------------------------
(* The handler of the subscription.  A request it refuses changes nothing.     *)

\* Mutant: the request is not refused while the task is in progress.
HandleStartUnchecked(t) ==
    /\ handlerPc = "idle" /\ NatsUp
    /\ \E s \in Sessions :
          /\ phase[s] = "new" /\ \A x \in 1..(s - 1) : phase[x] # "new"
          /\ recordersInProgress' = [recordersInProgress EXCEPT ![t] = s]
          /\ task' = [task EXCEPT ![s] = t]
          /\ phase' = [phase EXCEPT ![s] = "running"]
          /\ handlerSession' = s
          /\ early' = IF \E x \in Sessions : task[x] = t /\ ended[x] = 0
                      THEN early \cup {s} ELSE early
    /\ handlerPc' = "starting"
    /\ UNCHANGED <<stopReq, handlerCount, closerVars, shutdownVars, progress,
                  acked, ended, saved, jobs, unreached>>

\* handleStartTask: refuse a task in progress, store the new recorder, then
\* start it.  isShuttingDown is not looked at.
HandleStart(t) ==
    /\ handlerPc = "idle" /\ NatsUp
    /\ recordersInProgress[t] = None
    /\ \E s \in Sessions :
          /\ phase[s] = "new" /\ \A x \in 1..(s - 1) : phase[x] # "new"
          /\ recordersInProgress' = [recordersInProgress EXCEPT ![t] = s]
          /\ task' = [task EXCEPT ![s] = t]
          /\ phase' = [phase EXCEPT ![s] = "running"]
          /\ handlerSession' = s
          /\ early' = IF \E x \in Sessions : task[x] = t /\ ended[x] = 0
                      THEN early \cup {s} ELSE early
    /\ handlerPc' = "starting"
    /\ UNCHANGED <<stopReq, handlerCount, closerVars, shutdownVars, progress,
                  acked, ended, saved, jobs, unreached>>

\* Start returns nil.
StartReturns ==
    /\ handlerPc = "starting"
    /\ handlerPc' = "count" /\ handlerSession' = None
    /\ UNCHANGED <<recordersInProgress, task, phase, stopReq, handlerCount,
                   closerVars, shutdownVars, outside>>

\* Start fails and closes the recorder; when that call is the first one, the
\* handler goes through the whole close before it answers.
StartFails ==
    /\ handlerPc = "starting"
    /\ CallClose(handlerSession)
    /\ IF phase[handlerSession] = "running"
       THEN handlerPc' = "closing" /\ UNCHANGED handlerSession
       ELSE handlerPc' = "idle" /\ handlerSession' = None
    /\ UNCHANGED <<recordersInProgress, task, stopReq, handlerCount,
                   closerVars, shutdownVars, outside>>

HandlerClosed ==
    /\ handlerPc = "closing" /\ phase[handlerSession] = "ended"
    /\ handlerPc' = "idle" /\ handlerSession' = None
    /\ UNCHANGED <<recordersInProgress, task, phase, stopReq, handlerCount,
                   closerVars, shutdownVars, outside>>

\* Mutant: the recorder just stored is counted twice.
CountStartedTwice ==
    /\ handlerPc = "count"
    /\ handlerCount' = Cardinality(InProgress) + 1
    /\ handlerPc' = "put"
    /\ UNCHANGED <<recordersInProgress, task, phase, stopReq, handlerSession,
                   closerVars, shutdownVars, outside>>

\* updateAndGetProgress after a start: count the map, then put the count.
CountStarted ==
    /\ handlerPc = "count"
    /\ handlerCount' = Cardinality(InProgress)
    /\ handlerPc' = "put"
    /\ UNCHANGED <<recordersInProgress, task, phase, stopReq, handlerSession,
                   closerVars, shutdownVars, outside>>

PutStarted ==
    /\ handlerPc = "put"
    /\ PutProgress(handlerCount)
    /\ handlerPc' = "idle" /\ handlerCount' = 0
    /\ UNCHANGED <<recordersInProgress, task, phase, stopReq, handlerSession,
                  closerVars, shutdownVars, early, acked, ended, saved, jobs, unreached>>

\* Mutant: the entry is removed but nobody closes the recorder.
HandleStopForgets(t) ==
    /\ handlerPc = "idle" /\ NatsUp
    /\ recordersInProgress[t] # None
    /\ acked' = acked \cup {recordersInProgress[t]}
    /\ recordersInProgress' = [recordersInProgress EXCEPT ![t] = None]
    /\ UNCHANGED <<task, phase, stopReq, handlerVars, closerVars,
                  shutdownVars, progress, early, ended, saved, jobs, unreached>>

\* handleStopTask: take the recorder out of the map, let a goroutine close it
\* and answer success at once.  A general STOP is one of these per task.
HandleStop(t) ==
    /\ handlerPc = "idle" /\ NatsUp
    /\ recordersInProgress[t] # None
    /\ stopReq' = stopReq \cup {recordersInProgress[t]}
    /\ acked' = acked \cup {recordersInProgress[t]}
    /\ recordersInProgress' = [recordersInProgress EXCEPT ![t] = None]
    /\ UNCHANGED <<task, phase, handlerVars, closerVars, shutdownVars,
                  progress, early, ended, saved, jobs, unreached>>

-----------------------------------------------------------------------------
(* Sessions *)

\* The goroutine of handleStopTask calls Close.
RunStop(s) ==
    /\ s \in stopReq
    /\ CallClose(s)
    /\ stopReq' = stopReq \ {s}
    /\ UNCHANGED <<recordersInProgress, task, handlerVars, closerVars,
                   shutdownVars, outside>>

\* The recorder closes itself: a process died, the browser was lost, or the
\* meeting is over.
SessionEnds(s) ==
    /\ phase[s] = "running"
    /\ CallClose(s)
    /\ UNCHANGED <<recordersInProgress, task, stopReq, handlerVars, closerVars,
                   shutdownVars, outside>>

\* Close enters OnAfterCloseCallback.
HandOver(s) ==
    /\ phase[s] = "closing"
    /\ phase' = [phase EXCEPT ![s] = "handover"]
    /\ endPc' = [endPc EXCEPT ![s] = "delete"]
    /\ UNCHANGED <<recordersInProgress, task, stopReq, handlerVars, endCount,
                   shutdownVars, outside>>

-----------------------------------------------------------------------------
(* onAfterClose *)

EndStep(s, from, to) == endPc[s] = from /\ endPc' = [endPc EXCEPT ![s] = to]

\* Mutant: the key is built from the room and not from the task.
MapDeleteRoom(s) ==
    /\ EndStep(s, "delete", "put")
    /\ recordersInProgress' = [t \in Tasks |-> None]
    /\ endCount' = [endCount EXCEPT ![s] = 0]
    /\ UNCHANGED <<task, phase, stopReq, handlerVars, shutdownVars,
                   outside>>

\* Mutant: the entry stays.
MapDeleteNothing(s) ==
    /\ EndStep(s, "delete", "put")
    /\ endCount' = [endCount EXCEPT ![s] = Cardinality(InProgress)]
    /\ UNCHANGED <<recordersInProgress, task, phase, stopReq, handlerVars,
                   shutdownVars, outside>>

\* Mutant: the map is counted before the entry is deleted.
MapDeleteLate(s) ==
    /\ EndStep(s, "delete", "put")
    /\ recordersInProgress' = [recordersInProgress EXCEPT ![task[s]] = None]
    /\ endCount' = [endCount EXCEPT ![s] = Cardinality(InProgress)]
    /\ UNCHANGED <<task, phase, stopReq, handlerVars, shutdownVars,
                   outside>>

\* The entry of the task is deleted, whichever recorder it holds, and the rest
\* of the map is counted.
MapDelete(s) ==
    /\ EndStep(s, "delete", "put")
    /\ recordersInProgress' = [recordersInProgress EXCEPT ![task[s]] = None]
    /\ endCount' = [endCount EXCEPT ![s] = Cardinality(InProgress \ {task[s]})]
    /\ UNCHANGED <<task, phase, stopReq, handlerVars, shutdownVars,
                   outside>>

\* The count is put later, when the map may have changed again.
PutEnded(s) ==
    /\ EndStep(s, "put", "notify")
    /\ PutProgress(endCount[s])
    /\ endCount' = [endCount EXCEPT ![s] = 0]   \* a dead local variable
    /\ UNCHANGED <<recordersInProgress, task, phase, stopReq, handlerVars,
                  shutdownVars, early, acked, ended, saved, jobs, unreached>>

NotifyEnd(s) ==
    /\ EndStep(s, "notify", IF task[s] \in RtmpTasks THEN "done" ELSE "file")
    /\ ended' = [ended EXCEPT ![s] = @ + 1]
    /\ UNCHANGED <<recordersInProgress, task, phase, stopReq, handlerVars,
                  endCount, shutdownVars, progress, early, acked, saved, jobs, unreached>>

\* The raw file is moved to its place, found and not empty, and the hook
\* accepts it; otherwise onAfterClose returns.
TakeFile(s) ==
    /\ \/ EndStep(s, "file", "publish") /\ saved' = saved \cup {s}
       \/ EndStep(s, "file", "done") /\ UNCHANGED saved
    /\ UNCHANGED <<recordersInProgress, task, phase, stopReq, handlerVars,
                  endCount, shutdownVars, progress, early, acked, ended, jobs, unreached>>

\* js.Publish: an error is logged and the job is gone.
Publish(s) ==
    /\ EndStep(s, "publish", "done")
    /\ \/ NatsUp /\ jobs' = [jobs EXCEPT ![s] = @ + 1] /\ UNCHANGED unreached
       \/ NatsUp /\ unreached' = unreached \cup {s} /\ UNCHANGED jobs
       \/ ~NatsUp /\ UNCHANGED <<jobs, unreached>>
    /\ UNCHANGED <<recordersInProgress, task, phase, stopReq, handlerVars,
                  endCount, shutdownVars, progress, early, acked, ended, saved>>

\* onAfterClose returns, Close cancels the context of the recorder.
Release(s) ==
    /\ phase[s] = "handover" /\ endPc[s] = "done"
    /\ phase' = [phase EXCEPT ![s] = "ended"]
    /\ UNCHANGED <<recordersInProgress, task, stopReq, handlerVars, closerVars,
                   shutdownVars, outside>>

-----------------------------------------------------------------------------
(* Shutdown: callEndToAll, then the connection, then the process *)

ShutStep(from, to) == shutPc = from /\ shutPc' = to

\* Swap isShuttingDown, then Range over the map: one goroutine per recorder.
BeginShutdown ==
    /\ ShutStep("off", "wait")
    /\ shutReq' = {recordersInProgress[t] : t \in InProgress}
    /\ UNCHANGED <<recordersInProgress, task, phase, stopReq, handlerVars,
                   closerVars, waitFor, outside>>

\* Mutant: the wait group is told of a goroutine that closes nothing.
ShutCloseNothing(s) ==
    /\ s \in shutReq
    /\ waitFor' = waitFor \cup {s}
    /\ shutReq' = shutReq \ {s}
    /\ UNCHANGED <<recordersInProgress, task, phase, stopReq, handlerVars,
                   closerVars, shutPc, outside>>

\* One of these goroutines calls Close: as the first caller it goes through the
\* whole close, otherwise it is done at once.
ShutClose(s) ==
    /\ s \in shutReq
    /\ CallClose(s)
    /\ waitFor' = IF phase[s] = "running" THEN waitFor \cup {s} ELSE waitFor
    /\ shutReq' = shutReq \ {s}
    /\ UNCHANGED <<recordersInProgress, task, stopReq, handlerVars, closerVars,
                   shutPc, outside>>

\* Mutant: nobody waits for the group.
WaitAllSkipped ==
    /\ ShutStep("wait", "unregister")
    /\ shutReq = {}
    /\ UNCHANGED <<recordersInProgress, task, phase, stopReq, handlerVars,
                   closerVars, shutReq, waitFor, outside>>

\* wg.Wait: each of its goroutines has returned from Close.
WaitAll ==
    /\ ShutStep("wait", "unregister")
    /\ shutReq = {} /\ \A s \in waitFor : phase[s] = "ended"
    /\ UNCHANGED <<recordersInProgress, task, phase, stopReq, handlerVars,
                   closerVars, shutReq, waitFor, outside>>

\* DeleteRecorder purges the keys of this recorder; an error is only logged.
Unregister ==
    /\ ShutStep("unregister", "natsClose")
    /\ PutProgress(Purged)
    /\ UNCHANGED <<recordersInProgress, task, phase, stopReq, handlerVars,
                  closerVars, shutReq, waitFor, early, acked, ended, saved, jobs,
                  unreached>>

\* The next OnStop hooks: the connection is closed, then the process exits and
\* takes every goroutine with it.
CloseNats ==
    /\ ShutStep("natsClose", "exit")
    /\ UNCHANGED <<recordersInProgress, task, phase, stopReq, handlerVars,
                   closerVars, shutReq, waitFor, outside>>

Exit ==
    /\ ShutStep("exit", "exited")
    /\ UNCHANGED <<recordersInProgress, task, phase, stopReq, handlerVars,
                   closerVars, shutReq, waitFor, outside>>

\* The hook that waits for the recorders exceeds the stop timeout of fx (15 s):
\* the program exits without running the other hooks.
StopTimeout ==
    /\ shutPc = "wait"
    /\ shutPc' = "aborted"
    /\ UNCHANGED <<recordersInProgress, task, phase, stopReq, handlerVars,
                   closerVars, shutReq, waitFor, outside>>

\* A goroutine of a recorder panics, and the program is gone.
SessionCrashes(s) ==
    /\ phase[s] \in {"closing", "handover", "ended"}
    /\ phase' = [phase EXCEPT ![s] = "crashed"]
    /\ shutPc' = "aborted"
    /\ UNCHANGED <<recordersInProgress, task, stopReq, handlerVars, closerVars,
                   shutReq, waitFor, outside>>

Terminated == Gone /\ UNCHANGED vars

-----------------------------------------------------------------------------

HandlerStep == StartReturns \/ StartFails \/ HandlerClosed \/ CountStarted
                  \/ PutStarted

SessionStep(s) == HandOver(s) \/ MapDelete(s) \/ PutEnded(s) \/ NotifyEnd(s)
                     \/ TakeFile(s) \/ Publish(s) \/ Release(s)

ShutdownStep == (\E s \in Sessions : ShutClose(s)) \/ WaitAll
                   \/ Unregister \/ CloseNats \/ Exit

\* Requests, sessions that end by themselves or take the program down, the stop
\* of the program.
Env ==
    \/ \E t \in Tasks : HandleStart(t) \/ HandleStop(t)
    \/ \E s \in Sessions : SessionEnds(s) \/ SessionCrashes(s)
    \/ BeginShutdown
    \/ StopTimeout

Next ==
    \/ /\ ~Gone
       /\ \/ HandlerStep
          \/ \E s \in Sessions : RunStop(s) \/ SessionStep(s)
          \/ ShutdownStep
          \/ Env
    \/ Terminated

\* Every goroutine that can run does; requests and failures are never owed.  The
\* steps of a recorder are few, so one condition serves its stopper and its closer.
Fairness ==
    /\ WF_vars(~Gone /\ HandlerStep)
    /\ \A s \in Sessions : WF_vars(~Gone /\ (RunStop(s) \/ SessionStep(s)))
    /\ WF_vars(~Gone /\ ShutdownStep)

Spec == Init /\ [][Next]_vars
FairSpec == Spec /\ Fairness

-----------------------------------------------------------------------------
(* Properties *)

\* However a recorder comes to its end (a STOP, a failure, the shutdown, or all
\* of them at once), plugNmeet is told END at most once, at most one
\* transcoding job is published, and never before END.
OneEndEach == \A s \in Sessions : ended[s] <= 1 /\ jobs[s] <= ended[s]

\* A running recorder leaves the map only for a STOP that closes it, or through
\* onAfterClose of an older recorder of the same task: a START never replaces a
\* recorder, and recorders of other tasks never touch its entry.
LeavesMapOnlyByClose ==
    [][\A s \in Sessions :
          /\ phase[s] = "running"
          /\ recordersInProgress[task[s]] = s
          /\ recordersInProgress'[task[s]] # s
          => \/ s \in stopReq'
             \/ \E x \in Sessions \ {s} : task[x] = task[s] /\ endPc[x] = "delete"]_vars

\* A recorder that runs can be found: it is in the map under its task, or its
\* Close is on its way.  So no task ever has two running recorders.
RunningIsRegistered ==
    \A s \in Sessions :
        phase[s] = "running" => recordersInProgress[task[s]] = s \/ s \in stopReq

\* This holds as long as plugNmeet waits for the END of a task before it starts
\* the task again, whatever the order of STOP, failures and shutdown.
RegisteredUnlessEarly == early = {} => RunningIsRegistered

\* When the program exits with its hooks completed, the recorders the shutdown
\* closed have handed everything over: no job of theirs met a closed connection,
\* and only an outage can have lost one.
ShutdownLosesNoJob ==
    shutPc = "exited" =>
        \A s \in waitFor :
            /\ phase[s] = "ended" /\ ended[s] = 1
            /\ s \in saved /\ s \notin unreached => jobs[s] = 1

\* A STOP that was answered with success ends in an END.
AckedStopEnds == \A s \in Sessions : s \in acked ~> (ended[s] = 1 \/ Gone)

\* A recorder that begins to close frees its task, reports END, and a file it
\* saved becomes a job unless its publish met an outage or the program goes down.
ClosedIsCleanedUp ==
    \A s \in Sessions :
        phase[s] = "closing" ~>
            \/ shutPc # "off"
            \/ /\ phase[s] = "ended" /\ ended[s] = 1
               /\ recordersInProgress[task[s]] # s
               /\ s \in saved /\ s \notin unreached => jobs[s] = 1

\* The shutdown ends although recorders may keep ending by themselves and new
\* ones may be started while it waits.
ShutdownEnds == shutPc = "wait" ~> Gone

\* Each recorder goes through the phases its own specification allows.
SessionOf(s) == INSTANCE RecorderSession
                    WITH phase <- IF phase[s] = "new" THEN "running" ELSE phase[s],
                         announced <- 0

SessionsAsPromised ==
    [][\A s \in Sessions : SessionOf(s)!Next \/ UNCHANGED SessionOf(s)!vars]_vars

(* What the repository says and the code does not do *)

\* RunningIsRegistered, above.  recorder_end.go:74, of the Delete that breaks it:
\* "It's safe to call even if handleStopTask already removed it."
=============================================================================
