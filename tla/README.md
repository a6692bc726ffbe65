# plugNmeet-recorder in TLA+

plugNmeet-recorder joins a meeting with a headless browser, records or broadcasts
what it sees with ffmpeg, and turns the raw recording into a final file through a
job queue. This directory holds its formal models: one module per component, the
instances TLC checks, and theorems checked by TLAPS.

## 1. Inventory

| Component | Code | State | Operations | Talks to |
|---|---|---|---|---|
| Recorder (one session) | `pkg/recorder` | `stopping`, `xvfbCmd`, `ffmpegCmd`, `closeChrome`, `pulseSinkId`, a mutex, a context; the external processes | `Start`, `Close`, `launchChrome`, `launchFfmpegProcess`, watcher goroutines | the controller, through `OnAfterStartCallback` and `OnAfterCloseCallback` |
| Recording service | `pkg/controllers/recorder*.go` | `recordersInProgress`, `isShuttingDown`; the temporary and the raw file | START, STOP, `onAfterClose`, `moveFile`, `updateAndGetProgress`, `callEndToAll` | recorders, the registry, the job queue, plugNmeet over HTTP |
| Transcoding service | `pkg/controllers/transcoder_service.go` | the job in hand; files on shared storage | fetch, post recording job, merge job, ack or nak | JetStream work queue, ffmpeg, hooks |
| retry-transcode | `pkg/app/retry_transcode.go` | none | publish a task again | the job queue |
| Registry | `pkg/services/nats` | keys of this recorder in a KV bucket | register, ping, put progress, purge | plugNmeet reads it |
| Wiring | `pkg/app`, `main.go` | application context | start; fx hooks: end all recorders, close NATS, cancel | everything |
| Configuration | `pkg/config/config.go`, `utils.go` | the settings | defaults, migration of deprecated settings, normalisation of the NATS urls | read by everything |
| Hooks | `pkg/config/hooks.go` | the script processes of a library | start the scripts, run a pipeline | both services |
| Notifier | `pkg/utils` | none | one HTTP request | plugNmeet |

What is hard here:

* *Many callers of `Close`.* The handler, `Start`'s deferred function, the browser's
  watchers, the watchers of Xvfb and ffmpeg, the error page and the shutdown may all
  close one recorder at once, in the middle of its start.
* *A close with a deadline.* `Close` waits five seconds for its cleaner and then hands
  over; the cleaner may go on, hold the mutex, or hang in `closeChrome()`.
* *Fields read without the lock* by goroutines that Close races with.
* *A map shared by the handler, every closing recorder and the shutdown*, with counts
  taken and published in two steps.
* *At-least-once delivery.* A worker may die between any two file operations; the next
  one sees what is left on disk; heartbeats may not arrive and a job runs twice.
* *An id that is looked up and then written.* Several instances may be started with one
  id: a dead one leaves its entry, a stopped one purges it while it still puts its last
  ping, and a live one whose ping is late looks dead.

What makes each component correct: a recorder hands over exactly once and leaves no
process behind; the controller can find every running recorder, tells plugNmeet END
once, and publishes one job per saved file; a transcoder never loses the content of a
recording and reports only complete files; plugNmeet sees the whole entry of an instance
that has its id for itself, and the id of a dead one becomes free; the settings do not
depend on the order or the form they were written in.

## 2. Modules

| Module | Models |
|---|---|
| `RecorderSession` | abstract: what one recorder promises its controller (running, closing, handover, ended, crashed) |
| `Recorder` | detailed: `pkg/recorder`, goroutine by goroutine |
| `RecorderProofs` | theorems about `Recorder`, and the safety part of `Recorder => RecorderSession` |
| `RecorderController` | the recording service and the shutdown; each recorder is seen through the phases of `RecorderSession` |
| `ControllerProofs` | theorems about `RecorderController` |
| `RecorderProgress` | extends `RecorderController` by a history of the counts it publishes |
| `ProgressProofs` | the theorem about the published count; extends `ControllerProofs` |
| `Transcoder` | queue, workers and storage |
| `TranscoderProofs` | theorems about `Transcoder` |
| `RecordingLife` | abstract: the life of a recording, from the end of its session to the report |
| `RecordingPipeline` | extends `Transcoder` by the file handling of `onAfterClose`; implements `RecordingLife` |
| `PipelineProofs` | theorems about `RecordingPipeline`, and the safety part of its refinement; extends `TranscoderProofs` |
| `Settings` | `pkg/config` as functions of the file: urls, defaults, hook pools |
| `RecorderRegistry` | extends `Settings`: instances of one id on the KV bucket |
| `RegistryProofs` | theorems about the instances of `RecorderRegistry` |
| `SettingsProofs` | theorems about the functions of `Settings` |
| `MCRecorder`, `MCRecorderController`, `MCRecorderProgress`, `MCTranscoder`, `MCRecordingPipeline`, `MCRecorderRegistry` | the instances for TLC |

Operators whose comment begins with "Mutant:" are variants of the definition that
follows them with one plausible mistake; no specification uses them. They show, one by
one, that each property can fail.

### Recorder

One recorder. A program counter per thread: `startPc` (`Start`), `chromePc`
(`launchChrome`, then `launchFfmpegProcess` inside `chromedp.Do`), `closePc` (the
winner of the compare-and-swap), `cleanPc` (the goroutine inside `Close`), `watch[c]`
(the goroutine blocked in `Cmd.Wait`), `chromeWatch` (the goroutines that watch the
browser; both only call `Close`, so one stands for both). `exec.Start` and the
assignment of the field are two steps, because `Close` may come between them, and so are
the load of the pulse sink and the recording of its id (`PactlReturns`,
`SetPulseSinkId`). Xvfb, ffmpeg, the browser and the pulse sink are external: they come up, fail or end at any
moment. Time is abstract: each timer (30 s for a selector, 5 s for `Close`) may fire at
any step. The mutex is not a variable: only two places keep it across a call that takes
time, `closeChromeDp` and `closePulse`, and `LockFree` says that neither is in progress.
A context is a predicate (`CtxDone`, `ShutdownCtxDone`, `ChromeDone`) over what cancels
it. After a panic (`crashed`) the program is gone.

### RecorderController

Recorders are numbered in the order of their START. `handlerPc` follows the NATS
callback, which handles one message at a time; a general STOP is two `HandleStop`s, and
what can come between them is the same as between two messages. `stopReq` and `shutReq`
are the goroutines that have been spawned to call `Close` and have not done so. `endPc`
follows `onAfterClose` of one recorder: delete from the map and count, publish the
count, notify END, take the file (move it, stat it, run the hook), publish the job. The
count is taken in one step with the delete, or with the end of a start, and put in
another. (`Range` over a `sync.Map` is not a snapshot, so a count that mixes two states
of the map is left out.) `shutPc` follows the OnStop hooks in the reverse order of
their registration: `callEndToAll`, the drain and close of the NATS connection, then
the cancelled context and the exit. `StopTimeout` is the stop timeout of fx, which the
program leaves at its default.

A put or a publish may fail at any time, since the client reconnects for ever and the
code only logs the error. `SessionCrashes` is the step `Crash` of `RecorderSession`: the
panic of one session ends the program for all of them.

`NotifyEnd` is the call of the notifier: END counts as sent whether or not it arrives,
since its error is only logged. A recorder may be closed, and even have ended, while the
handler is still in `Start`, which then fails under the cancelled context (`StartFails`);
the `Close` that follows does nothing.

Whether the published count is right is the matter of `RecorderProgress`. Its variable
`lone` says that the last count was taken while no other one was on its way, and
arrived: two closers that count at the same time may put the older count last, and the
number stays wrong until the next count. `ProgressIsCurrent` says that this overlap and
a put that fails are the only ways.

Two history variables: `early`, the recorders started before the END of an older one of
the same task, and `unreached`, those whose job met an outage while the connection was
open. A job that meets the closed connection is not in it, and that is the difference
`ShutdownLosesNoJob` is about.

### Transcoder

`msg` and `deliveries` are the JetStream consumer as the code uses it: redelivery after
`AckWait` unless the heartbeat keeps the message, at most `MaxDeliver` deliveries, then
dropped. `raw[j]` and `out[j]` are the file the job reads and the file at its output
path; a partial file, a complete one and one two ffmpeg wrote at once are told apart,
content is not. `Kind[j]` says what the job is: `single`, `merge`, `bad` (cannot be
unmarshalled), `inPlace`, a retried job whose raw file already has the name of the
output, or `remote`: a pre_transcoding hook copies the raw file to the worker's own disk
(`FetchRaw`, `local[w]`), the handler removes the copy when it returns, and a
post_transcoding hook may remove the original (`RemoveOriginal`), whose place it is told
in `source_for_cleanup`. The copies are taken to be on the disk of their worker, and the
hooks are taken to do what the README says of them and nothing else. ffmpeg refuses the
`inPlace` job, and it refuses to overwrite the output of a merge, whose arguments have
no `-y`. Everything before ffmpeg that may fail is one action,
`PrepareFails`: all its returns lead to the same Nak. A worker that is stopped looks
like a crash from the queue, since its connection is closed first. A worker that dies takes
its ffmpeg with it, as it does when its container or machine dies; Go does not guarantee it
for a process that is killed alone. `RetryTranscode` is used for jobs the queue has dropped.

`proceeded[j]` counts the reports that reach plugNmeet. A report that fails is logged, and
the job is acknowledged all the same; `reportLost` remembers the jobs with a report that
never arrived, so that the properties can tell this way of losing a report, which needs no
crash, from all others.

### RecordingPipeline and RecordingLife

`rec[j]` follows `onAfterClose` from line 105 on: `moveFile` out of the temporary
directory (a rename; or rsync, which copies and then removes, two steps that a failure
or the death of the process may separate), the check of the file, the post_recording
hook, the publish. Every early return, and every death of the recorder's process, is
`stranded`: the file is kept, and no job is published. From `published` on the queue and
the workers of `Transcoder` go on, each action taken as it is. `twice` remembers the jobs
two workers held at once, which needs an outage; for these alone the content may be
lost. The raw file is complete when the session ends here: that ffmpeg may still write it
is the run `recorder_raw_file`.

`RecordingLife` has a life per recording and the steps between them: `recording`,
`saved`, `queued`, `reported`, and the ways out that the code has (`stranded`,
`dropped`, `forgotten` without a report, `stalled` when an unreadable message has ended
every worker). `LifeOf` maps the pipeline to it. No way leads back to work from
`reported`, and nothing stays `saved`, or `queued` while somebody works on the queue.

### Settings

Functions of the configuration file and the `-mode` flag. A url is a scheme and a rest; a
blank entry and one that does not parse are values of their own; `TakeUrl` is one round
of the loop of `normalizeNatsUrls`, and `Rounds` what was kept after each of them. The
nested loops of `InitializeHooks` are written the same way, by the recursive functions
`AddScripts` and `ProcessHookCategory`. A configuration is a record of the fields the
code looks at (`ConfigFiles`), a nil pointer is `Absent`, and a number that is not set is 0.
`SetDefaultConfig` makes all assignments of `setDefaultConfig`; the text of the defaults
is not written out. `HookPools` is the map `scriptsWithPoolSize` of `InitializeHooks`; a
path is a name and whether it is relative, and that `ValidateHookScript` may refuse a
script is left out. The program applies all this before its first step, so the properties
(`UrlsAsSpecified`, `OneTransport`, `DefaultsSettle`, `HooksReady`) are stated of the
initial states of `RecorderRegistry`, for every file and list that is tried.

### RecorderRegistry

Instances started with one id. `kv[f]` is the instance that wrote the field, or `Absent`;
`maxLimit` stands for the three fields the registration puts besides the last ping; the
progress that recorders put later belongs to `RecorderProgress`. Time is in ticks, and only ages are kept: of the last ping
in the bucket (`age`), since the ticker of an instance fired (`timer`), of the time its
`UpdateStatus` has taken and not put yet (`stamp`), of the last one it has put
(`silent`), each up to `PingInterval`, the age at which the code takes an entry
for stale. Every call to the bucket is a step of its own, so everything may come between:
the look at the last ping (`Refuse`, `Accept`), the puts in the order of a Go map
(`PutField`), the two puts of `UpdateStatus` in their goroutine, the purges in their
order. `pc` is `ending` while `callEndToAll` waits for its recorders: the ping is off, and
the entry may become stale and be taken over although the process lives. `Refuse` ends
the program without `callEndToAll`, since fx stops only the hooks it has started. A
transcoder (`WithMode`) does none of this. `Exit` may leave a ping behind that is on its
way; `Crash` may happen at any step.

History: `disturbed`, the instances that met another active one or whose puts failed,
and `debris`, the fields that a crash, a failed purge or a put after the purge of the
same instance left.

## 3. What is checked

| Run | Bounds | Shows |
|---|---|---|
| `recorder` | one recorder, no bound: the program counters only move forward | safety (`TypeOK`, `HandedOverOnce`, `PanicOnlyWhileClosing`, `SinkReleased`), liveness (`CloseEnds`, `NothingOutlivesClose`, `FailureIsReported`) and the refinement `SessionSpec` |
| `controller` | 2 recorders, 2 tasks (a recording and a broadcast) | END and the job at most once and in that order, the shutdown loses no job of the recorders it closes, a START never replaces a recorder, recorders can be found unless started early, phases as `RecorderSession` allows; the published number of tasks is the true one unless two counts overlapped or a put failed |
| `controller_live` | 2 recorders of one task | an acknowledged STOP ends in END, a closed recorder is cleaned up, the shutdown ends |
| `transcoder` | 2 workers (one transcodes, one renames), a recording, one that a hook fetches, a merge, an unreadable message; 2 deliveries, 1 crash, 1 retry | the content is never lost, one worker per job, acknowledged means reported once unless a worker crashed or the one report was lost, only complete files are reported |
| `pipeline` | a recording and an unreadable message, 2 workers, 2 deliveries, 1 crash (of a recorder or a worker), 1 retry, outages, a temporary directory | from the end of a session its content stays in one complete file unless two workers held its job; what is published is there; and the refinement `LifeSpec`, with its liveness |
| `registry` | 2 recorders and a transcoder with one id, a ping interval of 2 ticks, 1 crash or failed call; 15360 configuration files; all lists of up to 3 of 10 urls | who is alone is listed completely, nobody is taken over before his ping is due, a stop leaves no keys but debris, the id of the dead becomes free; urls, defaults and hook pools are as they should be |

Two recorders are enough for the controller's races: each is between two recorders of
one task, two of different tasks, or a recorder with the handler or the shutdown, and a
session is used once. Two workers are enough for a job to be in two hands; two
deliveries and a crash let a job be lost to the crash, fail, be dropped, be retried and
be done. The unreadable
message stops both workers of the `pipeline` in its two deliveries, so that a recording
can be stalled. In the registry, two ticks tell a fresh
ping, an ageing one and a stale one apart, and a second recorder is enough to take an id
over while the first one starts, runs, or stops. Three
urls are enough for a doubled entry next to a different one. Pool sizes are unset or 3,
scripts are one that the three categories may share under two spellings and a request.
For every safety property of these runs a theorem of section 4 removes the bounds.

Runs that end in a violation, each a disagreement between the code and what the
repository says of it:

| Run | What happens | What is said |
|---|---|---|
| `recorder_panic` | `Close` sets `ffmpegCmd` or `xvfbCmd` to nil before the watcher goroutine reads it; `Wait` on nil panics and the program dies | `recorder.go:104` "if something goes wrong then we can know from callback" |
| `recorder_raw_file` | `closeFfmpeg` interrupts ffmpeg and does not wait; the file is moved and published while it is still written | `recorder.go:132` "Graceful shutdown finished" |
| `controller_lost_recorder` | STOP, START of the same task, and only then `onAfterClose` of the first recorder: it deletes the entry of the second | `recorder_end.go:74` "It's safe to call even if handleStopTask already removed it" |
| `transcoder_unreported` | a crash after the raw file was removed: the redelivered job finds no raw file, is acknowledged, and nobody is told of the recording | `README.md:86` "guaranteeing that all recordings are eventually processed" |
| `transcoder_in_place` | a retry with the final file as `--file`: ffmpeg refuses, and the output, the only copy, is removed | `README.md:212-218`, the example call; `transcoder_service.go:258` "Keeping raw file" |
| `registry_only_active` | two instances look at the last ping before either has put its own, and both run | `services/nats/recorder.go:24` "ensures it is the only active instance with this ID" |

The same models show more of this kind, which no run states separately: START reported
after END (`AfterStart` after `HandOver`); a sink that stays loaded because `Close` came
between the return of `pactl` and the recording of the id (`SetPulseSinkId` after
`ClosePulse`), or because `pactl` was run after the cleaner had finished; a finished
recording of which plugNmeet never hears because its one report was lost (`reportLost`); the
shutdown that does not wait for a recorder a STOP took out of the map, or a START added
(`controllers/recorder.go:135` logs "All recorders closed and unregistered"); a published
progress that stays wrong after two overlapping counts, or comes back after its purge; a
ping that comes back after the purge, and an instance that purges the entry of the one
that took its id over while it was ending; an unreadable message that ends the service of
every worker it meets (the life `stalled`); a merge delivered again that removes its
finished output; and a recording lost when heartbeats do not arrive (`twice`).

### Fairness

`Recorder`: every goroutine that can run does, timers fire, and a process killed with
its context dies (`ProcKilled`, `BrowserKilled`: SIGKILL). Nothing is assumed of a
process that was only interrupted, of `closeChrome()` while the browser lives, or of the
controller. `RecorderController`: handler, closers, stoppers and shutdown proceed;
requests, failures, the stop of the program and its timeout are never owed. Notifications
and hooks end because the HTTP client and the hooks have timeouts. `RecordingPipeline`: `onAfterClose` goes on (its hooks and rsync
end), a free worker fetches, a busy one goes on, a message nobody holds is delivered
again; no crash, outage or retry is owed. The CPU gate of mode `both` may delay a fetch for
as long as the machine is busy; fairness of the fetch assumes it is idle at some point.
`RecorderRegistry`: time passes, a process goes on, and one that is down is started
again, as a supervisor does; nothing is assumed of a ping that is due, nor that the
program is ever stopped.

## 4. What is proved

Every safety property and every action property of a passing run is a theorem, for all
values of the constants. None is inductive as it stands: each section says what has to be
added and why. The invariants were checked by TLC on the instances of section 3 first.

Assumptions: `ControllerAssumption` (finitely many tasks, so that they can be counted, and
`None` is none of them), `TaskAssumption`, `TranscoderAssumption`, `PipelineAssumption`,
`RegistryAssumption` and `SettingsAssumption` say of what kind the constants are. TLC evaluates them on the runs. Only
four theorems of `TranscoderProofs` assume more (`Favourable`).

`RecorderProofs`, for both kinds of session and without any bound. The invariant
`IInv` adds to the types: the flag `stopping` is set exactly when the closer has begun
(`CloseInv`, which also counts the hand-over by the closer's position); a field stays
assigned between the spawn of its watcher and the first close (`PanicInv`); START is
counted by the position of the chrome thread (`StartInv`); until the cleaner is through
a loaded sink has its id recorded, except for a `pactl` killed with its context and
while `Start` is about to record it (`SinkInv`). That the hand-over happens once rests on the flag, and that a panic needs a
close rests on who may reset a field.
From it follow `TypeCorrect`, `OneHandOver`, `SinkIsReleased`, `NoPanicBeforeClose` and
`ImplementsSession`: every initial state of `Recorder` is one of `RecorderSession`, and
every step is a step of it or a stutter.

`ControllerProofs`, for any tasks and recorders. A recorder is seen in four places: its
phase, the position of its `onAfterClose`, the map and the three sets of goroutines that
will call `Close`; the invariant ties them together. `PhaseInv`: `onAfterClose` runs inside
the hand-over. `EndInv` counts END and the job by its position, which is what makes
`EndsOnce` (`OneEndEach`) inductive. `MapInv`: the map holds a recorder under its own task
and until its Delete. `HandlerInv`: a stopper is only sent to a recorder that exists.
`ShutdownInv`: once the wait group is through, every recorder the shutdown closed has ended
and its file has a job; the connection is closed only after that, which is why
`ShutdownLosesNoJob` (`ShutdownHandsOver`) holds. `EarlyInv`: as long as no recorder was
started before the END of an older one of its task, a task has at most one recorder whose
END is outstanding, so the Delete by task id in `onAfterClose` meets its own entry or none.
This is the condition the code relies on without checking it; `RegisteredUnlessEarly`
(`RunningIsFound`) rests on it, and the run `controller_lost_recorder` is about what happens
without it. Two action properties follow: `MapKept` (`LeavesMapOnlyByClose`) and
`SessionsKept` (`SessionsAsPromised`: the recorders of the controller do nothing that
`RecorderSession` does not promise, and `ImplementsSession` shows that it is kept).

`ProgressProofs`, for any number of counts under way. `ProgressInv` says while `lone` holds:
at most one count is under way, and either somebody who has yet to count is on the way
(`CountOwed`) or the count under way, or the published one, is the size of the map. The
subtle case is a stopper sent to a recorder that has passed its Delete: it will change
nothing and owes no count (`Uncounted`).

`TranscoderProofs`, for any jobs, workers and bounds. `TypeCorrect` holds always. The rest
holds under `Favourable`: heartbeats arrive and no raw file has the name of its output. The
run `transcoder_in_place`, and `PipelineProofs` with its outages, are about the other cases.
`IInv` adds who holds a job (`WorkInv`), that a message waits only while deliveries
remain (`QueueInv`), and that the raw file, or the copy a worker reads together with the
original, stays until ffmpeg has ended well and the output is complete from then on
(`FileInv`). From it follow `NoRecordingLost`, `OneWorker` and `ReportsAreTrue`.
`ReportedOnce` needs a second invariant on top, `ReportInv`: while no
worker has crashed, a job has been reported once when it is acknowledged or about to be,
or its one report was lost, and no report was tried otherwise, and a job that is not acknowledged still has its source. Without the
latter a retried job could take the early return for a missing raw file.

`PipelineProofs`, with outages, crashes of both sides and retries. The invariant
`PipelineInv` reads the place of the file off the position of `onAfterClose` (`RecInv`),
says that a job in two hands is in `twice` (`HoldInv`), and what the two files of a job in
one pair of hands are at each position of its worker (`HandInv`); `ContentKept` is a
conjunct of it, since a worker that begins needs a complete file to begin with. The
workers' steps are those of `Transcoder`, so their types are taken from `TranscoderProofs`
(`Typed`). From it follow `PipelineTyped`, `ContentNeverLost`, `PublishedHasFile` and
`ImplementsLife`: every step of the recorder, the queue or a worker is a step of
`RecordingLife` or a stutter.

`RegistryProofs`, for any instances, configurations, interval and number of failures.
The invariant `IInv` adds to the types: only
a recorder is ever at a place where it registers, pings or purges (`RoleInv`); two active
instances are both disturbed (`AloneInv`); the fields an undisturbed instance has put are
its own in the bucket, and while nobody disturbs it the time in its entry is the last one it
has put (`EntryInv`). `AloneIsListed` is not inductive without `AloneInv`, since
what keeps other writers away is that they would be seen; `OnlyTheSilentAreTakenOver`
(`SilentBeforeTakenOver`) follows from `EntryInv`, which ties what the newcomer reads to
what the owner last did. `StopsLeaveNothing` speaks of the moment when all are down, and
`DebrisInv` of every moment before: a field that is there and is no debris is one that an
active instance still has to purge, though not always the one that wrote it
(`StopsClean`).

`SettingsProofs`, for every configuration file (`ConfigFiles`) and every list of urls. What
a loop computes is proved by induction over its rounds; since the library's induction
theorems take an operator, `InductionOnNat` states induction for a set of numbers and
derives it from the well-foundedness of `<`. For `normalizeNatsUrls` the induction carries
what has been kept after n entries: each url once, in the order of first mention, one
scheme, or a refusal exactly when some entry was bad or of another scheme
(`TakeUrlKeeps`, `RoundsKeep`). `UrlsNormalized` and `TransportDecided` follow, and that a second normalisation changes nothing
(`NormalizedAgain`), on which `DefaultsAreSettled` rests together with the migration of the
deprecated scripts. For the hook pools the induction says that a pool never shrinks and
that the scripts gone through so far have enough (`CategoryAdded`, `EnoughKept`); hence
`HooksAreReady`, in whatever order the categories share a script. Each of these four
theorems also states the invariant of the run `registry`, which is the same fact of the
members of `Configs` and of the lists up to `MaxUrls`.

For the provers' sake the alternatives of `LifeOf` and `TakeUrl` have disjoint guards, and
loops are recursive functions instead of folds; neither changes what they say.

Only model-checked: liveness, since TLAPS reaches neither fairness nor ENABLED. These are
`CloseEnds`, `NothingOutlivesClose`, `FailureIsReported`, `AckedStopEnds`,
`ClosedIsCleanedUp`, `ShutdownEnds`, `DeadIdIsFree`, and the liveness parts of `SessionSpec`
and `LifeSpec`.

## 5. What is not modelled

* The processes of hook scripts and the protocol with them (a library), the validation of
  their paths, and the content of their answers: an answer without `file_name`, say,
  empties the name of the file. A hook appears where it runs, as a step that may fail, and
  as what it may do to the files; the copies a hook makes for a merge do not.
* The notifier: one HTTP request of a library.
* An ffmpeg that survives its worker.
* A task of a kind the program does not know, which is acknowledged.
* The CPU gate of mode `both`.
* Wall clocks: ages in the registry are true ages, those of the code are differences
  between two hosts' clocks.
* Two recorders that use the same X display or sink name.
* The recovery of a partial rsync; a partial copy is nobody's file.
* retry-transcode for a job that is still in the queue; its flags.
* Command lines, file names, sizes, logging, construction by fx.

## 6. Plan

1. Done: the modules of section 2, and a theorem for every safety property of a passing run.
2. Proofs: the refinements across modules (that the controller with detailed recorders
   implements the controller with sessions is so far two separate facts, `ImplementsSession`
   and `SessionsKept`); safety facts that liveness rests on, such as which threads can hold
   the mutex of a recorder, and that what the shutdown waits for only shrinks; the theorems
   of `TranscoderProofs` job by job, so that an in-place job does not void them for the
   others.
3. Models: the CPU gate as a condition of the fetch, and two sessions that share a
   display.
