------------------------------ MODULE Transcoder ------------------------------
(* pkg/controllers, the transcoding side: workers take jobs from a JetStream   *)
(* work queue, one at a time, and turn raw recordings into final files on a    *)
(* storage they share.                                                         *)
(*                                                                             *)
(* External, modelled as the code uses it: the queue (at least once: what is   *)
(* not acknowledged within AckWait is delivered again, MaxDeliver times at     *)
(* most, then dropped), ffmpeg, the hooks, the file system.  A worker that is  *)
(* shut down while it works looks like a crash from the queue: its connection  *)
(* is closed before its context is cancelled, so no answer leaves it.  A worker *)
(* that dies takes its ffmpeg with it, as when its container or machine does.  *)
EXTENDS Naturals, FiniteSets

CONSTANTS
    Jobs, Workers,
    Kind,           \* Kind[j]: what the job asks for, see Kinds
    PostMp4Convert, \* PostMp4Convert[w]: its config, transcode or rename only
    MaxDeliver,     \* deliveries of one message
    MaxCrashes,     \* bound: crashes of workers
    MaxRetries,     \* bound: uses of retry-transcode per job
    Outages         \* NATS may be out of a worker's reach longer than AckWait

\* "single": a post recording job whose raw file has its own name; "remote": one
\* whose raw file the pre_transcoding hook copies to the worker's own disk;
\* "inPlace": one whose raw file already has the name of the output
\* (retry-transcode); "merge": a merge job; "bad": a message that cannot be
\* unmarshalled.
Kinds == {"single", "remote", "inPlace", "merge", "bad"}

None == "none"

ASSUME TranscoderAssumption ==
    /\ None \notin Jobs
    /\ Kind \in [Jobs -> Kinds]
    /\ PostMp4Convert \in [Workers -> BOOLEAN] /\ Outages \in BOOLEAN
    /\ MaxDeliver \in Nat \ {0} /\ MaxCrashes \in Nat /\ MaxRetries \in Nat

VARIABLES
    \* --- the queue ---
    msg,        \* msg[j]: the state of the job's message
    deliveries, \* deliveries[j]
    \* --- workers ---
    pc, job,    \* pc[w], and the job w works on
    \* --- the storage ---
    raw,        \* raw[j]: the raw file exists
    local,      \* local[w]: w has a copy of the raw file of its job; what an
                \* earlier job left behind is written over and does not count
    out,        \* out[j]: the file at the output path
    \* --- what plugNmeet is told ---
    proceeded,  \* proceeded[j]: RECORDING_PROCEEDED notifications that arrived
    reportLost, \* history: jobs with a report that never arrived
    finished,   \* finished[j]: the status in the last TRANSCODING_FINISHED sent
    \* --- bounds ---
    crashes, retries

queue   == <<msg, deliveries>>
workers == <<pc, job>>
files   == <<raw, local, out>>
told    == <<proceeded, reportLost, finished>>
bounds  == <<crashes, retries>>
vars    == <<queue, workers, files, told, bounds>>

MsgStates == {"queued", "delivered", "acked", "dropped"}
WorkerPcs == {"idle", "start", "ffmpeg", "removeRaw", "stat", "report", "ack",
              "nak", "stopped"}

\* "garbled": two ffmpeg wrote it at the same time.
OutStates == {None, "partial", "garbled", "whole"}

TypeOK ==
    /\ msg \in [Jobs -> MsgStates] /\ deliveries \in [Jobs -> 0..MaxDeliver]
    /\ pc \in [Workers -> WorkerPcs] /\ job \in [Workers -> Jobs \cup {None}]
    /\ raw \in [Jobs -> BOOLEAN] /\ local \in [Workers -> BOOLEAN]
    /\ out \in [Jobs -> OutStates]
    /\ proceeded \in [Jobs -> Nat] /\ reportLost \subseteq Jobs
    /\ finished \in [Jobs -> {None, "success", "failure"}]
    /\ crashes \in 0..MaxCrashes /\ retries \in [Jobs -> 0..MaxRetries]

\* Every job was just published.  The recording an "inPlace" job names is the
\* file at its output path.
Init ==
    /\ msg = [j \in Jobs |-> "queued"] /\ deliveries = [j \in Jobs |-> 0]
    /\ pc = [w \in Workers |-> "idle"] /\ job = [w \in Workers |-> None]
    /\ raw = [j \in Jobs |-> Kind[j] # "inPlace"]
    /\ local = [w \in Workers |-> FALSE]
    /\ out = [j \in Jobs |-> IF Kind[j] = "inPlace" THEN "whole" ELSE None]
    /\ proceeded = [j \in Jobs |-> 0] /\ reportLost = {}
    /\ finished = [j \in Jobs |-> None]
    /\ crashes = 0 /\ retries = [j \in Jobs |-> 0]

-----------------------------------------------------------------------------
(* The queue *)

\* Mutant: there is no limit.
RequeuedAlways(j) == "queued"

\* A message given back: queued again while deliveries remain.
Requeued(j) == IF deliveries[j] < MaxDeliver THEN "queued" ELSE "dropped"

HeldBy(j) == {w \in Workers : job[w] = j}

\* Nak, which counts only while the message is out.
Nak(j) == msg' = IF msg[j] = "delivered" THEN [msg EXCEPT ![j] = Requeued(j)] ELSE msg

\* Mutant: the heartbeats stop before the work does.
AckWaitExpiresHeld(j) ==
    /\ msg[j] = "delivered"
    /\ msg' = [msg EXCEPT ![j] = Requeued(j)]
    /\ UNCHANGED <<deliveries, workers, files, told, bounds>>

\* AckWait passes: the worker that held the job is gone, or it works on while
\* its heartbeats do not reach the server.
AckWaitExpires(j) ==
    /\ msg[j] = "delivered"
    /\ HeldBy(j) = {} \/ Outages
    /\ msg' = [msg EXCEPT ![j] = Requeued(j)]
    /\ UNCHANGED <<deliveries, workers, files, told, bounds>>

\* retry-transcode publishes the post recording task of a dropped job again.
RetryTranscode(j) ==
    /\ Kind[j] \in {"single", "remote", "inPlace"}
    /\ msg[j] = "dropped" /\ retries[j] < MaxRetries
    /\ msg' = [msg EXCEPT ![j] = "queued"]
    /\ deliveries' = [deliveries EXCEPT ![j] = 0]
    /\ retries' = [retries EXCEPT ![j] = @ + 1]
    /\ UNCHANGED <<workers, files, told, crashes>>

-----------------------------------------------------------------------------
(* A worker: startTranscodingService *)

Goto(w, to) == pc' = [pc EXCEPT ![w] = to]

Fetch(w) ==
    /\ pc[w] = "idle"
    /\ \E j \in Jobs :
          /\ msg[j] = "queued"
          /\ msg' = [msg EXCEPT ![j] = "delivered"]
          /\ deliveries' = [deliveries EXCEPT ![j] = @ + 1]
          /\ job' = [job EXCEPT ![w] = j]
    /\ Goto(w, "start")
    /\ UNCHANGED <<files, told, bounds>>

\* The message cannot be unmarshalled: it is given back and the service returns
\* from its loop, for good.
StopOnBadMessage(w) ==
    /\ pc[w] = "start" /\ Kind[job[w]] = "bad"
    /\ Nak(job[w]) \/ (Outages /\ UNCHANGED msg)
    /\ Goto(w, "stopped")
    /\ job' = [job EXCEPT ![w] = None]
    /\ UNCHANGED <<deliveries, files, told, bounds>>

-----------------------------------------------------------------------------
(* handlePostRecordingTranscoding and handleMergeRecordings *)

\* Something fails before ffmpeg: the pre transcoding hook, the arguments, the
\* output directory or the file list of a merge.
PrepareFails(w) ==
    /\ pc[w] = "start" /\ Kind[job[w]] # "bad"
    /\ Goto(w, "nak")
    /\ UNCHANGED <<queue, job, files, told, bounds>>

\* The pre_transcoding hook copies the raw file and names the copy.
FetchRaw(w) ==
    /\ pc[w] = "start" /\ Kind[job[w]] = "remote" /\ ~local[w] /\ raw[job[w]]
    /\ local' = [local EXCEPT ![w] = TRUE]
    /\ UNCHANGED <<queue, workers, raw, out, told, bounds>>

SourceExists(w) ==
    CASE Kind[job[w]] = "inPlace" -> out[job[w]] # None
      [] Kind[job[w]] = "remote"  -> local[w]
      [] OTHER                    -> raw[job[w]]

\* The raw file is not there: "a permanent error", so the job is acknowledged.
\* A merge returns the error, and the job is given back; a hook that finds no
\* file fails.
SourceMissing(w) ==
    /\ pc[w] = "start" /\ Kind[job[w]] \notin {"remote", "bad"} /\ ~SourceExists(w)
    /\ Goto(w, IF Kind[job[w]] = "merge" THEN "nak" ELSE "ack")
    /\ UNCHANGED <<queue, job, files, told, bounds>>

UsesFfmpeg(w) == Kind[job[w]] = "merge" \/ PostMp4Convert[w]

\* ffmpeg opens its output.  A post recording job overwrites (-y); another
\* ffmpeg on the same file is still writing it.
OpenOutput(w) ==
    LET j == job[w] IN
    /\ pc[w] = "start" /\ Kind[j] # "bad" /\ SourceExists(w) /\ UsesFfmpeg(w)
    /\ Kind[j] \in {"single", "remote"} \/ (Kind[j] = "merge" /\ out[j] = None)
    /\ out' = [out EXCEPT ![j] =
                  IF \E x \in Workers \ {w} : job[x] = j /\ pc[x] = "ffmpeg"
                  THEN "garbled" ELSE "partial"]
    /\ Goto(w, "ffmpeg")
    /\ UNCHANGED <<queue, job, raw, local, told, bounds>>

\* ffmpeg refuses: the input is the output, or a merge (no -y) finds a file
\* there.  os.Remove(outputFile) follows, as for every error of ffmpeg.
RefuseOutput(w) ==
    LET j == job[w] IN
    /\ pc[w] = "start" /\ SourceExists(w) /\ UsesFfmpeg(w)
    /\ Kind[j] = "inPlace" \/ (Kind[j] = "merge" /\ out[j] # None)
    /\ out' = [out EXCEPT ![j] = None]
    /\ Goto(w, "nak")
    /\ UNCHANGED <<queue, job, raw, local, told, bounds>>

\* Mutant: the exit status is not looked at.
FfmpegFailsUnnoticed(w) ==
    /\ pc[w] = "ffmpeg"
    /\ Goto(w, IF Kind[job[w]] = "merge" THEN "stat" ELSE "removeRaw")
    /\ UNCHANGED <<queue, job, files, told, bounds>>

\* ffmpeg fails, the output is removed and the job given back.
FfmpegFails(w) ==
    /\ pc[w] = "ffmpeg"
    /\ out' = [out EXCEPT ![job[w]] = None]
    /\ Goto(w, "nak")
    /\ UNCHANGED <<queue, job, raw, local, told, bounds>>

\* ffmpeg ends well.  What it wrote is at the output path unless somebody
\* removed or overwrote it.
FfmpegSucceeds(w) ==
    LET j == job[w] IN
    /\ pc[w] = "ffmpeg"
    /\ out' = [out EXCEPT ![j] = IF @ = "partial" THEN "whole" ELSE @]
    /\ Goto(w, IF Kind[j] = "merge" THEN "stat" ELSE "removeRaw")
    /\ UNCHANGED <<queue, job, raw, local, told, bounds>>

\* os.Remove of the raw file, or of the copy; an error is only logged.
RemoveRaw(w) ==
    LET j == job[w] IN
    /\ pc[w] = "removeRaw"
    /\ IF Kind[j] = "remote"
       THEN local' \in {local, [local EXCEPT ![w] = FALSE]} /\ UNCHANGED raw
       ELSE raw' \in {raw, [raw EXCEPT ![j] = FALSE]} /\ UNCHANGED local
    /\ Goto(w, "stat")
    /\ UNCHANGED <<queue, job, out, told, bounds>>

\* PostMp4Convert is off: the raw file, or the copy, becomes the output.
RenameRaw(w) ==
    LET j == job[w] IN
    /\ pc[w] = "start" /\ Kind[j] \in {"single", "remote", "inPlace"}
    /\ SourceExists(w) /\ ~UsesFfmpeg(w)
    /\ \/ /\ Goto(w, "stat")
          /\ out' = [out EXCEPT ![j] = IF Kind[j] = "inPlace" THEN @ ELSE "whole"]
          /\ raw' = [raw EXCEPT ![j] = @ /\ Kind[j] # "single"]
          /\ local' = [local EXCEPT ![w] = FALSE]
       \/ Goto(w, "nak") /\ UNCHANGED files
    /\ UNCHANGED <<queue, job, told, bounds>>

StatOutput(w) ==
    /\ pc[w] = "stat"
    /\ Goto(w, IF out[job[w]] = None THEN "nak" ELSE "report")
    /\ UNCHANGED <<queue, job, files, told, bounds>>

\* The post_transcoding hook removes the original, source_for_cleanup, before
\* plugNmeet is notified; it need not, and its error is only logged.
RemoveOriginal(w) ==
    LET j == job[w] IN
    /\ pc[w] = "report" /\ Kind[j] = "remote" /\ raw[j]
    /\ raw' = [raw EXCEPT ![j] = FALSE]
    /\ UNCHANGED <<queue, workers, local, out, told, bounds>>

\* The report arrives, whatever becomes of its answer, or it never does: no
\* absolute path is found and nothing is sent, or the request fails.  An error is
\* logged and nothing else: the handler returns nil and the job is acknowledged.
ReportProceeded(w) ==
    /\ pc[w] = "report"
    /\ \/ /\ proceeded' = [proceeded EXCEPT ![job[w]] = @ + 1]
          /\ UNCHANGED reportLost
       \/ /\ reportLost' = reportLost \cup {job[w]}
          /\ UNCHANGED proceeded
    /\ Goto(w, "ack")
    /\ UNCHANGED <<queue, job, files, finished, bounds>>

-----------------------------------------------------------------------------
(* The answer to the queue, after the heartbeat has stopped *)

\* Mutant: the message is acknowledged whatever became of the job.
SettleAcks(w) ==
    LET j == job[w] IN
    /\ pc[w] \in {"ack", "nak"}
    /\ msg' = [msg EXCEPT ![j] = IF @ = "dropped" THEN @ ELSE "acked"]
    /\ finished' = [finished EXCEPT ![j] = IF pc[w] = "ack" THEN "success"
                                                            ELSE "failure"]
    /\ Goto(w, "idle")
    /\ job' = [job EXCEPT ![w] = None] /\ local' = [local EXCEPT ![w] = FALSE]
    /\ UNCHANGED <<deliveries, raw, out, proceeded, reportLost, bounds>>

\* The copy is removed (ShouldCleanup), then Ack or Nak, then
\* TRANSCODING_FINISHED.  In an outage the answer is lost.  An
\* Ack counts even after the message was queued again.
Settle(w) ==
    LET j == job[w] IN
    /\ pc[w] \in {"ack", "nak"}
    /\ \/ /\ pc[w] = "ack"
          /\ msg' = [msg EXCEPT ![j] = IF @ = "dropped" THEN @ ELSE "acked"]
       \/ /\ pc[w] = "nak"
          /\ Nak(j)
       \/ Outages /\ UNCHANGED msg
    /\ finished' = [finished EXCEPT ![j] = IF pc[w] = "ack" THEN "success"
                                                            ELSE "failure"]
    /\ Goto(w, "idle")
    /\ job' = [job EXCEPT ![w] = None] /\ local' = [local EXCEPT ![w] = FALSE]
    /\ UNCHANGED <<deliveries, raw, out, proceeded, reportLost, bounds>>

\* The process dies, or is stopped, and comes up again.  A stop that ends ffmpeg
\* lets the handler remove the output, a crash does not.
Crash(w) ==
    /\ crashes < MaxCrashes /\ pc[w] # "idle"
    /\ \/ UNCHANGED out
       \/ pc[w] = "ffmpeg" /\ out' = [out EXCEPT ![job[w]] = None]
    /\ crashes' = crashes + 1
    /\ Goto(w, "idle")
    /\ job' = [job EXCEPT ![w] = None] /\ local' = [local EXCEPT ![w] = FALSE]
    /\ UNCHANGED <<queue, raw, told, retries>>

-----------------------------------------------------------------------------

WorkerStep(w) ==
    \/ StopOnBadMessage(w) \/ PrepareFails(w) \/ FetchRaw(w) \/ SourceMissing(w)
    \/ OpenOutput(w) \/ RefuseOutput(w) \/ FfmpegFails(w) \/ FfmpegSucceeds(w)
    \/ RemoveRaw(w) \/ RenameRaw(w) \/ StatOutput(w)
    \/ RemoveOriginal(w) \/ ReportProceeded(w) \/ Settle(w)

Settled(j) == msg[j] \in {"acked", "dropped"}

Terminated ==
    /\ \/ \A j \in Jobs : Settled(j)
       \/ \A w \in Workers : pc[w] = "stopped"
    /\ \A w \in Workers : pc[w] \in {"idle", "stopped"}
    /\ UNCHANGED vars

Next ==
    \/ \E w \in Workers : Fetch(w) \/ WorkerStep(w) \/ Crash(w)
    \/ \E j \in Jobs : AckWaitExpires(j) \/ RetryTranscode(j)
    \/ Terminated

Spec == Init /\ [][Next]_vars

-----------------------------------------------------------------------------
(* Properties *)

\* Through crashes, failures and redeliveries the content of a recording is
\* somewhere: the raw file is there or the output is complete.  It needs
\* heartbeats that arrive and a raw file with a name of its own.
RecordingNeverLost ==
    \A j \in Jobs : Kind[j] # "bad" => raw[j] \/ out[j] = "whole"

\* RECORDING_PROCEEDED is only sent while the complete file is at the path it
\* names.
ReportedHasFile ==
    [][\A j \in Jobs : proceeded'[j] > proceeded[j] => out[j] = "whole"]_vars

\* While heartbeats arrive, a job is worked on by one worker at a time and its
\* message is out for that worker: nobody else writes or removes its files.
OneWorkerPerJob ==
    \A w \in Workers : job[w] # None =>
        /\ msg[job[w]] = "delivered"
        /\ HeldBy(job[w]) = {w}

\* Unless a worker crashed, plugNmeet heard exactly once of an acknowledged job,
\* unless that one report was lost, which nobody sends again.  The report of a
\* dropped job was never even tried.
AckedIsReportedOnce ==
    crashes = 0 => \A j \in Jobs :
        /\ msg[j] = "acked" =>
              proceeded[j] = 1 \/ (proceeded[j] = 0 /\ j \in reportLost)
        /\ msg[j] = "dropped" => proceeded[j] = 0 /\ j \notin reportLost

(* What the repository says and the code does not do *)

\* README.md:86 "guaranteeing that all recordings are eventually processed": a
\* job that leaves the queue as done was reported, or its report was lost.
AckedIsReported ==
    \A j \in Jobs : msg[j] = "acked" => proceeded[j] > 0 \/ j \in reportLost
=============================================================================
