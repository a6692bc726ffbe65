-------------------------- MODULE RecordingPipeline --------------------------
(* From the end of a recording to its final file: the file handling of         *)
(* onAfterClose on the recorders' side, and the transcoding service, which      *)
(* share the storage and the job queue.                                         *)
EXTENDS Transcoder

CONSTANT TempDir    \* temporary_dir is set: the recorder writes there

ASSUME PipelineAssumption == TempDir \in BOOLEAN

VARIABLES
    rec,    \* rec[j]: where onAfterClose is with the recording of job j
    temp,   \* temp[j]: its file in the temporary directory exists
    twice   \* history: jobs that were in the hands of two workers at once

pipelineVars == <<vars, rec, temp, twice>>

\* The other jobs of the queue are asked for by plugNmeet.
Recorded == {j \in Jobs : Kind[j] \in {"single", "remote"}}

\* "move" .. "remove": moveFile; "none": not a job of a recorder.
RecStates == {"recording", "move", "copy", "remove", "stat", "hook", "publish",
              "published", "stranded", "none"}
Working   == {"move", "copy", "remove", "stat", "hook", "publish"}

PipelineTypeOK ==
    /\ msg \in [Jobs -> MsgStates \cup {"absent"}]
    /\ deliveries \in [Jobs -> 0..MaxDeliver] /\ crashes \in 0..MaxCrashes
    /\ rec \in [Jobs -> RecStates] /\ temp \in [Jobs -> BOOLEAN]
    /\ twice \subseteq Jobs
    /\ pc \in [Workers -> WorkerPcs] /\ job \in [Workers -> Jobs \cup {None}]
    /\ raw \in [Jobs -> BOOLEAN] /\ local \in [Workers -> BOOLEAN] /\ out \in [Jobs -> OutStates]

PipelineInit ==
    /\ rec  = [j \in Jobs |-> IF j \in Recorded THEN "recording" ELSE "none"]
    /\ msg  = [j \in Jobs |-> IF j \in Recorded THEN "absent" ELSE "queued"]
    /\ raw  = [j \in Jobs |-> j \notin Recorded]
    /\ temp = [j \in Jobs |-> FALSE] /\ local = [w \in Workers |-> FALSE]
    /\ twice = {}
    /\ deliveries = [j \in Jobs |-> 0]
    /\ pc = [w \in Workers |-> "idle"] /\ job = [w \in Workers |-> None]
    /\ out = [j \in Jobs |-> None]
    /\ proceeded = [j \in Jobs |-> 0] /\ reportLost = {}
    /\ finished = [j \in Jobs |-> None]
    /\ crashes = 0 /\ retries = [j \in Jobs |-> 0]

-----------------------------------------------------------------------------
(* onAfterClose and moveFile.  What they share with the workers is raw and msg. *)

RecGoto(j, from, to) == rec[j] = from /\ rec' = [rec EXCEPT ![j] = to]

Elsewhere == UNCHANGED <<deliveries, workers, local, out, told, bounds, twice>>

\* The session of a recording ends with a file that is not empty.
EndRecording(j) ==
    /\ RecGoto(j, "recording", IF TempDir THEN "move" ELSE "stat")
    /\ temp' = [temp EXCEPT ![j] = TempDir]
    /\ raw' = [raw EXCEPT ![j] = ~TempDir]
    /\ UNCHANGED msg /\ Elsewhere

\* os.Rename, or, when it fails, rsync.
MoveRename(j) ==
    /\ RecGoto(j, "move", "stat")
    /\ temp' = [temp EXCEPT ![j] = FALSE] /\ raw' = [raw EXCEPT ![j] = TRUE]
    /\ UNCHANGED msg /\ Elsewhere

MoveCopies(j) ==
    /\ RecGoto(j, "move", "copy")
    /\ UNCHANGED <<temp, raw, msg>> /\ Elsewhere

\* Mutant: the source is removed while it is copied.
CopyMoves(j) ==
    /\ RecGoto(j, "copy", "remove")
    /\ temp' = [temp EXCEPT ![j] = FALSE]
    /\ UNCHANGED <<raw, msg>> /\ Elsewhere

\* The file is complete at its destination before --remove-source-files applies.
CopyEnds(j) ==
    /\ RecGoto(j, "copy", "remove")
    /\ raw' = [raw EXCEPT ![j] = TRUE]
    /\ UNCHANGED <<temp, msg>> /\ Elsewhere

SourceRemoved(j) ==
    /\ RecGoto(j, "remove", "stat")
    /\ temp' = [temp EXCEPT ![j] = FALSE]
    /\ UNCHANGED <<raw, msg>> /\ Elsewhere

\* Mutant: a move that fails is only logged.
MoveFailsOn(j) ==
    /\ \E at \in {"move", "copy", "remove"} : RecGoto(j, at, "stat")
    /\ UNCHANGED <<temp, raw, msg>> /\ Elsewhere

\* The directory cannot be made, or rsync fails: "if we can't move the file, we
\* can't transcode it".  A partial copy (--partial) is nobody's file.
MoveFails(j) ==
    /\ \E at \in {"move", "copy", "remove"} : RecGoto(j, at, "stranded")
    /\ UNCHANGED <<temp, raw, msg>> /\ Elsewhere

StatRaw(j) ==
    /\ RecGoto(j, "stat", IF raw[j] THEN "hook" ELSE "stranded")
    /\ UNCHANGED <<temp, raw, msg>> /\ Elsewhere

\* Mutant: a hook that fails is run again.
PostRecordingHookAgain(j) ==
    /\ RecGoto(j, "hook", "publish") \/ RecGoto(j, "hook", "stat")
    /\ UNCHANGED <<temp, raw, msg>> /\ Elsewhere

\* The post_recording pipeline, which may put the file elsewhere and name the
\* place; there is none, it succeeds, or onAfterClose returns on its error.
PostRecordingHook(j) ==
    /\ RecGoto(j, "hook", "publish") \/ RecGoto(j, "hook", "stranded")
    /\ UNCHANGED <<temp, raw, msg>> /\ Elsewhere

PublishJob(j) ==
    /\ \/ /\ RecGoto(j, "publish", "published")
          /\ msg' = [msg EXCEPT ![j] = "queued"]
       \/ /\ RecGoto(j, "publish", "stranded")
          /\ UNCHANGED msg
    /\ UNCHANGED <<temp, raw>> /\ Elsewhere

\* The recorder's process dies, or its stop times out, in the middle.
RecorderCrashes(j) ==
    /\ crashes < MaxCrashes /\ crashes' = crashes + 1
    /\ \E at \in Working : RecGoto(j, at, "stranded")
    /\ UNCHANGED <<temp, raw, msg, deliveries, workers, local, out, told, retries, twice>>

RecStep(j) ==
    \/ MoveRename(j) \/ MoveCopies(j) \/ CopyEnds(j) \/ SourceRemoved(j) \/ MoveFails(j)
    \/ StatRaw(j) \/ PostRecordingHook(j) \/ PublishJob(j)

-----------------------------------------------------------------------------
(* The transcoding side, as in Transcoder *)

InTwoHands(j) == \E w, x \in Workers : w # x /\ job[w] = j /\ job[x] = j

Transcoding(A) ==
    /\ A
    /\ UNCHANGED <<rec, temp>>
    /\ twice' = twice \cup {j \in Jobs : InTwoHands(j)'}

AllStopped == \A w \in Workers : pc[w] = "stopped"

Done ==
    /\ \A j \in Jobs : Settled(j) \/ rec[j] = "stranded"
                          \/ AllStopped
    /\ \A j \in Jobs : rec[j] \in {"published", "stranded", "none"}
    /\ \A w \in Workers : pc[w] \in {"idle", "stopped"}
    /\ UNCHANGED pipelineVars

PipelineNext ==
    \/ \E j \in Jobs : EndRecording(j) \/ RecStep(j) \/ RecorderCrashes(j)
    \/ \E w \in Workers : Transcoding(Fetch(w) \/ WorkerStep(w) \/ Crash(w))
    \/ \E j \in Jobs : Transcoding(AckWaitExpires(j) \/ RetryTranscode(j))
    \/ Done

\* onAfterClose goes on; workers and queue as in Transcoder.
PipelineFairness ==
    /\ \A j \in Jobs : WF_pipelineVars(RecStep(j))
    /\ \A w \in Workers : /\ WF_pipelineVars(Transcoding(Fetch(w)))
                          /\ WF_pipelineVars(Transcoding(WorkerStep(w)))
    /\ \A j \in Jobs :
          WF_pipelineVars(HeldBy(j) = {} /\ Transcoding(AckWaitExpires(j)))

PipelineSpec == PipelineInit /\ [][PipelineNext]_pipelineVars /\ PipelineFairness

-----------------------------------------------------------------------------
(* Properties *)

\* From the end of a session on its content is in one complete file: temporary,
\* raw or final.  A move that is cut short, an error of the hook or of a publish
\* and crashes of either side do not lose it; only a job in two hands can.
ContentKept ==
    \A j \in Recorded \ twice :
        rec[j] # "recording" => temp[j] \/ raw[j] \/ out[j] = "whole"

\* A job is published only when the file it names is there and the temporary one
\* is gone.
PublishedIsThere ==
    [][\A j \in Recorded : msg[j] = "absent" /\ msg'[j] # "absent"
                              => raw[j] /\ ~temp[j]]_pipelineVars

\* The life of a job that was published and not reported yet.
JobLife(j) ==
    CASE msg[j] = "dropped" -> "dropped"
      [] msg[j] = "acked"   -> "forgotten"
      [] msg[j] \notin {"dropped", "acked"} ->
             IF AllStopped THEN "stalled" ELSE "queued"

LifeOf(j) ==
    CASE rec[j] = "recording" -> "recording"
      [] rec[j] \in Working   -> "saved"
      [] rec[j] = "stranded"  -> "stranded"
      [] rec[j] = "published" ->
             IF proceeded[j] > 0 THEN "reported" ELSE JobLife(j)

Life == INSTANCE RecordingLife
            WITH Recordings <- Recorded, life <- [j \in Recorded |-> LifeOf(j)]

\* Every recording goes through the life the program promises, and on: what is
\* saved is published or stranded, and a job somebody works on leaves the queue,
\* although workers crash, heartbeats and answers are lost and a job runs twice.
LifeSpec == Life!Spec
=============================================================================
