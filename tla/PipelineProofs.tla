--------------------------- MODULE PipelineProofs ---------------------------
(* What the whole way of a recording guarantees for any number of recordings,  *)
(* jobs and workers, with outages, crashes of both sides and retries; and the   *)
(* safety part of the refinement of RecordingLife.                              *)
EXTENDS RecordingPipeline, TranscoderProofs

PipelineStates == MsgStates \cup {"absent"}

PipelineTypeInv ==
    /\ Typed(PipelineStates) /\ QueueInv /\ BusyInv
    /\ rec \in [Jobs -> RecStates] /\ temp \in [Jobs -> BOOLEAN]
    /\ twice \subseteq Jobs

\* A recording has a message from its publish on, and is not reported before;
\* until then the position of onAfterClose tells where its file is.
RecInv ==
    \A j \in Jobs :
        /\ rec[j] = "none" <=> j \notin Recorded
        /\ msg[j] = "absent" <=> rec[j] \notin {"none", "published"}
        /\ rec[j] \notin {"none", "published"} =>
              proceeded[j] = 0 /\ deliveries[j] = 0
        /\ rec[j] \in {"move", "copy"} => temp[j]
        /\ rec[j] = "remove" => raw[j]
        /\ rec[j] \in {"stat", "hook", "publish"} => raw[j] /\ ~temp[j]

\* A worker has a job that was published, and nobody else has it unless the
\* history says so.
HoldInv ==
    /\ \A w \in Workers : job[w] # None => msg[job[w]] # "absent"
    /\ \A w, x \in Workers :
          job[w] # None /\ job[w] = job[x] /\ w # x => job[w] \in twice

\* In a single pair of hands the raw file stays until ffmpeg has ended well, and
\* from then on the output is complete.
HandInv ==
    \A w \in Workers :
        /\ pc[w] = "idle" => ~local[w]
        /\ job[w] \in Recorded \ twice =>
              /\ pc[w] = "ffmpeg" => raw[job[w]] /\ out[job[w]] = "partial"
              /\ pc[w] \in {"removeRaw", "stat", "report"} => out[job[w]] = "whole"
              /\ pc[w] = "start" /\ local[w] => raw[job[w]]

PipelineInv == /\ PipelineTypeInv /\ RecInv /\ HoldInv
               /\ HandInv /\ ContentKept

-----------------------------------------------------------------------------

\* The initial states satisfy the invariant.
LEMMA PipelineInitInv == PipelineInit => PipelineInv
<1> SUFFICES ASSUME PipelineInit PROVE PipelineInv
  OBVIOUS
<1> USE TranscoderAssumption DEF PipelineInit
<1>1. Typed(PipelineStates)
  <2>1. msg \in [Jobs -> PipelineStates] /\ deliveries \in [Jobs -> 0..MaxDeliver]
    BY DEF PipelineStates, MsgStates
  <2>2. pc \in [Workers -> WorkerPcs] /\ job \in [Workers -> Jobs \cup {None}]
    BY DEF WorkerPcs
  <2>3. raw \in [Jobs -> BOOLEAN] /\ local \in [Workers -> BOOLEAN]
    OBVIOUS
  <2>4. out \in [Jobs -> OutStates]
    BY DEF OutStates
  <2>5. /\ proceeded \in [Jobs -> Nat]
        /\ finished \in [Jobs -> {None, "success", "failure"}]
    OBVIOUS
  <2>6. crashes \in 0..MaxCrashes /\ retries \in [Jobs -> 0..MaxRetries]
    OBVIOUS
  <2> QED BY <2>1, <2>2, <2>3, <2>4, <2>5, <2>6 DEF Typed
<1>2. QueueInv /\ BusyInv
  BY DEF QueueInv, BusyInv
<1>3. /\ rec \in [Jobs -> RecStates] /\ temp \in [Jobs -> BOOLEAN]
      /\ twice \subseteq Jobs
  BY DEF RecStates
<1>4. RecInv
  BY DEF RecInv
<1>5. HoldInv /\ HandInv
  BY DEF HoldInv, HandInv, Recorded
<1>6. ContentKept
  BY DEF ContentKept, Recorded
<1> QED BY <1>1, <1>2, <1>3, <1>4, <1>5, <1>6 DEF PipelineInv, PipelineTypeInv

\* onAfterClose keeps the invariant: the workers do not see a recording before
\* it is published.
LEMMA RecStepInv ==
  ASSUME PipelineInv, NEW j \in Jobs, EndRecording(j) \/ RecStep(j) \/ RecorderCrashes(j)
  PROVE  PipelineInv'
<1> USE TranscoderAssumption, PipelineAssumption DEF PipelineInv, RecGoto, Elsewhere,
      workers, told, bounds
<1>1. CASE EndRecording(j)
  <2>1. PipelineTypeInv'
    BY <1>1 DEF EndRecording, PipelineTypeInv, Typed, PipelineStates, MsgStates, QueueInv,
       BusyInv, RecInv, RecStates
  <2>2. RecInv'
    BY <1>1 DEF EndRecording, PipelineTypeInv, Typed, RecInv
  <2>3. HoldInv' /\ HandInv'
    BY <1>1 DEF EndRecording, PipelineTypeInv, Typed, RecInv, HoldInv, HandInv, Recorded
  <2>4. ContentKept'
    BY <1>1 DEF EndRecording, PipelineTypeInv, Typed, RecInv, ContentKept, Recorded
  <2> QED BY <2>1, <2>2, <2>3, <2>4
<1>2. CASE MoveRename(j)
  <2>1. PipelineTypeInv'
    BY <1>2 DEF MoveRename, PipelineTypeInv, Typed, PipelineStates, MsgStates, QueueInv,
       BusyInv, RecInv, RecStates
  <2>2. RecInv'
    BY <1>2 DEF MoveRename, PipelineTypeInv, Typed, RecInv
  <2>3. HoldInv' /\ HandInv'
    BY <1>2 DEF MoveRename, PipelineTypeInv, Typed, RecInv, HoldInv, HandInv, Recorded
  <2>4. ContentKept'
    BY <1>2 DEF MoveRename, PipelineTypeInv, Typed, RecInv, ContentKept, Recorded
  <2> QED BY <2>1, <2>2, <2>3, <2>4
<1>3. CASE MoveCopies(j)
  <2>1. PipelineTypeInv'
    BY <1>3 DEF MoveCopies, PipelineTypeInv, Typed, PipelineStates, MsgStates, QueueInv,
       BusyInv, RecInv, RecStates
  <2>2. RecInv'
    BY <1>3 DEF MoveCopies, PipelineTypeInv, Typed, RecInv
  <2>3. HoldInv' /\ HandInv'
    BY <1>3 DEF MoveCopies, PipelineTypeInv, Typed, RecInv, HoldInv, HandInv, Recorded
  <2>4. ContentKept'
    BY <1>3 DEF MoveCopies, PipelineTypeInv, Typed, RecInv, ContentKept, Recorded
  <2> QED BY <2>1, <2>2, <2>3, <2>4
<1>4. CASE CopyEnds(j)
  <2>1. PipelineTypeInv'
    BY <1>4 DEF CopyEnds, PipelineTypeInv, Typed, PipelineStates, MsgStates, QueueInv,
       BusyInv, RecInv, RecStates
  <2>2. RecInv'
    BY <1>4 DEF CopyEnds, PipelineTypeInv, Typed, RecInv
  <2>3. HoldInv' /\ HandInv'
    BY <1>4 DEF CopyEnds, PipelineTypeInv, Typed, RecInv, HoldInv, HandInv, Recorded
  <2>4. ContentKept'
    BY <1>4 DEF CopyEnds, PipelineTypeInv, Typed, RecInv, ContentKept, Recorded
  <2> QED BY <2>1, <2>2, <2>3, <2>4
<1>5. CASE SourceRemoved(j)
  <2>1. PipelineTypeInv'
    BY <1>5 DEF SourceRemoved, PipelineTypeInv, Typed, PipelineStates, MsgStates, QueueInv,
       BusyInv, RecInv, RecStates
  <2>2. RecInv'
    BY <1>5 DEF SourceRemoved, PipelineTypeInv, Typed, RecInv
  <2>3. HoldInv' /\ HandInv'
    BY <1>5 DEF SourceRemoved, PipelineTypeInv, Typed, RecInv, HoldInv, HandInv, Recorded
  <2>4. ContentKept'
    BY <1>5 DEF SourceRemoved, PipelineTypeInv, Typed, RecInv, ContentKept, Recorded
  <2> QED BY <2>1, <2>2, <2>3, <2>4
<1>6. CASE MoveFails(j)
  <2>1. PipelineTypeInv'
    BY <1>6 DEF MoveFails, PipelineTypeInv, Typed, PipelineStates, MsgStates, QueueInv,
       BusyInv, RecInv, RecStates
  <2>2. RecInv'
    BY <1>6 DEF MoveFails, PipelineTypeInv, Typed, RecInv
  <2>3. HoldInv' /\ HandInv'
    BY <1>6 DEF MoveFails, PipelineTypeInv, Typed, RecInv, HoldInv, HandInv, Recorded
  <2>4. ContentKept'
    BY <1>6 DEF MoveFails, PipelineTypeInv, Typed, RecInv, ContentKept, Recorded
  <2> QED BY <2>1, <2>2, <2>3, <2>4
<1>7. CASE StatRaw(j)
  <2>1. PipelineTypeInv'
    BY <1>7 DEF StatRaw, PipelineTypeInv, Typed, PipelineStates, MsgStates, QueueInv,
       BusyInv, RecInv, RecStates
  <2>2. RecInv'
    BY <1>7 DEF StatRaw, PipelineTypeInv, Typed, RecInv
  <2>3. HoldInv' /\ HandInv'
    BY <1>7 DEF StatRaw, PipelineTypeInv, Typed, RecInv, HoldInv, HandInv, Recorded
  <2>4. ContentKept'
    BY <1>7 DEF StatRaw, PipelineTypeInv, Typed, RecInv, ContentKept, Recorded
  <2> QED BY <2>1, <2>2, <2>3, <2>4
<1>8. CASE PostRecordingHook(j)
  <2>1. PipelineTypeInv'
    BY <1>8 DEF PostRecordingHook, PipelineTypeInv, Typed, PipelineStates, MsgStates, QueueInv,
       BusyInv, RecInv, RecStates
  <2>2. RecInv'
    BY <1>8 DEF PostRecordingHook, PipelineTypeInv, Typed, RecInv
  <2>3. HoldInv' /\ HandInv'
    BY <1>8 DEF PostRecordingHook, PipelineTypeInv, Typed, RecInv, HoldInv, HandInv, Recorded
  <2>4. ContentKept'
    BY <1>8 DEF PostRecordingHook, PipelineTypeInv, Typed, RecInv, ContentKept, Recorded
  <2> QED BY <2>1, <2>2, <2>3, <2>4
<1>9. CASE PublishJob(j)
  <2>1. PipelineTypeInv'
    BY <1>9 DEF PublishJob, PipelineTypeInv, Typed, PipelineStates, MsgStates, QueueInv,
       BusyInv, RecInv, RecStates
  <2>2. RecInv'
    BY <1>9 DEF PublishJob, PipelineTypeInv, Typed, RecInv
  <2>3. HoldInv' /\ HandInv'
    BY <1>9 DEF PublishJob, PipelineTypeInv, Typed, RecInv, HoldInv, HandInv, Recorded
  <2>4. ContentKept'
    BY <1>9 DEF PublishJob, PipelineTypeInv, Typed, RecInv, ContentKept, Recorded
  <2> QED BY <2>1, <2>2, <2>3, <2>4
<1>10. CASE RecorderCrashes(j)
  <2>1. PipelineTypeInv'
    BY <1>10 DEF RecorderCrashes, PipelineTypeInv, Typed, PipelineStates, MsgStates, QueueInv,
       BusyInv, RecInv, RecStates, Working
  <2>2. RecInv'
    BY <1>10 DEF RecorderCrashes, PipelineTypeInv, Typed, RecInv, Working
  <2>3. HoldInv' /\ HandInv'
    BY <1>10 DEF RecorderCrashes, PipelineTypeInv, Typed, RecInv, HoldInv, HandInv,
       Recorded, Working
  <2>4. ContentKept'
    BY <1>10 DEF RecorderCrashes, PipelineTypeInv, Typed, RecInv, ContentKept, Recorded, Working
  <2> QED BY <2>1, <2>2, <2>3, <2>4
<1> QED BY <1>1, <1>2, <1>3, <1>4, <1>5, <1>6, <1>7, <1>8, <1>9, <1>10 DEF RecStep

\* What the workers do: the types, the history and onAfterClose.
LEMMA WorkerTypes ==
  ASSUME PipelineInv, Transcoding(TranscoderStep)
  PROVE  /\ PipelineTypeInv' /\ UNCHANGED <<rec, temp>>
         /\ twice \subseteq twice'
         /\ \A w, x \in Workers : job'[w] # None /\ job'[w] = job'[x] /\ w # x =>
               job'[w] \in twice'
<1>1. Typed(PipelineStates)' /\ QueueInv' /\ BusyInv'
  BY TypedStep DEF Transcoding, PipelineInv, PipelineTypeInv, PipelineStates
<1>2. UNCHANGED <<rec, temp>> /\ twice' = twice \cup {j \in Jobs : InTwoHands(j)'}
  BY DEF Transcoding
<1>3. twice \subseteq twice' /\ twice' \subseteq Jobs
  BY <1>2 DEF PipelineInv, PipelineTypeInv
<1>4. ASSUME NEW w \in Workers, NEW x \in Workers, w # x,
             job'[w] # None, job'[w] = job'[x]
      PROVE  job'[w] \in twice'
  BY <1>1, <1>2, <1>4 DEF InTwoHands, Typed
<1> QED BY <1>1, <1>2, <1>3, <1>4 DEF PipelineTypeInv, PipelineInv

\* What a step of the workers or the queue leaves to show.
LEMMA WorkerStepInv ==
  ASSUME PipelineInv, Transcoding(TranscoderStep) PROVE PipelineInv'
<1> USE TranscoderAssumption DEF PipelineInv, queue, workers, files, told, bounds,
      Goto, Nak, Requeued
<1>1. /\ PipelineTypeInv' /\ UNCHANGED <<rec, temp>>
      /\ twice \subseteq twice'
      /\ \A w, x \in Workers : job'[w] # None /\ job'[w] = job'[x] /\ w # x =>
               job'[w] \in twice'
  BY WorkerTypes
<1> DEFINE Rest == /\ RecInv' /\ HandInv' /\ ContentKept'
                   /\ \A w \in Workers : job'[w] # None => msg'[job'[w]] # "absent"
<1>2. ASSUME NEW j \in Jobs, AckWaitExpires(j) PROVE Rest
  <2>1. RecInv'
    BY <1>1, <1>2 DEF AckWaitExpires, PipelineTypeInv, Typed, BusyInv, RecInv, HoldInv, HandInv
  <2>2. \A x \in Workers : job'[x] # None => msg'[job'[x]] # "absent"
    BY <1>1, <1>2 DEF AckWaitExpires, PipelineTypeInv, Typed, BusyInv, HoldInv
  <2>3. HandInv'
    BY <1>1, <1>2 DEF AckWaitExpires, PipelineTypeInv, Typed, BusyInv, HoldInv,
       HandInv, ContentKept, RecInv, Recorded
  <2>4. ContentKept'
    BY <1>1, <1>2 DEF AckWaitExpires, PipelineTypeInv, Typed, BusyInv, HoldInv,
       HandInv, ContentKept, RecInv, Recorded
  <2> QED BY <2>1, <2>2, <2>3, <2>4
<1>3. ASSUME NEW j \in Jobs, RetryTranscode(j) PROVE Rest
  <2>1. RecInv'
    BY <1>1, <1>3 DEF RetryTranscode, PipelineTypeInv, Typed, BusyInv, RecInv, HoldInv, HandInv
  <2>2. \A x \in Workers : job'[x] # None => msg'[job'[x]] # "absent"
    BY <1>1, <1>3 DEF RetryTranscode, PipelineTypeInv, Typed, BusyInv, HoldInv
  <2>3. HandInv'
    BY <1>1, <1>3 DEF RetryTranscode, PipelineTypeInv, Typed, BusyInv, HoldInv,
       HandInv, ContentKept, RecInv, Recorded
  <2>4. ContentKept'
    BY <1>1, <1>3 DEF RetryTranscode, PipelineTypeInv, Typed, BusyInv, HoldInv,
       HandInv, ContentKept, RecInv, Recorded
  <2> QED BY <2>1, <2>2, <2>3, <2>4
<1>4. ASSUME NEW w \in Workers, Fetch(w) PROVE Rest
  <2>1. RecInv'
    BY <1>1, <1>4 DEF Fetch, PipelineTypeInv, Typed, BusyInv, RecInv, HoldInv, HandInv
  <2>2. \A x \in Workers : job'[x] # None => msg'[job'[x]] # "absent"
    BY <1>1, <1>4 DEF Fetch, PipelineTypeInv, Typed, BusyInv, HoldInv
  <2>3. HandInv'
    BY <1>1, <1>4 DEF Fetch, PipelineTypeInv, Typed, BusyInv, HoldInv, HandInv,
       ContentKept, RecInv, Recorded
  <2>4. ContentKept'
    BY <1>1, <1>4 DEF Fetch, PipelineTypeInv, Typed, BusyInv, HoldInv, HandInv,
       ContentKept, RecInv, Recorded
  <2> QED BY <2>1, <2>2, <2>3, <2>4
<1>5. ASSUME NEW w \in Workers, Crash(w) PROVE Rest
  <2>1. RecInv'
    BY <1>1, <1>5 DEF Crash, PipelineTypeInv, Typed, BusyInv, RecInv, HoldInv, HandInv
  <2>2. \A x \in Workers : job'[x] # None => msg'[job'[x]] # "absent"
    BY <1>1, <1>5 DEF Crash, PipelineTypeInv, Typed, BusyInv, HoldInv
  <2>3. HandInv'
    BY <1>1, <1>5 DEF Crash, PipelineTypeInv, Typed, BusyInv, HoldInv, HandInv,
       ContentKept, RecInv, Recorded
  <2>4. ContentKept'
    BY <1>1, <1>5 DEF Crash, PipelineTypeInv, Typed, BusyInv, HoldInv, HandInv,
       ContentKept, RecInv, Recorded
  <2> QED BY <2>1, <2>2, <2>3, <2>4
<1>6. ASSUME NEW w \in Workers, StopOnBadMessage(w) PROVE Rest
  <2>1. RecInv'
    BY <1>1, <1>6 DEF StopOnBadMessage, PipelineTypeInv, Typed, BusyInv, RecInv, HoldInv, HandInv
  <2>2. \A x \in Workers : job'[x] # None => msg'[job'[x]] # "absent"
    BY <1>1, <1>6 DEF StopOnBadMessage, PipelineTypeInv, Typed, BusyInv, HoldInv
  <2>3. HandInv'
    BY <1>1, <1>6 DEF StopOnBadMessage, PipelineTypeInv, Typed, BusyInv, HoldInv,
       HandInv, ContentKept, RecInv, Recorded
  <2>4. ContentKept'
    BY <1>1, <1>6 DEF StopOnBadMessage, PipelineTypeInv, Typed, BusyInv, HoldInv,
       HandInv, ContentKept, RecInv, Recorded
  <2> QED BY <2>1, <2>2, <2>3, <2>4
<1>7. ASSUME NEW w \in Workers, PrepareFails(w) PROVE Rest
  <2>1. RecInv'
    BY <1>1, <1>7 DEF PrepareFails, PipelineTypeInv, Typed, BusyInv, RecInv, HoldInv, HandInv
  <2>2. \A x \in Workers : job'[x] # None => msg'[job'[x]] # "absent"
    BY <1>1, <1>7 DEF PrepareFails, PipelineTypeInv, Typed, BusyInv, HoldInv
  <2>3. HandInv'
    BY <1>1, <1>7 DEF PrepareFails, PipelineTypeInv, Typed, BusyInv, HoldInv, HandInv,
       ContentKept, RecInv, Recorded
  <2>4. ContentKept'
    BY <1>1, <1>7 DEF PrepareFails, PipelineTypeInv, Typed, BusyInv, HoldInv, HandInv,
       ContentKept, RecInv, Recorded
  <2> QED BY <2>1, <2>2, <2>3, <2>4
<1>8. ASSUME NEW w \in Workers, FetchRaw(w) PROVE Rest
  <2>1. RecInv'
    BY <1>1, <1>8 DEF FetchRaw, PipelineTypeInv, Typed, BusyInv, RecInv, HoldInv, HandInv
  <2>2. \A x \in Workers : job'[x] # None => msg'[job'[x]] # "absent"
    BY <1>1, <1>8 DEF FetchRaw, PipelineTypeInv, Typed, BusyInv, HoldInv
  <2>3. HandInv'
    BY <1>1, <1>8 DEF FetchRaw, PipelineTypeInv, Typed, BusyInv, HoldInv, HandInv,
       ContentKept, RecInv, Recorded
  <2>4. ContentKept'
    BY <1>1, <1>8 DEF FetchRaw, PipelineTypeInv, Typed, BusyInv, HoldInv, HandInv,
       ContentKept, RecInv, Recorded
  <2> QED BY <2>1, <2>2, <2>3, <2>4
<1>9. ASSUME NEW w \in Workers, SourceMissing(w) PROVE Rest
  <2>1. RecInv'
    BY <1>1, <1>9 DEF SourceMissing, PipelineTypeInv, Typed, BusyInv, RecInv, HoldInv, HandInv
  <2>2. \A x \in Workers : job'[x] # None => msg'[job'[x]] # "absent"
    BY <1>1, <1>9 DEF SourceMissing, PipelineTypeInv, Typed, BusyInv, HoldInv
  <2>3. HandInv'
    BY <1>1, <1>9 DEF SourceMissing, PipelineTypeInv, Typed, BusyInv, HoldInv, HandInv,
       ContentKept, RecInv, Recorded
  <2>4. ContentKept'
    BY <1>1, <1>9 DEF SourceMissing, PipelineTypeInv, Typed, BusyInv, HoldInv, HandInv,
       ContentKept, RecInv, Recorded
  <2> QED BY <2>1, <2>2, <2>3, <2>4
<1>10. ASSUME NEW w \in Workers, OpenOutput(w) PROVE Rest
  <2>1. RecInv'
    BY <1>1, <1>10 DEF OpenOutput, PipelineTypeInv, Typed, BusyInv, RecInv, HoldInv,
       HandInv, SourceExists
  <2>2. \A x \in Workers : job'[x] # None => msg'[job'[x]] # "absent"
    BY <1>1, <1>10 DEF OpenOutput, PipelineTypeInv, Typed, BusyInv, HoldInv, SourceExists
  <2>3. HandInv'
    BY <1>1, <1>10 DEF OpenOutput, PipelineTypeInv, Typed, BusyInv, HoldInv, HandInv,
       ContentKept, RecInv, Recorded, SourceExists
  <2>4. ContentKept'
    BY <1>1, <1>10 DEF OpenOutput, PipelineTypeInv, Typed, BusyInv, HoldInv, HandInv,
       ContentKept, RecInv, Recorded, SourceExists
  <2> QED BY <2>1, <2>2, <2>3, <2>4
<1>11. ASSUME NEW w \in Workers, RefuseOutput(w) PROVE Rest
  <2>1. RecInv'
    BY <1>1, <1>11 DEF RefuseOutput, PipelineTypeInv, Typed, BusyInv, RecInv, HoldInv, HandInv
  <2>2. \A x \in Workers : job'[x] # None => msg'[job'[x]] # "absent"
    BY <1>1, <1>11 DEF RefuseOutput, PipelineTypeInv, Typed, BusyInv, HoldInv
  <2>3. HandInv'
    BY <1>1, <1>11 DEF RefuseOutput, PipelineTypeInv, Typed, BusyInv, HoldInv, HandInv,
       ContentKept, RecInv, Recorded
  <2>4. ContentKept'
    BY <1>1, <1>11 DEF RefuseOutput, PipelineTypeInv, Typed, BusyInv, HoldInv, HandInv,
       ContentKept, RecInv, Recorded
  <2> QED BY <2>1, <2>2, <2>3, <2>4
<1>12. ASSUME NEW w \in Workers, FfmpegFails(w) PROVE Rest
  <2>1. RecInv'
    BY <1>1, <1>12 DEF FfmpegFails, PipelineTypeInv, Typed, BusyInv, RecInv, HoldInv, HandInv
  <2>2. \A x \in Workers : job'[x] # None => msg'[job'[x]] # "absent"
    BY <1>1, <1>12 DEF FfmpegFails, PipelineTypeInv, Typed, BusyInv, HoldInv
  <2>3. HandInv'
    BY <1>1, <1>12 DEF FfmpegFails, PipelineTypeInv, Typed, BusyInv, HoldInv, HandInv,
       ContentKept, RecInv, Recorded
  <2>4. ContentKept'
    BY <1>1, <1>12 DEF FfmpegFails, PipelineTypeInv, Typed, BusyInv, HoldInv, HandInv,
       ContentKept, RecInv, Recorded
  <2> QED BY <2>1, <2>2, <2>3, <2>4
<1>13. ASSUME NEW w \in Workers, FfmpegSucceeds(w) PROVE Rest
  <2>1. RecInv'
    BY <1>1, <1>13 DEF FfmpegSucceeds, PipelineTypeInv, Typed, BusyInv, RecInv, HoldInv, HandInv
  <2>2. \A x \in Workers : job'[x] # None => msg'[job'[x]] # "absent"
    BY <1>1, <1>13 DEF FfmpegSucceeds, PipelineTypeInv, Typed, BusyInv, HoldInv
  <2>3. HandInv'
    BY <1>1, <1>13 DEF FfmpegSucceeds, PipelineTypeInv, Typed, BusyInv, HoldInv,
       HandInv, ContentKept, RecInv, Recorded
  <2>4. ContentKept'
    BY <1>1, <1>13 DEF FfmpegSucceeds, PipelineTypeInv, Typed, BusyInv, HoldInv,
       HandInv, ContentKept, RecInv, Recorded
  <2> QED BY <2>1, <2>2, <2>3, <2>4
<1>14. ASSUME NEW w \in Workers, RemoveRaw(w) PROVE Rest
  <2>1. RecInv'
    BY <1>1, <1>14 DEF RemoveRaw, PipelineTypeInv, Typed, BusyInv, RecInv, HoldInv, HandInv
  <2>2. \A x \in Workers : job'[x] # None => msg'[job'[x]] # "absent"
    BY <1>1, <1>14 DEF RemoveRaw, PipelineTypeInv, Typed, BusyInv, HoldInv
  <2>3. HandInv'
    BY <1>1, <1>14 DEF RemoveRaw, PipelineTypeInv, Typed, BusyInv, HoldInv, HandInv,
       ContentKept, RecInv, Recorded
  <2>4. ContentKept'
    BY <1>1, <1>14 DEF RemoveRaw, PipelineTypeInv, Typed, BusyInv, HoldInv, HandInv,
       ContentKept, RecInv, Recorded
  <2> QED BY <2>1, <2>2, <2>3, <2>4
<1>15. ASSUME NEW w \in Workers, RenameRaw(w) PROVE Rest
  <2>1. RecInv'
    BY <1>1, <1>15 DEF RenameRaw, PipelineTypeInv, Typed, BusyInv, RecInv, HoldInv,
       HandInv, SourceExists
  <2>2. \A x \in Workers : job'[x] # None => msg'[job'[x]] # "absent"
    BY <1>1, <1>15 DEF RenameRaw, PipelineTypeInv, Typed, BusyInv, HoldInv, SourceExists
  <2>3. HandInv'
    BY <1>1, <1>15 DEF RenameRaw, PipelineTypeInv, Typed, BusyInv, HoldInv, HandInv,
       ContentKept, RecInv, Recorded, SourceExists
  <2>4. ContentKept'
    BY <1>1, <1>15 DEF RenameRaw, PipelineTypeInv, Typed, BusyInv, HoldInv, HandInv,
       ContentKept, RecInv, Recorded, SourceExists
  <2> QED BY <2>1, <2>2, <2>3, <2>4
<1>16. ASSUME NEW w \in Workers, StatOutput(w) PROVE Rest
  <2>1. RecInv'
    BY <1>1, <1>16 DEF StatOutput, PipelineTypeInv, Typed, BusyInv, RecInv, HoldInv, HandInv
  <2>2. \A x \in Workers : job'[x] # None => msg'[job'[x]] # "absent"
    BY <1>1, <1>16 DEF StatOutput, PipelineTypeInv, Typed, BusyInv, HoldInv
  <2>3. HandInv'
    BY <1>1, <1>16 DEF StatOutput, PipelineTypeInv, Typed, BusyInv, HoldInv, HandInv,
       ContentKept, RecInv, Recorded
  <2>4. ContentKept'
    BY <1>1, <1>16 DEF StatOutput, PipelineTypeInv, Typed, BusyInv, HoldInv, HandInv,
       ContentKept, RecInv, Recorded
  <2> QED BY <2>1, <2>2, <2>3, <2>4
<1>17. ASSUME NEW w \in Workers, RemoveOriginal(w) PROVE Rest
  <2>1. RecInv'
    BY <1>1, <1>17 DEF RemoveOriginal, PipelineTypeInv, Typed, BusyInv, RecInv, HoldInv, HandInv
  <2>2. \A x \in Workers : job'[x] # None => msg'[job'[x]] # "absent"
    BY <1>1, <1>17 DEF RemoveOriginal, PipelineTypeInv, Typed, BusyInv, HoldInv
  <2>3. HandInv'
    BY <1>1, <1>17 DEF RemoveOriginal, PipelineTypeInv, Typed, BusyInv, HoldInv,
       HandInv, ContentKept, RecInv, Recorded
  <2>4. ContentKept'
    BY <1>1, <1>17 DEF RemoveOriginal, PipelineTypeInv, Typed, BusyInv, HoldInv,
       HandInv, ContentKept, RecInv, Recorded
  <2> QED BY <2>1, <2>2, <2>3, <2>4
<1>18. ASSUME NEW w \in Workers, ReportProceeded(w) PROVE Rest
  <2>1. RecInv'
    BY <1>1, <1>18 DEF ReportProceeded, PipelineTypeInv, Typed, BusyInv, RecInv, HoldInv, HandInv
  <2>2. \A x \in Workers : job'[x] # None => msg'[job'[x]] # "absent"
    BY <1>1, <1>18 DEF ReportProceeded, PipelineTypeInv, Typed, BusyInv, HoldInv
  <2>3. HandInv'
    BY <1>1, <1>18 DEF ReportProceeded, PipelineTypeInv, Typed, BusyInv, HoldInv,
       HandInv, ContentKept, RecInv, Recorded
  <2>4. ContentKept'
    BY <1>1, <1>18 DEF ReportProceeded, PipelineTypeInv, Typed, BusyInv, HoldInv,
       HandInv, ContentKept, RecInv, Recorded
  <2> QED BY <2>1, <2>2, <2>3, <2>4
<1>19. ASSUME NEW w \in Workers, Settle(w) PROVE Rest
  <2>1. RecInv'
    BY <1>1, <1>19 DEF Settle, PipelineTypeInv, Typed, BusyInv, RecInv, HoldInv, HandInv
  <2>2. \A x \in Workers : job'[x] # None => msg'[job'[x]] # "absent"
    BY <1>1, <1>19 DEF Settle, PipelineTypeInv, Typed, BusyInv, HoldInv
  <2>3. HandInv'
    BY <1>1, <1>19 DEF Settle, PipelineTypeInv, Typed, BusyInv, HoldInv, HandInv,
       ContentKept, RecInv, Recorded
  <2>4. ContentKept'
    BY <1>1, <1>19 DEF Settle, PipelineTypeInv, Typed, BusyInv, HoldInv, HandInv,
       ContentKept, RecInv, Recorded
  <2> QED BY <2>1, <2>2, <2>3, <2>4
<1> QED BY <1>1, <1>2, <1>3, <1>4, <1>5, <1>6, <1>7, <1>8, <1>9, <1>10, <1>11, <1>12,
      <1>13, <1>14, <1>15, <1>16, <1>17, <1>18, <1>19 DEF HoldInv, Transcoding,
      TranscoderStep, WorkerStep

\* Every step of the pipeline keeps the invariant.
LEMMA PipelineNextInv == PipelineInv /\ [PipelineNext]_pipelineVars => PipelineInv'
<1> SUFFICES ASSUME PipelineInv, [PipelineNext]_pipelineVars PROVE PipelineInv'
  OBVIOUS
<1>1. CASE UNCHANGED pipelineVars
  BY <1>1 DEF pipelineVars, vars, queue, workers, files, told, bounds, PipelineInv,
     PipelineTypeInv, Typed, QueueInv, BusyInv, RecInv, HoldInv, HandInv, ContentKept
<1>2. ASSUME NEW j \in Jobs, EndRecording(j) \/ RecStep(j) \/ RecorderCrashes(j)
      PROVE  PipelineInv'
  BY <1>2, RecStepInv
<1>3. ASSUME Transcoding(TranscoderStep) PROVE PipelineInv'
  BY <1>3, WorkerStepInv
<1> QED BY <1>1, <1>2, <1>3 DEF PipelineNext, Done, Transcoding, TranscoderStep

-----------------------------------------------------------------------------

\* The inductive invariant holds in every behavior.
THEOREM PipelineInductive == PipelineSpec => []PipelineInv
BY PipelineInitInv, PipelineNextInv, PTL DEF PipelineSpec

\* Type correctness of the composition.
THEOREM PipelineTyped == PipelineSpec => []PipelineTypeOK
<1>1. PipelineInv => PipelineTypeOK
  BY DEF PipelineInv, PipelineTypeInv, Typed, PipelineStates, PipelineTypeOK
<1> QED BY <1>1, PipelineInductive, PTL

\* The content of a recording that has ended is in one complete file, with
\* outages, redeliveries, failing moves and hooks, and crashes of both sides,
\* unless two workers had its job at the same time.
THEOREM ContentNeverLost == PipelineSpec => []ContentKept
<1>1. PipelineInv => ContentKept
  BY DEF PipelineInv
<1> QED BY <1>1, PipelineInductive, PTL

\* What a step of the workers or the queue may do to a published recording: it
\* is reported by a worker that is up, a message that is done stays done, and one
\* that was given up only comes back as a new one.
LEMMA JobStep ==
  ASSUME PipelineInv, Transcoding(TranscoderStep), NEW r \in Jobs
  PROVE  /\ \/ proceeded'[r] = proceeded[r]
            \/ /\ proceeded'[r] = proceeded[r] + 1
               /\ ~AllStopped /\ msg'[r] = msg[r]
         /\ msg[r] = "absent" => msg'[r] = "absent"
         /\ msg[r] = "acked" => msg'[r] = "acked"
         /\ msg[r] = "dropped" => msg'[r] \in {"dropped", "queued"}
         /\ msg'[r] = "acked" => msg[r] = "acked" \/ ~AllStopped
         /\ msg[r] # "absent" => msg'[r] # "absent"
<1> USE TranscoderAssumption DEF PipelineInv, PipelineTypeInv, Typed, BusyInv,
      HoldInv, queue, workers, files, told, bounds, Goto, Nak, Requeued, AllStopped
<1>1. ASSUME UNCHANGED <<msg, proceeded>>
      PROVE  proceeded'[r] = proceeded[r] /\ msg'[r] = msg[r]
  BY <1>1
<1>2. ASSUME NEW j \in Jobs, AckWaitExpires(j) \/ RetryTranscode(j)
      PROVE  /\ proceeded'[r] = proceeded[r]
             /\ \/ msg'[r] = msg[r]
                \/ msg[r] = "delivered" /\ msg'[r] \in {"queued", "dropped"}
                \/ msg[r] = "dropped" /\ msg'[r] = "queued"
  BY <1>2 DEF AckWaitExpires, RetryTranscode
<1>3. ASSUME NEW w \in Workers, Fetch(w)
      PROVE  /\ proceeded'[r] = proceeded[r]
             /\ \/ msg'[r] = msg[r]
                \/ msg[r] = "queued" /\ msg'[r] = "delivered"
  BY <1>3 DEF Fetch
<1>4. ASSUME NEW w \in Workers, ReportProceeded(w)
      PROVE  /\ msg'[r] = msg[r] /\ ~AllStopped
             /\ proceeded'[r] \in {proceeded[r], proceeded[r] + 1}
  BY <1>4 DEF ReportProceeded
<1>5. ASSUME NEW w \in Workers, Settle(w)
      PROVE  /\ proceeded'[r] = proceeded[r] /\ ~AllStopped
             /\ \/ msg'[r] = msg[r]
                \/ msg[r] \notin {"absent", "dropped"} /\ msg'[r] = "acked"
                \/ msg[r] = "delivered" /\ msg'[r] \in {"queued", "dropped"}
  BY <1>5 DEF Settle
<1>6. ASSUME NEW w \in Workers, StopOnBadMessage(w)
      PROVE  /\ proceeded'[r] = proceeded[r]
             /\ \/ msg'[r] = msg[r]
                \/ msg[r] = "delivered" /\ msg'[r] \in {"queued", "dropped"}
  BY <1>6 DEF StopOnBadMessage
<1>7. \/ UNCHANGED <<msg, proceeded>>
      \/ \E j \in Jobs : AckWaitExpires(j) \/ RetryTranscode(j)
      \/ \E w \in Workers : \/ Fetch(w) \/ ReportProceeded(w) \/ Settle(w)
                            \/ StopOnBadMessage(w)
  BY DEF Transcoding, TranscoderStep, WorkerStep, Crash, PrepareFails, FetchRaw,
     SourceMissing, OpenOutput, RefuseOutput, FfmpegFails, FfmpegSucceeds,
     RemoveRaw, RenameRaw, StatOutput, RemoveOriginal
<1> QED BY <1>1, <1>2, <1>3, <1>4, <1>5, <1>6, <1>7

\* A job that is published names a raw file that is there, and the temporary file
\* is gone: only PublishJob gives a recording its message.
THEOREM PublishedHasFile == PipelineSpec => PublishedIsThere
<1>1. PipelineInv /\ [PipelineNext]_pipelineVars =>
        [\A j \in Recorded : msg[j] = "absent" /\ msg'[j] # "absent"
                                => raw[j] /\ ~temp[j]]_pipelineVars
  <2> SUFFICES ASSUME PipelineInv, PipelineNext, NEW j \in Recorded,
                      msg[j] = "absent", msg'[j] # "absent"
               PROVE  raw[j] /\ ~temp[j]
    OBVIOUS
  <2>1. j \in Jobs
    BY DEF Recorded
  <2>2. ~Transcoding(TranscoderStep)
    BY <2>1, JobStep
  <2>3. PICK x \in Jobs : PublishJob(x)
    BY <2>2 DEF PipelineNext, Done, Transcoding, TranscoderStep, pipelineVars, vars,
       queue, RecStep, EndRecording, RecorderCrashes, MoveRename, MoveCopies,
       CopyEnds, SourceRemoved, MoveFails, StatRaw, PostRecordingHook
  <2>4. x = j /\ rec[j] = "publish"
    BY <2>1, <2>3 DEF PublishJob, RecGoto, PipelineInv, PipelineTypeInv, Typed
  <2> QED BY <2>1, <2>4 DEF PipelineInv, RecInv
<1> QED BY <1>1, PipelineInductive, PTL DEF PipelineSpec, PublishedIsThere

-----------------------------------------------------------------------------
(* Refinement of RecordingLife, safety *)

\* The life of a recording is told by onAfterClose until its publish, and then by
\* what was reported, its message and the workers.
LEMMA LifeIs ==
  ASSUME PipelineInv, NEW r \in Recorded
  PROVE  /\ rec[r] = "recording" => LifeOf(r) = "recording"
         /\ rec[r] \in Working => LifeOf(r) = "saved"
         /\ rec[r] = "stranded" => LifeOf(r) = "stranded"
         /\ rec[r] = "published" =>
               LifeOf(r) = IF proceeded[r] > 0 THEN "reported"
                           ELSE IF msg[r] = "dropped" THEN "dropped"
                           ELSE IF msg[r] = "acked" THEN "forgotten"
                           ELSE IF AllStopped THEN "stalled" ELSE "queued"
         /\ rec[r] \in {"recording", "stranded", "published"} \cup Working
<1>1. r \in Jobs /\ rec[r] \in RecStates \ {"none"}
  BY DEF PipelineInv, PipelineTypeInv, RecInv, Recorded
<1> QED BY <1>1 DEF LifeOf, JobLife, Working, RecStates

\* The same after a step.
LEMMA LifeIsNext ==
  ASSUME PipelineInv', NEW r \in Recorded
  PROVE  /\ rec'[r] = "recording" => LifeOf(r)' = "recording"
         /\ rec'[r] \in Working => LifeOf(r)' = "saved"
         /\ rec'[r] = "stranded" => LifeOf(r)' = "stranded"
         /\ rec'[r] = "published" =>
               LifeOf(r)' = IF proceeded'[r] > 0 THEN "reported"
                            ELSE IF msg'[r] = "dropped" THEN "dropped"
                            ELSE IF msg'[r] = "acked" THEN "forgotten"
                            ELSE IF AllStopped' THEN "stalled" ELSE "queued"
<1>1. r \in Jobs /\ rec'[r] \in RecStates \ {"none"}
  BY DEF PipelineInv, PipelineTypeInv, RecInv, Recorded
<1> QED BY <1>1 DEF LifeOf, JobLife, Working, RecStates

\* onAfterClose takes one recording on, and leaves the others where they are.
LEMMA RecStepMaps ==
  ASSUME PipelineInv, PipelineInv', NEW j \in Jobs, NEW r \in Recorded,
         EndRecording(j) \/ RecStep(j) \/ RecorderCrashes(j)
  PROVE  LifeOf(r)' = LifeOf(r) \/ <<LifeOf(r), LifeOf(r)'>> \in Life!Steps
<1> USE DEF RecGoto, Elsewhere, workers, told
<1>1. r \in Jobs /\ rec \in [Jobs -> RecStates] /\ UNCHANGED <<pc, proceeded>>
  BY DEF Recorded, PipelineInv, PipelineTypeInv, RecStep, EndRecording,
     RecorderCrashes, MoveRename, MoveCopies, CopyEnds, SourceRemoved, MoveFails,
     StatRaw, PostRecordingHook, PublishJob
<1>2. AllStopped' <=> AllStopped
  BY <1>1 DEF AllStopped
<1>3. CASE rec'[r] = rec[r] /\ msg'[r] = msg[r]
  BY <1>1, <1>2, <1>3, LifeIs, LifeIsNext
<1>4. CASE rec[r] = "recording" /\ rec'[r] \in Working
  BY <1>4, LifeIs, LifeIsNext DEF Life!Steps
<1>5. CASE rec[r] \in Working /\ rec'[r] \in Working \cup {"stranded"}
  BY <1>5, LifeIs, LifeIsNext DEF Life!Steps
<1>6. CASE rec[r] = "publish" /\ rec'[r] = "published" /\ msg'[r] = "queued"
  <2>1. proceeded'[r] = 0
    BY <1>1, <1>6 DEF PipelineInv, RecInv
  <2>2. LifeOf(r) = "saved" /\ LifeOf(r)' \in {"stalled", "queued"}
    BY <1>6, <2>1, LifeIs, LifeIsNext DEF Working
  <2> QED BY <2>2 DEF Life!Steps
<1>7. \/ rec'[r] = rec[r] /\ msg'[r] = msg[r]
      \/ rec[r] = "recording" /\ rec'[r] \in Working
      \/ rec[r] \in Working /\ rec'[r] \in Working \cup {"stranded"}
      \/ rec[r] = "publish" /\ rec'[r] = "published" /\ msg'[r] = "queued"
  <2>1. CASE j = r
    BY <1>1, <2>1 DEF RecStep, EndRecording, RecorderCrashes, MoveRename,
       MoveCopies, CopyEnds, SourceRemoved, MoveFails, StatRaw, PostRecordingHook,
       PublishJob, Working, PipelineInv, PipelineTypeInv, Typed
  <2>2. CASE j # r
    BY <1>1, <2>2 DEF RecStep, EndRecording, RecorderCrashes, MoveRename,
       MoveCopies, CopyEnds, SourceRemoved, MoveFails, StatRaw, PostRecordingHook,
       PublishJob, PipelineInv, PipelineTypeInv, Typed
  <2> QED BY <2>1, <2>2
<1> QED BY <1>3, <1>4, <1>5, <1>6, <1>7

\* The workers and the queue move a published recording as JobStep says.
LEMMA WorkerStepMaps ==
  ASSUME PipelineInv, PipelineInv', NEW r \in Recorded, Transcoding(TranscoderStep)
  PROVE  LifeOf(r)' = LifeOf(r) \/ <<LifeOf(r), LifeOf(r)'>> \in Life!Steps
<1>1. r \in Jobs /\ rec'[r] = rec[r] /\ proceeded[r] \in Nat
  BY DEF Recorded, PipelineInv, PipelineTypeInv, Typed, Transcoding
<1>2. CASE rec[r] # "published"
  BY <1>1, <1>2, LifeIs, LifeIsNext
<1>3. CASE rec[r] = "published" /\ proceeded'[r] > 0
  <2>1. LifeOf(r)' = "reported"
    BY <1>1, <1>3, LifeIsNext
  <2>2. proceeded[r] > 0 \/ ~AllStopped
    BY <1>1, <1>3, JobStep
  <2> QED BY <1>1, <1>3, <2>1, <2>2, LifeIs DEF Life!Steps
<1>4. CASE rec[r] = "published" /\ ~(proceeded'[r] > 0)
  <2>1. ~(proceeded[r] > 0)
    BY <1>1, <1>4, JobStep
  <2>2. /\ msg[r] = "acked" => msg'[r] = "acked"
        /\ msg[r] = "dropped" => msg'[r] \in {"dropped", "queued"}
        /\ msg'[r] = "acked" => msg[r] = "acked" \/ ~AllStopped
    BY <1>1, JobStep
  <2>3. CASE msg[r] = "acked"
    BY <1>1, <1>4, <2>1, <2>2, <2>3, LifeIs, LifeIsNext
  <2>4. CASE msg[r] = "dropped"
    BY <1>1, <1>4, <2>1, <2>2, <2>4, LifeIs, LifeIsNext DEF Life!Steps
  <2>5. CASE msg[r] \notin {"acked", "dropped"}
    BY <1>1, <1>4, <2>1, <2>2, <2>5, LifeIs, LifeIsNext DEF Life!Steps
  <2> QED BY <2>3, <2>4, <2>5
<1> QED BY <1>2, <1>3, <1>4

\* The composition of onAfterClose, queue and workers goes through the life of a
\* recording that RecordingLife promises, whatever crashes, is lost or runs twice.
THEOREM ImplementsLife ==
  PipelineSpec => Life!Init /\ [][Life!Next]_([j \in Recorded |-> LifeOf(j)])
<1>1. PipelineInit => Life!Init
  <2> SUFFICES ASSUME PipelineInit, NEW r \in Recorded
               PROVE  LifeOf(r) = "recording"
    BY DEF Life!Init
  <2>1. rec[r] = "recording"
    BY DEF PipelineInit, Recorded
  <2> QED BY <2>1, PipelineInitInv, LifeIs
<1>2. PipelineInv /\ PipelineInv' /\ [PipelineNext]_pipelineVars =>
        [Life!Next]_([j \in Recorded |-> LifeOf(j)])
  <2>1. UNCHANGED pipelineVars => UNCHANGED [j \in Recorded |-> LifeOf(j)]
    BY DEF LifeOf, JobLife, AllStopped, Recorded, pipelineVars, vars, queue, workers, told
  <2>2. ASSUME PipelineInv, PipelineInv', PipelineNext, ~UNCHANGED pipelineVars
        PROVE  Life!Next
    <3>1. ASSUME NEW r \in Recorded
          PROVE  LifeOf(r)' = LifeOf(r) \/ <<LifeOf(r), LifeOf(r)'>> \in Life!Steps
      BY <2>2, RecStepMaps, WorkerStepMaps DEF PipelineNext, Done, Transcoding,
         TranscoderStep
    <3> QED BY <3>1 DEF Life!Next
  <2> QED BY <2>1, <2>2
<1> QED BY <1>1, <1>2, PipelineInductive, PTL DEF PipelineSpec
=============================================================================
