--------------------------- MODULE TranscoderProofs ---------------------------
(* What the transcoding side guarantees for any number of jobs, workers,       *)
(* deliveries, crashes and retries.  The types hold always, the rest while      *)
(* heartbeats arrive and every raw file has a name of its own: with an outage   *)
(* two workers write one file (the history `twice` of RecordingPipeline, and    *)
(* PipelineProofs), and MCTranscoderInPlace.cfg shows what becomes of a raw     *)
(* file that has the name of its output.                                        *)
EXTENDS Transcoder, TLAPS

Favourable == ~Outages /\ \A j \in Jobs : Kind[j] # "inPlace"

\* A message waits for a worker only while deliveries remain.
QueueInv == \A j \in Jobs : msg[j] = "queued" => deliveries[j] < MaxDeliver

\* A worker holds a job exactly while it works on one.
BusyInv == \A w \in Workers : job[w] = None <=> pc[w] \in {"idle", "stopped"}

\* TypeOK with a message in one of the states S: a composition may know more.
Typed(S) ==
    /\ msg \in [Jobs -> S] /\ deliveries \in [Jobs -> 0..MaxDeliver]
    /\ pc \in [Workers -> WorkerPcs] /\ job \in [Workers -> Jobs \cup {None}]
    /\ raw \in [Jobs -> BOOLEAN] /\ local \in [Workers -> BOOLEAN]
    /\ out \in [Jobs -> OutStates]
    /\ proceeded \in [Jobs -> Nat] /\ reportLost \subseteq Jobs
    /\ finished \in [Jobs -> {None, "success", "failure"}]
    /\ crashes \in 0..MaxCrashes /\ retries \in [Jobs -> 0..MaxRetries]

TypeInv == TypeOK /\ QueueInv /\ BusyInv

TranscoderStep ==
    \/ \E w \in Workers : Fetch(w) \/ WorkerStep(w) \/ Crash(w)
    \/ \E j \in Jobs : AckWaitExpires(j) \/ RetryTranscode(j)

-----------------------------------------------------------------------------

\* The initial states have the types.
LEMMA TypeInit == Init => TypeInv
<1> SUFFICES ASSUME Init PROVE TypeInv
  OBVIOUS
<1>1. TypeOK
  <2>1. msg \in [Jobs -> MsgStates] /\ deliveries \in [Jobs -> 0..MaxDeliver]
    BY TranscoderAssumption DEF Init, MsgStates
  <2>2. pc \in [Workers -> WorkerPcs] /\ job \in [Workers -> Jobs \cup {None}]
    BY DEF Init, WorkerPcs
  <2>3. raw \in [Jobs -> BOOLEAN] /\ local \in [Workers -> BOOLEAN]
    BY DEF Init
  <2>4. out \in [Jobs -> OutStates]
    BY DEF Init, OutStates
  <2>5. /\ proceeded \in [Jobs -> Nat] /\ reportLost \subseteq Jobs
        /\ finished \in [Jobs -> {None, "success", "failure"}]
    BY DEF Init
  <2>6. crashes \in 0..MaxCrashes /\ retries \in [Jobs -> 0..MaxRetries]
    BY TranscoderAssumption DEF Init
  <2> QED BY <2>1, <2>2, <2>3, <2>4, <2>5, <2>6 DEF TypeOK
<1>2. QueueInv /\ BusyInv
  BY TranscoderAssumption DEF Init, QueueInv, BusyInv
<1> QED BY <1>1, <1>2 DEF TypeInv

\* Every step of a worker or of the queue keeps the types, with any further
\* states S a composition gives to messages.
LEMMA TypedStep ==
  ASSUME NEW S, MsgStates \subseteq S, Typed(S), QueueInv, BusyInv, TranscoderStep
  PROVE  Typed(S)' /\ QueueInv' /\ BusyInv'
<1> USE TranscoderAssumption DEF queue, workers, files, told, bounds, Goto, Nak,
      Requeued
<1>1. ASSUME NEW j \in Jobs, AckWaitExpires(j) PROVE Typed(S)' /\ QueueInv' /\ BusyInv'
  <2>1. Typed(S)'
    BY <1>1 DEF AckWaitExpires, Typed, QueueInv, MsgStates, WorkerPcs, OutStates
  <2>2. QueueInv'
    BY <1>1 DEF AckWaitExpires, Typed, QueueInv
  <2>3. BusyInv'
    BY <1>1 DEF AckWaitExpires, Typed, BusyInv
  <2> QED BY <2>1, <2>2, <2>3
<1>2. ASSUME NEW j \in Jobs, RetryTranscode(j) PROVE Typed(S)' /\ QueueInv' /\ BusyInv'
  <2>1. Typed(S)'
    BY <1>2 DEF RetryTranscode, Typed, QueueInv, MsgStates, WorkerPcs, OutStates
  <2>2. QueueInv'
    BY <1>2 DEF RetryTranscode, Typed, QueueInv
  <2>3. BusyInv'
    BY <1>2 DEF RetryTranscode, Typed, BusyInv
  <2> QED BY <2>1, <2>2, <2>3
<1>3. ASSUME NEW w \in Workers, Fetch(w) PROVE Typed(S)' /\ QueueInv' /\ BusyInv'
  <2>1. Typed(S)'
    BY <1>3 DEF Fetch, Typed, QueueInv, MsgStates, WorkerPcs, OutStates
  <2>2. QueueInv'
    BY <1>3 DEF Fetch, Typed, QueueInv
  <2>3. BusyInv'
    BY <1>3 DEF Fetch, Typed, BusyInv
  <2> QED BY <2>1, <2>2, <2>3
<1>4. ASSUME NEW w \in Workers, Crash(w) PROVE Typed(S)' /\ QueueInv' /\ BusyInv'
  <2>1. Typed(S)'
    BY <1>4 DEF Crash, Typed, QueueInv, MsgStates, WorkerPcs, OutStates
  <2>2. QueueInv'
    BY <1>4 DEF Crash, Typed, QueueInv
  <2>3. BusyInv'
    BY <1>4 DEF Crash, Typed, BusyInv
  <2> QED BY <2>1, <2>2, <2>3
<1>5. ASSUME NEW w \in Workers, StopOnBadMessage(w) PROVE Typed(S)' /\ QueueInv' /\ BusyInv'
  <2>1. Typed(S)'
    BY <1>5 DEF StopOnBadMessage, Typed, QueueInv, MsgStates, WorkerPcs, OutStates
  <2>2. QueueInv'
    BY <1>5 DEF StopOnBadMessage, Typed, QueueInv
  <2>3. BusyInv'
    BY <1>5 DEF StopOnBadMessage, Typed, BusyInv
  <2> QED BY <2>1, <2>2, <2>3
<1>6. ASSUME NEW w \in Workers, PrepareFails(w) PROVE Typed(S)' /\ QueueInv' /\ BusyInv'
  <2>1. Typed(S)'
    BY <1>6 DEF PrepareFails, Typed, QueueInv, MsgStates, WorkerPcs, OutStates
  <2>2. QueueInv'
    BY <1>6 DEF PrepareFails, Typed, QueueInv
  <2>3. BusyInv'
    BY <1>6 DEF PrepareFails, Typed, BusyInv
  <2> QED BY <2>1, <2>2, <2>3
<1>7. ASSUME NEW w \in Workers, SourceMissing(w) PROVE Typed(S)' /\ QueueInv' /\ BusyInv'
  <2>1. Typed(S)'
    BY <1>7 DEF SourceMissing, Typed, QueueInv, MsgStates, WorkerPcs, OutStates
  <2>2. QueueInv'
    BY <1>7 DEF SourceMissing, Typed, QueueInv
  <2>3. BusyInv'
    BY <1>7 DEF SourceMissing, Typed, BusyInv
  <2> QED BY <2>1, <2>2, <2>3
<1>8. ASSUME NEW w \in Workers, OpenOutput(w) PROVE Typed(S)' /\ QueueInv' /\ BusyInv'
  <2>1. Typed(S)'
    BY <1>8 DEF OpenOutput, Typed, QueueInv, MsgStates, WorkerPcs, OutStates
  <2>2. QueueInv'
    BY <1>8 DEF OpenOutput, Typed, QueueInv
  <2>3. BusyInv'
    BY <1>8 DEF OpenOutput, Typed, BusyInv
  <2> QED BY <2>1, <2>2, <2>3
<1>9. ASSUME NEW w \in Workers, RefuseOutput(w) PROVE Typed(S)' /\ QueueInv' /\ BusyInv'
  <2>1. Typed(S)'
    BY <1>9 DEF RefuseOutput, Typed, QueueInv, MsgStates, WorkerPcs, OutStates
  <2>2. QueueInv'
    BY <1>9 DEF RefuseOutput, Typed, QueueInv
  <2>3. BusyInv'
    BY <1>9 DEF RefuseOutput, Typed, BusyInv
  <2> QED BY <2>1, <2>2, <2>3
<1>10. ASSUME NEW w \in Workers, FfmpegFails(w) PROVE Typed(S)' /\ QueueInv' /\ BusyInv'
  <2>1. Typed(S)'
    BY <1>10 DEF FfmpegFails, Typed, QueueInv, MsgStates, WorkerPcs, OutStates
  <2>2. QueueInv'
    BY <1>10 DEF FfmpegFails, Typed, QueueInv
  <2>3. BusyInv'
    BY <1>10 DEF FfmpegFails, Typed, BusyInv
  <2> QED BY <2>1, <2>2, <2>3
<1>11. ASSUME NEW w \in Workers, FfmpegSucceeds(w) PROVE Typed(S)' /\ QueueInv' /\ BusyInv'
  <2>1. Typed(S)'
    BY <1>11 DEF FfmpegSucceeds, Typed, QueueInv, MsgStates, WorkerPcs, OutStates
  <2>2. QueueInv'
    BY <1>11 DEF FfmpegSucceeds, Typed, QueueInv
  <2>3. BusyInv'
    BY <1>11 DEF FfmpegSucceeds, Typed, BusyInv
  <2> QED BY <2>1, <2>2, <2>3
<1>12. ASSUME NEW w \in Workers, RemoveRaw(w) PROVE Typed(S)' /\ QueueInv' /\ BusyInv'
  <2>1. Typed(S)'
    BY <1>12 DEF RemoveRaw, Typed, QueueInv, MsgStates, WorkerPcs, OutStates
  <2>2. QueueInv'
    BY <1>12 DEF RemoveRaw, Typed, QueueInv
  <2>3. BusyInv'
    BY <1>12 DEF RemoveRaw, Typed, BusyInv
  <2> QED BY <2>1, <2>2, <2>3
<1>13. ASSUME NEW w \in Workers, RenameRaw(w) PROVE Typed(S)' /\ QueueInv' /\ BusyInv'
  <2>1. Typed(S)'
    <3>1. raw' \in [Jobs -> BOOLEAN] /\ local' \in [Workers -> BOOLEAN]
      BY <1>13 DEF RenameRaw, Typed
    <3>2. out' \in [Jobs -> OutStates]
      BY <1>13 DEF RenameRaw, Typed, OutStates
    <3>3. pc' \in [Workers -> WorkerPcs]
      BY <1>13 DEF RenameRaw, Typed, WorkerPcs
    <3> QED BY <1>13, <3>1, <3>2, <3>3 DEF RenameRaw, Typed
  <2>2. QueueInv'
    BY <1>13 DEF RenameRaw, Typed, QueueInv
  <2>3. BusyInv'
    BY <1>13 DEF RenameRaw, Typed, BusyInv
  <2> QED BY <2>1, <2>2, <2>3
<1>14. ASSUME NEW w \in Workers, StatOutput(w) PROVE Typed(S)' /\ QueueInv' /\ BusyInv'
  <2>1. Typed(S)'
    BY <1>14 DEF StatOutput, Typed, QueueInv, MsgStates, WorkerPcs, OutStates
  <2>2. QueueInv'
    BY <1>14 DEF StatOutput, Typed, QueueInv
  <2>3. BusyInv'
    BY <1>14 DEF StatOutput, Typed, BusyInv
  <2> QED BY <2>1, <2>2, <2>3
<1>15. ASSUME NEW w \in Workers, ReportProceeded(w) PROVE Typed(S)' /\ QueueInv' /\ BusyInv'
  <2>1. Typed(S)'
    <3>1. proceeded' \in [Jobs -> Nat] /\ reportLost' \subseteq Jobs
      <4>1. job[w] \in Jobs /\ proceeded[job[w]] + 1 \in Nat
        BY <1>15 DEF ReportProceeded, Typed, BusyInv
      <4> QED BY <1>15, <4>1 DEF ReportProceeded, Typed
    <3>2. pc' \in [Workers -> WorkerPcs]
      BY <1>15 DEF ReportProceeded, Typed, WorkerPcs
    <3> QED BY <1>15, <3>1, <3>2 DEF ReportProceeded, Typed
  <2>2. QueueInv'
    BY <1>15 DEF ReportProceeded, Typed, QueueInv
  <2>3. BusyInv'
    BY <1>15 DEF ReportProceeded, Typed, BusyInv
  <2> QED BY <2>1, <2>2, <2>3
<1>16. ASSUME NEW w \in Workers, Settle(w) PROVE Typed(S)' /\ QueueInv' /\ BusyInv'
  <2>1. Typed(S)'
    <3>1. msg' \in [Jobs -> S]
      BY <1>16 DEF Settle, Typed, MsgStates
    <3>2. finished' \in [Jobs -> {None, "success", "failure"}]
      BY <1>16 DEF Settle, Typed
    <3>3. /\ pc' \in [Workers -> WorkerPcs] /\ job' \in [Workers -> Jobs \cup {None}]
          /\ local' \in [Workers -> BOOLEAN]
      BY <1>16 DEF Settle, Typed, WorkerPcs
    <3> QED BY <1>16, <3>1, <3>2, <3>3 DEF Settle, Typed
  <2>2. QueueInv'
    BY <1>16 DEF Settle, Typed, QueueInv
  <2>3. BusyInv'
    BY <1>16 DEF Settle, Typed, BusyInv
  <2> QED BY <2>1, <2>2, <2>3
<1>17. ASSUME NEW w \in Workers, FetchRaw(w) PROVE Typed(S)' /\ QueueInv' /\ BusyInv'
  <2>1. Typed(S)'
    BY <1>17 DEF FetchRaw, Typed, QueueInv, MsgStates, WorkerPcs, OutStates
  <2>2. QueueInv'
    BY <1>17 DEF FetchRaw, Typed, QueueInv
  <2>3. BusyInv'
    BY <1>17 DEF FetchRaw, Typed, BusyInv
  <2> QED BY <2>1, <2>2, <2>3
<1>18. ASSUME NEW w \in Workers, RemoveOriginal(w) PROVE Typed(S)' /\ QueueInv' /\ BusyInv'
  <2>1. Typed(S)'
    BY <1>18 DEF RemoveOriginal, Typed, QueueInv, MsgStates, WorkerPcs, OutStates
  <2>2. QueueInv'
    BY <1>18 DEF RemoveOriginal, Typed, QueueInv
  <2>3. BusyInv'
    BY <1>18 DEF RemoveOriginal, Typed, BusyInv
  <2> QED BY <2>1, <2>2, <2>3
<1> QED BY <1>1, <1>2, <1>3, <1>4, <1>5, <1>6, <1>7, <1>8, <1>9, <1>10, <1>11, <1>12,
      <1>13, <1>14, <1>15, <1>16, <1>17, <1>18 DEF TranscoderStep, WorkerStep

\* Every step of the specification does.
LEMMA TypeNext == TypeInv /\ [Next]_vars => TypeInv'
<1> SUFFICES ASSUME TypeInv, [Next]_vars PROVE TypeInv'
  OBVIOUS
<1>1. Typed(MsgStates) /\ QueueInv /\ BusyInv
  BY DEF TypeInv, TypeOK, Typed
<1>2. CASE TranscoderStep
  <2>1. Typed(MsgStates)' /\ QueueInv' /\ BusyInv'
    BY <1>1, <1>2, TypedStep
  <2> QED BY <2>1 DEF TypeInv, TypeOK, Typed
<1>3. CASE UNCHANGED vars
  BY <1>3 DEF vars, queue, workers, files, told, bounds, TypeInv, TypeOK, QueueInv,
     BusyInv
<1> QED BY <1>2, <1>3 DEF Next, TranscoderStep, Terminated

\* Type correctness, with outages and every kind of job: a message is never
\* delivered more than MaxDeliver times.
THEOREM TypeCorrect == Spec => []TypeOK
<1>1. TypeInv => TypeOK
  BY DEF TypeInv
<1> QED BY <1>1, TypeInit, TypeNext, PTL DEF Spec

-----------------------------------------------------------------------------

\* A job in work is out for its worker, and nobody else has it.
WorkInv ==
    /\ \A w \in Workers : job[w] # None => msg[job[w]] = "delivered"
    /\ \A w, x \in Workers : job[w] # None /\ job[w] = job[x] => w = x

\* The raw file stays until ffmpeg has ended well, and from then on the output
\* is complete; a copy is only worked on while its original is there.
FileInv ==
    /\ \A w \in Workers :
          /\ pc[w] = "ffmpeg" => raw[job[w]] /\ out[job[w]] = "partial"
          /\ pc[w] \in {"removeRaw", "stat", "report"} => out[job[w]] = "whole"
    /\ \A w \in Workers : local[w] =>
          /\ job[w] # None /\ Kind[job[w]] = "remote"
          /\ pc[w] \in {"start", "ffmpeg"} => raw[job[w]]
    /\ RecordingNeverLost

IInv == TypeInv /\ WorkInv /\ FileInv

-----------------------------------------------------------------------------

\* The initial states satisfy the invariant.
LEMMA InitInv == ASSUME Favourable, Init PROVE IInv
<1>1. TypeInv
  BY TypeInit
<1>2. WorkInv
  BY TranscoderAssumption DEF Init, WorkInv
<1>3. ASSUME NEW j \in Jobs PROVE raw[j] = TRUE
  BY DEF Init, Favourable
<1>4. FileInv
  BY <1>3, TranscoderAssumption DEF Init, FileInv, RecordingNeverLost
<1> QED BY <1>1, <1>2, <1>4 DEF IInv

\* Every step keeps it.
LEMMA NextInv == ASSUME Favourable, IInv, [Next]_vars PROVE IInv'
<1> USE TranscoderAssumption DEF IInv, TypeInv, BusyInv, Favourable, queue, workers, files, told,
      bounds, Goto, Nak, Requeued
<1>1. CASE UNCHANGED vars
  BY <1>1 DEF vars, TypeOK, QueueInv, BusyInv, WorkInv, FileInv, RecordingNeverLost
<1>2. ASSUME NEW j \in Jobs, AckWaitExpires(j) PROVE WorkInv' /\ FileInv'
  <2>1. WorkInv'
    BY <1>2 DEF AckWaitExpires, TypeOK, WorkInv, HeldBy
  <2>2. FileInv'
    BY <1>2 DEF AckWaitExpires, TypeOK, WorkInv, FileInv, RecordingNeverLost, OutStates
  <2> QED BY <2>1, <2>2
<1>3. ASSUME NEW j \in Jobs, RetryTranscode(j) PROVE WorkInv' /\ FileInv'
  <2>1. WorkInv'
    BY <1>3 DEF RetryTranscode, TypeOK, WorkInv
  <2>2. FileInv'
    BY <1>3 DEF RetryTranscode, TypeOK, WorkInv, FileInv, RecordingNeverLost, OutStates
  <2> QED BY <2>1, <2>2
<1>4. ASSUME NEW w \in Workers, Fetch(w) PROVE WorkInv' /\ FileInv'
  <2>1. WorkInv'
    BY <1>4 DEF Fetch, TypeOK, WorkInv
  <2>2. FileInv'
    BY <1>4 DEF Fetch, TypeOK, WorkInv, FileInv, RecordingNeverLost, OutStates
  <2> QED BY <2>1, <2>2
<1>5. ASSUME NEW w \in Workers, Crash(w) PROVE WorkInv' /\ FileInv'
  <2>1. WorkInv'
    BY <1>5 DEF Crash, TypeOK, WorkInv
  <2>2. FileInv'
    BY <1>5 DEF Crash, TypeOK, WorkInv, FileInv, RecordingNeverLost, OutStates
  <2> QED BY <2>1, <2>2
<1>6. ASSUME NEW w \in Workers, StopOnBadMessage(w) PROVE WorkInv' /\ FileInv'
  <2>1. WorkInv'
    BY <1>6 DEF StopOnBadMessage, TypeOK, WorkInv
  <2>2. FileInv'
    BY <1>6 DEF StopOnBadMessage, TypeOK, WorkInv, FileInv, RecordingNeverLost, OutStates
  <2> QED BY <2>1, <2>2
<1>7. ASSUME NEW w \in Workers, PrepareFails(w) PROVE WorkInv' /\ FileInv'
  <2>1. WorkInv'
    BY <1>7 DEF PrepareFails, TypeOK, WorkInv
  <2>2. FileInv'
    BY <1>7 DEF PrepareFails, TypeOK, WorkInv, FileInv, RecordingNeverLost, OutStates
  <2> QED BY <2>1, <2>2
<1>8. ASSUME NEW w \in Workers, SourceMissing(w) PROVE WorkInv' /\ FileInv'
  <2>1. WorkInv'
    BY <1>8 DEF SourceMissing, TypeOK, WorkInv
  <2>2. FileInv'
    BY <1>8 DEF SourceMissing, TypeOK, WorkInv, FileInv, RecordingNeverLost, OutStates, SourceExists
  <2> QED BY <2>1, <2>2
<1>9. ASSUME NEW w \in Workers, OpenOutput(w) PROVE WorkInv' /\ FileInv'
  <2>1. WorkInv'
    BY <1>9 DEF OpenOutput, TypeOK, WorkInv
  <2>2. FileInv'
    BY <1>9 DEF OpenOutput, TypeOK, WorkInv, FileInv, RecordingNeverLost, OutStates,
       SourceExists, UsesFfmpeg
  <2> QED BY <2>1, <2>2
<1>10. ASSUME NEW w \in Workers, RefuseOutput(w) PROVE WorkInv' /\ FileInv'
  <2>1. WorkInv'
    BY <1>10 DEF RefuseOutput, TypeOK, WorkInv
  <2>2. FileInv'
    BY <1>10 DEF RefuseOutput, TypeOK, WorkInv, FileInv, RecordingNeverLost, OutStates,
       SourceExists, UsesFfmpeg
  <2> QED BY <2>1, <2>2
<1>11. ASSUME NEW w \in Workers, FfmpegFails(w) PROVE WorkInv' /\ FileInv'
  <2>1. WorkInv'
    BY <1>11 DEF FfmpegFails, TypeOK, WorkInv
  <2>2. FileInv'
    BY <1>11 DEF FfmpegFails, TypeOK, WorkInv, FileInv, RecordingNeverLost, OutStates
  <2> QED BY <2>1, <2>2
<1>12. ASSUME NEW w \in Workers, FfmpegSucceeds(w) PROVE WorkInv' /\ FileInv'
  <2>1. WorkInv'
    BY <1>12 DEF FfmpegSucceeds, TypeOK, WorkInv
  <2>2. FileInv'
    BY <1>12 DEF FfmpegSucceeds, TypeOK, WorkInv, FileInv, RecordingNeverLost, OutStates
  <2> QED BY <2>1, <2>2
<1>13. ASSUME NEW w \in Workers, RemoveRaw(w) PROVE WorkInv' /\ FileInv'
  <2>1. WorkInv'
    BY <1>13 DEF RemoveRaw, TypeOK, WorkInv
  <2>2. FileInv'
    BY <1>13 DEF RemoveRaw, TypeOK, WorkInv, FileInv, RecordingNeverLost, OutStates
  <2> QED BY <2>1, <2>2
<1>14. ASSUME NEW w \in Workers, RenameRaw(w) PROVE WorkInv' /\ FileInv'
  <2>1. WorkInv'
    BY <1>14 DEF RenameRaw, TypeOK, WorkInv
  <2>2. FileInv'
    BY <1>14 DEF RenameRaw, TypeOK, WorkInv, FileInv, RecordingNeverLost, OutStates,
       SourceExists, UsesFfmpeg
  <2> QED BY <2>1, <2>2
<1>15. ASSUME NEW w \in Workers, StatOutput(w) PROVE WorkInv' /\ FileInv'
  <2>1. WorkInv'
    BY <1>15 DEF StatOutput, TypeOK, WorkInv
  <2>2. FileInv'
    BY <1>15 DEF StatOutput, TypeOK, WorkInv, FileInv, RecordingNeverLost, OutStates
  <2> QED BY <2>1, <2>2
<1>16. ASSUME NEW w \in Workers, ReportProceeded(w) PROVE WorkInv' /\ FileInv'
  <2>1. WorkInv'
    BY <1>16 DEF ReportProceeded, TypeOK, WorkInv
  <2>2. FileInv'
    BY <1>16 DEF ReportProceeded, TypeOK, WorkInv, FileInv, RecordingNeverLost, OutStates
  <2> QED BY <2>1, <2>2
<1>17. ASSUME NEW w \in Workers, Settle(w) PROVE WorkInv' /\ FileInv'
  <2>1. WorkInv'
    BY <1>17 DEF Settle, TypeOK, WorkInv
  <2>2. FileInv'
    BY <1>17 DEF Settle, TypeOK, WorkInv, FileInv, RecordingNeverLost, OutStates
  <2> QED BY <2>1, <2>2
<1>18. ASSUME NEW w \in Workers, FetchRaw(w) PROVE WorkInv' /\ FileInv'
  <2>1. WorkInv'
    BY <1>18 DEF FetchRaw, WorkInv
  <2>2. FileInv'
    BY <1>18 DEF FetchRaw, TypeOK, WorkInv, FileInv, RecordingNeverLost
  <2> QED BY <2>1, <2>2
<1>19. ASSUME NEW w \in Workers, RemoveOriginal(w) PROVE WorkInv' /\ FileInv'
  <2>1. WorkInv'
    BY <1>19 DEF RemoveOriginal, WorkInv
  <2>2. FileInv'
    BY <1>19 DEF RemoveOriginal, TypeOK, WorkInv, FileInv, RecordingNeverLost
  <2> QED BY <2>1, <2>2
<1>20. TypeInv'
  BY TypeNext
<1> QED
  BY <1>1, <1>2, <1>3, <1>4, <1>5, <1>6, <1>7, <1>8, <1>9, <1>10, <1>11, <1>12, <1>13,
     <1>14, <1>15, <1>16, <1>17, <1>18, <1>19, <1>20
     DEF Next, WorkerStep, Terminated, TranscoderStep

-----------------------------------------------------------------------------

\* The inductive invariant holds in every behavior.
THEOREM Inductive == ASSUME Favourable PROVE Spec => []IInv
<1>1. Init => IInv
  BY Favourable, InitInv
<1>2. IInv /\ [Next]_vars => IInv'
  BY Favourable, NextInv
<1> QED BY <1>1, <1>2, PTL DEF Spec

\* Whatever workers crash, ffmpeg fails or the queue delivers again, the
\* content of a recording is in its raw file or in a complete output.
THEOREM NoRecordingLost == ASSUME Favourable PROVE Spec => []RecordingNeverLost
<1>1. IInv => RecordingNeverLost
  BY DEF IInv, FileInv
<1> QED BY <1>1, Favourable, Inductive, PTL

\* A job is worked on by one worker at a time.
THEOREM OneWorker == ASSUME Favourable PROVE Spec => []OneWorkerPerJob
<1>1. IInv => OneWorkerPerJob
  BY DEF IInv, WorkInv, OneWorkerPerJob, HeldBy
<1> QED BY <1>1, Favourable, Inductive, PTL

\* plugNmeet is never told of a file that is not complete.
THEOREM ReportsAreTrue == ASSUME Favourable PROVE Spec => ReportedHasFile
<1>1. IInv /\ [Next]_vars =>
        [\A j \in Jobs : proceeded'[j] > proceeded[j] => out[j] = "whole"]_vars
  <2> SUFFICES ASSUME IInv, Next, NEW j \in Jobs, proceeded'[j] > proceeded[j]
               PROVE  out[j] = "whole"
    OBVIOUS
  <2>1. proceeded[j] \in Nat
    BY DEF IInv, TypeInv, TypeOK
  <2>2. PICK w \in Workers : ReportProceeded(w)
    BY <2>1 DEF Next, WorkerStep, Terminated, vars, told, bounds, AckWaitExpires,
       RetryTranscode, Fetch, Crash, StopOnBadMessage, PrepareFails,
       FetchRaw, RemoveOriginal, SourceMissing, OpenOutput, RefuseOutput,
       FfmpegFails, FfmpegSucceeds,
       RemoveRaw, RenameRaw, StatOutput, Settle
  <2>3. job[w] = j
    BY <2>1, <2>2 DEF ReportProceeded, IInv, TypeInv, TypeOK
  <2> QED BY <2>2, <2>3 DEF ReportProceeded, IInv, FileInv
<1> QED BY <1>1, Favourable, Inductive, PTL DEF Spec, ReportedHasFile

-----------------------------------------------------------------------------

\* plugNmeet heard of the job once, or its only report was lost.
ReportTried(j) == proceeded[j] = 1 \/ (proceeded[j] = 0 /\ j \in reportLost)

ReportUntried(j) == proceeded[j] = 0 /\ j \notin reportLost

\* Until a worker crashes, a job that is out is in somebody's hands, what was
\* reported is what the queue and its holder know of, and a raw file that is gone
\* belongs to a job that is done or about to be.
ReportInv ==
    crashes = 0 =>
        /\ \A j \in Jobs :
              /\ msg[j] = "delivered" => \E w \in Workers : job[w] = j
              /\ msg[j] = "acked" => ReportTried(j)
              /\ msg[j] \in {"queued", "dropped"} => ReportUntried(j)
              /\ ~raw[j] => \/ msg[j] = "acked"
                            \/ \E w \in Workers : /\ job[w] = j
                                                  /\ pc[w] \in {"stat", "report", "ack"}
        /\ \A w \in Workers : job[w] # None =>
              /\ pc[w] = "ack" => ReportTried(job[w])
              /\ pc[w] # "ack" => ReportUntried(job[w])

\* Every step keeps it, given the first invariant.
LEMMA ReportNext ==
    ASSUME Favourable, IInv, ReportInv, [Next]_vars PROVE ReportInv'
<1> USE TranscoderAssumption DEF Favourable, ReportInv, ReportTried, ReportUntried,
      queue, workers, files, told, bounds, Goto, Nak, Requeued
<1>1. TypeOK /\ BusyInv /\ WorkInv /\ FileInv
  BY DEF IInv, TypeInv
<1>2. CASE UNCHANGED vars
  BY <1>2 DEF vars
<1>3. ASSUME NEW j \in Jobs, AckWaitExpires(j) PROVE ReportInv'
  BY <1>1, <1>3 DEF AckWaitExpires, HeldBy, TypeOK
<1>4. ASSUME NEW j \in Jobs, RetryTranscode(j) PROVE ReportInv'
  BY <1>1, <1>4 DEF RetryTranscode, TypeOK
<1>5. ASSUME NEW w \in Workers, Fetch(w) PROVE ReportInv'
  BY <1>1, <1>5 DEF Fetch, TypeOK, BusyInv, WorkInv, FileInv
<1>6. ASSUME NEW w \in Workers, Crash(w) PROVE ReportInv'
  BY <1>1, <1>6 DEF Crash, TypeOK, BusyInv, WorkInv, FileInv
<1>7. ASSUME NEW w \in Workers, StopOnBadMessage(w) PROVE ReportInv'
  BY <1>1, <1>7 DEF StopOnBadMessage, TypeOK, BusyInv, WorkInv, FileInv
<1>8. ASSUME NEW w \in Workers, PrepareFails(w) PROVE ReportInv'
  BY <1>1, <1>8 DEF PrepareFails, TypeOK, BusyInv, WorkInv, FileInv
<1>9. ASSUME NEW w \in Workers, FetchRaw(w) PROVE ReportInv'
  BY <1>1, <1>9 DEF FetchRaw, TypeOK, BusyInv, WorkInv, FileInv
<1>10. ASSUME NEW w \in Workers, SourceMissing(w) PROVE ReportInv'
  BY <1>1, <1>10 DEF SourceMissing, TypeOK, BusyInv, WorkInv, FileInv, SourceExists
<1>11. ASSUME NEW w \in Workers, OpenOutput(w) PROVE ReportInv'
  BY <1>1, <1>11 DEF OpenOutput, TypeOK, BusyInv, WorkInv, FileInv, SourceExists
<1>12. ASSUME NEW w \in Workers, RefuseOutput(w) PROVE ReportInv'
  BY <1>1, <1>12 DEF RefuseOutput, TypeOK, BusyInv, WorkInv, FileInv, SourceExists
<1>13. ASSUME NEW w \in Workers, FfmpegFails(w) PROVE ReportInv'
  BY <1>1, <1>13 DEF FfmpegFails, TypeOK, BusyInv, WorkInv, FileInv
<1>14. ASSUME NEW w \in Workers, FfmpegSucceeds(w) PROVE ReportInv'
  BY <1>1, <1>14 DEF FfmpegSucceeds, TypeOK, BusyInv, WorkInv, FileInv
<1>15. ASSUME NEW w \in Workers, RemoveRaw(w) PROVE ReportInv'
  BY <1>1, <1>15 DEF RemoveRaw, TypeOK, BusyInv, WorkInv, FileInv
<1>16. ASSUME NEW w \in Workers, RenameRaw(w) PROVE ReportInv'
  BY <1>1, <1>16 DEF RenameRaw, TypeOK, BusyInv, WorkInv, FileInv, SourceExists
<1>17. ASSUME NEW w \in Workers, StatOutput(w) PROVE ReportInv'
  BY <1>1, <1>17 DEF StatOutput, TypeOK, BusyInv, WorkInv, FileInv, None
<1>18. ASSUME NEW w \in Workers, RemoveOriginal(w) PROVE ReportInv'
  BY <1>1, <1>18 DEF RemoveOriginal, TypeOK, BusyInv, WorkInv, FileInv
<1>19. ASSUME NEW w \in Workers, ReportProceeded(w) PROVE ReportInv'
  BY <1>1, <1>19 DEF ReportProceeded, TypeOK, BusyInv, WorkInv, FileInv
<1>20. ASSUME NEW w \in Workers, Settle(w) PROVE ReportInv'
  BY <1>1, <1>20 DEF Settle, TypeOK, BusyInv, WorkInv, FileInv
<1> QED
  BY <1>2, <1>3, <1>4, <1>5, <1>6, <1>7, <1>8, <1>9, <1>10, <1>11, <1>12, <1>13, <1>14,
     <1>15, <1>16, <1>17, <1>18, <1>19, <1>20
     DEF Next, WorkerStep, Terminated

\* Unless a worker crashes, plugNmeet hears of each recording exactly once before
\* its job is done, unless that one report was lost, and never of one whose job is
\* given up.
THEOREM ReportedOnce == ASSUME Favourable PROVE Spec => []AckedIsReportedOnce
<1>1. Init => ReportInv
  <2> SUFFICES ASSUME Init PROVE ReportInv
    OBVIOUS
  <2>1. /\ \A j \in Jobs : msg[j] = "queued" /\ ReportUntried(j) /\ raw[j]
        /\ \A w \in Workers : job[w] = None
    BY Favourable DEF Init, Favourable, ReportUntried
  <2> QED BY <2>1 DEF ReportInv
<1>2. IInv /\ ReportInv /\ [Next]_vars => ReportInv'
  BY Favourable, ReportNext
<1>3. ReportInv => AckedIsReportedOnce
  BY DEF ReportInv, ReportTried, ReportUntried, AckedIsReportedOnce
<1> QED BY <1>1, <1>2, <1>3, Favourable, Inductive, PTL DEF Spec
=============================================================================
