------------------------- MODULE MCRecordingPipeline -------------------------
(* Instances of RecordingPipeline for TLC.  A job is a model value and its kind *)
(* is given here.                                                               *)
EXTENDS RecordingPipeline

CONSTANTS recording, bad, w1, w2

\* A recording, and a message that stops every worker it meets.
MCJobs == {recording, bad}
MCKind == [j \in MCJobs |-> IF j = bad THEN "bad" ELSE "single"]

\* The first worker transcodes, the second only renames.
MCWorkers == {w1, w2}
MCConvert == [w \in MCWorkers |-> w = w1]
=============================================================================
