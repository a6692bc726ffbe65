------------------------- MODULE MCRecorderProgress -------------------------
(* The instance of MCRecorderController, with the counts observed.             *)
EXTENDS RecorderProgress

CONSTANTS recording, rtmp   \* model values

MCTasks     == {recording, rtmp}
MCRtmpTasks == {rtmp}
=============================================================================
