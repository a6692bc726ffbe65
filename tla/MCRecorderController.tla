------------------------ MODULE MCRecorderController ------------------------
(* Models of RecorderController.tla: a recording and a broadcast of one room,  *)
(* the two tasks a general STOP looks for.                                     *)
EXTENDS RecorderController

CONSTANTS recording, rtmp   \* model values

MCTasks     == {recording, rtmp}
MCOneTask   == {recording}
MCRtmpTasks == {rtmp}
=============================================================================
