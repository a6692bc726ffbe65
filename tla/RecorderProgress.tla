-------------------------- MODULE RecorderProgress --------------------------
(* The number of tasks in progress as plugNmeet reads it, next to the map it is *)
(* counted from: RecorderController with a history of its counts.  The handler   *)
(* and every closer count the map and put the count in two steps, without a lock *)
(* (updateAndGetProgress).                                                       *)
EXTENDS RecorderController

VARIABLE lone   \* the last count was taken while no other one was on its way to
                \* the bucket, and arrived there

progressVars == <<vars, lone>>

\* A count is taken and not put yet.
CountPending == handlerPc = "put" \/ \E s \in Sessions : endPc[s] = "put"

CountTaken ==
    \/ handlerPc # "put" /\ handlerPc' = "put"
    \/ \E s \in Sessions : endPc[s] # "put" /\ endPc'[s] = "put"

CountLost ==
    \/ handlerPc = "put" /\ handlerPc' # "put" /\ progress' # handlerCount
    \/ \E s \in Sessions :
          endPc[s] = "put" /\ endPc'[s] # "put" /\ progress' # endCount[s]

Observe == lone' = IF CountTaken THEN ~CountPending ELSE lone /\ ~CountLost

ProgressSpec == Init /\ lone = TRUE /\ [][Next /\ Observe]_progressVars

-----------------------------------------------------------------------------
(* Properties *)

\* No count is owed: every recorder that was started or is closing has had the
\* map counted, and the count was put.
Quiet ==
    /\ handlerPc = "idle" /\ stopReq = {}
    /\ \A s \in Sessions : phase[s] \in {"closing", "handover"} =>
                              endPc[s] \notin {"none", "delete", "put"}

\* Once nothing is on its way, plugNmeet reads the number of tasks in progress,
\* whatever order starts, stops, failures and closers came in, except that of
\* two counts taken at once the older one may be put last, and a put may fail;
\* the next lone count repairs both.
ProgressIsCurrent ==
    Quiet /\ lone /\ progress # Purged /\ ~Gone =>
        progress = Cardinality(InProgress)
=============================================================================
