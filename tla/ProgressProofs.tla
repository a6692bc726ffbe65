--------------------------- MODULE ProgressProofs ---------------------------
(* What plugNmeet reads as the number of tasks in progress, for any number of   *)
(* tasks, recorders and counts under way.                                       *)
EXTENDS RecorderProgress, ControllerProofs

\* Somebody is going to count the map: the handler after a start, or a recorder
\* on its way to the Delete of its onAfterClose.  A stopper sent to a recorder
\* that has passed it will change nothing, and is not one of them.
Uncounted(s) == endPc[s] \in {"none", "delete"}

CountOwed ==
    \/ handlerPc = "count"
    \/ handlerPc = "starting" /\ Uncounted(handlerSession)
    \/ \E s \in stopReq : Uncounted(s)
    \/ \E s \in Sessions : phase[s] \in {"closing", "handover"} /\ Uncounted(s)

\* At most one count is under way.
OneCount ==
    /\ handlerPc = "put" => \A s \in Sessions : endPc[s] # "put"
    /\ \A s, x \in Sessions : endPc[s] = "put" /\ endPc[x] = "put" => s = x

\* That count, or the bucket if there is none, agrees with the map.
CountCurrent ==
    /\ handlerPc = "put" => handlerCount = Cardinality(InProgress)
    /\ \A s \in Sessions :
          endPc[s] = "put" => endCount[s] = Cardinality(InProgress)
    /\ ~CountPending => progress \in {Cardinality(InProgress), Purged}

ProgressInv ==
    /\ lone \in BOOLEAN
    /\ lone /\ ~Gone => OneCount /\ (CountOwed \/ CountCurrent)

-----------------------------------------------------------------------------

\* No count is taken or put.
PendingKept ==
    /\ handlerPc' = "put" <=> handlerPc = "put"
    /\ \A s \in Sessions : endPc'[s] = "put" <=> endPc[s] = "put"

\* The map and the counts of it stay, except that the key may be purged.
CountsKept ==
    /\ UNCHANGED <<recordersInProgress, handlerCount, endCount>>
    /\ progress' \in {progress, Purged}

\* A step that neither takes nor puts a count keeps the invariant if it leaves a
\* count owed, or changes no count and settles no debt.
LEMMA PendingKeptInv ==
  ASSUME ProgressInv, Observe, ~Gone, PendingKept,
         CountOwed' \/ (CountsKept /\ ~CountOwed)
  PROVE  ProgressInv'
<1>1. ~CountTaken
  BY DEF CountTaken, PendingKept
<1>2. lone' = (lone /\ ~CountLost)
  BY <1>1, Zenon DEF Observe
<1>3. lone' \in BOOLEAN /\ (lone' => lone)
  BY <1>2, Zenon DEF ProgressInv
<1>4. OneCount => OneCount'
  BY DEF OneCount, PendingKept
<1>5. CountPending' <=> CountPending
  BY DEF CountPending, PendingKept
<1>6. CountsKept /\ CountCurrent => CountCurrent'
  BY <1>5 DEF CountsKept, CountCurrent, PendingKept, InProgress
<1> QED BY <1>3, <1>4, <1>6 DEF ProgressInv

\* A step that takes a count while no other one is under way makes it current.
LEMMA CountTakenInv ==
  ASSUME Observe, CountTaken, ~CountPending => OneCount' /\ CountCurrent'
  PROVE  ProgressInv'
<1>1. lone' = ~CountPending
  BY Zenon DEF Observe
<1>2. lone' \in BOOLEAN
  BY <1>1, Zenon
<1> QED BY <1>1, <1>2, Zenon DEF ProgressInv

\* A step that ends the only count under way by putting it, as long as it owes
\* what was owed before.
LEMMA CountPutInv ==
  ASSUME ProgressInv, Observe, ~Gone, ~CountTaken, OneCount => OneCount',
         CountOwed => CountOwed',
         OneCount /\ CountCurrent /\ ~CountLost => CountCurrent'
  PROVE  ProgressInv'
<1>1. lone' = (lone /\ ~CountLost)
  BY Zenon DEF Observe
<1>2. lone' \in BOOLEAN /\ (lone' => lone /\ ~CountLost)
  BY <1>1, Zenon DEF ProgressInv
<1> QED BY <1>2, Zenon DEF ProgressInv

\* Close owes a count for a recorder that has not had one, and settles none.
LEMMA CallCloseOwed ==
  ASSUME IInv, ~Gone, NEW s \in Sessions, CallClose(s), phase[s] # "new",
         UNCHANGED endPc,
         \/ Uncounted(s)
         \/ \E x \in Sessions : phase[x] \in {"closing", "handover"} /\ Uncounted(x)
  PROVE  CountOwed'
<1>1. CASE Uncounted(s)
  <2>1. phase'[s] \in {"closing", "handover"}
    BY <1>1 DEF IInv, CallClose, TypeOK, PhaseInv, Gone, Phases, Uncounted
  <2> QED BY <1>1, <2>1 DEF CountOwed, Uncounted
<1>2. ASSUME NEW x \in Sessions, phase[x] \in {"closing", "handover"}, Uncounted(x)
      PROVE  CountOwed'
  BY <1>2 DEF IInv, TypeOK, CallClose, CountOwed, Uncounted
<1> QED BY <1>1, <1>2

\* Counting the map: the count is current until the map changes.
LEMMA MapDeleteCounts ==
  ASSUME IInv, NEW s \in Sessions, MapDelete(s)
  PROVE  /\ endCount' = [endCount EXCEPT ![s] = Cardinality(InProgress')]
         /\ endPc' = [endPc EXCEPT ![s] = "put"]
         /\ endPc[s] = "delete" /\ UNCHANGED handlerPc
<1>1. task[s] \in Tasks
  BY DEF IInv, TypeOK, PhaseInv, MapDelete, EndStep, None
<1>2. InProgress' = InProgress \ {task[s]}
  BY <1>1 DEF IInv, TypeOK, MapDelete, InProgress
<1> QED BY <1>2 DEF MapDelete, EndStep, handlerVars

\* Every step of the controller, with the history it leaves, keeps the invariant.
LEMMA ProgressNext ==
  ASSUME IInv, ProgressInv, [Next /\ Observe]_progressVars PROVE ProgressInv'
<1> USE ControllerAssumption DEF None, Sessions, handlerVars, closerVars,
      shutdownVars, outside
<1>1. CASE UNCHANGED progressVars
  BY <1>1 DEF progressVars, vars, ProgressInv, OneCount, CountOwed, CountCurrent,
     CountPending, Uncounted, InProgress, Gone
<1>2. ASSUME Observe PROVE lone' \in BOOLEAN /\ (Gone' => ProgressInv')
  <2>1. lone' \in BOOLEAN
    BY <1>2, Zenon DEF Observe, ProgressInv
  <2> QED BY <2>1 DEF ProgressInv
<1>3. ASSUME Observe, ~Gone, StartReturns PROVE ProgressInv'
  <2>1. PendingKept /\ CountOwed'
    BY <1>3 DEF StartReturns, PendingKept, CountOwed
  <2> QED BY <1>3, <2>1, PendingKeptInv
<1>4. ASSUME Observe, ~Gone, StartFails PROVE ProgressInv'
  <2>1. PendingKept /\ CountsKept
    BY <1>4 DEF StartFails, PendingKept, CountsKept
  <2>2. /\ handlerSession \in Sessions /\ phase[handlerSession] # "new"
        /\ CallClose(handlerSession) /\ UNCHANGED <<stopReq, endPc>>
    BY <1>4 DEF StartFails, IInv, TypeOK, HandlerInv
  <2>3. ASSUME CountOwed PROVE CountOwed'
    <3>1. CASE \E x \in stopReq : Uncounted(x)
      BY <2>2, <3>1 DEF CountOwed, Uncounted
    <3> QED BY <1>4, <2>2, <2>3, <3>1, CallCloseOwed DEF StartFails, CountOwed
  <2> QED BY <1>4, <2>1, <2>3, PendingKeptInv
<1>5. ASSUME Observe, ~Gone, HandlerClosed PROVE ProgressInv'
  <2>1. /\ PendingKept /\ CountsKept
        /\ CountOwed => CountOwed'
    BY <1>5 DEF HandlerClosed, PendingKept, CountsKept, CountOwed, Uncounted
  <2> QED BY <1>5, <2>1, PendingKeptInv
<1>6. ASSUME Observe, CountStarted PROVE ProgressInv'
  <2>1. CountTaken /\ (~CountPending => OneCount')
    BY <1>6 DEF CountStarted, CountTaken, CountPending, OneCount
  <2>2. ~CountPending => CountCurrent'
    BY <1>6 DEF CountStarted, CountCurrent, CountPending, InProgress
  <2> QED BY <1>6, <2>1, <2>2, CountTakenInv
<1>7. ASSUME Observe, ~Gone, PutStarted PROVE ProgressInv'
  <2>1. handlerPc = "put" /\ handlerPc' = "idle"
        /\ UNCHANGED <<recordersInProgress, phase, stopReq, endPc, endCount>>
    BY <1>7 DEF PutStarted
  <2>2. ~CountTaken /\ (OneCount => OneCount') /\ (CountOwed => CountOwed')
    BY <2>1 DEF CountTaken, OneCount, CountOwed, Uncounted
  <2>3. ASSUME OneCount, CountCurrent, ~CountLost PROVE CountCurrent'
    <3>1. progress' = Cardinality(InProgress)
      BY <2>1, <2>3 DEF CountLost, CountCurrent
    <3> QED BY <2>1, <2>3, <3>1 DEF OneCount, CountCurrent, InProgress
  <2> QED BY <1>7, <2>2, <2>3, CountPutInv
<1>8. ASSUME Observe, ~Gone, NEW s \in Sessions, RunStop(s) PROVE ProgressInv'
  <2>1. PendingKept /\ CountsKept
    BY <1>8 DEF RunStop, PendingKept, CountsKept
  <2>2. /\ phase[s] # "new" /\ CallClose(s) /\ stopReq' = stopReq \ {s}
        /\ UNCHANGED <<endPc, handlerPc, handlerSession>>
    BY <1>8 DEF RunStop, IInv, HandlerInv
  <2>3. ASSUME CountOwed PROVE CountOwed'
    <3>1. CASE \E x \in stopReq : x # s /\ Uncounted(x)
      BY <2>2, <3>1 DEF CountOwed, Uncounted
    <3>2. CASE handlerPc = "count" \/ (handlerPc = "starting" /\ Uncounted(handlerSession))
      BY <2>2, <3>2 DEF CountOwed, Uncounted
    <3> QED BY <1>8, <2>2, <2>3, <3>1, <3>2, CallCloseOwed DEF CountOwed
  <2> QED BY <1>8, <2>1, <2>3, PendingKeptInv
<1>9. ASSUME Observe, ~Gone, NEW s \in Sessions, HandOver(s) PROVE ProgressInv'
  <2>1. PendingKept /\ CountsKept /\ CountOwed'
    BY <1>9 DEF HandOver, PendingKept, CountsKept, CountOwed, Uncounted, IInv,
       TypeOK, PhaseInv
  <2> QED BY <1>9, <2>1, PendingKeptInv
<1>10. ASSUME Observe, NEW s \in Sessions, MapDelete(s) PROVE ProgressInv'
  <2>1. /\ endCount' = [endCount EXCEPT ![s] = Cardinality(InProgress')]
        /\ endPc' = [endPc EXCEPT ![s] = "put"]
        /\ endPc[s] = "delete" /\ UNCHANGED handlerPc
    BY <1>10, MapDeleteCounts
  <2>2. CountTaken /\ (~CountPending => OneCount')
    BY <1>10, <2>1 DEF CountTaken, CountPending, OneCount, IInv, TypeOK
  <2>3. ~CountPending => CountCurrent'
    BY <1>10, <2>1 DEF CountPending, CountCurrent, IInv, TypeOK
  <2> QED BY <1>10, <2>2, <2>3, CountTakenInv
<1>11. ASSUME Observe, ~Gone, NEW s \in Sessions, PutEnded(s) PROVE ProgressInv'
  <2>1. /\ endPc[s] = "put" /\ endPc' = [endPc EXCEPT ![s] = "notify"]
        /\ endCount' = [endCount EXCEPT ![s] = 0]
        /\ UNCHANGED <<recordersInProgress, phase, stopReq, handlerPc,
                       handlerSession, handlerCount>>
    BY <1>11 DEF PutEnded, EndStep
  <2>2. ~CountTaken /\ (OneCount => OneCount')
    BY <1>11, <2>1 DEF CountTaken, OneCount, IInv, TypeOK
  <2>3. CountOwed => CountOwed'
    BY <1>11, <2>1 DEF CountOwed, Uncounted, IInv, TypeOK, HandlerInv
  <2>4. ASSUME OneCount, CountCurrent, ~CountLost PROVE CountCurrent'
    <3>1. progress' = Cardinality(InProgress)
      BY <1>11, <2>1, <2>4 DEF CountLost, CountCurrent, IInv, TypeOK
    <3> QED BY <1>11, <2>1, <2>4, <3>1 DEF OneCount, CountCurrent, InProgress,
               IInv, TypeOK
  <2> QED BY <1>11, <2>2, <2>3, <2>4, CountPutInv
<1>12. ASSUME Observe, ~Gone, NEW s \in Sessions,
              NotifyEnd(s) \/ TakeFile(s) \/ Publish(s)
       PROVE  ProgressInv'
  <2>1. PICK pc \in {"file", "publish", "done"} : endPc' = [endPc EXCEPT ![s] = pc]
    BY <1>12 DEF NotifyEnd, TakeFile, Publish, EndStep
  <2>2. /\ endPc[s] \in {"notify", "file", "publish"}
        /\ UNCHANGED <<recordersInProgress, phase, stopReq, handlerPc,
                       handlerSession, handlerCount, endCount, progress>>
    BY <1>12 DEF NotifyEnd, TakeFile, Publish, EndStep
  <2>3. /\ PendingKept /\ CountsKept
        /\ CountOwed => CountOwed'
    BY <1>12, <2>1, <2>2 DEF PendingKept, CountsKept, CountOwed, Uncounted, IInv,
       TypeOK, HandlerInv
  <2> QED BY <1>12, <2>3, PendingKeptInv
<1>13. ASSUME Observe, ~Gone, NEW s \in Sessions, Release(s) PROVE ProgressInv'
  <2>1. /\ PendingKept /\ CountsKept
        /\ CountOwed => CountOwed'
    BY <1>13 DEF Release, PendingKept, CountsKept, CountOwed, Uncounted, IInv,
       TypeOK
  <2> QED BY <1>13, <2>1, PendingKeptInv
<1>14. ASSUME Observe, ~Gone, NEW s \in Sessions, ShutClose(s) \/ SessionEnds(s)
       PROVE  ProgressInv'
  <2>1. PendingKept /\ CountsKept
    BY <1>14 DEF ShutClose, SessionEnds, PendingKept, CountsKept
  <2>2. CallClose(s) /\ UNCHANGED <<stopReq, endPc, handlerPc, handlerSession>>
    BY <1>14 DEF ShutClose, SessionEnds
  <2>3. CountOwed => CountOwed'
    BY <1>14, <2>2 DEF CallClose, CountOwed, Uncounted, IInv, TypeOK
  <2> QED BY <1>14, <2>1, <2>3, PendingKeptInv
<1>15. ASSUME Observe, ~Gone, WaitAll \/ Unregister \/ CloseNats \/ BeginShutdown
       PROVE  ProgressInv'
  <2>1. /\ PendingKept /\ CountsKept
        /\ CountOwed => CountOwed'
    BY <1>15 DEF WaitAll, Unregister, CloseNats, BeginShutdown, PutProgress,
       PendingKept, CountsKept, CountOwed, Uncounted
  <2> QED BY <1>15, <2>1, PendingKeptInv
<1>16. ASSUME Observe, NEW s \in Sessions,
              Exit \/ StopTimeout \/ SessionCrashes(s) \/ Terminated
       PROVE  ProgressInv'
  <2>1. Gone'
    BY <1>16 DEF Exit, StopTimeout, SessionCrashes, Terminated, ShutStep, Gone, vars
  <2> QED BY <1>2, <1>16, <2>1
<1>17. ASSUME Observe, ~Gone, NEW t \in Tasks, HandleStart(t) PROVE ProgressInv'
  <2>1. PICK s \in Sessions : /\ phase[s] = "new" /\ handlerSession' = s
                              /\ handlerPc = "idle" /\ handlerPc' = "starting"
                              /\ UNCHANGED endPc
    BY <1>17 DEF HandleStart
  <2>2. PendingKept /\ CountOwed'
    BY <2>1 DEF PendingKept, CountOwed, Uncounted, IInv, PhaseInv
  <2> QED BY <1>17, <2>2, PendingKeptInv
<1>18. ASSUME Observe, ~Gone, NEW t \in Tasks, HandleStop(t) PROVE ProgressInv'
  <2>1. PendingKept /\ Uncounted(recordersInProgress[t])
    BY <1>18 DEF HandleStop, PendingKept, Uncounted, IInv, MapInv
  <2>2. CountOwed'
    BY <1>18, <2>1 DEF HandleStop, CountOwed, Uncounted
  <2> QED BY <1>18, <2>1, <2>2, PendingKeptInv
<1> QED
  <2>1. ASSUME Observe, Exit \/ StopTimeout \/ Terminated PROVE Gone'
    BY <2>1 DEF Exit, StopTimeout, Terminated, ShutStep, Gone, vars
  <2> QED
    BY <1>1, <1>2, <1>3, <1>4, <1>5, <1>6, <1>7, <1>8, <1>9, <1>10, <1>11, <1>12,
       <1>13, <1>14, <1>15, <1>16, <1>17, <1>18, <2>1
       DEF Next, HandlerStep, SessionStep, ShutdownStep, Env

-----------------------------------------------------------------------------

\* A bucket nobody is about to write holds the number of recorders in the map.
LEMMA QuietIsCurrent == IInv /\ ProgressInv => ProgressIsCurrent
<1> SUFFICES ASSUME IInv, ProgressInv, Quiet, lone, progress # Purged, ~Gone
             PROVE  progress = Cardinality(InProgress)
  BY DEF ProgressIsCurrent
<1>1. ~CountPending
  <2> SUFFICES ASSUME NEW s \in Sessions, endPc[s] = "put" PROVE FALSE
    BY DEF CountPending, Quiet
  <2>1. phase[s] = "handover"
    BY DEF IInv, TypeOK, PhaseInv, Phases, Gone
  <2> QED BY <2>1 DEF Quiet
<1>2. ~CountOwed
  BY DEF CountOwed, Quiet, Uncounted
<1> QED BY <1>1, <1>2 DEF ProgressInv, CountCurrent

\* plugNmeet reads the number of tasks in progress whenever nothing is on its way
\* and the last count was alone and arrived; one such count repairs what counts
\* taken at once or lost have left (updateAndGetProgress).
THEOREM ProgressCurrent == ProgressSpec => []ProgressIsCurrent
<1>1. Init /\ lone = TRUE => IInv /\ ProgressInv
  <2> SUFFICES ASSUME Init, lone = TRUE PROVE IInv /\ ProgressInv
    OBVIOUS
  <2>1. IInv
    BY InitInv
  <2>2. OneCount
    BY DEF Init, OneCount
  <2>3. InProgress = {}
    BY DEF Init, InProgress
  <2>4. CountCurrent
    BY <2>3, FS_EmptySet DEF Init, CountCurrent
  <2> QED BY <2>1, <2>2, <2>4 DEF ProgressInv
<1>2. [Next /\ Observe]_progressVars => [Next]_vars
  BY DEF progressVars
<1>3. IInv /\ ProgressInv /\ [Next /\ Observe]_progressVars => IInv' /\ ProgressInv'
  BY <1>2, NextInv, ProgressNext
<1> QED BY <1>1, <1>3, QuietIsCurrent, PTL DEF ProgressSpec

\* The history observes the controller and restrains nothing: what ControllerProofs
\* proves of Spec holds here too.
LEMMA HistoryObserves == ProgressSpec => Spec
<1>1. [Next /\ Observe]_progressVars => [Next]_vars
  BY DEF progressVars
<1> QED BY <1>1, PTL DEF ProgressSpec, Spec
=============================================================================
