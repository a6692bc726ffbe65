-------------------------- MODULE ControllerProofs --------------------------
(* What the controller guarantees for any number of tasks and recorders, in    *)
(* every interleaving of requests, closers, stoppers, the shutdown and crashes. *)
EXTENDS RecorderController, FiniteSetTheorems, TLAPS

\* A recorder gets its task when handleStartTask creates it.  onAfterClose runs
\* inside the hand-over and is over when the recorder has ended, and a recorder
\* that panics takes the program with it.
PhaseInv ==
    \A s \in Sessions :
        /\ phase[s] = "new" <=> task[s] = None
        /\ phase[s] \in {"new", "running", "closing"} => endPc[s] = "none"
        /\ phase[s] = "handover" => endPc[s] # "none"
        /\ phase[s] = "ended" => endPc[s] = "done"
        /\ phase[s] = "crashed" => shutPc = "aborted"

\* END, the file and the job are counted by the position of onAfterClose, and
\* a file that found the connection open has its job unless an outage met it.
EndInv ==
    \A s \in Sessions :
        /\ ended[s] = IF endPc[s] \in {"file", "publish", "done"} THEN 1 ELSE 0
        /\ jobs[s] = 0 \/ (jobs[s] = 1 /\ endPc[s] = "done")
        /\ s \in saved => endPc[s] \in {"publish", "done"}
        /\ endPc[s] = "done" /\ s \in saved /\ s \notin unreached /\ NatsUp =>
               jobs[s] = 1

\* The map holds recorders under their own task, until the Delete of their
\* onAfterClose.
MapInv ==
    \A t \in Tasks : recordersInProgress[t] # None =>
        /\ task[recordersInProgress[t]] = t
        /\ endPc[recordersInProgress[t]] \in {"none", "delete"}

\* The handler has a recorder while it starts or closes one; a stopper is only
\* sent to a recorder that exists.
HandlerInv ==
    /\ handlerPc \in {"starting", "closing"} =>
          handlerSession # None /\ phase[handlerSession] # "new"
    /\ \A s \in stopReq : phase[s] # "new"

\* Once the wait group is through, what the shutdown closed is handed over.
ShutdownInv ==
    /\ shutReq # {} => shutPc \in {"wait", "aborted"}
    /\ shutPc \in {"unregister", "natsClose", "exit", "exited"} =>
          \A s \in waitFor :
              /\ phase[s] = "ended"
              /\ s \in saved /\ s \notin unreached => jobs[s] = 1

\* While no recorder was started before the END of an older one of its task, a
\* task has at most one recorder whose END is outstanding: the Delete of a
\* closer meets its own entry or none.
EarlyInv ==
    early = {} =>
        /\ \A s, x \in Sessions :
              s # x /\ task[s] = task[x] /\ task[s] # None =>
                  ended[s] = 1 \/ ended[x] = 1
        /\ RunningIsRegistered

IInv == /\ TypeOK /\ PhaseInv /\ EndInv /\ MapInv
        /\ HandlerInv /\ ShutdownInv /\ EarlyInv

-----------------------------------------------------------------------------

\* A count of tasks is a number between 0 and the number of all tasks.
LEMMA CountType ==
  ASSUME NEW S, S \subseteq Tasks PROVE Cardinality(S) \in 0..Cardinality(Tasks)
<1>1. IsFiniteSet(Tasks)
  BY ControllerAssumption
<1>2. Cardinality(S) \in Nat /\ Cardinality(Tasks) \in Nat
  BY <1>1, FS_Subset, FS_CardinalityType
<1>3. Cardinality(S) <= Cardinality(Tasks)
  BY <1>1, FS_Subset
<1> QED BY <1>2, <1>3

LEMMA CountZero == 0 \in 0..Cardinality(Tasks)
BY CountType, FS_EmptySet

\* The key holds a count, or nothing.
LEMMA PutType ==
  ASSUME TypeOK, NEW n \in 0..Cardinality(Tasks) \cup {Purged}, PutProgress(n)
  PROVE  progress' \in 0..Cardinality(Tasks) \cup {Purged}
BY DEF TypeOK, PutProgress

\* A step of an onAfterClose that is past its Delete leaves the map as it was.
LEMMA MapPassed ==
  ASSUME TypeOK, MapInv, NEW s \in Sessions, endPc[s] \notin {"none", "delete"},
         NEW to, endPc' = [endPc EXCEPT ![s] = to],
         UNCHANGED <<recordersInProgress, task>>
  PROVE  MapInv'
<1>1. \A x \in Sessions : x # s => endPc'[x] = endPc[x]
  BY DEF TypeOK
<1>2. ASSUME NEW t \in Tasks, recordersInProgress[t] # None
      PROVE  /\ recordersInProgress[t] \in Sessions /\ recordersInProgress[t] # s
             /\ task[recordersInProgress[t]] = t
             /\ endPc[recordersInProgress[t]] \in {"none", "delete"}
  BY <1>2 DEF TypeOK, MapInv
<1> QED BY <1>1, <1>2 DEF MapInv

\* The initial states satisfy the invariant.
LEMMA InitInv == Init => IInv
<1> SUFFICES ASSUME Init PROVE IInv
  OBVIOUS
<1> USE ControllerAssumption DEF Init, None, Sessions
<1>1. TypeOK
  BY CountZero DEF TypeOK, Phases, HandlerPcs, EndPcs, ShutPcs
<1>2. PhaseInv /\ EndInv /\ MapInv /\ HandlerInv /\ ShutdownInv
  BY DEF PhaseInv, EndInv, MapInv, HandlerInv, ShutdownInv
<1>3. EarlyInv
  BY DEF EarlyInv, RunningIsRegistered
<1> QED BY <1>1, <1>2, <1>3 DEF IInv

\* Every step keeps it.
LEMMA NextInv == IInv /\ [Next]_vars => IInv'
<1> SUFFICES ASSUME IInv, [Next]_vars PROVE IInv'
  OBVIOUS
<1> USE ControllerAssumption DEF IInv, None, Sessions, handlerVars, closerVars,
      shutdownVars, outside
<1>1. CASE UNCHANGED vars
  <2>1. TypeOK'
    BY <1>1 DEF vars, TypeOK
  <2>2. PhaseInv' /\ EndInv' /\ MapInv'
    BY <1>1 DEF vars, PhaseInv, EndInv, MapInv, NatsUp
  <2>3. HandlerInv' /\ ShutdownInv'
    BY <1>1 DEF vars, HandlerInv, ShutdownInv
  <2>4. EarlyInv'
    BY <1>1 DEF vars, EarlyInv, RunningIsRegistered
  <2> QED BY <2>1, <2>2, <2>3, <2>4
<1>2. ASSUME ~Gone, StartReturns PROVE IInv'
  <2>1. TypeOK'
    BY <1>2 DEF StartReturns, TypeOK, HandlerPcs
  <2>2. HandlerInv'
    BY <1>2 DEF StartReturns, HandlerInv
  <2>3. PhaseInv' /\ EndInv' /\ MapInv' /\ ShutdownInv' /\ EarlyInv'
    BY <1>2 DEF StartReturns, PhaseInv, EndInv, NatsUp, MapInv, ShutdownInv,
       EarlyInv, RunningIsRegistered
  <2> QED BY <2>1, <2>2, <2>3
<1>3. ASSUME ~Gone, StartFails PROVE IInv'
  <2>1. TypeOK'
    BY <1>3 DEF StartFails, CallClose, TypeOK, Phases, HandlerPcs
  <2>2. PhaseInv'
    BY <1>3 DEF StartFails, CallClose, PhaseInv, TypeOK
  <2>3. HandlerInv'
    BY <1>3 DEF StartFails, CallClose, HandlerInv, TypeOK
  <2>4. ShutdownInv'
    BY <1>3 DEF StartFails, CallClose, ShutdownInv, TypeOK
  <2>5. EarlyInv'
    BY <1>3 DEF StartFails, CallClose, EarlyInv, RunningIsRegistered, TypeOK
  <2>6. EndInv' /\ MapInv'
    BY <1>3 DEF StartFails, CallClose, EndInv, NatsUp, MapInv
  <2> QED BY <2>1, <2>2, <2>3, <2>4, <2>5, <2>6
<1>4. ASSUME ~Gone, HandlerClosed PROVE IInv'
  <2>1. TypeOK'
    BY <1>4 DEF HandlerClosed, TypeOK, HandlerPcs
  <2>2. HandlerInv'
    BY <1>4 DEF HandlerClosed, HandlerInv
  <2>3. PhaseInv' /\ EndInv' /\ MapInv' /\ ShutdownInv' /\ EarlyInv'
    BY <1>4 DEF HandlerClosed, PhaseInv, EndInv, NatsUp, MapInv, ShutdownInv,
       EarlyInv, RunningIsRegistered
  <2> QED BY <2>1, <2>2, <2>3
<1>5. ASSUME ~Gone, CountStarted PROVE IInv'
  <2>1. TypeOK'
    BY <1>5, CountType DEF CountStarted, TypeOK, HandlerPcs, InProgress
  <2>2. HandlerInv'
    BY <1>5 DEF CountStarted, HandlerInv
  <2>3. PhaseInv' /\ EndInv' /\ MapInv' /\ ShutdownInv' /\ EarlyInv'
    BY <1>5 DEF CountStarted, PhaseInv, EndInv, NatsUp, MapInv, ShutdownInv,
       EarlyInv, RunningIsRegistered
  <2> QED BY <2>1, <2>2, <2>3
<1>6. ASSUME ~Gone, PutStarted PROVE IInv'
  <2>1. TypeOK'
    BY <1>6, CountZero, PutType DEF PutStarted, TypeOK, HandlerPcs
  <2>2. HandlerInv'
    BY <1>6 DEF PutStarted, HandlerInv
  <2>3. PhaseInv' /\ EndInv' /\ MapInv' /\ ShutdownInv' /\ EarlyInv'
    BY <1>6 DEF PutStarted, PhaseInv, EndInv, NatsUp, MapInv, ShutdownInv,
       EarlyInv, RunningIsRegistered
  <2> QED BY <2>1, <2>2, <2>3
<1>7. ASSUME ~Gone, NEW s \in Sessions, RunStop(s) PROVE IInv'
  <2>1. TypeOK'
    BY <1>7 DEF RunStop, CallClose, TypeOK, Phases
  <2>2. PhaseInv'
    BY <1>7 DEF RunStop, CallClose, PhaseInv, TypeOK
  <2>3. HandlerInv'
    BY <1>7 DEF RunStop, CallClose, HandlerInv, TypeOK
  <2>4. ShutdownInv'
    BY <1>7 DEF RunStop, CallClose, ShutdownInv, TypeOK
  <2>5. EarlyInv'
    BY <1>7 DEF RunStop, CallClose, EarlyInv, RunningIsRegistered, TypeOK
  <2>6. EndInv' /\ MapInv'
    BY <1>7 DEF RunStop, CallClose, EndInv, NatsUp, MapInv
  <2> QED BY <2>1, <2>2, <2>3, <2>4, <2>5, <2>6
<1>8. ASSUME ~Gone, NEW s \in Sessions, HandOver(s) PROVE IInv'
  <2>1. TypeOK'
    BY <1>8 DEF HandOver, TypeOK, Phases, EndPcs
  <2>2. PhaseInv'
    BY <1>8 DEF HandOver, PhaseInv, TypeOK
  <2>3. EndInv'
    BY <1>8 DEF HandOver, EndInv, NatsUp, TypeOK, PhaseInv
  <2>4. MapInv'
    BY <1>8 DEF HandOver, MapInv, TypeOK
  <2>5. HandlerInv'
    BY <1>8 DEF HandOver, HandlerInv, TypeOK
  <2>6. ShutdownInv'
    BY <1>8 DEF HandOver, ShutdownInv, TypeOK
  <2>7. EarlyInv'
    BY <1>8 DEF HandOver, EarlyInv, RunningIsRegistered, TypeOK
  <2> QED BY <2>1, <2>2, <2>3, <2>4, <2>5, <2>6, <2>7
<1>9. ASSUME ~Gone, NEW s \in Sessions, MapDelete(s) PROVE IInv'
  <2>1. TypeOK'
    BY <1>9, CountType DEF MapDelete, EndStep, TypeOK, EndPcs, InProgress,
       PhaseInv
  <2>2. PhaseInv'
    BY <1>9 DEF MapDelete, EndStep, PhaseInv, TypeOK
  <2>3. EndInv'
    BY <1>9 DEF MapDelete, EndStep, EndInv, NatsUp, TypeOK
  <2>4. MapInv'
    BY <1>9 DEF MapDelete, EndStep, MapInv, TypeOK, PhaseInv
  <2>5. EarlyInv'
    <3>1. /\ endPc[s] = "delete" /\ UNCHANGED <<task, phase, stopReq, early, ended>>
          /\ recordersInProgress' = [recordersInProgress EXCEPT ![task[s]] = None]
      BY <1>9 DEF MapDelete, EndStep
    <3>2. ended[s] = 0 /\ task[s] # None
      BY <3>1 DEF EndInv, PhaseInv, TypeOK
    <3>3. ASSUME early = {}, NEW x \in Sessions, phase[x] = "running"
          PROVE  task[x] # task[s]
      <4>1. endPc[x] = "none" /\ ended[x] = 0
        BY <3>3 DEF PhaseInv, EndInv
      <4> QED BY <3>1, <3>2, <3>3, <4>1 DEF EarlyInv
    <3>4. ASSUME NEW t \in Tasks, t # task[s]
          PROVE  recordersInProgress'[t] = recordersInProgress[t]
      BY <3>1, <3>4 DEF TypeOK
    <3>5. \A x \in Sessions : task[x] \in Tasks \cup {None}
      BY DEF TypeOK
    <3> QED BY <3>1, <3>3, <3>4, <3>5 DEF EarlyInv, RunningIsRegistered
  <2>6. HandlerInv' /\ ShutdownInv'
    BY <1>9 DEF MapDelete, EndStep, HandlerInv, ShutdownInv
  <2> QED BY <2>1, <2>2, <2>3, <2>4, <2>5, <2>6
<1>10. ASSUME ~Gone, NEW s \in Sessions, PutEnded(s) PROVE IInv'
  <2>1. TypeOK'
    BY <1>10, CountZero, PutType DEF PutEnded, EndStep, TypeOK, EndPcs
  <2>2. PhaseInv'
    BY <1>10 DEF PutEnded, EndStep, PhaseInv, TypeOK
  <2>3. EndInv'
    BY <1>10 DEF PutEnded, EndStep, EndInv, NatsUp, TypeOK
  <2>4. MapInv'
    <3>1. /\ endPc[s] \notin {"none", "delete"}
          /\ \E to \in EndPcs : endPc' = [endPc EXCEPT ![s] = to]
          /\ UNCHANGED <<recordersInProgress, task>>
      BY <1>10 DEF PutEnded, EndStep, EndPcs
    <3> QED BY <3>1, MapPassed
  <2>5. HandlerInv' /\ ShutdownInv' /\ EarlyInv'
    BY <1>10 DEF PutEnded, EndStep, HandlerInv, ShutdownInv, EarlyInv,
       RunningIsRegistered
  <2> QED BY <2>1, <2>2, <2>3, <2>4, <2>5
<1>11. ASSUME ~Gone, NEW s \in Sessions, NotifyEnd(s) PROVE IInv'
  <2>1. TypeOK'
    <3>0. ended' = [ended EXCEPT ![s] = ended[s] + 1] /\ ended \in [Sessions -> Nat]
      BY <1>11 DEF NotifyEnd, TypeOK
    <3>1. ended' \in [Sessions -> Nat]
      BY <3>0
    <3>2. endPc' \in [Sessions -> EndPcs]
      BY <1>11 DEF NotifyEnd, EndStep, TypeOK, EndPcs
    <3> QED BY <1>11, <3>1, <3>2 DEF NotifyEnd, TypeOK
  <2>2. PhaseInv'
    BY <1>11 DEF NotifyEnd, EndStep, PhaseInv, TypeOK
  <2>3. EndInv'
    <3>0. PICK pc \in {"done", "file"} : endPc' = [endPc EXCEPT ![s] = pc]
      BY <1>11 DEF NotifyEnd, EndStep
    <3>1. ASSUME NEW x \in Sessions, x # s
          PROVE  endPc'[x] = endPc[x] /\ ended'[x] = ended[x]
      BY <1>11, <3>0, <3>1 DEF NotifyEnd, TypeOK
    <3>2. /\ endPc[s] = "notify" /\ endPc'[s] \in {"done", "file"}
          /\ UNCHANGED <<saved, jobs, unreached, shutPc>>
      BY <1>11 DEF NotifyEnd, EndStep, TypeOK
    <3>3. ended[s] = 0 /\ s \notin saved /\ jobs[s] = 0
      BY <3>2 DEF EndInv
    <3>4. ended'[s] = 1
      BY <1>11, <3>3 DEF NotifyEnd, TypeOK
    <3> QED BY <3>1, <3>2, <3>3, <3>4 DEF EndInv, NatsUp
  <2>4. MapInv'
    <3>1. /\ endPc[s] \notin {"none", "delete"}
          /\ \E to \in EndPcs : endPc' = [endPc EXCEPT ![s] = to]
          /\ UNCHANGED <<recordersInProgress, task>>
      BY <1>11 DEF NotifyEnd, EndStep, EndPcs
    <3> QED BY <3>1, MapPassed
  <2>5. EarlyInv'
    <3>1. /\ UNCHANGED <<recordersInProgress, task, phase, stopReq, handlerVars,
                         shutdownVars, early>>
          /\ ended' = [ended EXCEPT ![s] = ended[s] + 1] /\ endPc[s] = "notify"
      BY <1>11 DEF NotifyEnd, EndStep
    <3>2. ended[s] = 0
      BY <3>1 DEF EndInv
    <3>3. \A x \in Sessions : ended[x] = 1 => ended'[x] = 1
      BY <3>1, <3>2 DEF TypeOK
    <3>4. RunningIsRegistered => RunningIsRegistered'
      BY <3>1 DEF RunningIsRegistered, shutdownVars
    <3> QED BY <3>1, <3>3, <3>4 DEF EarlyInv
  <2>6. HandlerInv' /\ ShutdownInv'
    BY <1>11 DEF NotifyEnd, EndStep, HandlerInv, ShutdownInv
  <2> QED BY <2>1, <2>2, <2>3, <2>4, <2>5, <2>6
<1>12. ASSUME ~Gone, NEW s \in Sessions, TakeFile(s) PROVE IInv'
  <2>1. TypeOK'
    BY <1>12 DEF TakeFile, EndStep, TypeOK, EndPcs
  <2>2. PhaseInv'
    BY <1>12 DEF TakeFile, EndStep, PhaseInv, TypeOK
  <2>3. EndInv'
    <3>1. /\ endPc[s] = "file" /\ UNCHANGED <<ended, jobs, unreached, shutPc>>
          /\ \/ endPc' = [endPc EXCEPT ![s] = "publish"] /\ saved' = saved \cup {s}
             \/ endPc' = [endPc EXCEPT ![s] = "done"] /\ UNCHANGED saved
      BY <1>12 DEF TakeFile, EndStep
    <3>2. \A x \in Sessions : x # s =>
             endPc'[x] = endPc[x] /\ (x \in saved' <=> x \in saved)
      BY <3>1 DEF TypeOK
    <3>3. endPc'[s] \in {"publish", "done"} /\ (endPc'[s] = "done" => UNCHANGED saved)
      BY <3>1 DEF TypeOK
    <3>4. ended[s] = 1 /\ jobs[s] = 0 /\ s \notin saved
      BY <3>1 DEF EndInv
    <3> QED BY <3>1, <3>2, <3>3, <3>4 DEF EndInv, NatsUp
  <2>4. MapInv'
    <3>1. /\ endPc[s] \notin {"none", "delete"}
          /\ \E to \in EndPcs : endPc' = [endPc EXCEPT ![s] = to]
          /\ UNCHANGED <<recordersInProgress, task>>
      BY <1>12 DEF TakeFile, EndStep, EndPcs
    <3> QED BY <3>1, MapPassed
  <2>5. ShutdownInv'
    BY <1>12 DEF TakeFile, EndStep, ShutdownInv, TypeOK, PhaseInv
  <2>6. HandlerInv' /\ EarlyInv'
    BY <1>12 DEF TakeFile, EndStep, HandlerInv, EarlyInv, RunningIsRegistered
  <2> QED BY <2>1, <2>2, <2>3, <2>4, <2>5, <2>6
<1>13. ASSUME ~Gone, NEW s \in Sessions, Publish(s) PROVE IInv'
  <2>1. TypeOK'
    <3>1. jobs' \in [Sessions -> Nat]
      <4>1. CASE jobs' = [jobs EXCEPT ![s] = @ + 1]
        <5>1. jobs[s] + 1 \in Nat
          BY <1>13 DEF TypeOK
        <5> QED BY <4>1, <5>1 DEF TypeOK
      <4> QED BY <1>13, <4>1 DEF Publish, TypeOK
    <3>2. endPc' \in [Sessions -> EndPcs] /\ unreached' \subseteq Sessions
      BY <1>13 DEF Publish, EndStep, TypeOK, EndPcs
    <3> QED BY <1>13, <3>1, <3>2 DEF Publish, TypeOK
  <2>2. PhaseInv'
    BY <1>13 DEF Publish, EndStep, PhaseInv, TypeOK
  <2>3. EndInv'
    <3>1. /\ endPc[s] = "publish" /\ endPc' = [endPc EXCEPT ![s] = "done"]
          /\ UNCHANGED <<ended, saved, shutPc>>
      BY <1>13 DEF Publish, EndStep
    <3>2. jobs[s] = 0 /\ ended[s] = 1
      BY <3>1 DEF EndInv
    <3>3. CASE jobs' = [jobs EXCEPT ![s] = @ + 1] /\ UNCHANGED unreached
      <4>1. jobs' = [jobs EXCEPT ![s] = 1]
        BY <3>2, <3>3
      <4> QED BY <3>1, <3>2, <3>3, <4>1 DEF EndInv, NatsUp, TypeOK
    <3>4. CASE ~NatsUp /\ UNCHANGED <<jobs, unreached>>
      BY <3>1, <3>2, <3>4 DEF EndInv, NatsUp, TypeOK
    <3>5. CASE unreached' = unreached \cup {s} /\ UNCHANGED jobs
      BY <3>1, <3>2, <3>5 DEF EndInv, NatsUp, TypeOK
    <3> QED BY <1>13, <3>3, <3>4, <3>5 DEF Publish
  <2>4. MapInv'
    <3>1. /\ endPc[s] \notin {"none", "delete"}
          /\ \E to \in EndPcs : endPc' = [endPc EXCEPT ![s] = to]
          /\ UNCHANGED <<recordersInProgress, task>>
      BY <1>13 DEF Publish, EndStep, EndPcs
    <3> QED BY <3>1, MapPassed
  <2>5. ShutdownInv'
    BY <1>13 DEF Publish, EndStep, ShutdownInv, TypeOK, PhaseInv
  <2>6. HandlerInv' /\ EarlyInv'
    BY <1>13 DEF Publish, EndStep, HandlerInv, EarlyInv, RunningIsRegistered
  <2> QED BY <2>1, <2>2, <2>3, <2>4, <2>5, <2>6
<1>14. ASSUME ~Gone, NEW s \in Sessions, Release(s) PROVE IInv'
  <2>1. TypeOK'
    BY <1>14 DEF Release, TypeOK, Phases
  <2>2. PhaseInv'
    BY <1>14 DEF Release, PhaseInv, TypeOK
  <2>3. HandlerInv'
    BY <1>14 DEF Release, HandlerInv, TypeOK
  <2>4. ShutdownInv'
    BY <1>14 DEF Release, ShutdownInv, TypeOK
  <2>5. EarlyInv'
    BY <1>14 DEF Release, EarlyInv, RunningIsRegistered, TypeOK
  <2>6. EndInv' /\ MapInv'
    BY <1>14 DEF Release, EndInv, NatsUp, MapInv
  <2> QED BY <2>1, <2>2, <2>3, <2>4, <2>5, <2>6
<1>15. ASSUME ~Gone, NEW s \in Sessions, ShutClose(s) PROVE IInv'
  <2>1. TypeOK'
    BY <1>15 DEF ShutClose, CallClose, TypeOK, Phases
  <2>2. PhaseInv'
    BY <1>15 DEF ShutClose, CallClose, PhaseInv, TypeOK
  <2>3. HandlerInv'
    BY <1>15 DEF ShutClose, CallClose, HandlerInv, TypeOK
  <2>4. ShutdownInv'
    BY <1>15 DEF ShutClose, CallClose, ShutdownInv, TypeOK, Gone
  <2>5. EarlyInv'
    BY <1>15 DEF ShutClose, CallClose, EarlyInv, RunningIsRegistered, TypeOK
  <2>6. EndInv' /\ MapInv'
    BY <1>15 DEF ShutClose, CallClose, EndInv, NatsUp, MapInv
  <2> QED BY <2>1, <2>2, <2>3, <2>4, <2>5, <2>6
<1>16. ASSUME ~Gone, WaitAll PROVE IInv'
  <2>1. TypeOK'
    BY <1>16 DEF WaitAll, ShutStep, TypeOK, ShutPcs
  <2>2. PhaseInv'
    BY <1>16 DEF WaitAll, ShutStep, PhaseInv
  <2>3. EndInv'
    BY <1>16 DEF WaitAll, ShutStep, EndInv, NatsUp
  <2>4. ShutdownInv'
    BY <1>16 DEF WaitAll, ShutStep, ShutdownInv, TypeOK, PhaseInv, EndInv,
       NatsUp
  <2>5. MapInv' /\ HandlerInv' /\ EarlyInv'
    BY <1>16 DEF WaitAll, ShutStep, MapInv, HandlerInv, EarlyInv,
       RunningIsRegistered
  <2> QED BY <2>1, <2>2, <2>3, <2>4, <2>5
<1>17. ASSUME ~Gone, Unregister PROVE IInv'
  <2>1. TypeOK'
    BY <1>17, PutType DEF Unregister, ShutStep, TypeOK, ShutPcs
  <2>2. PhaseInv'
    BY <1>17 DEF Unregister, ShutStep, PhaseInv
  <2>3. EndInv'
    BY <1>17 DEF Unregister, ShutStep, EndInv, NatsUp
  <2>4. ShutdownInv'
    BY <1>17 DEF Unregister, ShutStep, ShutdownInv
  <2>5. MapInv' /\ HandlerInv' /\ EarlyInv'
    BY <1>17 DEF Unregister, ShutStep, MapInv, HandlerInv, EarlyInv,
       RunningIsRegistered
  <2> QED BY <2>1, <2>2, <2>3, <2>4, <2>5
<1>18. ASSUME ~Gone, CloseNats PROVE IInv'
  <2>1. TypeOK'
    BY <1>18 DEF CloseNats, ShutStep, TypeOK, ShutPcs
  <2>2. PhaseInv'
    BY <1>18 DEF CloseNats, ShutStep, PhaseInv
  <2>3. EndInv'
    BY <1>18 DEF CloseNats, ShutStep, EndInv, NatsUp
  <2>4. ShutdownInv'
    BY <1>18 DEF CloseNats, ShutStep, ShutdownInv
  <2>5. MapInv' /\ HandlerInv' /\ EarlyInv'
    BY <1>18 DEF CloseNats, ShutStep, MapInv, HandlerInv, EarlyInv,
       RunningIsRegistered
  <2> QED BY <2>1, <2>2, <2>3, <2>4, <2>5
<1>19. ASSUME ~Gone, Exit PROVE IInv'
  <2>1. TypeOK'
    BY <1>19 DEF Exit, ShutStep, TypeOK, ShutPcs
  <2>2. PhaseInv'
    BY <1>19 DEF Exit, ShutStep, PhaseInv
  <2>3. EndInv'
    BY <1>19 DEF Exit, ShutStep, EndInv, NatsUp
  <2>4. ShutdownInv'
    BY <1>19 DEF Exit, ShutStep, ShutdownInv
  <2>5. MapInv' /\ HandlerInv' /\ EarlyInv'
    BY <1>19 DEF Exit, ShutStep, MapInv, HandlerInv, EarlyInv,
       RunningIsRegistered
  <2> QED BY <2>1, <2>2, <2>3, <2>4, <2>5
<1>20. ASSUME ~Gone, NEW t \in Tasks, HandleStart(t) PROVE IInv'
  <2>1. PICK s \in Sessions :
          /\ phase[s] = "new"
          /\ recordersInProgress' = [recordersInProgress EXCEPT ![t] = s]
          /\ task' = [task EXCEPT ![s] = t]
          /\ phase' = [phase EXCEPT ![s] = "running"]
          /\ handlerSession' = s
          /\ early' = IF \E x \in Sessions : task[x] = t /\ ended[x] = 0
                      THEN early \cup {s} ELSE early
    BY <1>20 DEF HandleStart
  <2>2. /\ handlerPc = "idle" /\ handlerPc' = "starting"
        /\ recordersInProgress[t] = None
        /\ UNCHANGED <<stopReq, handlerCount, closerVars, shutdownVars,
                       progress, acked, ended, saved, jobs, unreached>>
    BY <1>20 DEF HandleStart
  <2>3. task[s] = None /\ endPc[s] = "none" /\ ended[s] = 0
    BY <2>1 DEF TypeOK, PhaseInv, EndInv
  <2>4. TypeOK'
    BY <2>1, <2>2 DEF TypeOK, Phases, HandlerPcs
  <2>5. PhaseInv'
    BY <2>1, <2>2, <2>3 DEF TypeOK, PhaseInv
  <2>6. EndInv'
    BY <2>2 DEF EndInv, NatsUp
  <2>7. MapInv'
    BY <2>1, <2>2, <2>3 DEF TypeOK, MapInv
  <2>8. HandlerInv'
    BY <2>1, <2>2 DEF TypeOK, HandlerInv
  <2>9. ShutdownInv'
    BY <2>1, <2>2 DEF TypeOK, ShutdownInv
  <2>10. EarlyInv'
    <3> SUFFICES ASSUME early' = {}
                 PROVE  /\ \A x, y \in Sessions :
                              /\ x # y /\ task'[x] = task'[y]
                              /\ task'[x] # None
                              => ended[x] = 1 \/ ended[y] = 1
                        /\ RunningIsRegistered'
      BY <2>2 DEF EarlyInv
    <3>1. early = {} /\ \A x \in Sessions : task[x] = t => ended[x] # 0
      BY <2>1
    <3>2. \A x \in Sessions : ended[x] \in {0, 1}
      BY DEF EndInv
    <3>3. \A x, y \in Sessions :
             x # y /\ task'[x] = task'[y] /\ task'[x] # None =>
                 ended[x] = 1 \/ ended[y] = 1
      BY <2>1, <3>1, <3>2 DEF TypeOK, EarlyInv
    <3>4. RunningIsRegistered'
      BY <2>1, <2>2, <3>1 DEF TypeOK, EarlyInv, RunningIsRegistered, PhaseInv
    <3> QED BY <3>3, <3>4
  <2> QED BY <2>4, <2>5, <2>6, <2>7, <2>8, <2>9, <2>10
<1>21. ASSUME ~Gone, NEW t \in Tasks, HandleStop(t) PROVE IInv'
  <2>1. TypeOK'
    BY <1>21 DEF HandleStop, TypeOK
  <2>2. MapInv'
    BY <1>21 DEF HandleStop, MapInv, TypeOK
  <2>3. HandlerInv'
    BY <1>21 DEF HandleStop, HandlerInv, TypeOK, MapInv, PhaseInv
  <2>4. EarlyInv'
    BY <1>21 DEF HandleStop, EarlyInv, RunningIsRegistered, TypeOK
  <2>5. PhaseInv' /\ EndInv' /\ ShutdownInv'
    BY <1>21 DEF HandleStop, PhaseInv, EndInv, NatsUp, ShutdownInv
  <2> QED BY <2>1, <2>2, <2>3, <2>4, <2>5
<1>22. ASSUME ~Gone, NEW s \in Sessions, SessionEnds(s) PROVE IInv'
  <2>1. TypeOK'
    BY <1>22 DEF SessionEnds, CallClose, TypeOK, Phases
  <2>2. PhaseInv'
    BY <1>22 DEF SessionEnds, CallClose, PhaseInv, TypeOK
  <2>3. HandlerInv'
    BY <1>22 DEF SessionEnds, CallClose, HandlerInv, TypeOK
  <2>4. ShutdownInv'
    BY <1>22 DEF SessionEnds, CallClose, ShutdownInv, TypeOK
  <2>5. EarlyInv'
    BY <1>22 DEF SessionEnds, CallClose, EarlyInv, RunningIsRegistered,
       TypeOK
  <2>6. EndInv' /\ MapInv'
    BY <1>22 DEF SessionEnds, CallClose, EndInv, NatsUp, MapInv
  <2> QED BY <2>1, <2>2, <2>3, <2>4, <2>5, <2>6
<1>23. ASSUME ~Gone, NEW s \in Sessions, SessionCrashes(s) PROVE IInv'
  <2>1. TypeOK'
    BY <1>23 DEF SessionCrashes, TypeOK, Phases, ShutPcs
  <2>2. PhaseInv'
    BY <1>23 DEF SessionCrashes, PhaseInv, TypeOK
  <2>3. EndInv'
    BY <1>23 DEF SessionCrashes, EndInv, NatsUp
  <2>4. HandlerInv'
    BY <1>23 DEF SessionCrashes, HandlerInv, TypeOK
  <2>5. ShutdownInv'
    BY <1>23 DEF SessionCrashes, ShutdownInv
  <2>6. EarlyInv'
    BY <1>23 DEF SessionCrashes, EarlyInv, RunningIsRegistered, TypeOK
  <2>7. MapInv'
    BY <1>23 DEF SessionCrashes, MapInv
  <2> QED BY <2>1, <2>2, <2>3, <2>4, <2>5, <2>6, <2>7
<1>24. ASSUME ~Gone, BeginShutdown PROVE IInv'
  <2>1. TypeOK'
    <3>1. shutPc' \in ShutPcs
      BY <1>24 DEF BeginShutdown, ShutStep, ShutPcs
    <3>2. shutReq' \subseteq Sessions
      BY <1>24 DEF BeginShutdown, TypeOK, InProgress
    <3> QED BY <1>24, <3>1, <3>2 DEF BeginShutdown, TypeOK
  <2>2. PhaseInv'
    BY <1>24 DEF BeginShutdown, ShutStep, PhaseInv, Gone
  <2>3. EndInv'
    BY <1>24 DEF BeginShutdown, ShutStep, EndInv, NatsUp
  <2>4. ShutdownInv'
    BY <1>24 DEF BeginShutdown, ShutStep, ShutdownInv
  <2>5. MapInv' /\ HandlerInv' /\ EarlyInv'
    BY <1>24 DEF BeginShutdown, ShutStep, MapInv, HandlerInv, EarlyInv,
       RunningIsRegistered
  <2> QED BY <2>1, <2>2, <2>3, <2>4, <2>5
<1>25. ASSUME ~Gone, StopTimeout PROVE IInv'
  <2>1. TypeOK'
    BY <1>25 DEF StopTimeout, TypeOK, ShutPcs
  <2>2. PhaseInv'
    BY <1>25 DEF StopTimeout, PhaseInv
  <2>3. EndInv'
    BY <1>25 DEF StopTimeout, EndInv, NatsUp
  <2>4. ShutdownInv'
    BY <1>25 DEF StopTimeout, ShutdownInv
  <2>5. MapInv' /\ HandlerInv' /\ EarlyInv'
    BY <1>25 DEF StopTimeout, MapInv, HandlerInv, EarlyInv,
       RunningIsRegistered
  <2> QED BY <2>1, <2>2, <2>3, <2>4, <2>5
<1> QED BY <1>1, <1>2, <1>3, <1>4, <1>5, <1>6, <1>7, <1>8, <1>9, <1>10,
      <1>11, <1>12, <1>13, <1>14, <1>15, <1>16, <1>17, <1>18, <1>19, <1>20,
      <1>21, <1>22, <1>23, <1>24, <1>25 DEF Next, Terminated, HandlerStep,
      SessionStep, ShutdownStep, Env

-----------------------------------------------------------------------------

\* The inductive invariant holds in every behavior.
THEOREM Inductive == Spec => []IInv
BY InitInv, NextInv, PTL DEF Spec

\* Type correctness: a count never exceeds the number of tasks, and no step of
\* the handler or of a closer meets a recorder that was not created.
THEOREM TypeCorrect == Spec => []TypeOK
BY Inductive, PTL DEF IInv

\* However many callers close a recorder, plugNmeet gets one END and at most one
\* job follows it.
THEOREM EndsOnce == Spec => []OneEndEach
<1>1. IInv => OneEndEach
  <2> SUFFICES ASSUME IInv, NEW s \in Sessions
               PROVE  ended[s] <= 1 /\ jobs[s] <= ended[s]
    BY DEF OneEndEach
  <2>1. /\ ended[s] = IF endPc[s] \in {"file", "publish", "done"} THEN 1 ELSE 0
        /\ jobs[s] = 0 \/ (jobs[s] = 1 /\ endPc[s] = "done")
    BY DEF IInv, EndInv
  <2> QED BY <2>1
<1> QED BY <1>1, Inductive, PTL

\* Every recorder the shutdown closed has handed over its file before the
\* connection is closed, however many recorders end while it waits.
THEOREM ShutdownHandsOver == Spec => []ShutdownLosesNoJob
<1>1. IInv => ShutdownLosesNoJob
  <2> SUFFICES ASSUME IInv, shutPc = "exited", NEW s \in waitFor
               PROVE  /\ phase[s] = "ended" /\ ended[s] = 1
                      /\ s \in saved /\ s \notin unreached => jobs[s] = 1
    BY DEF ShutdownLosesNoJob
  <2>1. s \in Sessions
    BY DEF IInv, TypeOK
  <2>2. phase[s] = "ended" /\ (s \in saved /\ s \notin unreached => jobs[s] = 1)
    BY DEF IInv, ShutdownInv
  <2>3. ended[s] = 1
    BY <2>1, <2>2 DEF IInv, PhaseInv, EndInv
  <2> QED BY <2>2, <2>3
<1> QED BY <1>1, Inductive, PTL

\* As long as plugNmeet waits for END before it starts a task again, a running
\* recorder is in the map or its Close is on its way: a STOP always finds it.
THEOREM RunningIsFound == Spec => []RegisteredUnlessEarly
<1>1. IInv => RegisteredUnlessEarly
  BY DEF IInv, EarlyInv, RegisteredUnlessEarly
<1> QED BY <1>1, Inductive, PTL

\* The steps that can take a running recorder out of the map, for the action
\* property below.
LEMMA MapStep ==
  ASSUME IInv, [Next]_vars, NEW s \in Sessions, phase[s] = "running",
         recordersInProgress[task[s]] = s, recordersInProgress'[task[s]] # s
  PROVE  \/ s \in stopReq'
         \/ \E x \in Sessions \ {s} : task[x] = task[s] /\ endPc[x] = "delete"
<1> USE DEF IInv, None, Sessions
<1>1. task[s] \in Tasks /\ endPc[s] = "none" /\ s # 0
  BY DEF TypeOK, PhaseInv
<1>2. ASSUME NEW t \in Tasks, HandleStart(t) PROVE FALSE
  <2>1. recordersInProgress[t] = 0 /\
        \E y : recordersInProgress' = [recordersInProgress EXCEPT ![t] = y]
    BY <1>2 DEF HandleStart
  <2> QED BY <1>1, <2>1 DEF TypeOK
<1>3. ASSUME NEW t \in Tasks, HandleStop(t) PROVE s \in stopReq'
  BY <1>1, <1>3 DEF HandleStop, TypeOK
<1>4. ASSUME NEW x \in Sessions, MapDelete(x)
      PROVE  x # s /\ task[x] = task[s] /\ endPc[x] = "delete"
  BY <1>1, <1>4 DEF MapDelete, EndStep, TypeOK
<1>5. ASSUME recordersInProgress' = recordersInProgress PROVE FALSE
  BY <1>5
<1>6. \/ \E t \in Tasks : HandleStart(t) \/ HandleStop(t)
      \/ \E x \in Sessions : MapDelete(x)
      \/ recordersInProgress' = recordersInProgress
  BY DEF Next, Terminated, vars, HandlerStep, SessionStep, ShutdownStep, Env,
     StartReturns, StartFails, HandlerClosed, CountStarted, PutStarted, RunStop,
     HandOver, PutEnded, NotifyEnd, TakeFile, Publish, Release, ShutClose,
     WaitAll, Unregister, CloseNats, Exit, SessionEnds, SessionCrashes,
     BeginShutdown, StopTimeout
<1> QED BY <1>2, <1>3, <1>4, <1>5, <1>6

\* A START never replaces a recorder, and only a STOP or the Delete of an older
\* recorder of the same task takes a running one out of the map.
THEOREM MapKept == Spec => LeavesMapOnlyByClose
<1>1. IInv /\ [Next]_vars =>
        [\A s \in Sessions :
          /\ phase[s] = "running"
          /\ recordersInProgress[task[s]] = s
          /\ recordersInProgress'[task[s]] # s
          => \/ s \in stopReq'
             \/ \E x \in Sessions \ {s} : task[x] = task[s] /\ endPc[x] = "delete"]_vars
  BY MapStep
<1> QED BY <1>1, Inductive, PTL DEF Spec, LeavesMapOnlyByClose

\* What a step may do to the phases: at most one recorder moves, as
\* RecorderSession allows.
LEMMA PhaseStep ==
  ASSUME IInv, [Next]_vars, NEW s \in Sessions
  PROVE  \/ phase'[s] = phase[s]
         \/ phase[s] = "new" /\ phase'[s] = "running"
         \/ phase[s] = "running" /\ phase'[s] = "closing"
         \/ phase[s] = "closing" /\ phase'[s] = "handover"
         \/ phase[s] = "handover" /\ phase'[s] = "ended"
         \/ phase[s] \in {"closing", "handover", "ended"} /\ phase'[s] = "crashed"
<1> USE DEF IInv
<1>1. CASE phase' = phase
  BY <1>1
<1>2. ASSUME NEW x \in Sessions \cup {None}, CallClose(x)
      PROVE  phase'[s] = phase[s] \/ (phase[s] = "running" /\ phase'[s] = "closing")
  BY <1>2 DEF CallClose, TypeOK
<1>3. ASSUME NEW x \in Sessions, HandOver(x)
      PROVE  phase'[s] = phase[s] \/ (phase[s] = "closing" /\ phase'[s] = "handover")
  BY <1>3 DEF HandOver, TypeOK
<1>4. ASSUME NEW x \in Sessions, Release(x)
      PROVE  phase'[s] = phase[s] \/ (phase[s] = "handover" /\ phase'[s] = "ended")
  BY <1>4 DEF Release, TypeOK
<1>5. ASSUME NEW x \in Sessions, SessionCrashes(x)
      PROVE  \/ phase'[s] = phase[s]
             \/ phase[s] \in {"closing", "handover", "ended"} /\ phase'[s] = "crashed"
  BY <1>5 DEF SessionCrashes, TypeOK
<1>6. ASSUME NEW t \in Tasks, HandleStart(t)
      PROVE  phase'[s] = phase[s] \/ (phase[s] = "new" /\ phase'[s] = "running")
  <2>1. PICK x \in Sessions : /\ phase[x] = "new"
                              /\ phase' = [phase EXCEPT ![x] = "running"]
    BY <1>6 DEF HandleStart
  <2> QED BY <2>1 DEF TypeOK
<1>7. \/ phase' = phase
      \/ \E x \in Sessions \cup {None} : CallClose(x)
      \/ \E x \in Sessions : HandOver(x) \/ Release(x) \/ SessionCrashes(x)
      \/ \E t \in Tasks : HandleStart(t)
  BY DEF Next, Terminated, vars, HandlerStep, SessionStep, ShutdownStep, Env,
     StartReturns, StartFails, HandlerClosed, CountStarted, PutStarted, RunStop,
     MapDelete, PutEnded, NotifyEnd, TakeFile, Publish, ShutClose, WaitAll,
     Unregister, CloseNats, Exit, HandleStop, SessionEnds, BeginShutdown,
     StopTimeout, TypeOK
<1> QED BY <1>1, <1>2, <1>3, <1>4, <1>5, <1>6, <1>7

\* Each recorder of the controller is one RecorderSession: the controller moves
\* it only as Recorder, which implements that specification, can move.
THEOREM SessionsKept == Spec => SessionsAsPromised
<1>1. IInv /\ [Next]_vars =>
        [\A s \in Sessions : SessionOf(s)!Next \/ UNCHANGED SessionOf(s)!vars]_vars
  <2> SUFFICES ASSUME IInv, [Next]_vars, NEW s \in Sessions
               PROVE  SessionOf(s)!Next \/ UNCHANGED SessionOf(s)!vars
    OBVIOUS
  <2> QED BY PhaseStep DEF SessionOf!Next, SessionOf!vars, SessionOf!BeginClose,
        SessionOf!HandOver, SessionOf!Release, SessionOf!Crash
<1> QED BY <1>1, Inductive, PTL DEF Spec, SessionsAsPromised
=============================================================================
