---------------------------- MODULE RegistryProofs ----------------------------
(* What the registration guarantees for any number of instances and any        *)
(* configurations, ping intervals and failures.                                *)
EXTENDS RecorderRegistry, TLAPS

\* Only an instance that records goes through the registration and its end.
RoleInv ==
    \A i \in Instances :
        /\ pc[i] \in {"check", "register", "ending", "purge"} => i \in Recorders
        /\ ping[i] # "none" => Active(i) /\ pc[i] # "register"
        /\ pc[i] \in {"down", "check", "up"} => todo[i] = {}

\* Two instances that are active at once know of it: each is disturbed.
AloneInv ==
    \A i, k \in Instances :
        i # k /\ Active(i) /\ Active(k) => i \in disturbed /\ k \in disturbed

\* What an instance that is alone has put stays, and the time in lastPing is the
\* last one it has put.
EntryInv ==
    \A i \in Instances :
        Active(i) /\ pc[i] \in {"register", "up"} /\ i \notin disturbed =>
            \A f \in RegisterFields \ todo[i] :
                /\ kv[f] = i
                /\ f = "lastPing" => age = silent[i]

IInv == TypeOK /\ RoleInv /\ AloneInv /\ EntryInv

-----------------------------------------------------------------------------

\* The fields, one by one.
LEMMA FieldSet == /\ Fields = {"maxLimit", "lastPing", "cpuScore"}
                  /\ RegisterFields = {"maxLimit", "lastPing"}
<1>1. FieldOrder = <<"maxLimit", "lastPing", "cpuScore">>
  BY DEF FieldOrder
<1>2. /\ DOMAIN FieldOrder = 1..3
      /\ FieldOrder[1] = "maxLimit" /\ FieldOrder[2] = "lastPing"
      /\ FieldOrder[3] = "cpuScore"
  BY <1>1
<1>3. Fields = {FieldOrder[n] : n \in 1..3}
  BY <1>2 DEF Fields, Range
<1>4. Fields = {"maxLimit", "lastPing", "cpuScore"}
  BY <1>2, <1>3
<1> QED BY <1>4 DEF RegisterFields

\* Ages stay within their bound.
LEMMA LaterType == ASSUME NEW t \in 0..PingInterval PROVE Later(t) \in 0..PingInterval
  BY RegistryAssumption DEF Later

\* A put of one of the fields.
LEMMA PutType ==
    ASSUME TypeOK, NEW i \in Instances, NEW f \in Fields, Put(i, f)
    PROVE  kv' \in [Fields -> Instances \cup {Absent}] /\ debris' \subseteq Fields
<1>1. kv' \in [Fields -> Instances \cup {Absent}]
  BY DEF TypeOK, Put
<1>2. debris' \subseteq Fields
  BY DEF TypeOK, Put
<1> QED BY <1>1, <1>2

\* What DeleteRecorder purges next is one of the fields it has to purge.
LEMMA NextFieldIn ==
    ASSUME NEW S \in SUBSET Fields, S # {}
    PROVE  FieldOrder[NextField(S)] \in S
<1>1. /\ DOMAIN FieldOrder = 1..3
      /\ FieldOrder[1] = "maxLimit" /\ FieldOrder[2] = "lastPing"
      /\ FieldOrder[3] = "cpuScore"
  BY DEF FieldOrder
<1>2. \E n \in DOMAIN FieldOrder :
          FieldOrder[n] \in S /\ \A m \in 1..(n - 1) : FieldOrder[m] \notin S
  <2>1. CASE "maxLimit" \in S
    BY <1>1, <2>1
  <2>2. CASE "maxLimit" \notin S /\ "lastPing" \in S
    BY <1>1, <2>2
  <2>3. CASE "maxLimit" \notin S /\ "lastPing" \notin S
    <3>1. "cpuScore" \in S
      BY <2>3, FieldSet
    <3>2. \A m \in 1..(3 - 1) : FieldOrder[m] \notin S
      BY <1>1, <2>3
    <3> QED BY <1>1, <3>1, <3>2
  <2> QED BY <2>1, <2>2, <2>3
<1> QED BY <1>2 DEF NextField

\* The initial state satisfies the invariant.
LEMMA InitInv == Init => IInv
<1> SUFFICES ASSUME Init PROVE IInv
  OBVIOUS
<1>1. TypeOK
  BY RegistryAssumption DEF Init, TypeOK, Pcs
<1>2. RoleInv /\ AloneInv /\ EntryInv
  BY DEF Init, RoleInv, AloneInv, EntryInv, Active
<1> QED BY <1>1, <1>2 DEF IInv

\* Every step keeps it.
LEMMA NextInv == IInv /\ [Next]_vars => IInv'
<1> SUFFICES ASSUME IInv, [Next]_vars PROVE IInv'
  OBVIOUS
<1> USE RegistryAssumption DEF bucket, history, Goto
<1>0. TypeOK /\ RoleInv /\ AloneInv /\ EntryInv
  BY DEF IInv
<1>1. CASE UNCHANGED vars
  BY <1>0, <1>1 DEF vars, IInv, TypeOK, RoleInv, AloneInv, EntryInv, Active
<1>2. ASSUME Tick PROVE IInv'
  <2>1. TypeOK'
    BY <1>0, <1>2, LaterType DEF Tick, TypeOK
  <2>2. RoleInv' /\ AloneInv'
    BY <1>0, <1>2 DEF Tick, RoleInv, AloneInv, Active
  <2>3. EntryInv'
    BY <1>0, <1>2 DEF Tick, TypeOK, EntryInv, Active
  <2> QED BY <2>1, <2>2, <2>3 DEF IInv
<1>3. ASSUME NEW i \in Instances, Start(i) PROVE IInv'
  <2>1. TypeOK'
    BY <1>0, <1>3 DEF Start, TypeOK, Pcs
  <2>2. RoleInv'
    BY <1>0, <1>3 DEF Start, TypeOK, RoleInv, Active
  <2>3. AloneInv'
    BY <1>0, <1>3 DEF Start, TypeOK, RoleInv, AloneInv, Active
  <2>4. EntryInv'
    BY <1>0, <1>3 DEF Start, TypeOK, RoleInv, AloneInv, EntryInv, Active
  <2> QED BY <2>1, <2>2, <2>3, <2>4 DEF IInv
<1>4. ASSUME NEW i \in Instances, Refuse(i) PROVE IInv'
  <2>1. TypeOK'
    BY <1>0, <1>4 DEF Refuse, TypeOK, Pcs, Fault
  <2>2. RoleInv'
    BY <1>0, <1>4 DEF Refuse, TypeOK, RoleInv, Active, Fault
  <2>3. AloneInv'
    BY <1>0, <1>4 DEF Refuse, TypeOK, RoleInv, AloneInv, Active, Fault
  <2>4. EntryInv'
    BY <1>0, <1>4 DEF Refuse, TypeOK, RoleInv, AloneInv, EntryInv, Active, Fault
  <2> QED BY <2>1, <2>2, <2>3, <2>4 DEF IInv
<1>5. ASSUME NEW i \in Instances, Accept(i) PROVE IInv'
  <2>1. TypeOK'
    BY <1>0, <1>5 DEF Accept, TypeOK, Pcs, Recent, Others, RegisterFields
  <2>2. RoleInv'
    BY <1>0, <1>5 DEF Accept, TypeOK, RoleInv, Active, Recent, Others
  <2>3. AloneInv'
    BY <1>0, <1>5 DEF Accept, TypeOK, RoleInv, AloneInv, Active, Recent, Others
  <2>4. EntryInv'
    BY <1>0, <1>5 DEF Accept, TypeOK, RoleInv, AloneInv, EntryInv, Active, Recent, Others
  <2> QED BY <2>1, <2>2, <2>3, <2>4 DEF IInv
<1>6. ASSUME NEW i \in Instances, PutField(i) PROVE IInv'
  <2>1. TypeOK'
    <3>1. PICK f \in todo[i] :
            /\ todo' = [todo EXCEPT ![i] = @ \ {f}]
            /\ \/ /\ Put(i, f)
                  /\ age' = IF f = "lastPing" THEN silent[i] ELSE age
                  /\ UNCHANGED <<failures, disturbed>>
               \/ /\ Fault
                  /\ disturbed' = disturbed \cup {i}
                  /\ UNCHANGED <<bucket, debris>>
      BY <1>6 DEF PutField
    <3>2. f \in Fields
      BY <1>0 DEF TypeOK
    <3>3. kv' \in [Fields -> Instances \cup {Absent}] /\ debris' \subseteq Fields
      BY <1>0, <3>1, <3>2, PutType DEF TypeOK
    <3>4. age' \in 0..PingInterval
      BY <1>0, <3>1 DEF TypeOK
    <3>5. failures' \in 0..MaxFailures /\ disturbed' \subseteq Instances
      BY <1>0, <3>1 DEF TypeOK, Fault
    <3>6. todo' \in [Instances -> SUBSET Fields]
      BY <1>0, <3>1 DEF TypeOK
    <3> QED BY <1>0, <1>6, <3>3, <3>4, <3>5, <3>6 DEF PutField, TypeOK
  <2>2. RoleInv'
    BY <1>0, <1>6 DEF PutField, TypeOK, RoleInv, Active, Put, Fault
  <2>3. AloneInv'
    BY <1>0, <1>6 DEF PutField, TypeOK, RoleInv, AloneInv, Active, Put, Fault
  <2>4. EntryInv'
    BY <1>0, <1>6, FieldSet DEF PutField, TypeOK, RoleInv, AloneInv, EntryInv, Active, Put, Fault
  <2> QED BY <2>1, <2>2, <2>3, <2>4 DEF IInv
<1>7. ASSUME NEW i \in Instances, Registered(i) PROVE IInv'
  <2>1. TypeOK'
    BY <1>0, <1>7 DEF Registered, TypeOK, Pcs
  <2>2. RoleInv'
    BY <1>0, <1>7 DEF Registered, TypeOK, RoleInv, Active
  <2>3. AloneInv'
    BY <1>0, <1>7 DEF Registered, TypeOK, RoleInv, AloneInv, Active
  <2>4. EntryInv'
    BY <1>0, <1>7 DEF Registered, TypeOK, RoleInv, AloneInv, EntryInv, Active
  <2> QED BY <2>1, <2>2, <2>3, <2>4 DEF IInv
<1>8. ASSUME NEW i \in Instances, PingDue(i) PROVE IInv'
  <2>1. TypeOK'
    BY <1>0, <1>8 DEF PingDue, TypeOK, Pcs
  <2>2. RoleInv'
    BY <1>0, <1>8 DEF PingDue, TypeOK, RoleInv, Active
  <2>3. AloneInv'
    BY <1>0, <1>8 DEF PingDue, TypeOK, RoleInv, AloneInv, Active
  <2>4. EntryInv'
    BY <1>0, <1>8 DEF PingDue, TypeOK, RoleInv, AloneInv, EntryInv, Active
  <2> QED BY <2>1, <2>2, <2>3, <2>4 DEF IInv
<1>9. ASSUME NEW i \in Instances, PutPing(i) PROVE IInv'
  <2>1. TypeOK'
    <3>1. kv' \in [Fields -> Instances \cup {Absent}] /\ debris' \subseteq Fields
      <4>1. CASE Put(i, "lastPing")
        BY <1>0, <4>1, FieldSet, PutType
      <4>2. CASE ~Put(i, "lastPing")
        BY <1>0, <1>9, <4>2 DEF PutPing, TypeOK
      <4> QED BY <4>1, <4>2
    <3>2. /\ age' \in 0..PingInterval /\ silent' \in [Instances -> 0..PingInterval]
          /\ ping' \in [Instances -> {"none", "put", "cpu"}]
          /\ stamp' \in [Instances -> 0..PingInterval]
      BY <1>0, <1>9 DEF PutPing, TypeOK
    <3>3. failures' \in 0..MaxFailures /\ disturbed' \subseteq Instances
      BY <1>0, <1>9 DEF PutPing, TypeOK, Fault
    <3> QED BY <1>0, <1>9, <3>1, <3>2, <3>3 DEF PutPing, TypeOK
  <2>2. RoleInv'
    BY <1>0, <1>9 DEF PutPing, TypeOK, RoleInv, Active, Put, Fault
  <2>3. AloneInv'
    BY <1>0, <1>9 DEF PutPing, TypeOK, RoleInv, AloneInv, Active, Put, Fault
  <2>4. EntryInv'
    <3> SUFFICES ASSUME NEW k \in Instances, Active(k)', pc'[k] \in {"register", "up"},
                        k \notin disturbed', NEW f \in RegisterFields \ todo'[k]
                 PROVE  kv'[f] = k /\ (f = "lastPing" => age' = silent'[k])
      BY DEF EntryInv
    <3>1. /\ UNCHANGED <<pc, todo, disturbed>>
          /\ \/ /\ Put(i, "lastPing") /\ age' = stamp[i]
                /\ silent' = [silent EXCEPT ![i] = IF pc[i] = "up" THEN stamp[i] ELSE @]
             \/ UNCHANGED <<kv, age, silent>>
      BY <1>9 DEF PutPing
    <3>2. Active(i) /\ Active(k) /\ k \notin disturbed
      BY <1>0, <1>9, <3>1 DEF PutPing, RoleInv, Active
    <3>3. k = i
      BY <1>0, <3>2 DEF AloneInv
    <3>4. kv[f] = k /\ (f = "lastPing" => age = silent[k])
      BY <1>0, <3>1, <3>2 DEF EntryInv
    <3>5. pc[i] = "up"
      BY <1>0, <1>9, <3>1, <3>3 DEF PutPing, RoleInv
    <3>6. CASE Put(i, "lastPing") /\ age' = stamp[i]
                 /\ silent' = [silent EXCEPT ![i] = stamp[i]]
      BY <1>0, <3>3, <3>4, <3>6 DEF TypeOK, Put
    <3> QED BY <3>1, <3>3, <3>4, <3>5, <3>6
  <2> QED BY <2>1, <2>2, <2>3, <2>4 DEF IInv
<1>10. ASSUME NEW i \in Instances, PutCpu(i) PROVE IInv'
  <2>1. TypeOK'
    <3>1. kv' \in [Fields -> Instances \cup {Absent}] /\ debris' \subseteq Fields
      <4>1. CASE Put(i, "cpuScore")
        BY <1>0, <4>1, FieldSet, PutType
      <4>2. CASE ~Put(i, "cpuScore")
        BY <1>0, <1>10, <4>2 DEF PutCpu, TypeOK
      <4> QED BY <4>1, <4>2
    <3> QED BY <1>0, <1>10, <3>1 DEF PutCpu, TypeOK
  <2>2. RoleInv'
    BY <1>0, <1>10 DEF PutCpu, TypeOK, RoleInv, Active, Put
  <2>3. AloneInv'
    BY <1>0, <1>10 DEF PutCpu, TypeOK, RoleInv, AloneInv, Active, Put
  <2>4. EntryInv'
    BY <1>0, <1>10, FieldSet DEF PutCpu, TypeOK, RoleInv, AloneInv, EntryInv, Active, Put
  <2> QED BY <2>1, <2>2, <2>3, <2>4 DEF IInv
<1>11. ASSUME NEW i \in Instances, BeginStop(i) PROVE IInv'
  <2>1. TypeOK'
    BY <1>0, <1>11 DEF BeginStop, TypeOK, Pcs
  <2>2. RoleInv'
    BY <1>0, <1>11 DEF BeginStop, TypeOK, RoleInv, Active
  <2>3. AloneInv'
    BY <1>0, <1>11 DEF BeginStop, TypeOK, RoleInv, AloneInv, Active
  <2>4. EntryInv'
    BY <1>0, <1>11 DEF BeginStop, TypeOK, RoleInv, AloneInv, EntryInv, Active
  <2> QED BY <2>1, <2>2, <2>3, <2>4 DEF IInv
<1>12. ASSUME NEW i \in Instances, EndRecorders(i) PROVE IInv'
  <2>1. TypeOK'
    BY <1>0, <1>12 DEF EndRecorders, TypeOK, Pcs
  <2>2. RoleInv'
    BY <1>0, <1>12 DEF EndRecorders, TypeOK, RoleInv, Active
  <2>3. AloneInv'
    BY <1>0, <1>12 DEF EndRecorders, TypeOK, RoleInv, AloneInv, Active
  <2>4. EntryInv'
    BY <1>0, <1>12 DEF EndRecorders, TypeOK, RoleInv, AloneInv, EntryInv, Active
  <2> QED BY <2>1, <2>2, <2>3, <2>4 DEF IInv
<1>13. ASSUME NEW i \in Instances, PurgeField(i) PROVE IInv'
  <2>1. TypeOK'
    <3> DEFINE f == FieldOrder[NextField(todo[i])]
    <3>1. f \in Fields
      BY <1>0, <1>13, NextFieldIn DEF TypeOK, PurgeField
    <3>2. /\ todo' = [todo EXCEPT ![i] = @ \ {f}]
          /\ \/ /\ kv' = [kv EXCEPT ![f] = Absent] /\ debris' = debris \ {f}
                /\ age' = IF f = "lastPing" THEN 0 ELSE age
                /\ UNCHANGED failures
             \/ Fault /\ debris' = debris \cup {f} /\ UNCHANGED bucket
      BY <1>13 DEF PurgeField
    <3> HIDE DEF f
    <3>3. kv' \in [Fields -> Instances \cup {Absent}] /\ debris' \subseteq Fields
      BY <1>0, <3>1, <3>2 DEF TypeOK
    <3>4. age' \in 0..PingInterval /\ failures' \in 0..MaxFailures
      BY <1>0, <3>2 DEF TypeOK, Fault
    <3>5. todo' \in [Instances -> SUBSET Fields]
      BY <1>0, <3>2 DEF TypeOK
    <3> QED BY <1>0, <1>13, <3>3, <3>4, <3>5 DEF PurgeField, TypeOK
  <2>2. RoleInv'
    BY <1>0, <1>13 DEF PurgeField, TypeOK, RoleInv, Active, Fault
  <2>3. AloneInv'
    BY <1>0, <1>13 DEF PurgeField, TypeOK, RoleInv, AloneInv, Active, Fault
  <2>4. EntryInv'
    BY <1>0, <1>13 DEF PurgeField, TypeOK, RoleInv, AloneInv, EntryInv, Active, Fault
  <2> QED BY <2>1, <2>2, <2>3, <2>4 DEF IInv
<1>14. ASSUME NEW i \in Instances, Exit(i) PROVE IInv'
  <2>1. TypeOK'
    BY <1>0, <1>14 DEF Exit, TypeOK, Pcs, Reset
  <2>2. RoleInv'
    BY <1>0, <1>14 DEF Exit, TypeOK, RoleInv, Active, Reset
  <2>3. AloneInv'
    BY <1>0, <1>14 DEF Exit, TypeOK, RoleInv, AloneInv, Active, Reset
  <2>4. EntryInv'
    BY <1>0, <1>14 DEF Exit, TypeOK, RoleInv, AloneInv, EntryInv, Active, Reset
  <2> QED BY <2>1, <2>2, <2>3, <2>4 DEF IInv
<1>15. ASSUME NEW i \in Instances, Crash(i) PROVE IInv'
  <2>1. TypeOK'
    BY <1>0, <1>15 DEF Crash, TypeOK, Pcs, Reset, Fault
  <2>2. RoleInv'
    BY <1>0, <1>15 DEF Crash, TypeOK, RoleInv, Active, Reset, Fault
  <2>3. AloneInv'
    BY <1>0, <1>15 DEF Crash, TypeOK, RoleInv, AloneInv, Active, Reset, Fault
  <2>4. EntryInv'
    BY <1>0, <1>15 DEF Crash, TypeOK, RoleInv, AloneInv, EntryInv, Active, Reset, Fault
  <2> QED BY <2>1, <2>2, <2>3, <2>4 DEF IInv
<1> QED
  BY <1>1, <1>2, <1>3, <1>4, <1>5, <1>6, <1>7, <1>8, <1>9, <1>10, <1>11, <1>12, <1>13, <1>14, <1>15
     DEF Next, Step

-----------------------------------------------------------------------------

\* The inductive invariant holds in every behavior.
THEOREM Inductive == Spec => []IInv
  BY InitInv, NextInv, PTL DEF Spec

\* Type correctness.
THEOREM TypeCorrect == Spec => []TypeOK
<1>1. IInv => TypeOK
  BY DEF IInv
<1> QED BY <1>1, Inductive, PTL

\* Whatever instances came before, crashed or were refused, an instance that is
\* up and was alone is listed with all its fields.
THEOREM AloneListed == Spec => []AloneIsListed
<1>1. IInv => AloneIsListed
  BY DEF IInv, RoleInv, EntryInv, AloneIsListed
<1> QED BY <1>1, Inductive, PTL

\* A registration begins with Accept.
LEMMA OnlyAccept ==
    ASSUME TypeOK, Next, NEW i \in Instances, pc[i] = "check", pc'[i] = "register"
    PROVE  Accept(i)
<1> USE DEF TypeOK, Goto
<1>1. ~Tick
  BY DEF Tick
<1>2. PICK k \in Instances :
        \/ Start(k) \/ Refuse(k) \/ Step(k) \/ PingDue(k)
        \/ BeginStop(k) \/ Crash(k)
  BY <1>1 DEF Next
<1>3. ~Start(k)
  BY DEF Start
<1>4. ~Refuse(k)
  BY DEF Refuse
<1>5. ~PutField(k)
  BY DEF PutField
<1>6. ~Registered(k)
  BY DEF Registered
<1>7. ~PingDue(k)
  BY DEF PingDue
<1>8. ~PutPing(k)
  BY DEF PutPing
<1>9. ~PutCpu(k)
  BY DEF PutCpu
<1>10. ~BeginStop(k)
  BY DEF BeginStop
<1>11. ~EndRecorders(k)
  BY DEF EndRecorders
<1>12. ~PurgeField(k)
  BY DEF PurgeField
<1>13. ~Exit(k)
  BY DEF Exit, Reset
<1>14. ~Crash(k)
  BY DEF Crash, Reset
<1>15. Accept(k)
  BY <1>2, <1>3, <1>4, <1>5, <1>6, <1>7, <1>8, <1>9, <1>10, <1>11, <1>12, <1>13, <1>14 DEF Step
<1> QED BY <1>15 DEF Accept

\* Nobody takes the id of an instance that was alone while its last ping is
\* younger than the interval.
THEOREM SilentBeforeTakenOver == Spec => OnlyTheSilentAreTakenOver
<1>1. IInv /\ [Next]_vars =>
        [\A i, k \in Instances :
            /\ i # k /\ pc[i] = "check" /\ pc'[i] = "register"
            /\ pc[k] = "up" /\ Active(k) /\ k \notin disturbed
            => silent[k] >= PingInterval]_vars
  <2> SUFFICES ASSUME IInv, Next, NEW i \in Instances, NEW k \in Instances,
                      pc[i] = "check", pc'[i] = "register",
                      pc[k] = "up", Active(k), k \notin disturbed
               PROVE  silent[k] >= PingInterval
    OBVIOUS
  <2>1. Accept(i)
    BY OnlyAccept DEF IInv
  <2>2. kv["lastPing"] = k /\ age = silent[k]
    BY FieldSet DEF IInv, RoleInv, EntryInv
  <2>3. age \in 0..PingInterval
    BY DEF IInv, TypeOK
  <2> QED BY <2>1, <2>2, <2>3, RegistryAssumption DEF Accept, Recent
<1> QED BY <1>1, Inductive, PTL DEF Spec, OnlyTheSilentAreTakenOver

-----------------------------------------------------------------------------
(* What a stop leaves *)

\* Instance i purges field f before it is gone.
WillPurge(i, f) == Active(i) /\ (pc[i] = "purge" => f \in todo[i])

\* A field that is there and is no debris is owed: an active instance purges it
\* before it is gone.
DebrisInv ==
    \A f \in Fields : kv[f] # Absent /\ f \notin debris =>
        \E i \in Instances : WillPurge(i, f)

\* An instance that only goes on, or puts its own fields, still owes them.
LEMMA OwedKept ==
    ASSUME TypeOK, DebrisInv, NEW f \in Fields, kv'[f] # Absent, f \notin debris',
           kv[f] # Absent /\ f \notin debris,
           \A i \in Instances : WillPurge(i, f) => WillPurge(i, f)'
    PROVE  \E i \in Instances : WillPurge(i, f)'
  BY DEF DebrisInv

\* A put adds a field that its writer owes, or debris, and nothing else.
LEMMA PutOwed ==
    ASSUME TypeOK, DebrisInv, NEW i \in Instances, NEW g \in Fields, Put(i, g),
           Active(i), UNCHANGED pc,
           \A k \in Instances, f \in Fields : WillPurge(k, f) => WillPurge(k, f)',
           pc[i] = "purge" => todo' = todo
    PROVE  DebrisInv'
<1> SUFFICES ASSUME NEW f \in Fields, kv'[f] # Absent, f \notin debris'
             PROVE  \E k \in Instances : WillPurge(k, f)'
  BY DEF DebrisInv
<1>1. CASE f = g
  <2>1. WillPurge(i, f)'
    BY <1>1 DEF Put, TypeOK, WillPurge, Active
  <2> QED BY <2>1
<1>2. CASE f # g
  <2>1. kv[f] # Absent /\ f \notin debris
    BY <1>2 DEF Put, TypeOK
  <2> QED BY <2>1, OwedKept
<1> QED BY <1>1, <1>2

\* Every step keeps it.
LEMMA DebrisNext == IInv /\ DebrisInv /\ [Next]_vars => DebrisInv'
<1> SUFFICES ASSUME IInv, DebrisInv, [Next]_vars PROVE DebrisInv'
  OBVIOUS
<1> USE DEF bucket, history, Goto
<1>0. TypeOK /\ RoleInv
  BY DEF IInv
<1>1. CASE UNCHANGED vars
  BY <1>1 DEF vars, DebrisInv, WillPurge, Active
<1>2. CASE Tick
  BY <1>2 DEF Tick, DebrisInv, WillPurge, Active
<1>3. ASSUME NEW i \in Instances, Start(i) PROVE DebrisInv'
  BY <1>0, <1>3 DEF Start, TypeOK, DebrisInv, WillPurge, Active
<1>4. ASSUME NEW i \in Instances, Refuse(i) PROVE DebrisInv'
  BY <1>0, <1>4 DEF Refuse, TypeOK, DebrisInv, WillPurge, Active
<1>5. ASSUME NEW i \in Instances, Accept(i) PROVE DebrisInv'
  BY <1>0, <1>5 DEF Accept, TypeOK, RoleInv, DebrisInv, WillPurge, Active
<1>6. ASSUME NEW i \in Instances, PutField(i) PROVE DebrisInv'
  <2>1. PICK g \in todo[i] :
          /\ todo' = [todo EXCEPT ![i] = @ \ {g}]
          /\ Put(i, g) \/ UNCHANGED <<bucket, debris>>
    BY <1>6 DEF PutField
  <2>2. /\ g \in Fields /\ Active(i) /\ pc[i] = "register" /\ UNCHANGED pc
    BY <1>0, <1>6 DEF PutField, TypeOK, RoleInv, Active
  <2>3. \A k \in Instances, f \in Fields : WillPurge(k, f) => WillPurge(k, f)'
    BY <1>0, <2>1, <2>2 DEF TypeOK, WillPurge, Active
  <2>4. CASE Put(i, g)
    BY <1>0, <2>2, <2>3, <2>4, PutOwed
  <2>5. CASE UNCHANGED <<bucket, debris>>
    BY <2>3, <2>5 DEF DebrisInv
  <2> QED BY <2>1, <2>4, <2>5
<1>7. ASSUME NEW i \in Instances, Registered(i) PROVE DebrisInv'
  BY <1>0, <1>7 DEF Registered, TypeOK, DebrisInv, WillPurge, Active
<1>8. ASSUME NEW i \in Instances, PingDue(i) PROVE DebrisInv'
  BY <1>8 DEF PingDue, DebrisInv, WillPurge, Active
<1>9. ASSUME NEW i \in Instances, PutPing(i) PROVE DebrisInv'
  <2>1. /\ Active(i) /\ UNCHANGED <<pc, todo>>
        /\ Put(i, "lastPing") \/ UNCHANGED <<kv, debris>>
    BY <1>0, <1>9 DEF PutPing, RoleInv
  <2>2. \A k \in Instances, f \in Fields : WillPurge(k, f) => WillPurge(k, f)'
    BY <2>1 DEF WillPurge, Active
  <2>3. CASE Put(i, "lastPing")
    BY <1>0, <2>1, <2>2, <2>3, FieldSet, PutOwed
  <2>4. CASE UNCHANGED <<kv, debris>>
    BY <2>2, <2>4 DEF DebrisInv
  <2> QED BY <2>1, <2>3, <2>4
<1>10. ASSUME NEW i \in Instances, PutCpu(i) PROVE DebrisInv'
  <2>1. /\ Active(i) /\ UNCHANGED <<pc, todo>>
        /\ Put(i, "cpuScore") \/ UNCHANGED <<kv, debris>>
    BY <1>0, <1>10 DEF PutCpu, RoleInv
  <2>2. \A k \in Instances, f \in Fields : WillPurge(k, f) => WillPurge(k, f)'
    BY <2>1 DEF WillPurge, Active
  <2>3. CASE Put(i, "cpuScore")
    BY <1>0, <2>1, <2>2, <2>3, FieldSet, PutOwed
  <2>4. CASE UNCHANGED <<kv, debris>>
    BY <2>2, <2>4 DEF DebrisInv
  <2> QED BY <2>1, <2>3, <2>4
<1>11. ASSUME NEW i \in Instances, BeginStop(i) PROVE DebrisInv'
  BY <1>0, <1>11 DEF BeginStop, TypeOK, DebrisInv, WillPurge, Active
<1>12. ASSUME NEW i \in Instances, EndRecorders(i) PROVE DebrisInv'
  BY <1>0, <1>12 DEF EndRecorders, TypeOK, DebrisInv, WillPurge, Active
<1>13. ASSUME NEW i \in Instances, PurgeField(i) PROVE DebrisInv'
  <2> DEFINE g == FieldOrder[NextField(todo[i])]
  <2>1. /\ todo' = [todo EXCEPT ![i] = @ \ {g}] /\ UNCHANGED pc
        /\ \/ kv' = [kv EXCEPT ![g] = Absent] /\ debris' = debris \ {g}
           \/ debris' = debris \cup {g} /\ UNCHANGED kv
    BY <1>13 DEF PurgeField
  <2> HIDE DEF g
  <2> SUFFICES ASSUME NEW f \in Fields, kv'[f] # Absent, f \notin debris'
               PROVE  \E k \in Instances : WillPurge(k, f)'
    BY DEF DebrisInv
  <2>2. f # g /\ kv[f] # Absent /\ f \notin debris
    BY <1>0, <2>1 DEF TypeOK
  <2>3. \A k \in Instances : WillPurge(k, f) => WillPurge(k, f)'
    BY <1>0, <2>1, <2>2 DEF TypeOK, WillPurge, Active
  <2> QED BY <1>0, <2>2, <2>3, OwedKept
<1>14. ASSUME NEW i \in Instances, Exit(i) PROVE DebrisInv'
  BY <1>0, <1>14 DEF Exit, Reset, TypeOK, DebrisInv, WillPurge, Active
<1>15. ASSUME NEW i \in Instances, Crash(i) PROVE DebrisInv'
  <2>1. CASE Active(i)
    BY <1>15, <2>1 DEF Crash, DebrisInv
  <2>2. CASE ~Active(i)
    <3>1. \A k \in Instances, f \in Fields : WillPurge(k, f) => WillPurge(k, f)'
      BY <1>0, <1>15, <2>2 DEF Crash, Reset, TypeOK, WillPurge, Active
    <3> QED BY <1>15, <2>2, <3>1 DEF Crash, DebrisInv
  <2> QED BY <2>1, <2>2
<1> QED
  BY <1>1, <1>2, <1>3, <1>4, <1>5, <1>6, <1>7, <1>8, <1>9, <1>10, <1>11, <1>12, <1>13, <1>14, <1>15
     DEF Next, Step

\* When every instance is down, whatever they did to each other's fields, the
\* bucket holds only what a crash, a failed purge or a late put left.
THEOREM StopsClean == Spec => []StopsLeaveNothing
<1>1. Init => DebrisInv
  BY DEF Init, DebrisInv
<1>2. Spec => []DebrisInv
  BY <1>1, Inductive, DebrisNext, PTL DEF Spec
<1>3. DebrisInv => StopsLeaveNothing
  BY DEF DebrisInv, WillPurge, StopsLeaveNothing
<1> QED BY <1>2, <1>3, PTL
=============================================================================
