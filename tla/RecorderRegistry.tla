--------------------------- MODULE RecorderRegistry ---------------------------
(* Instances of the program with one recorder id, and the keys of that id in   *)
(* the KV bucket plugNmeet reads: pkg/services/nats, with bootUp, startPing    *)
(* and callEndToAll of pkg/controllers and the fx hooks around them.           *)
(*                                                                             *)
(* The bucket is external: a get, a put or a purge is atomic and may fail.     *)
(* The value of a key is seen as the instance that wrote it.  Time is in ticks *)
(* and only ages are kept, up to PingInterval, where an entry becomes stale.   *)
EXTENDS Settings

CONSTANTS
    Instances,
    Config,         \* Config[i]: the configuration instance i is started with
    PingInterval,   \* in ticks: the period of the ping and the age of staleness
    MaxFailures     \* bound: processes that die without their OnStop hooks, and
                    \* lookups, puts and purges that fail

ASSUME RegistryAssumption ==
    /\ PingInterval \in Nat \ {0} /\ MaxFailures \in Nat
    /\ Absent \notin Instances

VARIABLES
    \* --- the bucket ---
    kv,         \* kv[f]: who wrote the field, or Absent
    age,        \* of the time in lastPing
    \* --- an instance ---
    pc,
    todo,       \* fields it has still to put, or to purge
    timer,      \* time since the ticker of startPing fired
    ping,       \* the goroutine of startPing inside UpdateStatus
    stamp,      \* age of the time it has taken and not put yet
    \* --- history ---
    silent,     \* age of the last time this instance has put in lastPing
    disturbed,  \* another instance of the id was active at the same time, or a
                \* write of this one failed
    debris,     \* fields a crash, a failed purge or a put after the purge left
    failures

bucket  == <<kv, age>>
history == <<silent, disturbed, debris>>
vars    == <<bucket, pc, todo, timer, ping, stamp, history, failures>>

\* In the order of DeleteRecorder.  maxLimit stands for totalCores and progress
\* as well: the registration puts all three, and the progress that recorders put
\* later is a matter of RecorderController.
FieldOrder == <<"maxLimit", "lastPing", "cpuScore">>
Fields == Range(FieldOrder)

\* Mutant: a new field that DeleteRecorder does not know.
RegisterFieldsMore == (Fields \ {"cpuScore"}) \cup {"status"}

\* What RegisterAsActiveRecorder puts, in the order of a Go map: any.
RegisterFields == Fields \ {"cpuScore"}

\* "check": about to look at lastPing; "ending": callEndToAll waits for its
\* recorders; "purge": DeleteRecorder, then the hooks that close the connection.
Pcs == {"down", "check", "register", "up", "ending", "purge"}

TypeOK ==
    /\ kv \in [Fields -> Instances \cup {Absent}] /\ age \in 0..PingInterval
    /\ pc \in [Instances -> Pcs] /\ todo \in [Instances -> SUBSET Fields]
    /\ timer \in [Instances -> 0..PingInterval]
    /\ ping \in [Instances -> {"none", "put", "cpu"}]
    /\ stamp \in [Instances -> 0..PingInterval]
    /\ silent \in [Instances -> 0..PingInterval]
    /\ disturbed \subseteq Instances /\ debris \subseteq Fields
    /\ failures \in 0..MaxFailures

Init ==
    /\ kv = [f \in Fields |-> Absent] /\ age = 0
    /\ pc = [i \in Instances |-> "down"] /\ todo = [i \in Instances |-> {}]
    /\ timer = [i \in Instances |-> 0] /\ ping = [i \in Instances |-> "none"]
    /\ stamp = [i \in Instances |-> 0]
    /\ silent = [i \in Instances |-> 0] /\ disturbed = {} /\ debris = {}
    /\ failures = 0

-----------------------------------------------------------------------------

\* An age of PingInterval stands for every greater one.
Later(t) == IF t < PingInterval THEN t + 1 ELSE t
Goto(i, to) == pc' = [pc EXCEPT ![i] = to]

Startable  == {i \in Instances : ValidConfig(Config[i])}

\* A transcoder does not register.
Recorders  == {i \in Instances : Records(SetDefaultConfig(Config[i]).mode)}

\* In the bucket, or on its way in or out.
Active(i) == i \in Recorders /\ pc[i] \in {"register", "up", "ending", "purge"}
Others(i) == {k \in Instances \ {i} : Active(k)}

\* Put by i, who will purge the field when it stops unless it already has.
Put(i, f) ==
    /\ kv' = [kv EXCEPT ![f] = i]
    /\ debris' = IF pc[i] = "purge" /\ f \notin todo[i] THEN debris \cup {f}
                                                        ELSE debris \ {f}

Fault == failures < MaxFailures /\ failures' = failures + 1

\* Time passes.  Nothing is due at a moment: a ping may be late.
Tick ==
    /\ age'    = IF kv["lastPing"] = Absent THEN 0 ELSE Later(age)
    /\ timer'  = [i \in Instances |-> IF Active(i) /\ pc[i] = "up"
                                       THEN Later(timer[i]) ELSE timer[i]]
    /\ silent' = [i \in Instances |-> IF Active(i) /\ pc[i] \in {"register", "up"}
                                       THEN Later(silent[i]) ELSE silent[i]]
    /\ stamp'  = [i \in Instances |-> IF ping[i] = "put" THEN Later(stamp[i]) ELSE 0]
    /\ UNCHANGED <<kv, pc, todo, ping, disturbed, debris, failures>>

-----------------------------------------------------------------------------
(* Start *)

\* main, the providers and the hooks come first: a configuration that is refused
\* ends the program before it has a connection.
Start(i) ==
    /\ pc[i] = "down" /\ i \in Startable
    /\ Goto(i, IF i \in Recorders THEN "check" ELSE "up")
    /\ UNCHANGED <<bucket, todo, timer, ping, stamp, history, failures>>

\* Mutant: the comparison is the wrong way round.
RecentStale == kv["lastPing"] # Absent /\ age >= PingInterval

\* Mutant: a stale entry counts as well.
RecentAlways == kv["lastPing"] # Absent

\* lastPing is there and not as old as the ping interval.
Recent == kv["lastPing"] # Absent /\ age < PingInterval

\* Mutant: the program stops as if it had been started.
RefusePurges(i) ==
    /\ pc[i] = "check"
    /\ Recent
    /\ Goto(i, "purge")
    /\ todo' = [todo EXCEPT ![i] = Fields]
    /\ UNCHANGED <<bucket, timer, ping, stamp, history, failures>>

\* RegisterAsActiveRecorder fails, on an entry or on the lookup itself.  fx rolls
\* back: only the hooks that were started are stopped, callEndToAll is not one.
Refuse(i) ==
    /\ pc[i] = "check"
    /\ \/ Recent /\ UNCHANGED failures
       \/ Fault
    /\ Goto(i, "down")
    /\ UNCHANGED <<bucket, todo, timer, ping, stamp, history>>

\* There is no entry, or a stale one: "It's safe to proceed".
Accept(i) ==
    /\ pc[i] = "check" /\ ~Recent
    /\ Goto(i, "register")
    /\ todo' = [todo EXCEPT ![i] = RegisterFields]
    /\ silent' = [silent EXCEPT ![i] = 0]
    /\ disturbed' = IF Others(i) = {} THEN disturbed \ {i}
                                      ELSE disturbed \cup {i} \cup Others(i)
    /\ UNCHANGED <<bucket, timer, ping, stamp, debris, failures>>

\* One field; an error is only logged.
PutField(i) ==
    /\ pc[i] = "register"
    /\ \E f \in todo[i] :
          /\ todo' = [todo EXCEPT ![i] = @ \ {f}]
          /\ \/ /\ Put(i, f)
                /\ age' = IF f = "lastPing" THEN silent[i] ELSE age
                /\ UNCHANGED <<failures, disturbed>>
             \/ /\ Fault
                /\ disturbed' = disturbed \cup {i}
                /\ UNCHANGED <<bucket, debris>>
    /\ UNCHANGED <<pc, timer, ping, stamp, silent>>

\* The goroutine of startPing and the services are started.
Registered(i) ==
    /\ pc[i] = "register" /\ todo[i] = {}
    /\ Goto(i, "up")
    /\ timer' = [timer EXCEPT ![i] = 0]
    /\ UNCHANGED <<bucket, todo, ping, stamp, history, failures>>

-----------------------------------------------------------------------------
(* startPing *)

\* The ticker fires, isShuttingDown is not set, and UpdateStatus takes the time:
\* a late ping stands for a slow lookup of the bucket, too.
PingDue(i) ==
    /\ pc[i] = "up" /\ i \in Recorders /\ ping[i] = "none" /\ timer[i] = PingInterval
    /\ timer' = [timer EXCEPT ![i] = 0]
    /\ ping' = [ping EXCEPT ![i] = "put"] /\ stamp' = [stamp EXCEPT ![i] = 0]
    /\ UNCHANGED <<bucket, pc, todo, history, failures>>

\* The put, of a time as old as the put took.
PutPing(i) ==
    /\ ping[i] = "put"
    /\ \/ /\ Put(i, "lastPing")
          /\ age' = stamp[i]
          /\ silent' = [silent EXCEPT ![i] = IF pc[i] = "up" THEN stamp[i] ELSE @]
          /\ ping' = [ping EXCEPT ![i] = "cpu"]
          /\ UNCHANGED <<failures, disturbed>>
       \/ /\ Fault
          /\ ping' = [ping EXCEPT ![i] = "none"]
          /\ UNCHANGED <<bucket, silent, disturbed, debris>>
    /\ stamp' = [stamp EXCEPT ![i] = 0]
    /\ UNCHANGED <<pc, todo, timer>>

\* A second later.  The load may not be known, or its put may fail.
PutCpu(i) ==
    /\ ping[i] = "cpu"
    /\ ping' = [ping EXCEPT ![i] = "none"]
    /\ Put(i, "cpuScore") \/ UNCHANGED <<kv, debris>>
    /\ UNCHANGED <<age, pc, todo, timer, stamp, silent, disturbed, failures>>

-----------------------------------------------------------------------------
(* Stop *)

\* SIGTERM, or the connection was closed for good: callEndToAll, which ends the
\* recorders before anything else.
BeginStop(i) ==
    /\ pc[i] = "up"
    /\ Goto(i, IF i \in Recorders THEN "ending" ELSE "down")
    /\ timer' = [timer EXCEPT ![i] = 0] /\ silent' = [silent EXCEPT ![i] = 0]
    /\ UNCHANGED <<bucket, todo, ping, stamp, disturbed, debris, failures>>

\* Mutant: the field UpdateStatus adds is forgotten.
EndRecordersPartly(i) ==
    /\ pc[i] = "ending"
    /\ Goto(i, "purge")
    /\ todo' = [todo EXCEPT ![i] = RegisterFields]
    /\ UNCHANGED <<bucket, timer, ping, stamp, history, failures>>

\* close(closeTicker), then DeleteRecorder.
EndRecorders(i) ==
    /\ pc[i] = "ending"
    /\ Goto(i, "purge")
    /\ todo' = [todo EXCEPT ![i] = Fields]
    /\ UNCHANGED <<bucket, timer, ping, stamp, history, failures>>

NextField(S) == CHOOSE n \in DOMAIN FieldOrder :
                    FieldOrder[n] \in S /\ \A m \in 1..(n - 1) : FieldOrder[m] \notin S

\* The fields in order; an error is logged and the next one is tried.
PurgeField(i) ==
    /\ pc[i] = "purge" /\ todo[i] # {}
    /\ LET f == FieldOrder[NextField(todo[i])]
       IN /\ todo' = [todo EXCEPT ![i] = @ \ {f}]
          /\ \/ /\ kv' = [kv EXCEPT ![f] = Absent] /\ debris' = debris \ {f}
                /\ age' = IF f = "lastPing" THEN 0 ELSE age
                /\ UNCHANGED failures
             \/ Fault /\ debris' = debris \cup {f} /\ UNCHANGED bucket
    /\ UNCHANGED <<pc, timer, ping, stamp, silent, disturbed>>

Reset(i) ==
    /\ Goto(i, "down")
    /\ todo'  = [todo EXCEPT ![i] = {}]
    /\ timer' = [timer EXCEPT ![i] = 0]
    /\ ping'  = [ping EXCEPT ![i] = "none"]
    /\ stamp' = [stamp EXCEPT ![i] = 0]
    /\ silent' = [silent EXCEPT ![i] = 0]
    /\ disturbed' = disturbed \ {i}

\* The connection is closed and the process exits, with a ping still on its way.
Exit(i) ==
    /\ pc[i] = "purge" /\ todo[i] = {}
    /\ Reset(i)
    /\ UNCHANGED <<bucket, debris, failures>>

\* The process dies, or its hooks exceed the stop timeout of fx.
Crash(i) ==
    /\ pc[i] # "down" /\ Fault
    /\ Reset(i)
    /\ debris' = IF Active(i)
                 THEN debris \cup {f \in Fields : kv[f] # Absent} ELSE debris
    /\ UNCHANGED bucket

-----------------------------------------------------------------------------

Step(i) ==
    \/ Accept(i) \/ PutField(i) \/ Registered(i)
    \/ PutPing(i) \/ PutCpu(i)
    \/ EndRecorders(i) \/ PurgeField(i) \/ Exit(i)

Next ==
    \/ Tick
    \/ \E i \in Instances :
          \/ Start(i) \/ Refuse(i) \/ Step(i) \/ PingDue(i)
          \/ BeginStop(i) \/ Crash(i)

\* Time passes, a process goes on, and a program that is down is started again
\* (by its supervisor).
Fairness ==
    /\ WF_vars(Tick)
    /\ \A i \in Instances : WF_vars(Start(i)) /\ WF_vars(Step(i))

Spec == Init /\ [][Next]_vars
FairSpec == Spec /\ Fairness

-----------------------------------------------------------------------------
(* Properties *)

\* plugNmeet sees all of an instance that is up and was alone since it looked: no
\* instance that came before (stopped, crashed in the middle of its puts, or
\* refused) and no transcoder of the same configuration touches its entry.
AloneIsListed ==
    \A i \in Instances :
        pc[i] = "up" /\ Active(i) /\ i \notin disturbed =>
            \A f \in RegisterFields : kv[f] = i

\* An instance that is up and was alone loses its id only in a moment the last
\* time it has put is as old as the interval, however late it was put.
OnlyTheSilentAreTakenOver ==
    [][\A i, k \in Instances :
          /\ i # k /\ pc[i] = "check" /\ pc'[i] = "register"
          /\ pc[k] = "up" /\ Active(k) /\ k \notin disturbed
          => silent[k] >= PingInterval]_vars

\* When every instance is down, the bucket holds only what a crash, a purge that
\* failed or a put that overtook the purge of its own instance left.
StopsLeaveNothing ==
    (\A i \in Instances : ~Active(i)) =>
        \A f \in Fields : kv[f] = Absent \/ f \in debris

\* The id of dead instances becomes free: whatever they left, one that is started
\* again is accepted.
DeadIdIsFree ==
    (\A i \in Instances : ~Active(i)) ~> (\E i \in Instances : pc[i] = "register")

(* The settings.  They are made before the first step of an instance, so these *)
(* are stated of the initial states.                                            *)

\* normalizeNatsUrls accepts what can be connected to, and nothing is lost,
\* doubled or put in another order.
UrlsAsSpecified == Init => \A list \in BoundedSeq(Urls, MaxUrls) : NormalizesUrls(list)

\* fx_connection.go looks at one url and sets the websocket options for all: no
\* list that was accepted has both kinds.
OneTransport == Init => \A list \in BoundedSeq(Urls, MaxUrls) : FirstUrlDecides(list)

\* A second pass changes nothing, although the deprecated fields are still
\* there, and no pass changes what the operator set in a field that replaces one.
DefaultsSettle == Init => \A c \in Configs : ValidConfig(c) => Settles(c)

\* A service never runs a long-lived hook script that was not started, or with
\* fewer processes than its category asked for, whatever the mode, the order of
\* the categories and the scripts they share.
HooksReady == Init => \A c \in Configs : ValidConfig(c) => PoolsSuffice(c)

(* What the repository says and the code does not do *)

\* recorder.go:24 "ensures it is the only active instance with this ID".
OnlyActive ==
    \A i, k \in Instances :
        pc[i] = "up" /\ Active(i) /\ pc[k] = "up" /\ Active(k) => i = k
=============================================================================
