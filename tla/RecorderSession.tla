--------------------------- MODULE RecorderSession ---------------------------
(* What pkg/recorder promises to the controller about one recorder, and no     *)
(* more: it runs, at some point somebody closes it, the close hands over       *)
(* exactly once through OnAfterCloseCallback, and only then does it release    *)
(* its context.  START may be reported once, and the code promises nothing     *)
(* about when: see the action Announce.                                        *)
(*                                                                             *)
(* Recorder.tla is the detailed specification and implements this one;         *)
(* RecorderController.tla uses these phases for each recorder it owns.         *)
EXTENDS Naturals

VARIABLES
    phase,      \* where the session stands
    announced   \* how many times OnAfterStartCallback has run

vars == <<phase, announced>>

\* "running": Close has not been called; "closing": Close waits for its
\* cleaner; "handover": inside OnAfterCloseCallback; "ended": the context is
\* cancelled; "crashed": a goroutine of the session panicked.
Phases == {"running", "closing", "handover", "ended", "crashed"}

TypeOK == phase \in Phases /\ announced \in 0..1

Init == phase = "running" /\ announced = 0

\* OnAfterStartCallback: at any moment, even once the session is over.
Announce ==
    /\ phase # "crashed"
    /\ announced = 0
    /\ announced' = 1
    /\ UNCHANGED phase

BeginClose ==
    /\ phase = "running"
    /\ phase' = "closing"
    /\ UNCHANGED announced

HandOver ==
    /\ phase = "closing"
    /\ phase' = "handover"
    /\ UNCHANGED announced

Release ==
    /\ phase = "handover"
    /\ phase' = "ended"
    /\ UNCHANGED announced

\* A panic is possible only once the session has been told to close.
Crash ==
    /\ phase \in {"closing", "handover", "ended"}
    /\ phase' = "crashed"
    /\ UNCHANGED announced

Next == Announce \/ BeginClose \/ HandOver \/ Release \/ Crash

Spec == Init /\ [][Next]_vars /\ WF_vars(HandOver) /\ WF_vars(Release)
=============================================================================
