---------------------------- MODULE RecordingLife ----------------------------
(* What the whole program promises about its recordings, from the moment a     *)
(* session ends with a file until plugNmeet is told of the final one.          *)
(* RecordingPipeline.tla is the detailed specification and implements this.    *)

CONSTANT Recordings

VARIABLE life

Init == life = [r \in Recordings |-> "recording"]

\* "saved": onAfterClose works on the file; "stranded": the file is kept but no
\* job was published; "queued": its job is in the queue or in work; "stalled":
\* the same, but every worker has returned from its loop; "dropped": the queue
\* has given up; "forgotten": the job is done, and plugNmeet was not told.
Steps ==
    \* onAfterClose: a job, or an error or a crash without one
    {<<"recording", "saved">>, <<"saved", "queued">>, <<"saved", "stalled">>,
     <<"saved", "stranded">>}
    \cup
    \* the job leaves the queue, or the last worker does
    {<<"queued", "reported">>, <<"queued", "forgotten">>, <<"queued", "dropped">>,
     <<"queued", "stalled">>}
    \cup
    \* a worker comes up again; retry-transcode
    {<<"stalled", "queued">>, <<"stalled", "dropped">>,
     <<"dropped", "queued">>, <<"dropped", "stalled">>}
    \cup
    \* a job that was given up or done is still in the hands of another worker
    {<<"dropped", "reported">>, <<"forgotten", "reported">>}

\* Each recording goes its own way.
Next ==
    \A r \in Recordings : life'[r] = life[r] \/ <<life[r], life'[r]>> \in Steps

\* Nothing stays in onAfterClose, and nothing stays in a queue somebody works on.
Proceeds ==
    \A r \in Recordings :
        /\ life[r] = "saved" ~> life[r] # "saved"
        /\ life[r] = "queued" ~> life[r] # "queued"

Spec == Init /\ [][Next]_life /\ Proceeds
=============================================================================
