-------------------------- MODULE MCRecorderRegistry --------------------------
(* Instances of RecorderRegistry for TLC: two recorders with one id, and the    *)
(* configurations and url lists Settings is checked on.                         *)
EXTENDS RecorderRegistry

CONSTANTS r1, r2, t1

MCUrl(scheme, rest) == [scheme |-> scheme, rest |-> rest]

\* Two names for one websocket url, one more host, the native transports, and
\* what is refused.
MCUrls == {Blank, Garbage, MCUrl("http", "a"), MCUrl("ws", "a"), MCUrl("ws", "b"),
           MCUrl("wss", "a"), MCUrl("nats", "a"), MCUrl("tls", "a"),
           MCUrl("nats", ""), MCUrl("mqtt", "a")}

MCScript(path, relative, oneShot) ==
    [path |-> path, relative |-> relative, oneShot |-> oneShot]
MCHook(pool, scripts) == [present |-> TRUE, pool |-> pool, scripts |-> scripts]

\* A script the categories share, under two names, and a request.
MCHooks == {NoHook, MCHook(0, <<>>),
            MCHook(0, <<MCScript("up", TRUE, FALSE)>>),
            MCHook(3, <<MCScript("up", FALSE, FALSE), MCScript("http-request", TRUE, TRUE)>>)}

MCNumbers == {[maxLimit |-> 0, width |-> 0, height |-> 720, dpi |-> 0]}

MCConfigs ==
    [mode : {"", "recorderOnly", "transcoderOnly", "both", "typo"},
     numbers : MCNumbers, cpuLimit : {Absent, "0"},
     oldChrome : {"", "old"}, chrome : {"", "new"}, logFile : {"relative"},
     scripts : {<<>>, <<MCScript("up", TRUE, FALSE)>>},
     hooks : [Categories -> MCHooks],
     ffmpeg : {Absent, "noWhip", "own"}, jobs : {""},
     urls : {<<MCUrl("http", "a"), MCUrl("ws", "a")>>}]

MCFile == [mode |-> "", numbers |-> CHOOSE n \in MCNumbers : TRUE,
           cpuLimit |-> Absent, oldChrome |-> "", chrome |-> "", logFile |-> "relative",
           scripts |-> <<>>, hooks |-> [h \in Categories |-> NoHook],
           ffmpeg |-> Absent, jobs |-> "", urls |-> <<MCUrl("nats", "a")>>]

\* One file, and the transcoder has its mode from the command line.
MCTwo   == {r1, r2}
MCThree == {r1, r2, t1}
MCConfigTwo   == [i \in MCTwo |-> MCFile]
MCConfigThree == [i \in MCThree |-> WithMode(MCFile, IF i = t1 THEN "transcoderOnly" ELSE "")]
=============================================================================
