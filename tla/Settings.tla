------------------------------- MODULE Settings -------------------------------
(* pkg/config: what the program makes of its configuration file before it      *)
(* starts.  Everything here is a function of the file and of the -mode flag.    *)
(*                                                                              *)
(* A text is a member of a small set, "" being the empty one.  A configuration  *)
(* is a record of the fields the code looks at; Absent is a nil pointer.        *)
EXTENDS Integers, Sequences, SequencesExt

CONSTANTS
    Urls,       \* entries of nats_info.nats_urls
    MaxUrls,    \* bound: length of the lists that are tried
    Configs     \* configuration files that are tried

Absent == "absent"

-----------------------------------------------------------------------------
(* NATS urls: [scheme, rest], where rest stands for host and path, "" when     *)
(* there is no host.  Blank entries are skipped, and Garbage does not parse.   *)

Blank   == [scheme |-> "", rest |-> "blank"]
Garbage == [scheme |-> "", rest |-> "garbage"]

\* http(s) becomes ws(s); the other schemes that are allowed stay.
Transport == [http |-> "ws", https |-> "wss", ws |-> "ws", wss |-> "wss",
              nats |-> "nats", tls |-> "tls"]

Acceptable(url) == url.scheme \in DOMAIN Transport /\ url.rest # ""
Mapped(url) == [url EXCEPT !.scheme = Transport[@]]

\* seen, and scheme: of the urls that were kept so far.
Known(acc, url) == Acceptable(url) /\ Mapped(url) \in Range(acc.urls)
Mixed(acc, url) == acc.urls # <<>> /\ acc.urls[1].scheme # url.scheme

NoUrls  == [ok |-> TRUE, urls |-> <<>>]
Refused == [ok |-> FALSE, urls |-> <<>>]

\* Mutant: an entry is looked up before its scheme is mapped.
TakeUrlUnmapped(acc, url) ==
    IF ~acc.ok \/ url = Blank \/ (Acceptable(url) /\ url \in Range(acc.urls)) THEN acc
    ELSE IF ~Acceptable(url) \/ Mixed(acc, Mapped(url)) THEN Refused
    ELSE [acc EXCEPT !.urls = Append(@, Mapped(url))]

\* Mutant: only a list that begins with tls refuses the other transport.
TakeUrlMixed(acc, url) ==
    IF ~acc.ok \/ url = Blank \/ Known(acc, url) THEN acc
    ELSE IF \/ ~Acceptable(url)
            \/ Mixed(acc, Mapped(url)) /\ acc.urls[1].scheme = "tls"
    THEN Refused
    ELSE [acc EXCEPT !.urls = Append(@, Mapped(url))]

\* One round of the loop: what was kept so far, and the next entry.
TakeUrl(acc, url) ==
    IF ~acc.ok \/ url = Blank \/ Known(acc, url) THEN acc
    ELSE IF ~Acceptable(url) \/ Mixed(acc, Mapped(url)) THEN Refused
    ELSE [acc EXCEPT !.urls = Append(@, Mapped(url))]

\* What was kept after each round.
Rounds(list) ==
    LET kept[n \in 0..Len(list)] ==
            IF n = 0 THEN NoUrls ELSE TakeUrl(kept[n - 1], list[n])
    IN  kept

NormalizeNatsUrls(list) ==
    LET out == Rounds(list)[Len(list)]
    IN  IF out.urls = <<>> THEN Refused ELSE out

\* The connection looks at the first url only.
IsWebsocketNats(list) == list # <<>> /\ list[1].scheme \in {"ws", "wss"}

-----------------------------------------------------------------------------
(* setDefaultConfig.  Fields of a configuration:                               *)
(*   mode, numbers, cpuLimit, oldChrome, chrome, logFile ("relative" or         *)
(*   "absolute"), scripts, hooks, ffmpeg, jobs, urls                            *)

Modes == {"recorderOnly", "transcoderOnly", "both"}

\* Zero means that a number is not set.
DefaultNumbers == [maxLimit |-> 10, width |-> 1920, height |-> 1080, dpi |-> 96]

Categories == {"post_recording", "pre_transcoding", "post_transcoding"}

Scripts == [path : STRING, relative : BOOLEAN, oneShot : BOOLEAN]
Hooks   == [present : BOOLEAN, pool : Int, scripts : Seq(Scripts)]

\* A hook category: absent, or a pool size and the scripts of a pipeline.
NoHook == [present |-> FALSE, pool |-> 0, scripts |-> <<>>]

\* What a configuration file can be.
ConfigFiles ==
    [mode : STRING, numbers : [maxLimit : Nat, width : Nat, height : Nat, dpi : Nat],
     cpuLimit : STRING, oldChrome : STRING, chrome : STRING,
     logFile : {"relative", "absolute"}, scripts : Seq(Scripts),
     hooks : [Categories -> Hooks], ffmpeg : STRING, jobs : STRING,
     urls : Seq(Urls)]

ASSUME SettingsAssumption ==
    /\ Urls \subseteq [scheme : STRING, rest : STRING] /\ MaxUrls \in Nat
    /\ Configs \subseteq ConfigFiles

\* The -mode flag overrides the file.
WithMode(c, flag) == IF flag = "" THEN c ELSE [c EXCEPT !.mode = flag]

ValidConfig(c) == c.mode \in Modes \cup {""} /\ NormalizeNatsUrls(c.urls).ok

\* Mutant: the deprecated scripts are added to the new ones.
MigratedAppends(c) ==
    [c.hooks EXCEPT !["post_transcoding"] =
        [present |-> @.present \/ c.scripts # <<>>, pool |-> @.pool,
         scripts |-> @.scripts \o [n \in DOMAIN c.scripts |->
                              [c.scripts[n] EXCEPT !.oneShot = TRUE]]]]

\* The deprecated list becomes a pipeline of one-shot scripts, unless the
\* section that replaces it is there, even an empty one.
Migrated(c) ==
    IF c.scripts = <<>> \/ c.hooks["post_transcoding"].present
    THEN c.hooks
    ELSE [c.hooks EXCEPT !["post_transcoding"] =
             [present |-> TRUE, pool |-> 0,
              scripts |-> [n \in DOMAIN c.scripts |->
                              [c.scripts[n] EXCEPT !.oneShot = TRUE]]]]

FfmpegOf(c) ==
    CASE c.ffmpeg = Absent  -> "default"
      [] c.ffmpeg = "noWhip" -> "defaultWhip"
      [] OTHER              -> c.ffmpeg

SetDefaultConfig(c) ==
    [c EXCEPT
        !.mode     = IF @ = "" THEN "both" ELSE @,
        !.numbers  = [f \in DOMAIN @ |-> IF @[f] = 0 THEN DefaultNumbers[f] ELSE @[f]],
        !.cpuLimit = IF @ = Absent THEN "80" ELSE @,
        !.chrome   = IF @ = "" THEN c.oldChrome ELSE @,
        !.logFile  = "absolute",
        !.hooks    = Migrated(c),
        !.ffmpeg   = FfmpegOf(c),
        !.jobs     = IF @ = "" THEN "pnm-RecorderTranscoderJobs" ELSE @,
        !.urls     = NormalizeNatsUrls(@).urls]

-----------------------------------------------------------------------------
(* Services, and the hook processes they need *)

\* bootUp starts them by mode.
Records(mode)    == mode # "transcoderOnly"
Transcodes(mode) == mode # "recorderOnly"

\* The categories InitializeHooks goes through.
Processed(mode) ==
    {h \in Categories :
        \/ h = "post_recording" /\ mode \in {"both", "recorderOnly"}
        \/ h # "post_recording" /\ mode \in {"both", "transcoderOnly"}}

\* The categories the services of a mode run: onAfterClose runs the first, the
\* handlers of transcoding jobs run the others.
Needed(mode) ==
    (IF Records(mode) THEN {"post_recording"} ELSE {})
        \cup (IF Transcodes(mode) THEN {"pre_transcoding", "post_transcoding"} ELSE {})

PoolSize(hook) == IF hook.pool <= 0 THEN 1 ELSE hook.pool

\* A relative path is joined with the working directory; a command
\* "http-request ..." is not a path.
Resolve(script) ==
    [path |-> script.path, relative |-> script.relative /\ script.path = "http-request"]

\* Mutant: the size of the last category that uses a script wins.
AddScriptLast(pools, script, size) ==
    IF script.oneShot THEN pools ELSE (Resolve(script) :> size) @@ pools

\* scriptsWithPoolSize: the largest pool any category asks for.
AddScript(pools, script, size) ==
    LET path == Resolve(script) IN
    IF script.oneShot \/ (path \in DOMAIN pools /\ pools[path] >= size) THEN pools
    ELSE [p \in DOMAIN pools \cup {path} |-> IF p = path THEN size ELSE pools[p]]

\* The pools after each script of a category.
AddScripts(pools, hook) ==
    LET added[n \in 0..Len(hook.scripts)] ==
            IF n = 0 THEN pools
            ELSE AddScript(added[n - 1], hook.scripts[n], PoolSize(hook))
    IN  added

ProcessHookCategory(c, pools, h) ==
    IF h \in Processed(c.mode)
    THEN AddScripts(pools, c.hooks[h])[Len(c.hooks[h].scripts)] ELSE pools

\* The processes started for configuration c, after its defaults are set.
HookPools(c) ==
    LET recording == ProcessHookCategory(c, <<>>, "post_recording")
        fetching  == ProcessHookCategory(c, recording, "pre_transcoding")
    IN  ProcessHookCategory(c, fetching, "post_transcoding")

-----------------------------------------------------------------------------
(* What each of these functions is for, as a predicate of its input.  The     *)
(* program applies them before its first step: RecorderRegistry states them of  *)
(* its initial states.                                                          *)

\* It fails when an entry is bad, when two transports are mixed or when nothing
\* is left, and otherwise returns every url once, mapped, in the order of first
\* mention: some mention of a url comes before all mentions of the next ones.
NormalizesUrls(list) ==
    LET used == {n \in DOMAIN list : list[n] # Blank}
        Mentions(u) == {n \in used : Mapped(list[n]) = u}
        got  == NormalizeNatsUrls(list)
    IN  /\ got.ok <=> /\ used # {} /\ \A n \in used : Acceptable(list[n])
                      /\ \A n, k \in used : Mapped(list[n]).scheme = Mapped(list[k]).scheme
        /\ got.ok =>
              /\ Range(got.urls) = {Mapped(list[n]) : n \in used}
              /\ \A a, b \in DOMAIN got.urls : a < b =>
                    \E n \in Mentions(got.urls[a]) :
                        \A k \in Mentions(got.urls[b]) : n < k

FirstUrlDecides(list) ==
    LET got == NormalizeNatsUrls(list).urls IN
    \A n \in DOMAIN got : IsWebsocketNats(<<got[n]>>) <=> IsWebsocketNats(got)

Settles(c) ==
    LET d == SetDefaultConfig(c) IN
    /\ ValidConfig(d) /\ SetDefaultConfig(d) = d
    /\ \A h \in Categories : c.hooks[h].present => d.hooks[h] = c.hooks[h]
    /\ c.chrome # "" => d.chrome = c.chrome

PoolsSuffice(c) ==
    LET d == SetDefaultConfig(c)
        pools == HookPools(d)
    IN  \A h \in Needed(d.mode) : \A n \in DOMAIN d.hooks[h].scripts :
            LET script == d.hooks[h].scripts[n] IN
            ~script.oneShot =>
                /\ Resolve(script) \in DOMAIN pools
                /\ pools[Resolve(script)] >= PoolSize(d.hooks[h])
=============================================================================
