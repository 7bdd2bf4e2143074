------------------------------- MODULE Streaming ------------------------------
(***************************************************************************)
(* internal/rtsp, internal/ffmpeg, internal/rpicamera: the RTSP server,    *)
(* its sources, and the helper processes behind them.                      *)
(*                                                                         *)
(* Every registered source has a Run goroutine.  A file source plays its   *)
(* file over and over.  A camera and a transcoder open a helper process, a *)
(* supervisor goroutine that waits for it, a reader goroutine that takes   *)
(* its frames, and an inner goroutine that writes them to the stream; the  *)
(* four end each other.  The MJPEG sibling of a camera is fed by the       *)
(* camera's reader.  Cameras share the files of the embedded helper, by a  *)
(* reference count.                                                        *)
(*                                                                         *)
(* The pipes to a camera's helper are made without close-on-exec, so every *)
(* helper started while they are open inherits them: `inherited`.          *)
(* Frames are counted, not carried.  What clients see of a stream is       *)
(* module LiveSource.                                                      *)
(***************************************************************************)
EXTENDS Naturals, Sequences, FiniteSets

CONSTANTS
    Cameras,         \* tokens of profiles of kind rpicam
    Transcoders,     \* tokens of MJPEG siblings of file profiles
    Siblings,        \* tokens of MJPEG siblings of cameras
    Files,           \* tokens of file profiles
    Parent,          \* Parent[s]: the camera that feeds sibling s
    Configurations,  \* the sets of tokens a server may be started with
    None,            \* stands for "no token"
    Samples,         \* the samples of a file: duration, and whether it is empty
    BufferSize,      \* mjpegBufferSize, liveBufferSize
    Modulus          \* timestamps are taken modulo this; 2^32 in the code

Helpers == Cameras \cup Transcoders
Fed == Helpers \cup Siblings
Tokens == Fed \cup Files
Timestamps == 0 .. Modulus - 1
Sample == [length : Nat, empty : BOOLEAN]

ASSUME StreamingAssumption ==
    /\ Cameras \cap Transcoders = {} /\ Helpers \cap Siblings = {} /\ Fed \cap Files = {}
    /\ IsFiniteSet(Tokens)
    /\ Parent \in [Siblings -> Cameras]
    /\ Configurations \subseteq SUBSET Tokens
    /\ Configurations # {}
    /\ None \notin Tokens
    /\ Samples \in Seq(Sample)
    /\ Samples # <<>>
    /\ BufferSize \in Nat \ {0}
    /\ Modulus \in Nat \ {0}

VARIABLES
    plan,        \* the tokens this server is to serve
    owner,       \* the goroutine that starts and stops the server
    registered,  \* Server.sources
    left,        \* Stop: the tokens still to remove
    target,      \* RemoveSource: the source it waits for
    run,         \* run[t]: where the Run goroutine of t stands
    canceled,    \* sources whose context is canceled
    streams,     \* sources whose ServerStream is open
    helper,      \* the helper process of t
    sup,         \* Camera.run, Transcoder.run
    reader,      \* runReader
    inner,       \* LiveSource.Run, MJPEGSource.Run
    queue,       \* frames waiting in the source's channel
    closed,      \* sources whose channel is closed
    pipes,       \* cameras whose pipes are open in this process
    inherited,   \* inherited[t]: cameras whose pipes the helper of t holds too
    dumpCount,   \* dumpCount: users of the camera helper's files, there when it is not 0
    binaries,    \* transcoders whose extracted binary is on disk
    attached,    \* cameras whose source has a callback for JPEG frames
    secondary,   \* cameras opened with that callback
    loop         \* loop[f]: where the file player f stands

server == <<plan, owner, registered, left, target>>
process == <<helper, inherited>>
files == <<dumpCount, binaries>>
source == <<inner, queue, closed>>
jpeg == <<attached, secondary>>
vars == <<server, run, canceled, streams, process, sup, reader, source, pipes,
          files, jpeg, loop>>

At(t, label) == run[t] = label
Goto(t, label) == run' = [run EXCEPT ![t] = label]
Alive(t) == helper[t] \in {"running", "told"}
Told(t) == helper' = [helper EXCEPT ![t] = IF @ = "running" THEN "told" ELSE @]

NoStamp == Modulus
Rewound == [base |-> 0, elapsed |-> 0, at |-> 0, last |-> 0, stamp |-> NoStamp]

-----------------------------------------------------------------------------
(* The server *)

\* A fresh server: nothing of an earlier one is left.
Fresh ==
    /\ plan \in Configurations
    /\ owner = "started"
    /\ registered = {} /\ left = {} /\ target = None
    /\ run = [t \in Tokens |-> "none"]
    /\ canceled = {} /\ streams = {}
    /\ helper = [t \in Helpers |-> "none"]
    /\ sup = [t \in Helpers |-> "none"]
    /\ reader = [t \in Helpers |-> "none"]
    /\ inner = [t \in Fed |-> "none"]
    /\ queue = [t \in Fed |-> 0]
    /\ closed = {} /\ pipes = {}
    /\ inherited = [t \in Helpers |-> {}]
    /\ dumpCount = 0 /\ binaries = {}
    /\ attached = {} /\ secondary = {}
    /\ loop = [f \in Files |-> Rewound]

\* The simulator starts again with a server and sources of their own.  The helpers'
\* files are the process's: they are as the last server left them.
Start ==
    /\ owner = "stopped"
    /\ plan' \in Configurations
    /\ owner' = "started"
    /\ run' = [t \in Tokens |-> "none"]
    /\ canceled' = {} /\ streams' = {} /\ closed' = {}
    /\ helper' = [t \in Helpers |-> "none"]
    /\ sup' = [t \in Helpers |-> "none"]
    /\ reader' = [t \in Helpers |-> "none"]
    /\ inner' = [t \in Fed |-> "none"]
    /\ queue' = [t \in Fed |-> 0]
    /\ inherited' = [t \in Helpers |-> {}]
    /\ attached' = {} /\ secondary' = {}
    /\ loop' = [f \in Files |-> Rewound]
    /\ UNCHANGED <<registered, left, target, pipes, files>>

\* The profiles first, then the siblings; a camera's sibling is attached to it on the way.
AddSource(t) ==
    /\ owner = "started"
    /\ t \in plan
    /\ At(t, "none")
    /\ t \in Siblings \cup Transcoders =>
           \A u \in plan \cap (Files \cup Cameras) : ~At(u, "none")
    /\ registered' = registered \cup {t}
    /\ streams' = streams \cup {t}
    /\ attached' = IF t \in Siblings THEN attached \cup {Parent[t]} ELSE attached
    /\ Goto(t, "start")
    /\ UNCHANGED <<plan, owner, left, target, canceled, process, sup, reader, source,
                   pipes, files, secondary, loop>>

\* Stop, when the simulator stops or one of its sources could not be added.
BeginStop ==
    /\ owner = "started"
    /\ owner' = "stopping"
    /\ left' = registered
    /\ UNCHANGED <<plan, registered, target, run, canceled, streams, process, sup, reader,
                   source, pipes, files, jpeg, loop>>

Unregister(t) ==
    /\ owner = "stopping"
    /\ t \in left
    /\ owner' = "waiting"
    /\ registered' = registered \ {t}
    /\ left' = left \ {t}
    /\ target' = t
    /\ canceled' = canceled \cup {t}
    /\ UNCHANGED <<plan, run, streams, process, sup, reader, source, pipes, files, jpeg, loop>>

MutCloseStream ==
    /\ owner = "waiting"
    /\ streams' = streams \ {target}
    /\ target' = None
    /\ owner' = "stopping"
    /\ UNCHANGED <<plan, registered, left, run, canceled, process, sup, reader, source,
                   pipes, files, jpeg, loop>>

CloseStream ==
    /\ owner = "waiting"
    /\ At(target, "stopped")
    /\ streams' = streams \ {target}
    /\ target' = None
    /\ owner' = "stopping"
    /\ UNCHANGED <<plan, registered, left, run, canceled, process, sup, reader, source,
                   pipes, files, jpeg, loop>>

CloseListener ==
    /\ owner = "stopping"
    /\ left = {}
    /\ owner' = "stopped"
    /\ UNCHANGED <<plan, registered, left, target, run, canceled, streams, process, sup,
                   reader, source, pipes, files, jpeg, loop>>

Stop == CloseStream \/ CloseListener \/ \E t \in Tokens : Unregister(t)

-----------------------------------------------------------------------------
(* rpicamera.Open *)

\* dumpComponent.  The first camera writes the files, and that may fail.  Whether the
\* secondary stream is on is settled here.
MutDumpComponent(c) ==
    /\ At(c, "start")
    /\ secondary' = IF c \in attached THEN secondary \cup {c} ELSE secondary
    /\ \/ dumpCount' = (IF dumpCount = 0 THEN 0 ELSE dumpCount + 1) /\ Goto(c, "dumped")
       \/ dumpCount = 0 /\ UNCHANGED dumpCount /\ Goto(c, "stopped")
    /\ UNCHANGED <<server, canceled, streams, process, sup, reader, source, pipes,
                   binaries, attached, loop>>

DumpComponent(c) ==
    /\ At(c, "start")
    /\ secondary' = IF c \in attached THEN secondary \cup {c} ELSE secondary
    /\ \/ dumpCount' = dumpCount + 1 /\ Goto(c, "dumped")
       \/ dumpCount = 0 /\ UNCHANGED dumpCount /\ Goto(c, "stopped")
    /\ UNCHANGED <<server, canceled, streams, process, sup, reader, source, pipes,
                   binaries, attached, loop>>

NewPipes(c) ==
    /\ At(c, "dumped")
    /\ \/ pipes' = pipes \cup {c} /\ Goto(c, "piped") /\ UNCHANGED dumpCount
       \/ dumpCount' = dumpCount - 1 /\ Goto(c, "stopped") /\ UNCHANGED pipes
    /\ UNCHANGED <<server, canceled, streams, process, sup, reader, source, binaries, jpeg, loop>>

\* A helper that starts inherits every pipe then open; with it start its supervisor
\* and its reader.
Launch(t) ==
    /\ helper' = [helper EXCEPT ![t] = "running"]
    /\ inherited' = [inherited EXCEPT ![t] = pipes]
    /\ sup' = [sup EXCEPT ![t] = "select"]
    /\ reader' = [reader EXCEPT ![t] = "reading"]

StartCamera(c) ==
    /\ At(c, "piped")
    /\ \/ Launch(c) /\ Goto(c, "configure") /\ UNCHANGED <<pipes, dumpCount>>
       \/ /\ pipes' = pipes \ {c}
          /\ dumpCount' = dumpCount - 1
          /\ Goto(c, "stopped")
          /\ UNCHANGED <<process, sup, reader>>
    /\ UNCHANGED <<server, canceled, streams, source, binaries, jpeg, loop>>

\* The write of the parameters fails when the supervisor has closed the pipes already.
Configure(c) ==
    /\ At(c, "configure")
    /\ \/ /\ c \in pipes
          /\ inner' = [inner EXCEPT ![c] = "running"]
          /\ Goto(c, "select")
       \/ /\ c \notin pipes
          /\ UNCHANGED inner
          /\ Goto(c, "abandon")
    /\ UNCHANGED <<server, canceled, streams, process, sup, reader, queue, closed, pipes,
                   files, jpeg, loop>>

\* The Close in Open.
Abandon(c) ==
    /\ At(c, "abandon")
    /\ sup[c] = "done"
    /\ dumpCount' = dumpCount - 1
    /\ Goto(c, "stopped")
    /\ UNCHANGED <<server, canceled, streams, process, sup, reader, source, pipes,
                   binaries, jpeg, loop>>

OpenCamera(c) ==
    DumpComponent(c) \/ NewPipes(c) \/ StartCamera(c) \/ Configure(c) \/ Abandon(c)

-----------------------------------------------------------------------------
(* ffmpeg.Open: a failure removes what it extracted *)

ExtractBinary(t) ==
    /\ At(t, "start")
    /\ \/ binaries' = binaries \cup {t} /\ Goto(t, "extracted")
       \/ Goto(t, "stopped") /\ UNCHANGED binaries
    /\ UNCHANGED <<server, canceled, streams, process, sup, reader, source, pipes,
                   dumpCount, jpeg, loop>>

StartTranscoder(t) ==
    /\ At(t, "extracted")
    /\ \/ /\ Launch(t)
          /\ inner' = [inner EXCEPT ![t] = "running"]
          /\ Goto(t, "select")
          /\ UNCHANGED binaries
       \/ /\ binaries' = binaries \ {t}
          /\ Goto(t, "stopped")
          /\ UNCHANGED <<process, sup, reader, inner>>
    /\ UNCHANGED <<server, canceled, streams, queue, closed, pipes, dumpCount, jpeg, loop>>

OpenTranscoder(t) == ExtractBinary(t) \/ StartTranscoder(t)

-----------------------------------------------------------------------------
(* The Run of a camera and of a transcoder: TranscodingSource.Run, rpicamSource.Run *)

Shutdown(t) ==
    /\ At(t, "select")
    /\ sup[t] = "done" \/ inner[t] = "done" \/ t \in canceled
    /\ Goto(t, "closing")
    /\ UNCHANGED <<server, canceled, streams, process, sup, reader, source, pipes, files,
                   jpeg, loop>>

\* What Close releases at its end: freeComponent, or the binary's directory.
Release(t) ==
    IF t \in Cameras THEN dumpCount' = dumpCount - 1 /\ UNCHANGED binaries
                     ELSE binaries' = binaries \ {t} /\ UNCHANGED dumpCount

MutCloseHelper(t) ==
    /\ At(t, "closing")
    /\ Release(t)
    /\ closed' = closed \cup {t}
    /\ Goto(t, "waiting")
    /\ UNCHANGED <<server, canceled, streams, process, sup, reader, inner, queue, pipes,
                   jpeg, loop>>

CloseHelper(t) ==
    /\ At(t, "closing")
    /\ sup[t] = "done"
    /\ Release(t)
    /\ closed' = closed \cup {t}
    /\ Goto(t, "waiting")
    /\ UNCHANGED <<server, canceled, streams, process, sup, reader, inner, queue, pipes,
                   jpeg, loop>>

Finish(t) ==
    /\ At(t, "waiting")
    /\ inner[t] = "done"
    /\ Goto(t, "stopped")
    /\ UNCHANGED <<server, canceled, streams, process, sup, reader, source, pipes, files,
                   jpeg, loop>>

RunHelper(t) == Shutdown(t) \/ CloseHelper(t) \/ Finish(t)

-----------------------------------------------------------------------------
(* The supervisor: runInner *)

Terminated(t) == run[t] \in {"closing", "abandon"}
Supervised == <<server, run, canceled, streams, inherited, reader, source, files, jpeg, loop>>
SupervisorAt(t, label) == sup' = [sup EXCEPT ![t] = label]

SeeExit(t) ==
    /\ sup[t] = "select"
    /\ helper[t] = "dead"
    /\ SupervisorAt(t, "exited")
    /\ pipes' = pipes \ {t}
    /\ UNCHANGED helper
    /\ UNCHANGED Supervised

SeeReaderEnd(t) ==
    /\ sup[t] = "select"
    /\ reader[t] = "done"
    /\ Told(t)
    /\ SupervisorAt(t, "unread")
    /\ UNCHANGED pipes
    /\ UNCHANGED Supervised

SeeTerminate(t) ==
    /\ sup[t] = "select"
    /\ Terminated(t)
    /\ Told(t)
    /\ SupervisorAt(t, "terminating")
    /\ UNCHANGED pipes
    /\ UNCHANGED Supervised

\* The helper has gone: the pipes are closed, and the reader waited for if it still runs.
AwaitExit(t) ==
    /\ helper[t] = "dead"
    /\ \/ sup[t] = "unread" /\ SupervisorAt(t, "done")
       \/ sup[t] = "terminating" /\ SupervisorAt(t, "exited")
    /\ pipes' = pipes \ {t}
    /\ UNCHANGED helper
    /\ UNCHANGED Supervised

AwaitReader(t) ==
    /\ sup[t] = "exited"
    /\ reader[t] = "done"
    /\ SupervisorAt(t, "done")
    /\ UNCHANGED <<pipes, helper>>
    /\ UNCHANGED Supervised

Supervise(t) ==
    SeeExit(t) \/ SeeReaderEnd(t) \/ SeeTerminate(t) \/ AwaitExit(t) \/ AwaitReader(t)

-----------------------------------------------------------------------------
(* The helper and its reader: runReader, readMPJPEGFrame, pipe.read *)

ReaderAt(t, label) == reader' = [reader EXCEPT ![t] = label]
Reads == <<server, run, canceled, streams, inherited, sup, inner, closed, pipes, files, jpeg, loop>>

\* An exit of its own accord, or the one it was told.
Exit(t) ==
    /\ Alive(t)
    /\ helper' = [helper EXCEPT ![t] = "dead"]
    /\ UNCHANGED <<reader, queue>>
    /\ UNCHANGED Reads

ReadFrame(t) ==
    /\ reader[t] = "reading"
    /\ Alive(t)
    /\ ReaderAt(t, "push")
    /\ UNCHANGED <<helper, queue>>
    /\ UNCHANGED Reads

\* Where a frame of t may go: to its own source, and to the sibling's when t was opened
\* with the secondary stream.
Consumers(t) == {t} \cup {s \in Siblings \cap plan : Parent[s] = t /\ t \in secondary}

\* Push drops a frame the channel has no room for; then the next read fails when the
\* supervisor has closed the pipe.
MutPush(t, s) ==
    /\ reader[t] = "push"
    /\ s \in closed \/ queue[s] < BufferSize
    /\ queue' = IF s \in closed THEN queue ELSE [queue EXCEPT ![s] = @ + 1]
    /\ ReaderAt(t, IF t \in Cameras \ pipes THEN "done" ELSE "reading")
    /\ UNCHANGED helper
    /\ UNCHANGED Reads

Push(t, s) ==
    /\ reader[t] = "push"
    /\ queue' = IF s \in closed \/ queue[s] = BufferSize THEN queue
                ELSE [queue EXCEPT ![s] = @ + 1]
    /\ ReaderAt(t, IF t \in Cameras \ pipes THEN "done" ELSE "reading")
    /\ UNCHANGED helper
    /\ UNCHANGED Reads

\* An error message of the helper, or a frame that cannot be parsed.
ReadBadFrame(t) ==
    /\ reader[t] = "reading"
    /\ Alive(t)
    /\ ReaderAt(t, "done")
    /\ UNCHANGED <<helper, queue>>
    /\ UNCHANGED Reads

\* A pipe ends when its last writer has closed it: for a transcoder that is its helper,
\* for a camera also this process and every helper that inherited it.
Writers(t) == {u \in Helpers : Alive(u) /\ (u = t \/ t \in inherited[u])}

ReadEnd(t) ==
    /\ reader[t] = "reading"
    /\ \/ t \in Transcoders /\ ~Alive(t)
       \/ t \in Cameras \ pipes /\ Writers(t) = {}
    /\ ReaderAt(t, "done")
    /\ UNCHANGED <<helper, queue>>
    /\ UNCHANGED Reads

Read(t) == ReadEnd(t) \/ \E s \in Consumers(t) : Push(t, s)

-----------------------------------------------------------------------------
(* The loop that writes a fed source: MJPEGSource.Run, LiveSource.Run *)

Inner == <<server, canceled, streams, process, sup, reader, closed, pipes, files, jpeg, loop>>

RunSibling(s) ==
    /\ At(s, "start")
    /\ Goto(s, "alone")
    /\ inner' = [inner EXCEPT ![s] = "running"]
    /\ UNCHANGED queue
    /\ UNCHANGED Inner

WriteFrame(t) ==
    /\ inner[t] = "running"
    /\ queue[t] > 0
    /\ queue' = [queue EXCEPT ![t] = @ - 1]
    /\ UNCHANGED <<inner, run>>
    /\ UNCHANGED Inner

EndInner(t) ==
    /\ inner[t] = "running"
    /\ t \in canceled \/ (t \in closed /\ queue[t] = 0)
    /\ inner' = [inner EXCEPT ![t] = "done"]
    /\ IF t \in Siblings THEN Goto(t, "stopped") ELSE UNCHANGED run
    /\ UNCHANGED queue
    /\ UNCHANGED Inner

-----------------------------------------------------------------------------
(* The file player: looper.Run, playOnce *)

Plays == <<server, canceled, streams, process, sup, reader, source, pipes, files, jpeg>>

BeginLoop(f) ==
    /\ At(f, "start")
    /\ \E ts \in Timestamps : loop' = [loop EXCEPT ![f].base = ts, ![f].last = ts]
    /\ Goto(f, "playing")
    /\ UNCHANGED Plays

\* The timestamp of the sample is its place in the file, from the base of this pass.
PlaySample(f) ==
    /\ At(f, "playing")
    /\ loop[f].at < Len(Samples)
    /\ LET s == Samples[loop[f].at + 1]
           ts == (loop[f].base + loop[f].elapsed) % Modulus
       IN loop' = [loop EXCEPT ![f].at = @ + 1,
                               ![f].elapsed = (@ + s.length) % Modulus,
                               ![f].last = IF s.empty THEN @ ELSE ts,
                               ![f].stamp = IF s.empty THEN @ ELSE ts]
    /\ UNCHANGED run
    /\ UNCHANGED Plays

\* The next pass starts one tick after the last packet of this one.
MutRewind(f) ==
    /\ At(f, "playing")
    /\ loop[f].at = Len(Samples)
    /\ loop' = [loop EXCEPT ![f].at = 0, ![f].elapsed = 0, ![f].base = loop[f].last]
    /\ UNCHANGED run
    /\ UNCHANGED Plays

Rewind(f) ==
    /\ At(f, "playing")
    /\ loop[f].at = Len(Samples)
    /\ LET ts == (loop[f].last + 1) % Modulus
       IN loop' = [loop EXCEPT ![f].at = 0, ![f].elapsed = 0, ![f].base = ts, ![f].last = ts]
    /\ UNCHANGED run
    /\ UNCHANGED Plays

EndLoop(f) ==
    /\ At(f, "playing")
    /\ f \in canceled
    /\ Goto(f, "stopped")
    /\ UNCHANGED loop
    /\ UNCHANGED Plays

\* The file went away, or a sample cannot be read.
FailLoop(f) ==
    /\ run[f] \in {"start", "playing"}
    /\ Goto(f, "stopped")
    /\ UNCHANGED loop
    /\ UNCHANGED Plays

-----------------------------------------------------------------------------

Drive(t) ==
    \/ t \in Cameras /\ OpenCamera(t)
    \/ t \in Transcoders /\ OpenTranscoder(t)
    \/ t \in Helpers /\ RunHelper(t)
    \/ t \in Siblings /\ RunSibling(t)
    \/ t \in Fed /\ EndInner(t)
    \/ t \in Files /\ (BeginLoop(t) \/ EndLoop(t))

Next ==
    \/ Start
    \/ \E t \in Tokens : AddSource(t)
    \/ BeginStop
    \/ Stop
    \/ \E t \in Tokens : Drive(t)
    \/ \E t \in Fed : WriteFrame(t)
    \/ \E t \in Helpers : Supervise(t) \/ Exit(t) \/ ReadFrame(t) \/ ReadBadFrame(t) \/ Read(t)
    \/ \E f \in Files : PlaySample(f) \/ Rewind(f) \/ FailLoop(f)

\* Goroutines are scheduled.  A transcoder's helper that is told to end does, since it is
\* killed (transcoder.go, Process.Kill); a camera's is sent one byte and waited for without
\* a limit, so nothing makes it end.  Nothing makes a helper send a frame, fail or exit of
\* its own accord, or the simulator stop.
Fairness ==
    /\ WF_vars(Stop)
    /\ \A t \in Tokens : WF_vars(Drive(t))
    /\ \A t \in Fed : WF_vars(t \in Fed /\ EndInner(t))
    /\ \A t \in Helpers :
           /\ WF_vars(Supervise(t))
           /\ WF_vars(Read(t))
    /\ \A t \in Transcoders : WF_vars(helper[t] = "told" /\ Exit(t))

Init == Fresh
Spec == Init /\ [][Next]_vars /\ Fairness

-----------------------------------------------------------------------------
(* Properties *)

TypeOK ==
    /\ plan \in Configurations
    /\ owner \in {"started", "stopping", "waiting", "stopped"}
    /\ registered \subseteq Tokens /\ left \subseteq Tokens
    /\ target \in Tokens \cup {None}
    /\ run \in [Tokens -> {"none", "start", "dumped", "piped", "configure", "abandon",
                           "extracted", "select", "closing", "waiting", "alone", "playing", "stopped"}]
    /\ canceled \subseteq Tokens /\ streams \subseteq Tokens
    /\ helper \in [Helpers -> {"none", "running", "told", "dead"}]
    /\ sup \in [Helpers -> {"none", "select", "exited", "unread", "terminating", "done"}]
    /\ reader \in [Helpers -> {"none", "reading", "push", "done"}]
    /\ inner \in [Fed -> {"none", "running", "done"}]
    /\ queue \in [Fed -> 0 .. BufferSize]
    /\ closed \subseteq Tokens /\ pipes \subseteq Cameras
    /\ inherited \in [Helpers -> SUBSET Cameras]
    /\ dumpCount \in Nat
    /\ binaries \subseteq Transcoders
    /\ attached \subseteq Cameras /\ secondary \subseteq Cameras
    /\ loop \in [Files -> [base : Timestamps, elapsed : Timestamps, at : 0 .. Len(Samples),
                           last : Timestamps, stamp : Timestamps \cup {NoStamp}]]

\* A helper never runs without its files, and the reference count of the cameras' shared
\* files is the number of cameras between dumpComponent and freeComponent, on every way
\* Open can fail and Run can end (camera_rpicam.go, freeComponent; transcoder.go, cleanup).
Holding == {c \in Cameras : run[c] \in {"dumped", "piped", "configure", "abandon", "select",
                                        "closing"}}
HelperHasFiles ==
    /\ dumpCount = Cardinality(Holding)
    /\ \A c \in Cameras : Alive(c) => c \in Holding
    /\ \A t \in Transcoders : Alive(t) => t \in binaries

\* Once RemoveSource has closed a source's stream nothing of the source is left: no helper
\* process, no reader, no supervisor, and no goroutine that could still write the stream
\* (server.go, RemoveSource; the Run of each source waits for what it started).
RemovedIsQuiet ==
    \A t \in Tokens \ streams :
        /\ run[t] \in {"none", "stopped"}
        /\ t \in Fed => inner[t] # "running"
        /\ t \in Helpers => /\ ~Alive(t)
                            /\ sup[t] \in {"none", "done"}
                            /\ reader[t] \in {"none", "done"}

\* Every packet of a looped file has a later timestamp than the one before, over the rewind
\* and the wrap at Modulus: the step between them, taken modulo the wrap, is at least one
\* tick and less than half the range (looper.go, "monotonically-increasing RTP timestamps").
Sent(f) == loop'[f].at = loop[f].at + 1 /\ ~Samples[loop'[f].at].empty
Ahead(new, old) == (new + Modulus - old) % Modulus \in 1 .. (Modulus \div 2) - 1
TimestampsGrow ==
    [][\A f \in Files : Sent(f) /\ loop[f].stamp # NoStamp =>
           Ahead(loop'[f].stamp, loop[f].stamp)]_vars

\* What the Run of a camera may wait for without end: its own helper, which has been told
\* to end, or a helper started later, whose copy of the pipe keeps the reader reading.
AwaitsHelper(t) ==
    /\ t \in Cameras
    /\ \/ sup[t] \in {"unread", "terminating"} /\ helper[t] = "told"
       \/ sup[t] = "exited" /\ reader[t] = "reading" /\ Writers(t) # {}

\* RemoveSource cancels a source and waits for its Run, which ends whatever its helper, its
\* reader and its channel are doing then, but for a camera's that waits for ever for a helper
\* (source.go, "Run must observe ctx cancellation and return").
RemovalEnds == <>[]AwaitsHelper(target) \/ (owner = "waiting" ~> owner # "waiting")

\* server.go, Stop: "Stop closes every active source and shuts the listener down."  It
\* does not when a camera's helper ignores the byte that tells it to end, or when a
\* camera is removed before a helper that inherited its pipe.
StopEnds == owner = "stopping" ~> owner = "stopped"
=============================================================================
