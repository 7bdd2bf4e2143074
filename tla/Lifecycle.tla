------------------------------ MODULE Lifecycle ------------------------------
(***************************************************************************)
(* internal/simulator/lifecycle.go: Start, Stop and what they boot.        *)
(*                                                                         *)
(* Start checks the running flag under the lock, lets the lock go, brings  *)
(* up the HTTP listener, the RTSP server, the broker's reaper and the      *)
(* discovery goroutine, and takes the lock again to publish the handles.   *)
(* Stop takes the handles under the lock and tears them down without it.   *)
(* The GUI and the terminal UI may call both at any time, so calls overlap *)
(* at every step.  Each Start that gets past the check is an instance.     *)
(***************************************************************************)
EXTENDS Naturals

CONSTANTS
    Callers,     \* goroutines that call Start, Stop and the mutators
    MaxCalls     \* bound: calls in a behaviour

ASSUME LifecycleAssumption == MaxCalls \in Nat

Instances == 1 .. MaxCalls
None == 0

VARIABLES
    running,     \* Simulator.running
    current,     \* the instance whose handles are published, or None
    listenAddr,  \* Simulator.listenAddr is set
    http,        \* http[i]: listener and HTTP server of instance i
    rtsp,        \* rtsp[i]: its RTSP server
    disc,        \* disc[i]: its discovery goroutine
    canceled,    \* canceled[i]: the context of that goroutine
    reaper,      \* the broker's reaper: startOnce, stopOnce and the goroutine
    addr,        \* the broker knows the subscription manager's address
    logOpen,     \* the simulator's own log file is open
    pc,          \* where each caller stands
    inst,        \* inst[c]: the instance c boots or tears down
    calls        \* calls begun

vars == <<running, current, listenAddr, http, rtsp, disc, canceled, reaper, addr,
          logOpen, pc, inst, calls>>
published == <<running, current, listenAddr>>
broker == <<reaper, addr>>
resources == <<http, rtsp, disc, canceled>>

At(c, label) == pc[c] = label
Goto(c, label) == pc' = [pc EXCEPT ![c] = label]
Set(f, i, v) == [f EXCEPT ![i] = v]

\* The port is taken until the listener is closed.  No operation of the program edits
\* the ports, so every instance asks for the same ones.
PortTaken == \E i \in Instances : http[i] \in {"bound", "starting", "serving", "shut"}
RTSPTaken == \E i \in Instances : rtsp[i] = "up"

-----------------------------------------------------------------------------
(* Start *)

Check(c) ==
    /\ At(c, "idle")
    /\ calls < MaxCalls
    /\ calls' = calls + 1
    /\ \/ running /\ UNCHANGED <<pc, inst>>
       \/ ~running /\ Goto(c, "listen") /\ inst' = Set(inst, c, calls + 1)
    /\ UNCHANGED <<published, resources, broker, logOpen>>

\* The port may also belong to another program.
Listen(c) ==
    /\ At(c, "listen")
    /\ \/ ~PortTaken /\ http' = Set(http, inst[c], "bound") /\ Goto(c, "rtsp")
       \/ UNCHANGED http /\ Goto(c, "idle")
    /\ UNCHANGED <<published, rtsp, disc, canceled, broker, logOpen, inst, calls>>

\* startRTSPServer: no profile with a source, a server with its sources, a port that
\* is taken, or a server one of whose sources or siblings cannot be registered.
MutStartRTSP(c) ==
    /\ At(c, "rtsp")
    /\ \/ Goto(c, "broker") /\ UNCHANGED <<http, rtsp>>
       \/ /\ ~RTSPTaken
          /\ rtsp' = Set(rtsp, inst[c], "up")
          /\ Goto(c, "broker")
          /\ UNCHANGED http
       \/ /\ Goto(c, "idle")
          /\ UNCHANGED <<http, rtsp>>
    /\ UNCHANGED <<published, disc, canceled, broker, logOpen, inst, calls>>

StartRTSP(c) ==
    /\ At(c, "rtsp")
    /\ \/ Goto(c, "broker") /\ UNCHANGED <<http, rtsp>>
       \/ /\ ~RTSPTaken
          /\ rtsp' = Set(rtsp, inst[c], "up")
          /\ pc' \in {Set(pc, c, "broker"), Set(pc, c, "undo")}
          /\ UNCHANGED http
       \/ /\ http' = Set(http, inst[c], "closed")
          /\ Goto(c, "idle")
          /\ UNCHANGED rtsp
    /\ UNCHANGED <<published, disc, canceled, broker, logOpen, inst, calls>>

\* The server is stopped, which waits for the Run of each source it has registered so
\* far, and then the listener is closed.
UndoRTSP(c) ==
    /\ At(c, "undo")
    /\ rtsp' = Set(rtsp, inst[c], "down")
    /\ http' = Set(http, inst[c], "closed")
    /\ Goto(c, "idle")
    /\ UNCHANGED <<published, disc, canceled, broker, logOpen, inst, calls>>

\* Broker.Start: startOnce launches the reaper once; a stop channel already closed
\* ends it at once.
StartBroker(c) ==
    /\ At(c, "broker")
    /\ reaper' = CASE reaper = "new" -> "alive"
                   [] reaper = "stopped" -> "dead"
                   [] OTHER -> reaper
    /\ Goto(c, "address")
    /\ UNCHANGED <<published, resources, addr, logOpen, inst, calls>>

\* UpdateConfig with the address the listener got.
SetAddress(c) ==
    /\ At(c, "address")
    /\ addr' = TRUE
    /\ Goto(c, "spawn")
    /\ UNCHANGED <<published, resources, reaper, logOpen, inst, calls>>

\* go runDiscovery, go serveAndIgnoreClosed.
Spawn(c) ==
    /\ At(c, "spawn")
    /\ disc' = Set(disc, inst[c], "hello")
    /\ http' = Set(http, inst[c], "starting")
    /\ Goto(c, "publish")
    /\ UNCHANGED <<published, rtsp, canceled, broker, logOpen, inst, calls>>

Publish(c) ==
    /\ At(c, "publish")
    /\ running' = TRUE
    /\ current' = inst[c]
    /\ listenAddr' = TRUE
    /\ Goto(c, "idle")
    /\ UNCHANGED <<resources, broker, logOpen, inst, calls>>

Start(c) ==
    \/ Check(c) \/ Listen(c) \/ StartRTSP(c) \/ UndoRTSP(c) \/ StartBroker(c)
    \/ SetAddress(c) \/ Spawn(c) \/ Publish(c)

-----------------------------------------------------------------------------
(* The goroutines of an instance *)

\* Server.Serve: after a Shutdown it only closes the listener.
Serve(i) ==
    /\ \/ http[i] = "starting" /\ http' = Set(http, i, "serving")
       \/ http[i] = "shut" /\ http' = Set(http, i, "closed")
    /\ UNCHANGED <<published, rtsp, disc, canceled, broker, logOpen, pc, inst, calls>>

\* runDiscovery: Hello, then listen until the context is canceled.  It ends early
\* when the multicast group cannot be joined.
Discover(i) ==
    /\ \/ disc[i] = "hello" /\ disc' = Set(disc, i, "listening")
       \/ disc[i] = "hello" /\ disc' = Set(disc, i, "done")
       \/ disc[i] = "listening" /\ canceled[i] /\ disc' = Set(disc, i, "done")
    /\ UNCHANGED <<published, http, rtsp, canceled, broker, logOpen, pc, inst, calls>>

-----------------------------------------------------------------------------
(* Stop *)

MutGrabHandles(c) ==
    /\ At(c, "idle")
    /\ calls < MaxCalls
    /\ calls' = calls + 1
    /\ \/ running /\ inst' = Set(inst, c, current) /\ Goto(c, "cancel") /\ UNCHANGED logOpen
       \/ ~running /\ logOpen' = FALSE /\ UNCHANGED <<pc, inst>>
    /\ UNCHANGED <<published, resources, broker>>

GrabHandles(c) ==
    /\ At(c, "idle")
    /\ calls < MaxCalls
    /\ calls' = calls + 1
    /\ \/ /\ running
          /\ running' = FALSE
          /\ current' = None
          /\ inst' = Set(inst, c, current)
          /\ Goto(c, "cancel")
          /\ UNCHANGED <<listenAddr, logOpen>>
       \/ /\ ~running
          /\ logOpen' = FALSE
          /\ UNCHANGED <<published, pc, inst>>
    /\ UNCHANGED <<resources, broker>>

\* Bye, then cancel.
MutCancel(c) ==
    /\ At(c, "cancel")
    /\ Goto(c, "await")
    /\ UNCHANGED <<published, resources, broker, logOpen, inst, calls>>

Cancel(c) ==
    /\ At(c, "cancel")
    /\ canceled' = Set(canceled, inst[c], TRUE)
    /\ Goto(c, "await")
    /\ UNCHANGED <<published, http, rtsp, disc, broker, logOpen, inst, calls>>

AwaitDiscovery(c) ==
    /\ At(c, "await")
    /\ disc[inst[c]] = "done"
    /\ Goto(c, "shutdown")
    /\ UNCHANGED <<published, resources, broker, logOpen, inst, calls>>

\* Shutdown closes the listeners of a server that serves; one that does not yet will
\* close its own.
Shutdown(c) ==
    /\ At(c, "shutdown")
    /\ http' = Set(http, inst[c], IF http[inst[c]] = "serving" THEN "closed" ELSE "shut")
    /\ Goto(c, "rtspStop")
    /\ UNCHANGED <<published, rtsp, disc, canceled, broker, logOpen, inst, calls>>

\* rtspSrv.Stop removes the sources one after another and closes its listener last.  It
\* waits for the Run of each source, without a context and without a limit.
StopRTSP(c) ==
    /\ At(c, "rtspStop")
    /\ rtsp' = Set(rtsp, inst[c], IF rtsp[inst[c]] = "up" THEN "down" ELSE rtsp[inst[c]])
    /\ Goto(c, "brokerStop")
    /\ UNCHANGED <<published, http, disc, canceled, broker, logOpen, inst, calls>>

\* Broker.Stop: stopOnce closes the stop channel for good.
StopBroker(c) ==
    /\ At(c, "brokerStop")
    /\ reaper' = CASE reaper = "new" -> "stopped"
                   [] reaper = "alive" -> "dead"
                   [] OTHER -> reaper
    /\ Goto(c, "clear")
    /\ UNCHANGED <<published, resources, addr, logOpen, inst, calls>>

ClearAddress(c) ==
    /\ At(c, "clear")
    /\ listenAddr' = FALSE
    /\ Goto(c, "log")
    /\ UNCHANGED <<running, current, resources, broker, logOpen, inst, calls>>

\* closeOwnedLogger; Start never opens it again.
CloseLogger(c) ==
    /\ At(c, "log")
    /\ logOpen' = FALSE
    /\ Goto(c, "idle")
    /\ UNCHANGED <<published, resources, broker, inst, calls>>

Stop(c) ==
    \/ GrabHandles(c) \/ Cancel(c) \/ AwaitDiscovery(c) \/ Shutdown(c)
    \/ StopRTSP(c) \/ StopBroker(c) \/ ClearAddress(c) \/ CloseLogger(c)

-----------------------------------------------------------------------------
\* reloadFromDisk, as ControlPlane has it, gives the broker a configuration made
\* from the file, which has no subscription manager address.
ReloadBroker ==
    /\ calls < MaxCalls
    /\ calls' = calls + 1
    /\ addr' = FALSE
    /\ UNCHANGED <<published, resources, reaper, logOpen, pc, inst>>

Init ==
    /\ running = FALSE
    /\ current = None
    /\ listenAddr = FALSE
    /\ http = [i \in Instances |-> "none"]
    /\ rtsp = [i \in Instances |-> "none"]
    /\ disc = [i \in Instances |-> "none"]
    /\ canceled = [i \in Instances |-> FALSE]
    /\ reaper = "new"
    /\ addr = FALSE
    /\ logOpen = TRUE
    /\ pc = [c \in Callers |-> "idle"]
    /\ inst = [c \in Callers |-> None]
    /\ calls = 0

Next ==
    \/ \E c \in Callers : Start(c) \/ Stop(c)
    \/ \E i \in Instances : Serve(i) \/ Discover(i)
    \/ ReloadBroker

Spec == Init /\ [][Next]_vars

\* A call that waits for the sources of its RTSP server to end.  What a source may wait
\* for in its turn is in module Streaming (AwaitsHelper there).
AwaitsSources(c) ==
    /\ pc[c] \in {"undo", "rtspStop"}
    /\ rtsp[inst[c]] = "up"

\* Goroutines inside a call, and those the calls started, keep running; nobody has
\* to call.  Nothing makes the sources of an RTSP server end.  Shutdown ends: no
\* handler waits, and the connections have read and write timeouts.
Fairness ==
    /\ \A c \in Callers :
           WF_vars(~At(c, "idle") /\ ~AwaitsSources(c) /\ (Start(c) \/ Stop(c)))
    /\ \A i \in Instances : WF_vars(Serve(i)) /\ WF_vars(Discover(i))
FairSpec == Spec /\ Fairness

-----------------------------------------------------------------------------
(* Properties *)

StartLabels == {"listen", "rtsp", "undo", "broker", "address", "spawn", "publish"}
StopLabels == {"cancel", "await", "shutdown", "rtspStop", "brokerStop", "clear", "log"}
TypeOK ==
    /\ running \in BOOLEAN /\ listenAddr \in BOOLEAN
    /\ addr \in BOOLEAN /\ logOpen \in BOOLEAN
    /\ current \in Instances \cup {None}
    /\ running <=> current # None
    /\ http \in [Instances -> {"none", "bound", "starting", "serving", "shut", "closed"}]
    /\ rtsp \in [Instances -> {"none", "up", "down"}]
    /\ disc \in [Instances -> {"none", "hello", "listening", "done"}]
    /\ canceled \in [Instances -> BOOLEAN]
    /\ reaper \in {"new", "alive", "stopped", "dead"}
    /\ pc \in [Callers -> {"idle"} \cup StartLabels \cup StopLabels]
    /\ inst \in [Callers -> Instances \cup {None}]
    /\ calls \in 0 .. MaxCalls

\* While Running says so, the instance behind the handles is up, whatever else
\* starts or stops meanwhile: its port is bound, nobody has canceled its discovery
\* or stopped its RTSP server.
RunningIsUp ==
    running =>
        /\ http[current] \in {"starting", "serving"}
        /\ disc[current] # "none" /\ ~canceled[current]
        /\ rtsp[current] # "down"

\* No overlap of Start and Stop loses an instance: with every call returned, only
\* the published one holds a port, a server or a goroutine.
NothingLeaks ==
    (\A c \in Callers : At(c, "idle")) =>
        \A i \in Instances \ {current} :
            /\ http[i] \in {"none", "shut", "closed"}
            /\ rtsp[i] # "up"
            /\ disc[i] \in {"none", "done"}

\* Every Start and every Stop returns, or waits for ever for the sources of its own RTSP
\* server: the wait for the discovery goroutine ends, and no call waits for another one.
\* And a port given up is free in the end: the listener of a server shut down before it
\* served does not stay open.
CallsReturn ==
    /\ \A c \in Callers : <>[]AwaitsSources(c) \/ (~At(c, "idle") ~> At(c, "idle"))
    /\ \A i \in Instances : http[i] = "shut" ~> http[i] = "closed"
=============================================================================
