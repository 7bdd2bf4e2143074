--------------------------- MODULE LifecycleProofs ---------------------------
(***************************************************************************)
(* Proofs about Lifecycle, for any number of callers and calls.            *)
(***************************************************************************)
EXTENDS Lifecycle, TLAPS

Busy(c) == pc[c] # "idle"

\* Each instance has one owner: the caller that boots it or tears it down, or the
\* published handles.
Ownership ==
    /\ \A c \in Callers : Busy(c) =>
           inst[c] \in Instances /\ inst[c] <= calls /\ inst[c] # current
    /\ \A c, d \in Callers : Busy(c) /\ Busy(d) /\ inst[c] = inst[d] => c = d
    /\ current <= calls

Clean(i) == http[i] \in {"none", "shut", "closed"} /\ rtsp[i] # "up" /\ disc[i] \in {"none", "done"}
Fresh(i) == http[i] = "none" /\ rtsp[i] = "none" /\ disc[i] = "none" /\ ~canceled[i]
Up(i) == http[i] \in {"starting", "serving"} /\ disc[i] # "none"
         /\ ~canceled[i] /\ rtsp[i] # "down"

\* How far the owner has brought its instance up, or down.
Phase(c) ==
    LET i == inst[c] IN
    /\ At(c, "listen") => Fresh(i)
    /\ At(c, "rtsp") => http[i] = "bound" /\ rtsp[i] = "none" /\ disc[i] = "none"
                        /\ ~canceled[i]
    /\ At(c, "undo") => disc[i] = "none"
    /\ pc[c] \in {"broker", "address", "spawn"} =>
           http[i] = "bound" /\ rtsp[i] # "down" /\ disc[i] = "none" /\ ~canceled[i]
    /\ pc[c] \in {"publish", "cancel"} => Up(i)
    /\ pc[c] \in {"await", "shutdown"} => http[i] \in {"starting", "serving"}
    /\ pc[c] \in {"shutdown", "rtspStop", "brokerStop", "clear", "log"} => disc[i] = "done"
    /\ pc[c] \in {"rtspStop", "brokerStop", "clear", "log"} => http[i] \in {"shut", "closed"}
    /\ pc[c] \in {"brokerStop", "clear", "log"} => rtsp[i] # "up"

\* What nobody owns holds nothing; what is yet to come is untouched.
Unowned ==
    /\ \A i \in Instances :
           i # current /\ (\A c \in Callers : Busy(c) => inst[c] # i) => Clean(i)
    /\ \A i \in Instances : i > calls => Fresh(i)

\* The HTTP port belongs to one instance at a time.
Holds(i) == http[i] \in {"bound", "starting", "serving", "shut"}
OnePort == \A i, j \in Instances : Holds(i) /\ Holds(j) => i = j

IInv == TypeOK /\ OnePort /\ Ownership /\ (\A c \in Callers : Phase(c)) /\ Unowned /\ RunningIsUp

-----------------------------------------------------------------------------
\* Nothing is up before the first Start.
LEMMA InitIInv == Init => IInv
<1> SUFFICES ASSUME Init PROVE IInv
  OBVIOUS
<1>1. TypeOK
  <2>1. calls \in 0 .. MaxCalls /\ current \in Instances \cup {None}
    BY LifecycleAssumption DEF Init, None
  <2>2. pc \in [Callers -> {"idle"} \cup StartLabels \cup StopLabels]
        /\ inst \in [Callers -> Instances \cup {None}]
    BY DEF Init
  <2>3. /\ http \in [Instances -> {"none", "bound", "starting", "serving", "shut", "closed"}]
        /\ rtsp \in [Instances -> {"none", "up", "down"}]
        /\ disc \in [Instances -> {"none", "hello", "listening", "done"}]
        /\ canceled \in [Instances -> BOOLEAN]
    BY DEF Init
  <2>4. /\ running \in BOOLEAN /\ listenAddr \in BOOLEAN /\ addr \in BOOLEAN
        /\ logOpen \in BOOLEAN /\ reaper \in {"new", "alive", "stopped", "dead"}
        /\ (running <=> current # None)
    BY DEF Init
  <2> QED
    BY <2>1, <2>2, <2>3, <2>4 DEF TypeOK
<1>2. Ownership /\ RunningIsUp /\ OnePort
  BY DEF Init, Ownership, RunningIsUp, OnePort, Holds, Busy, None
<1>3. \A c \in Callers : Phase(c)
  BY DEF Init, Phase, At
<1>4. Unowned
  BY DEF Init, Unowned, Clean, Fresh
<1> QED
  BY <1>1, <1>2, <1>3, <1>4 DEF IInv

\* The next instance is a new one.
LEMMA NewInstance ==
  ASSUME TypeOK, calls < MaxCalls
  PROVE  calls + 1 \in Instances /\ calls \in Nat /\ current \in Nat
  BY LifecycleAssumption DEF TypeOK, Instances, None

\* A call that does nothing but count changes nothing that matters.
LEMMA CountsOn ==
  ASSUME IInv, calls' = calls + 1, calls < MaxCalls, calls \in Nat, current \in Nat,
         addr' \in BOOLEAN, logOpen' \in BOOLEAN,
         UNCHANGED <<running, current, listenAddr, http, rtsp, disc, canceled, reaper,
                     pc, inst>>
  PROVE  IInv'
<1> USE DEF IInv
<1>1. TypeOK'
  BY LifecycleAssumption DEF TypeOK
<1>2. Ownership'
  BY DEF Ownership, Busy, Instances
<1>3. \A c \in Callers : Phase(c)'
  BY DEF Phase, At, Fresh, Up
<1>4. Unowned'
  BY DEF Unowned, Clean, Fresh, Busy, Instances
<1>5. RunningIsUp' /\ OnePort'
  BY DEF RunningIsUp, OnePort, Holds
<1> QED
  BY <1>1, <1>2, <1>3, <1>4, <1>5

\* A step of one caller on its own instance, as the other owners see it.
Elsewhere(c) ==
    /\ \A i \in Instances : i # inst[c] =>
           http'[i] = http[i] /\ rtsp'[i] = rtsp[i] /\ disc'[i] = disc[i]
           /\ canceled'[i] = canceled[i]
    /\ \A d \in Callers : d # c => pc'[d] = pc[d]
    /\ inst' = inst /\ calls' = calls

\* Then only the caller's own phase and its own instance are left to look at.
LEMMA OneInstance ==
  ASSUME IInv, NEW c \in Callers, Busy(c), Elsewhere(c), TypeOK',
         running' = running, current' = current,
         Phase(c)', Busy(c)' \/ Clean(inst[c])',
         Holds(inst[c])' => Holds(inst[c]) \/ ~PortTaken
  PROVE  IInv'
<1> USE DEF IInv
<1>0. inst[c] \in Instances /\ inst[c] <= calls /\ inst[c] # current
  BY DEF Ownership
<1>1. Ownership'
  BY DEF Ownership, Elsewhere, Busy
<1>2. ASSUME NEW d \in Callers PROVE Phase(d)'
  <2>1. CASE d = c
    BY <2>1
  <2>2. CASE d # c /\ ~Busy(d)
    BY <2>2 DEF Elsewhere, Busy, Phase, At
  <2>3. CASE d # c /\ Busy(d)
    <3>1. inst[d] \in Instances /\ inst[d] # inst[c]
      BY <2>3 DEF Ownership
    <3>2. pc'[d] = pc[d] /\ inst'[d] = inst[d] /\ Phase(d)
      BY <2>3 DEF Elsewhere
    <3>3. http'[inst[d]] = http[inst[d]] /\ rtsp'[inst[d]] = rtsp[inst[d]]
          /\ disc'[inst[d]] = disc[inst[d]] /\ canceled'[inst[d]] = canceled[inst[d]]
      BY <3>1 DEF Elsewhere
    <3> QED
      BY <3>2, <3>3 DEF Phase, At, Fresh, Up
  <2> QED
    BY <2>1, <2>2, <2>3
<1>3. Unowned'
  <2>1. ASSUME NEW i \in Instances, i # current, \A d \in Callers : Busy(d)' => inst[d] # i
        PROVE  Clean(i)'
    <3>1. CASE i = inst[c]
      BY <2>1, <3>1 DEF Elsewhere, Clean
    <3>2. CASE i # inst[c]
      <4>1. \A d \in Callers : Busy(d) => inst[d] # i
        BY <2>1, <3>2 DEF Elsewhere, Busy
      <4> QED
        BY <2>1, <3>2, <4>1 DEF Unowned, Clean, Elsewhere
    <3> QED
      BY <3>1, <3>2
  <2>2. ASSUME NEW i \in Instances, i > calls PROVE Fresh(i)'
    <3>1. i # inst[c]
      BY <1>0, <2>2 DEF Instances, TypeOK
    <3> QED
      BY <2>2, <3>1 DEF Unowned, Fresh, Elsewhere
  <2> QED
    BY <2>1, <2>2 DEF Unowned, Elsewhere
<1>4. RunningIsUp'
  <2>1. running => current \in Instances /\ current # inst[c]
    BY <1>0 DEF TypeOK, None
  <2> QED
    BY <2>1 DEF RunningIsUp, Elsewhere
<1>5. OnePort'
  <2> SUFFICES ASSUME NEW i \in Instances, NEW j \in Instances, Holds(i)', Holds(j)'
               PROVE  i = j
    BY DEF OnePort
  <2>1. \A k \in Instances : k # inst[c] => (Holds(k)' <=> Holds(k))
    BY DEF Elsewhere, Holds
  <2>2. \A k \in Instances : Holds(k) => PortTaken
    BY DEF Holds, PortTaken
  <2>3. Holds(inst[c])' <=> http'[inst[c]] \in {"bound", "starting", "serving", "shut"}
    BY DEF Holds, Elsewhere
  <2> QED
    BY <1>0, <2>1, <2>2, <2>3 DEF OnePort, Holds
<1> QED
  BY <1>1, <1>2, <1>3, <1>4, <1>5

-----------------------------------------------------------------------------
\* Start: the check makes a new instance, the publication hands it over.
LEMMA StartStep == ASSUME IInv, NEW c \in Callers, Start(c) PROVE IInv'
<1> USE DEF IInv, At, Goto, Set
<1>1. CASE Check(c)
  <2>1. CASE running
    <3>1. calls' = calls + 1 /\ calls < MaxCalls /\ calls \in Nat /\ current \in Nat
          /\ UNCHANGED <<running, current, listenAddr, http, rtsp, disc, canceled, reaper,
                         addr, logOpen, pc, inst>>
      BY <1>1, <2>1, NewInstance DEF Check, published, resources, broker
    <3>2. addr' \in BOOLEAN /\ logOpen' \in BOOLEAN
      BY <3>1 DEF TypeOK
    <3> QED
      BY <3>1, <3>2, CountsOn
  <2>2. CASE ~running
    <3> DEFINE n == calls + 1
    <3>0. n \in Instances /\ calls \in Nat /\ current = None /\ Fresh(n)
      BY <1>1, <2>2, NewInstance DEF Check, TypeOK, Unowned
    <3>1. /\ pc' = [pc EXCEPT ![c] = "listen"] /\ inst' = [inst EXCEPT ![c] = n]
          /\ calls' = n /\ ~Busy(c)
          /\ UNCHANGED <<running, current, listenAddr, http, rtsp, disc, canceled,
                         reaper, addr, logOpen>>
      BY <1>1, <2>2 DEF Check, published, resources, broker, Busy
    <3> HIDE DEF n
    <3>2. n = calls + 1 /\ n <= MaxCalls
      BY <3>0, LifecycleAssumption DEF n, Instances
    <3>3. TypeOK'
      BY <3>0, <3>1, <3>2, LifecycleAssumption DEF TypeOK, StartLabels
    <3>4. \A d \in Callers : d # c => pc'[d] = pc[d] /\ inst'[d] = inst[d]
      BY <3>1 DEF TypeOK
    <3>5. pc'[c] = "listen" /\ inst'[c] = n
      BY <3>1 DEF TypeOK
    <3>6. \A d \in Callers : Busy(d) => inst[d] <= calls /\ inst[d] # n
      BY <3>0, <3>2 DEF Ownership, Instances
    <3>7. Ownership'
      <4>1. \A d \in Callers : Busy(d)' => inst'[d] \in Instances /\ inst'[d] <= n
                                           /\ inst'[d] # current'
        BY <3>0, <3>1, <3>2, <3>4, <3>5 DEF Ownership, Busy, None, Instances
      <4>2. \A d, e \in Callers : Busy(d)' /\ Busy(e)' /\ inst'[d] = inst'[e] => d = e
        BY <3>4, <3>5, <3>6 DEF Ownership, Busy
      <4>3. current' <= n
        BY <3>0, <3>1, <3>2 DEF None
      <4> QED
        BY <3>1, <4>1, <4>2, <4>3 DEF Ownership
    <3>8. \A d \in Callers : Phase(d)'
      BY <3>0, <3>1, <3>4, <3>5 DEF Phase, Fresh, Up
    <3>9. Unowned'
      <4>1. ASSUME NEW i \in Instances, i # current,
                   \A d \in Callers : Busy(d)' => inst'[d] # i
            PROVE  Clean(i)'
        <5>1. \A d \in Callers : Busy(d) => inst[d] # i
          BY <3>1, <3>4, <4>1 DEF Busy
        <5> QED
          BY <3>1, <4>1, <5>1 DEF Unowned, Clean
      <4>2. ASSUME NEW i \in Instances, i > n PROVE Fresh(i)'
        <5>1. i > calls
          BY <3>0, <3>2, <4>2 DEF Instances
        <5> QED
          BY <3>1, <5>1 DEF Unowned, Fresh
      <4> QED
        BY <3>1, <4>1, <4>2 DEF Unowned
    <3>10. RunningIsUp'
      BY <2>2, <3>1 DEF RunningIsUp
    <3>11. OnePort'
      BY <3>1 DEF OnePort, Holds
    <3> QED
      BY <3>3, <3>7, <3>8, <3>9, <3>10, <3>11
  <2> QED
    BY <2>1, <2>2
<1>2. CASE Publish(c)
  <2>0. /\ Busy(c) /\ pc[c] = "publish" /\ inst[c] \in Instances /\ inst[c] <= calls
        /\ Up(inst[c])
    BY <1>2 DEF Publish, Ownership, Busy, Phase
  <2>1. /\ pc' = [pc EXCEPT ![c] = "idle"] /\ current' = inst[c] /\ running' = TRUE
        /\ UNCHANGED <<http, rtsp, disc, canceled, inst, calls>>
    BY <1>2 DEF Publish, resources
  <2>2. TypeOK'
    BY <1>2, <2>0 DEF Publish, resources, broker, TypeOK, None, Instances
  <2>3. Ownership'
    BY <2>0, <2>1 DEF Ownership, Busy, TypeOK
  <2>4. \A d \in Callers : Phase(d)'
    BY <2>1 DEF Phase, TypeOK, Fresh, Up
  <2>5. ~running /\ current = None
    <3>1. running => Holds(current) /\ Holds(inst[c])
      BY <2>0 DEF RunningIsUp, Up, Holds
    <3> QED
      BY <2>0, <3>1 DEF OnePort, Ownership, TypeOK, Busy
  <2>6. Unowned'
    <3>1. ASSUME NEW i \in Instances, i # inst[c],
                 \A d \in Callers : Busy(d)' => inst'[d] # i
          PROVE  Clean(i)'
      <4>1. i # current /\ \A d \in Callers : Busy(d) => inst[d] # i
        BY <2>1, <2>5, <3>1 DEF Busy, None, Instances, TypeOK
      <4> QED
        BY <2>1, <4>1 DEF Unowned, Clean
    <3>2. \A i \in Instances : i > calls' => Fresh(i)'
      BY <2>1 DEF Unowned, Fresh
    <3> QED
      BY <2>1, <3>1, <3>2 DEF Unowned
  <2>7. RunningIsUp' /\ OnePort'
    BY <2>0, <2>1 DEF RunningIsUp, OnePort, Holds, Up
  <2> QED
    BY <2>2, <2>3, <2>4, <2>6, <2>7
<1>3. ASSUME Listen(c) \/ StartRTSP(c) \/ UndoRTSP(c) \/ StartBroker(c) \/ SetAddress(c)
             \/ Spawn(c)
      PROVE  IInv'
  <2>0. inst[c] \in Instances /\ Busy(c) /\ pc \in [Callers -> {"idle"} \cup StartLabels \cup StopLabels]
    BY <1>3 DEF Listen, StartRTSP, UndoRTSP, StartBroker, SetAddress, Spawn, Ownership,
       Busy, TypeOK
  <2>1. running' = running /\ current' = current /\ inst' = inst /\ calls' = calls
    BY <1>3 DEF Listen, StartRTSP, UndoRTSP, StartBroker, SetAddress, Spawn, published
  <2>2. Elsewhere(c)
    BY <1>3, <2>0, <2>1 DEF Listen, StartRTSP, UndoRTSP, StartBroker, SetAddress, Spawn,
       Elsewhere, resources, TypeOK
  <2>3. TypeOK'
    <3>1. CASE Listen(c)
      BY <2>0, <3>1 DEF Listen, published, broker, TypeOK, StartLabels
    <3>2. CASE StartRTSP(c)
      BY <2>0, <3>2 DEF StartRTSP, published, broker, TypeOK, StartLabels
    <3>6. CASE UndoRTSP(c)
      BY <2>0, <3>6 DEF UndoRTSP, published, broker, TypeOK, StartLabels
    <3>3. CASE StartBroker(c)
      BY <2>0, <3>3 DEF StartBroker, published, resources, TypeOK, StartLabels
    <3>4. CASE SetAddress(c)
      BY <2>0, <3>4 DEF SetAddress, published, resources, TypeOK, StartLabels
    <3>5. CASE Spawn(c)
      BY <2>0, <3>5 DEF Spawn, published, broker, TypeOK, StartLabels
    <3> QED
      BY <1>3, <3>1, <3>2, <3>3, <3>4, <3>5, <3>6
  <2>4. Phase(c)' /\ (Busy(c)' \/ Clean(inst[c])')
        /\ (Holds(inst[c])' => Holds(inst[c]) \/ ~PortTaken)
    <3> USE <2>0, <2>1 DEF Phase, Busy, Clean, Holds, Fresh, Up, TypeOK
    <3>1. CASE Listen(c)
      BY <3>1 DEF Listen
    <3>2. CASE StartRTSP(c)
      BY <3>2 DEF StartRTSP
    <3>6. CASE UndoRTSP(c)
      BY <3>6 DEF UndoRTSP
    <3>3. CASE StartBroker(c)
      BY <3>3 DEF StartBroker, resources
    <3>4. CASE SetAddress(c)
      BY <3>4 DEF SetAddress, resources
    <3>5. CASE Spawn(c)
      BY <3>5 DEF Spawn
    <3> QED
      BY <1>3, <3>1, <3>2, <3>3, <3>4, <3>5, <3>6
  <2> QED
    BY <2>0, <2>1, <2>2, <2>3, <2>4, OneInstance
<1> QED
  BY <1>1, <1>2, <1>3 DEF Start

\* Stop: it takes the instance over and brings it down part by part.
LEMMA StopStep == ASSUME IInv, NEW c \in Callers, Stop(c) PROVE IInv'
<1> USE DEF IInv, At, Goto, Set
<1>1. CASE GrabHandles(c)
  <2>1. CASE ~running
    <3>1. calls' = calls + 1 /\ calls < MaxCalls /\ calls \in Nat /\ current \in Nat
          /\ logOpen' = FALSE
          /\ UNCHANGED <<running, current, listenAddr, http, rtsp, disc, canceled, reaper,
                         addr, pc, inst>>
      BY <1>1, <2>1, NewInstance DEF GrabHandles, published, resources, broker
    <3>2. addr' \in BOOLEAN
      BY <3>1 DEF TypeOK
    <3> QED
      BY <3>1, <3>2, CountsOn
  <2>2. CASE running
    <3>0. current \in Instances /\ Up(current) /\ calls \in Nat /\ current <= calls
      BY <2>2 DEF TypeOK, RunningIsUp, Up, None, Ownership
    <3>1. /\ pc' = [pc EXCEPT ![c] = "cancel"] /\ inst' = [inst EXCEPT ![c] = current]
          /\ calls' = calls + 1 /\ calls < MaxCalls /\ ~Busy(c)
          /\ running' = FALSE /\ current' = None
          /\ UNCHANGED <<listenAddr, http, rtsp, disc, canceled, reaper, addr, logOpen>>
      BY <1>1, <2>2 DEF GrabHandles, resources, broker, Busy
    <3>2. TypeOK'
      <4>1. calls' \in 0 .. MaxCalls
        BY <3>0, <3>1, LifecycleAssumption
      <4>2. pc' \in [Callers -> {"idle"} \cup StartLabels \cup StopLabels]
            /\ inst' \in [Callers -> Instances \cup {None}]
        BY <3>0, <3>1 DEF TypeOK, StopLabels
      <4>3. running' \in BOOLEAN /\ current' \in Instances \cup {None}
            /\ (running' <=> current' # None)
        BY <3>1
      <4> QED
        BY <3>1, <4>1, <4>2, <4>3 DEF TypeOK
    <3>3. \A d \in Callers : d # c => pc'[d] = pc[d] /\ inst'[d] = inst[d]
      BY <3>1 DEF TypeOK
    <3>4. pc'[c] = "cancel" /\ inst'[c] = current
      BY <3>1 DEF TypeOK
    <3>5. Ownership'
      <4>1. \A d \in Callers : Busy(d)' => inst'[d] \in Instances /\ inst'[d] <= calls'
                                           /\ inst'[d] # current'
        BY <3>0, <3>1, <3>3, <3>4 DEF Ownership, Busy, None, Instances
      <4>2. \A d, e \in Callers : Busy(d)' /\ Busy(e)' /\ inst'[d] = inst'[e] => d = e
        BY <3>3, <3>4 DEF Ownership, Busy
      <4> QED
        BY <3>0, <3>1, <4>1, <4>2 DEF Ownership, None
    <3>6. \A d \in Callers : Phase(d)'
      BY <3>0, <3>1, <3>3, <3>4 DEF Phase, Fresh, Up
    <3>7. Unowned'
      <4>1. ASSUME NEW i \in Instances, \A d \in Callers : Busy(d)' => inst'[d] # i
            PROVE  Clean(i)'
        <5>1. i # current /\ \A d \in Callers : Busy(d) => inst[d] # i
          BY <3>1, <3>3, <3>4, <4>1 DEF Busy
        <5> QED
          BY <3>1, <5>1 DEF Unowned, Clean
      <4>2. ASSUME NEW i \in Instances, i > calls' PROVE Fresh(i)'
        <5>1. i > calls
          BY <3>0, <3>1, <4>2 DEF Instances
        <5> QED
          BY <3>1, <5>1 DEF Unowned, Fresh
      <4> QED
        BY <4>1, <4>2 DEF Unowned
    <3>8. RunningIsUp' /\ OnePort'
      BY <3>1 DEF RunningIsUp, OnePort, Holds
    <3> QED
      BY <3>2, <3>5, <3>6, <3>7, <3>8
  <2> QED
    BY <2>1, <2>2
<1>2. ASSUME Cancel(c) \/ AwaitDiscovery(c) \/ Shutdown(c) \/ StopRTSP(c)
             \/ StopBroker(c) \/ ClearAddress(c) \/ CloseLogger(c)
      PROVE  IInv'
  <2>0. inst[c] \in Instances /\ Busy(c) /\ pc \in [Callers -> {"idle"} \cup StartLabels \cup StopLabels]
    BY <1>2 DEF Cancel, AwaitDiscovery, Shutdown, StopRTSP, StopBroker, ClearAddress,
       CloseLogger, Ownership, Busy, TypeOK
  <2>1. running' = running /\ current' = current /\ inst' = inst /\ calls' = calls
    BY <1>2 DEF Cancel, AwaitDiscovery, Shutdown, StopRTSP, StopBroker, ClearAddress,
       CloseLogger, published
  <2>2. Elsewhere(c)
    BY <1>2, <2>0, <2>1 DEF Cancel, AwaitDiscovery, Shutdown, StopRTSP, StopBroker,
       ClearAddress, CloseLogger, Elsewhere, resources, TypeOK
  <2>3. TypeOK'
    <3> USE <2>0, <2>1 DEF TypeOK, StopLabels
    <3>1. CASE Cancel(c)
      BY <3>1 DEF Cancel, published, broker
    <3>2. CASE AwaitDiscovery(c)
      BY <3>2 DEF AwaitDiscovery, published, resources, broker
    <3>3. CASE Shutdown(c)
      BY <3>3 DEF Shutdown, published, broker
    <3>4. CASE StopRTSP(c)
      BY <3>4 DEF StopRTSP, published, broker
    <3>5. CASE StopBroker(c)
      BY <3>5 DEF StopBroker, published, resources
    <3>6. CASE ClearAddress(c)
      <4>1. UNCHANGED <<http, rtsp, disc, canceled, reaper, addr>>
            /\ listenAddr' = FALSE /\ logOpen' = logOpen
            /\ pc' = [pc EXCEPT ![c] = "log"]
        BY <3>6 DEF ClearAddress, resources, broker
      <4>2. pc' \in [Callers -> {"idle"} \cup StartLabels \cup StopLabels]
        BY <4>1
      <4> QED
        BY <4>1, <4>2
    <3>7. CASE CloseLogger(c)
      <4>1. UNCHANGED <<http, rtsp, disc, canceled, reaper, addr>>
            /\ logOpen' = FALSE /\ listenAddr' = listenAddr
            /\ pc' = [pc EXCEPT ![c] = "idle"]
        BY <3>7 DEF CloseLogger, published, resources, broker
      <4>2. pc' \in [Callers -> {"idle"} \cup StartLabels \cup StopLabels]
        BY <4>1
      <4> QED
        BY <4>1, <4>2
    <3> QED
      BY <1>2, <3>1, <3>2, <3>3, <3>4, <3>5, <3>6, <3>7
  <2>4. Phase(c)' /\ (Busy(c)' \/ Clean(inst[c])')
        /\ (Holds(inst[c])' => Holds(inst[c]) \/ ~PortTaken)
    <3>0. Phase(c) /\ http[inst[c]] \in {"none", "bound", "starting", "serving", "shut", "closed"}
          /\ rtsp[inst[c]] \in {"none", "up", "down"}
      BY <2>0 DEF TypeOK
    <3> USE <2>0, <2>1, <3>0 DEF Phase, Busy, Holds, Fresh, Up
    <3>1. CASE Cancel(c)
      <4>1. pc'[c] = "await"
        BY <3>1 DEF Cancel
      <4>2. UNCHANGED <<http, rtsp, disc>>
        BY <3>1 DEF Cancel
      <4>3. pc[c] = "cancel"
        BY <3>1 DEF Cancel
      <4> QED
        BY <4>1, <4>2, <4>3
    <3>2. CASE AwaitDiscovery(c)
      <4>1. pc'[c] = "shutdown"
        BY <3>2 DEF AwaitDiscovery
      <4>2. UNCHANGED <<http, rtsp, disc, canceled>>
        BY <3>2 DEF AwaitDiscovery, resources
      <4>3. disc[inst[c]] = "done" /\ pc[c] = "await"
        BY <3>2 DEF AwaitDiscovery
      <4> QED
        BY <4>1, <4>2, <4>3
    <3>3. CASE Shutdown(c)
      <4>1. pc'[c] = "rtspStop"
        BY <3>3 DEF Shutdown
      <4>2. UNCHANGED <<rtsp, disc, canceled>> /\ http'[inst[c]] \in {"closed", "shut"}
            /\ (Holds(inst[c])' => Holds(inst[c]) \/ ~PortTaken)
        <5>1. http' = [http EXCEPT ![inst[c]] =
                           IF http[inst[c]] = "serving" THEN "closed" ELSE "shut"]
              /\ UNCHANGED <<rtsp, disc, canceled>> /\ pc[c] = "shutdown"
          BY <3>3 DEF Shutdown
        <5>2. Holds(inst[c])
          BY <5>1
        <5> QED
          BY <5>1, <5>2 DEF TypeOK
      <4>3. pc[c] = "shutdown"
        BY <3>3 DEF Shutdown
      <4> QED
        BY <4>1, <4>2, <4>3
    <3>4. CASE StopRTSP(c)
      <4>1. pc'[c] = "brokerStop"
        BY <3>4 DEF StopRTSP
      <4>2. UNCHANGED <<http, disc, canceled>> /\ rtsp'[inst[c]] # "up"
        BY <3>4 DEF StopRTSP, TypeOK
      <4>3. pc[c] = "rtspStop"
        BY <3>4 DEF StopRTSP
      <4> QED
        BY <4>1, <4>2, <4>3
    <3>5. CASE StopBroker(c)
      <4>1. pc'[c] = "clear"
        BY <3>5 DEF StopBroker
      <4>2. UNCHANGED <<http, rtsp, disc, canceled>>
        BY <3>5 DEF StopBroker, resources
      <4>3. pc[c] = "brokerStop"
        BY <3>5 DEF StopBroker
      <4> QED
        BY <4>1, <4>2, <4>3
    <3>6. CASE ClearAddress(c)
      <4>1. pc'[c] = "log"
        BY <3>6 DEF ClearAddress
      <4>2. UNCHANGED <<http, rtsp, disc, canceled>>
        BY <3>6 DEF ClearAddress, resources
      <4>3. pc[c] = "clear"
        BY <3>6 DEF ClearAddress
      <4> QED
        BY <4>1, <4>2, <4>3
    <3>7. CASE CloseLogger(c)
      <4>1. pc'[c] = "idle"
        BY <3>7 DEF CloseLogger
      <4>2. UNCHANGED <<http, rtsp, disc, canceled>>
        BY <3>7 DEF CloseLogger, resources
      <4>3. pc[c] = "log"
        BY <3>7 DEF CloseLogger
      <4> QED
        BY <4>1, <4>2, <4>3 DEF Clean
    <3> QED
      BY <1>2, <3>1, <3>2, <3>3, <3>4, <3>5, <3>6, <3>7
  <2> QED
    BY <2>0, <2>1, <2>2, <2>3, <2>4, OneInstance
<1> QED
  BY <1>1, <1>2 DEF Stop

\* The goroutines of an instance move it within what its owner relies on.
LEMMA GoroutineStep ==
  ASSUME IInv, NEW i \in Instances, Serve(i) \/ Discover(i)
  PROVE  IInv'
<1> USE DEF IInv, Set
<1>0. /\ running' = running /\ current' = current /\ listenAddr' = listenAddr
      /\ UNCHANGED <<rtsp, canceled, reaper, addr, logOpen, pc, inst, calls>>
  BY DEF Serve, Discover, published, broker
<1>1. TypeOK'
  BY <1>0 DEF Serve, Discover, TypeOK
<1>2. \A j \in Instances :
        /\ http'[j] = http[j] \/ (http[j] = "starting" /\ http'[j] = "serving")
                               \/ (http[j] = "shut" /\ http'[j] = "closed")
        /\ disc'[j] = disc[j] \/ (disc[j] \in {"hello", "listening"}
                                  /\ disc'[j] \in {"listening", "done"})
  BY DEF Serve, Discover, TypeOK
<1>3. Ownership'
  BY <1>0 DEF Ownership, Busy
<1>4. ASSUME NEW c \in Callers PROVE Phase(c)'
  <2>1. CASE ~Busy(c)
    BY <1>0, <2>1 DEF Phase, Busy, At
  <2>2. CASE Busy(c)
    <3>1. inst[c] \in Instances /\ Phase(c)
      BY <2>2 DEF Ownership
    <3> QED
      BY <1>0, <1>2, <3>1 DEF Phase, At, Fresh, Up
  <2> QED
    BY <2>1, <2>2
<1>5. Unowned'
  BY <1>0, <1>2 DEF Unowned, Clean, Fresh, Busy
<1>6. RunningIsUp'
  BY <1>0, <1>2 DEF RunningIsUp, TypeOK, None
<1>7. OnePort'
  BY <1>2 DEF OnePort, Holds
<1> QED
  BY <1>1, <1>3, <1>4, <1>5, <1>6, <1>7

\* The invariant holds throughout.
LEMMA Always == Spec => []IInv
<1>1. IInv /\ [Next]_vars => IInv'
  <2> SUFFICES ASSUME IInv, [Next]_vars PROVE IInv'
    OBVIOUS
  <2>1. ASSUME NEW c \in Callers, Start(c) \/ Stop(c) PROVE IInv'
    BY <2>1, StartStep, StopStep
  <2>2. ASSUME NEW i \in Instances, Serve(i) \/ Discover(i) PROVE IInv'
    BY <2>2, GoroutineStep
  <2>3. CASE ReloadBroker
    <3>1. calls < MaxCalls /\ calls \in Nat /\ current \in Nat
      BY <2>3, NewInstance DEF ReloadBroker, IInv
    <3> QED
      BY <2>3, <3>1, CountsOn DEF ReloadBroker, published, resources, IInv, TypeOK
  <2>4. CASE UNCHANGED vars
    BY <2>4 DEF vars, IInv, TypeOK, OnePort, Holds, Ownership, Busy, Phase, At, Fresh, Up,
       Unowned, Clean, RunningIsUp
  <2> QED
    BY <2>1, <2>2, <2>3, <2>4 DEF Next
<1> QED
  BY <1>1, InitIInv, PTL DEF Spec

\* The type invariant of the lifecycle.
THEOREM LifecycleTypeCorrect == Spec => []TypeOK
<1>1. IInv => TypeOK
  BY DEF IInv
<1> QED
  BY <1>1, Always, PTL

\* The running flag never lies, whatever Start and Stop calls overlap (lifecycle.go).
THEOREM RunningMeansUp == Spec => []RunningIsUp
<1>1. IInv => RunningIsUp
  BY DEF IInv
<1> QED
  BY <1>1, Always, PTL

\* No instance is lost by overlapping calls (Start's and Stop's use of the lock).
THEOREM NoInstanceLost == Spec => []NothingLeaks
<1>1. IInv => NothingLeaks
  BY DEF IInv, Unowned, Clean, Busy, NothingLeaks, At
<1> QED
  BY <1>1, Always, PTL
=============================================================================
