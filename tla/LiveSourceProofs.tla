-------------------------- MODULE LiveSourceProofs ---------------------------
(***************************************************************************)
(* Proofs about LiveSource, for any clients, access units, buffer and      *)
(* cache.                                                                  *)
(***************************************************************************)
EXTENDS LiveSource, SequenceTheorems, TLAPS

\* The description: it follows the parameter sets until the first keyframe, which
\* finds both.
Description ==
    /\ ready => Complete(sdp) /\ Complete(ps)
    /\ ~ready => sdp = ps
    /\ \A r \in Readers : At(r, "described") => ready

\* The cache: empty before the first keyframe, then always begun by one.
KeyStart(q) == q # <<>> /\ Head(q).idr /\ Head(q).part = 1 /\ Head(q).sets
Anchored ==
    /\ gopCache # <<>> => KeyStart(gopCache)
    /\ ready /\ run # "cache" => gopCache # <<>>
    /\ run = "cache" =>
           /\ ready
           /\ Head(pkts).part = 1
           /\ Head(pkts).idr => Head(pkts).sets
           /\ gopCache = <<>> => Head(pkts).idr

\* A session is empty until it plays.
NewSession ==
    \A r \in Readers : pc[r] \in {"idle", "waiting", "described", "setup"} => got[r] = <<>>

IInv == TypeOK /\ Description /\ Anchored /\ NewSession

-----------------------------------------------------------------------------
\* The packets of a unit are as many as it says, the first one first.
LEMMA PacketsOfUnit ==
  ASSUME NEW n \in 1 .. MaxUnits, NEW u \in Units, NEW s \in [sps : Nat, pps : Nat]
  PROVE  /\ Packets(n, u, s) \in Seq(Packet)
         /\ Packets(n, u, s) # <<>>
         /\ Head(Packets(n, u, s)).part = 1
         /\ Head(Packets(n, u, s)).idr <=> u.slice = "idr"
         /\ u.slice = "idr" /\ Complete(Absorbed(s, u)) => Head(Packets(n, u, s)).sets
<1>1. u.size \in Nat /\ u.size > 0
  BY LiveAssumption DEF AccessUnit
<1>2. \A k \in 1 .. u.size : Packets(n, u, s)[k] \in Packet
  BY <1>1 DEF Packets, Packet, Complete
<1>3. Packets(n, u, s) \in Seq(Packet) /\ Len(Packets(n, u, s)) = u.size
  <2> DEFINE q == Packets(n, u, s)
  <2>1. q = [k \in 1 .. u.size |-> q[k]] /\ DOMAIN q = 1 .. u.size
    BY DEF Packets
  <2> HIDE DEF q
  <2>2. q \in [1 .. u.size -> Packet]
    BY <1>2, <2>1 DEF q
  <2>3. q \in Seq(Packet)
    BY <1>1, <2>2
  <2>4. Len(q) = u.size
    BY <1>1, <2>1, <2>3, LenProperties
  <2> QED
    BY <2>3, <2>4 DEF q
<1>4. Head(Packets(n, u, s)) = Packets(n, u, s)[1] /\ Packets(n, u, s) # <<>>
  BY <1>1, <1>3
<1>5. Packets(n, u, s)[1] = [unit |-> n, part |-> 1, size |-> u.size,
                             idr |-> u.slice = "idr", sets |-> Complete(Carried(u, s))]
  BY <1>1 DEF Packets
<1>6. u.slice = "idr" => Carried(u, s) = Absorbed(s, u)
  BY DEF Carried
<1>7. Head(Packets(n, u, s)).part = 1
      /\ Head(Packets(n, u, s)).idr = (u.slice = "idr")
      /\ Head(Packets(n, u, s)).sets = Complete(Carried(u, s))
  BY <1>4, <1>5
<1> QED
  BY <1>3, <1>4, <1>6, <1>7

\* What a session takes of the cache is a part of it that begins where it begins.
LEMMA AtMostOfSequence ==
  ASSUME NEW n \in Nat, NEW q \in Seq(Packet)
  PROVE  /\ AtMost(n, q) \in Seq(Packet)
         /\ n > 0 /\ q # <<>> => AtMost(n, q) # <<>> /\ Head(AtMost(n, q)) = Head(q)
         /\ DOMAIN AtMost(n, q) \subseteq DOMAIN q
         /\ \A i \in DOMAIN AtMost(n, q) : AtMost(n, q)[i] = q[i]
<1> DEFINE m == IF Len(q) < n THEN Len(q) ELSE n
<1>1. m \in Nat /\ m <= Len(q)
  OBVIOUS
<1>2. AtMost(n, q) = SubSeq(q, 1, m)
  BY DEF AtMost
<1>3. \A i \in 1 .. m : q[i] \in Packet
  BY <1>1
<1> HIDE DEF m
<1>4. SubSeq(q, 1, m) \in Seq(Packet) /\ Len(SubSeq(q, 1, m)) = m
      /\ \A i \in 1 .. m : SubSeq(q, 1, m)[i] = q[i]
  BY <1>1, <1>3
<1>5. n > 0 /\ q # <<>> => m > 0
  BY DEF m
<1> QED
  BY <1>1, <1>2, <1>4, <1>5

-----------------------------------------------------------------------------
\* A source that was not fed yet satisfies the invariant.
LEMMA InitIInv == Init => IInv
<1> SUFFICES ASSUME Init PROVE IInv
  OBVIOUS
<1>1. TypeOK
  <2>1. <<>> \in Seq(Packet) /\ <<>> \in Seq([id : 1 .. MaxUnits, unit : Units])
        /\ Len(<<>>) = 0
    OBVIOUS
  <2>2. in \in Seq([id : 1 .. MaxUnits, unit : Units]) /\ Len(in) <= BufferSize
    BY <2>1, LiveAssumption DEF Init
  <2>3. gopCache \in Seq(Packet) /\ pkts \in Seq(Packet) /\ pkts = <<>>
    BY <2>1 DEF Init
  <2>4. ps \in [sps : Nat, pps : Nat] /\ sdp \in [sps : Nat, pps : Nat]
    BY DEF Init, NoSet
  <2>5. got \in [Readers -> Seq(Packet)]
    BY <2>1 DEF Init
  <2>6. pushed \in 0 .. MaxUnits
    BY LiveAssumption DEF Init
  <2>7. /\ pc \in [Readers -> {"idle", "waiting", "described", "setup", "replayed",
                               "playing", "gone"}]
        /\ closed \in BOOLEAN /\ ready \in BOOLEAN
        /\ registered \in BOOLEAN /\ canceled \in BOOLEAN
        /\ run = "receive" /\ remover = "idle"
    BY DEF Init
  <2> QED
    BY <2>2, <2>3, <2>4, <2>5, <2>6, <2>7 DEF TypeOK
<1>2. Description /\ Anchored /\ NewSession
  BY DEF Init, Description, Anchored, NewSession, At
<1> QED
  BY <1>1, <1>2 DEF IInv

\* Run takes a unit out of the channel: the heart of both parts.
LEMMA ReceiveStep == ASSUME IInv, Receive PROVE IInv'
<1> DEFINE u == Head(in).unit
           n == Head(in).id
           s == Absorbed(ps, u)
<1>1. u \in Units /\ n \in 1 .. MaxUnits /\ in' \in Seq([id : 1 .. MaxUnits, unit : Units])
      /\ Len(in') <= BufferSize
  <2> DEFINE Numbered == [id : 1 .. MaxUnits, unit : Units]
  <2>1. in \in Seq(Numbered) /\ Len(in) <= BufferSize /\ in # <<>> /\ in' = Tail(in)
    BY DEF Receive, IInv, TypeOK
  <2>2. Head(in) \in Numbered
    BY <2>1, HeadTailProperties
  <2> HIDE DEF Numbered
  <2>3. in' \in Seq(Numbered) /\ Len(in') = Len(in) - 1 /\ Len(in) \in Nat
    BY <2>1, HeadTailProperties, LenProperties
  <2>4. Len(in') <= BufferSize
    BY <2>1, <2>3, LiveAssumption
  <2> QED
    BY <2>2, <2>3, <2>4 DEF Numbered
<1>2. u.sps \in Nat /\ u.pps \in Nat
  BY <1>1, LiveAssumption DEF AccessUnit
<1>3. ps \in [sps : Nat, pps : Nat] /\ s \in [sps : Nat, pps : Nat]
  BY <1>2 DEF IInv, TypeOK, Absorbed
<1>4. ps' = s /\ sdp' = Mirrored(s) /\ ready' = ReadyAfter(u, s)
      /\ \/ ready' /\ pkts' = Packets(n, u, s) /\ run' = "cache"
         \/ ~ready' /\ pkts' = pkts /\ run' = run
      /\ run = "receive" /\ UNCHANGED <<pushed, closed, gopCache, registered, canceled, remover, pc, got>>
  <2>1. /\ ps' = s
        /\ sdp' = Mirrored(s)
        /\ ready' = ReadyAfter(u, s)
        /\ \/ ready' /\ pkts' = Packets(n, u, s) /\ run' = "cache"
           \/ ~ready' /\ pkts' = pkts /\ run' = run
    BY Zenon DEF Receive
  <2>2. run = "receive" /\ UNCHANGED <<producer, gopCache, server, clients>>
    BY Zenon DEF Receive
  <2>3. UNCHANGED <<pushed, closed, gopCache, registered, canceled, remover, pc, got>>
    BY <2>2 DEF producer, server, clients
  <2> QED
    BY <2>1, <2>2, <2>3
<1>5. /\ Packets(n, u, s) \in Seq(Packet)
      /\ Packets(n, u, s) # <<>>
      /\ Head(Packets(n, u, s)).part = 1
      /\ Head(Packets(n, u, s)).idr <=> u.slice = "idr"
      /\ u.slice = "idr" /\ Complete(Absorbed(s, u)) => Head(Packets(n, u, s)).sets
  BY <1>1, <1>3, PacketsOfUnit
<1>6. Complete(ps) => Complete(s)
  BY <1>2, <1>3 DEF Complete, Absorbed, NoSet
<1>7. Complete(s) => Complete(Absorbed(s, u))
  BY <1>2, <1>3 DEF Complete, Absorbed, NoSet
<1> HIDE DEF u, n, s
<1>8. Description'
  BY <1>4, <1>6 DEF IInv, Description, Mirrored, ReadyAfter, At
<1>9. Anchored'
  <2>1. CASE ready'
    <3>1. Complete(s)
      BY <1>4, <1>6, <2>1 DEF ReadyAfter, IInv, Description
    <3>2. gopCache = <<>> => u.slice = "idr"
      BY <1>4, <2>1 DEF IInv, Anchored, ReadyAfter
    <3> QED
      BY <1>4, <1>5, <1>7, <2>1, <3>1, <3>2 DEF IInv, Anchored
  <2>2. CASE ~ready'
    BY <1>4, <2>2 DEF IInv, Anchored, ReadyAfter
  <2> QED
    BY <2>1, <2>2
<1>10. TypeOK'
  <2>1. ready' \in BOOLEAN /\ sdp' \in [sps : Nat, pps : Nat]
    BY <1>3, <1>4 DEF IInv, TypeOK, Mirrored, ReadyAfter, Complete
  <2>2. pkts' \in Seq(Packet) /\ run' \in {"receive", "cache", "write", "done"}
        /\ (run' \in {"cache", "write"} <=> pkts' # <<>>)
    BY <1>4, <1>5 DEF IInv, TypeOK
  <2> QED
    BY <1>1, <1>3, <1>4, <2>1, <2>2 DEF IInv, TypeOK
<1>11. NewSession'
  BY <1>4 DEF IInv, NewSession
<1> QED
  BY <1>8, <1>9, <1>10, <1>11 DEF IInv

\* The cache is updated, a packet is written, Run returns.
LEMMA RunStep == ASSUME IInv, UpdateGOPCache \/ WritePacket \/ Drained \/ Canceled PROVE IInv'
<1>1. CASE UpdateGOPCache
  <2>1. run = "cache" /\ run' = "write" /\ pkts # <<>>
        /\ UNCHANGED <<pushed, closed, in, ps, sdp, ready, pkts, registered, canceled,
                       remover, pc, got>>
    BY <1>1 DEF UpdateGOPCache, producer, parameters, server, clients, IInv, TypeOK
  <2>2. \/ Head(pkts).idr /\ gopCache' = pkts
        \/ ~Head(pkts).idr /\ gopCache # <<>> /\ gopCache' = gopCache \o pkts
        \/ ~Head(pkts).idr /\ gopCache' = gopCache
    BY <1>1 DEF UpdateGOPCache
  <2>3. gopCache \in Seq(Packet) /\ pkts \in Seq(Packet)
    BY DEF IInv, TypeOK
  <2>4. gopCache' \in Seq(Packet)
    BY <2>2, <2>3, ConcatProperties
  <2>5. gopCache # <<>> => gopCache \o pkts # <<>> /\ Head(gopCache \o pkts) = Head(gopCache)
    BY <2>3
  <2>6. KeyStart(gopCache')
    BY <2>1, <2>2, <2>5 DEF IInv, Anchored, KeyStart
  <2>7. Anchored'
    BY <2>1, <2>6 DEF Anchored, KeyStart
  <2>8. Description' /\ TypeOK' /\ NewSession'
    BY <2>1, <2>4 DEF IInv, Description, TypeOK, NewSession, At
  <2> QED
    BY <2>7, <2>8 DEF IInv
<1>2. CASE WritePacket
  <2>1. run = "write" /\ pkts # <<>> /\ pkts' = Tail(pkts)
        /\ run' = (IF Len(pkts) = 1 THEN "receive" ELSE "write")
        /\ UNCHANGED <<pushed, closed, in, ps, sdp, ready, gopCache, registered, canceled,
                       remover, pc>>
    BY <1>2 DEF WritePacket, producer, parameters, server, IInv, TypeOK
  <2>2. pkts \in Seq(Packet) /\ Head(pkts) \in Packet
    BY <2>1 DEF IInv, TypeOK
  <2>3. pkts' \in Seq(Packet) /\ (pkts' # <<>> <=> Len(pkts) # 1)
    <3>1. Tail(pkts) \in Seq(Packet) /\ Len(Tail(pkts)) = Len(pkts) - 1 /\ Len(pkts) \in Nat
      BY <2>1, <2>2, HeadTailProperties, LenProperties
    <3>2. Tail(pkts) # <<>> <=> Len(Tail(pkts)) # 0
      BY <3>1, EmptySeq
    <3> QED
      BY <2>1, <3>1, <3>2
  <2>4. got' \in [Readers -> Seq(Packet)]
    BY <1>2, <2>2 DEF WritePacket, IInv, TypeOK
  <2>5. TypeOK'
    BY <2>1, <2>3, <2>4 DEF IInv, TypeOK
  <2>6. Description' /\ Anchored'
    BY <2>1 DEF IInv, Description, Anchored, At, KeyStart
  <2>7. NewSession'
    BY <1>2, <2>1 DEF WritePacket, Active, IInv, NewSession
  <2> QED
    BY <2>5, <2>6, <2>7 DEF IInv
<1>3. CASE Drained \/ Canceled
  <2>1. run = "receive" /\ run' = "done"
        /\ UNCHANGED <<pushed, closed, in, ps, sdp, ready, gopCache, pkts, registered,
                       canceled, remover, pc, got>>
    BY <1>3 DEF Drained, Canceled, producer, parameters, server, clients
  <2> QED
    BY <2>1 DEF IInv, TypeOK, Description, Anchored, NewSession, At, KeyStart
<1> QED
  BY <1>1, <1>2, <1>3

\* The producer, the server and the clients leave the source's own state alone.
LEMMA OtherStep ==
  ASSUME IInv, Close \/ RemoveSource \/ (\E u \in Units : Push(u)) \/ (\E r \in Readers : Client(r))
  PROVE  IInv'
<1>1. UNCHANGED <<ps, sdp, ready, gopCache, run, pkts>>
  BY DEF Close, RemoveSource, Unregister, CancelRun, CloseStream, Push, Client, Describe,
     Described, TimeOut, Setup, Replay, Activate, Teardown, parameters
<1>2. Anchored'
  BY <1>1 DEF IInv, Anchored, KeyStart
<1>3. CASE \E u \in Units : Push(u)
  <2>1. PICK u \in Units : Push(u)
    BY <1>3
  <2>2. pushed' \in 1 .. MaxUnits /\ pushed + 1 \in 1 .. MaxUnits
    BY <2>1, LiveAssumption DEF Push, IInv, TypeOK
  <2>3. in' \in Seq([id : 1 .. MaxUnits, unit : Units]) /\ Len(in') <= BufferSize
    <3>1. CASE in' = in
      BY <3>1 DEF IInv, TypeOK
    <3>2. CASE Len(in) # BufferSize /\ in' = Append(in, [id |-> pushed + 1, unit |-> u])
      BY <2>2, <3>2, LiveAssumption DEF IInv, TypeOK
    <3> QED
      BY <2>1, <3>1, <3>2 DEF Push
  <2> QED
    BY <1>1, <1>2, <2>1, <2>2, <2>3 DEF Push, server, clients, IInv, TypeOK, Description,
       NewSession, At
<1>4. CASE Close \/ RemoveSource
  <2>1. pushed' = pushed /\ in' = in /\ got' = got
    BY <1>4 DEF Close, RemoveSource, Unregister, CancelRun, CloseStream, producer, clients
  <2>2. closed' \in BOOLEAN /\ registered' \in BOOLEAN /\ canceled' \in BOOLEAN
        /\ remover' \in {"idle", "cancel", "wait", "done"}
    BY <1>4 DEF Close, RemoveSource, Unregister, CancelRun, CloseStream, producer, server,
       IInv, TypeOK
  <2>3. pc' = pc \/ pc' = [r \in Readers |-> IF pc[r] \in {"setup", "replayed", "playing"}
                                             THEN "gone" ELSE pc[r]]
    BY <1>4 DEF Close, RemoveSource, Unregister, CancelRun, CloseStream, clients
  <2> QED
    BY <1>1, <1>2, <2>1, <2>2, <2>3 DEF IInv, TypeOK, Description, NewSession, At
<1>5. CASE \E r \in Readers : Client(r)
  <2>1. PICK r \in Readers : Client(r)
    BY <1>5
  <2>2. UNCHANGED <<pushed, closed, in, registered, canceled, remover>>
    BY <2>1 DEF Client, Describe, Described, TimeOut, Setup, Replay, Activate, Teardown,
       producer, server
  <2>3. pc' \in [Readers -> {"idle", "waiting", "described", "setup", "replayed",
                             "playing", "gone"}]
    BY <2>1 DEF Client, Describe, Described, TimeOut, Setup, Replay, Activate, Teardown,
       Goto, IInv, TypeOK
  <2>4. \A q \in Readers : pc'[q] = "described" => pc[q] = "described" \/ ready
    BY <2>1 DEF Client, Describe, Described, TimeOut, Setup, Replay, Activate, Teardown,
       Goto, IInv, TypeOK
  <2>5. got' \in [Readers -> Seq(Packet)]
    <3>1. CASE Replay(r)
      <4>1. AtMost(SessionRoom, gopCache) \in Seq(Packet)
        BY AtMostOfSequence, LiveAssumption DEF IInv, TypeOK
      <4>2. got[r] \in Seq(Packet) /\ got[r] \o AtMost(SessionRoom, gopCache) \in Seq(Packet)
        BY <4>1 DEF IInv, TypeOK
      <4> QED
        BY <3>1, <4>2 DEF Replay, IInv, TypeOK
    <3>2. CASE Teardown(r)
      BY <3>2 DEF Teardown, IInv, TypeOK
    <3>3. CASE Describe(r) \/ Described(r) \/ TimeOut(r) \/ Setup(r) \/ Activate(r)
      BY <3>3 DEF Describe, Described, TimeOut, Setup, Activate, IInv, TypeOK
    <3> QED
      BY <2>1, <3>1, <3>2, <3>3 DEF Client
  <2>6. NewSession'
    BY <2>1 DEF Client, Describe, Described, TimeOut, Setup, Replay, Activate, Teardown,
       Goto, At, IInv, TypeOK, NewSession
  <2> QED
    BY <1>1, <1>2, <2>2, <2>3, <2>4, <2>5, <2>6 DEF IInv, TypeOK, Description, At
<1> QED
  BY <1>3, <1>4, <1>5

\* The invariant holds throughout.
LEMMA Always == Spec => []IInv
<1>1. IInv /\ [Next]_vars => IInv'
  <2> SUFFICES ASSUME IInv, [Next]_vars PROVE IInv'
    OBVIOUS
  <2>1. CASE UNCHANGED vars
    BY <2>1 DEF vars, IInv, TypeOK, Description, Anchored, NewSession, KeyStart, At
  <2> QED
    BY <2>1, ReceiveStep, RunStep, OtherStep DEF Next, Run
<1> QED
  BY <1>1, InitIInv, PTL DEF Spec

\* The type invariant of the live source.
THEOREM LiveTypeCorrect == Spec => []TypeOK
<1>1. IInv => TypeOK
  BY DEF IInv
<1> QED
  BY <1>1, Always, PTL

\* DESCRIBE never answers with an SDP short of a parameter set (livesource.go, Ready).
THEOREM SDPComplete == Spec => []DescribedComplete
<1>1. IInv => DescribedComplete
  BY DEF IInv, Description, DescribedComplete
<1> QED
  BY <1>1, Always, PTL

\* The SDP does not change once it may be shown (mirrorParameterSetsToFormat).
THEOREM SDPStays == Spec => DescriptionFrozen
<1>1. [Next]_vars => [ready => sdp' = sdp]_vars
  <2> SUFFICES ASSUME Next, ready PROVE sdp' = sdp
    OBVIOUS
  <2>1. CASE Receive
    BY <2>1 DEF Receive, Mirrored
  <2>2. CASE ~Receive
    BY <2>2 DEF Next, Run, UpdateGOPCache, WritePacket, Drained, Canceled, Close, Push,
       RemoveSource, Unregister, CancelRun, CloseStream, Client, Describe, Described,
       TimeOut, Setup, Replay, Activate, Teardown, parameters
  <2> QED
    BY <2>1, <2>2
<1> QED
  BY <1>1, PTL DEF Spec, DescriptionFrozen

\* PLAY starts a client at a keyframe with its parameter sets, at whatever point of a
\* group of pictures it comes (ReplayGOP).
THEOREM PlayGetsKeyframe == Spec => PlayStartsAtKeyframe
<1>1. IInv /\ [Next]_vars =>
        [\A r \in Readers :
             At(r, "setup") /\ pc'[r] = "replayed" /\ registered /\ ready /\ run # "cache" =>
                 /\ got'[r] # <<>>
                 /\ Head(got'[r]).idr /\ Head(got'[r]).part = 1 /\ Head(got'[r]).sets]_vars
  <2> SUFFICES ASSUME IInv, Next, NEW r \in Readers, At(r, "setup"), pc'[r] = "replayed",
                      registered, ready, run # "cache"
               PROVE  KeyStart(got'[r])
    BY DEF KeyStart
  <2>1. Replay(r)
    <3>1. \E q \in Readers : Client(q)
      BY DEF Next, Push, Close, Run, Receive, UpdateGOPCache, WritePacket, Drained, Canceled,
         RemoveSource, Unregister, CancelRun, CloseStream, server, clients, At, IInv, TypeOK
    <3>2. PICK q \in Readers : Client(q)
      BY <3>1
    <3>3. q = r
      BY <3>2 DEF Client, Describe, Described, TimeOut, Setup, Replay, Activate, Teardown,
         Goto, At, IInv, TypeOK
    <3> QED
      BY <3>2, <3>3 DEF Client, Describe, Described, TimeOut, Setup, Activate, Teardown,
         Goto, At, IInv, TypeOK
  <2>2. KeyStart(gopCache) /\ gopCache \in Seq(Packet)
    BY DEF IInv, Anchored, TypeOK
  <2>3. AtMost(SessionRoom, gopCache) # <<>>
        /\ Head(AtMost(SessionRoom, gopCache)) = Head(gopCache)
        /\ AtMost(SessionRoom, gopCache) \in Seq(Packet)
    BY <2>2, AtMostOfSequence, LiveAssumption DEF KeyStart
  <2>4. got[r] = <<>> /\ got'[r] = got[r] \o AtMost(SessionRoom, gopCache)
    BY <2>1 DEF Replay, At, IInv, NewSession, TypeOK
  <2>5. got'[r] = AtMost(SessionRoom, gopCache)
    BY <2>3, <2>4
  <2> QED
    BY <2>2, <2>3, <2>5 DEF KeyStart
<1> QED
  BY <1>1, Always, PTL DEF Spec, PlayStartsAtKeyframe
-----------------------------------------------------------------------------
(* The order of the access units *)

\* The producer's numbers: those that wait come after everything Run has handled.
Below(q, n) == \A i \in DOMAIN q : q[i].unit < n
Passed(n) ==
    /\ Below(gopCache, n) /\ Below(pkts, n)
    /\ \A r \in Readers : Below(got[r], n)
Numbered ==
    /\ Passed(pushed + 1)
    /\ \A i \in DOMAIN in :
           /\ in[i].id <= pushed
           /\ Passed(in[i].id)
           /\ \A j \in DOMAIN in : i < j => in[i].id < in[j].id

\* Run handles the packets of one unit; no later one is cached or sent.
NonDecreasing(q) == \A i, j \in DOMAIN q : i < j => q[i].unit <= q[j].unit
InTurn ==
    /\ NonDecreasing(gopCache)
    /\ \A r \in Readers : NonDecreasing(got[r])
    /\ \A k \in DOMAIN pkts :
           /\ Below(gopCache, pkts[k].unit + 1)
           /\ \A r \in Readers : Below(got[r], pkts[k].unit + 1)
           /\ \A l \in DOMAIN pkts : pkts[k].unit = pkts[l].unit

Ordered == Numbered /\ InTurn

\* Packet sequences and their bounds: pieces of a sequence below n stay below n.
LEMMA BelowPieces ==
  ASSUME NEW n \in Nat, NEW q \in Seq(Packet), Below(q, n)
  PROVE  /\ \A m \in Nat : n <= m => Below(q, m)
         /\ q # <<>> => Below(Tail(q), n)
         /\ \A w \in Seq(Packet) : Below(w, n) => Below(q \o w, n)
         /\ \A p \in Packet : p.unit < n => Below(Append(q, p), n)
         /\ \A m \in Nat : Below(AtMost(m, q), n)
<1>1. \A i \in DOMAIN q : q[i].unit \in Nat /\ q[i].unit < n
  <2>1. \A p \in Packet : p.unit \in Nat
    BY LiveAssumption DEF Packet
  <2>2. \A i \in DOMAIN q : q[i] \in Packet
    OBVIOUS
  <2> QED
    BY <2>1, <2>2 DEF Below
<1>2. q # <<>> => Below(Tail(q), n)
  <2> SUFFICES ASSUME q # <<>> PROVE Below(Tail(q), n)
    OBVIOUS
  <2>1. /\ DOMAIN Tail(q) = 1 .. Len(q) - 1
        /\ \A i \in 1 .. Len(q) - 1 : Tail(q)[i] = q[i + 1] /\ i + 1 \in DOMAIN q
    OBVIOUS
  <2> QED
    BY <1>1, <2>1 DEF Below
<1>3. \A w \in Seq(Packet) : Below(w, n) => Below(q \o w, n)
  <2> TAKE w \in Seq(Packet)
  <2> HAVE Below(w, n)
  <2>1. DOMAIN (q \o w) = 1 .. Len(q) + Len(w)
        /\ \A i \in 1 .. Len(q) + Len(w) :
              (q \o w)[i] = IF i <= Len(q) THEN q[i] ELSE w[i - Len(q)]
    OBVIOUS
  <2>2. \A i \in 1 .. Len(q) + Len(w) :
           IF i <= Len(q) THEN i \in DOMAIN q ELSE i - Len(q) \in DOMAIN w
    OBVIOUS
  <2> QED
    BY <2>1, <2>2 DEF Below
<1>4. \A p \in Packet : p.unit < n => Below(Append(q, p), n)
  BY DEF Below
<1>5. \A m \in Nat : Below(AtMost(m, q), n)
  <2> TAKE m \in Nat
  <2>1. DOMAIN AtMost(m, q) \subseteq DOMAIN q
        /\ \A i \in DOMAIN AtMost(m, q) : AtMost(m, q)[i] = q[i]
    BY AtMostOfSequence
  <2> QED
    BY <2>1 DEF Below
<1>6. \A m \in Nat : n <= m => Below(q, m)
  BY <1>1 DEF Below
<1> QED
  BY <1>2, <1>3, <1>4, <1>5, <1>6

\* Beginnings of an ordered sequence, and what follows on it, are ordered.
LEMMA OrderPieces ==
  ASSUME NEW q \in Seq(Packet), NonDecreasing(q)
  PROVE  /\ \A m \in Nat : NonDecreasing(AtMost(m, q))
         /\ \A w \in Seq(Packet) :
               NonDecreasing(w)
               /\ (\A i \in DOMAIN q : \A j \in DOMAIN w : q[i].unit <= w[j].unit)
               => NonDecreasing(q \o w)
         /\ \A p \in Packet :
               (\A i \in DOMAIN q : q[i].unit <= p.unit) => NonDecreasing(Append(q, p))
<1>1. \A m \in Nat : NonDecreasing(AtMost(m, q))
  <2> TAKE m \in Nat
  <2>1. DOMAIN AtMost(m, q) \subseteq DOMAIN q
        /\ \A i \in DOMAIN AtMost(m, q) : AtMost(m, q)[i] = q[i]
    BY AtMostOfSequence
  <2> QED
    BY <2>1 DEF NonDecreasing
<1>2. ASSUME NEW w \in Seq(Packet), NonDecreasing(w),
             \A i \in DOMAIN q : \A j \in DOMAIN w : q[i].unit <= w[j].unit
      PROVE  NonDecreasing(q \o w)
  <2>1. DOMAIN (q \o w) = 1 .. Len(q) + Len(w)
        /\ \A i \in 1 .. Len(q) + Len(w) :
              (q \o w)[i] = IF i <= Len(q) THEN q[i] ELSE w[i - Len(q)]
    OBVIOUS
  <2>2. \A i \in 1 .. Len(q) + Len(w) :
           IF i <= Len(q) THEN i \in DOMAIN q ELSE i - Len(q) \in DOMAIN w
    OBVIOUS
  <2> SUFFICES ASSUME NEW i \in 1 .. Len(q) + Len(w), NEW j \in 1 .. Len(q) + Len(w), i < j
               PROVE  (q \o w)[i].unit <= (q \o w)[j].unit
    BY <2>1 DEF NonDecreasing
  <2>3. CASE j <= Len(q)
    BY <2>1, <2>2, <2>3 DEF NonDecreasing
  <2>4. CASE i <= Len(q) /\ ~(j <= Len(q))
    BY <1>2, <2>1, <2>2, <2>4
  <2>5. CASE ~(i <= Len(q))
    <3>1. ~(j <= Len(q)) /\ i - Len(q) < j - Len(q)
      BY <2>5
    <3> QED
      BY <1>2, <2>1, <2>2, <2>5, <3>1 DEF NonDecreasing
  <2> QED
    BY <2>3, <2>4, <2>5
<1>3. ASSUME NEW p \in Packet, \A i \in DOMAIN q : q[i].unit <= p.unit
      PROVE  NonDecreasing(Append(q, p))
  <2>1. NonDecreasing(<<p>>) /\ <<p>> \in Seq(Packet) /\ DOMAIN <<p>> = {1} /\ <<p>>[1] = p
    BY DEF NonDecreasing
  <2>2. NonDecreasing(q \o <<p>>)
    BY <1>2, <1>3, <2>1
  <2> QED
    BY <2>2, AppendIsConcat
<1> QED
  BY <1>1, <1>2, <1>3

\* What a step other than Receive can do to the packets: pass on pieces of what there is.
LEMMA PacketsMove ==
  ASSUME IInv, [Next]_vars, ~Receive
  PROVE  /\ pkts' = pkts \/ (pkts # <<>> /\ pkts' = Tail(pkts))
         /\ gopCache' \in {gopCache, pkts, gopCache \o pkts}
         /\ \A r \in Readers :
               \/ got'[r] \in {got[r], <<>>, AtMost(SessionRoom, gopCache)}
               \/ pkts # <<>> /\ got'[r] = Append(got[r], Head(pkts))
         /\ \/ pushed' = pushed /\ in' = in
            \/ pushed' = pushed + 1 /\ in' = in
            \/ \E u \in Units : pushed' = pushed + 1
                                /\ in' = Append(in, [id |-> pushed + 1, unit |-> u])
<1>1. CASE UNCHANGED vars
  BY <1>1 DEF vars
<1>2. CASE \E u \in Units : Push(u)
  BY <1>2 DEF Push, clients
<1>3. CASE UpdateGOPCache
  BY <1>3 DEF UpdateGOPCache, producer, clients
<1>4. CASE WritePacket
  <2>1. pkts # <<>> /\ pkts' = Tail(pkts) /\ UNCHANGED <<pushed, in, gopCache>>
    BY <1>4 DEF WritePacket, producer, IInv, TypeOK
  <2>2. \A r \in Readers : got'[r] = got[r] \/ got'[r] = Append(got[r], Head(pkts))
    BY <1>4 DEF WritePacket
  <2> QED
    BY <2>1, <2>2
<1>5. CASE Close \/ Drained \/ Canceled \/ RemoveSource
  BY <1>5 DEF Close, Drained, Canceled, RemoveSource, Unregister, CancelRun, CloseStream,
     producer, clients
<1>6. CASE \E r \in Readers : Client(r)
  <2>1. PICK r \in Readers : Client(r)
    BY <1>6
  <2>2. UNCHANGED <<pushed, in, gopCache, pkts>>
    BY <2>1 DEF Client, Describe, Described, TimeOut, Setup, Replay, Activate, Teardown,
       producer
  <2>3. CASE Replay(r)
    <3>1. got[r] = <<>> /\ AtMost(SessionRoom, gopCache) \in Seq(Packet)
      BY <2>3, AtMostOfSequence, LiveAssumption DEF Replay, At, IInv, NewSession, TypeOK
    <3>2. got[r] \o AtMost(SessionRoom, gopCache) = AtMost(SessionRoom, gopCache)
      BY <3>1
    <3>3. \A q \in Readers : got'[q] = got[q] \/ got'[q] = AtMost(SessionRoom, gopCache)
      BY <2>3, <3>2 DEF Replay, IInv, TypeOK
    <3> QED
      BY <2>2, <3>3
  <2>4. CASE Teardown(r)
    <3>1. \A q \in Readers : got'[q] = got[q] \/ got'[q] = <<>>
      BY <2>4 DEF Teardown, IInv, TypeOK
    <3> QED
      BY <2>2, <3>1
  <2>5. CASE Describe(r) \/ Described(r) \/ TimeOut(r) \/ Setup(r) \/ Activate(r)
    BY <2>2, <2>5 DEF Describe, Described, TimeOut, Setup, Activate
  <2> QED
    BY <2>1, <2>3, <2>4, <2>5 DEF Client
<1> QED
  BY <1>1, <1>2, <1>3, <1>4, <1>5, <1>6 DEF Next, Run

\* So what was below a number stays below it.
LEMMA PassedStays ==
  ASSUME IInv, [Next]_vars, ~Receive, NEW n \in Nat, Passed(n)
  PROVE  /\ Below(gopCache', n) /\ Below(pkts', n)
         /\ \A r \in Readers : Below(got'[r], n)
<1>1. /\ gopCache \in Seq(Packet) /\ pkts \in Seq(Packet)
      /\ \A r \in Readers : got[r] \in Seq(Packet)
  BY DEF IInv, TypeOK
<1>2. Below(gopCache, n) /\ Below(pkts, n) /\ \A r \in Readers : Below(got[r], n)
  BY DEF Passed
<1>3. Below(pkts', n)
  <2>1. pkts # <<>> => Below(Tail(pkts), n)
    BY <1>1, <1>2, BelowPieces
  <2>2. pkts' = pkts \/ (pkts # <<>> /\ pkts' = Tail(pkts))
    BY PacketsMove
  <2>3. CASE pkts' = pkts
    BY <1>2, <2>3
  <2>4. CASE pkts # <<>> /\ pkts' = Tail(pkts)
    BY <2>1, <2>4
  <2> QED
    BY <2>2, <2>3, <2>4
<1>4. Below(gopCache', n)
  <2>1. Below(gopCache \o pkts, n)
    BY <1>1, <1>2, BelowPieces
  <2> QED
    BY <1>2, <2>1, PacketsMove
<1>5. ASSUME NEW r \in Readers PROVE Below(got'[r], n)
  <2>1. pkts # <<>> => Head(pkts) \in Packet /\ Head(pkts).unit < n
    BY <1>1, <1>2 DEF Below
  <2>2. Below(<<>>, n)
    BY DEF Below
  <2>3. Below(AtMost(SessionRoom, gopCache), n)
    BY <1>1, <1>2, BelowPieces, LiveAssumption
  <2>4. pkts # <<>> => Below(Append(got[r], Head(pkts)), n)
    BY <1>1, <1>2, <2>1, BelowPieces
  <2> QED
    BY <1>2, <2>2, <2>3, <2>4, PacketsMove
<1> QED
  BY <1>3, <1>4, <1>5

\* A unit that is pushed gets the next number.
LEMMA NumberedStays ==
  ASSUME IInv, IInv', Numbered, [Next]_vars, ~Receive
  PROVE  Numbered'
<1>1. /\ pushed \in Nat
      /\ \A i \in DOMAIN in : in[i].id \in Nat
      /\ in \in Seq([id : 1 .. MaxUnits, unit : Units])
  <2> DEFINE Waiting == [id : 1 .. MaxUnits, unit : Units]
  <2>1. \A m \in Waiting : m.id \in Nat
    BY LiveAssumption
  <2>2. in \in Seq(Waiting) /\ pushed \in Nat
    BY LiveAssumption DEF IInv, TypeOK
  <2> HIDE DEF Waiting
  <2>3. \A i \in DOMAIN in : in[i] \in Waiting
    BY <2>2
  <2> QED
    BY <2>1, <2>2, <2>3 DEF Waiting
<1>2. /\ gopCache' \in Seq(Packet) /\ pkts' \in Seq(Packet)
      /\ \A r \in Readers : got'[r] \in Seq(Packet)
  BY DEF IInv, TypeOK
<1>3. pushed' \in {pushed, pushed + 1}
  BY PacketsMove
<1> DEFINE Clear(n) == /\ Below(gopCache', n) /\ Below(pkts', n)
                       /\ \A r \in Readers : Below(got'[r], n)
<1>4. Clear(pushed + 1) /\ \A i \in DOMAIN in : Clear(in[i].id)
  BY <1>1, PassedStays DEF Numbered
<1>5. Clear(pushed + 1) => Clear(pushed + 2)
  BY <1>1, <1>2, BelowPieces
<1> HIDE DEF Clear
<1>6. Clear(pushed' + 1)
  <2>1. CASE pushed' = pushed
    BY <1>4, <2>1
  <2>2. CASE pushed' = pushed + 1
    <3>1. pushed' + 1 = pushed + 2
      BY <1>1, <2>2
    <3> QED
      BY <1>4, <1>5, <3>1
  <2> QED
    BY <1>3, <2>1, <2>2
<1>7. \A i \in DOMAIN in' : /\ in'[i].id <= pushed'
                            /\ Clear(in'[i].id)
                            /\ \A j \in DOMAIN in' : i < j => in'[i].id < in'[j].id
  <2>1. CASE in' = in
    <3>1. \A i \in DOMAIN in : in[i].id <= pushed
                               /\ \A j \in DOMAIN in : i < j => in[i].id < in[j].id
      BY DEF Numbered
    <3>2. \A i \in DOMAIN in : in[i].id <= pushed'
      BY <1>1, <1>3, <3>1
    <3> QED
      BY <1>4, <2>1, <3>1, <3>2
  <2>2. ASSUME NEW u \in Units, pushed' = pushed + 1,
               in' = Append(in, [id |-> pushed + 1, unit |-> u])
        PROVE  <1>7
    <3>1. DOMAIN in' = 1 .. Len(in) + 1
          /\ \A i \in 1 .. Len(in) + 1 :
                in'[i] = IF i = Len(in) + 1 THEN [id |-> pushed + 1, unit |-> u] ELSE in[i]
      BY <1>1, <2>2
    <3>2. \A i \in 1 .. Len(in) + 1 : i = Len(in) + 1 \/ i \in DOMAIN in
      BY <1>1
    <3>3. \A i \in DOMAIN in : in[i].id <= pushed
                               /\ \A j \in DOMAIN in : i < j => in[i].id < in[j].id
      BY DEF Numbered
    <3>4. \A i \in DOMAIN in' : in'[i].id <= pushed' /\ Clear(in'[i].id)
      BY <1>1, <1>4, <2>2, <3>1, <3>2, <3>3
    <3>5. ASSUME NEW i \in DOMAIN in', NEW j \in DOMAIN in', i < j
          PROVE  in'[i].id < in'[j].id
      <4>1. i \in DOMAIN in /\ in'[i] = in[i] /\ in[i].id <= pushed /\ in[i].id \in Nat
        BY <1>1, <3>1, <3>2, <3>3, <3>5
      <4>2. CASE j = Len(in) + 1
        <5>1. in'[j].id = pushed + 1
          BY <3>1, <3>5, <4>2
        <5> QED
          BY <1>1, <4>1, <5>1
      <4>3. CASE j \in DOMAIN in
        <5>1. in'[j] = in[j]
          BY <1>1, <3>1, <4>3
        <5> QED
          BY <3>3, <3>5, <4>1, <4>3, <5>1
      <4> QED
        BY <3>1, <3>2, <4>2, <4>3
    <3> QED
      BY <3>4, <3>5
  <2> QED
    BY <2>1, <2>2, PacketsMove
<1> QED
  BY <1>6, <1>7 DEF Clear, Numbered, Passed, Below

\* Every step but the arrival of a unit at Run keeps the order.
LEMMA InTurnStays ==
  ASSUME IInv, IInv', Numbered, InTurn, [Next]_vars, ~Receive
  PROVE  InTurn'
<1>1. /\ gopCache \in Seq(Packet) /\ pkts \in Seq(Packet)
      /\ \A r \in Readers : got[r] \in Seq(Packet)
      /\ \A p \in Packet : p.unit \in Nat
  <2>1. \A p \in Packet : p.unit \in Nat
    BY LiveAssumption DEF Packet
  <2> QED
    BY <2>1 DEF IInv, TypeOK
<1>2. \A k \in DOMAIN pkts : pkts[k] \in Packet /\ pkts[k].unit \in Nat
  <2>1. \A k \in DOMAIN pkts : pkts[k] \in Packet
    BY <1>1
  <2> QED
    BY <1>1, <2>1
<1>3. \A i \in DOMAIN gopCache : gopCache[i] \in Packet /\ gopCache[i].unit \in Nat
  <2>1. \A i \in DOMAIN gopCache : gopCache[i] \in Packet
    BY <1>1
  <2> QED
    BY <1>1, <2>1
<1>4. NonDecreasing(gopCache')
  <2>1. NonDecreasing(gopCache)
    BY DEF InTurn
  <2>2. NonDecreasing(pkts)
    BY <1>2 DEF InTurn, NonDecreasing
  <2>3. \A i \in DOMAIN gopCache : \A k \in DOMAIN pkts : gopCache[i].unit <= pkts[k].unit
    BY <1>2, <1>3 DEF InTurn, Below
  <2>4. NonDecreasing(gopCache \o pkts)
    BY <1>1, <2>1, <2>2, <2>3, OrderPieces
  <2> QED
    BY <2>1, <2>2, <2>4, PacketsMove
<1>5. ASSUME NEW r \in Readers PROVE NonDecreasing(got'[r])
  <2>1. NonDecreasing(got[r]) /\ NonDecreasing(gopCache)
    BY DEF InTurn
  <2>2. NonDecreasing(<<>>)
    BY DEF NonDecreasing
  <2>3. NonDecreasing(AtMost(SessionRoom, gopCache))
    BY <1>1, <2>1, OrderPieces, LiveAssumption
  <2>4. ASSUME pkts # <<>> PROVE NonDecreasing(Append(got[r], Head(pkts)))
    <3>1. 1 \in DOMAIN pkts /\ Head(pkts) = pkts[1] /\ pkts[1] \in Packet /\ pkts[1].unit \in Nat
      BY <1>1, <1>2, <2>4
    <3>2. \A i \in DOMAIN got[r] : got[r][i].unit \in Nat /\ got[r][i].unit < pkts[1].unit + 1
      <4>1. \A i \in DOMAIN got[r] : got[r][i] \in Packet
        BY <1>1
      <4> QED
        BY <1>1, <3>1, <4>1 DEF InTurn, Below
    <3>3. \A i \in DOMAIN got[r] : got[r][i].unit <= pkts[1].unit
      BY <3>1, <3>2
    <3> QED
      BY <1>1, <2>1, <3>1, <3>3, OrderPieces
  <2> QED
    BY <2>1, <2>2, <2>3, <2>4, PacketsMove
<1>6. CASE pkts = <<>>
  <2>1. pkts' = <<>>
    BY <1>6, PacketsMove
  <2> QED
    BY <1>4, <1>5, <2>1 DEF InTurn
<1>7. CASE pkts # <<>>
  <2> DEFINE n == pkts[1].unit
  <2>1. 1 \in DOMAIN pkts /\ n \in Nat /\ \A k \in DOMAIN pkts : pkts[k].unit = n
    BY <1>1, <1>2, <1>7 DEF InTurn
  <2> HIDE DEF n
  <2>2. Passed(n + 1)
    <3>1. Below(pkts, n + 1)
      BY <2>1 DEF Below
    <3>2. Below(gopCache, n + 1) /\ \A r \in Readers : Below(got[r], n + 1)
      BY <2>1 DEF InTurn
    <3> QED
      BY <3>1, <3>2 DEF Passed
  <2>3. Below(gopCache', n + 1) /\ \A r \in Readers : Below(got'[r], n + 1)
    BY <2>1, <2>2, PassedStays
  <2>4. \A k \in DOMAIN pkts' : pkts'[k].unit = n
    <3>1. \A k \in DOMAIN Tail(pkts) : k + 1 \in DOMAIN pkts /\ Tail(pkts)[k] = pkts[k + 1]
      BY <1>1, <1>7
    <3> QED
      BY <2>1, <3>1, PacketsMove
  <2> QED
    BY <1>4, <1>5, <2>3, <2>4 DEF InTurn, Below
<1> QED
  BY <1>6, <1>7

\* Receive passes to the next number.
LEMMA OrderReceive == ASSUME IInv, IInv', Ordered, Receive PROVE Ordered'
<1> DEFINE n == Head(in).id
           u == Head(in).unit
           s == Absorbed(ps, u)
           Waiting == [id : 1 .. MaxUnits, unit : Units]
<1>1. /\ in \in Seq(Waiting) /\ in # <<>> /\ in' = Tail(in)
      /\ UNCHANGED <<pushed, gopCache, got>>
      /\ \/ pkts' = Packets(n, u, s)
         \/ pkts' = pkts
  BY DEF Receive, IInv, TypeOK, producer, clients
<1>2. \A m \in Waiting : m.id \in Nat /\ m.unit \in Units
  BY LiveAssumption
<1> HIDE DEF Waiting
<1>3. /\ 1 \in DOMAIN in /\ n = in[1].id /\ u = in[1].unit
      /\ \A i \in DOMAIN in : in[i] \in Waiting
      /\ \A i \in DOMAIN in' : i + 1 \in DOMAIN in /\ in'[i] = in[i + 1] /\ 1 < i + 1
                               /\ \A j \in DOMAIN in' : i < j => i + 1 < j + 1
  BY <1>1
<1>4. \A i \in DOMAIN in : in[i].id \in Nat
  BY <1>2, <1>3
<1>5. Passed(n) /\ n <= pushed /\ n \in Nat /\ pushed \in Nat
  <2>1. Passed(n) /\ n <= pushed
    BY <1>3 DEF Ordered, Numbered
  <2>2. n \in Nat /\ pushed \in Nat
    BY <1>3, <1>4, LiveAssumption DEF IInv, TypeOK
  <2> QED
    BY <2>1, <2>2
<1>6. run = "receive" /\ pkts = <<>>
  BY DEF Receive, IInv, TypeOK
<1>7. \A k \in DOMAIN pkts' : pkts'[k].unit = n
  <2>1. \A k \in DOMAIN Packets(n, u, s) : Packets(n, u, s)[k].unit = n
    BY DEF Packets
  <2> QED
    BY <1>1, <1>6, <2>1
<1>8. gopCache \in Seq(Packet) /\ \A r \in Readers : got[r] \in Seq(Packet)
  BY DEF IInv, TypeOK
<1> HIDE DEF n, u, s
<1>9. \A i \in DOMAIN in' : in'[i].id \in Nat /\ n < in'[i].id /\ in'[i].id <= pushed
  BY <1>3, <1>4 DEF Ordered, Numbered
<1>10. \A m \in Nat : n < m => Below(pkts', m)
  BY <1>5, <1>7 DEF Below
<1>11. Numbered'
  <2>1. Passed(pushed + 1)'
    <3>1. Below(pkts', pushed + 1)
      BY <1>5, <1>10
    <3> QED
      BY <1>1, <3>1 DEF Ordered, Numbered, Passed, Below
  <2>2. ASSUME NEW i \in DOMAIN in' PROVE Passed(in[i].id)'
    <3>1. Below(pkts', in'[i].id)
      BY <1>9, <1>10
    <3>2. Below(gopCache, in'[i].id) /\ \A r \in Readers : Below(got[r], in'[i].id)
      BY <1>3 DEF Ordered, Numbered, Passed
    <3> QED
      BY <1>1, <3>1, <3>2 DEF Passed, Below
  <2>3. \A i, j \in DOMAIN in' : i < j => in'[i].id < in'[j].id
    BY <1>3 DEF Ordered, Numbered
  <2> QED
    BY <1>1, <1>9, <2>1, <2>2, <2>3 DEF Numbered
<1>12. InTurn'
  <2>1. Below(gopCache, n + 1) /\ \A r \in Readers : Below(got[r], n + 1)
    BY <1>5, <1>8, BelowPieces DEF Passed
  <2> QED
    BY <1>1, <1>7, <2>1 DEF Ordered, InTurn, NonDecreasing, Below
<1> QED
  BY <1>11, <1>12 DEF Ordered

\* Nothing is out of order at first.
LEMMA InitOrdered == Init => Ordered
  BY DEF Init, Ordered, Numbered, InTurn, Passed, Below, NonDecreasing

\* What is cached and sent keeps the order in which the producer pushed the units
\* (writeAU, ReplayGOP).
THEOREM SentInOrder == Spec => []UnitsInOrder
<1>1. IInv /\ IInv' /\ Ordered /\ [Next]_vars => Ordered'
  BY NumberedStays, InTurnStays, OrderReceive DEF Ordered
<1>2. Ordered => UnitsInOrder
  BY DEF Ordered, InTurn, NonDecreasing, UnitsInOrder
<1> QED
  BY <1>1, <1>2, InitOrdered, Always, PTL DEF Spec

-----------------------------------------------------------------------------
(* The cache *)

\* The packets that are about to be cached are those of one unit, all of them.
WholeUnit(q) ==
    \A k \in DOMAIN q :
        /\ q[k].part = k /\ q[k].size = Len(q)
        /\ q[k].unit = q[1].unit /\ q[k].idr = q[1].idr

\* Of each unit in a cache the last packet is there too, and no keyframe but the first.
NoPartOfUnit(q) ==
    \A i \in DOMAIN q :
        LET p == q[i]
            whole == i + p.size - p.part
        IN /\ p.idr => p.unit = q[1].unit
           /\ whole \in DOMAIN q
           /\ q[whole].unit = p.unit /\ q[whole].part = p.size

Whole ==
    /\ run = "cache" => WholeUnit(pkts)
    /\ NoPartOfUnit(gopCache)

\* Both ways in which updateGOPCache fills the cache keep units whole.
LEMMA WholeKept ==
  ASSUME NEW q \in Seq(Packet), q # <<>>, WholeUnit(q)
  PROVE  /\ NoPartOfUnit(q)
         /\ \A c \in Seq(Packet) :
               NoPartOfUnit(c) /\ c # <<>> /\ ~q[1].idr => NoPartOfUnit(c \o q)
<1>1. Len(q) \in Nat /\ DOMAIN q = 1 .. Len(q) /\ 1 \in DOMAIN q /\ Len(q) \in DOMAIN q
  BY EmptySeq
<1>2. \A k \in DOMAIN q : /\ q[k].part = k /\ q[k].size = Len(q)
                          /\ q[k].unit = q[1].unit /\ q[k].idr = q[1].idr
  BY DEF WholeUnit
<1>3. \A k \in DOMAIN q : k + q[k].size - q[k].part = Len(q)
  BY <1>1, <1>2
<1>4. NoPartOfUnit(q)
  BY <1>1, <1>2, <1>3 DEF NoPartOfUnit
<1>5. ASSUME NEW c \in Seq(Packet), NoPartOfUnit(c), c # <<>>, ~q[1].idr
      PROVE  NoPartOfUnit(c \o q)
  <2> DEFINE L == Len(c)
             cq == c \o q
  <2>1. /\ L \in Nat /\ L > 0 /\ DOMAIN c = 1 .. L
        /\ DOMAIN cq = 1 .. L + Len(q)
        /\ \A i \in 1 .. L + Len(q) : cq[i] = IF i <= L THEN c[i] ELSE q[i - L]
    BY <1>1, <1>5, EmptySeq
  <2> HIDE DEF L, cq
  <2>2. cq[1] = c[1]
    BY <1>1, <2>1
  <2>3. ASSUME NEW i \in DOMAIN cq
        PROVE  /\ cq[i].idr => cq[i].unit = cq[1].unit
               /\ i + cq[i].size - cq[i].part \in DOMAIN cq
               /\ cq[i + cq[i].size - cq[i].part].unit = cq[i].unit
               /\ cq[i + cq[i].size - cq[i].part].part = cq[i].size
    <3>1. CASE i <= L
      <4> DEFINE w == i + c[i].size - c[i].part
      <4>1. i \in DOMAIN c /\ cq[i] = c[i]
        BY <1>1, <2>1, <3>1
      <4>2. /\ c[i].idr => c[i].unit = c[1].unit
            /\ w \in DOMAIN c /\ c[w].unit = c[i].unit /\ c[w].part = c[i].size
        BY <1>5, <4>1 DEF NoPartOfUnit
      <4> HIDE DEF w
      <4>3. w \in DOMAIN cq /\ cq[w] = c[w]
        BY <1>1, <2>1, <4>2
      <4> QED
        BY <2>2, <4>1, <4>2, <4>3 DEF w
    <3>2. CASE ~(i <= L)
      <4>1. i - L \in DOMAIN q /\ cq[i] = q[i - L]
        BY <1>1, <2>1, <3>2
      <4>2. i + cq[i].size - cq[i].part = L + Len(q)
        <5>1. cq[i].size = Len(q) /\ cq[i].part = i - L
          BY <1>2, <4>1
        <5>2. i \in Nat
          BY <2>1, <2>3, <1>1
        <5> QED
          BY <1>1, <2>1, <5>1, <5>2
      <4>3. L + Len(q) \in DOMAIN cq /\ cq[L + Len(q)] = q[Len(q)]
        BY <1>1, <2>1
      <4> QED
        BY <1>1, <1>2, <1>5, <4>1, <4>2, <4>3
    <3> QED
      BY <3>1, <3>2
  <2>4. NoPartOfUnit(cq)
    BY <2>3 DEF NoPartOfUnit
  <2> QED
    BY <2>4 DEF cq
<1> QED
  BY <1>4, <1>5

\* Every step keeps the cached units whole.
LEMMA WholeStep == ASSUME IInv, IInv', Whole, [Next]_vars PROVE Whole'
<1>1. CASE Receive
  <2> DEFINE n == Head(in).id
             u == Head(in).unit
             s == Absorbed(ps, u)
  <2>1. gopCache' = gopCache /\ (run' = "cache" => pkts' = Packets(n, u, s))
    BY <1>1 DEF Receive
  <2>2. u.size \in Nat /\ DOMAIN Packets(n, u, s) = 1 .. u.size
    <3>1. in \in Seq([id : 1 .. MaxUnits, unit : Units]) /\ in # <<>>
      BY <1>1 DEF Receive, IInv, TypeOK
    <3>2. Head(in) \in [id : 1 .. MaxUnits, unit : Units]
      BY <3>1, HeadTailProperties
    <3> QED
      BY <3>2, LiveAssumption DEF AccessUnit, Packets
  <2>3. run' = "cache" => pkts' \in Seq(Packet) /\ pkts' # <<>>
    BY DEF IInv, TypeOK
  <2>4. run' = "cache" => Len(pkts') = u.size /\ 1 \in 1 .. u.size
    BY <2>1, <2>2, <2>3, EmptySeq
  <2>5. \A k \in 1 .. u.size :
           /\ Packets(n, u, s)[k].part = k /\ Packets(n, u, s)[k].size = u.size
           /\ Packets(n, u, s)[k].unit = n
           /\ Packets(n, u, s)[k].idr = Packets(n, u, s)[1].idr
    <3> DEFINE b == u.slice = "idr"
               c == Complete(Carried(u, s))
    <3>1. \A k \in 1 .. u.size :
             Packets(n, u, s)[k] = [unit |-> n, part |-> k, size |-> u.size,
                                    idr |-> b, sets |-> c]
      BY DEF Packets
    <3> HIDE DEF b, c
    <3> TAKE k \in 1 .. u.size
    <3>2. Packets(n, u, s)[k] = [unit |-> n, part |-> k, size |-> u.size, idr |-> b, sets |-> c]
      BY <3>1
    <3>3. 1 \in 1 .. u.size
      BY <2>2
    <3>4. Packets(n, u, s)[1] = [unit |-> n, part |-> 1, size |-> u.size, idr |-> b, sets |-> c]
      BY <3>1, <3>3
    <3> QED
      BY <3>2, <3>4
  <2> HIDE DEF n, u, s
  <2>6. run' = "cache" => WholeUnit(pkts')
    <3> SUFFICES ASSUME run' = "cache", NEW k \in DOMAIN pkts'
                 PROVE  /\ pkts'[k].part = k /\ pkts'[k].size = Len(pkts')
                        /\ pkts'[k].unit = pkts'[1].unit /\ pkts'[k].idr = pkts'[1].idr
      BY DEF WholeUnit
    <3>1. k \in 1 .. u.size /\ pkts' = Packets(n, u, s)
      BY <2>1, <2>2
    <3> QED
      BY <2>4, <2>5, <3>1
  <2> QED
    BY <2>1, <2>6 DEF Whole, NoPartOfUnit, WholeUnit
<1>2. CASE UpdateGOPCache
  <2>1. /\ gopCache \in Seq(Packet) /\ pkts \in Seq(Packet) /\ pkts # <<>>
        /\ WholeUnit(pkts) /\ NoPartOfUnit(gopCache) /\ run' # "cache"
    BY <1>2 DEF UpdateGOPCache, IInv, TypeOK, Whole
  <2>2. Head(pkts) = pkts[1]
    BY <2>1
  <2>3. \/ gopCache' = pkts
        \/ gopCache # <<>> /\ ~pkts[1].idr /\ gopCache' = gopCache \o pkts
        \/ gopCache' = gopCache
    BY <1>2, <2>2 DEF UpdateGOPCache
  <2>4. NoPartOfUnit(gopCache')
    BY <2>1, <2>3, WholeKept
  <2> QED
    BY <2>1, <2>4 DEF Whole, NoPartOfUnit
<1>3. CASE ~Receive /\ ~UpdateGOPCache
  <2>1. gopCache' = gopCache /\ (run' = "cache" => run = "cache" /\ pkts' = pkts)
    BY <1>3 DEF Next, Run, WritePacket, Drained, Canceled, Close, RemoveSource, Unregister,
       CancelRun, CloseStream, Push, Client, Describe, Described, TimeOut, Setup, Replay,
       Activate, Teardown, vars
  <2> QED
    BY <2>1 DEF Whole, NoPartOfUnit, WholeUnit
<1> QED
  BY <1>1, <1>2, <1>3

\* The cache can bootstrap a decoder at every moment between two access units
\* (updateGOPCache): at the cap it leaves out whole units.
THEOREM CacheBootstraps == Spec => []CacheDecodes
<1>1. Init => Whole
  BY DEF Init, Whole, NoPartOfUnit
<1>2. IInv /\ IInv' /\ Whole /\ [Next]_vars => Whole'
  BY WholeStep
<1>3. IInv /\ Whole => CacheDecodes
  <2> SUFFICES ASSUME IInv, Whole PROVE CacheDecodes
    OBVIOUS
  <2>1. gopCache # <<>> => Head(gopCache).idr /\ Head(gopCache).sets
    BY DEF IInv, Anchored, KeyStart
  <2>2. ready /\ run # "cache" => gopCache # <<>>
    BY DEF IInv, Anchored
  <2>3. gopCache \in Seq(Packet) /\ Head(gopCache) = gopCache[1]
    BY DEF IInv, TypeOK
  <2> QED
    BY <2>1, <2>2, <2>3 DEF Whole, NoPartOfUnit, CacheDecodes
<1> QED
  BY <1>1, <1>2, <1>3, Always, PTL DEF Spec
=============================================================================
