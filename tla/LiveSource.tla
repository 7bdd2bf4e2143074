----------------------------- MODULE LiveSource ------------------------------
(***************************************************************************)
(* internal/rtsp: a live H.264 source (livesource.go) and the RTSP clients *)
(* that join it through the server's handlers (server.go).                 *)
(*                                                                         *)
(* A producer pushes access units into a bounded channel.  The source's    *)
(* Run goroutine takes them out, keeps the parameter sets, drops all until *)
(* the first decodable keyframe, caches the packets of the current group   *)
(* of pictures and writes each packet to the readers active at that        *)
(* moment.  A client's PLAY first replays the cache to its own session and *)
(* only then makes it an active reader, in the middle of all this.         *)
(*                                                                         *)
(* Bytes are left out: an access unit is the parameter sets it holds, the  *)
(* kind of its slice and the number of packets it makes.  The stream and   *)
(* the sessions are gortsplib's.  The writes to the stream do not fail:    *)
(* Encode keeps packets under its limit and the stream outlives Run.       *)
(***************************************************************************)
EXTENDS Naturals, Sequences

CONSTANTS
    Readers,      \* RTSP clients
    Units,        \* access units the producer may push
    BufferSize,   \* liveBufferSize
    CacheCap,     \* maxGOPCachePackets
    SessionRoom,  \* packets a session's write queue takes before PLAY starts it
    MaxUnits      \* bound: access units pushed

\* A version of a parameter set, or none in this unit.
NoSet == 0
AccessUnit == [sps: Nat, pps: Nat, slice: {"idr", "p", "none"}, size: Nat \ {0}]

ASSUME LiveAssumption ==
    /\ Units \subseteq AccessUnit
    /\ BufferSize \in Nat \ {0}
    /\ CacheCap \in Nat
    /\ SessionRoom \in Nat \ {0}
    /\ MaxUnits \in Nat

VARIABLES
    pushed,      \* access units pushed so far; the last one's number
    in,          \* LiveSource.in: the numbered units waiting
    closed,      \* LiveSource.closed
    ps,          \* psSPS, psPPS
    sdp,         \* SPS and PPS of the media's format, which the SDP shows
    ready,       \* LiveSource.ready is closed
    gopCache,    \* LiveSource.gopCache
    run,         \* where the Run goroutine stands
    pkts,        \* the packets it is handling
    registered,  \* the server's map has the source
    canceled,    \* the context of Run
    remover,     \* where RemoveSource stands
    pc,          \* pc[r]: where client r stands
    got          \* got[r]: the packets written to r's session

vars == <<pushed, in, closed, ps, sdp, ready, gopCache, run, pkts, registered,
          canceled, remover, pc, got>>
producer == <<pushed, closed>>
parameters == <<ps, sdp, ready>>
server == <<registered, canceled, remover>>
clients == <<pc, got>>

At(r, label) == pc[r] = label
Goto(r, label) == pc' = [pc EXCEPT ![r] = label]
Complete(s) == s.sps # NoSet /\ s.pps # NoSet
AtMost(n, s) == SubSeq(s, 1, IF Len(s) < n THEN Len(s) ELSE n)

-----------------------------------------------------------------------------
(* The producer *)

\* A unit that finds the channel closed or full is dropped.
Push(u) ==
    /\ pushed < MaxUnits
    /\ pushed' = pushed + 1
    /\ in' = IF closed \/ Len(in) = BufferSize THEN in
             ELSE Append(in, [id |-> pushed + 1, unit |-> u])
    /\ UNCHANGED <<closed, parameters, gopCache, run, pkts, server, clients>>

Close ==
    /\ ~closed
    /\ closed' = TRUE
    /\ UNCHANGED <<pushed, in, parameters, gopCache, run, pkts, server, clients>>

-----------------------------------------------------------------------------
(* Run *)

Absorbed(s, u) ==
    [sps |-> IF u.sps # NoSet THEN u.sps ELSE s.sps,
     pps |-> IF u.pps # NoSet THEN u.pps ELSE s.pps]

\* maybePrependParameterSets: the sets an outgoing unit carries.
MutCarried(u, s) == [sps |-> u.sps, pps |-> u.pps]
Carried(u, s) ==
    IF u.slice = "idr" THEN Absorbed(s, u) ELSE [sps |-> u.sps, pps |-> u.pps]

\* A packet knows its unit, its place in it, and whether that unit is a keyframe and
\* brings the sets to decode it.
Packets(n, u, s) ==
    [k \in 1 .. u.size |->
        [unit |-> n, part |-> k, size |-> u.size, idr |-> u.slice = "idr",
         sets |-> Complete(Carried(u, s))]]

\* absorbParameterSets, with its mirror into the format, and the wait for a keyframe.
Mirrored(s) == IF ready \/ s = ps THEN sdp ELSE s

MutReadyAfter(u, s) == ready \/ u.slice = "idr"
ReadyAfter(u, s) == ready \/ (u.slice = "idr" /\ Complete(s))

Receive ==
    /\ run = "receive"
    /\ in # <<>>
    /\ LET u == Head(in).unit
           s == Absorbed(ps, u)
       IN /\ ps' = s
          /\ sdp' = Mirrored(s)
          /\ ready' = ReadyAfter(u, s)
          /\ \/ ready' /\ pkts' = Packets(Head(in).id, u, s) /\ run' = "cache"
             \/ ~ready' /\ UNCHANGED <<pkts, run>>
    /\ in' = Tail(in)
    /\ UNCHANGED <<producer, gopCache, server, clients>>

\* updateGOPCache: a keyframe replaces the cache; what does not fit is left out.
MutUpdateGOPCache ==
    /\ run = "cache"
    /\ gopCache' = IF Head(pkts).idr THEN pkts
                   ELSE IF gopCache = <<>> THEN gopCache
                   ELSE AtMost(CacheCap, gopCache \o pkts)
    /\ run' = "write"
    /\ UNCHANGED <<producer, in, parameters, pkts, server, clients>>

UpdateGOPCache ==
    /\ run = "cache"
    /\ gopCache' =
           CASE Head(pkts).idr -> pkts
             [] ~Head(pkts).idr /\ gopCache # <<>>
                /\ Len(gopCache) + Len(pkts) <= CacheCap -> gopCache \o pkts
             [] OTHER -> gopCache
    /\ run' = "write"
    /\ UNCHANGED <<producer, in, parameters, pkts, server, clients>>

\* stream.WritePacketRTPWithNTP, to whoever is active.
Active(r) == pc[r] = "playing"

WritePacket ==
    /\ run = "write"
    /\ got' = [r \in Readers |-> IF Active(r) THEN Append(got[r], Head(pkts)) ELSE got[r]]
    /\ pkts' = Tail(pkts)
    /\ run' = IF Len(pkts) = 1 THEN "receive" ELSE "write"
    /\ UNCHANGED <<producer, in, parameters, gopCache, server, pc>>

\* The select of Run: a canceled context, or the channel closed and empty.
Canceled ==
    /\ run = "receive"
    /\ canceled
    /\ run' = "done"
    /\ UNCHANGED <<producer, in, parameters, gopCache, pkts, server, clients>>

Drained ==
    /\ run = "receive"
    /\ closed /\ in = <<>>
    /\ run' = "done"
    /\ UNCHANGED <<producer, in, parameters, gopCache, pkts, server, clients>>

Run == Receive \/ UpdateGOPCache \/ WritePacket \/ Drained

-----------------------------------------------------------------------------
(* RemoveSource *)

Unregister ==
    /\ remover = "idle"
    /\ registered' = FALSE
    /\ remover' = "cancel"
    /\ UNCHANGED <<producer, in, parameters, gopCache, run, pkts, canceled, clients>>

CancelRun ==
    /\ remover = "cancel"
    /\ canceled' = TRUE
    /\ remover' = "wait"
    /\ UNCHANGED <<producer, in, parameters, gopCache, run, pkts, registered, clients>>

\* Run has returned: the stream is closed, and with it every session set up on it.
CloseStream ==
    /\ remover = "wait"
    /\ run = "done"
    /\ remover' = "done"
    /\ pc' = [r \in Readers |-> IF pc[r] \in {"setup", "replayed", "playing"}
                              THEN "gone" ELSE pc[r]]
    /\ UNCHANGED <<producer, in, parameters, gopCache, run, pkts, registered, canceled, got>>

RemoveSource == Unregister \/ CancelRun \/ CloseStream

-----------------------------------------------------------------------------
(* The clients *)

Describe(r) ==
    /\ At(r, "idle")
    /\ registered
    /\ Goto(r, "waiting")
    /\ UNCHANGED <<producer, in, parameters, gopCache, run, pkts, server, got>>

\* Ready: the channel closes, or describeReadyTimeout passes and the client gets 503.
Described(r) ==
    /\ At(r, "waiting")
    /\ ready
    /\ Goto(r, "described")
    /\ UNCHANGED <<producer, in, parameters, gopCache, run, pkts, server, got>>

MutTimeOut(r) ==
    /\ At(r, "waiting")
    /\ ~registered
    /\ Goto(r, "idle")
    /\ UNCHANGED <<producer, in, parameters, gopCache, run, pkts, server, got>>

TimeOut(r) ==
    /\ At(r, "waiting")
    /\ Goto(r, "idle")
    /\ UNCHANGED <<producer, in, parameters, gopCache, run, pkts, server, got>>

\* SETUP asks for no DESCRIBE before it.
Setup(r) ==
    /\ pc[r] \in {"idle", "described"}
    /\ registered
    /\ Goto(r, "setup")
    /\ UNCHANGED <<producer, in, parameters, gopCache, run, pkts, server, got>>

\* OnPlay: ReplayGOP copies the cache and writes it to the session until its queue is
\* full; nobody else sees that queue.
MutReplay(r) ==
    /\ \/ At(r, "setup") /\ Goto(r, "replayed") /\ UNCHANGED got
       \/ /\ At(r, "playing")
          /\ got' = [got EXCEPT ![r] = @ \o AtMost(SessionRoom, gopCache)]
          /\ UNCHANGED pc
    /\ UNCHANGED <<producer, in, parameters, gopCache, run, pkts, server>>

Replay(r) ==
    /\ At(r, "setup")
    /\ got' = [got EXCEPT ![r] =
                   IF registered THEN @ \o AtMost(SessionRoom, gopCache) ELSE @]
    /\ Goto(r, "replayed")
    /\ UNCHANGED <<producer, in, parameters, gopCache, run, pkts, server>>

\* gortsplib makes the session an active reader once OnPlay has returned.
Activate(r) ==
    /\ At(r, "replayed")
    /\ Goto(r, "playing")
    /\ UNCHANGED <<producer, in, parameters, gopCache, run, pkts, server, got>>

Teardown(r) ==
    /\ pc[r] \in {"described", "setup", "playing"}
    /\ Goto(r, "idle")
    /\ got' = [got EXCEPT ![r] = <<>>]
    /\ UNCHANGED <<producer, in, parameters, gopCache, run, pkts, server>>

Client(r) ==
    \/ Describe(r) \/ Described(r) \/ TimeOut(r)
    \/ Setup(r) \/ Replay(r) \/ Activate(r) \/ Teardown(r)

-----------------------------------------------------------------------------
\* AddSource has registered the source and started Run; nothing is known yet.
Init ==
    /\ pushed = 0
    /\ in = <<>>
    /\ closed = FALSE
    /\ ps = [sps |-> NoSet, pps |-> NoSet]
    /\ sdp = ps
    /\ ready = FALSE
    /\ gopCache = <<>>
    /\ run = "receive"
    /\ pkts = <<>>
    /\ registered = TRUE
    /\ canceled = FALSE
    /\ remover = "idle"
    /\ pc = [r \in Readers |-> "idle"]
    /\ got = [r \in Readers |-> <<>>]

Next ==
    \/ \E u \in Units : Push(u)
    \/ Close
    \/ Run \/ Canceled
    \/ RemoveSource
    \/ \E r \in Readers : Client(r)

Spec == Init /\ [][Next]_vars

\* Run, RemoveSource once called and the handlers keep going, the timer of a DESCRIBE
\* fires, and a select that is offered the canceled context again and again takes it.
Fairness ==
    /\ WF_vars(Run)
    /\ SF_vars(Canceled)
    /\ WF_vars(CancelRun) /\ WF_vars(CloseStream)
    /\ \A r \in Readers : WF_vars(TimeOut(r))
FairSpec == Spec /\ Fairness

-----------------------------------------------------------------------------
(* Properties *)

Packet == [unit: 1 .. MaxUnits, part: Nat, size: Nat, idr: BOOLEAN, sets: BOOLEAN]
TypeOK ==
    /\ pushed \in 0 .. MaxUnits
    /\ in \in Seq([id: 1 .. MaxUnits, unit: Units]) /\ Len(in) <= BufferSize
    /\ closed \in BOOLEAN /\ ready \in BOOLEAN
    /\ ps \in [sps: Nat, pps: Nat] /\ sdp \in [sps: Nat, pps: Nat]
    /\ gopCache \in Seq(Packet) /\ pkts \in Seq(Packet)
    /\ run \in {"receive", "cache", "write", "done"}
    /\ run \in {"cache", "write"} <=> pkts # <<>>
    /\ registered \in BOOLEAN /\ canceled \in BOOLEAN
    /\ remover \in {"idle", "cancel", "wait", "done"}
    /\ pc \in [Readers -> {"idle", "waiting", "described", "setup", "replayed",
                           "playing", "gone"}]
    /\ got \in [Readers -> Seq(Packet)]

\* "DESCRIBE waits via Ready until SPS, PPS, and the first IDR have all been observed":
\* a client that got a description got one with both parameter sets.
DescribedComplete == \A r \in Readers : At(r, "described") => Complete(sdp)

\* Once it may be shown, the description does not change, whatever the producer sends.
DescriptionFrozen == [][ready => sdp' = sdp]_vars

\* "The keyframe immediately": a client that plays while the source is between two
\* access units, at any point of a group of pictures, is first sent the start of a
\* keyframe that comes with its parameter sets.
PlayStartsAtKeyframe ==
    [][\A r \in Readers :
          At(r, "setup") /\ pc'[r] = "replayed" /\ registered /\ ready /\ run # "cache" =>
              /\ got'[r] # <<>>
              /\ Head(got'[r]).idr /\ Head(got'[r]).part = 1 /\ Head(got'[r]).sets]_vars

\* The replay and the live packets that follow it keep the order of the access units.
UnitsInOrder ==
    \A r \in Readers : \A i, j \in DOMAIN got[r] :
        i < j => got[r][i].unit <= got[r][j].unit

\* Between two access units the cache can bootstrap a decoder: it starts at a keyframe,
\* holds no second one and no part of a unit without the rest.
CacheDecodes ==
    /\ ready /\ run # "cache" => gopCache # <<>>
    /\ gopCache # <<>> => Head(gopCache).idr /\ Head(gopCache).sets
    /\ \A i \in DOMAIN gopCache :
           LET p == gopCache[i]
               whole == i + p.size - p.part
           IN /\ p.idr => p.unit = Head(gopCache).unit
              /\ whole \in DOMAIN gopCache
              /\ gopCache[whole].unit = p.unit /\ gopCache[whole].part = p.size

\* Every DESCRIBE is answered, even if the producer never delivers a keyframe or the
\* source is removed under it; and RemoveSource returns, however busy the producer is.
RequestsReturn ==
    /\ \A r \in Readers : At(r, "waiting") ~> ~At(r, "waiting")
    /\ remover # "idle" ~> remover = "done"
=============================================================================
