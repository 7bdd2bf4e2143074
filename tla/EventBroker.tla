---------------------------- MODULE EventBroker ------------------------------
(***************************************************************************)
(* The event broker of internal/event: pull-point and push subscriptions,  *)
(* their leases, queues and failure counters, and the Notify goroutines    *)
(* that outlive the call that started them.                                *)
(*                                                                         *)
(* Broker.mu serialises every method, so each is one action.  What is not  *)
(* under the mutex is the life of a Notify goroutine between Publish and   *)
(* recordNotifyResult: any number of them run at once and finish in any    *)
(* order, whatever has happened to their subscription meanwhile.           *)
(*                                                                         *)
(* The reaper may take its step at any time: before Start and after Stop   *)
(* it takes none.  When it runs is the subject of module Lifecycle.        *)
(***************************************************************************)
EXTENDS Integers, Sequences, FiniteSets

CONSTANTS
    SubIds,       \* subscription tokens newSubscriptionID can return
    Topics,       \* topic names, each a sequence of path segments
    Filters,      \* topic expressions a client may ask for, likewise
    Payloads,     \* message bodies
    RawConfigs,   \* BrokerConfig values before defaults are applied
    Lifetimes,    \* parsed lifetimes; 0 stands for an omitted one
    PullLimits,   \* MessageLimit values of PullMessages
    Malformed,    \* a lifetime that does not parse
    NoId,         \* "no subscription", in a reply that names none
    QueueDepth,                \* defaultQueueDepth
    DefaultMaxPullPoints,      \* of the same name
    DefaultFailureThreshold,   \* DefaultNotifyFailureThreshold
    DefaultTimeout,            \* DefaultSubscriptionTimeout
    MaxClock,     \* bound: the clock stops here
    MaxNotifies   \* bound: Notify goroutines per subscription

RawConfig == [maxPull: Int, maxPush: Int, threshold: Int, timeout: Int,
              enabled: SUBSET Topics]

ASSUME BrokerAssumption ==
    /\ IsFiniteSet(SubIds)
    /\ NoId \notin SubIds
    /\ Malformed \notin Int
    /\ Topics \subseteq Seq(STRING)
    /\ Filters \subseteq Seq(STRING)
    /\ RawConfigs \subseteq RawConfig
    /\ Lifetimes \subseteq Int
    /\ PullLimits \subseteq Int
    /\ QueueDepth \in Nat \ {0}
    /\ DefaultMaxPullPoints \in Nat \ {0}
    /\ DefaultFailureThreshold \in Nat \ {0}
    /\ DefaultTimeout \in Nat \ {0}
    /\ MaxClock \in Nat
    /\ MaxNotifies \in Nat

VARIABLES
    clock,      \* wall time, in units of the shortest step the broker can tell
    cfg,        \* Broker.cfg, defaults applied
    status,     \* whether a token is unissued, a key of Broker.subs, or deleted
    sub,        \* sub[id]: the subscription the map holds for id
    notifies,   \* notifies[id]: the Notify goroutines of id, in publication order
    reply       \* what the last step answered its caller

vars == <<clock, cfg, status, sub, notifies, reply>>
brokerVars == <<cfg, notifies>>

-----------------------------------------------------------------------------
(* Data *)

Message == [topic: Topics, payload: Payloads]

Subscription ==
    [kind: {"pull", "push"}, filter: Filters \cup {<<>>}, terminationTime: Int,
     queue: Seq(Message), notifyFailures: Nat]

Config == [maxPull: Nat \ {0}, maxPush: Int, threshold: Nat \ {0},
           timeout: Nat \ {0}, enabled: SUBSET Topics]

NewSub(k, filter, termination) ==
    [kind |-> k, filter |-> filter, terminationTime |-> termination,
     queue |-> <<>>, notifyFailures |-> 0]

\* A token that is not a key of the map has no subscription behind it.
Blank == NewSub("pull", <<>>, 0)

Operations == {"CreatePullPointSubscription", "Subscribe", "PullMessages",
               "SetSynchronizationPoint", "Renew", "Unsubscribe", "none"}
Results == {"ok", "limit", "malformed", "invalid", "disabled", "notfound", "none"}
Reply == [op: Operations, id: SubIds \cup {NoId}, result: Results, msgs: Seq(Message)]

Answer(op, id, result) == [op |-> op, id |-> id, result |-> result, msgs |-> <<>>]
NoReply == Answer("none", NoId, "none")

OrDefault(n, default) == IF n <= 0 THEN default ELSE n

\* New and UpdateConfig replace every non-positive number but maxPush.
WithDefaults(raw) ==
    [raw EXCEPT !.maxPull = OrDefault(@, DefaultMaxPullPoints),
                !.threshold = OrDefault(@, DefaultFailureThreshold),
                !.timeout = OrDefault(@, DefaultTimeout)]

-----------------------------------------------------------------------------
(* The map of subscriptions *)

Stored == {id \in SubIds : status[id] = "stored"}

\* time.Now().After(terminationTime): a lease includes its last instant.
ExpiredSubs == {id \in Stored : clock > sub[id].terminationTime}
Live == Stored \ ExpiredSubs

OfKind(S, k) == {id \in S : sub[id].kind = k}

\* delete(b.subs, id) for every id of S.
StatusWithout(S) == [id \in SubIds |-> IF id \in S THEN "deleted" ELSE status[id]]
SubWithout(S) == [id \in SubIds |-> IF id \in S THEN Blank ELSE sub[id]]

Delete(S) ==
    /\ status' = StatusWithout(S)
    /\ sub' = SubWithout(S)

\* reapLocked, as the reaper's tick runs it, and as both create operations run
\* it before they count.  (Names beginning with Mut are the mutated forms that
\* PROJECT.json puts in place of the definition they precede.)
MutReapedOnTickEarly == {id \in Stored : clock >= sub[id].terminationTime}
ReapedOnTick == ExpiredSubs

MutReapedOnCreateNothing == {}
ReapedOnCreate == ExpiredSubs

\* A filter accepts the topics below it in the topic tree; the empty one all.
MatchesTopic(filter, topic) ==
    /\ Len(filter) <= Len(topic)
    /\ filter = SubSeq(topic, 1, Len(filter))

\* A full queue drops its oldest message.
Enqueue(q, m) == Append(IF Len(q) >= QueueDepth THEN Tail(q) ELSE q, m)

\* drain(limit): how many messages a pull takes; zero asks for all of them.
DrainCount(q, limit) == IF limit > 0 /\ limit < Len(q) THEN limit ELSE Len(q)

\* The lifetime a create or a renew grants: zero and less mean the default.
Granted(req) == OrDefault(req, cfg.timeout)
Requests == Lifetimes \cup {Malformed}

-----------------------------------------------------------------------------
(* Creating subscriptions *)

Limit(k) == IF k = "pull" THEN cfg.maxPull ELSE cfg.maxPush

MutHasRoomOffByOne(S, k) == Cardinality(OfKind(S, k)) <= Limit(k)
HasRoom(S, k) == Cardinality(OfKind(S, k)) < Limit(k)

\* reapLocked, then the limit, then the requested lifetime, then the new entry.
Admit(op, k, filter, req) ==
    LET remaining == Stored \ ReapedOnCreate IN
    /\ \/ /\ ~HasRoom(remaining, k)
          /\ Delete(ReapedOnCreate)
          /\ reply' = Answer(op, NoId, "limit")
       \/ /\ HasRoom(remaining, k)
          /\ req = Malformed
          /\ Delete(ReapedOnCreate)
          /\ reply' = Answer(op, NoId, "malformed")
       \/ /\ HasRoom(remaining, k)
          /\ req # Malformed
          /\ \E id \in SubIds :
                /\ status[id] = "unissued"
                /\ status' = [StatusWithout(ReapedOnCreate) EXCEPT ![id] = "stored"]
                /\ sub' = [SubWithout(ReapedOnCreate) EXCEPT
                              ![id] = NewSub(k, filter, clock + Granted(req))]
                /\ reply' = Answer(op, id, "ok")
    /\ UNCHANGED <<clock, brokerVars>>

CreatePullPointSubscription(filter, req) ==
    Admit("CreatePullPointSubscription", "pull", filter, req)

\* A consumer address that does not validate never reaches the mutex; with the
\* push interface disabled not even the reap happens.
Subscribe(filter, req, validConsumer) ==
    \/ /\ ~validConsumer
       /\ reply' = Answer("Subscribe", NoId, "invalid")
       /\ UNCHANGED <<clock, status, sub, brokerVars>>
    \/ /\ validConsumer
       /\ cfg.maxPush <= 0
       /\ reply' = Answer("Subscribe", NoId, "disabled")
       /\ UNCHANGED <<clock, status, sub, brokerVars>>
    \/ /\ validConsumer
       /\ cfg.maxPush > 0
       /\ Admit("Subscribe", "push", filter, req)

-----------------------------------------------------------------------------
(* The subscription manager's operations *)

\* requireSub: a stored subscription whose lease has not run out.
MutFoundWhileStored(id) == id \in Stored
Found(id) == id \in Live

\* requireSub on a token that is unknown or has run out; the latter is deleted.
NotFound(op, id) ==
    /\ ~Found(id)
    /\ Delete({id} \cap Stored)
    /\ reply' = Answer(op, id, "notfound")
    /\ UNCHANGED <<clock, brokerVars>>

PullMessages(id, limit) ==
    \/ /\ limit < 0
       /\ reply' = Answer("PullMessages", id, "invalid")
       /\ UNCHANGED <<clock, status, sub, brokerVars>>
    \/ /\ limit >= 0
       /\ NotFound("PullMessages", id)
    \/ /\ limit >= 0
       /\ Found(id)
       /\ LET q == sub[id].queue
              n == DrainCount(q, limit)
          IN  /\ sub' = [sub EXCEPT ![id].queue = SubSeq(q, n + 1, Len(q))]
              /\ reply' = [Answer("PullMessages", id, "ok") EXCEPT
                             !.msgs = SubSeq(q, 1, n)]
       /\ UNCHANGED <<clock, status, brokerVars>>

SetSynchronizationPoint(id) ==
    \/ NotFound("SetSynchronizationPoint", id)
    \/ /\ Found(id)
       /\ reply' = Answer("SetSynchronizationPoint", id, "ok")
       /\ UNCHANGED <<clock, status, sub, brokerVars>>

\* The failure count survives a renewal.
MutRenewedAfresh(s, termination) ==
    [s EXCEPT !.terminationTime = termination, !.notifyFailures = 0]
Renewed(s, termination) == [s EXCEPT !.terminationTime = termination]

Renew(id, req) ==
    \/ NotFound("Renew", id)
    \/ /\ Found(id)
       /\ req = Malformed
       /\ reply' = Answer("Renew", id, "malformed")
       /\ UNCHANGED <<clock, status, sub, brokerVars>>
    \/ /\ Found(id)
       /\ req # Malformed
       /\ sub' = [sub EXCEPT ![id] = Renewed(sub[id], clock + Granted(req))]
       /\ reply' = Answer("Renew", id, "ok")
       /\ UNCHANGED <<clock, status, brokerVars>>

Unsubscribe(id) ==
    \/ NotFound("Unsubscribe", id)
    \/ /\ Found(id)
       /\ Delete({id})
       /\ reply' = Answer("Unsubscribe", id, "ok")
       /\ UNCHANGED <<clock, brokerVars>>

-----------------------------------------------------------------------------
(* Publishing, and the Notify goroutines *)

\* Nothing is published on a topic the configuration does not enable.
Recipients(topic) ==
    IF topic \in cfg.enabled
    THEN {id \in Live : MatchesTopic(sub[id].filter, topic)}
    ELSE {}

\* A pull point queues the message; for a push subscription a goroutine starts.
Publish(m) ==
    LET pulls == OfKind(Recipients(m.topic), "pull")
        pushes == OfKind(Recipients(m.topic), "push")
    IN  /\ \A id \in pushes : Len(notifies[id]) < MaxNotifies
        /\ sub' = [id \in SubIds |->
                      IF id \in pulls
                      THEN [sub[id] EXCEPT !.queue = Enqueue(sub[id].queue, m)]
                      ELSE sub[id]]
        /\ notifies' = [id \in SubIds |->
                           IF id \in pushes
                           THEN Append(notifies[id], "posting")
                           ELSE notifies[id]]
        /\ reply' = NoReply
        /\ UNCHANGED <<clock, cfg, status>>

\* A failure counts; the one that reaches the threshold ends the lease, in the
\* past, and leaves the entry to the next reap.
AfterFailure(s) ==
    LET n == s.notifyFailures + 1 IN
    [s EXCEPT !.notifyFailures = n,
              !.terminationTime = IF n >= cfg.threshold THEN clock - 1 ELSE @]
AfterSuccess(s) == [s EXCEPT !.notifyFailures = 0]

\* The i-th goroutine of id learns what became of its POST and records it, by
\* token: the subscription may have ended or been deleted in the meantime.
RecordNotifyResult(id, i, success) ==
    /\ i \in DOMAIN notifies[id]
    /\ notifies[id][i] = "posting"
    /\ notifies' = [notifies EXCEPT ![id][i] = IF success THEN "ok" ELSE "failed"]
    /\ sub' = [sub EXCEPT ![id] = IF id \notin Stored THEN @
                                   ELSE IF success THEN AfterSuccess(@)
                                   ELSE AfterFailure(@)]
    /\ reply' = NoReply
    /\ UNCHANGED <<clock, cfg, status>>

-----------------------------------------------------------------------------
(* Configuration, the reaper, time *)

UpdateConfig(raw) ==
    /\ cfg' = WithDefaults(raw)
    /\ reply' = NoReply
    /\ UNCHANGED <<clock, status, sub, notifies>>

\* One tick of reapLoop that finds something to delete.
ReapTick ==
    /\ ReapedOnTick # {}
    /\ Delete(ReapedOnTick)
    /\ reply' = NoReply
    /\ UNCHANGED <<clock, brokerVars>>

Tick ==
    /\ clock < MaxClock
    /\ clock' = clock + 1
    /\ reply' = NoReply
    /\ UNCHANGED <<status, sub, brokerVars>>

-----------------------------------------------------------------------------
Init ==
    /\ clock = 0
    /\ cfg \in {WithDefaults(raw) : raw \in RawConfigs}
    /\ status = [id \in SubIds |-> "unissued"]
    /\ sub = [id \in SubIds |-> Blank]
    /\ notifies = [id \in SubIds |-> <<>>]
    /\ reply = NoReply

Client ==
    \/ \E f \in Filters, req \in Requests :
          \/ CreatePullPointSubscription(f, req)
          \/ \E valid \in BOOLEAN : Subscribe(f, req, valid)
    \/ \E id \in SubIds :
          \/ \E limit \in PullLimits : PullMessages(id, limit)
          \/ SetSynchronizationPoint(id)
          \/ \E req \in Requests : Renew(id, req)
          \/ Unsubscribe(id)

Simulator ==
    \/ \E m \in Message : Publish(m)
    \/ \E raw \in RawConfigs : UpdateConfig(raw)

Background ==
    \/ \E id \in SubIds : \E i \in 1 .. MaxNotifies, success \in BOOLEAN :
          RecordNotifyResult(id, i, success)
    \/ ReapTick
    \/ Tick

Next == Client \/ Simulator \/ Background

Spec == Init /\ [][Next]_vars

-----------------------------------------------------------------------------
(* Properties *)

TypeOK ==
    /\ clock \in Nat
    /\ cfg \in Config
    /\ status \in [SubIds -> {"unissued", "stored", "deleted"}]
    /\ sub \in [SubIds -> Subscription]
    /\ notifies \in [SubIds -> Seq({"posting", "ok", "failed"})]
    /\ reply \in Reply

\* A create or subscribe that succeeds leaves at most the configured number of
\* subscriptions of its kind in the map, whatever UpdateConfig did before and
\* however many expired entries the reaper has yet to delete.
PoolWithinLimit ==
    [][\A id \in SubIds, k \in {"pull", "push"} :
          status[id] = "unissued" /\ status'[id] = "stored" /\ sub'[id].kind = k
             => Cardinality(OfKind(Stored, k)') <= Limit(k)]_vars

\* A client is turned away for lack of room only while that many subscriptions
\* of the kind are really alive: expired entries awaiting the reaper (which may
\* be dead) never use up the pool.
KindOf(op) == IF op = "Subscribe" THEN "push" ELSE "pull"
RefusedOnlyWhenFull ==
    [][reply'.result = "limit"
          => Cardinality(OfKind(Live, KindOf(reply'.op))) >= Limit(KindOf(reply'.op))]_vars

\* A lease granted by a create or a renew is kept until the clock passes it,
\* the client unsubscribes, or, for a push subscription, at least the threshold
\* of its Notify posts have failed.  Reaps, failed renewals, configuration
\* changes and late results of other subscriptions never cut it short.
Failed(id) == {i \in DOMAIN notifies[id] : notifies[id][i] = "failed"}
Acknowledged(id) == {i \in DOMAIN notifies[id] : notifies[id][i] = "ok"}
LeaseHonoured ==
    [][\A id \in Live :
          \/ id \in Live'
          \/ clock' > sub[id].terminationTime
          \/ reply' = Answer("Unsubscribe", id, "ok")
          \/ /\ sub[id].kind = "push"
             /\ Cardinality(Failed(id)') >= cfg.threshold]_vars

\* A push consumer that never acknowledges a Notify is given up: as long as its
\* subscription is alive the failures recorded for it stay below a threshold the
\* simulator was configured with, no matter how it renews and in which order the
\* results arrive.
UnreachableConsumerGivenUp ==
    \A id \in Live :
       sub[id].kind = "push" /\ Acknowledged(id) = {}
          => \E raw \in RawConfigs :
                Cardinality(Failed(id)) < WithDefaults(raw).threshold

\* Why it is so: the counter of a stored subscription never exceeds the failures
\* recorded for it, equals them until a first acknowledgement, and cannot reach
\* every configured threshold while the lease runs.  Only push subscriptions that
\* were stored have Notify goroutines.
FailureAccounting ==
    /\ \E raw \in RawConfigs : cfg = WithDefaults(raw)
    /\ \A id \in SubIds : status[id] = "unissued" => notifies[id] = <<>>
    /\ \A id \in Stored :
          /\ notifies[id] # <<>> => sub[id].kind = "push"
          /\ sub[id].notifyFailures <= Cardinality(Failed(id))
          /\ Acknowledged(id) = {} => sub[id].notifyFailures = Cardinality(Failed(id))
          /\ (\A raw \in RawConfigs : sub[id].notifyFailures >= WithDefaults(raw).threshold)
                => id \in ExpiredSubs

\* Seen from a client the broker is the subscription service: a subscription
\* whose lease has run out is over although the map still holds it.
Service == INSTANCE SubscriptionService WITH
    Depth <- QueueDepth,
    phase <- [id \in SubIds |-> IF status[id] = "unissued" THEN "unborn"
                                ELSE IF id \in Live THEN "active" ELSE "ended"],
    interest <- [id \in SubIds |->
                   IF id \in Live /\ sub[id].kind = "pull"
                   THEN {t \in Topics : MatchesTopic(sub[id].filter, t)} ELSE {}],
    box <- [id \in SubIds |-> IF id \in Live THEN sub[id].queue ELSE <<>>],
    delivered <- reply.msgs

\* Every event reaches exactly the live pull points whose filter accepts it, in
\* order, losing only the oldest of a full queue; every pull takes from the old
\* end; no subscription that has expired or been deleted is ever alive again.
ImplementsService == Service!Spec
=============================================================================
