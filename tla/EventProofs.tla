----------------------------- MODULE EventProofs -----------------------------
(***************************************************************************)
(* Events: proofs about EventBroker, for every set of tokens, topics,      *)
(* filters, configurations and lifetimes, every queue depth and default,   *)
(* and about EventTriggers, for any number of callers, editors and Starts  *)
(* and every size of the ring.                                             *)
(*                                                                         *)
(* The two meet only in what a trigger publishes, so no definition of one  *)
(* is used in the part about the other.                                    *)
(***************************************************************************)
EXTENDS EventBroker, EventTriggers, FiniteSetTheorems, SequenceTheorems, TLAPS

-----------------------------------------------------------------------------
(* The broker: EventBroker *)

-----------------------------------------------------------------------------
(* What the helpers return *)

\* Defaults leave no non-positive number but maxPush.
LEMMA WithDefaultsType ==
    ASSUME NEW raw \in RawConfigs
    PROVE  WithDefaults(raw) \in Config
  <1>1. raw \in RawConfig
    BY BrokerAssumption
  <1>2. \A n \in Int : /\ OrDefault(n, DefaultMaxPullPoints) \in Nat \ {0}
                       /\ OrDefault(n, DefaultFailureThreshold) \in Nat \ {0}
                       /\ OrDefault(n, DefaultTimeout) \in Nat \ {0}
    BY BrokerAssumption DEF OrDefault
  <1>3. QED
    BY <1>1, <1>2 DEF WithDefaults, RawConfig, Config

\* A granted lifetime is a positive number of time units.
LEMMA GrantedType ==
    ASSUME TypeOK, NEW req \in Requests, req # Malformed
    PROVE  Granted(req) \in Nat \ {0}
  <1>1. req \in Int
    BY BrokerAssumption DEF Requests
  <1>2. cfg.timeout \in Nat \ {0}
    BY DEF TypeOK, Config
  <1>3. QED
    BY <1>1, <1>2 DEF Granted, OrDefault

\* A subscription as it is created is one.
LEMMA NewSubType ==
    ASSUME NEW k \in {"pull", "push"}, NEW f \in Filters \cup {<<>>}, NEW t \in Int
    PROVE  NewSub(k, f, t) \in Subscription
  BY DEF NewSub, Subscription

\* So is the blank one.
LEMMA BlankType == Blank \in Subscription
  BY NewSubType DEF Blank

\* A queue holds messages, and enqueueing keeps it so.
LEMMA EnqueueType ==
    ASSUME NEW q \in Seq(Message), NEW m \in Message
    PROVE  Enqueue(q, m) \in Seq(Message)
  <1>1. CASE Len(q) >= QueueDepth
    <2>1. q # <<>>
      BY <1>1, BrokerAssumption
    <2>2. Tail(q) \in Seq(Message)
      BY <2>1
    <2>3. QED
      BY <1>1, <2>2 DEF Enqueue
  <1>2. CASE ~(Len(q) >= QueueDepth)
    BY <1>2 DEF Enqueue
  <1>3. QED
    BY <1>1, <1>2

\* What a pull takes is a prefix of the queue, and what it leaves is the rest.
LEMMA DrainType ==
    ASSUME NEW q \in Seq(Message), NEW limit \in Int, limit >= 0
    PROVE  /\ DrainCount(q, limit) \in 0 .. Len(q)
           /\ SubSeq(q, 1, DrainCount(q, limit)) \in Seq(Message)
           /\ SubSeq(q, DrainCount(q, limit) + 1, Len(q)) \in Seq(Message)
  <1>1. DrainCount(q, limit) \in 0 .. Len(q)
    BY DEF DrainCount
  <1>2. QED
    BY <1>1, SubSeqProperties

\* Deleting entries keeps the map well typed.
LEMMA DeleteType ==
    ASSUME TypeOK, NEW S
    PROVE  /\ StatusWithout(S) \in [SubIds -> {"unissued", "stored", "deleted"}]
           /\ SubWithout(S) \in [SubIds -> Subscription]
  BY BlankType DEF TypeOK, StatusWithout, SubWithout

\* An answer is a reply, with messages too.
LEMMA AnswerType ==
    ASSUME NEW op \in Operations, NEW id \in SubIds \cup {NoId}, NEW r \in Results
    PROVE  /\ Answer(op, id, r) \in Reply
           /\ \A ms \in Seq(Message) : [Answer(op, id, r) EXCEPT !.msgs = ms] \in Reply
  BY DEF Answer, Reply, Operations, Results

\* So is the answer nobody has got yet.
LEMMA NoReplyType == NoReply \in Reply
  BY AnswerType DEF NoReply, Operations, Results

-----------------------------------------------------------------------------
(* Type correctness, one lemma per group of actions *)

LEMMA TypeOKAdmit ==
    ASSUME TypeOK, NEW op \in Operations, NEW k \in {"pull", "push"},
           NEW f \in Filters, NEW req \in Requests, Admit(op, k, f, req)
    PROVE  TypeOK'
  <1>1. UNCHANGED <<clock, cfg, notifies>>
    BY DEF Admit, brokerVars
  <1>2. CASE Delete(ReapedOnCreate) /\ \E r \in {"limit", "malformed"} :
                                          reply' = Answer(op, NoId, r)
    BY <1>1, <1>2, DeleteType, AnswerType DEF Delete, TypeOK, Operations, Results
  <1>3. CASE req # Malformed /\ \E id \in SubIds :
                /\ status' = [StatusWithout(ReapedOnCreate) EXCEPT ![id] = "stored"]
                /\ sub' = [SubWithout(ReapedOnCreate) EXCEPT
                              ![id] = NewSub(k, f, clock + Granted(req))]
                /\ reply' = Answer(op, id, "ok")
    <2>1. PICK id \in SubIds :
                /\ status' = [StatusWithout(ReapedOnCreate) EXCEPT ![id] = "stored"]
                /\ sub' = [SubWithout(ReapedOnCreate) EXCEPT
                              ![id] = NewSub(k, f, clock + Granted(req))]
                /\ reply' = Answer(op, id, "ok")
      BY <1>3
    <2>2. clock + Granted(req) \in Int
      BY <1>3, GrantedType DEF TypeOK
    <2>3. NewSub(k, f, clock + Granted(req)) \in Subscription
      BY <2>2, NewSubType
    <2>4. reply' \in Reply
      BY <2>1, AnswerType DEF Operations, Results
    <2>5. QED
      BY <1>1, <2>1, <2>3, <2>4, DeleteType DEF TypeOK
  <1>4. QED
    BY <1>2, <1>3 DEF Admit

\* A refusal for want of the subscription keeps the types.
LEMMA TypeOKNotFound ==
    ASSUME TypeOK, NEW op \in Operations, NEW id \in SubIds, NotFound(op, id)
    PROVE  TypeOK'
  BY DeleteType, AnswerType DEF NotFound, Delete, TypeOK, brokerVars, Operations, Results

\* The clients' operations keep them.
LEMMA TypeOKClient ==
    ASSUME TypeOK, Client
    PROVE  TypeOK'
  <1>1. ASSUME NEW f \in Filters, NEW req \in Requests,
               CreatePullPointSubscription(f, req)
        PROVE  TypeOK'
    BY <1>1, TypeOKAdmit DEF CreatePullPointSubscription, Operations
  <1>2. ASSUME NEW f \in Filters, NEW req \in Requests, NEW valid \in BOOLEAN,
               Subscribe(f, req, valid)
        PROVE  TypeOK'
    <2>1. CASE Admit("Subscribe", "push", f, req)
      BY <2>1, TypeOKAdmit DEF Operations
    <2>2. CASE /\ \E r \in {"invalid", "disabled"} : reply' = Answer("Subscribe", NoId, r)
               /\ UNCHANGED <<clock, status, sub, brokerVars>>
      BY <2>2, AnswerType DEF TypeOK, brokerVars, Operations, Results
    <2>3. QED
      BY <1>2, <2>1, <2>2 DEF Subscribe
  <1>3. ASSUME NEW id \in SubIds, NEW limit \in PullLimits, PullMessages(id, limit)
        PROVE  TypeOK'
    <2>1. limit \in Int
      BY BrokerAssumption
    <2>2. CASE NotFound("PullMessages", id)
      BY <2>2, TypeOKNotFound DEF Operations
    <2>3. CASE /\ reply' = Answer("PullMessages", id, "invalid")
               /\ UNCHANGED <<clock, status, sub, brokerVars>>
      BY <2>3, AnswerType DEF TypeOK, brokerVars, Operations, Results
    <2>4. ASSUME limit >= 0,
                 NEW q, q = sub[id].queue, NEW n, n = DrainCount(q, limit),
                 sub' = [sub EXCEPT ![id].queue = SubSeq(q, n + 1, Len(q))],
                 reply' = [Answer("PullMessages", id, "ok") EXCEPT !.msgs = SubSeq(q, 1, n)],
                 UNCHANGED <<clock, status, brokerVars>>
          PROVE  TypeOK'
      <3>1. q \in Seq(Message)
        BY <2>4 DEF TypeOK, Subscription
      <3>2. /\ SubSeq(q, 1, n) \in Seq(Message)
            /\ SubSeq(q, n + 1, Len(q)) \in Seq(Message)
        BY <2>1, <2>4, <3>1, DrainType
      <3>3. reply' \in Reply
        BY <2>4, <3>2, AnswerType DEF Operations, Results
      <3>4. sub[id] \in Subscription /\ sub \in [SubIds -> Subscription]
        BY <2>4 DEF TypeOK
      <3> DEFINE left == [sub[id] EXCEPT !.queue = SubSeq(q, n + 1, Len(q))]
      <3>5. left \in Subscription
        BY <3>2, <3>4 DEF Subscription
      <3>6. sub' = [sub EXCEPT ![id] = left]
        BY <2>4
      <3> HIDE DEF left
      <3>7. sub' \in [SubIds -> Subscription]
        BY <3>4, <3>5, <3>6
      <3>8. QED
        BY <2>4, <3>3, <3>7 DEF TypeOK, brokerVars
    <2>5. QED
      BY <1>3, <2>2, <2>3, <2>4 DEF PullMessages
  <1>4. ASSUME NEW id \in SubIds, SetSynchronizationPoint(id)
        PROVE  TypeOK'
    BY <1>4, TypeOKNotFound, AnswerType
    DEF SetSynchronizationPoint, TypeOK, brokerVars, Operations, Results
  <1>5. ASSUME NEW id \in SubIds, NEW req \in Requests, Renew(id, req)
        PROVE  TypeOK'
    <2>1. CASE NotFound("Renew", id)
      BY <2>1, TypeOKNotFound DEF Operations
    <2>2. CASE /\ reply' = Answer("Renew", id, "malformed")
               /\ UNCHANGED <<clock, status, sub, brokerVars>>
      BY <2>2, AnswerType DEF TypeOK, brokerVars, Operations, Results
    <2>3. CASE /\ req # Malformed
               /\ sub' = [sub EXCEPT ![id] = Renewed(sub[id], clock + Granted(req))]
               /\ reply' = Answer("Renew", id, "ok")
               /\ UNCHANGED <<clock, status, brokerVars>>
      <3>1. clock + Granted(req) \in Int
        BY <2>3, GrantedType DEF TypeOK
      <3>2. Renewed(sub[id], clock + Granted(req)) \in Subscription
        BY <3>1 DEF TypeOK, Subscription, Renewed
      <3>3. reply' \in Reply
        BY <2>3, AnswerType DEF Operations, Results
      <3>4. QED
        BY <2>3, <3>2, <3>3 DEF TypeOK, brokerVars
    <2>4. QED
      BY <1>5, <2>1, <2>2, <2>3 DEF Renew
  <1>6. ASSUME NEW id \in SubIds, Unsubscribe(id)
        PROVE  TypeOK'
    BY <1>6, TypeOKNotFound, DeleteType, AnswerType
    DEF Unsubscribe, Delete, TypeOK, brokerVars, Operations, Results
  <1>7. QED
    BY <1>1, <1>2, <1>3, <1>4, <1>5, <1>6 DEF Client

\* What the simulator does keeps them.
LEMMA TypeOKSimulator ==
    ASSUME TypeOK, Simulator
    PROVE  TypeOK'
  <1>1. ASSUME NEW m \in Message, Publish(m)
        PROVE  TypeOK'
    <2>1. \A id \in SubIds :
             [sub[id] EXCEPT !.queue = Enqueue(sub[id].queue, m)] \in Subscription
      BY EnqueueType DEF TypeOK, Subscription
    <2>2. sub' \in [SubIds -> Subscription]
      BY <1>1, <2>1 DEF Publish, TypeOK
    <2>3. notifies' \in [SubIds -> Seq({"posting", "ok", "failed"})]
      BY <1>1 DEF Publish, TypeOK
    <2>4. QED
      BY <1>1, <2>2, <2>3, NoReplyType DEF Publish, TypeOK
  <1>2. ASSUME NEW raw \in RawConfigs, UpdateConfig(raw)
        PROVE  TypeOK'
    BY <1>2, WithDefaultsType, NoReplyType DEF UpdateConfig, TypeOK
  <1>3. QED
    BY <1>1, <1>2 DEF Simulator

\* The clock and the reaper keep them.
LEMMA TypeOKBackground ==
    ASSUME TypeOK, Background
    PROVE  TypeOK'
  <1>1. ASSUME NEW id \in SubIds, NEW i \in 1 .. MaxNotifies, NEW success \in BOOLEAN,
               RecordNotifyResult(id, i, success)
        PROVE  TypeOK'
    <2>1. /\ AfterSuccess(sub[id]) \in Subscription
          /\ AfterFailure(sub[id]) \in Subscription
      <3>1. /\ sub[id] \in Subscription
            /\ clock - 1 \in Int
        BY DEF TypeOK
      <3>2. AfterSuccess(sub[id]) \in Subscription
        BY <3>1 DEF Subscription, AfterSuccess
      <3>3. \A t \in Int, n \in Nat :
               [sub[id] EXCEPT !.notifyFailures = n, !.terminationTime = t] \in Subscription
        BY <3>1 DEF Subscription
      <3>4. /\ sub[id].notifyFailures + 1 \in Nat
            /\ sub[id].terminationTime \in Int
        BY <3>1 DEF Subscription
      <3>5. AfterFailure(sub[id]) \in Subscription
        BY <3>1, <3>3, <3>4 DEF AfterFailure
      <3>6. QED
        BY <3>2, <3>5
    <2>2. sub' \in [SubIds -> Subscription]
      BY <1>1, <2>1 DEF RecordNotifyResult, TypeOK
    <2>3. notifies' \in [SubIds -> Seq({"posting", "ok", "failed"})]
      BY <1>1 DEF RecordNotifyResult, TypeOK
    <2>4. QED
      BY <1>1, <2>2, <2>3, NoReplyType DEF RecordNotifyResult, TypeOK
  <1>2. ASSUME ReapTick
        PROVE  TypeOK'
    BY <1>2, DeleteType, NoReplyType DEF ReapTick, Delete, TypeOK, brokerVars
  <1>3. ASSUME Tick
        PROVE  TypeOK'
    BY <1>3, NoReplyType DEF Tick, TypeOK, brokerVars
  <1>4. QED
    BY <1>1, <1>2, <1>3 DEF Background

\* Every reachable state of the broker is well typed; in particular defaults have
\* been applied to every limit in force, and no queue holds anything but messages.
THEOREM TypeCorrect == Spec => []TypeOK
  <1>1. Init => TypeOK
    BY WithDefaultsType, BlankType, NoReplyType DEF Init, TypeOK
  <1>2. TypeOK /\ [Next]_vars => TypeOK'
    <2>1. ASSUME TypeOK, UNCHANGED vars
          PROVE  TypeOK'
      BY <2>1 DEF vars, TypeOK
    <2>2. QED
      BY <2>1, TypeOKClient, TypeOKSimulator, TypeOKBackground DEF Next
  <1>3. QED
    BY <1>1, <1>2, PTL DEF Spec

-----------------------------------------------------------------------------
(* An unreachable consumer is given up *)

\* The results recorded for a subscription are finitely many, and a result that
\* arrives adds itself and changes no other.
LEMMA FailedFinite ==
    ASSUME TypeOK, NEW id \in SubIds
    PROVE  /\ IsFiniteSet(Failed(id))
           /\ Cardinality(Failed(id)) \in Nat
  <1>1. DOMAIN notifies[id] = 1 .. Len(notifies[id]) /\ Len(notifies[id]) \in Nat
    BY DEF TypeOK
  <1>2. IsFiniteSet(1 .. Len(notifies[id]))
    BY <1>1, FS_Interval
  <1>3. IsFiniteSet(Failed(id))
    BY <1>1, <1>2, FS_Subset DEF Failed
  <1>4. QED
    BY <1>3, FS_CardinalityType

\* A result adds one post to those acknowledged or to those failed.
LEMMA RecordedResult ==
    ASSUME TypeOK, NEW id \in SubIds, NEW i \in 1 .. MaxNotifies, NEW success \in BOOLEAN,
           RecordNotifyResult(id, i, success)
    PROVE  /\ success => i \in Acknowledged(id)' /\ Failed(id)' = Failed(id)
           /\ ~success => /\ Acknowledged(id)' = Acknowledged(id)
                          /\ Failed(id)' = Failed(id) \cup {i}
                          /\ Cardinality(Failed(id)') = Cardinality(Failed(id)) + 1
  <1>1. /\ i \in DOMAIN notifies[id]
        /\ notifies[id][i] = "posting"
        /\ notifies' = [notifies EXCEPT ![id][i] = IF success THEN "ok" ELSE "failed"]
    BY DEF RecordNotifyResult
  <1>2. /\ notifies[id] \in Seq({"posting", "ok", "failed"})
        /\ notifies \in [SubIds -> Seq({"posting", "ok", "failed"})]
    BY DEF TypeOK
  <1>3. /\ DOMAIN notifies'[id] = DOMAIN notifies[id]
        /\ \A j \in DOMAIN notifies[id] :
              notifies'[id][j] = IF j = i THEN (IF success THEN "ok" ELSE "failed")
                                          ELSE notifies[id][j]
    BY <1>1, <1>2
  <1>4. success => i \in Acknowledged(id)' /\ Failed(id)' = Failed(id)
    BY <1>1, <1>3 DEF Acknowledged, Failed
  <1>5. ~success => /\ Acknowledged(id)' = Acknowledged(id)
                    /\ Failed(id)' = Failed(id) \cup {i}
    BY <1>1, <1>3 DEF Acknowledged, Failed
  <1>6. i \notin Failed(id)
    BY <1>1 DEF Failed
  <1>7. Cardinality(Failed(id) \cup {i}) = Cardinality(Failed(id)) + 1
    BY <1>6, FailedFinite, FS_AddElement
  <1>8. QED
    BY <1>4, <1>5, <1>7

\* A publication adds goroutines that have not finished.
LEMMA PublishedPosts ==
    ASSUME TypeOK, NEW m \in Message, Publish(m), NEW id \in SubIds
    PROVE  /\ Failed(id)' = Failed(id)
           /\ Acknowledged(id)' = Acknowledged(id)
  <1>1. \/ notifies'[id] = notifies[id]
        \/ notifies'[id] = Append(notifies[id], "posting")
    BY DEF Publish
  <1>2. notifies[id] \in Seq({"posting", "ok", "failed"})
    BY DEF TypeOK
  <1>3. CASE notifies'[id] = Append(notifies[id], "posting")
    <2>1. /\ DOMAIN notifies[id] = 1 .. Len(notifies[id])
          /\ DOMAIN notifies'[id] = 1 .. Len(notifies[id]) + 1
          /\ Len(notifies[id]) \in Nat
          /\ \A j \in 1 .. Len(notifies[id]) : notifies'[id][j] = notifies[id][j]
          /\ notifies'[id][Len(notifies[id]) + 1] = "posting"
      BY <1>2, <1>3
    <2>2. QED
      BY <2>1 DEF Failed, Acknowledged
  <1>4. QED
    BY <1>1, <1>3 DEF Failed, Acknowledged

\* What every configuration in force demands of a counter is at least one.
LEMMA ThresholdPositive ==
    ASSUME NEW raw \in RawConfigs
    PROVE  WithDefaults(raw).threshold \in Nat \ {0}
  BY WithDefaultsType DEF Config

\* The steps that touch no counter and no Notify goroutine: leases may be
\* extended only while they run, entries only disappear.
LEMMA AccountingUndisturbed ==
    ASSUME TypeOK, FailureAccounting,
           clock' \in Nat, clock' >= clock,
           \E raw \in RawConfigs : cfg' = WithDefaults(raw),
           notifies' = notifies,
           \A id \in SubIds : status'[id] = "unissued" => status[id] = "unissued",
           \A id \in Stored' :
              /\ id \in Stored
              /\ sub'[id].kind = sub[id].kind
              /\ sub'[id].notifyFailures = sub[id].notifyFailures
              /\ id \in Live \/ sub'[id].terminationTime = sub[id].terminationTime
    PROVE  FailureAccounting'
  <1>1. \A id \in SubIds : Failed(id)' = Failed(id) /\ Acknowledged(id)' = Acknowledged(id)
    BY DEF Failed, Acknowledged
  <1>2. \A id \in SubIds : status'[id] = "unissued" => notifies'[id] = <<>>
    BY DEF FailureAccounting
  <1>3. ASSUME NEW id \in Stored'
        PROVE  /\ notifies'[id] # <<>> => sub'[id].kind = "push"
               /\ sub'[id].notifyFailures <= Cardinality(Failed(id)')
               /\ Acknowledged(id)' = {} => sub'[id].notifyFailures = Cardinality(Failed(id)')
    <2>1. id \in Stored /\ id \in SubIds
      BY <1>3 DEF Stored
    <2>2. QED
      BY <1>1, <1>3, <2>1 DEF FailureAccounting
  <1>4. ASSUME NEW id \in Stored',
               \A raw \in RawConfigs : sub'[id].notifyFailures >= WithDefaults(raw).threshold
        PROVE  id \in ExpiredSubs'
    <2>1. id \in Stored /\ id \in SubIds
      BY <1>4 DEF Stored
    <2>2. \A raw \in RawConfigs : sub[id].notifyFailures >= WithDefaults(raw).threshold
      BY <1>4
    <2>3. id \in ExpiredSubs
      BY <2>1, <2>2 DEF FailureAccounting
    <2>4. sub'[id].terminationTime = sub[id].terminationTime
      BY <1>4, <2>3 DEF Live
    <2>5. sub[id].terminationTime \in Int /\ clock \in Nat
      BY <2>1 DEF TypeOK, Subscription
    <2>6. clock' > sub'[id].terminationTime
      BY <2>3, <2>4, <2>5 DEF ExpiredSubs
    <2>7. QED
      BY <1>4, <2>6 DEF ExpiredSubs
  <1>5. QED
    BY <1>2, <1>3, <1>4 DEF FailureAccounting

\* Deleting expired or named entries disturbs no counter.
LEMMA AccountingDelete ==
    ASSUME TypeOK, FailureAccounting, NEW S, Delete(S),
           UNCHANGED <<clock, cfg, notifies>>
    PROVE  FailureAccounting'
  <1>1. \A id \in SubIds : status'[id] = "unissued" => status[id] = "unissued"
    BY DEF Delete, StatusWithout
  <1>2. \A id \in Stored' : id \in Stored /\ sub'[id] = sub[id]
    BY DEF Delete, StatusWithout, SubWithout, Stored
  <1>3. clock' \in Nat /\ clock' >= clock
    BY DEF TypeOK
  <1>4. \E raw \in RawConfigs : cfg' = WithDefaults(raw)
    BY DEF FailureAccounting
  <1>5. QED
    BY <1>1, <1>2, <1>3, <1>4, AccountingUndisturbed

\* The accounts depend on nothing else.
LEMMA AccountingUnchanged ==
    ASSUME TypeOK, FailureAccounting, UNCHANGED <<clock, cfg, status, sub, notifies>>
    PROVE  FailureAccounting'
  BY DEF FailureAccounting, Stored, ExpiredSubs, Failed, Acknowledged

\* A new subscription has no failures, and no configuration gives it up at once.
LEMMA AccountingAdmit ==
    ASSUME TypeOK, FailureAccounting, NEW op, NEW k \in {"pull", "push"},
           NEW f, NEW req \in Requests, Admit(op, k, f, req)
    PROVE  FailureAccounting'
  <1>1. UNCHANGED <<clock, cfg, notifies>>
    BY DEF Admit, brokerVars
  <1>2. CASE Delete(ReapedOnCreate)
    BY <1>1, <1>2, AccountingDelete
  <1>3. CASE \E id \in SubIds :
                /\ status[id] = "unissued"
                /\ status' = [StatusWithout(ReapedOnCreate) EXCEPT ![id] = "stored"]
                /\ sub' = [SubWithout(ReapedOnCreate) EXCEPT
                              ![id] = NewSub(k, f, clock + Granted(req))]
    <2>1. PICK new \in SubIds :
                /\ status[new] = "unissued"
                /\ status' = [StatusWithout(ReapedOnCreate) EXCEPT ![new] = "stored"]
                /\ sub' = [SubWithout(ReapedOnCreate) EXCEPT
                              ![new] = NewSub(k, f, clock + Granted(req))]
      BY <1>3
    <2>2. /\ status'[new] = "stored"
          /\ sub'[new] = NewSub(k, f, clock + Granted(req))
      BY <2>1 DEF StatusWithout, SubWithout
    <2>3. notifies'[new] = <<>>
      BY <1>1, <2>1 DEF FailureAccounting
    <2>4. Failed(new)' = {}
      BY <2>3 DEF Failed
    <2>5. sub'[new].notifyFailures = 0
      BY <2>2 DEF NewSub
    <2>6. Cardinality({}) = 0
      BY FS_EmptySet
    <2>7. PICK raw \in RawConfigs : cfg = WithDefaults(raw)
      BY DEF FailureAccounting
    <2>8. ~(0 >= WithDefaults(raw).threshold)
      BY ThresholdPositive
    <2>9. ASSUME NEW id \in SubIds, id # new
          PROVE  /\ status'[id] = StatusWithout(ReapedOnCreate)[id]
                 /\ id \in Stored' => id \in Stored /\ sub'[id] = sub[id]
      BY <2>1, <2>9 DEF StatusWithout, SubWithout, Stored
    <2>10. \A id \in SubIds : status'[id] = "unissued" => notifies'[id] = <<>>
      BY <1>1, <2>2, <2>9 DEF FailureAccounting, StatusWithout
    <2>11. ASSUME NEW id \in Stored', id # new
           PROVE  /\ notifies'[id] # <<>> => sub'[id].kind = "push"
                  /\ sub'[id].notifyFailures <= Cardinality(Failed(id)')
                  /\ Acknowledged(id)' = {} => sub'[id].notifyFailures = Cardinality(Failed(id)')
                  /\ (\A r \in RawConfigs : sub'[id].notifyFailures >= WithDefaults(r).threshold)
                         => id \in ExpiredSubs'
      <3>1. id \in Stored /\ sub'[id] = sub[id]
        BY <2>9, <2>11 DEF Stored
      <3>2. Failed(id)' = Failed(id) /\ Acknowledged(id)' = Acknowledged(id)
        BY <1>1 DEF Failed, Acknowledged
      <3>3. QED
        BY <1>1, <2>11, <3>1, <3>2 DEF FailureAccounting, ExpiredSubs
    <2>12. /\ sub'[new].notifyFailures <= Cardinality(Failed(new)')
           /\ sub'[new].notifyFailures = Cardinality(Failed(new)')
           /\ ~(\A r \in RawConfigs : sub'[new].notifyFailures >= WithDefaults(r).threshold)
      BY <2>4, <2>5, <2>6, <2>8
    <2>13. \E r \in RawConfigs : cfg' = WithDefaults(r)
      BY <1>1, <2>7
    <2>14. QED
      BY <2>3, <2>10, <2>11, <2>12, <2>13 DEF FailureAccounting
  <1>4. QED
    BY <1>2, <1>3 DEF Admit

\* The clients' operations keep the accounts.
LEMMA AccountingClient ==
    ASSUME TypeOK, TypeOK', FailureAccounting, Client
    PROVE  FailureAccounting'
  <1>1. ASSUME NEW op, NEW id \in SubIds, NotFound(op, id)
        PROVE  FailureAccounting'
    BY <1>1, AccountingDelete DEF NotFound, brokerVars
  <1>2. ASSUME NEW f \in Filters, NEW req \in Requests,
               CreatePullPointSubscription(f, req)
        PROVE  FailureAccounting'
    BY <1>2, AccountingAdmit DEF CreatePullPointSubscription
  <1>3. ASSUME NEW f \in Filters, NEW req \in Requests, NEW valid \in BOOLEAN,
               Subscribe(f, req, valid)
        PROVE  FailureAccounting'
    BY <1>3, AccountingAdmit, AccountingUnchanged DEF Subscribe, brokerVars
  <1>4. ASSUME NEW id \in SubIds, NEW limit \in PullLimits, PullMessages(id, limit)
        PROVE  FailureAccounting'
    <2>1. CASE NotFound("PullMessages", id)
      BY <1>1, <2>1
    <2>2. CASE UNCHANGED <<clock, status, sub, brokerVars>>
      BY <2>2, AccountingUnchanged DEF brokerVars
    <2>3. CASE /\ \E q : sub' = [sub EXCEPT ![id].queue = q]
               /\ UNCHANGED <<clock, status, brokerVars>>
      <3>1. \A i \in SubIds : /\ sub'[i].kind = sub[i].kind
                              /\ sub'[i].notifyFailures = sub[i].notifyFailures
                              /\ sub'[i].terminationTime = sub[i].terminationTime
        BY <2>3 DEF TypeOK, Subscription
      <3>2. QED
        BY <2>3, <3>1, AccountingUndisturbed DEF brokerVars, TypeOK, Stored, FailureAccounting
    <2>4. QED
      BY <1>4, <2>1, <2>2, <2>3 DEF PullMessages
  <1>5. ASSUME NEW id \in SubIds, SetSynchronizationPoint(id)
        PROVE  FailureAccounting'
    BY <1>1, <1>5, AccountingUnchanged DEF SetSynchronizationPoint, brokerVars
  <1>6. ASSUME NEW id \in SubIds, NEW req \in Requests, Renew(id, req)
        PROVE  FailureAccounting'
    <2>1. CASE NotFound("Renew", id)
      BY <1>1, <2>1
    <2>2. CASE UNCHANGED <<clock, status, sub, brokerVars>>
      BY <2>2, AccountingUnchanged DEF brokerVars
    <2>3. CASE /\ Found(id)
               /\ sub' = [sub EXCEPT ![id] = Renewed(sub[id], clock + Granted(req))]
               /\ UNCHANGED <<clock, status, brokerVars>>
      <3>1. \A i \in SubIds : /\ sub'[i].kind = sub[i].kind
                              /\ sub'[i].notifyFailures = sub[i].notifyFailures
                              /\ i \in Live \/ sub'[i].terminationTime = sub[i].terminationTime
        BY <2>3 DEF TypeOK, Subscription, Renewed, Found
      <3>2. QED
        BY <2>3, <3>1, AccountingUndisturbed DEF brokerVars, TypeOK, Stored, FailureAccounting
    <2>4. QED
      BY <1>6, <2>1, <2>2, <2>3 DEF Renew
  <1>7. ASSUME NEW id \in SubIds, Unsubscribe(id)
        PROVE  FailureAccounting'
    BY <1>1, <1>7, AccountingDelete DEF Unsubscribe, brokerVars
  <1>8. QED
    BY <1>2, <1>3, <1>4, <1>5, <1>6, <1>7 DEF Client

\* A result changes one counter: up with a failure, and the failure that reaches
\* the threshold in force ends the lease there and then.
LEMMA AccountingRecord ==
    ASSUME TypeOK, TypeOK', FailureAccounting, NEW id \in SubIds,
           NEW i \in 1 .. MaxNotifies, NEW success \in BOOLEAN,
           RecordNotifyResult(id, i, success)
    PROVE  FailureAccounting'
  <1>1. /\ UNCHANGED <<clock, cfg, status>>
        /\ Stored' = Stored
        /\ \A j \in SubIds : j # id => sub'[j] = sub[j] /\ notifies'[j] = notifies[j]
        /\ sub'[id] = IF id \notin Stored THEN sub[id]
                      ELSE IF success THEN AfterSuccess(sub[id]) ELSE AfterFailure(sub[id])
    BY DEF RecordNotifyResult, TypeOK, Stored
  <1>2. \E raw \in RawConfigs : cfg' = WithDefaults(raw)
    BY <1>1 DEF FailureAccounting
  <1>3. notifies[id] # <<>>
    BY DEF RecordNotifyResult
  <1>4. \A j \in SubIds : status'[j] = "unissued" => notifies'[j] = <<>>
    BY <1>1, <1>3 DEF FailureAccounting
  <1>5. ASSUME NEW j \in Stored', j # id
        PROVE  /\ notifies'[j] # <<>> => sub'[j].kind = "push"
               /\ sub'[j].notifyFailures <= Cardinality(Failed(j)')
               /\ Acknowledged(j)' = {} => sub'[j].notifyFailures = Cardinality(Failed(j)')
               /\ (\A r \in RawConfigs : sub'[j].notifyFailures >= WithDefaults(r).threshold)
                      => j \in ExpiredSubs'
    <2>1. j \in Stored /\ sub'[j] = sub[j] /\ notifies'[j] = notifies[j]
      BY <1>1, <1>5 DEF Stored
    <2>2. Failed(j)' = Failed(j) /\ Acknowledged(j)' = Acknowledged(j)
      BY <2>1 DEF Failed, Acknowledged
    <2>3. QED
      BY <1>1, <1>5, <2>1, <2>2 DEF FailureAccounting, ExpiredSubs
  <1>6. ASSUME id \in Stored
        PROVE  /\ sub'[id].kind = "push"
               /\ sub'[id].notifyFailures <= Cardinality(Failed(id)')
               /\ Acknowledged(id)' = {} => sub'[id].notifyFailures = Cardinality(Failed(id)')
               /\ (\A r \in RawConfigs : sub'[id].notifyFailures >= WithDefaults(r).threshold)
                      => id \in ExpiredSubs'
    <2>1. /\ sub[id] \in Subscription
          /\ clock \in Nat
          /\ sub[id].kind = "push"
          /\ sub[id].notifyFailures \in Nat
          /\ sub[id].notifyFailures <= Cardinality(Failed(id))
          /\ Acknowledged(id) = {} => sub[id].notifyFailures = Cardinality(Failed(id))
      BY <1>3, <1>6 DEF FailureAccounting, TypeOK, Subscription
    <2>2. Cardinality(Failed(id)) \in Nat
      BY FailedFinite
    <2>3. CASE success
      <3>1. sub'[id].notifyFailures = 0 /\ sub'[id].kind = "push"
        BY <1>1, <1>6, <2>1, <2>3 DEF AfterSuccess, Subscription
      <3>2. Acknowledged(id)' # {} /\ Failed(id)' = Failed(id)
        BY <2>3, RecordedResult
      <3>3. \E raw \in RawConfigs : ~(0 >= WithDefaults(raw).threshold)
        BY ThresholdPositive DEF FailureAccounting
      <3>4. QED
        BY <2>2, <3>1, <3>2, <3>3
    <2>4. CASE ~success
      <3>1. sub'[id] = AfterFailure(sub[id])
        BY <1>1, <1>6, <2>4
      <3>2. /\ sub'[id].notifyFailures = sub[id].notifyFailures + 1
            /\ sub'[id].kind = "push"
            /\ sub[id].notifyFailures + 1 >= cfg.threshold
                  => sub'[id].terminationTime = clock - 1
        BY <2>1, <3>1 DEF AfterFailure, Subscription
      <3>3. /\ Acknowledged(id)' = Acknowledged(id)
            /\ Cardinality(Failed(id)') = Cardinality(Failed(id)) + 1
        BY <2>4, RecordedResult
      <3>4. ASSUME \A r \in RawConfigs : sub'[id].notifyFailures >= WithDefaults(r).threshold
            PROVE  id \in ExpiredSubs'
        <4>1. sub[id].notifyFailures + 1 >= cfg.threshold
          BY <3>2, <3>4 DEF FailureAccounting
        <4>2. clock' > sub'[id].terminationTime
          BY <1>1, <2>1, <3>2, <4>1
        <4>3. QED
          BY <1>1, <1>6, <4>2 DEF ExpiredSubs
      <3>5. QED
        BY <2>1, <2>2, <3>2, <3>3, <3>4
    <2>5. QED
      BY <2>3, <2>4
  <1>7. QED
    BY <1>1, <1>2, <1>4, <1>5, <1>6 DEF FailureAccounting

\* Posts that are sent off keep them: no result is in yet.
LEMMA AccountingPublish ==
    ASSUME TypeOK, FailureAccounting, NEW m \in Message, Publish(m)
    PROVE  FailureAccounting'
  <1>1. /\ UNCHANGED <<clock, cfg, status>>
        /\ Stored' = Stored
    BY DEF Publish, Stored
  <1>2. \A id \in SubIds : /\ sub'[id].kind = sub[id].kind
                           /\ sub'[id].notifyFailures = sub[id].notifyFailures
                           /\ sub'[id].terminationTime = sub[id].terminationTime
    BY DEF Publish, TypeOK, Subscription
  <1>3. \A id \in SubIds : Failed(id)' = Failed(id) /\ Acknowledged(id)' = Acknowledged(id)
    BY PublishedPosts
  <1>4. ASSUME NEW id \in SubIds, notifies'[id] # notifies[id]
        PROVE  id \in Stored /\ sub[id].kind = "push"
    BY <1>4 DEF Publish, OfKind, Recipients, Live, TypeOK
  <1>5. \A id \in SubIds : status'[id] = "unissued" => notifies'[id] = <<>>
    BY <1>1, <1>4 DEF FailureAccounting, Stored
  <1>6. \E raw \in RawConfigs : cfg' = WithDefaults(raw)
    BY <1>1 DEF FailureAccounting
  <1>7. ASSUME NEW id \in Stored'
        PROVE  /\ notifies'[id] # <<>> => sub'[id].kind = "push"
               /\ sub'[id].notifyFailures <= Cardinality(Failed(id)')
               /\ Acknowledged(id)' = {} => sub'[id].notifyFailures = Cardinality(Failed(id)')
               /\ (\A r \in RawConfigs : sub'[id].notifyFailures >= WithDefaults(r).threshold)
                      => id \in ExpiredSubs'
    <2>1. id \in SubIds /\ id \in Stored
      BY <1>1, <1>7 DEF Stored
    <2>2. id \in ExpiredSubs => id \in ExpiredSubs'
      BY <1>1, <1>2, <2>1 DEF ExpiredSubs
    <2>3. QED
      BY <1>2, <1>3, <1>4, <2>1, <2>2 DEF FailureAccounting
  <1>8. QED
    BY <1>5, <1>6, <1>7 DEF FailureAccounting

\* So every step keeps them.
LEMMA AccountingStep ==
    ASSUME TypeOK, TypeOK', FailureAccounting, [Next]_vars
    PROVE  FailureAccounting'
  <1>1. ASSUME NEW raw \in RawConfigs, UpdateConfig(raw)
        PROVE  FailureAccounting'
    BY <1>1, AccountingUndisturbed DEF UpdateConfig, TypeOK, Stored
  <1>2. ASSUME ReapTick
        PROVE  FailureAccounting'
    BY <1>2, AccountingDelete DEF ReapTick, brokerVars
  <1>3. ASSUME Tick
        PROVE  FailureAccounting'
    BY <1>3, AccountingUndisturbed DEF Tick, brokerVars, TypeOK, Stored, FailureAccounting
  <1>4. ASSUME UNCHANGED vars
        PROVE  FailureAccounting'
    BY <1>4, AccountingUnchanged DEF vars
  <1>5. QED
    BY <1>1, <1>2, <1>3, <1>4, AccountingClient, AccountingPublish, AccountingRecord
    DEF Next, Simulator, Background

\* The counters account for the recorded results in every reachable state.
THEOREM CountersAccount == Spec => []FailureAccounting
  <1>1. Init => FailureAccounting
    BY DEF Init, FailureAccounting, Stored
  <1>2. TypeOK /\ TypeOK' /\ FailureAccounting /\ [Next]_vars => FailureAccounting'
    BY AccountingStep
  <1>3. QED
    BY <1>1, <1>2, TypeCorrect, PTL DEF Spec

\* A push consumer that never acknowledges is given up, however it renews.
THEOREM UnreachableGivenUp == Spec => []UnreachableConsumerGivenUp
  <1>1. TypeOK /\ FailureAccounting => UnreachableConsumerGivenUp
    <2>1. SUFFICES ASSUME TypeOK, FailureAccounting,
                          NEW id \in Live, Acknowledged(id) = {}
                   PROVE  \E raw \in RawConfigs :
                             Cardinality(Failed(id)) < WithDefaults(raw).threshold
      BY DEF UnreachableConsumerGivenUp
    <2>2. id \in Stored /\ id \in SubIds /\ id \notin ExpiredSubs
      BY DEF Live, Stored
    <2>3. sub[id].notifyFailures = Cardinality(Failed(id))
      BY <2>1, <2>2 DEF FailureAccounting
    <2>4. PICK raw \in RawConfigs : ~(sub[id].notifyFailures >= WithDefaults(raw).threshold)
      BY <2>1, <2>2 DEF FailureAccounting
    <2>5. Cardinality(Failed(id)) \in Nat /\ WithDefaults(raw).threshold \in Nat
      BY <2>1, <2>2, FailedFinite, ThresholdPositive
    <2>6. QED
      BY <2>3, <2>4, <2>5
  <1>2. QED
    BY <1>1, TypeCorrect, CountersAccount, PTL

-----------------------------------------------------------------------------
(* The pool *)

LEMMA StoredFinite ==
    ASSUME NEW S \in SUBSET SubIds, NEW k
    PROVE  /\ IsFiniteSet(OfKind(S, k))
           /\ Cardinality(OfKind(S, k)) \in Nat
  <1>1. OfKind(S, k) \subseteq SubIds
    BY DEF OfKind
  <1>2. IsFiniteSet(OfKind(S, k))
    BY <1>1, BrokerAssumption, FS_Subset
  <1>3. QED
    BY <1>2, FS_CardinalityType

\* A limit is a number, positive or not.
LEMMA LimitType ==
    ASSUME TypeOK, NEW k
    PROVE  Limit(k) \in Int
  BY DEF TypeOK, Config, Limit

\* A token enters the map only in the two create operations.
LEMMA OnlyAdmitStores ==
    ASSUME TypeOK, [Next]_vars, NEW id \in SubIds,
           status[id] # "stored", status'[id] = "stored"
    PROVE  \E op \in Operations, k \in {"pull", "push"}, f \in Filters, req \in Requests :
              Admit(op, k, f, req)
  <1>1. \A S : ~(status' = StatusWithout(S))
    BY DEF StatusWithout
  <1>2. status' # status
    OBVIOUS
  <1>3. \A op : ~NotFound(op, id) /\ \A j \in SubIds : ~NotFound(op, j)
    BY <1>1 DEF NotFound, Delete
  <1>4. CASE Client
    <2>1. ASSUME NEW f \in Filters, NEW req \in Requests,
                 CreatePullPointSubscription(f, req)
          PROVE  Admit("CreatePullPointSubscription", "pull", f, req)
      BY <2>1 DEF CreatePullPointSubscription
    <2>2. ASSUME NEW f \in Filters, NEW req \in Requests, NEW valid \in BOOLEAN,
                 Subscribe(f, req, valid)
          PROVE  Admit("Subscribe", "push", f, req)
      BY <1>2, <2>2 DEF Subscribe
    <2>3. \A j \in SubIds, limit \in PullLimits : ~PullMessages(j, limit)
      BY <1>2, <1>3 DEF PullMessages
    <2>4. \A j \in SubIds : ~SetSynchronizationPoint(j)
      BY <1>2, <1>3 DEF SetSynchronizationPoint
    <2>5. \A j \in SubIds, req \in Requests : ~Renew(j, req)
      BY <1>2, <1>3 DEF Renew
    <2>6. \A j \in SubIds : ~Unsubscribe(j)
      BY <1>1, <1>3 DEF Unsubscribe, Delete
    <2>7. QED
      BY <1>4, <2>1, <2>2, <2>3, <2>4, <2>5, <2>6 DEF Client, Operations
  <1>5. CASE Simulator
    BY <1>2, <1>5 DEF Simulator, Publish, UpdateConfig
  <1>6. CASE Background
    BY <1>1, <1>2, <1>6 DEF Background, RecordNotifyResult, ReapTick, Tick, Delete
  <1>7. QED
    BY <1>2, <1>4, <1>5, <1>6 DEF Next, vars

\* Room for one more before it is added means no more than the limit after.
LEMMA AdmitWithinLimit ==
    ASSUME TypeOK, NEW op \in Operations, NEW k \in {"pull", "push"},
           NEW f \in Filters, NEW req \in Requests, Admit(op, k, f, req),
           NEW id \in SubIds, status[id] # "stored", status'[id] = "stored"
    PROVE  /\ sub'[id].kind = k
           /\ Cardinality(OfKind(Stored, k)') <= Limit(k)
  <1>1. ~Delete(ReapedOnCreate)
    BY DEF Delete, StatusWithout
  <1>2. HasRoom(Stored \ ReapedOnCreate, k)
    BY <1>1 DEF Admit
  <1>3. PICK new \in SubIds :
                /\ status[new] = "unissued"
                /\ status' = [StatusWithout(ReapedOnCreate) EXCEPT ![new] = "stored"]
                /\ sub' = [SubWithout(ReapedOnCreate) EXCEPT
                              ![new] = NewSub(k, f, clock + Granted(req))]
    BY <1>1 DEF Admit
  <1>4. new = id
    BY <1>3 DEF StatusWithout
  <1>5. sub'[id] = NewSub(k, f, clock + Granted(req))
    BY <1>3, <1>4 DEF SubWithout
  <1>6. sub'[id].kind = k
    BY <1>5 DEF NewSub
  <1>7. OfKind(Stored, k)' = OfKind(Stored \ ReapedOnCreate, k) \cup {id}
    <2>1. Stored' = (Stored \ ReapedOnCreate) \cup {id}
      BY <1>3, <1>4 DEF Stored, StatusWithout
    <2>2. \A j \in Stored \ ReapedOnCreate : sub'[j] = sub[j]
      BY <1>3, <1>4 DEF SubWithout, Stored
    <2>3. OfKind(Stored, k)' = {j \in Stored' : sub'[j].kind = k}
      BY DEF OfKind
    <2>4. QED
      BY <1>6, <2>1, <2>2, <2>3 DEF OfKind
  <1>8. id \notin OfKind(Stored \ ReapedOnCreate, k)
    BY DEF OfKind, Stored
  <1>9. Stored \ ReapedOnCreate \in SUBSET SubIds
    BY DEF Stored
  <1>10. Cardinality(OfKind(Stored, k)') = Cardinality(OfKind(Stored \ ReapedOnCreate, k)) + 1
    BY <1>7, <1>8, <1>9, StoredFinite, FS_AddElement
  <1>11. QED
    BY <1>2, <1>6, <1>9, <1>10, StoredFinite, LimitType DEF HasRoom

\* The pool never outgrows the limit in force when a subscription is added.
THEOREM PoolBounded == Spec => PoolWithinLimit
  <1>1. ASSUME TypeOK, [Next]_vars, NEW id \in SubIds, NEW k \in {"pull", "push"},
               status[id] = "unissued", status'[id] = "stored", sub'[id].kind = k
        PROVE  Cardinality(OfKind(Stored, k)') <= Limit(k)
    BY <1>1, OnlyAdmitStores, AdmitWithinLimit
  <1>2. TypeOK /\ [Next]_vars =>
           [\A id \in SubIds, k \in {"pull", "push"} :
              status[id] = "unissued" /\ status'[id] = "stored" /\ sub'[id].kind = k
                 => Cardinality(OfKind(Stored, k)') <= Limit(k)]_vars
    BY <1>1
  <1>3. QED
    BY <1>2, TypeCorrect, PTL DEF Spec, PoolWithinLimit

\* Of a create operation's answers "limit" is the one given for lack of room.
LEMMA AdmitRefusal ==
    ASSUME TypeOK, NEW op \in {"CreatePullPointSubscription", "Subscribe"},
           NEW k, k = KindOf(op), NEW f, NEW req \in Requests,
           Admit(op, k, f, req), reply'.result = "limit"
    PROVE  Cardinality(OfKind(Live, KindOf(reply'.op))) >= Limit(KindOf(reply'.op))
  <1>1. /\ ~HasRoom(Stored \ ReapedOnCreate, k)
        /\ reply' = Answer(op, NoId, "limit")
    BY DEF Admit, Answer
  <1>2. reply'.op = op /\ Stored \ ReapedOnCreate = Live
    BY <1>1 DEF Answer, ReapedOnCreate, Live
  <1>3. Live \in SUBSET SubIds
    BY DEF Live, Stored
  <1>4. QED
    BY <1>1, <1>2, <1>3, StoredFinite, LimitType DEF HasRoom

\* A refusal for lack of room means that many subscriptions are alive.
THEOREM RefusalJustified == Spec => RefusedOnlyWhenFull
  <1>1. ASSUME TypeOK, Next, reply'.result = "limit"
        PROVE  Cardinality(OfKind(Live, KindOf(reply'.op))) >= Limit(KindOf(reply'.op))
    <2>1. NoReply.result # "limit"
      BY DEF NoReply, Answer
    <2>2. \A op, id, r : reply' = Answer(op, id, r) => r = "limit"
      BY <1>1 DEF Answer
    <2>3. ~Simulator /\ ~Background
      BY <1>1, <2>1 DEF Simulator, Background, Publish, UpdateConfig,
                        RecordNotifyResult, ReapTick, Tick
    <2>4. Client
      BY <1>1, <2>3 DEF Next
    <2>5. \A op, id : ~NotFound(op, id)
      BY <2>2 DEF NotFound
    <2>6. ASSUME NEW id \in SubIds, NEW limit \in PullLimits
          PROVE  ~PullMessages(id, limit)
      <3>1. \A op, i, r, ms : [Answer(op, i, r) EXCEPT !.msgs = ms].result = r
        BY DEF Answer
      <3>2. CASE reply' = Answer("PullMessages", id, "invalid")
        BY <2>2, <3>2
      <3>3. CASE \E ms : reply' = [Answer("PullMessages", id, "ok") EXCEPT !.msgs = ms]
        BY <1>1, <3>1, <3>3
      <3>4. PullMessages(id, limit) =>
              \/ reply' = Answer("PullMessages", id, "invalid")
              \/ NotFound("PullMessages", id)
              \/ \E ms : reply' = [Answer("PullMessages", id, "ok") EXCEPT !.msgs = ms]
        BY DEF PullMessages
      <3>5. QED
        BY <2>5, <3>2, <3>3, <3>4
    <2>7. \A id \in SubIds : ~SetSynchronizationPoint(id)
      BY <2>2, <2>5 DEF SetSynchronizationPoint
    <2>8. \A id \in SubIds, req \in Requests : ~Renew(id, req)
      BY <2>2, <2>5 DEF Renew
    <2>9. \A id \in SubIds : ~Unsubscribe(id)
      BY <2>2, <2>5 DEF Unsubscribe
    <2>10. ASSUME NEW f \in Filters, NEW req \in Requests,
                  CreatePullPointSubscription(f, req)
           PROVE  Cardinality(OfKind(Live, KindOf(reply'.op))) >= Limit(KindOf(reply'.op))
      BY <1>1, <2>10, AdmitRefusal DEF CreatePullPointSubscription, KindOf
    <2>11. ASSUME NEW f \in Filters, NEW req \in Requests, NEW valid \in BOOLEAN,
                  Subscribe(f, req, valid)
           PROVE  Cardinality(OfKind(Live, KindOf(reply'.op))) >= Limit(KindOf(reply'.op))
      <3>1. Admit("Subscribe", "push", f, req)
        BY <2>2, <2>11 DEF Subscribe
      <3>2. QED
        BY <1>1, <3>1, AdmitRefusal DEF KindOf
    <2>12. QED
      BY <2>4, <2>6, <2>7, <2>8, <2>9, <2>10, <2>11 DEF Client
  <1>2. TypeOK /\ [Next]_vars =>
           [reply'.result = "limit"
              => Cardinality(OfKind(Live, KindOf(reply'.op))) >= Limit(KindOf(reply'.op))]_vars
    BY <1>1
  <1>3. QED
    BY <1>2, TypeCorrect, PTL DEF Spec, RefusedOnlyWhenFull

-----------------------------------------------------------------------------
(* Leases *)

\* A live subscription that is neither deleted nor given an earlier end, while
\* the clock stands still, stays alive.
LEMMA StaysAlive ==
    ASSUME NEW id \in Live, clock' = clock, status'[id] = status[id],
           sub'[id].terminationTime = sub[id].terminationTime
    PROVE  id \in Live'
  BY DEF Live, Stored, ExpiredSubs

\* Deleting expired entries ends no lease that runs.
LEMMA DeleteKeepsLive ==
    ASSUME NEW id \in Live, NEW S, id \notin S, Delete(S), clock' = clock
    PROVE  id \in Live'
  BY DEF Live, Stored, ExpiredSubs, Delete, StatusWithout, SubWithout

\* A refusal ends no lease.
LEMMA NotFoundKeepsLive ==
    ASSUME NEW id \in Live, NEW op, NEW other \in SubIds, NotFound(op, other)
    PROVE  id \in Live'
  BY DeleteKeepsLive DEF NotFound, Found

\* Nor does an admission, which only drops what has ended.
LEMMA AdmitKeepsLive ==
    ASSUME TypeOK, NEW id \in Live, NEW op, NEW k, NEW f, NEW req, Admit(op, k, f, req)
    PROVE  id \in Live'
  <1>1. id \in SubIds /\ status[id] = "stored" /\ id \notin ReapedOnCreate /\ clock' = clock
    BY DEF Admit, Live, Stored, ReapedOnCreate
  <1>2. CASE Delete(ReapedOnCreate)
    BY <1>1, <1>2, DeleteKeepsLive
  <1>3. CASE \E new \in SubIds :
                /\ status[new] = "unissued"
                /\ status' = [StatusWithout(ReapedOnCreate) EXCEPT ![new] = "stored"]
                /\ sub' = [SubWithout(ReapedOnCreate) EXCEPT
                              ![new] = NewSub(k, f, clock + Granted(req))]
    <2>1. status'[id] = "stored" /\ sub'[id] = sub[id]
      BY <1>1, <1>3 DEF StatusWithout, SubWithout
    <2>2. QED
      BY <1>1, <2>1, StaysAlive
  <1>4. QED
    BY <1>2, <1>3 DEF Admit

\* A client's operation ends a lease only by Unsubscribe.
LEMMA ClientHonoursLease ==
    ASSUME TypeOK, NEW id \in Live, Client
    PROVE  id \in Live' \/ reply' = Answer("Unsubscribe", id, "ok")
  <1>1. \A op : \A j \in SubIds : NotFound(op, j) => id \in Live'
    BY NotFoundKeepsLive
  <1>2. UNCHANGED <<clock, status, sub>> => id \in Live'
    BY StaysAlive
  <1>3. \A f, req : CreatePullPointSubscription(f, req) => id \in Live'
    BY AdmitKeepsLive DEF CreatePullPointSubscription
  <1>4. \A f, req, valid : Subscribe(f, req, valid) => id \in Live'
    BY <1>2, AdmitKeepsLive DEF Subscribe
  <1>5. ASSUME NEW j \in SubIds, NEW limit \in PullLimits, PullMessages(j, limit)
        PROVE  id \in Live'
    <2>1. CASE \E q : sub' = [sub EXCEPT ![j].queue = q] /\ UNCHANGED <<clock, status>>
      <3>1. sub'[id].terminationTime = sub[id].terminationTime
        BY <2>1 DEF TypeOK, Subscription, Live, Stored
      <3>2. QED
        BY <2>1, <3>1, StaysAlive
    <2>2. QED
      BY <1>1, <1>2, <1>5, <2>1 DEF PullMessages
  <1>6. \A j \in SubIds : SetSynchronizationPoint(j) => id \in Live'
    BY <1>1, <1>2 DEF SetSynchronizationPoint
  <1>7. ASSUME NEW j \in SubIds, NEW req \in Requests, Renew(j, req)
        PROVE  id \in Live'
    <2>1. CASE /\ req # Malformed
               /\ sub' = [sub EXCEPT ![j] = Renewed(sub[j], clock + Granted(req))]
               /\ UNCHANGED <<clock, status>>
      <3>1. CASE j = id
        <4>1. sub'[id].terminationTime = clock + Granted(req)
          BY <2>1, <3>1 DEF TypeOK, Subscription, Renewed
        <4>2. ~(clock > clock + Granted(req))
          BY <2>1, GrantedType DEF TypeOK
        <4>3. QED
          BY <2>1, <4>1, <4>2 DEF Live, Stored, ExpiredSubs
      <3>2. CASE j # id
        BY <2>1, <3>2, StaysAlive DEF TypeOK, Live, Stored
      <3>3. QED
        BY <3>1, <3>2
    <2>2. QED
      BY <1>1, <1>2, <1>7, <2>1 DEF Renew
  <1>8. ASSUME NEW j \in SubIds, Unsubscribe(j)
        PROVE  id \in Live' \/ reply' = Answer("Unsubscribe", id, "ok")
    BY <1>1, <1>8, DeleteKeepsLive DEF Unsubscribe
  <1>9. QED
    BY <1>3, <1>4, <1>5, <1>6, <1>7, <1>8 DEF Client

\* A late result ends a lease only as the threshold-th failure of a push
\* subscription.
LEMMA RecordHonoursLease ==
    ASSUME TypeOK, FailureAccounting, NEW id \in Live, NEW j \in SubIds,
           NEW i \in 1 .. MaxNotifies, NEW success \in BOOLEAN,
           RecordNotifyResult(j, i, success)
    PROVE  \/ id \in Live'
           \/ sub[id].kind = "push" /\ Cardinality(Failed(id)') >= cfg.threshold
  <1>1. /\ UNCHANGED <<clock, cfg, status>>
        /\ notifies[j] # <<>>
        /\ sub' = [sub EXCEPT ![j] = IF j \notin Stored THEN @
                                     ELSE IF success THEN AfterSuccess(@)
                                     ELSE AfterFailure(@)]
    BY DEF RecordNotifyResult
  <1>2. id \in SubIds /\ id \in Stored
    BY DEF Live, Stored
  <1>3. CASE j # id
    BY <1>1, <1>2, <1>3, StaysAlive DEF TypeOK
  <1>4. CASE j = id /\ success
    <2>1. sub'[id].terminationTime = sub[id].terminationTime
      BY <1>1, <1>2, <1>4 DEF AfterSuccess, TypeOK, Subscription
    <2>2. QED
      BY <1>1, <2>1, StaysAlive
  <1>5. CASE j = id /\ ~success
    <2>1. /\ sub'[id] = AfterFailure(sub[id])
          /\ sub[id] \in Subscription
      BY <1>1, <1>2, <1>5 DEF TypeOK
    <2>2. CASE sub[id].notifyFailures + 1 >= cfg.threshold
      <3>1. sub[id].kind = "push" /\ sub[id].notifyFailures <= Cardinality(Failed(id))
        BY <1>1, <1>2, <1>5 DEF FailureAccounting
      <3>2. Cardinality(Failed(id)') = Cardinality(Failed(id)) + 1
        BY <1>5, RecordedResult
      <3>3. Cardinality(Failed(id)) \in Nat /\ cfg.threshold \in Nat /\ sub[id].notifyFailures \in Nat
        BY <1>2, <2>1, FailedFinite DEF TypeOK, Config, Subscription
      <3>4. QED
        BY <2>2, <3>1, <3>2, <3>3
    <2>3. CASE ~(sub[id].notifyFailures + 1 >= cfg.threshold)
      <3>1. sub'[id].terminationTime = sub[id].terminationTime
        BY <2>1, <2>3 DEF AfterFailure, Subscription
      <3>2. QED
        BY <1>1, <3>1, StaysAlive
    <2>4. QED
      BY <2>2, <2>3
  <1>6. QED
    BY <1>3, <1>4, <1>5

\* No lease is cut short but by its owner or by its consumer's failures.
THEOREM LeasesHonoured == Spec => LeaseHonoured
  <1> DEFINE Honoured(id) == \/ id \in Live'
                             \/ clock' > sub[id].terminationTime
                             \/ reply' = Answer("Unsubscribe", id, "ok")
                             \/ /\ sub[id].kind = "push"
                                /\ Cardinality(Failed(id)') >= cfg.threshold
  <1>1. ASSUME TypeOK, FailureAccounting, Next, NEW id \in Live
        PROVE  Honoured(id)
    <2>1. CASE Client
      BY <1>1, <2>1, ClientHonoursLease
    <2>2. ASSUME NEW m \in Message, Publish(m)
          PROVE  Honoured(id)
      <3>1. sub'[id].terminationTime = sub[id].terminationTime
        BY <1>1, <2>2 DEF Publish, TypeOK, Subscription, Live, Stored
      <3>2. QED
        BY <2>2, <3>1, StaysAlive DEF Publish
    <2>3. ASSUME NEW raw \in RawConfigs, UpdateConfig(raw)
          PROVE  Honoured(id)
      BY <2>3, StaysAlive DEF UpdateConfig
    <2>4. ASSUME NEW j \in SubIds, NEW i \in 1 .. MaxNotifies, NEW success \in BOOLEAN,
                 RecordNotifyResult(j, i, success)
          PROVE  Honoured(id)
      BY <1>1, <2>4, RecordHonoursLease
    <2>5. CASE ReapTick
      BY <1>1, <2>5, DeleteKeepsLive DEF ReapTick, ReapedOnTick, Live
    <2>6. CASE Tick
      <3>1. status' = status /\ sub' = sub
        BY <2>6 DEF Tick
      <3>2. QED
        BY <1>1, <3>1 DEF Live, Stored, ExpiredSubs
    <2>7. QED
      BY <1>1, <2>1, <2>2, <2>3, <2>4, <2>5, <2>6 DEF Next, Simulator, Background
  <1>2. TypeOK /\ FailureAccounting /\ [Next]_vars => [\A id \in Live : Honoured(id)]_vars
    BY <1>1
  <1>3. QED
    BY <1>2, TypeCorrect, CountersAccount, PTL DEF Spec, LeaseHonoured

-----------------------------------------------------------------------------
(* The broker implements the subscription service *)

\* No queue outgrows its depth.
QueuesBounded == \A id \in SubIds : Len(sub[id].queue) <= QueueDepth

\* A queue that is full drops its oldest message for the new one.
LEMMA EnqueueBounded ==
    ASSUME NEW q \in Seq(Message), Len(q) <= QueueDepth, NEW m \in Message
    PROVE  Len(Enqueue(q, m)) <= QueueDepth
  <1>1. CASE Len(q) >= QueueDepth
    <2>1. q # <<>>
      BY <1>1, BrokerAssumption
    <2>2. Tail(q) \in Seq(Message) /\ Len(Tail(q)) = Len(q) - 1
      BY <2>1
    <2>3. QED
      BY <1>1, <2>2, BrokerAssumption DEF Enqueue
  <1>2. CASE ~(Len(q) >= QueueDepth)
    BY <1>2, BrokerAssumption DEF Enqueue
  <1>3. QED
    BY <1>1, <1>2

\* A step that answers with no message, ends the leases of S and leaves the other
\* live subscriptions' filters and queues alone is the end of S to a client.
LEMMA EndStep ==
    ASSUME NEW S \in SUBSET Live,
           reply'.msgs = <<>>,
           Live' = Live \ S,
           \A id \in SubIds : status'[id] = "unissued" <=> status[id] = "unissued",
           \A id \in Live' : /\ sub'[id].kind = sub[id].kind
                             /\ sub'[id].filter = sub[id].filter
                             /\ sub'[id].queue = sub[id].queue
    PROVE  Service!Next
  <1>1. S \in SUBSET SubIds /\ \A id \in S : status[id] # "unissued"
    BY DEF Live, Stored
  <1>2. Service!End(S)
    BY <1>1 DEF Service!End, Service!Nothing
  <1>3. QED
    BY <1>1, <1>2 DEF Service!Next

\* Deleting stored entries ends those of them that were alive.
LEMMA DeleteEnds ==
    ASSUME NEW S \in SUBSET Stored, Delete(S), clock' = clock, reply'.msgs = <<>>
    PROVE  Service!Next
  <1>1. Live' = Live \ (S \cap Live)
    BY DEF Delete, StatusWithout, SubWithout, Live, Stored, ExpiredSubs
  <1>2. \A id \in SubIds : status'[id] = "unissued" <=> status[id] = "unissued"
    BY DEF Delete, StatusWithout, Stored
  <1>3. \A id \in Live' : sub'[id] = sub[id]
    BY <1>1 DEF Delete, SubWithout, Live, Stored
  <1>4. QED
    BY <1>1, <1>2, <1>3, EndStep

\* Only PullMessages answers with messages.
LEMMA NoMessages ==
    /\ \A op, id, r : Answer(op, id, r).msgs = <<>>
    /\ NoReply.msgs = <<>>
  BY DEF Answer, NoReply

\* A step that touches no subscription at all ends none.
LEMMA UntouchedEnds ==
    ASSUME reply'.msgs = <<>>, UNCHANGED <<clock, status, sub>>
    PROVE  Service!Next
  <1>1. Live' = Live \ {}
    BY DEF Live, Stored, ExpiredSubs
  <1>2. QED
    BY <1>1, EndStep DEF Live, Stored

\* To the service a subscription that is not found has ended.
LEMMA NotFoundEnds ==
    ASSUME NEW op, NEW id \in SubIds, NotFound(op, id)
    PROVE  Service!Next
  BY DeleteEnds, NoMessages DEF NotFound, Stored

\* A new subscription starts with an empty mailbox, whatever expired is deleted.
LEMMA AdmitOpens ==
    ASSUME TypeOK, NEW op, NEW k \in {"pull", "push"}, NEW f \in Filters,
           NEW req \in Requests, Admit(op, k, f, req)
    PROVE  Service!Next
  <1>1. ReapedOnCreate \in SUBSET Stored /\ ReapedOnCreate \cap Live = {} /\ clock' = clock
    BY DEF Admit, ReapedOnCreate, ExpiredSubs, Live
  <1>2. CASE Delete(ReapedOnCreate) /\ \E r : reply' = Answer(op, NoId, r)
    BY <1>1, <1>2, DeleteEnds, NoMessages
  <1>3. ASSUME NEW new \in SubIds,
               req # Malformed,
               status[new] = "unissued",
               status' = [StatusWithout(ReapedOnCreate) EXCEPT ![new] = "stored"],
               sub' = [SubWithout(ReapedOnCreate) EXCEPT
                          ![new] = NewSub(k, f, clock + Granted(req))],
               reply' = Answer(op, new, "ok")
        PROVE  Service!Next
    <2> DEFINE I == IF k = "pull" THEN {t \in Topics : MatchesTopic(f, t)} ELSE {}
    <2>1. /\ new \notin Live /\ new \notin ReapedOnCreate
          /\ status'[new] = "stored"
          /\ sub'[new] = NewSub(k, f, clock + Granted(req))
          /\ \A id \in SubIds \ {new} : /\ status'[id] = StatusWithout(ReapedOnCreate)[id]
                                        /\ sub'[id] = SubWithout(ReapedOnCreate)[id]
      BY <1>1, <1>3 DEF Live, Stored, StatusWithout, SubWithout
    <2>2. ~(clock' > clock + Granted(req))
      BY <1>1, <1>3, GrantedType DEF TypeOK
    <2>3. new \in Live'
      BY <2>1, <2>2 DEF Live, Stored, ExpiredSubs, NewSub
    <2>4. \A id \in SubIds \ {new} : id \in Live' <=> id \in Live
      BY <1>1, <2>1 DEF Live, Stored, ExpiredSubs, StatusWithout, SubWithout
    <2>5. \A id \in Live : sub'[id] = sub[id]
      BY <1>1, <2>1 DEF Live, Stored, SubWithout
    <2>6. \A id \in SubIds \ {new} : status'[id] = "unissued" <=> status[id] = "unissued"
      BY <1>1, <2>1 DEF StatusWithout, Stored
    <2>7. sub'[new].queue = <<>> /\ sub'[new].kind = k /\ sub'[new].filter = f
      BY <2>1 DEF NewSub
    <2>8. reply'.msgs = <<>>
      BY <1>3, NoMessages
    <2>9. Service!Open(new, I)
      <3>1. [id \in SubIds |-> IF status[id] = "unissued" THEN "unborn"
                               ELSE IF id \in Live THEN "active" ELSE "ended"][new] = "unborn"
        BY <1>3
      <3>2. [id \in SubIds |-> IF status'[id] = "unissued" THEN "unborn"
                               ELSE IF id \in Live' THEN "active" ELSE "ended"]
            = [[id \in SubIds |-> IF status[id] = "unissued" THEN "unborn"
                                  ELSE IF id \in Live THEN "active" ELSE "ended"]
                 EXCEPT ![new] = "active"]
        BY <2>1, <2>3, <2>4, <2>6
      <3>3. [id \in SubIds |-> IF id \in Live' /\ sub'[id].kind = "pull"
                               THEN {t \in Topics : MatchesTopic(sub'[id].filter, t)} ELSE {}]
            = [[id \in SubIds |-> IF id \in Live /\ sub[id].kind = "pull"
                                  THEN {t \in Topics : MatchesTopic(sub[id].filter, t)} ELSE {}]
                 EXCEPT ![new] = I]
        BY <2>3, <2>4, <2>5, <2>7
      <3>4. [id \in SubIds |-> IF id \in Live' THEN sub'[id].queue ELSE <<>>]
            = [id \in SubIds |-> IF id \in Live THEN sub[id].queue ELSE <<>>]
        BY <2>1, <2>3, <2>4, <2>5, <2>7
      <3> HIDE DEF I
      <3>5. QED
        BY <2>8, <3>1, <3>2, <3>3, <3>4 DEF Service!Open, Service!Nothing
    <2>10. QED
      BY <2>9 DEF Service!Next
  <1>4. QED
    BY <1>2, <1>3 DEF Admit

\* A pull takes the oldest messages of a mailbox.
LEMMA PullTakes ==
    ASSUME TypeOK, QueuesBounded, NEW id \in SubIds, NEW limit \in PullLimits,
           PullMessages(id, limit)
    PROVE  Service!Next
  <1>1. CASE NotFound("PullMessages", id)
    BY <1>1, NotFoundEnds
  <1>2. CASE reply' = Answer("PullMessages", id, "invalid") /\ UNCHANGED <<clock, status, sub>>
    BY <1>2, NoMessages, UntouchedEnds
  <1>3. CASE limit >= 0 /\ Found(id)
             /\ LET q == sub[id].queue
                    n == DrainCount(q, limit)
                IN  /\ sub' = [sub EXCEPT ![id].queue = SubSeq(q, n + 1, Len(q))]
                    /\ reply' = [Answer("PullMessages", id, "ok") EXCEPT
                                   !.msgs = SubSeq(q, 1, n)]
             /\ UNCHANGED <<clock, status>>
    <2> DEFINE q == sub[id].queue
               n == DrainCount(q, limit)
    <2>1. /\ id \in Live /\ sub[id] \in Subscription /\ q \in Seq(Message)
          /\ n \in 0 .. Len(q) /\ Len(q) <= QueueDepth
      <3>1. sub[id] \in Subscription /\ q \in Seq(Message) /\ limit \in Int
        BY BrokerAssumption DEF TypeOK, Subscription
      <3>2. QED
        BY <1>3, <3>1, DrainType DEF Found, QueuesBounded
    <2>2. PICK taken \in 0 .. QueueDepth : taken = n
      BY <2>1, BrokerAssumption
    <2>3. sub' = [sub EXCEPT ![id].queue = SubSeq(q, n + 1, Len(q))]
          /\ reply'.msgs = SubSeq(q, 1, n)
      BY <1>3 DEF Answer
    <2> HIDE DEF q, n
    <2>4. /\ \A j \in SubIds \ {id} : sub'[j] = sub[j]
          /\ sub'[id].queue = SubSeq(q, n + 1, Len(q))
          /\ \A j \in SubIds : /\ sub'[j].kind = sub[j].kind
                               /\ sub'[j].filter = sub[j].filter
                               /\ sub'[j].terminationTime = sub[j].terminationTime
      BY <2>1, <2>3 DEF TypeOK, Subscription
    <2>5. Live' = Live
      BY <1>3, <2>4 DEF Live, Stored, ExpiredSubs
    <2>6. Service!Take(id, taken)
      <3>1. [j \in SubIds |-> IF j \in Live THEN sub[j].queue ELSE <<>>][id] = q
        BY <2>1 DEF q
      <3>2. [j \in SubIds |-> IF status[j] = "unissued" THEN "unborn"
                              ELSE IF j \in Live THEN "active" ELSE "ended"][id] = "active"
        BY <2>1 DEF Live, Stored
      <3>3. [j \in SubIds |-> IF status'[j] = "unissued" THEN "unborn"
                              ELSE IF j \in Live' THEN "active" ELSE "ended"]
            = [j \in SubIds |-> IF status[j] = "unissued" THEN "unborn"
                                ELSE IF j \in Live THEN "active" ELSE "ended"]
        BY <1>3, <2>5
      <3>4. [j \in SubIds |-> IF j \in Live' /\ sub'[j].kind = "pull"
                              THEN {t \in Topics : MatchesTopic(sub'[j].filter, t)} ELSE {}]
            = [j \in SubIds |-> IF j \in Live /\ sub[j].kind = "pull"
                                THEN {t \in Topics : MatchesTopic(sub[j].filter, t)} ELSE {}]
        BY <2>4, <2>5
      <3>5. [j \in SubIds |-> IF j \in Live' THEN sub'[j].queue ELSE <<>>]
            = [[j \in SubIds |-> IF j \in Live THEN sub[j].queue ELSE <<>>]
                 EXCEPT ![id] = SubSeq(q, n + 1, Len(q))]
        BY <2>1, <2>4, <2>5
      <3>6. QED
        BY <2>1, <2>2, <2>3, <3>1, <3>2, <3>3, <3>4, <3>5 DEF Service!Take
    <2>7. QED
      BY <2>6 DEF Service!Next
  <1>4. QED
    BY <1>1, <1>2, <1>3 DEF PullMessages, brokerVars

\* A renewal, granted or not, changes nothing a client of the service sees.
LEMMA RenewUnseen ==
    ASSUME TypeOK, NEW id \in SubIds, NEW req \in Requests, Renew(id, req)
    PROVE  Service!Next
  <1>1. CASE NotFound("Renew", id)
    BY <1>1, NotFoundEnds
  <1>2. CASE reply' = Answer("Renew", id, "malformed") /\ UNCHANGED <<clock, status, sub>>
    BY <1>2, NoMessages, UntouchedEnds
  <1>3. CASE /\ Found(id) /\ req # Malformed
             /\ sub' = [sub EXCEPT ![id] = Renewed(sub[id], clock + Granted(req))]
             /\ reply' = Answer("Renew", id, "ok")
             /\ UNCHANGED <<clock, status>>
    <2>1. id \in Live /\ ~(clock > clock + Granted(req)) /\ reply'.msgs = <<>>
      BY <1>3, GrantedType, NoMessages DEF Found, TypeOK
    <2>2. /\ \A j \in SubIds \ {id} : sub'[j] = sub[j]
          /\ sub'[id].terminationTime = clock + Granted(req)
          /\ \A j \in SubIds : /\ sub'[j].kind = sub[j].kind
                               /\ sub'[j].filter = sub[j].filter
                               /\ sub'[j].queue = sub[j].queue
      BY <1>3 DEF TypeOK, Subscription, Renewed
    <2>3. Live' = Live \ {}
      BY <1>3, <2>1, <2>2 DEF Live, Stored, ExpiredSubs
    <2>4. QED
      BY <1>3, <2>1, <2>2, <2>3, EndStep DEF Live, Stored
  <1>4. QED
    BY <1>1, <1>2, <1>3 DEF Renew, brokerVars

\* Every operation of a client is one of the service.
LEMMA ClientServed ==
    ASSUME TypeOK, QueuesBounded, Client
    PROVE  Service!Next
  <1>1. ASSUME NEW f \in Filters, NEW req \in Requests,
               \/ CreatePullPointSubscription(f, req)
               \/ \E valid \in BOOLEAN : Subscribe(f, req, valid)
        PROVE  Service!Next
    <2>1. CASE \E r : reply' = Answer("Subscribe", NoId, r) /\ UNCHANGED <<clock, status, sub>>
      BY <2>1, NoMessages, UntouchedEnds
    <2>2. QED
      BY <1>1, <2>1, AdmitOpens DEF CreatePullPointSubscription, Subscribe
  <1>2. ASSUME NEW id \in SubIds, SetSynchronizationPoint(id)
        PROVE  Service!Next
    BY <1>2, NotFoundEnds, NoMessages, UntouchedEnds DEF SetSynchronizationPoint
  <1>3. ASSUME NEW id \in SubIds, Unsubscribe(id)
        PROVE  Service!Next
    BY <1>3, NotFoundEnds, NoMessages, DeleteEnds DEF Unsubscribe, Found, Live
  <1>4. QED
    BY <1>1, <1>2, <1>3, PullTakes, RenewUnseen DEF Client

\* What is published reaches the live pull points whose filter accepts it.
LEMMA PublishPosts ==
    ASSUME TypeOK, NEW m \in Message, Publish(m)
    PROVE  Service!Next
  <1> DEFINE pulls == OfKind(Recipients(m.topic), "pull")
  <1>1. /\ sub' = [id \in SubIds |-> IF id \in pulls
                                     THEN [sub[id] EXCEPT !.queue = Enqueue(sub[id].queue, m)]
                                     ELSE sub[id]]
        /\ reply'.msgs = <<>>
        /\ UNCHANGED <<clock, status>>
    BY NoMessages DEF Publish
  <1>2. \A id \in SubIds : sub[id] \in Subscription
    BY DEF TypeOK
  <1> HIDE DEF pulls
  <1>3. \A id \in SubIds : /\ sub'[id].kind = sub[id].kind
                           /\ sub'[id].filter = sub[id].filter
                           /\ sub'[id].terminationTime = sub[id].terminationTime
                           /\ id \in pulls => sub'[id].queue = Enqueue(sub[id].queue, m)
                           /\ id \notin pulls => sub'[id].queue = sub[id].queue
    BY <1>1, <1>2 DEF Subscription
  <1>4. Live' = Live
    BY <1>1, <1>3 DEF Live, Stored, ExpiredSubs
  <1>5. CASE m.topic \notin cfg.enabled
    <2>1. pulls = {}
      BY <1>5 DEF pulls, OfKind, Recipients
    <2>2. Live' = Live \ {}
      BY <1>4
    <2>3. QED
      BY <1>1, <1>3, <2>1, <2>2, EndStep DEF Live, Stored
  <1>6. CASE m.topic \in cfg.enabled
    <2>1. \A id \in SubIds :
             id \in pulls <=> id \in Live /\ sub[id].kind = "pull"
                              /\ MatchesTopic(sub[id].filter, m.topic)
      BY <1>6 DEF pulls, OfKind, Recipients
    <2>2. m.topic \in Topics /\ m \in Service!Event
      BY DEF Message, Service!Event
    <2>3. \A id \in SubIds : Enqueue(sub[id].queue, m) = Service!Deposit(sub[id].queue, m)
      <3> SUFFICES ASSUME NEW id \in SubIds
                   PROVE  Enqueue(sub[id].queue, m) = Service!Deposit(sub[id].queue, m)
        OBVIOUS
      <3>1. sub[id].queue \in Seq(Message)
        BY <1>2 DEF Subscription
      <3>2. Len(sub[id].queue) \in Nat /\ QueueDepth \in Nat
        BY <3>1, BrokerAssumption
      <3>3. QED
        BY <3>2, SMTT(30) DEF Enqueue, Service!Deposit
    <2>4. Service!Post(m)
      <3>1. \A id \in SubIds :
               m.topic \in [j \in SubIds |->
                              IF j \in Live /\ sub[j].kind = "pull"
                              THEN {t \in Topics : MatchesTopic(sub[j].filter, t)} ELSE {}][id]
               <=> id \in pulls
        BY <2>1, <2>2
      <3>2. pulls \subseteq Live
        BY DEF pulls, OfKind, Recipients
      <3>3. \A id \in SubIds :
               (IF id \in Live' THEN sub'[id].queue ELSE <<>>)
               = IF id \in pulls
                 THEN Service!Deposit([j \in SubIds |->
                                          IF j \in Live THEN sub[j].queue ELSE <<>>][id], m)
                 ELSE [j \in SubIds |-> IF j \in Live THEN sub[j].queue ELSE <<>>][id]
        BY <1>3, <1>4, <2>3, <3>2
      <3>4. [id \in SubIds |-> IF status'[id] = "unissued" THEN "unborn"
                               ELSE IF id \in Live' THEN "active" ELSE "ended"]
            = [id \in SubIds |-> IF status[id] = "unissued" THEN "unborn"
                                 ELSE IF id \in Live THEN "active" ELSE "ended"]
        BY <1>1, <1>4
      <3>5. [id \in SubIds |-> IF id \in Live' /\ sub'[id].kind = "pull"
                               THEN {t \in Topics : MatchesTopic(sub'[id].filter, t)} ELSE {}]
            = [id \in SubIds |-> IF id \in Live /\ sub[id].kind = "pull"
                                 THEN {t \in Topics : MatchesTopic(sub[id].filter, t)} ELSE {}]
        BY <1>3, <1>4
      <3>6. QED
        BY <1>1, <3>1, <3>3, <3>4, <3>5, ZenonT(60) DEF Service!Post, Service!Nothing
    <2>5. QED
      BY <2>2, <2>4 DEF Service!Next
  <1>7. QED
    BY <1>5, <1>6

\* A late result, the reaper and the clock can only end subscriptions.
LEMMA BackgroundEnds ==
    ASSUME TypeOK, Background
    PROVE  Service!Next
  <1>1. ASSUME NEW j \in SubIds, NEW i \in 1 .. MaxNotifies, NEW success \in BOOLEAN,
               RecordNotifyResult(j, i, success)
        PROVE  Service!Next
    <2>1. /\ sub' = [sub EXCEPT ![j] = IF j \notin Stored THEN @
                                       ELSE IF success THEN AfterSuccess(@)
                                       ELSE AfterFailure(@)]
          /\ reply'.msgs = <<>>
          /\ UNCHANGED <<clock, status>>
      BY <1>1, NoMessages DEF RecordNotifyResult
    <2>2. \A id \in SubIds : /\ sub'[id].kind = sub[id].kind
                             /\ sub'[id].filter = sub[id].filter
                             /\ sub'[id].queue = sub[id].queue
                             /\ sub'[id].terminationTime \in {sub[id].terminationTime, clock - 1}
      <3>1. \A id \in SubIds \ {j} : sub'[id] = sub[id]
        BY <2>1 DEF TypeOK
      <3>2. sub[j] \in Subscription /\ sub'[j] \in {sub[j], AfterSuccess(sub[j]), AfterFailure(sub[j])}
        BY <2>1 DEF TypeOK
      <3>3. \A s \in {sub[j], AfterSuccess(sub[j]), AfterFailure(sub[j])} :
               /\ s.kind = sub[j].kind /\ s.filter = sub[j].filter /\ s.queue = sub[j].queue
               /\ s.terminationTime \in {sub[j].terminationTime, clock - 1}
        BY <3>2 DEF AfterSuccess, AfterFailure, Subscription
      <3>4. QED
        BY <3>1, <3>2, <3>3
    <2>3. clock > clock - 1
      BY DEF TypeOK
    <2>4. Live' \subseteq Live
      BY <2>1, <2>2, <2>3 DEF Live, Stored, ExpiredSubs
    <2>5. Live' = Live \ (Live \ Live')
      BY <2>4
    <2>6. QED
      BY <2>1, <2>2, <2>4, <2>5, EndStep DEF Live, Stored
  <1>2. CASE ReapTick
    BY <1>2, DeleteEnds, NoMessages DEF ReapTick, ReapedOnTick, ExpiredSubs
  <1>3. CASE Tick
    <2>1. clock' = clock + 1 /\ status' = status /\ sub' = sub /\ reply'.msgs = <<>>
      BY <1>3, NoMessages DEF Tick
    <2>2. Live' \subseteq Live
      BY <2>1 DEF Live, Stored, ExpiredSubs, TypeOK, Subscription
    <2>3. Live' = Live \ (Live \ Live')
      BY <2>2
    <2>4. QED
      BY <2>1, <2>3, EndStep
  <1>4. QED
    BY <1>1, <1>2, <1>3 DEF Background

\* Every step of the broker is one of the service, or invisible to it.
LEMMA ServiceStep ==
    TypeOK /\ QueuesBounded /\ [Next]_vars => [Service!Next]_(Service!svars)
  <1> SUFFICES ASSUME TypeOK, QueuesBounded, [Next]_vars
               PROVE  Service!Next \/ UNCHANGED Service!svars
    OBVIOUS
  <1>1. CASE UNCHANGED vars
    BY <1>1 DEF vars, Service!svars, Live, Stored, ExpiredSubs
  <1>2. ASSUME NEW raw \in RawConfigs, UpdateConfig(raw)
        PROVE  Service!Next
    BY <1>2, NoMessages, UntouchedEnds DEF UpdateConfig
  <1>3. QED
    BY <1>1, <1>2, ClientServed, PublishPosts, BackgroundEnds DEF Next, Simulator

\* No step makes a queue outgrow its depth.
LEMMA QueuesStayBounded == TypeOK /\ QueuesBounded /\ [Next]_vars => QueuesBounded'
  <1> SUFFICES ASSUME TypeOK, QueuesBounded, [Next]_vars, NEW id \in SubIds
               PROVE  Len(sub'[id].queue) <= QueueDepth
    BY DEF QueuesBounded
  <1>1. /\ \A j \in SubIds : sub[j] \in Subscription /\ sub[j].queue \in Seq(Message)
        /\ Len(sub[id].queue) <= QueueDepth
        /\ QueueDepth \in Nat /\ Len(<<>>) <= QueueDepth
    BY BrokerAssumption DEF TypeOK, QueuesBounded, Subscription
  <1>2. Blank.queue = <<>> /\ \A k, f, t : NewSub(k, f, t).queue = <<>>
    BY DEF Blank, NewSub
  <1>3. sub'[id] \in {sub[id], Blank} => Len(sub'[id].queue) <= QueueDepth
    BY <1>1, <1>2
  <1>4. \A op, j : NotFound(op, j) => sub'[id] \in {sub[id], Blank}
    BY DEF NotFound, Delete, SubWithout
  <1>5. \A op, k, f, req : Admit(op, k, f, req) =>
           sub'[id] \in {sub[id], Blank} \/ \E t : sub'[id] = NewSub(k, f, t)
    BY DEF Admit, Delete, SubWithout
  <1>6. CASE Client
    <2>1. ASSUME NEW j \in SubIds, NEW limit \in PullLimits, PullMessages(j, limit)
          PROVE  Len(sub'[id].queue) <= QueueDepth
      <3>1. limit \in Int
        BY BrokerAssumption
      <3>2. CASE limit >= 0 /\ Found(j)
                 /\ sub' = [sub EXCEPT ![j].queue =
                                SubSeq(sub[j].queue, DrainCount(sub[j].queue, limit) + 1,
                                       Len(sub[j].queue))]
        <4>1. CASE id = j
          <5>1. DrainCount(sub[id].queue, limit) \in 0 .. Len(sub[id].queue)
                /\ Len(sub[id].queue) \in Nat
            BY <1>1, <3>1, <3>2, DrainType
          <5>2. Len(SubSeq(sub[id].queue, DrainCount(sub[id].queue, limit) + 1,
                           Len(sub[id].queue))) <= Len(sub[id].queue)
            BY <1>1, <5>1, SubSeqProperties
          <5>3. sub'[id].queue = SubSeq(sub[id].queue, DrainCount(sub[id].queue, limit) + 1,
                                        Len(sub[id].queue))
            BY <1>1, <3>2, <4>1 DEF TypeOK, Subscription
          <5>4. QED
            BY <1>1, <5>1, <5>2, <5>3
        <4>2. CASE id # j
          BY <1>1, <3>2, <4>2 DEF TypeOK
        <4>3. QED
          BY <4>1, <4>2
      <3>3. QED
        BY <1>3, <1>4, <2>1, <3>2 DEF PullMessages
    <2>2. ASSUME NEW j \in SubIds, NEW req \in Requests, Renew(j, req)
          PROVE  Len(sub'[id].queue) <= QueueDepth
      <3>1. CASE sub' = [sub EXCEPT ![j] = Renewed(sub[j], clock + Granted(req))]
        BY <1>1, <3>1 DEF TypeOK, Subscription, Renewed
      <3>2. QED
        BY <1>3, <1>4, <2>2, <3>1 DEF Renew
    <2>3. ASSUME NEW j \in SubIds, SetSynchronizationPoint(j) \/ Unsubscribe(j)
          PROVE  Len(sub'[id].queue) <= QueueDepth
      BY <1>3, <1>4, <2>3 DEF SetSynchronizationPoint, Unsubscribe, Delete, SubWithout
    <2>4. ASSUME NEW f \in Filters, NEW req \in Requests,
                 \/ CreatePullPointSubscription(f, req)
                 \/ \E valid \in BOOLEAN : Subscribe(f, req, valid)
          PROVE  Len(sub'[id].queue) <= QueueDepth
      BY <1>1, <1>2, <1>3, <1>5, <2>4 DEF CreatePullPointSubscription, Subscribe
    <2>5. QED
      BY <1>6, <2>1, <2>2, <2>3, <2>4 DEF Client
  <1>7. ASSUME NEW m \in Message, Publish(m)
        PROVE  Len(sub'[id].queue) <= QueueDepth
    <2>1. sub'[id] = sub[id] \/ sub'[id] = [sub[id] EXCEPT !.queue = Enqueue(sub[id].queue, m)]
      BY <1>7 DEF Publish
    <2>2. [sub[id] EXCEPT !.queue = Enqueue(sub[id].queue, m)].queue = Enqueue(sub[id].queue, m)
      BY <1>1 DEF Subscription
    <2>3. QED
      BY <1>1, <2>1, <2>2, EnqueueBounded
  <1>8. ASSUME NEW j \in SubIds, NEW i \in 1 .. MaxNotifies, NEW success \in BOOLEAN,
               RecordNotifyResult(j, i, success)
        PROVE  Len(sub'[id].queue) <= QueueDepth
    <2>1. sub'[id] \in {sub[id], AfterSuccess(sub[id]), AfterFailure(sub[id])}
      BY <1>8 DEF RecordNotifyResult, TypeOK
    <2>2. AfterSuccess(sub[id]).queue = sub[id].queue /\ AfterFailure(sub[id]).queue = sub[id].queue
      BY <1>1 DEF AfterSuccess, AfterFailure, Subscription
    <2>3. QED
      BY <1>1, <2>1, <2>2
  <1>9. CASE ReapTick \/ Tick \/ UNCHANGED vars \/ \E raw \in RawConfigs : UpdateConfig(raw)
    BY <1>1, <1>3, <1>9 DEF ReapTick, Tick, vars, UpdateConfig, Delete, SubWithout
  <1>10. QED
    BY <1>6, <1>7, <1>8, <1>9 DEF Next, Simulator, Background

\* To its clients the broker is the subscription service of the specification, for
\* every set of tokens, topics, filters and configurations, and any mailbox depth.
THEOREM BrokerServes == Spec => ImplementsService
  <1>1. Init => Service!Init
    BY DEF Init, Service!Init, Service!Nothing, Live, Stored, NoReply, Answer
  <1>2. Init => QueuesBounded
    BY BrokerAssumption DEF Init, QueuesBounded, Blank, NewSub
  <1>3. QED
    BY <1>1, <1>2, TypeCorrect, ServiceStep, QueuesStayBounded, PTL
    DEF Spec, ImplementsService, Service!Spec

-----------------------------------------------------------------------------
(* Triggers and the ring: EventTriggers *)

Marks == Callers \X Nat

\* The types of what moves.
Editing == [step : {"idle", "load", "install", "update"}, read : SUBSET TopicNames]
Triggering == [step : {"idle", "publish", "record", "tell"}, topic : TopicNames \cup {""}]
TriggerTypes ==
    /\ disk \subseteq TopicNames /\ memory \subseteq TopicNames
    /\ editor \in [Editors -> Editing]
    /\ calls \in [Callers -> 0 .. MaxCalls]
    /\ call \in [Callers -> Triggering]
    /\ published \subseteq Marks /\ recorded \subseteq Marks /\ told \subseteq Marks
    /\ doubt \subseteq Marks

\* How far a trigger under way has come: what it is about to publish is enabled in both
\* copies unless they were seen at odds, what it is about to record was published, and
\* what it is about to tell is recorded.
UnderWay ==
    \A c \in Callers :
        /\ call[c].step # "idle" => calls[c] \in 1 .. MaxCalls
        /\ call[c].step = "publish" =>
               Current(c) \in doubt \/ (call[c].topic \in memory /\ call[c].topic \in broker)
        /\ call[c].step = "record" => Current(c) \in published \cup doubt
        /\ call[c].step = "tell" => Current(c) \in recorded

TriggerInv == TriggerTypes /\ UnderWay /\ RecordedAsPublished

\* With no trigger under way the invariant holds.
LEMMA TriggersStart == TriggersInit => TriggerInv
<1> SUFFICES ASSUME TriggersInit PROVE TriggerInv
  OBVIOUS
<1>1. TriggerTypes
  <2>1. At("idle", {}) \in Editing /\ [step |-> "idle", topic |-> ""] \in Triggering
    BY DEF Editing, At, Triggering
  <2>2. 0 \in 0 .. MaxCalls
    BY TriggersAssumption
  <2> QED
    BY <2>1, <2>2 DEF TriggersInit, TriggerTypes
<1>2. UnderWay /\ RecordedAsPublished
  BY DEF TriggersInit, UnderWay, RecordedAsPublished
<1> QED
  BY <1>1, <1>2 DEF TriggerInv

\* The fields of what a caller and an editor are at.
LEMMA TriggerFields ==
  ASSUME TriggerTypes
  PROVE  /\ \A c \in Callers : /\ call[c] \in Triggering
                               /\ call[c].step \in {"idle", "publish", "record", "tell"}
                               /\ call[c].topic \in TopicNames \cup {""}
                               /\ calls[c] \in Nat /\ Current(c) \in Marks
         /\ \A e \in Editors : editor[e].read \subseteq TopicNames
<1>1. ASSUME NEW c \in Callers PROVE call[c] \in Triggering /\ calls[c] \in 0 .. MaxCalls
  BY DEF TriggerTypes
<1>2. ASSUME NEW e \in Editors PROVE editor[e] \in Editing
  BY DEF TriggerTypes
<1>3. ASSUME NEW c \in Callers PROVE calls[c] \in Nat /\ Current(c) \in Marks
  BY <1>1, <1>3, TriggersAssumption DEF Current, Marks
<1>4. ASSUME NEW c \in Callers
      PROVE  call[c].step \in {"idle", "publish", "record", "tell"}
             /\ call[c].topic \in TopicNames \cup {""}
  BY <1>1, <1>4 DEF Triggering
<1>5. ASSUME NEW e \in Editors PROVE editor[e].read \subseteq TopicNames
  BY <1>2, <1>5 DEF Editing
<1> QED
  BY <1>1, <1>3, <1>4, <1>5

\* An editor moves.
LEMMA EditorMoves ==
  ASSUME TriggerTypes, NEW e \in Editors, NEW to \in Editing, editor' = [editor EXCEPT ![e] = to]
  PROVE  editor' \in [Editors -> Editing]
  BY DEF TriggerTypes

\* A change of the two copies that marks who meets them at odds.
LEMMA CopiesChange ==
  ASSUME TriggerInv, Doubted, UNCHANGED <<call, calls, published, recorded, told>>,
         UNCHANGED memory \/ UNCHANGED broker
  PROVE  UnderWay' /\ RecordedAsPublished' /\ doubt' \subseteq Marks
<1> USE DEF TriggerInv
<1>1. doubt' \subseteq Marks /\ doubt \subseteq doubt'
  BY TriggerFields DEF TriggerTypes, Doubted
<1>2. UnderWay'
  BY <1>1 DEF UnderWay, Doubted, Current
<1>3. RecordedAsPublished'
  BY <1>1 DEF RecordedAsPublished, Current
<1> QED
  BY <1>1, <1>2, <1>3

\* Every step of a trigger, an edit or a Start keeps it.
LEMMA TriggersKeep == ASSUME TriggerInv, [TriggersNext]_triggerVars PROVE TriggerInv'
<1> USE DEF TriggerInv, topics, ring, limits, history
<1>1. ASSUME NEW c \in Callers, Look(c) PROVE TriggerInv'
  <2>1. PICK t \in memory :
            /\ call' = [call EXCEPT ![c] = [step |-> "publish", topic |-> t]]
            /\ calls' = [calls EXCEPT ![c] = @ + 1]
            /\ doubt' = IF t \in broker THEN doubt ELSE doubt \cup {<<c, calls[c] + 1>>}
    BY <1>1 DEF Look
  <2>2. /\ UNCHANGED <<disk, memory, broker, editor, published, recorded, told>>
        /\ call[c].step = "idle" /\ calls[c] < MaxCalls
    BY <1>1 DEF Look
  <2> DEFINE n == calls[c] + 1
             new == [step |-> "publish", topic |-> t]
  <2>3. n \in 1 .. MaxCalls /\ new \in Triggering /\ new.step = "publish" /\ new.topic = t
        /\ <<c, n>> \in Marks
    <3>1. n \in 1 .. MaxCalls /\ <<c, n>> \in Marks
      BY <2>2, TriggersAssumption DEF TriggerTypes, Marks
    <3>2. t \in TopicNames
      BY <2>1 DEF TriggerTypes
    <3> QED
      BY <3>1, <3>2 DEF Triggering
  <2> HIDE DEF new
  <2>4. \A d \in Callers : /\ call'[d] = IF d = c THEN new ELSE call[d]
                           /\ calls'[d] = IF d = c THEN n ELSE calls[d]
    BY <2>1 DEF TriggerTypes, new
  <2>5. TriggerTypes'
    BY <2>1, <2>2, <2>3 DEF TriggerTypes, new
  <2>6. UnderWay'
    BY <2>1, <2>2, <2>3, <2>4 DEF UnderWay, Current
  <2>7. RecordedAsPublished'
    BY <2>1, <2>2, <2>3, <2>4 DEF RecordedAsPublished, Current
  <2> QED
    BY <2>5, <2>6, <2>7
<1>2. ASSUME NEW c \in Callers, PublishEvent(c) \/ Record(c) \/ Tell(c) PROVE TriggerInv'
  <2>1. PICK label \in {"record", "tell", "idle"} :
            call' = [call EXCEPT ![c].step = label]
            /\ (label = "record" <=> PublishEvent(c))
            /\ (label = "tell" <=> Record(c))
            /\ (label = "idle" <=> Tell(c))
    BY <1>2 DEF PublishEvent, Record, Tell
  <2> DEFINE new == [call[c] EXCEPT !.step = label]
  <2>2. /\ call[c] \in Triggering /\ Current(c) \in Marks
        /\ new \in Triggering /\ new.step = label /\ new.topic = call[c].topic
    BY <2>1, TriggerFields DEF Triggering
  <2> HIDE DEF new
  <2>3. /\ call' = [call EXCEPT ![c] = new]
        /\ \A d \in Callers : call'[d] = IF d = c THEN new ELSE call[d]
    BY <2>1 DEF TriggerTypes, new
  <2>4. /\ UNCHANGED <<disk, memory, broker, editor, calls, doubt>>
        /\ published \subseteq published' /\ recorded \subseteq recorded'
        /\ told \subseteq told'
        /\ published' \subseteq published \cup {Current(c)}
        /\ recorded' \subseteq recorded \cup {Current(c)}
        /\ told' \subseteq told \cup {Current(c)}
    BY <1>2 DEF PublishEvent, Record, Tell
  <2>5. TriggerTypes'
    BY <2>2, <2>3, <2>4 DEF TriggerTypes
  <2>6. CASE PublishEvent(c)
    <3>1. new.step = "record" /\ UNCHANGED <<recorded, told>> /\ call[c].step = "publish"
          /\ published' = IF call[c].topic \in broker THEN published \cup {Current(c)}
                                                     ELSE published
      BY <2>1, <2>2, <2>6 DEF PublishEvent
    <3> QED
      BY <2>2, <2>3, <2>4, <2>5, <3>1 DEF UnderWay, RecordedAsPublished, Current
  <2>7. CASE Record(c)
    <3>1. new.step = "tell" /\ UNCHANGED <<published, told>> /\ call[c].step = "record"
          /\ recorded' = recorded \cup {Current(c)}
      BY <2>1, <2>2, <2>7 DEF Record
    <3> QED
      BY <2>2, <2>3, <2>4, <2>5, <3>1 DEF UnderWay, RecordedAsPublished, Current
  <2>8. CASE Tell(c)
    <3>1. new.step = "idle" /\ UNCHANGED <<published, recorded>> /\ call[c].step = "tell"
          /\ told' = told \cup {Current(c)}
      BY <2>1, <2>2, <2>8 DEF Tell
    <3> QED
      BY <2>2, <2>3, <2>4, <2>5, <3>1 DEF UnderWay, RecordedAsPublished, Current
  <2> QED
    BY <1>2, <2>6, <2>7, <2>8
<1>5. ASSUME NEW e \in Editors, Persist(e) \/ Load(e) PROVE TriggerInv'
  <2>1. TriggerTypes'
    <3>1. PICK to \in Editing : editor' = [editor EXCEPT ![e] = to]
      <4>1. disk \subseteq TopicNames
        BY DEF TriggerTypes
      <4>2. At("load", {}) \in Editing /\ At("install", disk) \in Editing
        BY <4>1 DEF Editing, At
      <4> QED
        BY <1>5, <4>2 DEF Persist, Load
    <3>2. editor' \in [Editors -> Editing]
      BY <3>1, EditorMoves
    <3> QED
      BY <1>5, <3>2 DEF Persist, Load, TriggerTypes
  <2>2. UNCHANGED <<memory, broker, call, calls, published, recorded, told, doubt>>
    BY <1>5 DEF Persist, Load
  <2> QED
    BY <2>1, <2>2 DEF UnderWay, RecordedAsPublished, Current
<1>6. ASSUME NEW e \in Editors, Install(e) \/ Update(e) PROVE TriggerInv'
  <2>1. UnderWay' /\ RecordedAsPublished' /\ doubt' \subseteq Marks
    BY <1>6, CopiesChange DEF Install, Update
  <2>2. TriggerTypes'
    <3>1. PICK to \in Editing : editor' = [editor EXCEPT ![e] = to]
      <4>1. editor[e] \in Editing /\ At("idle", {}) \in Editing
        BY DEF TriggerTypes, Editing, At
      <4>2. [editor[e] EXCEPT !.step = "update"] \in Editing
        BY <4>1 DEF Editing
      <4>3. \/ editor' = [editor EXCEPT ![e] = [editor[e] EXCEPT !.step = "update"]]
            \/ editor' = [editor EXCEPT ![e] = At("idle", {})]
        BY <1>6 DEF Install, Update, TriggerTypes
      <4> QED
        BY <4>1, <4>2, <4>3
    <3>2. editor' \in [Editors -> Editing]
      BY <3>1, EditorMoves
    <3> QED
      BY <1>6, <2>1, <3>2, TriggerFields DEF Install, Update, TriggerTypes
  <2> QED
    BY <2>1, <2>2
<1>7. CASE BeginStart
  BY <1>7 DEF BeginStart, TriggerTypes, UnderWay, RecordedAsPublished, Current
<1>8. CASE EndStart
  <2>1. UnderWay' /\ RecordedAsPublished' /\ doubt' \subseteq Marks
    BY <1>8, CopiesChange DEF EndStart
  <2> QED
    BY <1>8, <2>1 DEF EndStart, TriggerTypes
<1>9. CASE UNCHANGED triggerVars
  BY <1>9 DEF triggerVars, TriggerTypes, UnderWay, RecordedAsPublished, Current
<1> QED
  BY <1>1, <1>2, <1>5, <1>6, <1>7, <1>8, <1>9 DEF TriggersNext

\* So it always holds.
LEMMA TriggersAlways == TriggersSpec => []TriggerInv
  BY TriggersStart, TriggersKeep, PTL DEF TriggersSpec

\* What is shown as recent was published unless the copies were at odds, and what was
\* published is shown and told once its trigger has returned (RecordedAsPublished), for
\* any number of triggers, edits and Starts.
THEOREM RecentWerePublished == TriggersSpec => []RecordedAsPublished
<1>1. TriggerInv => RecordedAsPublished
  BY DEF TriggerInv
<1> QED
  BY <1>1, TriggersAlways, PTL

-----------------------------------------------------------------------------
(* The ring *)

RingOK ==
    /\ buf \in [0 .. Size - 1 -> Calls \cup {None}]
    /\ head \in 0 .. Size - 1
    /\ full \in BOOLEAN
Filled == IF full THEN Size ELSE head

\* The place in the ring of the i-th newest event.
Place(h, i) == (h - i + Size) % Size

\* A place in the ring without the remainder.
LEMMA PlaceIs ==
  ASSUME NEW h \in 0 .. Size - 1, NEW i \in 0 .. Size
  PROVE  Place(h, i) = IF i <= h THEN h - i ELSE h - i + Size
<1> DEFINE n == h - i + Size
<1>1. n \in 0 .. 2 * Size - 1 /\ Size \in Nat \ {0}
  BY TriggersAssumption
<1>2. n % Size = IF n < Size THEN n ELSE n - Size
  <2> HIDE DEF n
  <2>1. CASE n \in 0 .. Size - 1
    BY <1>1, <2>1
  <2>2. CASE n \in Size .. 2 * Size - 1
    BY <1>1, <2>2
  <2> QED
    BY <1>1, <2>1, <2>2
<1>3. Place(h, i) = n % Size
  BY DEF Place
<1>4. n < Size <=> i > h
  BY <1>1
<1> HIDE DEF n
<1> QED
  BY <1>1, <1>2, <1>3, <1>4 DEF n

Entries == Calls \cup {None}

SnapshotFacts ==
    /\ Snapshot \in Seq(Entries) /\ Len(Snapshot) = Filled /\ Filled \in 0 .. Size
    /\ \A i \in 1 .. Filled : /\ Place(head, i) \in 0 .. Size - 1
                             /\ Snapshot[i] = buf[Place(head, i)]

\* A snapshot is the entries from the newest back, full ring or not.
LEMMA SnapshotIs == RingOK => SnapshotFacts
<1> SUFFICES ASSUME RingOK PROVE SnapshotFacts
  OBVIOUS
<1>1. Size \in Nat \ {0} /\ head \in 0 .. Size - 1 /\ Filled \in 0 .. Size
  BY TriggersAssumption DEF RingOK, Filled
<1>2. Snapshot = [i \in 1 .. Filled |-> buf[Place(head, i)]]
  BY DEF Snapshot, Filled, Place
<1>3. ASSUME NEW i \in 1 .. Filled
      PROVE  Place(head, i) \in 0 .. Size - 1 /\ buf[Place(head, i)] \in Entries
  <2>1. Place(head, i) = IF i <= head THEN head - i ELSE head - i + Size
    BY <1>1, PlaceIs
  <2>2. Place(head, i) \in 0 .. Size - 1
    BY <1>1, <2>1
  <2> QED
    BY <2>2 DEF RingOK, Entries
<1> QED
  BY <1>1, <1>2, <1>3 DEF SnapshotFacts

\* The place of a push: what was the i-th newest event is the next older one afterwards.
LEMMA PushMoves ==
  ASSUME RingOK, NEW e \in Calls, Push(e)
  PROVE  /\ RingOK'
         /\ Filled' = IF full THEN Size ELSE Filled + 1
         /\ Place(head', 1) = head
         /\ \A i \in 1 .. Size - 1 : Place(head', i + 1) = Place(head, i) /\ Place(head, i) # head
<1>1. Size \in Nat \ {0} /\ head \in 0 .. Size - 1 /\ full \in BOOLEAN
  BY TriggersAssumption DEF RingOK
<1>2. head' = IF head + 1 = Size THEN 0 ELSE head + 1
  <2>1. head' = (head + 1) % Size
    BY DEF Push
  <2>2. CASE head + 1 \in 0 .. Size - 1
    BY <1>1, <2>1, <2>2
  <2>3. CASE head + 1 = Size
    <3>1. Size % Size = 0
      BY <1>1
    <3> QED
      BY <2>1, <2>3, <3>1
  <2> QED
    BY <1>1, <2>2, <2>3
<1>3. buf' = [buf EXCEPT ![head] = e] /\ full' = (full \/ head' = 0)
  BY DEF Push
<1>4. RingOK'
  BY <1>1, <1>2, <1>3 DEF RingOK
<1>5. Filled' = IF full THEN Size ELSE Filled + 1
  <2>1. CASE full
    BY <1>3, <2>1 DEF Filled
  <2>2. CASE ~full /\ head' = 0
    <3>1. full' /\ Filled = head /\ head + 1 = Size
      <4>1. full'
        BY <1>3, <2>2, Zenon
      <4>2. Filled = head
        BY <2>2 DEF Filled
      <4>3. head + 1 = Size
        BY <1>1, <1>2, <2>2
      <4> QED
        BY <4>1, <4>2, <4>3
    <3>2. Filled' = Size
      BY <3>1 DEF Filled
    <3> QED
      BY <2>2, <3>1, <3>2
  <2>3. CASE ~full /\ head' # 0
    BY <1>1, <1>2, <1>3, <2>3 DEF Filled
  <2> QED
    BY <2>1, <2>2, <2>3
<1>6. head' \in 0 .. Size - 1
  BY <1>1, <1>2
<1>7. Place(head', 1) = head
  <2>1. Place(head', 1) = IF 1 <= head' THEN head' - 1 ELSE head' - 1 + Size
    BY <1>1, <1>6, PlaceIs
  <2> QED
    BY <1>1, <1>2, <2>1
<1>8. ASSUME NEW i \in 1 .. Size - 1
      PROVE  Place(head', i + 1) = Place(head, i) /\ Place(head, i) # head
  <2> DEFINE k == i + 1
  <2>1. k \in 0 .. Size /\ i \in 0 .. Size
    BY <1>1
  <2> HIDE DEF k
  <2>2. /\ Place(head', k) = IF k <= head' THEN head' - k ELSE head' - k + Size
        /\ Place(head, i) = IF i <= head THEN head - i ELSE head - i + Size
    BY <1>1, <1>6, <2>1, PlaceIs
  <2>3. k = i + 1
    BY DEF k
  <2>4. Place(head', k) = Place(head, i) /\ Place(head, i) # head
    BY <1>1, <1>2, <2>2, <2>3
  <2> QED
    BY <2>4 DEF k
<1> QED
  BY <1>4, <1>5, <1>7, <1>8

\* So a push adds in front, and drops the last when the ring is full.
LEMMA PushAdds == ASSUME RingOK, NEW e \in Calls, Push(e) PROVE Recent!Add(e)
<1> DEFINE S == Snapshot
           all == <<e>> \o S
           next == IF Len(all) > Size THEN SubSeq(all, 1, Size) ELSE all
           n == Filled
<1>1. Size \in Nat \ {0} /\ n \in 0 .. Size /\ (full => n = Size)
  BY TriggersAssumption DEF RingOK, Filled
<1>2. /\ RingOK' /\ Filled' = (IF full THEN Size ELSE n + 1)
      /\ Place(head', 1) = head
      /\ \A i \in 1 .. Size - 1 : Place(head', i + 1) = Place(head, i) /\ Place(head, i) # head
  BY PushMoves
<1>3. /\ S \in Seq(Entries) /\ Len(S) = n
      /\ \A i \in 1 .. n : Place(head, i) \in 0 .. Size - 1 /\ S[i] = buf[Place(head, i)]
  BY SnapshotIs DEF SnapshotFacts
<1>4. /\ Snapshot' \in Seq(Entries)' /\ Len(Snapshot') = Filled' /\ Filled' \in 0 .. Size
      /\ \A i \in 1 .. Filled' : Snapshot'[i] = buf'[Place(head', i)]
  <2>1. SnapshotFacts'
    BY <1>2, SnapshotIs, PTL
  <2> QED
    BY <2>1 DEF SnapshotFacts, Place
<1>5. Seq(Entries)' = Seq(Entries)
  BY DEF Entries, Calls, None
<1>6. /\ <<e>> \in Seq(Entries) /\ Len(<<e>>) = 1 /\ <<e>>[1] = e
  BY DEF Entries
<1>7. /\ all \in Seq(Entries) /\ Len(all) = n + 1
      /\ \A i \in 1 .. n + 1 : all[i] = IF i = 1 THEN e ELSE S[i - 1]
  <2> HIDE DEF S, n
  <2>1. /\ all \in Seq(Entries) /\ Len(all) = 1 + n
        /\ \A i \in 1 .. 1 + n : all[i] = IF i <= 1 THEN <<e>>[i] ELSE S[i - 1]
    BY <1>3, <1>6, ConcatProperties
  <2> QED
    BY <1>1, <1>6, <2>1
<1>8. /\ next \in Seq(Entries) /\ Len(next) = Filled'
      /\ \A i \in 1 .. Filled' : next[i] = all[i]
  <2> HIDE DEF all, n
  <2>1. CASE full
    <3>1. Len(all) > Size /\ Filled' = Size
      BY <1>1, <1>2, <1>7, <2>1
    <3>2. \A i \in 1 .. Size : all[i] \in Entries
      BY <1>1, <1>7, <3>1
    <3>3. /\ SubSeq(all, 1, Size) \in Seq(Entries) /\ Len(SubSeq(all, 1, Size)) = Size
          /\ \A i \in 1 .. Size : SubSeq(all, 1, Size)[i] = all[i]
      <4>1. /\ SubSeq(all, 1, Size) \in Seq(Entries)
            /\ Len(SubSeq(all, 1, Size)) = IF 1 <= Size THEN Size - 1 + 1 ELSE 0
            /\ \A i \in 1 .. Size - 1 + 1 : SubSeq(all, 1, Size)[i] = all[1 + i - 1]
        BY <1>1, <3>2, SubSeqProperties
      <4> QED
        BY <1>1, <4>1
    <3> QED
      BY <3>1, <3>3
  <2>2. CASE ~full
    <3>1. Filled' = n + 1 /\ n < Size
      BY <1>1, <1>2, <2>2 DEF RingOK, Filled, n
    <3> QED
      BY <1>1, <1>7, <3>1
  <2> QED
    BY <2>1, <2>2
<1>9. \A i \in 1 .. Filled' : Snapshot'[i] = all[i]
  <2> SUFFICES ASSUME NEW i \in 1 .. Filled' PROVE Snapshot'[i] = all[i]
    OBVIOUS
  <2> HIDE DEF all, S, n
  <2>1. Snapshot'[i] = buf'[Place(head', i)] /\ Filled' \in 0 .. Size /\ i <= n + 1
        /\ i \in Nat
    BY <1>1, <1>2, <1>4
  <2>2. buf \in [0 .. Size - 1 -> Entries] /\ buf' = [buf EXCEPT ![head] = e]
        /\ head \in 0 .. Size - 1
    BY DEF Push, RingOK, Entries
  <2>3. CASE i = 1
    BY <1>1, <1>2, <1>7, <2>1, <2>2, <2>3
  <2>4. CASE i # 1
    <3> DEFINE j == i - 1
    <3>1. j \in 1 .. Size - 1 /\ j \in 1 .. n /\ i = j + 1
      BY <1>1, <2>1, <2>4
    <3> HIDE DEF j
    <3>2. Place(head', i) = Place(head, j) /\ Place(head, j) # head
          /\ Place(head, j) \in 0 .. Size - 1 /\ S[j] = buf[Place(head, j)]
      BY <1>2, <1>3, <3>1
    <3>3. all[i] = S[j]
      BY <1>1, <1>7, <2>1, <2>4 DEF j
    <3> QED
      BY <2>1, <2>2, <3>2, <3>3
  <2> QED
    BY <2>3, <2>4
<1>10. Snapshot' = next
  BY <1>4, <1>5, <1>8, <1>9, SeqEqual
<1> QED
  BY <1>10 DEF Recent!Add

\* An empty ring shows nothing.
LEMMA RingStarts == TriggersInit => RingOK /\ Snapshot = <<>>
<1> SUFFICES ASSUME TriggersInit PROVE RingOK /\ Snapshot = <<>>
  OBVIOUS
<1>1. RingOK /\ Filled = 0
  <2>1. Size \in Nat \ {0} /\ head = 0 /\ ~full /\ full \in BOOLEAN
        /\ buf = [i \in 0 .. Size - 1 |-> None]
    BY TriggersAssumption DEF TriggersInit
  <2>2. Filled = 0
    BY <2>1 DEF Filled
  <2> QED
    BY <2>1, <2>2 DEF RingOK
<1>2. Snapshot \in Seq(Entries) /\ Len(Snapshot) = 0
  BY <1>1, SnapshotIs DEF SnapshotFacts
<1> QED
  BY <1>1, <1>2

\* Every step of the triggers adds one event to the list or leaves the list alone.
LEMMA RingSteps ==
  ASSUME TriggerInv, RingOK, [TriggersNext]_triggerVars
  PROVE  RingOK' /\ ((\E e \in Calls : Recent!Add(e)) \/ UNCHANGED Snapshot)
<1>1. ASSUME NEW c \in Callers, Record(c)
      PROVE  RingOK' /\ \E e \in Calls : Recent!Add(e)
  <2>1. Current(c) \in Calls
    BY <1>1 DEF Record, TriggerInv, UnderWay, Current, Calls
  <2>2. PICK e \in Calls : e = Current(c)
    BY <2>1
  <2>3. Push(e)
    BY <1>1, <2>2 DEF Record, Push
  <2> QED
    BY <2>3, PushMoves, PushAdds
<1>2. CASE UNCHANGED ring
  BY <1>2 DEF ring, RingOK, Snapshot
<1>3. ASSUME ~(\E c \in Callers : Record(c)) PROVE UNCHANGED ring
  <2>1. ASSUME NEW c \in Callers, Look(c) \/ PublishEvent(c) \/ Tell(c) PROVE UNCHANGED ring
    BY <2>1 DEF Look, PublishEvent, Tell
  <2>2. ASSUME NEW e \in Editors, Persist(e) \/ Load(e) \/ Install(e) \/ Update(e)
        PROVE  UNCHANGED ring
    BY <2>2 DEF Persist, Load, Install, Update
  <2>3. CASE BeginStart \/ EndStart
    BY <2>3 DEF BeginStart, EndStart
  <2>4. CASE UNCHANGED triggerVars
    BY <2>4 DEF triggerVars
  <2> QED
    BY <1>3, <2>1, <2>2, <2>3, <2>4 DEF TriggersNext
<1> QED
  BY <1>1, <1>2, <1>3

\* The ring of ring.go, read as Status reads it, is the list of the last Size events with the
\* newest first, at every position of its head (ImplementsRecent), for every size.
THEOREM RingIsRecent == TriggersSpec => ImplementsRecent
<1>1. TriggersInit => RingOK /\ Recent!Init
  BY RingStarts DEF Recent!Init
<1>2. TriggerInv /\ RingOK /\ [TriggersNext]_triggerVars => RingOK' /\ [Recent!Next]_Snapshot
  BY RingSteps DEF Recent!Next
<1> QED
  BY <1>1, <1>2, TriggersAlways, PTL DEF TriggersSpec, ImplementsRecent, Recent!Spec
=============================================================================
