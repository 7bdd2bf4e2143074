---------------------------- MODULE EventTriggers -----------------------------
(***************************************************************************)
(* Triggers and the ring of recent events: internal/simulator/triggers.go  *)
(* and ring.go, with the steps of lifecycle.go and simulator.go that       *)
(* decide which topics are enabled.                                        *)
(*                                                                         *)
(* A trigger looks at the configuration in memory, publishes, where the    *)
(* broker looks at a copy of its own, and records the event whatever the   *)
(* broker did with it.  Nothing is locked from one step to the next, and   *)
(* edits and a Start change the two copies in between.  A call of a        *)
(* trigger is its caller and a number; what subscribers get of what is     *)
(* published is in EventBroker.                                            *)
(***************************************************************************)
EXTENDS Integers, Sequences, FiniteSets

CONSTANTS
    Callers,    \* goroutines that trigger events: UIs, the control server
    Editors,    \* goroutines that edit the topics
    TopicNames, \* names of the configured topics
    Size,       \* eventRing.size
    MaxCalls, MaxEdits, MaxStarts

ASSUME TriggersAssumption ==
    /\ Size \in Nat \ {0}
    /\ MaxCalls \in Nat /\ MaxEdits \in Nat /\ MaxStarts \in Nat

VARIABLES
    disk,       \* topics enabled on file
    memory,     \* and in Simulator.cfg
    broker,     \* and in Broker.cfg
    editor,     \* per editor, the step it is at and what it has read
    starter,    \* the same of Start
    call,       \* per caller, the step it is at and the topic
    buf, head, full,    \* the ring
    calls, edits, starts,
    published,  \* history: calls whose event the broker took
    recorded,   \* history: calls whose event is in the ring or was
    told,       \* history: calls whose event OnEvent has been told
    doubt       \* history: calls that met the two copies at odds about their topic

topics == <<disk, memory, broker>>
ring == <<buf, head, full>>
limits == <<calls, edits, starts>>
history == <<published, recorded, told, doubt>>
triggerVars == <<topics, editor, starter, call, ring, limits, history>>

Calls == Callers \X (1 .. MaxCalls)
None == <<"none", 0>>
Current(c) == <<c, calls[c]>>
At(step, read) == [step |-> step, read |-> read]

-----------------------------------------------------------------------------
(* The ring *)

\* The ring is taken for full one event late.
MutPush(e) ==
    /\ buf' = [buf EXCEPT ![head] = e]
    /\ head' = (head + 1) % Size
    /\ full' = (full \/ (head = 0 /\ buf[0] # None))
Push(e) ==
    /\ buf' = [buf EXCEPT ![head] = e]
    /\ head' = (head + 1) % Size
    /\ full' = (full \/ head' = 0)

Snapshot ==
    LET n == IF full THEN Size ELSE head
    IN [i \in 1 .. n |-> buf[(head - i + Size) % Size]]

-----------------------------------------------------------------------------
(* Triggers *)

\* A trigger does not look at the configuration.
MutLook(c) ==
    /\ call[c].step = "idle" /\ calls[c] < MaxCalls
    /\ \E t \in TopicNames :
        /\ call' = [call EXCEPT ![c] = [step |-> "publish", topic |-> t]]
        /\ calls' = [calls EXCEPT ![c] = @ + 1]
        /\ doubt' = IF (t \in broker) = (t \in memory) THEN doubt ELSE doubt \cup {<<c, calls[c] + 1>>}
    /\ UNCHANGED <<topics, editor, starter, ring, edits, starts, published, recorded, told>>
\* topicEnabled: a topic that is disabled ends the call.
Look(c) ==
    /\ call[c].step = "idle" /\ calls[c] < MaxCalls
    /\ \E t \in memory :
        /\ call' = [call EXCEPT ![c] = [step |-> "publish", topic |-> t]]
        /\ calls' = [calls EXCEPT ![c] = @ + 1]
        /\ doubt' = IF t \in broker THEN doubt ELSE doubt \cup {<<c, calls[c] + 1>>}
    /\ UNCHANGED <<topics, editor, starter, ring, edits, starts, published, recorded, told>>

PublishEvent(c) ==
    /\ call[c].step = "publish"
    /\ published' = IF call[c].topic \in broker THEN published \cup {Current(c)} ELSE published
    /\ call' = [call EXCEPT ![c].step = "record"]
    /\ UNCHANGED <<topics, editor, starter, ring, limits, recorded, told, doubt>>

\* recordEvent: the ring, then the callback.
Record(c) ==
    /\ call[c].step = "record"
    /\ Push(Current(c))
    /\ recorded' = recorded \cup {Current(c)}
    /\ call' = [call EXCEPT ![c].step = "tell"]
    /\ UNCHANGED <<topics, editor, starter, limits, published, told, doubt>>

Tell(c) ==
    /\ call[c].step = "tell"
    /\ told' = told \cup {Current(c)}
    /\ call' = [call EXCEPT ![c].step = "idle"]
    /\ UNCHANGED <<topics, editor, starter, ring, limits, published, recorded, doubt>>

-----------------------------------------------------------------------------
(* What decides the topics *)

\* The calls under way that now meet the copies at odds.
Doubted ==
    doubt' = doubt \cup
        {Current(c) : c \in {d \in Callers : call[d].step # "idle"
                                             /\ (call[d].topic \in memory') # (call[d].topic \in broker')}}

\* SetTopicEnabled, SetEventsTopics: the file, then reloadFromDisk.
Persist(e) ==
    /\ editor[e].step = "idle" /\ edits < MaxEdits
    /\ \E ts \in SUBSET TopicNames : disk' = ts
    /\ edits' = edits + 1
    /\ editor' = [editor EXCEPT ![e] = At("load", {})]
    /\ UNCHANGED <<memory, broker, starter, call, ring, calls, starts, history>>

Load(e) ==
    /\ editor[e].step = "load"
    /\ editor' = [editor EXCEPT ![e] = At("install", disk)]
    /\ UNCHANGED <<topics, starter, call, ring, limits, history>>

Install(e) ==
    /\ editor[e].step = "install"
    /\ memory' = editor[e].read
    /\ editor' = [editor EXCEPT ![e].step = "update"]
    /\ UNCHANGED <<disk, broker, starter, call, ring, limits, published, recorded, told>>
    /\ Doubted

Update(e) ==
    /\ editor[e].step = "update"
    /\ broker' = editor[e].read
    /\ editor' = [editor EXCEPT ![e] = At("idle", {})]
    /\ UNCHANGED <<disk, memory, starter, call, ring, limits, published, recorded, told>>
    /\ Doubted

\* Start takes a copy, probes the media, and gives the broker the topics of its copy.
BeginStart ==
    /\ starter.step = "idle" /\ starts < MaxStarts
    /\ starts' = starts + 1
    /\ starter' = At("probe", memory)
    /\ UNCHANGED <<topics, editor, call, ring, calls, edits, history>>

EndStart ==
    /\ starter.step = "probe"
    /\ broker' = starter.read
    /\ starter' = At("idle", {})
    /\ UNCHANGED <<disk, memory, editor, call, ring, limits, published, recorded, told>>
    /\ Doubted

-----------------------------------------------------------------------------
\* The program has loaded its file and made the broker from it.
TriggersInit ==
    /\ \E ts \in SUBSET TopicNames : disk = ts /\ memory = ts /\ broker = ts
    /\ editor = [e \in Editors |-> At("idle", {})]
    /\ starter = At("idle", {})
    /\ call = [c \in Callers |-> [step |-> "idle", topic |-> ""]]
    /\ buf = [i \in 0 .. Size - 1 |-> None] /\ head = 0 /\ full = FALSE
    /\ calls = [c \in Callers |-> 0] /\ edits = 0 /\ starts = 0
    /\ published = {} /\ recorded = {} /\ told = {} /\ doubt = {}

TriggersNext ==
    \/ \E c \in Callers : Look(c) \/ PublishEvent(c) \/ Record(c) \/ Tell(c)
    \/ \E e \in Editors : Persist(e) \/ Load(e) \/ Install(e) \/ Update(e)
    \/ BeginStart \/ EndStart

TriggersSpec == TriggersInit /\ [][TriggersNext]_triggerVars

-----------------------------------------------------------------------------
(* Properties *)

\* The ring, as Status reads it, is the list of recent events: the newest first, all of
\* the last Size of them and none twice, before, at and after the wrap of its head.
Recent == INSTANCE RecentEvents WITH Event <- Calls, recent <- Snapshot
ImplementsRecent == Recent!Spec

\* An event that is shown as recent was published, or the configuration and the broker
\* were at odds about its topic at some time while its trigger was under way; and whatever
\* was published is shown, and whoever listens has heard of it, once its trigger has returned.
RecordedAsPublished ==
    /\ recorded \subseteq published \cup doubt
    /\ \A x \in published :
           x \in recorded \cap told \/ (call[x[1]].step # "idle" /\ x = Current(x[1]))

\* What simulator.go says of reloadFromDisk: it updates live state after every successful
\* mutator.  Once one edit is done, and no Start is under way, the broker has its topics.
\* It fails: a Start that began before the edit gives the broker the topics from then.
EditsAreLive ==
    (edits <= 1 /\ starter.step = "idle" /\ \A e \in Editors : editor[e].step = "idle")
    => broker = disk

=============================================================================
