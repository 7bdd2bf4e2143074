---------------------------- MODULE MCEventBroker ----------------------------
(* Small instances of EventBroker for TLC. *)
EXTENDS EventBroker, TLC

Motion == <<"VideoSource", "MotionAlarm">>
Digital == <<"Device", "Trigger", "DigitalInput">>

MCTopics == {Motion, Digital}
OneTopic == {Motion}

\* A subscription without a filter, and one for the subtree of one of the topics.
NoFilter == {<<>>}
MCFilters == {<<>>, <<"VideoSource">>}

RawOf(maxPull, maxPush, threshold, enabled) ==
    [maxPull |-> maxPull, maxPush |-> maxPush, threshold |-> threshold,
     timeout |-> 0, enabled |-> enabled]

\* Pull points: one allowed, then the default number with a topic switched off.
\* The push interface is disabled in both.
PullConfigs == {RawOf(1, 0, 0, MCTopics), RawOf(0, 0, 0, {Motion})}

\* Push: one subscription given up at the second failure, then two given up at
\* the third.
PushConfigs == {RawOf(0, 1, 2, {Motion}), RawOf(0, 2, 3, {Motion})}

MCPullLimits == {-1, 0, 1}

Symmetry == Permutations(SubIds)
=============================================================================
