---------------------------- MODULE MCLiveSource -----------------------------
\* Access units for the model checker: parameter sets on their own, a keyframe with
\* newer sets, one without, a small slice and a large one.
EXTENDS LiveSource

Unit(v, slice, size) == [sps |-> v, pps |-> v, slice |-> slice, size |-> size]
SampleUnits ==
    {Unit(1, "none", 1), Unit(2, "idr", 2), Unit(NoSet, "idr", 1),
     Unit(NoSet, "p", 1), Unit(NoSet, "p", 2)}
=============================================================================
