\* Two callers, four calls between them, each a Start, a Stop or a reload.
CONSTANTS
    Callers = {c1, c2}
    MaxCalls = 4
SPECIFICATION FairSpec
INVARIANTS RunningIsUp NothingLeaks
PROPERTIES CallsReturn
\* Nobody has to call, and MaxCalls bounds the calls.
CHECK_DEADLOCK FALSE
