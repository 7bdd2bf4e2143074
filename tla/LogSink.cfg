\* Two goroutines that log, two that reload or close, three generations.
CONSTANTS
    Writers = {h1, h2}
    Swappers = {s1, s2}
    MaxGen = 3
SPECIFICATION FairSinkSpec
INVARIANTS RefsCountHolders
PROPERTIES ReplacedAreClosed
\* Nobody has to log or to reload, and MaxGen bounds the reloads.
CHECK_DEADLOCK FALSE
