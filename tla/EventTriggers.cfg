\* Six events in a ring of two; two edits and a Start between the steps of a trigger.
\* A program that nobody calls does nothing: no deadlock check.
SPECIFICATION TriggersSpec
CONSTANTS
    Callers = {c1, c2}
    Editors = {e1, e2}
    TopicNames = {"motion"}
    Size = 2
    MaxCalls = 3
    MaxEdits = 2
    MaxStarts = 1
CHECK_DEADLOCK FALSE
INVARIANTS
    RecordedAsPublished
PROPERTIES
    ImplementsRecent
