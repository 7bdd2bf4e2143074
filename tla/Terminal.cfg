\* Small histories of keys and requests; a log of two records.  A terminal that has ended
\* does nothing more.
SPECIFICATION Spec
CONSTANTS
    p = p
    q = q
    u = u
    v = v
    h1 = h1
    h2 = h2
    None = None
    Items = {p, q, u, v}
    Topics <- MCTopics
    Typed = {"motion"}
    First <- MCFirst
    Handlers = {h1, h2}
    Bridged = TRUE
    LogCap = 2
    Scenarios <- MCScenarios
CHECK_DEADLOCK FALSE
INVARIANTS
    TypeOK
    DeletesAsConfirmed
    LogFaithful
PROPERTIES
    FlashLasts
    QuitEnds
