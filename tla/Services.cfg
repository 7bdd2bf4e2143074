\* Every operation in every form, races, the UI beside a restart, Probes of a hiding device.
SPECIFICATION Spec
CONSTANTS
    None = None
    Clients = {"tourist", "ann", "bob", "screen", "watcher", "keeper"}
    Requests <- MCRequests
    Turns <- MCTurns
    Scenarios <- MCScenarios
    Items = {"admin", "x", "y", "bad", "street", "house", "dotted", "elsewhere"}
    Invalid = {"bad"}
    Tokens = {"main", "main_JPEG", "side", "side_JPEG", "side_2", "side_3"}
    Sibling <- MCSibling
    Candidates <- MCCandidates
    First <- MCFirst
    Probes <- MCProbes
    Types = {"tds:Device"}
    Authority <- MCAuthority
    Path <- MCPath
    Dots = {".", ".."}
INVARIANTS
    TypeOK
    AnswersTellTruth
    ProfilesKept
PROPERTIES
    SetIsSeen
    QuietAfterStop
    HiddenIsSilent
\* The requests, starts and Probes of a scenario come to an end.
CHECK_DEADLOCK FALSE
