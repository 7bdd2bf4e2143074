\* A client can always ask again: no deadlock.
SPECIFICATION Spec
CONSTANTS
    digest = digest
    mixed = mixed
    token = token
    again = again
    writer = writer
    None = None
    Clients = {digest, mixed, token, again, writer}
    Parties <- MCParties
    Requests <- MCRequests
    Records <- MCRecords
    Settings <- MCSettings
    Nonces <- MCNonces
    Decoded <- MCDecoded
    Skew = 1
    NonceTTL = 1
    MaxSize = 1
    MaxTime = 3
    MaxRebuilds = 1
    MaxChanges = 1
INVARIANTS
    DecisionJustified
PROPERTIES
    TokenAcceptedOnce
    DigestClientServed
