\* Every configuration in turn; timestamps below sixteen, so that a file of five ticks
\* wraps every few passes.  A server can always be started again: no deadlock.
SPECIFICATION Spec
CONSTANTS
    camera = camera
    other = other
    transcoder = transcoder
    sibling = sibling
    file = file
    None = None
    Cameras = {camera, other}
    Transcoders = {transcoder}
    Siblings = {sibling}
    Files = {file}
    Parent <- MCParent
    Configurations <- Pairs
    Samples <- MCSamples
    BufferSize = 1
    Modulus = 16
INVARIANTS
    TypeOK
    HelperHasFiles
    RemovedIsQuiet
PROPERTIES
    TimestampsGrow
    RemovalEnds
