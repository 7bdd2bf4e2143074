\* One client, as clients only read what others read, and four access units; the cache
\* holds a keyframe and one more packet, and a session takes fewer packets than that.
CONSTANTS
    Readers = {r1}
    Units <- SampleUnits
    BufferSize = 2
    CacheCap = 3
    SessionRoom = 2
    MaxUnits = 4
SPECIFICATION FairSpec
INVARIANTS DescribedComplete UnitsInOrder CacheDecodes
PROPERTIES PlayStartsAtKeyframe RequestsReturn
\* Nobody has to push or to connect, and MaxUnits bounds the pushes.
CHECK_DEADLOCK FALSE
