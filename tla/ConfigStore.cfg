\* Three concurrent updates, two processes creating the file, crashes anywhere.
CONSTANTS
    Updates = {u1, u2, u3}
    Starters = {s1, s2}
    NoFile = NoFile
    Nobody = Nobody
SPECIFICATION StoreSpec
INVARIANTS FileIntact
PROPERTIES ImplementsRegister
CHECK_DEADLOCK FALSE
