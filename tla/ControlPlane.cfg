\* Two callers with three calls between them, two users with one password, one edit
\* of the file by hand: a late edit of the store and a replacement by another user's
\* call fit in.
CONSTANTS
    Callers = {c1, c2}
    Users = {u1, u2}
    Passwords = {p1}
    Absent = Absent
    FirstFiles <- MCFirstFiles
    MaxCalls = 3
    MaxEdits = 1
SPECIFICATION Spec
SYMMETRY Symmetry
INVARIANTS AloneSyncs RestIsRecent
\* Nobody has to call, and MaxCalls bounds the calls.
CHECK_DEADLOCK FALSE
