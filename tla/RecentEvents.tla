----------------------------- MODULE RecentEvents -----------------------------
(* What Status promises of recent events: the last Size of them, the newest first. *)
EXTENDS Naturals, Sequences

CONSTANTS Event, Size
VARIABLE recent

Init == recent = <<>>
Add(e) ==
    LET all == <<e>> \o recent
    IN recent' = IF Len(all) > Size THEN SubSeq(all, 1, Size) ELSE all
Next == \E e \in Event : Add(e)
Spec == Init /\ [][Next]_recent
=============================================================================
