------------------------- MODULE SubscriptionService -------------------------
(***************************************************************************)
(* What a client of the event service may rely on, with nothing of how the *)
(* broker does it: no clock, no map, no reaper, no failure counters.       *)
(*                                                                         *)
(* A subscription is unborn, then active, then ended, and an ended one     *)
(* never comes back.  While it is active it owns a mailbox that receives   *)
(* every event its filter asks for, in the order of publication; a full    *)
(* mailbox forgets its oldest event to take the newest.  Events are        *)
(* handed out from the old end, each at most once.                         *)
(***************************************************************************)
EXTENDS Integers, Sequences

CONSTANTS SubIds,     \* subscription identifiers
          Topics,     \* topics an event can be published on
          Payloads,   \* what an event carries
          Depth       \* capacity of a mailbox

VARIABLES phase,      \* phase[id]: where the subscription is in its life
          interest,   \* interest[id]: topics that reach its mailbox
          box,        \* box[id]: events waiting to be pulled, oldest first
          delivered   \* what the last step handed to a client

svars == <<phase, interest, box, delivered>>

Event == [topic: Topics, payload: Payloads]

Nothing == <<>>

Init ==
    /\ phase = [id \in SubIds |-> "unborn"]
    /\ interest = [id \in SubIds |-> {}]
    /\ box = [id \in SubIds |-> <<>>]
    /\ delivered = Nothing

\* A subscription becomes active with an empty mailbox.
Open(id, I) ==
    /\ phase[id] = "unborn"
    /\ phase' = [phase EXCEPT ![id] = "active"]
    /\ interest' = [interest EXCEPT ![id] = I]
    /\ delivered' = Nothing
    /\ UNCHANGED box

Deposit(s, e) == IF Len(s) < Depth THEN Append(s, e) ELSE Append(Tail(s), e)

\* An event reaches the mailbox of every subscription that wants its topic.
\* Ended and unborn subscriptions want nothing.
Post(e) ==
    /\ box' = [id \in SubIds |->
                 IF e.topic \in interest[id] THEN Deposit(box[id], e) ELSE box[id]]
    /\ delivered' = Nothing
    /\ UNCHANGED <<phase, interest>>

\* A client takes the n oldest events.
Take(id, n) ==
    /\ phase[id] = "active"
    /\ n \in 0 .. Len(box[id])
    /\ delivered' = SubSeq(box[id], 1, n)
    /\ box' = [box EXCEPT ![id] = SubSeq(box[id], n + 1, Len(box[id]))]
    /\ UNCHANGED <<phase, interest>>

\* Active subscriptions end, by request, by running out, or by being given up.
End(S) ==
    /\ \A id \in S : phase[id] = "active"
    /\ phase' = [id \in SubIds |-> IF id \in S THEN "ended" ELSE phase[id]]
    /\ interest' = [id \in SubIds |-> IF id \in S THEN {} ELSE interest[id]]
    /\ box' = [id \in SubIds |-> IF id \in S THEN <<>> ELSE box[id]]
    /\ delivered' = Nothing

Next ==
    \/ \E id \in SubIds, I \in SUBSET Topics : Open(id, I)
    \/ \E e \in Event : Post(e)
    \/ \E id \in SubIds : \E n \in 0 .. Depth : Take(id, n)
    \/ \E S \in SUBSET SubIds : End(S)

Spec == Init /\ [][Next]_svars
=============================================================================
