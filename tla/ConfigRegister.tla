---------------------------- MODULE ConfigRegister ----------------------------
(***************************************************************************)
(* What the rest of the simulator takes the configuration file for: one    *)
(* register that is created once, changes by whole edits and never loses   *)
(* one it has acknowledged.  No locks, no temporary files, no crashes.     *)
(***************************************************************************)
CONSTANTS Updates,   \* the edits callers may ask for
          NoFile     \* the file does not exist yet

VARIABLES content,   \* the set of edits the file holds, or NoFile
          acked      \* the edits whose caller was told they are saved

rvars == <<content, acked>>

Init == content \in {NoFile, {}} /\ acked = {}

Create == content = NoFile /\ content' = {} /\ UNCHANGED acked

Commit(u) ==
    /\ content # NoFile
    /\ content' = content \cup {u}
    /\ UNCHANGED acked

\* Only what the register holds is acknowledged.
Acknowledge(u) ==
    /\ content # NoFile
    /\ u \in content
    /\ acked' = acked \cup {u}
    /\ UNCHANGED content

Next == Create \/ \E u \in Updates : Commit(u) \/ Acknowledge(u)

Spec == Init /\ [][Next]_rvars
=============================================================================
