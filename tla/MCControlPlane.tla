---------------------------- MODULE MCControlPlane ----------------------------
(* ControlPlane for TLC: callers and users are interchangeable.  The file    *)
(* starts out empty, or with one user who must authenticate, or with tokens  *)
(* only.                                                                     *)
EXTENDS ControlPlane, TLC

Symmetry == Permutations(Callers) \cup Permutations(Users)

OneUser(u) == [NoUsers EXCEPT ![u] = CHOOSE p \in Passwords : TRUE]
MCFirstFiles ==
    {NoConfig, [NoConfig EXCEPT !.enabled = TRUE, !.jwt = "good"]}
    \cup {[NoConfig EXCEPT !.users = OneUser(u), !.enabled = TRUE, !.topic = TRUE] :
             u \in Users}
=============================================================================
