--------------------------- MODULE MCHostSessions ---------------------------
(* HostSessions with two players, the first of whom connects several times. *)
EXTENDS HostSessions, TLC

CONSTANTS p1, p2, c1, c2, c3, c4

\* Two connections of the first player and one of the second.
FewConns == {c1, c2, c4}
FewPeerOf == (c1 :> p1) @@ (c2 :> p1) @@ (c4 :> p2)

\* A third connection of the first player.
MoreConns == {c1, c2, c3, c4}
MorePeerOf == (c1 :> p1) @@ (c2 :> p1) @@ (c3 :> p1) @@ (c4 :> p2)

\* The first player's connections are interchangeable.
ConnSymmetry == Permutations({c1, c2, c3})
=============================================================================
