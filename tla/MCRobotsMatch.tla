--------------------------- MODULE MCRobotsMatch ---------------------------
(***************************************************************************)
(* Instances of RobotsMatch for TLC: two workers, a host A with a URL that *)
(* its robots.txt disallows and one that it allows, a host B without rules.*)
(***************************************************************************)
EXTENDS RobotsMatch, TLC

CONSTANTS a1, a2, b1, A, B, w1, w2, noURL

MCURL == {a1, a2, b1}
MCHost == {A, B}
MCWorker == {w1, w2}
MCHostOf == a1 :> A @@ a2 :> A @@ b1 :> B
MCDisallow == A :> {a2} @@ B :> {}
=============================================================================
