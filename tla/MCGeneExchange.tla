--------------------------- MODULE MCGeneExchange ---------------------------
(* Instances of GeneExchange for TLC. *)
EXTENDS GeneExchange, TLC

CONSTANTS alice, bob, g1, g2

\* Everyone was given the same secret.
OneSecret  == [b \in Badges |-> "k0"]

BadgeSymmetry == Permutations(Badges)
=============================================================================
