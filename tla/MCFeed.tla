-------------------------------- MODULE MCFeed --------------------------------
(* LiveFeed on a small instance: model values come from the cfg. *)
EXTENDS LiveFeed, TLC

\* For the safety run; the liveness run declares no symmetry.
Symmetry == Permutations(Claims) \cup Permutations(Conns) \cup Permutations(Instruments)
=============================================================================
