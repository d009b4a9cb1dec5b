--------------------------- MODULE MCPayoutManager ---------------------------
(* Instances of PayoutManager for TLC. *)
EXTENDS PayoutManager, TLC

CONSTANTS a1, a2, h1, h2, h3, c1, c2

Symmetry == Permutations(Accounts) \cup Permutations(Hashes) \cup Permutations(Conns)
=============================================================================
