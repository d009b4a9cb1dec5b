-------------------------- MODULE MCShareValidation --------------------------
(* Instances of ShareValidation for TLC. *)
EXTENDS ShareValidation, TLC

CONSTANTS c1, c2, h1, a1, a2, ip1, ip2

\* The first nonce yields a block, the second an ordinary share, the third one below the
\* minimum difficulty.
Quality == [s \in Shares |-> <<"block", "share", "below">>[s[2]]]

Symmetry == Permutations(Conns) \cup Permutations(Accounts) \cup Permutations(Addresses)
=============================================================================
