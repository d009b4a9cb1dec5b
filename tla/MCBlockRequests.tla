--------------------------- MODULE MCBlockRequests ---------------------------
(* Instances of BlockRequests for TLC.  The runs check liveness: no symmetry. *)
EXTENDS BlockRequests

CONSTANTS c1, c2, ip1, ip2
=============================================================================
