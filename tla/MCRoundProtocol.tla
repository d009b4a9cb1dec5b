--------------------------- MODULE MCRoundProtocol ---------------------------
(* Instances of RoundProtocol for TLC: its constants are numbers, given in the .cfg. *)
EXTENDS RoundProtocol
=============================================================================
