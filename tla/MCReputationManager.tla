----------------------- MODULE MCReputationManager -----------------------
(* Small instances of ReputationManager for TLC. *)
EXTENDS ReputationManager

CONSTANT r1
==========================================================================
