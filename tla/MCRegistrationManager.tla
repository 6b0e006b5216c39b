----------------------- MODULE MCRegistrationManager -----------------------
(* A small instance of RegistrationManager for TLC. *)
EXTENDS RegistrationManager, TLC

CONSTANTS u1
===========================================================================
