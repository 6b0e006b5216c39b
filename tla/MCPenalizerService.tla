----------------------- MODULE MCPenalizerService -----------------------
(* Small instances of PenalizerService for TLC. *)
EXTENDS PenalizerService

CONSTANTS p1, p2, p3, h1, h2, o1

(* All penalizations are about the same worker. *)
OneOffender == [p \in {p1, p2, p3} |-> o1]
TwoOfOne == [p \in {p1, p2} |-> o1]
=========================================================================
