----------------------- MODULE MCTransactionManager -----------------------
(* Small instances of TransactionManager for TLC. *)
EXTENDS TransactionManager, TLC

CONSTANTS r1, r2, r3

(* One call on the manager's key and two on the worker's: both keys share  *)
(* nonceMutex, and one of them has consecutive nonces.                     *)
BothKeys == [r \in {r1, r2, r3} |-> IF r = r1 THEN Manager ELSE Worker]

(* Two calls with consecutive nonces. *)
OneKey == [r \in {r1, r2} |-> Worker]

(* Nothing distinguishes the two calls on the worker's key. *)
RequestSymmetry == Permutations({r2, r3})
===========================================================================
