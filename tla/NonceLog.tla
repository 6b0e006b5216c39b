------------------------------ MODULE NonceLog ------------------------------
(***************************************************************************)
(* What the transaction pipeline promises, without store, mutex, polling,  *)
(* boosting, pruning or crashes: each key owns an append-only log of       *)
(* contents.  Position n of the log is the only thing ever published under *)
(* nonce n, and the chain executes the positions in order.                 *)
(***************************************************************************)
EXTENDS Naturals, Sequences

CONSTANTS Keys, Contents

VARIABLES
    log,            \* the contents assigned to nonces 0, 1, ... of each key
    published,      \* [signer, nonce, content] triples seen on the network
    executed        \* the number of nonces executed for each key

logVars == <<log, published, executed>>

LogInit ==
    /\ log = [s \in Keys |-> << >>]
    /\ published = {}
    /\ executed = [s \in Keys |-> 0]

AppendTo(s, c) ==
    /\ log' = [log EXCEPT ![s] = Append(@, c)]
    /\ UNCHANGED <<published, executed>>

Publish(s, n) ==
    /\ n < Len(log[s])
    /\ published' = published \union
                      {[signer |-> s, nonce |-> n, content |-> log[s][n + 1]]}
    /\ UNCHANGED <<log, executed>>

Execute(s) ==
    /\ \E p \in published : p.signer = s /\ p.nonce = executed[s]
    /\ executed' = [executed EXCEPT ![s] = @ + 1]
    /\ UNCHANGED <<log, published>>

LogNext ==
    \E s \in Keys :
        \/ \E c \in Contents : AppendTo(s, c)
        \/ \E n \in 0..(Len(log[s]) - 1) : Publish(s, n)
        \/ Execute(s)

LogSpec == LogInit /\ [][LogNext]_logVars
=============================================================================
