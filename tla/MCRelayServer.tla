---------------------------- MODULE MCRelayServer ----------------------------
(* Small instances of RelayServer for TLC. *)
EXTENDS RelayServer

Funds(worker, manager, hub, quota) ==
    [a \in Accounts |-> CASE a = "worker" -> worker [] a = "manager" -> manager
                          [] a = "hub" -> hub [] a = "quota" -> quota]

FundsOffered == {Funds(2, 4, 16, 1)}
==============================================================================
