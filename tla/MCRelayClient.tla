--------------------------- MODULE MCRelayClient ---------------------------
(* Small instances of RelayClient for TLC: two relays, of which one is     *)
(* preferred, and a preferred url that is not registered any more.                    *)
EXTENDS RelayClient

CONSTANTS c1, c2, a, b, x, ma, mb, mx

PreferredTwo == <<a, x>>
ManagerOfUrl == (a :> ma) @@ (b :> mb) @@ (x :> mx)
===========================================================================
