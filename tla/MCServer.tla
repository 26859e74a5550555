-------------------------------- MODULE MCServer --------------------------------
(* Instances of Server for TLC: connections to both ports.                  *)
EXTENDS Server, TLC

CONSTANTS wss, auth, c1, c2

Ports == {wss, auth}
TwoConns == {c1, c2}
TwoPorts == c1 :> wss @@ c2 :> auth

=============================================================================
