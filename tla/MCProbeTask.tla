----------------------------- MODULE MCProbeTask -----------------------------
(* A station in 192.168.1.0/26, a mask that ends inside an octet; targets   *)
(* in it, beside it under the same three octets, outside every private      *)
(* network, and a text that is no address.                                  *)
EXTENDS TlsProbe

MCSavedTargets == {<<>>, <<192, 168, 1, 300>>, <<172, 32, 0, 9>>, <<192, 168, 1, 9>>}
MCCompiledTarget == <<192, 168, 1, 200>>
MCStation == [address |-> <<192, 168, 1, 5>>, mask |-> <<255, 255, 255, 192>>]
=============================================================================
