------------------------- MODULE MCRemoteConversion -------------------------
(* Instances of RemoteConversion for TLC.                                  *)
EXTENDS RemoteConversion

CONSTANTS mac, node

TwoBackends == {mac, node}
MacFirst == <<mac, node>>
OneEach == [b \in TwoBackends |-> 1]
=============================================================================
