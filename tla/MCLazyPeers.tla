---------------------------- MODULE MCLazyPeers ----------------------------
(* Keys a and b have one address, as when b's user got that of a's.         *)
EXTENDS LazyPeers
CONSTANTS a, b, c

MCIpOf == [k \in Keys |-> IF k = c THEN "y" ELSE "x"]
MCIps == {"x", "y"}
MCScopes == {{"handshakes"}, {"stop"}, {"pair"}}
MCHandshakes == {{"handshakes", "pair"}}
MCStop == {{"stop"}}
MCQuiet == {{}}
=============================================================================
