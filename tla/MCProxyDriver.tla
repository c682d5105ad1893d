--------------------------- MODULE MCProxyDriver ---------------------------
EXTENDS ProxyDriver, TLC
CONSTANTS u1, r1, r2, a, b, g1, k1, recon

(* Credentials change under a driver that stays as it booted; it starts and *)
(* stops under a changing table; it does so with requests dropped at any    *)
(* wait; connections come and go meanwhile.                                *)
AllScopes ==
  {{"enable", "disable", "rotate", "delete", "giveup", "failure"},
   {"start", "stop", "disable", "failure"},
   {"start", "stop", "enable", "restart"},
   {"start", "stop", "giveup", "failure"},
   {"start", "stop", "connect", "giveup", "restart"}}
StopScope == {{"start", "stop"}}
StartStopScope == {{"start", "stop", "giveup"}}
ContendScope == {{"start", "stop", "giveup", "contention"}}
=============================================================================
