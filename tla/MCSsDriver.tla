----------------------------- MODULE MCSsDriver -----------------------------
(* Small instances of SsDriver for TLC.                                    *)
EXTENDS SsDriver

CONSTANTS u1, p1, p2, r1, r2, c1, c2, c3

Scope(ports, rs, kinds) == [ports |-> ports, reqs |-> rs, kinds |-> kinds]

(* r1 starts and stops; both write credentials and users ...               *)
Credentials == Scope({p1}, {r1, r2},
                     {"enable", "rotate", "disable", "delete", "start", "stop", "failure"})
(* ... or the port.                                                        *)
Listening == Scope({p1, p2}, {r1, r2}, {"patch", "reload", "start", "stop"})
(* One request, dropped anywhere, beside the reconciler.                   *)
Dropped == Scope({p1}, {r1}, {"disable", "giveup", "start", "stop"})
Together == {Credentials, Listening, Dropped}

Aborting  == {Scope({p1}, {r1}, {"start", "stop", "contention"})}
Patching  == {Scope({p1, p2}, {r1, r2}, {"patch", "reload"})}
TwoStops  == {Scope({p1}, {r1, r2}, {"start", "stop"})}
OneStop   == {Scope({p1}, {r1}, {"start", "stop"})}
=============================================================================
