----------------------------- MODULE MCWgPeers ------------------------------
(* Small instances of WgPeers for TLC.                                     *)
EXTENDS WgPeers, TLC

CONSTANTS u1, u2, k1, r1, r2

(* A /30 with one peer address, a /29 that contains it, a /30 beside it    *)
(* and a /31 with no host.                                                 *)
Narrow == [net |-> 0, bcast |-> 3]
Wide   == [net |-> 0, bcast |-> 7]
Beside == [net |-> 4, bcast |-> 7]
Tiny   == [net |-> 0, bcast |-> 1]
AllSubnets == {Narrow, Wide, Beside, Tiny}

Scope(us, rs, nets, ks, kinds) ==
  [users |-> us, reqs |-> rs, subnets |-> nets, keys |-> ks, kinds |-> kinds]

(* One request at a time, with two disjoint subnets ...                    *)
Serial == Scope({u1}, {r1}, {Narrow, Beside}, {},
                {"enable", "disable", "patch", "reload", "control", "start", "stop", "giveup"})
(* ... two enables at a time ...                                           *)
Concurrent == Scope({u1, u2}, {r1, r2}, {Wide}, {k1}, {"enable", "giveup"})
(* ... and one request beside the reconciler.                              *)
Reconciled == Scope({u1}, {r1}, {Wide}, {k1},
                    {"enable", "disable", "rotate", "start", "stop", "giveup", "sync"})
Together == {Serial, Concurrent, Reconciled}

OneOf(kinds)  == Scope({u1}, {r1}, {Wide}, {}, kinds)
TwoOf(kinds)  == Scope({u1}, {r1, r2}, {Wide}, {}, kinds)

Seeding        == {TwoOf({"enable", "start"})}
EnableOnly     == {OneOf({"enable"})}
EnableTwice    == {TwoOf({"enable"})}
StartStop      == {TwoOf({"start", "stop"})}
EnableDisable  == {Scope({u1, u2}, {r1, r2}, {Wide}, {}, {"enable", "disable"})}
EnableRotate   == {Scope({u1}, {r1}, {Wide}, {k1}, {"enable", "rotate", "sync"})}
EnablePatch    == {Scope({u1}, {r1, r2}, {Narrow, Beside}, {}, {"enable", "patch"})}
Patching       == {Scope({u1}, {r1}, AllSubnets, {}, {"patch"})}
=============================================================================
