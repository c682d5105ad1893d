----------------------------- MODULE MCNetctl -------------------------------
(* Small instances of Netctl for TLC.                                      *)
EXTENDS Netctl

CONSTANTS admin, admin2, poller, ka, kb, kx

ThreeKeys == {ka, kb, kx}
Order    == [k \in ThreeKeys |-> IF k = ka THEN 1 ELSE 0]
(* kb cuts SSH off; the manager refuses kx.                                *)
SshRule  == <<{"-p"}, {"tcp"}, {"--dports"}, {"22", "443"}, {"-j"}, {"drop"}>>
Texts    == [k \in ThreeKeys |->
               [table |-> "filter", chain |-> IF k = kb THEN "input" ELSE "forward",
                words |-> CASE k = ka -> <<{"-j"}, {"accept"}>> [] k = kb -> SshRule
                            [] OTHER -> <<{"$"}>>]]
Rules    == <<kb>>
NoRules  == <<>>
Declared == {{}, {ka}, {ka, kb}, {kb, kx}}
Leftover == {[id |-> 0, src |-> "user", key |-> ka, at |-> 1]}

Alone(kinds) == [t \in {admin, poller} |-> IF t = admin THEN kinds ELSE {}]

(* One operation at a time, dropped anywhere; an admin beside the control  *)
(* center's rules; a reconcile beside them.                                *)
OneByOne == Alone(AllKinds \ {"control"})
Beside(kinds) == [t \in {admin, poller} |-> IF t = poller THEN {"control"} ELSE kinds]
Together    ==
  {OneByOne, Beside({"register", "remove", "subnet", "giveup"}), Beside({"register", "reconcile", "giveup"})}
TwoAdmins   == {[t \in {admin, admin2} |-> {"register", "reconcile"}]}
Removing    == {[t \in {admin, admin2} |-> {"register", "remove"}]}
TwoPollers  == {[t \in {admin, poller} |-> {"control"}]}
Reconciling == {Alone({"register", "remove", "reconcile"})}
=============================================================================
