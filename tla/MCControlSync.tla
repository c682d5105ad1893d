--------------------------- MODULE MCControlSync ---------------------------
(* Small instances of ControlSync for TLC.                                 *)
EXTENDS ControlSync, TLC

CONSTANTS i1, i2, n1, n2, t1, t2, s1, s2, c1, c2, r1, r2

W(n) == [name |-> n, note |-> t1]

(* A response with every optional section left out.                        *)
Plain == [mode |-> "merge", reset |-> FALSE, cursor |-> None, settings |-> None,
          kind |-> "none", users |-> <<>>, delete |-> {}, hasRules |-> FALSE, rules |-> {}]

(* Full payloads in both modes, Deltas that rename, annotate, delete and   *)
(* contradict themselves, a rules-only response and a bare reset.          *)
MCSnapshots ==
  { [Plain EXCEPT !.kind = "full", !.users = i1 :> W(n1) @@ i2 :> W(n2), !.cursor = c1,
                  !.settings = s2, !.hasRules = TRUE, !.rules = {r1}],
    [Plain EXCEPT !.kind = "full", !.users = i2 :> W(n1), !.mode = "replace",
                  !.reset = TRUE, !.cursor = c2, !.hasRules = TRUE],
    [Plain EXCEPT !.kind = "delta", !.users = i1 :> [name |-> n2, note |-> t2],
                  !.delete = {i1, i2}, !.cursor = c2],
    [Plain EXCEPT !.kind = "delta", !.users = i1 :> [name |-> n2, note |-> t2],
                  !.delete = {i2}, !.cursor = c1],
    [Plain EXCEPT !.hasRules = TRUE, !.rules = {r2}],
    [Plain EXCEPT !.reset = TRUE] }

(* Only what the two-request hazard needs.                                 *)
FewSnapshots ==
  { [Plain EXCEPT !.kind = "full", !.users = i1 :> W(n1), !.cursor = c1] }
=============================================================================
