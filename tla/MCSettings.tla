---------------------------- MODULE MCSettings ----------------------------
(* Small instances of Settings for TLC.                                    *)
EXTENDS Settings, TLC
CONSTANTS r1, r2

MCDefaults == [domain |-> Unset, subnet |-> "s1", ssPort |-> 4433, wgPort |-> 51820, password |-> Unset, api |-> "enabled"]

(* Passwords are rotated, or columns are edited, or the ports come from    *)
(* the file, or the operator goes read-only.                               *)
Rotations == [files |-> {[password |-> "p1"], <<>>}, overrides |-> {[password |-> "p2"]},
              patches |-> {[password |-> "p1"], [password |-> "p2"]}, snapshots |-> {}]
Edits     == [files |-> {[domain |-> "d1", password |-> "p1"]}, overrides |-> {<<>>},
              patches |-> {[domain |-> "d2"], [domain |-> Unset], [ssPort |-> 8388, subnet |-> "s2"], [wgPort |-> 4500], <<>>},
              snapshots |-> {[ssPort |-> 8388, wgPort |-> 4500]}]
FilePorts == [Edits EXCEPT !.files = {[ssPort |-> 8388, password |-> "p1"]}]
Clearing  == [Edits EXCEPT !.patches = {[subnet |-> Unset]}]
Locked    == [Rotations EXCEPT !.overrides = {[api |-> "readonly"]}]

MCScenarios == {Rotations, Edits}
MCFilePorts == {FilePorts}
MCClearing  == {Clearing}
MCLocked    == {Locked}
MCEdits     == {Edits}
Interchangeable == Permutations(Reqs)
=============================================================================
