------------------------------ MODULE Converge ------------------------------
(***************************************************************************)
(* What the reconciler promises, whatever its loop looks like: once a      *)
(* writer has told it of a committed change, every target is asked to      *)
(* walk toward the database at some moment after that commit               *)
(* (crates/core/src/reconciler.rs 4-10).  Module Runtime implements it.    *)
(***************************************************************************)
EXTENDS Naturals

CONSTANTS Targets, MaxVersion

VARIABLES
  version,  \* number of changes committed to the database
  told,     \* the newest of them that a writer has told of, 0 when nobody has
  asked     \* target -> the newest one committed when it was last asked

vars == <<version, told, asked>>

Init == version = 0 /\ told = 0 /\ asked = [t \in Targets |-> 0]

Commit == version < MaxVersion /\ version' = version + 1 /\ UNCHANGED <<told, asked>>

Tell == \E v \in told .. version : told' = v /\ UNCHANGED <<version, asked>>

Ask(t) == asked' = [asked EXCEPT ![t] = version] /\ UNCHANGED <<version, told>>

(* The process goes, and with it what it was told.                         *)
Exit == told' = 0 /\ UNCHANGED <<version, asked>>

Next == Commit \/ Tell \/ Exit \/ \E t \in Targets : Ask(t)

(* Only a change that was told of has to be acted upon.                    *)
Owed(t) == asked[t] < told /\ Ask(t)

Spec == Init /\ [][Next]_vars /\ \A t \in Targets : WF_vars(Owed(t))
=============================================================================
