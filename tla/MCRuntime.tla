----------------------------- MODULE MCRuntime -----------------------------
(* All three drivers, one request beside the poller and two changes: a     *)
(* change can be committed, told of and left untold in every phase of a    *)
(* pass over another one.                                                  *)
EXTENDS Runtime
CONSTANTS r1, poll
=============================================================================
