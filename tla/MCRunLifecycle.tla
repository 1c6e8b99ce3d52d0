---------------------------- MODULE MCRunLifecycle --------------------------
(* Two or three runs: enough for a run, its retry and a run beside them.   *)
EXTENDS RunLifecycle

CONSTANTS r1, r2, r3

MCTwo == {r1, r2}
MCThree == {r1, r2, r3}
=============================================================================
