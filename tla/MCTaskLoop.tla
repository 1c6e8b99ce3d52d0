----------------------------- MODULE MCTaskLoop -----------------------------
(* Two tasks of any kind; "first" has the higher priority.                 *)
EXTENDS TaskLoop

CONSTANTS first, second

MCCallers == {"loop", "watchdog"}
MCTasks == {first, second}
MCRank == [t \in Tasks |-> IF t = first THEN 1 ELSE 2]
=============================================================================
