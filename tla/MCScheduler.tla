----------------------------- MODULE MCScheduler ----------------------------
(* An agent task, a task that awaits, and one that does not.               *)
EXTENDS Scheduler

CONSTANTS agent, async, diagnosis

MCTasks == {agent, async, diagnosis}
MCTwo == {agent, diagnosis}
MCOneShot == {agent}
MCNone == {}
MCKind == [t \in Tasks |-> CASE t = agent -> "agent" [] t = async -> "async" [] OTHER -> "sync"]
=============================================================================
