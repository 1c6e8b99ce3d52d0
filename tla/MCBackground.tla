----------------------------- MODULE MCBackground -----------------------------
(***************************************************************************)
(* The GPU's state machine, and what runs without a user: the scheduler    *)
(* and the autonomous agent.  They share no state, so a behaviour is one   *)
(* of the part that Init chose, and the others stay where they are.        *)
(***************************************************************************)
EXTENDS MCOrchestrator, MCScheduler, Autonomous

CONSTANTS tick1, tick2, approval

VARIABLE part

MCTicks == {tick1, tick2}
MCApprovals == {approval}
-----------------------------------------------------------------------------
Parts == {"gpu", "scheduler", "autonomous"}

PartsInit ==
    /\ part \in Parts
    /\ FsmInit /\ Init /\ AutonomousInit

\* What the parts other than p do: nothing.
OthersRest(p) ==
    /\ part = p /\ part' = part
    /\ p # "gpu" => UNCHANGED fsmVars
    /\ p # "scheduler" => UNCHANGED vars
    /\ p # "autonomous" => UNCHANGED autonomousVars

PartsNext ==
    \/ OthersRest("gpu") /\ FsmNext
    \/ OthersRest("scheduler") /\ Next
    \/ OthersRest("autonomous") /\ AutonomousNext

\* Each part, while it is the one, is as fair as its own specification says.
PartsFairness ==
    /\ \A c \in Callers : WF_fsmVars(part = "gpu" /\ (UnloadEffect(c) \/ FinishCall(c)))
    /\ WF_vars(part = "scheduler" /\ Start) /\ WF_vars(part = "scheduler" /\ LoopStep)
    /\ \A c \in Calls : WF_autonomousVars(part = "autonomous" /\ CallStep(c))

PartsSpec ==
    /\ PartsInit
    /\ [][PartsNext]_<<fsmVars, vars, autonomousVars, part>>
    /\ PartsFairness
=============================================================================
