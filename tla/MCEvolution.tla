----------------------------- MODULE MCEvolution ----------------------------
(***************************************************************************)
(* The main loop with its tasks, the evolution manager, and the goals.     *)
(* They share no state, so a behaviour is one of the part that Init chose, *)
(* and the others stay where they are.                                     *)
(***************************************************************************)
EXTENDS MCTaskLoop, Evolution, MCGoals

CONSTANTS auto, gate, tick1, h1, fx

VARIABLE part

MCCycles == {auto, gate, tick1}
MCHandlers == {h1}
MCTopic == [c \in Cycles |-> IF c = gate THEN NoTopic ELSE "fix"]
MCTargets == {fx}
MCRetries == [c \in Cycles |-> IF c = auto THEN 1 ELSE 0]
-----------------------------------------------------------------------------
Parts == {"loop", "evolution", "goals"}

PartsInit == part \in Parts /\ Init /\ EvolutionInit /\ GoalsInit

PartsNext ==
    /\ part' = part
    /\ \/ part = "loop" /\ Next /\ UNCHANGED <<evolutionVars, goalsVars>>
       \/ part = "evolution" /\ EvolutionNext /\ UNCHANGED <<vars, goalsVars>>
       \/ part = "goals" /\ GoalsNext /\ UNCHANGED <<vars, evolutionVars>>

\* The main loop, while it is the part, is as fair as its specification says.
PartsFairness ==
    /\ WF_vars(part = "loop" /\ LoopGoesOn)
    /\ SF_vars(part = "loop" /\ LockGranted)
    /\ WF_vars(part = "loop" /\ AgentUnlocks)
    /\ \A c \in Callers : WF_vars(part = "loop" /\ UnloadStep(c))

PartsSpec == PartsInit /\ [][PartsNext]_<<vars, evolutionVars, goalsVars, part>> /\ PartsFairness
=============================================================================
