------------------------------- MODULE MCParts -------------------------------
(***************************************************************************)
(* The GPU's state machine and five parts beside it: the first            *)
(* application's FSM, the agent's loop over the requests of a session, the *)
(* relay to the avatar, the guardian's quotas, and the music video studio  *)
(* with its image and video services.  They share no state, so a behaviour *)
(* is one of the part that Init chose, and the others stay where they are. *)
(***************************************************************************)
EXTENDS MCOrchestrator, PipelineFsm, AgentLoop, Relay, Guardian, Studio

CONSTANTS l1, l2, hi, bye, mute, s1, s2, j1, j2

VARIABLE part

MCLoops == {l1, l2}

\* What confirms each checkpoint, one way back, and the trigger of INIT.
MCInputs == {"start", "lyrics_confirmed", "reanalyze", "prompts_confirmed", "visuals_confirmed",
             "motion_confirmed", "post_confirmed"}

\* Two texts of which the relay sends two sentences each, and a blank one.
MCSpeeches == {hi, bye, mute}
MCSentences == [m \in Speeches |-> IF m = mute THEN 0 ELSE IF m = hi THEN 3 ELSE 2]

MCSlots == {s1, s2}
MCQuota == [p \in Providers |-> 2]

MCJobs == {j1, j2}
-----------------------------------------------------------------------------
Parts == {"gpu", "pipeline", "loop", "relay", "guardian", "studio"}

PartsInit ==
    /\ part \in Parts
    /\ FsmInit /\ PipelineInit /\ LoopInit /\ RelayInit /\ GuardianInit /\ StudioInit
    /\ part # "guardian" => main = "openai"
    /\ part # "relay" => edgeTts

\* What the parts other than p do: nothing.
OthersRest(p) ==
    /\ part = p /\ part' = part
    /\ p # "gpu" => UNCHANGED fsmVars
    /\ p # "pipeline" => UNCHANGED pipelineVars
    /\ p # "loop" => UNCHANGED loopVars
    /\ p # "relay" => UNCHANGED relayVars
    /\ p # "guardian" => UNCHANGED guardianVars
    /\ p # "studio" => UNCHANGED studioVars

PartsNext ==
    \/ OthersRest("gpu") /\ FsmNext
    \/ OthersRest("pipeline") /\ PipelineNext
    \/ OthersRest("loop") /\ LoopNext
    \/ OthersRest("relay") /\ RelayNext
    \/ OthersRest("guardian") /\ GuardianNext
    \/ OthersRest("studio") /\ StudioNext

\* The agent and the studio, while they are the part, are as fair as their
\* specifications say.
PartsFairness ==
    /\ WF_loopVars(part = "loop" /\ AgentStep)
    /\ \A j \in Jobs : WF_studioVars(part = "studio" /\ Works(j))

PartsSpec ==
    /\ PartsInit
    /\ [][PartsNext]_<<fsmVars, pipelineVars, loopVars, relayVars, guardianVars, studioVars, part>>
    /\ PartsFairness

\* The type invariants of the parts.
PartsTypeOK ==
    /\ FsmTypeOK /\ PipelineTypeOK /\ LoopTypeOK /\ RelayTypeOK /\ GuardianTypeOK
    /\ StudioTypeOK
=============================================================================
