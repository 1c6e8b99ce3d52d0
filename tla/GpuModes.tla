------------------------------ MODULE GpuModes ------------------------------
(***************************************************************************)
(* What the documentation of the FSM promises to the rest of Mellow-Link   *)
(* (core/states.py 21-35, request_state_change's docstring in              *)
(* core/orchestrator.py 434-439): the GPU belongs to one mode at a time, a *)
(* switch is one atomic step, a model is in VRAM only in the mode that     *)
(* owns it, and the GPU is given from one model to another only after the  *)
(* cooldown.  Orchestrator.tla is the code; it implements this module when *)
(* requests do not overlap and unloading works.                            *)
(***************************************************************************)
EXTENDS FiniteSets

CONSTANT UnloadOnIdle        \* settings.enable_model_unload_on_idle

VARIABLES mode,      \* the mode the GPU is in
          cooling,   \* the last switch is less than a cooldown ago
          resident   \* the models in VRAM

vars == <<mode, cooling, resident>>

Modes == {"IDLE", "TEXT", "IMAGE", "ERROR"}

Models == {"llm", "image"}

\* The models a mode may keep in VRAM.
ModelsOf == [m \in Modes |-> CASE m = "TEXT"  -> {"llm"}
                               [] m = "IMAGE" -> {"image"}
                               [] OTHER       -> {}]

\* ERROR can only be left for IDLE; every other pair is allowed.
Allowed(from, to) == from = "ERROR" => to \in {"IDLE", "ERROR"}

\* Handing the GPU over waits for the cooldown; recovery (to IDLE), and the
\* way in and out of ERROR, need not.
MayHurry(to) == to \in {"IDLE", "ERROR"} \/ mode = "ERROR"

Init == /\ mode = "IDLE"
        /\ cooling = FALSE
        /\ resident = {}

Switch(to) ==
    /\ Allowed(mode, to)
    /\ cooling => MayHurry(to)
    /\ UnloadOnIdle => resident \subseteq ModelsOf[to]
    /\ mode' = to
    /\ cooling' = TRUE
    /\ UNCHANGED resident

Load(m) ==
    /\ m \in ModelsOf[mode]
    /\ resident' = resident \union {m}
    /\ UNCHANGED <<mode, cooling>>

Evict(m) ==
    /\ resident' = resident \ {m}
    /\ UNCHANGED <<mode, cooling>>

Cool ==
    /\ cooling' = FALSE
    /\ UNCHANGED <<mode, resident>>

Next == \/ \E to \in Modes : Switch(to)
        \/ \E m \in Models : Load(m) \/ Evict(m)
        \/ Cool

Spec == Init /\ [][Next]_vars

-----------------------------------------------------------------------------
TypeOK == /\ mode \in Modes
          /\ cooling \in BOOLEAN
          /\ resident \subseteq Models

(***************************************************************************)
(* Resource allocation of core/states.py 31-35: TEXT has the VRAM for the  *)
(* LLM, IMAGE for the image generator, IDLE keeps no model.                *)
(***************************************************************************)
OneOwner == UnloadOnIdle => resident \subseteq ModelsOf[mode]
=============================================================================
