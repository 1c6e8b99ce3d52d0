---------------------------- MODULE Orchestrator ----------------------------
(***************************************************************************)
(* The GPU state machine of mellow_link/core/orchestrator.py:              *)
(* request_state_change and force_state_change, called by any number of    *)
(* asyncio tasks.  One action is the code between two suspension points.   *)
(* The only await of request_state_change that really suspends is the      *)
(* unloading of the model of the state being left, an HTTP call; what was  *)
(* read before it (previous_state, the cooldown check) is used after it.   *)
(* TaskLoop and GpuClients EXTEND this module with the actual callers.     *)
(***************************************************************************)
EXTENDS FiniteSets

CONSTANTS Callers,        \* the asyncio tasks that call request_state_change
          NoCall,         \* a caller with no call in flight
          UnloadOnIdle,   \* settings.enable_model_unload_on_idle
          UnloadMayFail,  \* ComfyUI / Ollama may refuse to unload
          Serialised      \* requests and loads wait for the call in flight

States == {"IDLE", "TEXT", "IMAGE", "ERROR"}

\* A call suspended in an unload: previous_state and the arguments it holds.
CallRecords == [phase : {"unloading", "unloaded"}, prev : {"TEXT", "IMAGE"},
                target : States]

ASSUME OrchestratorAssumption ==
    /\ {UnloadOnIdle, UnloadMayFail, Serialised} \subseteq BOOLEAN
    /\ NoCall \notin CallRecords

VARIABLES current_state,  \* Orchestrator.current_state
          cooling,        \* less than DEFAULT_COOLDOWN_SECONDS since _last_transition_time
          models,         \* the models resident in VRAM
          call            \* [Callers -> the call suspended in an unload]

fsmVars == <<current_state, cooling, models, call>>

Models == {"llm", "image"}

Results == {"SUCCESS", "COOLDOWN_ACTIVE", "INVALID_TRANSITION"}

VALID_TRANSITIONS ==
    [IDLE  |-> {"TEXT", "IMAGE", "ERROR"},
     TEXT  |-> {"IDLE", "IMAGE", "ERROR"},
     IMAGE |-> {"IDLE", "TEXT", "ERROR"},
     ERROR |-> {"IDLE"}]

IsValidTransition(from, to) == from = to \/ to \in VALID_TRANSITIONS[from]

CheckCooldown == ~cooling

\* Mutant: unloads the model of the state being entered.
ModelUnloadedByTarget(prev, target) ==
    IF UnloadOnIdle /\ prev # target
    THEN CASE target = "IMAGE" -> {"image"} [] target = "TEXT" -> {"llm"} [] OTHER -> {}
    ELSE {}

\* The model request_state_change unloads when it leaves a state.
ModelUnloaded(prev, target) ==
    IF UnloadOnIdle /\ prev # target
    THEN CASE prev = "IMAGE" -> {"image"} [] prev = "TEXT" -> {"llm"} [] OTHER -> {}
    ELSE {}

\* image_service.unload_model always calls ComfyUI; llm_service.unload_model
\* returns at once when no model is loaded.
Suspends(prev, target) ==
    \/ "image" \in ModelUnloaded(prev, target)
    \/ "llm" \in ModelUnloaded(prev, target) \intersect models

\* What is decided before the first suspension.
Outcome(target, force) ==
    IF ~IsValidTransition(current_state, target) THEN "INVALID_TRANSITION"
    ELSE IF /\ ~force /\ target # "ERROR" /\ current_state # "ERROR"
            /\ ~CheckCooldown
         THEN "COOLDOWN_ACTIVE"
         ELSE "SUCCESS"

Commit(target) ==
    /\ current_state' = target
    /\ cooling' = TRUE

InFlight == {c \in Callers : call[c] # NoCall}

FsmInit ==
    /\ current_state = "IDLE"
    /\ cooling = FALSE
    /\ models = {}
    /\ call = [c \in Callers |-> NoCall]
-----------------------------------------------------------------------------
Refuse(c, target, force) ==
    /\ Outcome(target, force) # "SUCCESS"
    /\ UNCHANGED fsmVars

SwitchAtOnce(c, target, force) ==
    /\ Outcome(target, force) = "SUCCESS"
    /\ ~Suspends(current_state, target)
    /\ Commit(target)
    /\ UNCHANGED <<models, call>>

BeginUnload(c, target, force) ==
    /\ Outcome(target, force) = "SUCCESS"
    /\ Suspends(current_state, target)
    /\ call' = [call EXCEPT ![c] =
                  [phase |-> "unloading", prev |-> current_state, target |-> target]]
    /\ UNCHANGED <<current_state, cooling, models>>

\* request_state_change up to its first suspension, or to its return.
RequestStateChange(c, target, force) ==
    /\ call[c] = NoCall
    /\ Serialised => InFlight = {}
    /\ \/ Refuse(c, target, force)
       \/ SwitchAtOnce(c, target, force)
       \/ BeginUnload(c, target, force)

\* The service frees the VRAM, or answers with an error that is only logged.
UnloadEffect(c) ==
    /\ call[c] # NoCall /\ call[c].phase = "unloading"
    /\ call' = [call EXCEPT ![c].phase = "unloaded"]
    /\ \/ models' = models \ ModelUnloaded(call[c].prev, call[c].target)
       \/ UnloadMayFail /\ UNCHANGED models
    /\ UNCHANGED <<current_state, cooling>>

\* Mutant: gives up when another call has changed the state meanwhile.
FinishCallIfUnchanged(c) ==
    /\ call[c] # NoCall /\ call[c].phase = "unloaded"
    /\ call' = [call EXCEPT ![c] = NoCall]
    /\ IF current_state = call[c].prev
       THEN Commit(call[c].target)
       ELSE UNCHANGED <<current_state, cooling>>
    /\ UNCHANGED models

\* The await returns: the state is assigned without looking at it again.
FinishCall(c) ==
    /\ call[c] # NoCall /\ call[c].phase = "unloaded"
    /\ Commit(call[c].target)
    /\ call' = [call EXCEPT ![c] = NoCall]
    /\ UNCHANGED models

CooldownElapses ==
    /\ cooling
    /\ cooling' = FALSE
    /\ UNCHANGED <<current_state, models, call>>
-----------------------------------------------------------------------------
(***************************************************************************)
(* The FSM on its own, with callers that keep to the resource allocation:  *)
(* a model is loaded only in the state that owns it.  Only IDLE is ever    *)
(* requested with force.                                                   *)
(***************************************************************************)
LoadModel(m) ==
    /\ current_state = (IF m = "llm" THEN "TEXT" ELSE "IMAGE")
    /\ Serialised => InFlight = {}
    /\ models' = models \union {m}
    /\ UNCHANGED <<current_state, cooling, call>>

\* The services drop a model by themselves (unload after a request).
DropModel(m) ==
    /\ models' = models \ {m}
    /\ UNCHANGED <<current_state, cooling, call>>

FsmNext ==
    \/ \E c \in Callers, t \in States : RequestStateChange(c, t, FALSE)
    \/ \E c \in Callers : RequestStateChange(c, "IDLE", TRUE)
    \/ \E c \in Callers : UnloadEffect(c) \/ FinishCall(c)
    \/ \E m \in Models : LoadModel(m) \/ DropModel(m)
    \/ CooldownElapses

\* Every unload has an HTTP timeout, and the event loop resumes its caller.
FsmFairness == \A c \in Callers : WF_fsmVars(UnloadEffect(c) \/ FinishCall(c))

FsmSpec == FsmInit /\ [][FsmNext]_fsmVars

FairFsmSpec == FsmSpec /\ FsmFairness
-----------------------------------------------------------------------------
FsmTypeOK ==
    /\ current_state \in States
    /\ cooling \in BOOLEAN
    /\ models \subseteq Models
    /\ call \in [Callers -> CallRecords \union {NoCall}]

(***************************************************************************)
(* The documented contract: seen from outside, with requests that do not   *)
(* overlap and unloads that work, each request is one atomic switch of     *)
(* GpuModes.                                                               *)
(***************************************************************************)
Modes == INSTANCE GpuModes WITH mode <- current_state, resident <- models

Contract == Modes!Spec

(***************************************************************************)
(* A request for IDLE that has started to unload does bring the FSM to     *)
(* IDLE, whatever the other callers do meanwhile: the finally blocks rely  *)
(* on it ("guarantee IDLE recovery", orchestrator.py 554).                 *)
(***************************************************************************)
IdleRequestReachesIdle ==
    \A c \in Callers :
        (call[c] # NoCall /\ call[c].target = "IDLE") ~> (current_state = "IDLE")

(***************************************************************************)
(* states.py 31-35 and image_service.py 886: leaving IMAGE or TEXT has     *)
(* freed the VRAM of its model before the next state is entered.           *)
(***************************************************************************)
OneOwner == Modes!OneOwner
=============================================================================
