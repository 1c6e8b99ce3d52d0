----------------------------- MODULE PipelineFsm -----------------------------
(***************************************************************************)
(* FSMManager (src/core/fsm_manager.py): the states of a music video, the  *)
(* loop of run(), and the checkpoints at which it waits for the user.      *)
(* Inputs, pause and reset come from outside at any time; run() may be     *)
(* called again when is_running says that no loop runs, and a reset says   *)
(* so of a loop that still waits.                                          *)
(***************************************************************************)
EXTENDS Naturals, FiniteSets

CONSTANTS Loops,    \* calls of run()
          Inputs,   \* the triggers that the user gives
          NoInput   \* _user_input_data holds no trigger

Pipeline ==
    {<<"INIT", "start", "AUDIO_ANALYSIS">>,
     <<"AUDIO_ANALYSIS", "analysis_complete", "AUDIO_REVIEW">>,
     <<"AUDIO_ANALYSIS", "analysis_failed", "ERROR">>,
     <<"AUDIO_REVIEW", "lyrics_confirmed", "VISUAL_SCRIPTING">>,
     <<"AUDIO_REVIEW", "reanalyze", "AUDIO_ANALYSIS">>,
     <<"VISUAL_SCRIPTING", "scripting_complete", "VISUAL_SCRIPTING_REVIEW">>,
     <<"VISUAL_SCRIPTING", "scripting_failed", "ERROR">>,
     <<"VISUAL_SCRIPTING_REVIEW", "prompts_confirmed", "VISUAL_RENDERING">>,
     <<"VISUAL_SCRIPTING_REVIEW", "regenerate_prompts", "VISUAL_SCRIPTING">>,
     <<"VISUAL_RENDERING", "rendering_complete", "VISUAL_REVIEW">>,
     <<"VISUAL_RENDERING", "rendering_failed", "ERROR">>,
     <<"VISUAL_REVIEW", "visuals_confirmed", "MOTION_SYNTHESIS">>,
     <<"VISUAL_REVIEW", "regenerate_images", "VISUAL_RENDERING">>,
     <<"VISUAL_REVIEW", "regenerate_prompts", "VISUAL_SCRIPTING">>,
     <<"MOTION_SYNTHESIS", "synthesis_complete", "MOTION_REVIEW">>,
     <<"MOTION_SYNTHESIS", "synthesis_failed", "ERROR">>,
     <<"MOTION_REVIEW", "motion_confirmed", "POST_PROCESSING">>,
     <<"MOTION_REVIEW", "regenerate_motion", "MOTION_SYNTHESIS">>,
     <<"POST_PROCESSING", "processing_complete", "POST_REVIEW">>,
     <<"POST_PROCESSING", "processing_failed", "ERROR">>,
     <<"POST_REVIEW", "post_confirmed", "LOCALIZATION">>,
     <<"POST_REVIEW", "redo_post", "POST_PROCESSING">>,
     <<"LOCALIZATION", "localization_complete", "DEPLOYMENT_READY">>,
     <<"LOCALIZATION", "localization_failed", "ERROR">>,
     <<"DEPLOYMENT_READY", "deployed", "COMPLETED">>,
     <<"DEPLOYMENT_READY", "skip_deploy", "COMPLETED">>,
     <<"ERROR", "reset", "INIT">>}

FsmStates == {t[1] : t \in Pipeline} \union {t[3] : t \in Pipeline}
Checkpoints == {"AUDIO_REVIEW", "VISUAL_SCRIPTING_REVIEW", "VISUAL_REVIEW", "MOTION_REVIEW",
                "POST_REVIEW"}

VARIABLES fsm,      \* _current_state
          runs,     \* [Loops -> where the loop is, and the target of its transition]
          isRunning,
          paused,   \* _pause_requested
          input,    \* _user_input_data
          set,      \* _user_input_event
          given,    \* history: an input was given since this state was entered
          doubled   \* history: run() was called while an earlier loop was still there

pipelineVars == <<fsm, runs, isRunning, paused, input, set, given, doubled>>

Off == [at |-> "off", to |-> "none"]
PipelineInit ==
    /\ fsm = "INIT" /\ runs = [l \in Loops |-> Off]
    /\ isRunning = FALSE /\ paused = FALSE /\ input = NoInput /\ set = FALSE /\ given = FALSE
    /\ doubled = FALSE

At(l, place) == runs[l].at = place
Moves(l, place) == runs' = [runs EXCEPT ![l] = [at |-> place, to |-> "none"]]
-----------------------------------------------------------------------------
RunBegins(l) ==
    /\ At(l, "off") /\ ~isRunning
    /\ isRunning' = TRUE /\ paused' = FALSE
    /\ Moves(l, "top")
    /\ doubled' = (doubled \/ \E k \in Loops \ {l} : ~At(k, "off"))
    /\ UNCHANGED <<fsm, input, set, given>>

\* Stopped, paused, or in a terminal state.
RunEnds(l) ==
    /\ At(l, "top")
    /\ ~isRunning \/ paused \/ fsm \in {"COMPLETED", "ERROR"}
    /\ Moves(l, "off") /\ isRunning' = FALSE
    /\ UNCHANGED <<fsm, paused, input, set, given, doubled>>

Goes(l) == At(l, "top") /\ isRunning /\ ~paused /\ fsm \notin {"COMPLETED", "ERROR"}

\* Mutant: an event that is set already is not cleared.
Cleared(event) == event

Forgotten(event) == FALSE

\* _wait_for_user_input clears the event before it waits: an input that came
\* while the loop worked does not wake it.
WaitForUser(l) ==
    /\ Goes(l) /\ fsm \in Checkpoints
    /\ set' = Forgotten(set)
    /\ Moves(l, IF Forgotten(set) THEN "woken" ELSE "waiting")
    /\ UNCHANGED <<fsm, isRunning, paused, input, given, doubled>>

\* trigger_transition looks its target up, and then awaits the exit handler
\* and the unloading of the models.
Transit(l, trigger) ==
    \/ \E t \in Pipeline :
          /\ t[1] = fsm /\ t[2] = trigger
          /\ runs' = [runs EXCEPT ![l] = [at |-> "leaving", to |-> t[3]]]
    \/ /\ \A t \in Pipeline : ~(t[1] = fsm /\ t[2] = trigger)
       /\ Moves(l, "top")

Woken(l) ==
    /\ At(l, "woken")
    /\ IF input = NoInput THEN Moves(l, "top") ELSE Transit(l, input)
    /\ input' = NoInput
    /\ UNCHANGED <<fsm, isRunning, paused, set, given, doubled>>

Leave(l) ==
    /\ At(l, "leaving")
    /\ fsm' = runs[l].to /\ given' = FALSE
    /\ Moves(l, "top")
    /\ UNCHANGED <<isRunning, paused, input, set, doubled>>

Work(l) ==
    /\ Goes(l) /\ fsm \notin Checkpoints
    /\ Moves(l, "working")
    /\ UNCHANGED <<fsm, isRunning, paused, input, set, given, doubled>>

\* execute() answers the trigger of the state it worked for.
WorkSucceeds(l) ==
    /\ At(l, "working")
    /\ \E t \in Pipeline : t[1] \notin Checkpoints /\ t[3] # "ERROR" /\ Transit(l, t[2])
    /\ UNCHANGED <<fsm, isRunning, paused, input, set, given, doubled>>

\* The trigger is named after the whole state, which only LOCALIZATION's table
\* entry is; the other states are forced to ERROR.
WorkFails(l) ==
    /\ At(l, "working")
    /\ IF fsm = "LOCALIZATION" THEN Transit(l, "localization_failed") /\ UNCHANGED <<fsm, given>>
       ELSE fsm' = "ERROR" /\ given' = FALSE /\ Moves(l, "top")
    /\ UNCHANGED <<isRunning, paused, input, set, doubled>>

\* A handler raises: ERROR, and the loop is over.
WorkRaises(l) ==
    /\ runs[l].at \in {"working", "leaving"}
    /\ fsm' = "ERROR" /\ given' = FALSE
    /\ Moves(l, "off") /\ isRunning' = FALSE
    /\ UNCHANGED <<paused, input, set, doubled>>

UserInput(trigger) ==
    /\ input' = trigger /\ set' = TRUE /\ given' = TRUE
    /\ runs' = [l \in Loops |-> IF At(l, "waiting") THEN [at |-> "woken", to |-> "none"] ELSE runs[l]]
    /\ UNCHANGED <<fsm, isRunning, paused, doubled>>

UserPauses ==
    /\ paused' = ~paused
    /\ UNCHANGED <<fsm, runs, isRunning, input, set, given, doubled>>

\* reset() leaves a waiting loop where it is.
UserResets ==
    /\ fsm' = "INIT" /\ isRunning' = FALSE /\ paused' = FALSE /\ input' = NoInput
    /\ given' = FALSE
    /\ UNCHANGED <<runs, set, doubled>>

PipelineNext ==
    \/ \E l \in Loops :
          RunBegins(l) \/ RunEnds(l) \/ WaitForUser(l) \/ Woken(l) \/ Leave(l)
            \/ Work(l) \/ WorkSucceeds(l) \/ WorkFails(l) \/ WorkRaises(l)
    \/ \E trigger \in Inputs : UserInput(trigger)
    \/ UserPauses \/ UserResets

PipelineSpec == PipelineInit /\ [][PipelineNext]_pipelineVars
-----------------------------------------------------------------------------
PipelineTypeOK ==
    /\ fsm \in FsmStates
    /\ runs \in [Loops -> [at : {"off", "top", "waiting", "woken", "leaving", "working"},
                           to : FsmStates \union {"none"}]]
    /\ input \in Inputs \union {NoInput}
    /\ isRunning \in BOOLEAN /\ paused \in BOOLEAN /\ set \in BOOLEAN /\ given \in BOOLEAN
    /\ doubled \in BOOLEAN

\* A loop leaves a checkpoint on an input that was given at this visit of it:
\* a second click on the checkpoint before does not confirm this one. (Not so
\* once a reset has left a loop behind and run() was called again.)
ConfirmedHere ==
    [][\A l \in Loops :
         ~doubled /\ At(l, "woken") /\ runs'[l].at = "leaving" /\ fsm \in Checkpoints => given]_pipelineVars
=============================================================================
