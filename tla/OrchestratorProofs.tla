------------------------- MODULE OrchestratorProofs -------------------------
(***************************************************************************)
(* What is proved of the FSM for any set of callers.  SerialInv is the     *)
(* inductive invariant behind the refinement: while one call is suspended  *)
(* in an unload, all that it read before the await still holds.            *)
(***************************************************************************)
EXTENDS Orchestrator, TLAPS

SerialInv ==
    /\ FsmTypeOK
    \* One call at a time ...
    /\ \A c, d \in Callers : call[c] # NoCall /\ call[d] # NoCall => c = d
    \* ... whose view of the FSM is still true ...
    /\ \A c \in Callers : call[c] # NoCall =>
          /\ UnloadOnIdle
          /\ call[c].prev = current_state
          /\ call[c].target # call[c].prev
          /\ cooling => call[c].target \in {"IDLE", "ERROR"}
          /\ call[c].phase = "unloaded" => models = {}
    \* ... and no model is left behind in a state that does not own it.
    /\ Modes!OneOwner

\* The steps of the FSM in which nothing is begun while a call is suspended:
\* callers may be kept apart by Serialised, or by what else they do.
SerialNext ==
    \/ /\ InFlight = {}
       /\ \/ \E c \in Callers, t \in States : RequestStateChange(c, t, FALSE)
          \/ \E c \in Callers : RequestStateChange(c, "IDLE", TRUE)
          \/ \E m \in Models : LoadModel(m)
    \/ \E c \in Callers : UnloadEffect(c) \/ FinishCall(c)
    \/ \E m \in Models : DropModel(m)
    \/ CooldownElapses

-----------------------------------------------------------------------------
(***************************************************************************)
(* Type correctness of the FSM, whether or not calls overlap: in           *)
(* particular a suspended call only ever leaves TEXT or IMAGE.             *)
(***************************************************************************)
LEMMA FsmTypeStep == FsmTypeOK /\ [FsmNext]_fsmVars => FsmTypeOK'
<1> SUFFICES ASSUME FsmTypeOK, [FsmNext]_fsmVars
             PROVE  FsmTypeOK'
  OBVIOUS
<1> USE DEF FsmTypeOK, CallRecords, States, Models
<1>1. ASSUME NEW c \in Callers, NEW t \in States, NEW f \in BOOLEAN,
             RequestStateChange(c, t, f)
      PROVE  FsmTypeOK'
  <2>1. CASE Refuse(c, t, f)
    BY <2>1 DEF Refuse, fsmVars
  <2>2. CASE SwitchAtOnce(c, t, f)
    BY <2>2 DEF SwitchAtOnce, Commit
  <2>3. CASE BeginUnload(c, t, f)
    <3>1. current_state \in {"TEXT", "IMAGE"}
      BY <2>3 DEF BeginUnload, Suspends, ModelUnloaded
    <3> QED BY <2>3, <3>1 DEF BeginUnload
  <2> QED BY <1>1, <2>1, <2>2, <2>3 DEF RequestStateChange
<1>2. ASSUME NEW c \in Callers, UnloadEffect(c)
      PROVE  FsmTypeOK'
  <2>1. call[c] \in CallRecords
    BY <1>2 DEF UnloadEffect
  <2>2. models' \subseteq Models
    BY <1>2 DEF UnloadEffect
  <2>3. [call[c] EXCEPT !.phase = "unloaded"] \in CallRecords
    BY <2>1
  <2> QED BY <1>2, <2>2, <2>3 DEF UnloadEffect
<1>3. ASSUME NEW c \in Callers, FinishCall(c)
      PROVE  FsmTypeOK'
  <2>1. call[c] \in CallRecords
    BY <1>3 DEF FinishCall
  <2> QED BY <1>3, <2>1 DEF FinishCall, Commit
<1>4. ASSUME NEW m \in Models, LoadModel(m) \/ DropModel(m)
      PROVE  FsmTypeOK'
  BY <1>4 DEF LoadModel, DropModel
<1>5. CASE CooldownElapses
  BY <1>5 DEF CooldownElapses
<1>6. CASE UNCHANGED fsmVars
  BY <1>6 DEF fsmVars
<1> QED BY <1>1, <1>2, <1>3, <1>4, <1>5, <1>6 DEF FsmNext

\* The state machine and its calls are type correct, for any set of callers.
THEOREM FsmTypeCorrect == FsmSpec => []FsmTypeOK
<1>1. FsmInit => FsmTypeOK
  BY DEF FsmInit, FsmTypeOK, States, Models
<1> QED BY <1>1, FsmTypeStep, PTL DEF FsmSpec
-----------------------------------------------------------------------------
LEMMA SerialInit == FsmInit => SerialInv /\ Modes!Init
BY DEF FsmInit, SerialInv, FsmTypeOK, States, Models, Modes!OneOwner, Modes!Init

LEMMA SerialIsSerial ==
    ASSUME Serialised, [FsmNext]_fsmVars
    PROVE  [SerialNext]_fsmVars
<1>1. ASSUME NEW c \in Callers, NEW t \in States, NEW f \in BOOLEAN, RequestStateChange(c, t, f)
      PROVE  InFlight = {}
  BY <1>1 DEF RequestStateChange
<1>2. ASSUME NEW m \in Models, LoadModel(m)
      PROVE  InFlight = {}
  BY <1>2 DEF LoadModel
<1> QED BY <1>1, <1>2 DEF FsmNext, SerialNext, States

LEMMA SerialIsFsm ==
    ASSUME [SerialNext]_fsmVars
    PROVE  [FsmNext]_fsmVars
BY DEF SerialNext, FsmNext

(***************************************************************************)
(* SerialInv is inductive when requests wait for each other and an unload  *)
(* frees the VRAM.                                                         *)
(***************************************************************************)
LEMMA SerialStep ==
    ASSUME ~UnloadMayFail, SerialInv, [SerialNext]_fsmVars
    PROVE  SerialInv'
<1> USE DEF Modes!OneOwner, Modes!ModelsOf, Modes!Modes
<1>0. FsmTypeOK /\ FsmTypeOK'
  BY FsmTypeStep, SerialIsFsm DEF SerialInv
<1> USE <1>0
<1>1. ASSUME NEW c \in Callers, NEW t \in States, NEW f \in BOOLEAN,
             f => t = "IDLE", InFlight = {}, RequestStateChange(c, t, f)
      PROVE  SerialInv'
  <2>1. \A d \in Callers : call[d] = NoCall
    BY <1>1 DEF InFlight
  <2>2. CASE Refuse(c, t, f)
    BY <2>1, <2>2 DEF Refuse, fsmVars, SerialInv
  <2>3. CASE SwitchAtOnce(c, t, f)
    <3>1. UnloadOnIdle => models \subseteq Modes!ModelsOf[t]
      <4>1. UnloadOnIdle => models \subseteq Modes!ModelsOf[current_state]
        BY DEF SerialInv
      <4>2. CASE current_state = "TEXT"
        BY <2>3, <4>1, <4>2 DEF SwitchAtOnce, Suspends, ModelUnloaded, FsmTypeOK, States
      <4>3. CASE current_state = "IMAGE"
        BY <2>3, <4>1, <4>3 DEF SwitchAtOnce, Suspends, ModelUnloaded, FsmTypeOK, States
      <4>4. CASE current_state \in {"IDLE", "ERROR"}
        BY <4>1, <4>4 DEF FsmTypeOK, States
      <4> QED BY <4>2, <4>3, <4>4 DEF FsmTypeOK, States
    <3>2. current_state' = t /\ UNCHANGED <<models, call>>
      BY <2>3 DEF SwitchAtOnce, Commit
    <3> QED BY <2>1, <3>1, <3>2 DEF SerialInv
  <2>4. CASE BeginUnload(c, t, f)
    <3>1. \A d \in Callers : call'[d] # NoCall => d = c
      BY <2>1, <2>4 DEF BeginUnload, FsmTypeOK
    <3>2. call'[c] = [phase |-> "unloading", prev |-> current_state, target |-> t]
      BY <2>4 DEF BeginUnload, FsmTypeOK
    <3>3. UnloadOnIdle /\ t # current_state /\ UNCHANGED <<current_state, cooling, models>>
      BY <2>4 DEF BeginUnload, Suspends, ModelUnloaded
    <3>4. cooling => t \in {"IDLE", "ERROR"}
      BY <1>1, <2>4, <3>3 DEF BeginUnload, Suspends, ModelUnloaded, Outcome, CheckCooldown
    <3> QED BY <3>1, <3>2, <3>3, <3>4 DEF SerialInv
  <2> QED BY <1>1, <2>2, <2>3, <2>4 DEF RequestStateChange
<1>2. ASSUME NEW c \in Callers, UnloadEffect(c)
      PROVE  SerialInv'
  <2>1. call[c] \in CallRecords /\ \A d \in Callers \ {c} : call[d] = NoCall
    BY <1>2 DEF UnloadEffect, SerialInv, FsmTypeOK
  <2>2. call' = [call EXCEPT ![c] = [call[c] EXCEPT !.phase = "unloaded"]]
    BY <1>2 DEF UnloadEffect
  <2>3. /\ call'[c] # NoCall
        /\ call'[c].prev = call[c].prev
        /\ call'[c].target = call[c].target
    BY <2>1, <2>2, OrchestratorAssumption DEF FsmTypeOK, CallRecords
  <2>4. models' = {}
    <3>1. /\ UnloadOnIdle
          /\ current_state = call[c].prev
          /\ call[c].target # call[c].prev
          /\ models \subseteq Modes!ModelsOf[current_state]
      BY <1>2 DEF UnloadEffect, SerialInv
    <3>2. models' = models \ ModelUnloaded(call[c].prev, call[c].target)
      BY <1>2 DEF UnloadEffect
    <3>3. call[c].prev \in {"TEXT", "IMAGE"}
      BY <2>1 DEF CallRecords
    <3> QED BY <3>1, <3>2, <3>3 DEF ModelUnloaded
  <2>5. UNCHANGED <<current_state, cooling>>
    BY <1>2 DEF UnloadEffect
  <2>6. \A d \in Callers \ {c} : call'[d] = NoCall
    BY <2>1, <2>2 DEF FsmTypeOK
  <2> QED BY <1>2, <2>3, <2>4, <2>5, <2>6 DEF SerialInv, UnloadEffect
<1>3. ASSUME NEW c \in Callers, FinishCall(c)
      PROVE  SerialInv'
  <2>1. \A d \in Callers : call'[d] = NoCall
    BY <1>3 DEF FinishCall, SerialInv, FsmTypeOK
  <2>2. models' = {}
    BY <1>3 DEF FinishCall, SerialInv
  <2> QED BY <2>1, <2>2 DEF SerialInv
<1>4. ASSUME NEW m \in Models, (InFlight = {} /\ LoadModel(m)) \/ DropModel(m)
      PROVE  SerialInv'
  <2>1. UnloadOnIdle => models' \subseteq Modes!ModelsOf[current_state]
    <3>1. CASE LoadModel(m)
      BY <3>1 DEF LoadModel, SerialInv, Models, FsmTypeOK, States
    <3>2. CASE DropModel(m)
      BY <3>2 DEF DropModel, SerialInv
    <3> QED BY <1>4, <3>1, <3>2
  <2>2. UNCHANGED <<current_state, cooling, call>>
    BY <1>4 DEF LoadModel, DropModel
  <2>3. \A d \in Callers : call[d] # NoCall /\ call[d].phase = "unloaded" => models' = {}
    BY <1>4 DEF LoadModel, DropModel, SerialInv, InFlight
  <2> QED BY <2>1, <2>2, <2>3 DEF SerialInv
<1>5. CASE CooldownElapses
  BY <1>5 DEF CooldownElapses, SerialInv
<1>6. CASE UNCHANGED fsmVars
  BY <1>6 DEF fsmVars, SerialInv
<1> QED BY <1>1, <1>2, <1>3, <1>4, <1>5, <1>6 DEF SerialNext, States

(***************************************************************************)
(* A step of the code is a step of the documented FSM or leaves what it    *)
(* shows unchanged: a request that returns at once and the end of an       *)
(* unload are its switches, the unload itself an eviction.                 *)
(***************************************************************************)
LEMMA ContractStep ==
    ASSUME ~UnloadMayFail, SerialInv, SerialInv', [SerialNext]_fsmVars
    PROVE  [Modes!Next]_(Modes!vars)
<1> USE DEF Modes!vars, Modes!OneOwner, Modes!ModelsOf, Modes!Modes
<1>0. FsmTypeOK
  BY DEF SerialInv
<1>1. ASSUME NEW c \in Callers, NEW t \in States, NEW f \in BOOLEAN,
             f => t = "IDLE", RequestStateChange(c, t, f)
      PROVE  [Modes!Next]_(Modes!vars)
  <2>1. CASE Refuse(c, t, f)
    BY <2>1 DEF Refuse, fsmVars, Modes!vars
  <2>2. CASE SwitchAtOnce(c, t, f)
    <3>1. current_state' = t /\ cooling' = TRUE /\ UNCHANGED models
      BY <2>2 DEF SwitchAtOnce, Commit
    <3>2. Modes!Allowed(current_state, t)
      BY <2>2 DEF SwitchAtOnce, Outcome, IsValidTransition, VALID_TRANSITIONS, Modes!Allowed
    <3>3. cooling => Modes!MayHurry(t)
      BY <1>1, <2>2 DEF SwitchAtOnce, Outcome, CheckCooldown, Modes!MayHurry
    <3>4. UnloadOnIdle => models \subseteq Modes!ModelsOf[t]
      BY <3>1 DEF SerialInv
    <3>5. Modes!Switch(t)
      BY <3>1, <3>2, <3>3, <3>4 DEF Modes!Switch
    <3> QED BY <3>5 DEF Modes!Next, States
  <2>3. CASE BeginUnload(c, t, f)
    BY <2>3 DEF BeginUnload
  <2> QED BY <1>1, <2>1, <2>2, <2>3 DEF RequestStateChange
<1>2. ASSUME NEW c \in Callers, UnloadEffect(c)
      PROVE  [Modes!Next]_(Modes!vars)
  <2>1. call[c].prev \in {"TEXT", "IMAGE"}
    BY <1>0, <1>2 DEF FsmTypeOK, CallRecords, UnloadEffect
  <2>2. PICK m \in Models : ModelUnloaded(call[c].prev, call[c].target) \subseteq {m}
    BY <2>1 DEF ModelUnloaded, Models
  <2>3. models' = models \ {m} \/ models' = models
    BY <1>2, <2>2 DEF UnloadEffect
  <2>4. UNCHANGED <<current_state, cooling>>
    BY <1>2 DEF UnloadEffect
  <2> QED BY <2>2, <2>3, <2>4 DEF Modes!Next, Modes!Evict, Modes!Models, Models
<1>3. ASSUME NEW c \in Callers, FinishCall(c)
      PROVE  [Modes!Next]_(Modes!vars)
  <2> DEFINE t == call[c].target
  <2>1. /\ t \in States
        /\ t # current_state
        /\ current_state \in {"TEXT", "IMAGE"}
        /\ cooling => t \in {"IDLE", "ERROR"}
        /\ models = {}
    BY <1>0, <1>3 DEF FinishCall, SerialInv, FsmTypeOK, CallRecords
  <2>2. current_state' = t /\ cooling' = TRUE /\ UNCHANGED models
    BY <1>3 DEF FinishCall, Commit
  <2>3. Modes!Switch(t)
    BY <2>1, <2>2 DEF Modes!Switch, Modes!Allowed, Modes!MayHurry
  <2> QED BY <2>1, <2>3 DEF Modes!Next, States
<1>4. ASSUME NEW m \in Models, LoadModel(m)
      PROVE  [Modes!Next]_(Modes!vars)
  <2>1. Modes!Load(m)
    BY <1>4 DEF LoadModel, Modes!Load, Models
  <2> QED BY <2>1 DEF Modes!Next, Modes!Models, Models
<1>5. ASSUME NEW m \in Models, DropModel(m)
      PROVE  [Modes!Next]_(Modes!vars)
  <2>1. Modes!Evict(m)
    BY <1>5 DEF DropModel, Modes!Evict
  <2> QED BY <2>1 DEF Modes!Next, Modes!Models, Models
<1>6. CASE CooldownElapses
  BY <1>6 DEF CooldownElapses, Modes!Next, Modes!Cool
<1>7. CASE UNCHANGED fsmVars
  BY <1>7 DEF fsmVars
<1> QED BY <1>1, <1>2, <1>3, <1>4, <1>5, <1>6, <1>7 DEF SerialNext, States

(***************************************************************************)
(* The code keeps the documented contract as long as requests do not       *)
(* overlap in an unload and unloads work: the refinement of GpuModes.      *)
(***************************************************************************)
THEOREM SerialRefinement ==
    ASSUME Serialised, ~UnloadMayFail
    PROVE  FsmSpec => Contract
<1>1. FsmInit => SerialInv /\ Modes!Init
  BY SerialInit
<1>2. SerialInv /\ [FsmNext]_fsmVars => SerialInv'
  BY SerialIsSerial, SerialStep
<1>3. SerialInv /\ SerialInv' /\ [FsmNext]_fsmVars => [Modes!Next]_(Modes!vars)
  BY SerialIsSerial, ContractStep
<1> QED BY <1>1, <1>2, <1>3, PTL DEF FsmSpec, Contract, Modes!Spec

(***************************************************************************)
(* ... and then VRAM has one owner: no model survives in a state that does *)
(* not own it (core/states.py 31-35).                                      *)
(***************************************************************************)
THEOREM SerialOneOwner ==
    ASSUME Serialised, ~UnloadMayFail
    PROVE  FsmSpec => []OneOwner
<1>1. FsmInit => SerialInv
  BY SerialInit
<1>2. SerialInv /\ [FsmNext]_fsmVars => SerialInv'
  BY SerialIsSerial, SerialStep
<1>3. SerialInv => OneOwner
  BY DEF SerialInv, OneOwner
<1> QED BY <1>1, <1>2, <1>3, PTL DEF FsmSpec
=============================================================================
