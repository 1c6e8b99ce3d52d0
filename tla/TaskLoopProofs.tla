--------------------------- MODULE TaskLoopProofs ---------------------------
(***************************************************************************)
(* What is proved of the queue and the main loop for any tasks and any     *)
(* queue size, with the kill switch and both shutdowns at work.  The loop  *)
(* starts a task in IDLE; every request that the loop or the watchdog can  *)
(* have in flight is one for IDLE, so that whatever comes back late does   *)
(* not take the FSM out of it again.                                       *)
(***************************************************************************)
EXTENDS TaskLoop, OrchestratorProofs

\* Every suspended request is one for IDLE.
TowardsIdle == \A c \in Callers : call[c] # NoCall => call[c].target = "IDLE"

\* The loop starts in IDLE and asks to go back to it before it goes on.
ForcingInv ==
    /\ At("got") => current_state = "IDLE"
    /\ At("forcing") => call["loop"] # NoCall /\ loop.task \notin active

\* Whatever is queued, registered or under way has been submitted; what waits
\* for the lock is a GPU task.
KnownInv ==
    /\ \A t \in queue \union active : Known(t)
    /\ Busy => Known(loop.task)
    /\ At("lock") => IsGpuTask(loop.task)

\* run's own shutdown begins when the loop has ended.
EndInv == ~At("ended") => shutdown["loop"] = "no"

IndInv ==
    /\ TypeOK
    /\ TowardsIdle
    /\ EndInv
    /\ ForcingInv
    /\ KnownInv
    /\ IdleBetweenTasks
    /\ NoTaskForgotten
    /\ LockOnlyWhileExecuting
-----------------------------------------------------------------------------
(***************************************************************************)
(* The FSM under requests for IDLE: it stays where it is or is in IDLE.    *)
(***************************************************************************)
LEMMA RequestIdle ==
    ASSUME FsmTypeOK, TowardsIdle, NEW c \in Callers, RequestStateChange(c, "IDLE", TRUE)
    PROVE  /\ FsmTypeOK' /\ TowardsIdle'
           /\ current_state' \in {current_state, "IDLE"}
           /\ call'[c] # NoCall \/ current_state' = "IDLE"
           /\ \A d \in Callers \ {c} : call'[d] = call[d]
<1>1. FsmTypeOK'
  BY FsmTypeStep DEF FsmNext
<1>2. Outcome("IDLE", TRUE) = "SUCCESS"
  BY DEF Outcome, IsValidTransition, VALID_TRANSITIONS, FsmTypeOK, States
<1>3. CASE SwitchAtOnce(c, "IDLE", TRUE)
  BY <1>1, <1>3 DEF SwitchAtOnce, Commit, TowardsIdle
<1>4. CASE BeginUnload(c, "IDLE", TRUE)
  <2>1. current_state \in {"TEXT", "IMAGE"}
    BY <1>4 DEF BeginUnload, Suspends, ModelUnloaded
  <2>2. /\ call'[c] = [phase |-> "unloading", prev |-> current_state, target |-> "IDLE"]
        /\ \A d \in Callers \ {c} : call'[d] = call[d]
    BY <1>4 DEF BeginUnload, FsmTypeOK
  <2>3. call'[c] \in CallRecords /\ call'[c].target = "IDLE"
    BY <2>1, <2>2 DEF CallRecords, States
  <2>4. call'[c] # NoCall
    BY <2>3, OrchestratorAssumption
  <2> QED BY <1>1, <1>4, <2>2, <2>3, <2>4 DEF BeginUnload, TowardsIdle
<1> QED BY <1>2, <1>3, <1>4 DEF RequestStateChange, Refuse

LEMMA UnloadIdle ==
    ASSUME FsmTypeOK, TowardsIdle, NEW c \in Callers, UnloadEffect(c)
    PROVE  /\ FsmTypeOK' /\ TowardsIdle' /\ UNCHANGED current_state
           /\ \A d \in Callers : call'[d] = NoCall <=> call[d] = NoCall
<1>1. FsmTypeOK'
  BY FsmTypeStep DEF FsmNext
<1>2. call[c] \in CallRecords /\ call[c] # NoCall
  BY DEF UnloadEffect, FsmTypeOK
<1>3. call' = [call EXCEPT ![c] = [call[c] EXCEPT !.phase = "unloaded"]]
  BY DEF UnloadEffect
<1>4. [call[c] EXCEPT !.phase = "unloaded"] \in CallRecords
      /\ [call[c] EXCEPT !.phase = "unloaded"].target = call[c].target
  BY <1>2 DEF CallRecords
<1>5. call'[c] # NoCall /\ call'[c].target = call[c].target /\ \A d \in Callers \ {c} : call'[d] = call[d]
  BY <1>3, <1>4, OrchestratorAssumption DEF FsmTypeOK
<1> QED BY <1>1, <1>2, <1>5 DEF UnloadEffect, TowardsIdle

LEMMA FinishIdle ==
    ASSUME FsmTypeOK, TowardsIdle, NEW c \in Callers, FinishCall(c)
    PROVE  /\ FsmTypeOK' /\ TowardsIdle' /\ current_state' = "IDLE"
           /\ call'[c] = NoCall /\ \A d \in Callers \ {c} : call'[d] = call[d]
<1>1. FsmTypeOK'
  BY FsmTypeStep DEF FsmNext
<1> QED BY <1>1 DEF FinishCall, Commit, TowardsIdle, FsmTypeOK

\* The first request of the loop leaves IDLE, at once.
LEMMA RequestFromIdle ==
    ASSUME FsmTypeOK, TowardsIdle, current_state = "IDLE", NEW t \in States,
           Outcome(t, FALSE) = "SUCCESS", RequestStateChange("loop", t, FALSE),
           "loop" \in Callers
    PROVE  FsmTypeOK' /\ TowardsIdle' /\ UNCHANGED call
<1>1. FsmTypeOK'
  BY FsmTypeStep DEF FsmNext
<1>2. ~Suspends(current_state, t)
  BY DEF Suspends, ModelUnloaded
<1> QED BY <1>1, <1>2 DEF RequestStateChange, Refuse, SwitchAtOnce, BeginUnload, TowardsIdle
-----------------------------------------------------------------------------
(***************************************************************************)
(* IndInv is inductive.  First the steps that the loop has no part in.     *)
(***************************************************************************)
LEMMA LoopIsCaller == "loop" \in Callers /\ "watchdog" \in Callers
BY TaskLoopAssumption

LEMMA FsmOnly ==
    ASSUME IndInv, FsmTypeOK', TowardsIdle', UNCHANGED loopVars,
           current_state' \in {current_state, "IDLE"},
           call'["loop"] = NoCall <=> call["loop"] = NoCall
    PROVE  IndInv'
<1>1. TypeOK'
  BY DEF IndInv, TypeOK, loopVars, Busy, At
<1>2. ForcingInv' /\ IdleBetweenTasks'
  BY DEF IndInv, loopVars, ForcingInv, IdleBetweenTasks, At
<1>5. EndInv'
  BY DEF IndInv, loopVars, EndInv, At
<1>3. KnownInv' /\ NoTaskForgotten'
  BY DEF IndInv, loopVars, KnownInv, Known, Busy, At, IsGpuTask, NoTaskForgotten, Drained
<1>4. LockOnlyWhileExecuting'
  BY DEF IndInv, loopVars, LockOnlyWhileExecuting, At, IsGpuTask
<1> QED BY <1>1, <1>2, <1>5, <1>3, <1>4 DEF IndInv

LEMMA FsmSteps ==
    ASSUME IndInv,
           \/ VramCritical \/ TimeStep \/ ServiceLoads \/ ServiceUnloads
           \/ \E c \in Callers : UnloadStep(c)
    PROVE  IndInv'
<1>0. FsmTypeOK /\ TowardsIdle
  BY DEF IndInv, TypeOK
<1>1. CASE VramCritical
  <2>1. CASE RequestStateChange("watchdog", "IDLE", TRUE)
    BY <1>0, <1>1, <2>1, LoopIsCaller, RequestIdle, FsmOnly DEF VramCritical
  <2>2. CASE FinishCall("watchdog")
    BY <1>0, <1>1, <2>2, LoopIsCaller, FinishIdle, FsmOnly DEF VramCritical
  <2> QED BY <1>1, <2>1, <2>2 DEF VramCritical
<1>2. CASE TimeStep
  <2>1. FsmTypeOK'
    BY <1>0, <1>2, FsmTypeStep DEF TimeStep, FsmNext
  <2> QED BY <1>0, <1>2, <2>1, FsmOnly DEF TimeStep, CooldownElapses, TowardsIdle
<1>3. CASE ServiceLoads \/ ServiceUnloads
  <2>1. FsmTypeOK'
    BY <1>0, <1>3 DEF ServiceLoads, ServiceUnloads, FsmTypeOK, ModelOf, Models
  <2> QED BY <1>0, <1>3, <2>1, FsmOnly DEF ServiceLoads, ServiceUnloads, TowardsIdle
<1>4. CASE \E c \in Callers : UnloadStep(c)
  BY <1>0, <1>4, LoopIsCaller, UnloadIdle, FsmOnly DEF UnloadStep
<1> QED BY <1>1, <1>2, <1>3, <1>4

LEMMA QueueSteps ==
    ASSUME IndInv, NEW t \in Tasks,
           CancelTask(t) \/ \E k \in Kinds : SubmitTask(t, k)
    PROVE  IndInv'
<1> USE DEF IndInv
<1>0. UNCHANGED <<fsmVars, results, error, running, gpu_lock, loop, shutdown>>
  BY DEF CancelTask, SubmitTask
<1>1. FsmTypeOK' /\ TowardsIdle' /\ EndInv'
  BY <1>0 DEF fsmVars, TypeOK, FsmTypeOK, TowardsIdle, EndInv, At
<1>2. CASE CancelTask(t)
  <2>1. TypeOK'
    BY <1>0, <1>1, <1>2 DEF TypeOK, CancelTask, fsmVars, Busy, At
  <2>2. ForcingInv' /\ IdleBetweenTasks'
    BY <1>0, <1>2 DEF CancelTask, fsmVars, ForcingInv, IdleBetweenTasks, At
  <2>3. KnownInv' /\ NoTaskForgotten'
    BY <1>0, <1>2 DEF CancelTask, KnownInv, Known, Busy, At, IsGpuTask, NoTaskForgotten, Drained
  <2>4. LockOnlyWhileExecuting'
    BY <1>0, <1>2 DEF CancelTask, LockOnlyWhileExecuting, At, IsGpuTask
  <2> QED BY <1>1, <2>1, <2>2, <2>3, <2>4
<1>3. CASE \E k \in Kinds : SubmitTask(t, k)
  <2>1. PICK k \in Kinds : SubmitTask(t, k)
    BY <1>3
  <2>2. \A u \in Tasks : Known(u) => kind'[u] = kind[u] /\ u # t
    BY <2>1 DEF SubmitTask, TypeOK, Known
  <2>3. \A u \in Tasks : Known(u) => Known(u)'
    BY <2>2 DEF Known
  <2>4. Known(t)'
    BY <2>1 DEF SubmitTask, TypeOK, Known, Kinds
  <2>5. Busy => loop.task \in Tasks /\ Known(loop.task)
    BY DEF TypeOK, KnownInv, Loops
  <2>6. TypeOK'
    BY <1>0, <1>1, <2>1 DEF TypeOK, SubmitTask, fsmVars, Busy, At
  <2>7. ForcingInv' /\ IdleBetweenTasks'
    BY <1>0, <2>1, <2>2, <2>5 DEF SubmitTask, fsmVars, ForcingInv, IdleBetweenTasks, At, Busy
  <2>8. KnownInv' /\ NoTaskForgotten'
    BY <1>0, <2>1, <2>2, <2>3, <2>4, <2>5
       DEF SubmitTask, KnownInv, Busy, At, IsGpuTask, NoTaskForgotten, Drained, TypeOK
  <2>9. LockOnlyWhileExecuting'
    BY <1>0, <2>2, <2>5 DEF LockOnlyWhileExecuting, At, IsGpuTask, Busy
  <2> QED BY <1>1, <2>6, <2>7, <2>8, <2>9
<1> QED BY <1>2, <1>3

\* Shutdown, and the agent runs of chats at the lock.
LEMMA OtherSteps ==
    ASSUME IndInv,
           \/ BeginShutdown \/ AgentLocks \/ AgentUnlocks
           \/ \E s \in {"main", "loop"} : DrainQueue(s) \/ ShutdownEnds(s)
    PROVE  IndInv'
<1> USE DEF IndInv
<1>0. /\ UNCHANGED <<cooling, models, call, kind, active, results, error, loop, cancelled>>
      /\ current_state' \in {current_state, "IDLE"} /\ queue' \in SUBSET queue
  BY DEF BeginShutdown, AgentLocks, AgentUnlocks, DrainQueue, ShutdownEnds, fsmVars
<1>1. FsmTypeOK' /\ TowardsIdle'
  BY <1>0 DEF TypeOK, FsmTypeOK, TowardsIdle, States
<1>2. TypeOK'
  <2>1. shutdown' \in [{"main", "loop"} -> {"no", "waiting", "disconnecting", "done"}]
    BY DEF TypeOK, BeginShutdown, AgentLocks, AgentUnlocks, DrainQueue, ShutdownEnds
  <2>2. running' \in BOOLEAN /\ gpu_lock' \in {"free", "loop", "agent"}
    BY DEF TypeOK, BeginShutdown, AgentLocks, AgentUnlocks, DrainQueue, ShutdownEnds
  <2> QED BY <1>0, <1>1, <2>1, <2>2 DEF TypeOK, Busy, At
<1>3. ForcingInv' /\ IdleBetweenTasks'
  BY <1>0 DEF ForcingInv, IdleBetweenTasks, At
<1>4. KnownInv' /\ EndInv'
  BY <1>0 DEF KnownInv, Known, Busy, At, IsGpuTask, EndInv, TypeOK,
              BeginShutdown, AgentLocks, AgentUnlocks, DrainQueue, ShutdownEnds
<1>5. NoTaskForgotten'
  BY <1>0 DEF NoTaskForgotten, Drained, Busy, TypeOK,
              BeginShutdown, AgentLocks, AgentUnlocks, DrainQueue, ShutdownEnds
<1>6. LockOnlyWhileExecuting'
  BY <1>0 DEF LockOnlyWhileExecuting, At, IsGpuTask,
              BeginShutdown, AgentLocks, AgentUnlocks, DrainQueue, ShutdownEnds
<1> QED BY <1>1, <1>2, <1>3, <1>4, <1>5, <1>6
-----------------------------------------------------------------------------
(***************************************************************************)
(* The loop's own steps.  Those that leave the FSM alone: the loop goes    *)
(* from one of these places to another with the task that it has.          *)
(***************************************************************************)
LEMMA LoopTopStep ==
    ASSUME IndInv, LoopTop \/ GetTimeout
    PROVE  IndInv'
<1> USE DEF IndInv
<1>0. /\ UNCHANGED <<fsmVars, kind, queue, active, results, error, running, gpu_lock, cancelled>>
      /\ At("top") \/ At("get")
      /\ \E pc \in {"top", "get", "ended"} : loop' = [loop EXCEPT !.pc = pc]
  BY DEF LoopTop, GetTimeout, Goto
<1>1. loop' \in Loops /\ ~Busy' /\ ~Busy /\ loop'.pc \in {"top", "get", "ended"}
  BY <1>0 DEF TypeOK, Loops, Busy, At
<1>2. FsmTypeOK' /\ TowardsIdle' /\ current_state' = "IDLE" /\ UNCHANGED call
  BY <1>0 DEF fsmVars, TypeOK, FsmTypeOK, TowardsIdle, IdleBetweenTasks
<1>3. shutdown' \in [{"main", "loop"} -> {"no", "waiting", "disconnecting", "done"}]
  BY DEF TypeOK, LoopTop, GetTimeout
<1>4. (~Drained' => ~Drained) /\ EndInv'
  <2>1. shutdown["loop"] = "no"
    BY <1>0 DEF EndInv, At
  <2>2. CASE LoopTop
    BY <1>0, <2>1, <2>2 DEF LoopTop, Goto, TypeOK, Loops, Drained, EndInv, At
  <2>3. CASE GetTimeout
    BY <2>1, <2>3 DEF GetTimeout, Drained, EndInv, At
  <2> QED BY <2>2, <2>3
<1>5. TypeOK'
  BY <1>0, <1>1, <1>2, <1>3 DEF TypeOK, At
<1>6. ForcingInv' /\ IdleBetweenTasks' /\ KnownInv'
  BY <1>0, <1>1, <1>2 DEF ForcingInv, IdleBetweenTasks, KnownInv, Known, Busy, At
<1>7. NoTaskForgotten'
  BY <1>0, <1>1, <1>4 DEF NoTaskForgotten, At
<1>8. LockOnlyWhileExecuting'
  BY <1>0, <1>1 DEF LockOnlyWhileExecuting, At
<1> QED BY <1>2, <1>4, <1>5, <1>6, <1>7, <1>8

LEMMA GetTaskStep ==
    ASSUME IndInv, GetTask
    PROVE  IndInv'
<1> USE DEF IndInv
<1>1. PICK t \in queue : queue' = queue \ {t} /\ loop' = [pc |-> "got", task |-> t]
  BY DEF GetTask
<1>2. /\ UNCHANGED <<fsmVars, kind, active, results, error, running, gpu_lock, shutdown, cancelled>>
      /\ At("get") /\ t \in Tasks /\ Known(t) /\ t # NoTask
  BY TaskLoopAssumption DEF GetTask, TypeOK, KnownInv
<1>3. FsmTypeOK' /\ TowardsIdle' /\ current_state' = "IDLE"
  BY <1>2 DEF fsmVars, TypeOK, FsmTypeOK, TowardsIdle, IdleBetweenTasks
<1>4. TypeOK'
  BY <1>1, <1>2, <1>3 DEF TypeOK, Loops, At, fsmVars
<1>5. ForcingInv' /\ IdleBetweenTasks' /\ EndInv'
  BY <1>1, <1>2, <1>3 DEF ForcingInv, IdleBetweenTasks, EndInv, At
<1>6. KnownInv'
  BY <1>1, <1>2 DEF KnownInv, Known, At
<1>7. NoTaskForgotten'
  BY <1>1, <1>2 DEF NoTaskForgotten, Drained, Busy, At
<1>8. LockOnlyWhileExecuting'
  BY <1>1, <1>2 DEF LockOnlyWhileExecuting, At
<1> QED BY <1>3, <1>4, <1>5, <1>6, <1>7, <1>8

LEMMA LockGrantedStep ==
    ASSUME IndInv, LockGranted
    PROVE  IndInv'
<1> USE DEF IndInv
<1>1. /\ UNCHANGED <<fsmVars, kind, queue, active, results, error, running, shutdown, cancelled>>
      /\ gpu_lock' = "loop" /\ At("lock") /\ loop' = [loop EXCEPT !.pc = "execute"]
  BY DEF LockGranted, Execute, Goto
<1>2. /\ loop' \in Loops /\ loop'.pc = "execute" /\ loop'.task = loop.task
      /\ Busy /\ Busy' /\ loop.task # NoTask
  BY <1>1 DEF TypeOK, Loops, Busy, At
<1>3. FsmTypeOK' /\ TowardsIdle' /\ UNCHANGED call
  BY <1>1 DEF fsmVars, TypeOK, FsmTypeOK, TowardsIdle
<1>4. TypeOK'
  BY <1>1, <1>2, <1>3 DEF TypeOK, At
<1>5. ForcingInv' /\ IdleBetweenTasks' /\ KnownInv' /\ EndInv'
  BY <1>1, <1>2 DEF ForcingInv, IdleBetweenTasks, KnownInv, Known, Busy, EndInv, At
<1>6. NoTaskForgotten'
  BY <1>1, <1>2 DEF NoTaskForgotten, Drained
<1>7. LockOnlyWhileExecuting'
  BY <1>1, <1>2 DEF LockOnlyWhileExecuting, At, IsGpuTask, KnownInv
<1> QED BY <1>3, <1>4, <1>5, <1>6, <1>7

(***************************************************************************)
(* The steps of the loop that use the FSM.                                 *)
(***************************************************************************)
LEMMA FinallyStep ==
    ASSUME IndInv, Finally, At("got") \/ At("execute")
    PROVE  /\ FsmTypeOK' /\ TowardsIdle' /\ active' = active \ {loop.task}
           /\ \/ loop' = [loop EXCEPT !.pc = "top"] /\ current_state' = "IDLE"
                 /\ call'["loop"] = NoCall
              \/ loop' = [loop EXCEPT !.pc = "forcing"] /\ call'["loop"] # NoCall
<1>1. FsmTypeOK /\ TowardsIdle /\ call["loop"] = NoCall /\ active' = active \ {loop.task}
  BY DEF IndInv, TypeOK, At, Finally
<1>2. CASE current_state = "IDLE"
  BY <1>1, <1>2 DEF Finally, Goto, fsmVars, FsmTypeOK, TowardsIdle
<1>3. CASE current_state # "IDLE"
  <2>1. RequestStateChange("loop", "IDLE", TRUE)
    BY <1>3 DEF Finally
  <2>2. FsmTypeOK' /\ TowardsIdle' /\ (call'["loop"] # NoCall \/ current_state' = "IDLE")
    BY <1>1, <2>1, RequestIdle, LoopIsCaller
  <2>3. loop' = [loop EXCEPT !.pc = IF call'["loop"] = NoCall THEN "top" ELSE "forcing"]
    BY <1>3 DEF Finally, Goto
  <2> QED BY <1>1, <2>2, <2>3
<1> QED BY <1>2, <1>3

\* A task is over: failed before its execution, or executed.
LEMMA TaskOver ==
    ASSUME IndInv, Finally, At("got") \/ At("execute"),
           UNCHANGED <<kind, queue, running, shutdown, cancelled>>,
           results' \subseteq Tasks, error' \in [Tasks -> Results \union {"none", "service"}],
           gpu_lock' \in {"free", "agent"}
    PROVE  IndInv'
<1> USE DEF IndInv
<1>1. /\ FsmTypeOK' /\ TowardsIdle' /\ active' = active \ {loop.task}
      /\ \/ loop' = [loop EXCEPT !.pc = "top"] /\ current_state' = "IDLE"
            /\ call'["loop"] = NoCall
         \/ loop' = [loop EXCEPT !.pc = "forcing"] /\ call'["loop"] # NoCall
  BY FinallyStep
<1>2. /\ loop' \in Loops /\ loop'.pc \in {"top", "forcing"} /\ loop'.task = loop.task
      /\ Busy /\ loop.task # NoTask
      /\ loop'.pc = "top" => current_state' = "IDLE" /\ call'["loop"] = NoCall
      /\ loop'.pc = "forcing" => call'["loop"] # NoCall
  BY <1>1 DEF TypeOK, Loops, Busy, At
<1>3. TypeOK'
  BY <1>1, <1>2 DEF TypeOK, At
<1>4. ForcingInv' /\ IdleBetweenTasks' /\ KnownInv' /\ EndInv'
  BY <1>1, <1>2 DEF ForcingInv, IdleBetweenTasks, KnownInv, Known, Busy, EndInv, At
<1>5. NoTaskForgotten'
  BY <1>1, <1>2 DEF NoTaskForgotten, Drained
<1>6. LockOnlyWhileExecuting'
  BY <1>2 DEF LockOnlyWhileExecuting, At
<1> QED BY <1>1, <1>3, <1>4, <1>5, <1>6

LEMMA ExecutionEndsStep ==
    ASSUME IndInv, ExecutionEnds
    PROVE  IndInv'
<1>1. /\ Finally /\ At("execute")
      /\ UNCHANGED <<kind, queue, running, shutdown, cancelled>>
  BY DEF ExecutionEnds
<1>2. loop.task \in Tasks
  BY <1>1 DEF IndInv, TypeOK, Loops, Busy, At
<1>3. results' \subseteq Tasks /\ error' \in [Tasks -> Results \union {"none", "service"}]
  BY <1>2 DEF ExecutionEnds, IndInv, TypeOK
<1>4. gpu_lock' \in {"free", "agent"}
  BY <1>1 DEF ExecutionEnds, IndInv, TypeOK, LockOnlyWhileExecuting
<1> QED BY <1>1, <1>3, <1>4, TaskOver

LEMMA ForcedIdleDoneStep ==
    ASSUME IndInv, ForcedIdleDone
    PROVE  IndInv'
<1> USE DEF IndInv
<1>1. /\ UNCHANGED <<kind, queue, active, results, error, running, gpu_lock, shutdown, cancelled>>
      /\ At("forcing") /\ loop' = [loop EXCEPT !.pc = "top"] /\ FinishCall("loop")
  BY DEF ForcedIdleDone, Goto
<1>2. FsmTypeOK' /\ TowardsIdle' /\ current_state' = "IDLE" /\ call'["loop"] = NoCall
  BY <1>1, FinishIdle, LoopIsCaller DEF TypeOK
<1>3. loop' \in Loops /\ loop'.pc = "top" /\ loop'.task = loop.task /\ Busy
  BY <1>1 DEF TypeOK, Loops, Busy, At
<1>4. TypeOK'
  BY <1>1, <1>2, <1>3 DEF TypeOK, Busy, At
<1>5. ForcingInv' /\ IdleBetweenTasks' /\ KnownInv' /\ EndInv'
  BY <1>1, <1>2, <1>3 DEF ForcingInv, IdleBetweenTasks, KnownInv, Known, Busy, EndInv, At
<1>6. NoTaskForgotten'
  BY <1>1, <1>3 DEF NoTaskForgotten, Drained, ForcingInv, TypeOK
<1>7. LockOnlyWhileExecuting'
  BY <1>1, <1>3 DEF LockOnlyWhileExecuting, At
<1> QED BY <1>2, <1>4, <1>5, <1>6, <1>7

\* The loop enters the execution, or waits for the lock.
LEMMA EnterExecutionStep ==
    ASSUME IndInv, At("got"), EnterExecution, FsmTypeOK', TowardsIdle', UNCHANGED call,
           UNCHANGED <<kind, queue, active, results, error, running, shutdown, cancelled>>
    PROVE  IndInv'
<1> USE DEF IndInv
<1>1. /\ gpu_lock' = "loop" <=> loop'.pc = "execute" /\ IsGpuTask(loop.task)
      /\ gpu_lock' \in {"free", "loop", "agent"}
      /\ loop' \in Loops /\ loop'.pc \in {"lock", "execute"} /\ loop'.task = loop.task
      /\ loop'.pc = "lock" => IsGpuTask(loop.task)
  BY DEF EnterExecution, Execute, Goto, TypeOK, Loops, At, LockOnlyWhileExecuting
<1>2. Busy /\ Busy' /\ loop.task # NoTask
  BY <1>1 DEF TypeOK, Busy, At
<1>3. TypeOK'
  BY <1>1, <1>2 DEF TypeOK, At
<1>4. ForcingInv' /\ IdleBetweenTasks' /\ KnownInv' /\ EndInv'
  BY <1>1, <1>2 DEF ForcingInv, IdleBetweenTasks, KnownInv, Known, IsGpuTask, Busy, EndInv, At
<1>5. NoTaskForgotten'
  BY <1>1, <1>2 DEF NoTaskForgotten, Drained
<1>6. LockOnlyWhileExecuting'
  BY <1>1 DEF LockOnlyWhileExecuting, At, IsGpuTask
<1> QED BY <1>3, <1>4, <1>5, <1>6

LEMMA ProcessTaskStep ==
    ASSUME IndInv, ProcessTask
    PROVE  IndInv'
<1>0. /\ At("got") /\ current_state = "IDLE" /\ FsmTypeOK /\ TowardsIdle
      /\ UNCHANGED <<kind, queue, results, running, shutdown, cancelled>>
  BY DEF ProcessTask, IndInv, TypeOK, ForcingInv
<1> DEFINE target == StateFor(loop.task)
<1>1. target \in States
  BY DEF StateFor, States
<1> HIDE DEF target
<1>2. CASE target = current_state /\ EnterExecution /\ UNCHANGED <<fsmVars, kind, active, error>>
  <2>1. FsmTypeOK' /\ TowardsIdle'
    BY <1>0, <1>2 DEF fsmVars, FsmTypeOK, TowardsIdle
  <2> QED BY <1>0, <1>2, <2>1, EnterExecutionStep DEF fsmVars
<1>3. CASE /\ Outcome(target, FALSE) = "SUCCESS" /\ RequestStateChange("loop", target, FALSE)
           /\ EnterExecution /\ UNCHANGED <<active, error>>
  <2>1. FsmTypeOK' /\ TowardsIdle' /\ UNCHANGED call
    BY <1>0, <1>1, <1>3, RequestFromIdle, LoopIsCaller
  <2> QED BY <1>0, <1>3, <2>1, EnterExecutionStep
<1>4. CASE /\ Finally /\ UNCHANGED gpu_lock
           /\ error' = [error EXCEPT ![loop.task] = Outcome(target, FALSE)]
  <2>1. Outcome(target, FALSE) \in Results
    BY DEF Outcome, Results
  <2>2. results' \subseteq Tasks /\ error' \in [Tasks -> Results \union {"none", "service"}]
    BY <1>0, <1>4, <2>1 DEF IndInv, TypeOK
  <2>3. gpu_lock' \in {"free", "agent"}
    BY <1>0, <1>4 DEF IndInv, TypeOK, LockOnlyWhileExecuting, At
  <2> QED BY <1>0, <1>4, <2>2, <2>3, TaskOver
<1> QED BY <1>2, <1>3, <1>4 DEF ProcessTask, target
-----------------------------------------------------------------------------
LEMMA IndStep == IndInv /\ [Next]_vars => IndInv'
<1> SUFFICES ASSUME IndInv, [Next]_vars
             PROVE  IndInv'
  OBVIOUS
<1>1. CASE UNCHANGED vars
  BY <1>1, FsmOnly DEF vars, fsmVars, IndInv, TypeOK, FsmTypeOK, TowardsIdle
<1>2. CASE LoopStep
  BY <1>2, LoopTopStep, GetTaskStep, ProcessTaskStep, LockGrantedStep, ExecutionEndsStep,
     ForcedIdleDoneStep, FsmSteps DEF LoopStep, LoopGoesOn
<1> QED BY <1>1, <1>2, QueueSteps, OtherSteps, FsmSteps DEF Next

LEMMA IndAlways == Spec => []IndInv
<1>1. Init => IndInv
  <2> SUFFICES ASSUME Init
               PROVE  IndInv
    OBVIOUS
  <2>1. FsmTypeOK /\ TowardsIdle /\ call["loop"] = NoCall
    BY LoopIsCaller DEF Init, FsmInit, FsmTypeOK, States, TowardsIdle
  <2>2. loop \in Loops /\ loop.pc = "top" /\ ~Busy
    BY DEF Init, Loops, Busy
  <2>3. TypeOK
    BY <2>1, <2>2 DEF Init, TypeOK
  <2> QED BY <2>1, <2>2, <2>3 DEF Init, FsmInit, IndInv, EndInv, ForcingInv, KnownInv,
             IdleBetweenTasks, NoTaskForgotten, LockOnlyWhileExecuting, At
<1> QED BY <1>1, IndStep, PTL DEF Spec
-----------------------------------------------------------------------------
(***************************************************************************)
(* Type correctness of the queue, the loop, both shutdowns and the FSM;    *)
(* the loop has a request in flight only where it waits for forced IDLE.   *)
(***************************************************************************)
THEOREM TaskLoopTypeCorrect == Spec => []TypeOK
<1>1. IndInv => TypeOK
  BY DEF IndInv
<1> QED BY <1>1, IndAlways, PTL

(***************************************************************************)
(* The loop looks for its next task in IDLE only, with the kill switch and *)
(* shutdowns at any moment and unloads that fail (_process_task's finally, *)
(* orchestrator.py 552-555).                                               *)
(***************************************************************************)
THEOREM LoopIsIdleBetweenTasks == Spec => []IdleBetweenTasks
<1>1. IndInv => IdleBetweenTasks
  BY DEF IndInv
<1> QED BY <1>1, IndAlways, PTL

(***************************************************************************)
(* _active_tasks and the queue agree until a shutdown drains the queue     *)
(* (submit_task, cancel_task and _process_task's finally).                 *)
(***************************************************************************)
THEOREM ActiveIsQueued == Spec => []NoTaskForgotten
<1>1. IndInv => NoTaskForgotten
  BY DEF IndInv
<1> QED BY <1>1, IndAlways, PTL

(***************************************************************************)
(* The loop holds the gpu lock exactly during the execution of a GPU task, *)
(* whatever way the execution ends (_execute_task under `async with`).     *)
(***************************************************************************)
THEOREM LockIsForExecution == Spec => []LockOnlyWhileExecuting
<1>1. IndInv => LockOnlyWhileExecuting
  BY DEF IndInv
<1> QED BY <1>1, IndAlways, PTL

(***************************************************************************)
(* No task vanishes: one that was submitted is registered, has its result, *)
(* its error message or was cancelled, also when its execution and the way *)
(* back to IDLE fail or a shutdown drains the queue.  This is what         *)
(* TaskAnswered rests on: once a task is no longer active, it is answered. *)
(***************************************************************************)
NoTaskUnanswered ==
    \A t \in Tasks : Known(t) =>
        t \in active \union results \union cancelled \/ error[t] # "none"

\* A task is taken off the list when it is answered.
LEMMA AnswersStay ==
    ASSUME NoTaskUnanswered,
           NEW s \in Tasks, active' = active \ {s},
           s \in results' \union cancelled' \/ error'[s] # "none",
           results \subseteq results', cancelled \subseteq cancelled', UNCHANGED kind,
           \A t \in Tasks : error[t] # "none" => error'[t] # "none"
    PROVE  NoTaskUnanswered'
BY DEF NoTaskUnanswered, Known

LEMMA AnsweredStep == IndInv /\ NoTaskUnanswered /\ [Next]_vars => NoTaskUnanswered'
<1> SUFFICES ASSUME IndInv, NoTaskUnanswered, [Next]_vars
             PROVE  NoTaskUnanswered'
  OBVIOUS
<1>1. ASSUME NEW t \in Tasks, CancelTask(t)
      PROVE  NoTaskUnanswered'
  BY <1>1 DEF CancelTask, NoTaskUnanswered, Known
<1>2. ASSUME NEW t \in Tasks, NEW k \in Kinds, SubmitTask(t, k)
      PROVE  NoTaskUnanswered'
  <2>1. \A u \in Tasks \ {t} : Known(u)' => Known(u)
    BY <1>2 DEF SubmitTask, Known, IndInv, TypeOK
  <2> QED BY <1>2, <2>1 DEF SubmitTask, NoTaskUnanswered
<1>3. CASE ExecutionEnds
  <2>1. loop.task \in Tasks
    BY <1>3 DEF ExecutionEnds, IndInv, TypeOK, Loops, Busy, At
  <2>2. active' = active \ {loop.task} /\ UNCHANGED <<kind, cancelled>>
    BY <1>3 DEF ExecutionEnds, Finally
  <2>3. \/ results' = results \union {loop.task} /\ UNCHANGED error
        \/ error' = [error EXCEPT ![loop.task] = "service"] /\ UNCHANGED results
    BY <1>3 DEF ExecutionEnds
  <2>4. /\ results \subseteq results' /\ \A t \in Tasks : error[t] # "none" => error'[t] # "none"
        /\ loop.task \in results' \/ error'[loop.task] # "none"
    BY <2>1, <2>3 DEF IndInv, TypeOK
  <2> QED BY <2>1, <2>2, <2>4, AnswersStay
<1>4. CASE ProcessTask
  <2>1. loop.task \in Tasks
    BY <1>4 DEF ProcessTask, IndInv, TypeOK, Loops, Busy, At
  <2> DEFINE target == StateFor(loop.task)
  <2>2. CASE UNCHANGED <<kind, active, error, results, cancelled>>
    BY <2>2 DEF NoTaskUnanswered, Known
  <2>3. CASE /\ error' = [error EXCEPT ![loop.task] = Outcome(target, FALSE)]
             /\ Outcome(target, FALSE) # "SUCCESS" /\ Finally
             /\ UNCHANGED <<kind, results, cancelled>>
    <3>1. Outcome(target, FALSE) # "none"
      BY DEF Outcome
    <3>2. active' = active \ {loop.task}
      BY <2>3 DEF Finally
    <3>3. /\ error'[loop.task] # "none"
          /\ \A t \in Tasks : error[t] # "none" => error'[t] # "none"
      BY <2>1, <2>3, <3>1 DEF IndInv, TypeOK
    <3> QED BY <2>1, <2>3, <3>2, <3>3, AnswersStay
  <2> QED BY <1>4, <2>2, <2>3 DEF ProcessTask
<1>5. CASE UNCHANGED <<kind, active, results, error, cancelled>>
  BY <1>5 DEF NoTaskUnanswered, Known
<1>6. CASE LoopStep /\ ~ExecutionEnds /\ ~ProcessTask
  BY <1>5, <1>6 DEF LoopStep, LoopGoesOn, LoopTop, GetTask, GetTimeout, ForcedIdleDone,
                    LockGranted, ServiceLoads, ServiceUnloads, loopVars
<1>7. CASE VramCritical \/ TimeStep \/ \E c \in Callers : UnloadStep(c)
  BY <1>5, <1>7 DEF VramCritical, TimeStep, UnloadStep, loopVars
<1>8. CASE \/ BeginShutdown \/ AgentLocks \/ AgentUnlocks
           \/ \E s \in {"main", "loop"} : DrainQueue(s) \/ ShutdownEnds(s)
  BY <1>5, <1>8 DEF BeginShutdown, AgentLocks, AgentUnlocks, DrainQueue, ShutdownEnds
<1>9. CASE UNCHANGED vars
  BY <1>5, <1>9 DEF vars, loopVars
<1> QED BY <1>1, <1>2, <1>3, <1>4, <1>6, <1>7, <1>8, <1>9 DEF Next

\* Every submitted task is registered or answered, for any tasks and queue
\* size, with shutdowns, the kill switch and failing unloads.
THEOREM NoTaskVanishes == Spec => []NoTaskUnanswered
<1>1. Init => NoTaskUnanswered
  BY DEF Init, NoTaskUnanswered, Known
<1> QED BY <1>1, IndAlways, AnsweredStep, PTL DEF Spec
-----------------------------------------------------------------------------
(***************************************************************************)
(* Without the kill switch the loop is the only one that uses the FSM, and *)
(* it uses it in the order the documentation of the FSM expects: a request *)
(* for the state of the task, the execution in that state, a request for   *)
(* IDLE.  Shutdown assigns the state without a request (_disconnect_       *)
(* services): what follows holds until it drains the queue.                *)
(***************************************************************************)
LoopOnly ==
    /\ call["watchdog"] = NoCall
    /\ At("lock") \/ At("execute") => current_state = StateFor(loop.task)

UntilDrained == Drained \/ LoopOnly

LEMMA DrainedStays == IndInv /\ [Next]_vars /\ Drained => Drained'
<1> SUFFICES ASSUME IndInv, [Next]_vars, Drained
             PROVE  Drained'
  OBVIOUS
<1>1. PICK s \in {"main", "loop"} : shutdown[s] \in {"disconnecting", "done"}
  BY DEF Drained
<1>2. CASE UNCHANGED shutdown
  BY <1>2 DEF Drained
<1>3. CASE LoopTop
  BY <1>1, <1>3 DEF LoopTop, At, IndInv, TypeOK, EndInv, Drained
<1>4. CASE BeginShutdown
  BY <1>1, <1>4 DEF BeginShutdown, IndInv, TypeOK, Drained
<1>5. ASSUME NEW d \in {"main", "loop"}, DrainQueue(d) \/ ShutdownEnds(d)
      PROVE  Drained'
  BY <1>1, <1>5 DEF DrainQueue, ShutdownEnds, IndInv, TypeOK, Drained
<1> QED BY <1>2, <1>3, <1>4, <1>5
        DEF Next, vars, loopVars, CancelTask, SubmitTask, LoopStep, LoopGoesOn, GetTask,
            GetTimeout, ProcessTask, ExecutionEnds, ForcedIdleDone, LockGranted, ServiceLoads,
            ServiceUnloads, AgentLocks, AgentUnlocks, VramCritical, TimeStep, UnloadStep

\* What ServiceLoads and ServiceUnloads do to the FSM.
LEMMA ServiceIsSerial ==
    ASSUME IndInv, LoopOnly, ServiceLoads \/ ServiceUnloads
    PROVE  [SerialNext]_fsmVars
<1>1. At("execute") /\ current_state = StateFor(loop.task) /\ call["loop"] = NoCall
  BY DEF ServiceLoads, ServiceUnloads, LoopOnly, IndInv, TypeOK, At
<1>2. InFlight = {}
  BY <1>1, TaskLoopAssumption DEF LoopOnly, InFlight
<1>3. CASE ServiceLoads
  <2>1. PICK m \in Models : /\ models' = models \union {m}
                            /\ current_state = IF m = "llm" THEN "TEXT" ELSE "IMAGE"
    BY <1>1, <1>3 DEF ServiceLoads, ModelOf, StateFor, Models
  <2>2. LoadModel(m)
    BY <1>2, <1>3, <2>1 DEF ServiceLoads, LoadModel
  <2> QED BY <1>2, <2>2 DEF SerialNext
<1>4. CASE ServiceUnloads
  <2>1. DropModel("llm")
    BY <1>4 DEF ServiceUnloads, DropModel
  <2> QED BY <2>1 DEF SerialNext, Models
<1> QED BY <1>3, <1>4

\* The loop asks when it has no request in flight, and nobody else has one.
LEMMA RequestIsSerial ==
    ASSUME IndInv, LoopOnly, call["loop"] = NoCall,
           \/ RequestStateChange("loop", "IDLE", TRUE)
           \/ \E t \in States : RequestStateChange("loop", t, FALSE)
    PROVE  [SerialNext]_fsmVars /\ UNCHANGED call["watchdog"]
<1>1. InFlight = {}
  BY TaskLoopAssumption DEF LoopOnly, InFlight
<1>2. [SerialNext]_fsmVars
  BY <1>1, LoopIsCaller DEF SerialNext
<1>3. ASSUME NEW t \in States, NEW f \in BOOLEAN, RequestStateChange("loop", t, f)
      PROVE  UNCHANGED call["watchdog"]
  BY <1>3, LoopIsCaller DEF RequestStateChange, Refuse, SwitchAtOnce, BeginUnload, fsmVars,
                            IndInv, TypeOK, FsmTypeOK
<1> QED BY <1>2, <1>3 DEF States

LEMMA FinallyIsSerial ==
    ASSUME IndInv, LoopOnly, Finally, At("got") \/ At("execute")
    PROVE  /\ [SerialNext]_fsmVars /\ UNCHANGED call["watchdog"]
           /\ loop'.pc \in {"top", "forcing"}
<1>1. call["loop"] = NoCall /\ loop \in Loops
  BY DEF IndInv, TypeOK, At
<1>2. loop'.pc \in {"top", "forcing"}
  BY <1>1 DEF Finally, Goto, Loops
<1>3. CASE UNCHANGED fsmVars
  BY <1>2, <1>3 DEF fsmVars
<1>4. CASE RequestStateChange("loop", "IDLE", TRUE)
  BY <1>1, <1>2, <1>4, RequestIsSerial
<1> QED BY <1>3, <1>4 DEF Finally

LEMMA ProcessIsSerial ==
    ASSUME IndInv, LoopOnly, ProcessTask
    PROVE  [SerialNext]_fsmVars /\ LoopOnly'
<1> DEFINE target == StateFor(loop.task)
<1>0. /\ At("got") /\ current_state = "IDLE" /\ UNCHANGED kind
      /\ loop \in Loops /\ call["loop"] = NoCall
  BY DEF ProcessTask, IndInv, TypeOK, ForcingInv, At
<1>1. target \in States
  BY DEF StateFor, States
<1>2. ASSUME EnterExecution, current_state' = target, UNCHANGED call["watchdog"]
      PROVE  LoopOnly'
  <2>1. loop'.task = loop.task
    BY <1>0, <1>2 DEF EnterExecution, Execute, Goto, Loops
  <2>2. StateFor(loop.task)' = target
    BY <1>0, <2>1 DEF StateFor
  <2> QED BY <1>2, <2>2 DEF LoopOnly
<1>3. CASE target = current_state /\ EnterExecution /\ UNCHANGED fsmVars
  BY <1>2, <1>3 DEF fsmVars
<1>4. CASE /\ Outcome(target, FALSE) = "SUCCESS" /\ RequestStateChange("loop", target, FALSE)
           /\ EnterExecution
  <2>1. [SerialNext]_fsmVars /\ UNCHANGED call["watchdog"]
    BY <1>0, <1>1, <1>4, RequestIsSerial
  <2>2. current_state' = target
    BY <1>0, <1>4 DEF RequestStateChange, Refuse, SwitchAtOnce, Commit, BeginUnload, Suspends,
                      ModelUnloaded
  <2> QED BY <1>2, <1>4, <2>1, <2>2
<1>5. CASE Finally
  BY <1>0, <1>5, FinallyIsSerial DEF LoopOnly, At
<1> QED BY <1>3, <1>4, <1>5 DEF ProcessTask

(***************************************************************************)
(* Until the queue is drained, whatever the loop, its services and its     *)
(* tasks do is a step of the FSM in which no two calls overlap.            *)
(***************************************************************************)
LEMMA LoopIsSerial ==
    ASSUME ~KillSwitch, IndInv, LoopOnly, ~Drained', [Next]_vars
    PROVE  [SerialNext]_fsmVars /\ LoopOnly'
<1>1. CASE UNCHANGED vars
  BY <1>1 DEF vars, fsmVars, loopVars, LoopOnly, At, StateFor
<1>2. ASSUME NEW t \in Tasks, CancelTask(t)
      PROVE  [SerialNext]_fsmVars /\ LoopOnly'
  BY <1>2 DEF CancelTask, fsmVars, LoopOnly, At, StateFor
<1>3. ASSUME NEW t \in Tasks, NEW k \in Kinds, SubmitTask(t, k)
      PROVE  [SerialNext]_fsmVars /\ LoopOnly'
  <2>1. Busy => loop.task # t
    BY <1>3 DEF SubmitTask, IndInv, KnownInv
  <2>2. UNCHANGED <<fsmVars, loop>> /\ kind' = [kind EXCEPT ![t] = k]
    BY <1>3 DEF SubmitTask
  <2>3. kind \in [Tasks -> Kinds \union {"none"}]
    BY DEF IndInv, TypeOK
  <2>4. Busy => kind'[loop.task] = kind[loop.task]
    BY <2>1, <2>2, <2>3
  <2> QED BY <2>2, <2>4 DEF fsmVars, LoopOnly, At, StateFor, Busy
<1>4. CASE BeginShutdown \/ AgentLocks \/ AgentUnlocks \/ \E s \in {"main", "loop"} : DrainQueue(s)
  BY <1>4 DEF BeginShutdown, AgentLocks, AgentUnlocks, DrainQueue, fsmVars, LoopOnly, At, StateFor
<1>5. ~\E s \in {"main", "loop"} : ShutdownEnds(s)
  BY DEF ShutdownEnds, Drained, IndInv, TypeOK
<1>6. CASE LoopTop \/ GetTask \/ GetTimeout
  BY <1>6 DEF LoopTop, GetTask, GetTimeout, Goto, fsmVars, LoopOnly, At, IndInv, TypeOK, Loops
<1>7. CASE LockGranted
  BY <1>7 DEF LockGranted, Execute, Goto, fsmVars, LoopOnly, At, IndInv, TypeOK, Loops, StateFor
<1>8. CASE ServiceLoads \/ ServiceUnloads
  BY <1>8, ServiceIsSerial
     DEF ServiceLoads, ServiceUnloads, loopVars, LoopOnly, At, StateFor
<1>9. CASE ExecutionEnds
  BY <1>9, FinallyIsSerial DEF ExecutionEnds, LoopOnly, At
<1>10. CASE ForcedIdleDone
  <2>1. FinishCall("loop") /\ UNCHANGED call["watchdog"] /\ loop'.pc = "top"
    BY <1>10, LoopIsCaller DEF ForcedIdleDone, FinishCall, Goto, IndInv, TypeOK, FsmTypeOK, Loops
  <2> QED BY <2>1, LoopIsCaller DEF SerialNext, LoopOnly, At
<1>11. CASE TimeStep
  BY <1>11 DEF TimeStep, CooldownElapses, SerialNext, loopVars, LoopOnly, At, StateFor
<1>12. ASSUME NEW c \in Callers, UnloadStep(c)
       PROVE  [SerialNext]_fsmVars /\ LoopOnly'
  <2>1. c # "watchdog" /\ UnloadEffect(c) /\ UNCHANGED <<loopVars, current_state>>
    BY <1>12 DEF UnloadStep, UnloadEffect, LoopOnly
  <2>2. UNCHANGED call["watchdog"]
    BY <2>1, LoopIsCaller DEF UnloadEffect, IndInv, TypeOK, FsmTypeOK
  <2> QED BY <2>1, <2>2 DEF SerialNext, loopVars, LoopOnly, At, StateFor
<1> QED BY <1>1, <1>2, <1>3, <1>4, <1>5, <1>6, <1>7, <1>8, <1>9, <1>10, <1>11, <1>12, ProcessIsSerial
        DEF Next, LoopStep, LoopGoesOn, VramCritical

LEMMA LoopOnlyStep ==
    ASSUME ~KillSwitch, IndInv, UntilDrained, [Next]_vars
    PROVE  UntilDrained'
BY LoopIsSerial, DrainedStays DEF UntilDrained

(***************************************************************************)
(* The queue and its loop are one orderly user of the FSM of Orchestrator: *)
(* until a shutdown drains the queue, and without the kill switch, every   *)
(* behaviour of TaskLoop is one of FsmSpec, for any tasks, also with       *)
(* unloads that fail.                                                      *)
(***************************************************************************)
THEOREM LoopFollowsFsm ==
    ASSUME ~KillSwitch
    PROVE  Spec => FsmInit /\ [][Drained' \/ FsmNext]_fsmVars
<1>1. Init => FsmInit /\ UntilDrained
  BY LoopIsCaller DEF Init, FsmInit, UntilDrained, LoopOnly, At
<1>2. IndInv /\ UntilDrained /\ [Next]_vars => UntilDrained'
  BY LoopOnlyStep
<1>3. IndInv /\ UntilDrained /\ [Next]_vars => [Drained' \/ FsmNext]_fsmVars
  BY LoopIsSerial, SerialIsFsm, DrainedStays DEF UntilDrained
<1> QED BY <1>1, <1>2, <1>3, IndAlways, PTL DEF Spec

(***************************************************************************)
(* ... and so it keeps the contract that the documentation of the FSM      *)
(* states (core/states.py 21-35): with unloads that work, one task after   *)
(* the other sees GpuModes, atomic switches and one owner of VRAM.         *)
(***************************************************************************)
THEOREM LoopKeepsContract ==
    ASSUME ~KillSwitch, ~UnloadMayFail
    PROVE  Spec => Modes!Init /\ [][Drained' \/ Modes!Next]_(Modes!vars)
<1> DEFINE SerialUntil == Drained \/ SerialInv
<1>1. Init => UntilDrained /\ SerialUntil /\ Modes!Init
  <2> SUFFICES ASSUME Init
               PROVE  LoopOnly /\ SerialInv /\ Modes!Init
    BY DEF UntilDrained
  <2>1. LoopOnly
    BY LoopIsCaller DEF Init, FsmInit, LoopOnly, At
  <2> QED BY <2>1, SerialInit DEF Init
<1>2. IndInv /\ UntilDrained /\ [Next]_vars => UntilDrained'
  BY LoopOnlyStep
<1>3. IndInv /\ UntilDrained /\ SerialUntil /\ [Next]_vars => SerialUntil'
  BY LoopIsSerial, SerialStep, DrainedStays DEF UntilDrained
<1>4. IndInv /\ UntilDrained /\ SerialUntil /\ SerialUntil' /\ [Next]_vars
        => [Drained' \/ Modes!Next]_(Modes!vars)
  BY LoopIsSerial, ContractStep, DrainedStays DEF UntilDrained
<1> QED BY <1>1, <1>2, <1>3, <1>4, IndAlways, PTL DEF Spec
=============================================================================
