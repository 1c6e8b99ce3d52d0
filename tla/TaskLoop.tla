------------------------------ MODULE TaskLoop ------------------------------
(***************************************************************************)
(* The task queue of the Orchestrator: submit_task, cancel_task,           *)
(* get_task_status, run / _main_loop / _process_task and shutdown, around  *)
(* the FSM of Orchestrator.tla.  Two callers use the FSM: the main loop    *)
(* and the VRAM watchdog's kill switch (main.py on_vram_critical).  The    *)
(* gpu lock is shared with the agent runs of chats (run_agent).            *)
(***************************************************************************)
EXTENDS Orchestrator, Naturals

CONSTANTS Tasks,           \* task ids
          NoTask,          \* the loop has no task yet
          Rank,            \* [Tasks -> order of (priority, timestamp) in the queue]
          MAX_QUEUE_SIZE,
          KillSwitch       \* the watchdog may force IDLE

ASSUME TaskLoopAssumption ==
    /\ Callers = {"loop", "watchdog"}
    /\ Rank \in [Tasks -> Nat]
    /\ \A s, t \in Tasks : Rank[s] = Rank[t] => s = t
    /\ NoTask \notin Tasks
    /\ MAX_QUEUE_SIZE \in Nat

VARIABLES kind,       \* [Tasks -> task_type, "none" before it is submitted]
          queue,      \* _task_queue: the tasks in it, ordered by Rank
          active,     \* _active_tasks
          results,    \* the keys of _task_results
          error,      \* [Tasks -> task.error_message]
          running,    \* _is_running and not _shutdown_event
          gpu_lock,   \* who holds _gpu_lock: "free", "loop" or "agent"
          loop,       \* the main loop: where it is, and with which task
          shutdown,   \* [{"main", "loop"} -> progress of its shutdown() call]
          cancelled   \* history: the tasks cancel_task has answered True for

loopVars == <<kind, queue, active, results, error, running, gpu_lock, loop,
              shutdown, cancelled>>
vars == <<fsmVars, loopVars>>

StateFor(t) == CASE kind[t] = "llm" -> "TEXT"
                 [] kind[t] = "image" -> "IMAGE"
                 [] OTHER -> "IDLE"

IsGpuTask(t) == kind[t] \in {"llm", "image"}

At(pc) == loop.pc = pc

Goto(pc) == loop' = [loop EXCEPT !.pc = pc]

Init ==
    /\ FsmInit
    /\ kind = [t \in Tasks |-> "none"]
    /\ queue = {} /\ active = {} /\ results = {}
    /\ error = [t \in Tasks |-> "none"]
    /\ running = TRUE
    /\ gpu_lock = "free"
    /\ loop = [pc |-> "top", task |-> NoTask]
    /\ shutdown = [s \in {"main", "loop"} |-> "no"]
    /\ cancelled = {}
-----------------------------------------------------------------------------
(* The API of the queue.  Each task is submitted at most once.             *)

Kinds == {"llm", "image", "document"}

Known(t) == kind[t] # "none"

\* Mutant: registers the task before it looks whether the queue is full.
SubmitTaskRegistersFirst(t, k) ==
    /\ ~Known(t)
    /\ kind' = [kind EXCEPT ![t] = k]
    /\ queue' = IF Cardinality(queue) < MAX_QUEUE_SIZE THEN queue \union {t} ELSE queue
    /\ active' = active \union {t}
    /\ UNCHANGED <<fsmVars, results, error, running, gpu_lock, loop, shutdown,
                   cancelled>>

\* submit_task; a full queue raises and changes nothing.
SubmitTask(t, k) ==
    /\ ~Known(t)
    /\ Cardinality(queue) < MAX_QUEUE_SIZE
    /\ kind' = [kind EXCEPT ![t] = k]
    /\ queue' = queue \union {t}
    /\ active' = active \union {t}
    /\ UNCHANGED <<fsmVars, results, error, running, gpu_lock, loop, shutdown,
                   cancelled>>

CancelTask(t) ==
    /\ t \in active
    /\ active' = active \ {t}
    /\ cancelled' = cancelled \union {t}
    /\ UNCHANGED <<fsmVars, kind, queue, results, error, running, gpu_lock, loop,
                   shutdown>>
-----------------------------------------------------------------------------
(* _process_task.  The parts of it that run without suspension are         *)
(* operators, joined into the action in which they run.                    *)

\* Mutant: the finally asks for IDLE without force.
FinallyUnforced ==
    /\ active' = active \ {loop.task}
    /\ IF current_state = "IDLE"
       THEN Goto("top") /\ UNCHANGED fsmVars
       ELSE /\ RequestStateChange("loop", "IDLE", FALSE)
            /\ Goto(IF call'["loop"] = NoCall THEN "top" ELSE "forcing")

\* The finally block, in a step that leaves current_state alone otherwise.
Finally ==
    /\ active' = active \ {loop.task}
    /\ IF current_state = "IDLE"
       THEN Goto("top") /\ UNCHANGED fsmVars
       ELSE /\ RequestStateChange("loop", "IDLE", TRUE)
            /\ Goto(IF call'["loop"] = NoCall THEN "top" ELSE "forcing")

\* The service is entered: it loads its model.
Execute == Goto("execute")

\* Take the lock if the task needs it, or queue for it.
EnterExecution ==
    IF ~IsGpuTask(loop.task) THEN Execute /\ UNCHANGED gpu_lock
    ELSE IF gpu_lock = "free" THEN Execute /\ gpu_lock' = "loop"
    ELSE Goto("lock") /\ UNCHANGED gpu_lock

\* The while condition; when it fails run()'s finally calls shutdown() again.
LoopTop ==
    /\ At("top")
    /\ \/ running /\ Goto("get") /\ UNCHANGED shutdown
       \/ ~running /\ Goto("ended") /\ shutdown' = [shutdown EXCEPT !["loop"] = "waiting"]
    /\ UNCHANGED <<fsmVars, kind, queue, active, results, error, running, gpu_lock,
                   cancelled>>

\* The loop waits in queue.get(), where it does not see a shutdown.
GetTask ==
    /\ At("get")
    /\ \E t \in queue :
          /\ \A u \in queue : Rank[t] <= Rank[u]
          /\ queue' = queue \ {t}
          /\ loop' = [pc |-> "got", task |-> t]
    /\ UNCHANGED <<fsmVars, kind, active, results, error, running, gpu_lock, shutdown,
                   cancelled>>

GetTimeout ==
    /\ At("get") /\ queue = {}
    /\ Goto("top")
    /\ UNCHANGED <<fsmVars, kind, queue, active, results, error, running, gpu_lock, shutdown,
                   cancelled>>

\* The loop leaves IDLE (IdleBetweenTasks), where there is nothing to unload:
\* its request does not suspend.
ProcessTask ==
    /\ At("got")
    /\ LET target == StateFor(loop.task) IN
       \/ /\ target = current_state
          /\ EnterExecution
          /\ UNCHANGED <<fsmVars, kind, active, error>>
       \/ /\ target # current_state /\ Outcome(target, FALSE) = "SUCCESS"
          /\ RequestStateChange("loop", target, FALSE)
          /\ EnterExecution
          /\ UNCHANGED <<active, error>>
       \/ /\ target # current_state /\ Outcome(target, FALSE) # "SUCCESS"
          /\ error' = [error EXCEPT ![loop.task] = Outcome(target, FALSE)]
          /\ Finally
          /\ UNCHANGED gpu_lock
    /\ UNCHANGED <<kind, queue, results, running, shutdown, cancelled>>

LockGranted ==
    /\ At("lock") /\ gpu_lock = "free"
    /\ gpu_lock' = "loop"
    /\ Execute
    /\ UNCHANGED <<fsmVars, kind, queue, active, results, error, running, shutdown, cancelled>>

ModelOf(t) == IF kind[t] = "llm" THEN {"llm"} ELSE IF kind[t] = "image" THEN {"image"} ELSE {}

\* The service works; the LLM is unloaded by its own service afterwards.
ServiceLoads ==
    /\ At("execute") /\ ~(ModelOf(loop.task) \subseteq models)
    /\ models' = models \union ModelOf(loop.task)
    /\ UNCHANGED <<current_state, cooling, call, loopVars>>

ServiceUnloads ==
    /\ At("execute") /\ UnloadOnIdle
    /\ kind[loop.task] = "llm" /\ "llm" \in models
    /\ models' = models \ {"llm"}
    /\ UNCHANGED <<current_state, cooling, call, loopVars>>

\* Mutant: a failing task is dropped without an error message.
ExecutionEndsSilently ==
    /\ At("execute")
    /\ results' = results \union {loop.task} \/ UNCHANGED results
    /\ gpu_lock' = IF IsGpuTask(loop.task) THEN "free" ELSE gpu_lock
    /\ Finally
    /\ UNCHANGED <<kind, queue, error, running, shutdown, cancelled>>

\* _execute_task returns or raises; the lock is released on the way out.
ExecutionEnds ==
    /\ At("execute")
    /\ \/ results' = results \union {loop.task} /\ UNCHANGED error
       \/ error' = [error EXCEPT ![loop.task] = "service"] /\ UNCHANGED results
    /\ gpu_lock' = IF IsGpuTask(loop.task) THEN "free" ELSE gpu_lock
    /\ Finally
    /\ UNCHANGED <<kind, queue, running, shutdown, cancelled>>

ForcedIdleDone ==
    /\ At("forcing")
    /\ FinishCall("loop")
    /\ Goto("top")
    /\ UNCHANGED <<kind, queue, active, results, error, running, gpu_lock, shutdown,
                   cancelled>>
-----------------------------------------------------------------------------
(* shutdown(), called by main.py and by run().                             *)

BeginShutdown ==
    /\ shutdown["main"] = "no"
    /\ shutdown' = [shutdown EXCEPT !["main"] = "waiting"]
    /\ running' = FALSE
    /\ UNCHANGED <<fsmVars, kind, queue, active, results, error, gpu_lock, loop,
                   cancelled>>

\* _perform_shutdown: the active tasks are gone, or ten seconds are over.
DrainQueue(s) ==
    /\ shutdown[s] = "waiting"
    /\ queue' = {}
    /\ shutdown' = [shutdown EXCEPT ![s] = "disconnecting"]
    /\ UNCHANGED <<fsmVars, kind, active, results, error, running, gpu_lock, loop,
                   cancelled>>

\* _disconnect_services ends with current_state = IDLE.
ShutdownEnds(s) ==
    /\ shutdown[s] = "disconnecting"
    /\ shutdown' = [shutdown EXCEPT ![s] = "done"]
    /\ current_state' = "IDLE"
    /\ UNCHANGED <<cooling, models, call, kind, queue, active, results, error,
                   running, gpu_lock, loop, cancelled>>
-----------------------------------------------------------------------------
(* The rest of the process.                                                *)

\* A chat's run_agent has or leaves the lock.
AgentLocks ==
    /\ gpu_lock = "free"
    /\ gpu_lock' = "agent"
    /\ UNCHANGED <<fsmVars, kind, queue, active, results, error, running, loop, shutdown,
                   cancelled>>

AgentUnlocks ==
    /\ gpu_lock = "agent"
    /\ gpu_lock' = "free"
    /\ UNCHANGED <<fsmVars, kind, queue, active, results, error, running, loop, shutdown,
                   cancelled>>

VramCritical ==
    /\ KillSwitch
    /\ \/ RequestStateChange("watchdog", "IDLE", TRUE)
       \/ FinishCall("watchdog")
    /\ UNCHANGED loopVars

UnloadStep(c) == UnloadEffect(c) /\ UNCHANGED loopVars

TimeStep == CooldownElapses /\ UNCHANGED loopVars

\* Where the loop can go on it goes on; what a service does is its own affair.
LoopGoesOn == \/ LoopTop \/ GetTask \/ ProcessTask
              \/ ExecutionEnds \/ ForcedIdleDone

LoopStep == LoopGoesOn \/ GetTimeout \/ LockGranted \/ ServiceLoads \/ ServiceUnloads

Next == \/ \E t \in Tasks : CancelTask(t) \/ \E k \in Kinds : SubmitTask(t, k)
        \/ LoopStep
        \/ BeginShutdown \/ \E s \in {"main", "loop"} : DrainQueue(s) \/ ShutdownEnds(s)
        \/ AgentLocks \/ AgentUnlocks
        \/ VramCritical \/ TimeStep \/ \E c \in Callers : UnloadStep(c)

(***************************************************************************)
(* The event loop runs every coroutine that can go on, a service's request *)
(* ends by its timeout, and an agent run ends; asyncio.Lock serves its     *)
(* waiters in turn.                                                        *)
(***************************************************************************)
Fairness == /\ WF_vars(LoopGoesOn) /\ SF_vars(LockGranted) /\ WF_vars(AgentUnlocks)
            /\ \A c \in Callers : WF_vars(UnloadStep(c))

Spec == Init /\ [][Next]_vars /\ Fairness
-----------------------------------------------------------------------------
Busy == loop.pc \notin {"top", "get", "ended"}

Loops == [pc : {"top", "get", "got", "lock", "execute", "forcing", "ended"},
          task : Tasks \union {NoTask}]

TypeOK ==
    /\ FsmTypeOK
    /\ kind \in [Tasks -> Kinds \union {"none"}]
    /\ queue \subseteq Tasks /\ active \subseteq Tasks /\ results \subseteq Tasks
    /\ error \in [Tasks -> Results \union {"none", "service"}]
    /\ running \in BOOLEAN
    /\ gpu_lock \in {"free", "loop", "agent"}
    /\ loop \in Loops /\ (Busy => loop.task # NoTask)
    /\ call["loop"] # NoCall => At("forcing")
    /\ shutdown \in [{"main", "loop"} -> {"no", "waiting", "disconnecting", "done"}]
    /\ cancelled \subseteq Tasks

(***************************************************************************)
(* FINALLY -> FORCE IDLE (orchestrator.py 552-555; test_fsm_idle_recovery  *)
(* 17): the loop looks for its next task only in IDLE, whatever failed in  *)
(* the last one, with the kill switch forcing IDLE at any moment.          *)
(***************************************************************************)
IdleBetweenTasks == At("top") \/ At("get") => current_state = "IDLE"

(***************************************************************************)
(* _active_tasks and the queue agree until a shutdown drains the queue: a  *)
(* task reported as pending waits in the queue or is in the loop's hands.  *)
(***************************************************************************)
Drained == \E s \in {"main", "loop"} : shutdown[s] \in {"disconnecting", "done"}

NoTaskForgotten ==
    ~Drained => active \subseteq queue \union (IF Busy THEN {loop.task} ELSE {})

(***************************************************************************)
(* The loop keeps the gpu lock, which the agent runs of all chats need,    *)
(* for the execution of a GPU task and no longer, also when it fails.      *)
(***************************************************************************)
LockOnlyWhileExecuting ==
    gpu_lock = "loop" <=> At("execute") /\ IsGpuTask(loop.task)

(***************************************************************************)
(* While the orchestrator runs, a submitted task does not stay pending: it *)
(* is completed, failed with an error message, or cancelled.               *)
(***************************************************************************)
TaskAnswered ==
    \A t \in Tasks : t \in active ~>
        (t \in results \/ error[t] # "none" \/ t \in cancelled \/ ~running)
=============================================================================
