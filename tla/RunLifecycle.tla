---------------------------- MODULE RunLifecycle ----------------------------
(***************************************************************************)
(* The life of an agent run as mellow_link/routers/runs.py manages it: the *)
(* row in agent_runs, written by emit_event (infra/run_events.py), the     *)
(* operator's RUN_CONTROL_STATE, and the execution.  A started run has a   *)
(* thread and an event loop of its own, a retried one is a background task *)
(* of the main loop, and both execute AgentBrain.run (core/agent_brain.py) *)
(* under the orchestrator's gpu lock.  The status is written by handlers   *)
(* and by the agent, from two threads, and the last writer wins.           *)
(*                                                                         *)
(* The row is durable; everything else is lost in a crash.  Approvals are  *)
(* left out: no agent ever waits for one (README).                         *)
(***************************************************************************)
EXTENDS Sequences, SequencesExt

CONSTANTS Runs,       \* run ids
          NoRun,      \* no force_finish handler is at work
          NoControl,  \* RUN_CONTROL_STATE has no entry
          NoLoop,     \* the lock has not met an event loop yet
          MayCrash    \* the process may die and be started again

ASSUME RunLifecycleAssumption ==
    /\ NoRun \notin Runs
    /\ "main" \notin Runs /\ NoLoop \notin Runs \union {"main"}
    /\ NoControl \notin [paused : BOOLEAN, abort : BOOLEAN, running : BOOLEAN]
    /\ MayCrash \in BOOLEAN

VARIABLES status,   \* [Runs -> AgentRun.status, "none" before create_run]
          control,  \* RUN_CONTROL_STATE
          agent,    \* [Runs -> where the execution is]
          host,     \* [Runs -> the event loop it runs on]
          lock,     \* _gpu_lock: locked, waiters and the loop it is bound to
          forcing,  \* the run a force_finish handler is at
          closed    \* history: the runs force_finish has reported as failed

vars == <<status, control, agent, host, lock, forcing, closed>>

Controls == [paused : BOOLEAN, abort : BOOLEAN, running : BOOLEAN]
Fresh == [paused |-> FALSE, abort |-> FALSE, running |-> TRUE]
FreeLock == [locked |-> FALSE, waiters |-> <<>>, bound |-> NoLoop]

Terminal(r) == status[r] \in {"completed", "failed"}
At(r, p) == agent[r] = p
Goto(r, p) == agent' = [agent EXCEPT ![r] = p]

Init == /\ status = [r \in Runs |-> "none"]
        /\ control = [r \in Runs |-> NoControl]
        /\ agent = [r \in Runs |-> "none"]
        /\ host = [r \in Runs |-> NoLoop]
        /\ lock = FreeLock
        /\ forcing = NoRun
        /\ closed = {}

\* emit_event's effect on the row: run_started, run_finished and error.
Emit(r, s) == status' = [status EXCEPT ![r] = s]
-----------------------------------------------------------------------------
(* The endpoints.  Their handlers have no await in them, so that only the  *)
(* threads of started runs come between their statements; that matters in  *)
(* force_finish, which is two steps.                                       *)

MainFree == forcing = NoRun /\ \A r \in Runs : host[r] = "main" => ~At(r, "taking")

CreateRun(r) ==
    /\ MainFree /\ status[r] = "none"
    /\ Emit(r, "pending")
    /\ UNCHANGED <<control, agent, host, lock, forcing, closed>>

\* Mutant: the control entry of an earlier handler is kept.
StartRunKeepsControl(r) ==
    /\ MainFree /\ status[r] = "pending"
    /\ Emit(r, "running")
    /\ control' = [control EXCEPT ![r] = IF @ = NoControl THEN Fresh ELSE @]
    /\ Goto(r, "spawned")
    /\ host' = [host EXCEPT ![r] = r]
    /\ UNCHANGED <<lock, forcing, closed>>

\* run_started, a new control entry, and a thread with its own event loop.
StartRun(r) ==
    /\ MainFree /\ status[r] = "pending"
    /\ Emit(r, "running")
    /\ control' = [control EXCEPT ![r] = Fresh]
    /\ Goto(r, "spawned")
    /\ host' = [host EXCEPT ![r] = r]
    /\ UNCHANGED <<lock, forcing, closed>>

\* setdefault: the entry of the run, made from its status if there is none.
Entry(r) == IF control[r] = NoControl
            THEN [Fresh EXCEPT !.running = (status[r] = "running")] ELSE control[r]

\* The entry as /control sees it.
ControlEntry(r) == IF Terminal(r) THEN [Entry(r) EXCEPT !.running = FALSE] ELSE Entry(r)

\* A run that has a run_started event is run again, as n, on the main loop.
RetryRun(r, n) ==
    /\ MainFree /\ Terminal(r) /\ agent[r] # "none"
    /\ status[n] = "none"
    /\ Emit(n, "running")
    /\ control' = [control EXCEPT ![n] = Fresh, ![r] = ControlEntry(r)]
    /\ Goto(n, "spawned")
    /\ host' = [host EXCEPT ![n] = "main"]
    /\ UNCHANGED <<lock, forcing, closed>>

\* /mode and /propose-tool: flags that nobody reads, in an entry.
SetMode(r) ==
    /\ MainFree /\ status[r] # "none"
    /\ control' = [control EXCEPT ![r] = Entry(r)]
    /\ UNCHANGED <<status, agent, host, lock, forcing, closed>>

\* pause toggles; a run that is not running gets a 409.
PauseRun(r) ==
    /\ MainFree /\ status[r] # "none"
    /\ LET e == ControlEntry(r) IN
       control' = [control EXCEPT ![r] = IF e.running THEN [e EXCEPT !.paused = ~@] ELSE e]
    /\ UNCHANGED <<status, agent, host, lock, forcing, closed>>

AbortRun(r) ==
    /\ MainFree /\ status[r] # "none"
    /\ LET e == ControlEntry(r) IN
       control' = [control EXCEPT ![r] =
                      IF Terminal(r) THEN e ELSE [e EXCEPT !.abort = TRUE, !.paused = FALSE]]
    /\ UNCHANGED <<status, agent, host, lock, forcing, closed>>

\* force_finish looks at the status ...
ForceFinish(r) ==
    /\ MainFree /\ status[r] # "none" /\ ~Terminal(r)
    /\ control' = [control EXCEPT ![r] = ControlEntry(r)]
    /\ forcing' = r
    /\ UNCHANGED <<status, agent, host, lock, closed>>

\* ... and writes it.
ForceFinished(r) ==
    /\ forcing = r
    /\ Emit(r, "failed")
    /\ control' = [control EXCEPT ![r] = [Fresh EXCEPT !.running = FALSE]]
    /\ forcing' = NoRun
    /\ closed' = closed \union {r}
    /\ UNCHANGED <<agent, host, lock>>
-----------------------------------------------------------------------------
(* The execution: _execute_run_background and AgentBrain.run.              *)

\* The event loop of the run is free, or is at this run.
Runnable(r) == host[r] = "main" => MainFree \/ At(r, "taking")

(***************************************************************************)
(* asyncio.Lock.acquire (Python 3.10): a lock that is found free and       *)
(* without waiters is locked, in a statement of its own, where another     *)
(* thread may be in between.  The first acquire that has to wait binds the *)
(* lock to its event loop; from then on an acquire that has to wait on     *)
(* another loop raises RuntimeError.                                       *)
(***************************************************************************)
Acquire(r) ==
    IF ~lock.locked /\ lock.waiters = <<>>
    THEN Goto(r, "taking") /\ UNCHANGED lock
    ELSE IF lock.bound \in {NoLoop, host[r]}
    THEN /\ lock' = [lock EXCEPT !.waiters = Append(@, r), !.bound = host[r]]
         /\ Goto(r, "waiting")
    ELSE Goto(r, "refused") /\ UNCHANGED lock

\* An abort that arrived in time ends the run before the agent is called.
Begin(r) ==
    /\ At(r, "spawned") /\ Runnable(r)
    /\ \/ /\ control[r].abort
          /\ Emit(r, "failed")
          /\ control' = [control EXCEPT ![r].running = FALSE]
          /\ Goto(r, "ended")
          /\ UNCHANGED lock
       \/ /\ ~control[r].abort
          /\ Acquire(r)
          /\ UNCHANGED <<status, control>>
    /\ UNCHANGED <<host, forcing, closed>>

\* The lock is locked.  AgentBrain.run begins with run_started and with
\* preparations in which it may end as in a turn.
EnterAgent(r, waiters) ==
    /\ lock' = [lock EXCEPT !.locked = TRUE, !.waiters = waiters]
    /\ Emit(r, "running")
    /\ Goto(r, "work")
    /\ UNCHANGED <<control, host, forcing, closed>>

LockTaken(r) == At(r, "taking") /\ EnterAgent(r, lock.waiters)

FirstWaiter(r) ==
    At(r, "waiting") /\ ~lock.locked /\ lock.waiters # <<>> /\ Head(lock.waiters) = r

\* The first waiter resumes.
LockGranted(r) == FirstWaiter(r) /\ Runnable(r) /\ EnterAgent(r, Tail(lock.waiters))

\* Mutant: the control is looked at for a pause only.
TurnIgnoresAbort(r) ==
    /\ At(r, "turn") /\ Runnable(r)
    /\ ~control[r].paused
    /\ Goto(r, "work") /\ UNCHANGED status
    /\ UNCHANGED <<control, host, lock, forcing, closed>>

\* The head of the loop: abort, or wait while paused, or a turn of work.
Turn(r) ==
    /\ At(r, "turn") /\ Runnable(r)
    /\ \/ control[r].abort /\ Emit(r, "failed") /\ Goto(r, "closing")
       \/ ~control[r].abort /\ ~control[r].paused /\ Goto(r, "work") /\ UNCHANGED status
    /\ UNCHANGED <<control, host, lock, forcing, closed>>

NextTurn(r) ==
    /\ At(r, "work") /\ Runnable(r)
    /\ Goto(r, "turn")
    /\ UNCHANGED <<status, control, host, lock, forcing, closed>>

(***************************************************************************)
(* The run ends in its turn: by finish (or a plan only), with run_finished;*)
(* by another finish reason (max_turns, no_tool_calls, parse_fallback,     *)
(* security_violation, ...), without an event; or by an exception.         *)
(***************************************************************************)
Finish(r) ==
    /\ At(r, "work") /\ Runnable(r)
    /\ \/ Emit(r, "completed") /\ Goto(r, "closing")
       \/ Goto(r, "closing") /\ UNCHANGED status
       \/ Emit(r, "failed") /\ Goto(r, "raising")
    /\ UNCHANGED <<control, host, lock, forcing, closed>>

\* Mutant: an exception of the agent passes by the release.
EndWithoutFinally(r) ==
    /\ agent[r] \in {"closing", "raising", "refused"} /\ Runnable(r)
    /\ IF At(r, "closing") THEN lock' = [lock EXCEPT !.locked = FALSE] /\ UNCHANGED status
       ELSE Emit(r, "failed") /\ UNCHANGED lock
    /\ control' = [control EXCEPT ![r].running = FALSE]
    /\ Goto(r, "ended")
    /\ UNCHANGED <<host, forcing, closed>>

\* The lock is released (RuntimeError if it is not locked); an exception makes
\* an error event; running = False.
End(r) ==
    /\ agent[r] \in {"closing", "raising", "refused"} /\ Runnable(r)
    /\ IF At(r, "closing") /\ lock.locked THEN UNCHANGED status ELSE Emit(r, "failed")
    /\ lock' = IF At(r, "refused") THEN lock ELSE [lock EXCEPT !.locked = FALSE]
    /\ control' = [control EXCEPT ![r].running = FALSE]
    /\ Goto(r, "ended")
    /\ UNCHANGED <<host, forcing, closed>>
-----------------------------------------------------------------------------
Crash ==
    /\ MayCrash
    /\ control' = [r \in Runs |-> NoControl]
    /\ agent' = [r \in Runs |-> IF agent[r] \in {"none", "ended"} THEN agent[r] ELSE "lost"]
    /\ lock' = FreeLock
    /\ forcing' = NoRun
    /\ UNCHANGED <<status, host, closed>>

Execution(r) == Begin(r) \/ LockTaken(r) \/ Turn(r) \/ NextTurn(r) \/ Finish(r) \/ End(r)

Next ==
    \/ \E r \in Runs :
          \/ CreateRun(r) \/ StartRun(r) \/ SetMode(r) \/ PauseRun(r)
          \/ AbortRun(r) \/ ForceFinish(r) \/ ForceFinished(r)
          \/ Execution(r) \/ LockGranted(r)
    \/ \E r, n \in Runs : RetryRun(r, n)
    \/ Crash

(***************************************************************************)
(* Every event loop runs what it has, and LLM and tool calls have          *)
(* timeouts.  A waiter on the main loop resumes when the lock is free; the *)
(* loop of a started run's thread sleeps in select(), and release() of     *)
(* another thread (call_soon, not call_soon_threadsafe) does not wake it.  *)
(***************************************************************************)
Fairness == \A r \in Runs : /\ WF_vars(Execution(r)) /\ WF_vars(ForceFinished(r))
                            /\ WF_vars(host[r] = "main" /\ LockGranted(r))

Spec == Init /\ [][Next]_vars /\ Fairness
-----------------------------------------------------------------------------
HasLock(r) == agent[r] \in {"work", "turn", "closing", "raising"}

TypeOK ==
    /\ status \in [Runs -> {"none", "pending", "running", "completed", "failed"}]
    /\ control \in [Runs -> Controls \union {NoControl}]
    /\ agent \in [Runs -> {"none", "spawned", "taking", "waiting", "refused", "work",
                           "turn", "closing", "raising", "ended", "lost"}]
    /\ host \in [Runs -> Runs \union {"main", NoLoop}]
    /\ lock \in [locked : BOOLEAN, waiters : Seq(Runs), bound : Runs \union {"main", NoLoop}]
    /\ forcing \in Runs \union {NoRun}
    /\ closed \subseteq Runs

(***************************************************************************)
(* The gpu lock is not left locked when no agent executes any more,        *)
(* whichever way and on whichever thread the agents ended.                 *)
(***************************************************************************)
LockNotLeaked == lock.locked => \E r \in Runs : HasLock(r)

(***************************************************************************)
(* A run that executes can be paused and aborted: its control entry is     *)
(* there and says running, whatever handlers made an entry before it was   *)
(* started, and until it is over or closed by the operator.                *)
(***************************************************************************)
Pausable ==
    \A r \in Runs : agent[r] \in {"spawned", "taking", "waiting", "work", "turn"} /\ r \notin closed =>
                        control[r] # NoControl /\ control[r].running

(***************************************************************************)
(* An abort ends a run that executes, also a paused one, unless            *)
(* force_finish takes the abort back.                                      *)
(***************************************************************************)
AbortEndsRun ==
    \A r \in Runs : agent[r] \in {"turn", "work"} /\ control[r].abort ~>
                        ~HasLock(r) \/ r \in closed

(***************************************************************************)
(* "실행 완료 이벤트는 AgentBrain에서 자동 발행됨" (runs.py 305: AgentBrain *)
(* emits the event of the end): an execution that is over has left its run *)
(* completed or failed.                                                    *)
(***************************************************************************)
EndedIsFinished == \A r \in Runs : At(r, "ended") => Terminal(r)

(***************************************************************************)
(* run_agent executes the agent "with the orchestrator's lock" (its doc,   *)
(* orchestrator.py 196): a free lock is given to its first waiter.         *)
(***************************************************************************)
LockServed == \A r \in Runs : FirstWaiter(r) ~> ~FirstWaiter(r)
=============================================================================
