------------------------- MODULE RunLifecycleProofs -------------------------
(***************************************************************************)
(* What is proved of the runs for any number of them, with crashes: the    *)
(* operator's control over an execution, and the gpu lock.  The invariant  *)
(* behind Pausable is that, as long as nobody force-finishes a run, its    *)
(* row says running from /start to the agent's last statement: an entry    *)
(* made or repaired by a handler then says so, too.                        *)
(***************************************************************************)
EXTENDS RunLifecycle, SequenceTheorems, TLAPS

Executing == {"spawned", "taking", "waiting", "work", "turn"}
Ending == {"closing", "raising", "refused"}

RunOK(r) ==
    \* A run that was never started has no execution.
    /\ status[r] \in {"none", "pending"} => agent[r] = "none"
    \* Row and entry of an execution say running, unless it was closed.
    /\ agent[r] \in Executing /\ r \notin closed => status[r] = "running" /\ control[r].running
    \* The execution finds its entry wherever it reads or writes it.
    /\ agent[r] \in Executing \union Ending => control[r] # NoControl

SafetyInv ==
    /\ TypeOK
    /\ \A r \in Runs : RunOK(r)
    /\ LockNotLeaked

\* A step leaves run s alone.
Unmoved(s) == /\ status'[s] = status[s] /\ control'[s] = control[s] /\ agent'[s] = agent[s]
              /\ s \in closed' => s \in closed
              /\ s \in closed => s \in closed'
-----------------------------------------------------------------------------
LEMMA UnmovedIsOK ==
    ASSUME NEW r \in Runs, \A s \in Runs : RunOK(s),
           \A s \in Runs \ {r} : Unmoved(s), RunOK(r)'
    PROVE  \A s \in Runs : RunOK(s)'
<1> SUFFICES ASSUME NEW s \in Runs, s # r
             PROVE  RunOK(s)'
  OBVIOUS
<1>1. Unmoved(s) /\ RunOK(s)
  OBVIOUS
<1> QED BY <1>1 DEF Unmoved, RunOK

\* Nobody who has the lock loses it in a step that keeps it locked or not.
LEMMA LockKept ==
    ASSUME LockNotLeaked, lock'.locked = lock.locked,
           \A s \in Runs : HasLock(s) => HasLock(s)'
    PROVE  LockNotLeaked'
BY DEF LockNotLeaked

LEMMA EntryIsControl ==
    ASSUME TypeOK, NEW r \in Runs
    PROVE  Entry(r) \in Controls /\ ControlEntry(r) \in Controls
BY RunLifecycleAssumption DEF TypeOK, Entry, ControlEntry, Controls, Fresh

\* The handlers find the entry of an executing run that was not closed as it is.
LEMMA EntryOfExecuting ==
    ASSUME NEW r \in Runs, RunOK(r), agent[r] \in Executing, r \notin closed
    PROVE  ControlEntry(r).running /\ Entry(r).running
BY DEF RunOK, Executing, Entry, ControlEntry, Terminal

LEMMA ControlsKept ==
    ASSUME NEW e \in Controls
    PROVE  /\ e # NoControl
           /\ \A b \in BOOLEAN : /\ [e EXCEPT !.paused = b] \in Controls
                                 /\ [e EXCEPT !.paused = b].running = e.running
                                 /\ [e EXCEPT !.running = b] \in Controls
           /\ [e EXCEPT !.abort = TRUE, !.paused = FALSE] \in Controls
           /\ [e EXCEPT !.abort = TRUE, !.paused = FALSE].running = e.running
           /\ e.paused \in BOOLEAN
BY RunLifecycleAssumption DEF Controls

\* A handler that replaces the entry of r by e and touches nothing else.
LEMMA NewEntry ==
    ASSUME SafetyInv, NEW r \in Runs, NEW e \in Controls,
           agent[r] \in Executing /\ r \notin closed => e.running,
           control' = [control EXCEPT ![r] = e],
           UNCHANGED <<status, agent, host, lock, closed>>, forcing' \in Runs \union {NoRun}
    PROVE  SafetyInv'
<1> USE DEF SafetyInv
<1>1. e # NoControl
  BY ControlsKept
<1>2. TypeOK'
  BY DEF TypeOK
<1>3. RunOK(r)'
  BY <1>1 DEF TypeOK, RunOK
<1>4. \A s \in Runs \ {r} : Unmoved(s)
  BY DEF TypeOK, Unmoved
<1>5. LockNotLeaked'
  BY LockKept DEF HasLock
<1> QED BY <1>2, <1>3, <1>4, <1>5, UnmovedIsOK

(***************************************************************************)
(* SafetyInv is inductive.  The handlers first, ...                        *)
(***************************************************************************)
LEMMA HandlerStep ==
    ASSUME SafetyInv, NEW r \in Runs,
           \/ CreateRun(r) \/ StartRun(r) \/ SetMode(r) \/ PauseRun(r)
           \/ AbortRun(r) \/ ForceFinish(r) \/ ForceFinished(r)
    PROVE  SafetyInv'
<1> USE RunLifecycleAssumption
<1>0. TypeOK /\ RunOK(r) /\ LockNotLeaked /\ \A s \in Runs : RunOK(s)
  BY DEF SafetyInv
<1>1. Entry(r) \in Controls /\ ControlEntry(r) \in Controls
  BY <1>0, EntryIsControl
<1>2. agent[r] \in Executing /\ r \notin closed => ControlEntry(r).running /\ Entry(r).running
  BY <1>0, EntryOfExecuting
<1>3. CASE CreateRun(r)
  <2>1. TypeOK' /\ RunOK(r)' /\ \A s \in Runs \ {r} : Unmoved(s)
    BY <1>0, <1>3 DEF CreateRun, Emit, TypeOK, RunOK, Unmoved, Executing, Ending
  <2>2. LockNotLeaked'
    BY <1>0, <1>3, LockKept DEF CreateRun, HasLock
  <2> QED BY <1>0, <2>1, <2>2, UnmovedIsOK DEF SafetyInv
<1>4. CASE StartRun(r)
  <2>1. agent[r] = "none" /\ Fresh \in Controls /\ Fresh.running
    BY <1>0, <1>4 DEF StartRun, RunOK, Fresh, Controls
  <2>2. TypeOK'
    BY <1>0, <1>4, <2>1 DEF StartRun, Emit, Goto, TypeOK
  <2>3. RunOK(r)'
    BY <1>0, <1>4, <2>1, ControlsKept DEF StartRun, Emit, Goto, TypeOK, RunOK
  <2>4. \A s \in Runs \ {r} : Unmoved(s)
    BY <1>0, <1>4 DEF StartRun, Emit, Goto, TypeOK, Unmoved
  <2>5. LockNotLeaked'
    BY <1>0, <1>4, <2>1, LockKept DEF StartRun, Goto, HasLock, TypeOK
  <2> QED BY <1>0, <2>2, <2>3, <2>4, <2>5, UnmovedIsOK DEF SafetyInv
<1>5. CASE SetMode(r)
  BY <1>0, <1>1, <1>2, <1>5, NewEntry DEF SetMode, TypeOK
<1>6. CASE PauseRun(r)
  <2> DEFINE e == ControlEntry(r)
             w == IF e.running THEN [e EXCEPT !.paused = ~@] ELSE e
  <2>1. w \in Controls /\ (e.running => w.running)
    BY <1>1, ControlsKept DEF Controls
  <2>2. control' = [control EXCEPT ![r] = w] /\ UNCHANGED <<status, agent, host, lock, forcing, closed>>
    BY <1>6 DEF PauseRun
  <2> HIDE DEF w
  <2> QED BY <1>0, <1>2, <2>1, <2>2, NewEntry DEF TypeOK
<1>7. CASE AbortRun(r)
  <2> DEFINE e == ControlEntry(r)
             w == IF Terminal(r) THEN e ELSE [e EXCEPT !.abort = TRUE, !.paused = FALSE]
  <2>1. w \in Controls /\ (e.running => w.running)
    BY <1>1, ControlsKept DEF Controls
  <2>2. control' = [control EXCEPT ![r] = w] /\ UNCHANGED <<status, agent, host, lock, forcing, closed>>
    BY <1>7 DEF AbortRun
  <2> HIDE DEF w
  <2> QED BY <1>0, <1>2, <2>1, <2>2, NewEntry DEF TypeOK
<1>8. CASE ForceFinish(r)
  BY <1>0, <1>1, <1>2, <1>8, NewEntry DEF ForceFinish, TypeOK
<1>9. CASE ForceFinished(r)
  <2>1. [Fresh EXCEPT !.running = FALSE] \in Controls
    BY DEF Fresh, Controls
  <2>2. TypeOK' /\ \A s \in Runs \ {r} : Unmoved(s)
    BY <1>0, <1>9, <2>1 DEF ForceFinished, Emit, TypeOK, Unmoved
  <2>3. RunOK(r)'
    BY <1>0, <1>9, <2>1, ControlsKept DEF ForceFinished, Emit, TypeOK, RunOK
  <2>4. LockNotLeaked'
    BY <1>0, <1>9, LockKept DEF ForceFinished, HasLock
  <2> QED BY <1>0, <2>2, <2>3, <2>4, UnmovedIsOK DEF SafetyInv
<1> QED BY <1>3, <1>4, <1>5, <1>6, <1>7, <1>8, <1>9

\* A retry moves two runs: the terminal one gets an entry, the new one starts.
LEMMA RetryStep ==
    ASSUME SafetyInv, NEW r \in Runs, NEW n \in Runs, RetryRun(r, n)
    PROVE  SafetyInv'
<1> USE RunLifecycleAssumption
<1>0. TypeOK /\ RunOK(r) /\ RunOK(n) /\ LockNotLeaked /\ \A s \in Runs : RunOK(s)
  BY DEF SafetyInv
<1>1. ControlEntry(r) \in Controls /\ Fresh \in Controls /\ Fresh.running
  BY <1>0, EntryIsControl DEF Fresh, Controls
<1>2. n # r /\ agent[n] = "none" /\ (agent[r] \in Executing => r \in closed)
  BY <1>0 DEF RetryRun, Terminal, RunOK
<1>3. /\ status' = [status EXCEPT ![n] = "running"]
      /\ control' = [control EXCEPT ![n] = Fresh, ![r] = ControlEntry(r)]
      /\ agent' = [agent EXCEPT ![n] = "spawned"]
      /\ host' = [host EXCEPT ![n] = "main"]
      /\ UNCHANGED <<lock, forcing, closed>>
  BY DEF RetryRun, Emit, Goto
<1>4. TypeOK'
  BY <1>0, <1>1, <1>3 DEF TypeOK
<1>5. /\ control'[n] = Fresh /\ control'[r] = ControlEntry(r)
      /\ status'[n] = "running" /\ status'[r] = status[r]
      /\ agent'[n] = "spawned" /\ agent'[r] = agent[r]
  BY <1>0, <1>2, <1>3 DEF TypeOK
<1>6. Fresh # NoControl /\ ControlEntry(r) # NoControl
  BY <1>1, ControlsKept
<1>7. RunOK(n)' /\ RunOK(r)'
  BY <1>0, <1>1, <1>2, <1>3, <1>5, <1>6 DEF RunOK
<1>8. \A s \in Runs \ {r, n} : Unmoved(s)
  BY <1>0, <1>3 DEF TypeOK, Unmoved
<1>9. \A s \in Runs \ {r, n} : RunOK(s)'
  BY <1>0, <1>8 DEF Unmoved, RunOK
<1>10. LockNotLeaked'
  BY <1>0, <1>2, <1>3, LockKept DEF HasLock, TypeOK
<1> QED BY <1>4, <1>7, <1>9, <1>10 DEF SafetyInv

(***************************************************************************)
(* ... then the execution, one lemma for the shape its steps have: run r   *)
(* moves to p with status st, and its entry may stop saying running.       *)
(***************************************************************************)
LEMMA MoveOK ==
    ASSUME SafetyInv, NEW r \in Runs, NEW p, NEW st, NEW e \in Controls,
           p \in Executing \union Ending \union {"ended"},
           st \in {"running", "completed", "failed"},
           agent[r] \in Executing \union Ending,
           agent' = [agent EXCEPT ![r] = p],
           status' = [status EXCEPT ![r] = st],
           control' = [control EXCEPT ![r] = e],
           p \in Executing /\ r \notin closed => st = "running" /\ e.running,
           lock' \in [locked : BOOLEAN, waiters : Seq(Runs), bound : Runs \union {"main", NoLoop}],
           UNCHANGED <<host, forcing, closed>>
    PROVE  TypeOK' /\ (\A s \in Runs : RunOK(s)') /\ agent'[r] = p
                   /\ \A s \in Runs \ {r} : HasLock(s) => HasLock(s)'
<1>0. TypeOK /\ \A s \in Runs : RunOK(s)
  BY DEF SafetyInv
<1>1. TypeOK'
  BY <1>0 DEF TypeOK, Executing, Ending
<1>2. RunOK(r)'
  BY <1>0, ControlsKept DEF TypeOK, RunOK, Executing, Ending
<1>3. \A s \in Runs \ {r} : Unmoved(s)
  BY <1>0 DEF TypeOK, Unmoved
<1>4. agent'[r] = p /\ \A s \in Runs \ {r} : HasLock(s) => HasLock(s)'
  BY <1>0 DEF TypeOK, HasLock
<1> QED BY <1>0, <1>1, <1>2, <1>3, <1>4, UnmovedIsOK

LEMMA EnterStep ==
    ASSUME SafetyInv, NEW r \in Runs, agent[r] \in {"taking", "waiting"},
           NEW w \in Seq(Runs), EnterAgent(r, w)
    PROVE  SafetyInv'
<1>0. TypeOK /\ RunOK(r)
  BY DEF SafetyInv
<1>1. control[r] \in Controls /\ (r \notin closed => control[r].running)
  BY <1>0 DEF TypeOK, RunOK, Executing
<1>2. /\ agent' = [agent EXCEPT ![r] = "work"]
      /\ status' = [status EXCEPT ![r] = "running"]
      /\ control' = [control EXCEPT ![r] = control[r]]
      /\ lock' = [lock EXCEPT !.locked = TRUE, !.waiters = w]
      /\ UNCHANGED <<host, forcing, closed>>
  BY <1>0 DEF EnterAgent, Emit, Goto, TypeOK
<1>3. lock' \in [locked : BOOLEAN, waiters : Seq(Runs), bound : Runs \union {"main", NoLoop}]
  BY <1>0, <1>2 DEF TypeOK
<1>4. TypeOK' /\ (\A s \in Runs : RunOK(s)') /\ agent'[r] = "work"
  BY <1>1, <1>2, <1>3, MoveOK DEF Executing
<1>5. LockNotLeaked'
  BY <1>4 DEF LockNotLeaked, HasLock
<1> QED BY <1>4, <1>5 DEF SafetyInv

LEMMA BeginStep ==
    ASSUME SafetyInv, NEW r \in Runs, Begin(r)
    PROVE  SafetyInv'
<1>0. TypeOK /\ RunOK(r) /\ LockNotLeaked
  BY DEF SafetyInv
<1>1. /\ agent[r] = "spawned" /\ control[r] \in Controls
      /\ r \notin closed => status[r] = "running" /\ control[r].running
      /\ status[r] \in {"running", "completed", "failed"}
  BY <1>0 DEF Begin, At, RunOK, Executing, TypeOK
<1>2. CASE control[r].abort
  <2> DEFINE e == [control[r] EXCEPT !.running = FALSE]
  <2>1. e \in Controls
    BY <1>1, ControlsKept
  <2>2. /\ agent' = [agent EXCEPT ![r] = "ended"] /\ status' = [status EXCEPT ![r] = "failed"]
        /\ control' = [control EXCEPT ![r] = e] /\ UNCHANGED <<lock, host, forcing, closed>>
    BY <1>0, <1>2 DEF Begin, Emit, Goto, TypeOK
  <2>a. lock' \in [locked : BOOLEAN, waiters : Seq(Runs), bound : Runs \union {"main", NoLoop}]
    BY <1>0, <2>2 DEF TypeOK
  <2> HIDE DEF e
  <2>3. /\ TypeOK' /\ \A s \in Runs : RunOK(s)'
        /\ \A s \in Runs \ {r} : HasLock(s) => HasLock(s)'
    BY <1>1, <2>1, <2>2, <2>a, MoveOK DEF Executing, Ending
  <2>4. ~HasLock(r)
    BY <1>1 DEF HasLock
  <2>5. LockNotLeaked'
    BY <1>0, <2>2, <2>3, <2>4, LockKept
  <2> QED BY <2>3, <2>5 DEF SafetyInv
<1>3. CASE ~control[r].abort
  <2>1. /\ UNCHANGED <<status, control, host, forcing, closed>>
        /\ status' = [status EXCEPT ![r] = status[r]]
        /\ control' = [control EXCEPT ![r] = control[r]]
    BY <1>0, <1>3 DEF Begin, TypeOK
  <2>2. PICK p \in {"taking", "waiting", "refused"} : agent' = [agent EXCEPT ![r] = p]
    BY <1>3 DEF Begin, Acquire, Goto
  <2>3. /\ lock' \in [locked : BOOLEAN, waiters : Seq(Runs), bound : Runs \union {"main", NoLoop}]
        /\ lock'.locked = lock.locked
    <3>1. Append(lock.waiters, r) \in Seq(Runs) /\ (lock.bound \in {NoLoop, host[r]} => host[r] \in Runs \union {"main", NoLoop})
      BY <1>0 DEF TypeOK
    <3>2. CASE UNCHANGED lock
      BY <1>0, <3>2 DEF TypeOK
    <3>3. CASE lock' = [lock EXCEPT !.waiters = Append(@, r), !.bound = host[r]]
      BY <1>0, <3>1, <3>3 DEF TypeOK
    <3> QED BY <1>3, <3>2, <3>3 DEF Begin, Acquire
  <2>4. /\ TypeOK' /\ \A s \in Runs : RunOK(s)'
        /\ \A s \in Runs \ {r} : HasLock(s) => HasLock(s)'
    <3> DEFINE st == status[r]
               e == control[r]
    <3>1. p \in Executing \union Ending \union {"ended"} /\ agent[r] \in Executing \union Ending
      BY <1>1, <2>2 DEF Executing, Ending
    <3>2. /\ st \in {"running", "completed", "failed"} /\ e \in Controls
          /\ r \notin closed => st = "running" /\ e.running
      BY <1>1
    <3>3. status' = [status EXCEPT ![r] = st] /\ control' = [control EXCEPT ![r] = e]
      BY <2>1
    <3>4. UNCHANGED <<host, forcing, closed>> /\ agent' = [agent EXCEPT ![r] = p]
      BY <2>1, <2>2
    <3> HIDE DEF st, e
    <3> QED BY <2>3, <3>1, <3>2, <3>3, <3>4, MoveOK
  <2>5. ~HasLock(r)
    BY <1>1 DEF HasLock
  <2>6. LockNotLeaked'
    BY <1>0, <2>3, <2>4, <2>5, LockKept
  <2> QED BY <2>4, <2>6 DEF SafetyInv
<1> QED BY <1>2, <1>3

\* Turns of the agent: it keeps the lock.
LEMMA AgentStep ==
    ASSUME SafetyInv, NEW r \in Runs, Turn(r) \/ NextTurn(r) \/ Finish(r)
    PROVE  SafetyInv'
<1>0. TypeOK /\ RunOK(r) /\ LockNotLeaked
  BY DEF SafetyInv
<1>1. /\ agent[r] \in {"turn", "work"} /\ control[r] \in Controls
      /\ r \notin closed => status[r] = "running" /\ control[r].running
      /\ status[r] \in {"running", "completed", "failed"}
  BY <1>0 DEF Turn, NextTurn, Finish, At, RunOK, Executing, TypeOK
<1>2. PICK p \in {"turn", "work", "closing", "raising"}, st \in {"running", "completed", "failed"} :
         /\ agent' = [agent EXCEPT ![r] = p] /\ status' = [status EXCEPT ![r] = st]
         /\ p \in {"turn", "work"} => st = status[r]
  <2>1. status = [status EXCEPT ![r] = status[r]]
    BY <1>0 DEF TypeOK
  <2>2. CASE Turn(r)
    BY <1>1, <2>1, <2>2 DEF Turn, Emit, Goto
  <2>3. CASE NextTurn(r)
    BY <1>1, <2>1, <2>3 DEF NextTurn, Goto
  <2>4. CASE Finish(r)
    BY <1>1, <2>1, <2>4 DEF Finish, Emit, Goto
  <2> QED BY <2>2, <2>3, <2>4
<1>3. control' = [control EXCEPT ![r] = control[r]] /\ UNCHANGED <<lock, host, forcing, closed>>
  BY <1>0 DEF Turn, NextTurn, Finish, TypeOK
<1>4. lock' \in [locked : BOOLEAN, waiters : Seq(Runs), bound : Runs \union {"main", NoLoop}]
  BY <1>0, <1>3 DEF TypeOK
<1>5. /\ TypeOK' /\ (\A s \in Runs : RunOK(s)') /\ agent'[r] = p
      /\ \A s \in Runs \ {r} : HasLock(s) => HasLock(s)'
  BY <1>1, <1>2, <1>3, <1>4, MoveOK DEF Executing, Ending
<1>6. HasLock(r)'
  BY <1>5 DEF HasLock
<1>7. LockNotLeaked'
  BY <1>0, <1>3, <1>5, <1>6, LockKept
<1> QED BY <1>5, <1>7 DEF SafetyInv

\* The end: the lock is released, or was never had.
LEMMA EndStep ==
    ASSUME SafetyInv, NEW r \in Runs, End(r)
    PROVE  SafetyInv'
<1>0. TypeOK /\ RunOK(r) /\ LockNotLeaked
  BY DEF SafetyInv
<1>1. /\ agent[r] \in Ending /\ control[r] \in Controls
      /\ status[r] \in {"running", "completed", "failed"}
  BY <1>0 DEF End, RunOK, Ending, TypeOK
<1> DEFINE e == [control[r] EXCEPT !.running = FALSE]
<1>2. e \in Controls
  BY <1>1, ControlsKept
<1>3. PICK st \in {"running", "completed", "failed"} : status' = [status EXCEPT ![r] = st]
  <2>1. status = [status EXCEPT ![r] = status[r]]
    BY <1>0 DEF TypeOK
  <2> QED BY <1>1, <2>1 DEF End, Emit
<1>4. /\ agent' = [agent EXCEPT ![r] = "ended"] /\ control' = [control EXCEPT ![r] = e]
      /\ UNCHANGED <<host, forcing, closed>>
  BY <1>0 DEF End, Goto, TypeOK
<1>5. lock' = IF agent[r] = "refused" THEN lock ELSE [lock EXCEPT !.locked = FALSE]
  BY DEF End, At
<1>6. lock' \in [locked : BOOLEAN, waiters : Seq(Runs), bound : Runs \union {"main", NoLoop}]
  BY <1>0, <1>5 DEF TypeOK
<1> HIDE DEF e
<1>7. /\ TypeOK' /\ \A s \in Runs : RunOK(s)'
      /\ \A s \in Runs \ {r} : HasLock(s) => HasLock(s)'
  BY <1>1, <1>2, <1>3, <1>4, <1>6, MoveOK DEF Executing
<1>8. LockNotLeaked'
  <2>1. CASE agent[r] = "refused"
    <3>1. ~HasLock(r)
      BY <2>1 DEF HasLock
    <3> QED BY <1>0, <1>5, <1>7, <2>1, <3>1, LockKept
  <2>2. CASE agent[r] # "refused"
    BY <1>0, <1>5, <2>2 DEF TypeOK, LockNotLeaked
  <2> QED BY <2>1, <2>2
<1> QED BY <1>7, <1>8 DEF SafetyInv

(***************************************************************************)
(* ... and the crash.                                                      *)
(***************************************************************************)
LEMMA CrashStep ==
    ASSUME SafetyInv, Crash
    PROVE  SafetyInv'
<1>1. TypeOK'
  <2>1. <<>> \in Seq(Runs)
    OBVIOUS
  <2> QED BY <2>1 DEF SafetyInv, Crash, FreeLock, TypeOK
<1>2. \A r \in Runs : RunOK(r)'
  BY DEF SafetyInv, Crash, TypeOK, RunOK, Executing, Ending
<1>3. LockNotLeaked'
  BY DEF Crash, FreeLock, LockNotLeaked
<1> QED BY <1>1, <1>2, <1>3 DEF SafetyInv

LEMMA SafetyStep == SafetyInv /\ [Next]_vars => SafetyInv'
<1> SUFFICES ASSUME SafetyInv, [Next]_vars
             PROVE  SafetyInv'
  OBVIOUS
<1>1. ASSUME NEW r \in Runs, LockTaken(r)
      PROVE  SafetyInv'
  BY <1>1, EnterStep DEF LockTaken, At, SafetyInv, TypeOK
<1>2. ASSUME NEW r \in Runs, LockGranted(r)
      PROVE  SafetyInv'
  <2>1. Tail(lock.waiters) \in Seq(Runs)
    BY <1>2, HeadTailProperties DEF LockGranted, FirstWaiter, SafetyInv, TypeOK
  <2> QED BY <1>2, <2>1, EnterStep DEF LockGranted, FirstWaiter, At
<1>3. CASE UNCHANGED vars
  BY <1>3 DEF vars, SafetyInv, TypeOK, RunOK, LockNotLeaked, HasLock
<1> QED BY <1>1, <1>2, <1>3, HandlerStep, RetryStep, BeginStep, AgentStep, EndStep, CrashStep
        DEF Next, Execution

LEMMA SafetyAlways == Spec => []SafetyInv
<1>1. Init => SafetyInv
  <2>1. <<>> \in Seq(Runs)
    OBVIOUS
  <2> QED BY <2>1, RunLifecycleAssumption
          DEF Init, FreeLock, SafetyInv, TypeOK, RunOK, LockNotLeaked, Executing, Ending
<1> QED BY <1>1, SafetyStep, PTL DEF Spec
-----------------------------------------------------------------------------
(***************************************************************************)
(* Rows, control entries, executions and the lock are what they should be. *)
(***************************************************************************)
THEOREM RunsTypeCorrect == Spec => []TypeOK
<1>1. SafetyInv => TypeOK
  BY DEF SafetyInv
<1> QED BY <1>1, SafetyAlways, PTL

(***************************************************************************)
(* An executing run can be paused and aborted, for any number of runs and  *)
(* handlers and over crashes (control_run_endpoint 578-592).               *)
(***************************************************************************)
THEOREM ExecutingIsPausable == Spec => []Pausable
<1>1. SafetyInv => Pausable
  BY DEF SafetyInv, RunOK, Pausable, Executing
<1> QED BY <1>1, SafetyAlways, PTL

(***************************************************************************)
(* A locked gpu lock has an execution that will release it, also when two  *)
(* threads took it together (Orchestrator.run_agent).                      *)
(***************************************************************************)
THEOREM LockHasHolder == Spec => []LockNotLeaked
<1>1. SafetyInv => LockNotLeaked
  BY DEF SafetyInv
<1> QED BY <1>1, SafetyAlways, PTL

-----------------------------------------------------------------------------
(***************************************************************************)
(* Who may wait for the gpu lock.                                          *)
(***************************************************************************)
\* Who waits runs on the event loop that the lock is bound to.
WaitersInv == \A r \in Runs : At(r, "waiting") => host[r] = lock.bound /\ host[r] # NoLoop

\* The event loops of the runs that wait for the lock are one: at most one
\* started run waits, or any number of retried ones.
WaitOnOneLoop == \A r, s \in Runs : At(r, "waiting") /\ At(s, "waiting") => host[r] = host[s]

\* What runs has an event loop.
HostInv == \A r \in Runs : agent[r] # "none" => host[r] \in Runs \union {"main"}

LEMMA WaitersRest ==
    ASSUME WaitersInv, lock'.bound = lock.bound,
           \A r \in Runs : agent'[r] = "waiting" => agent[r] = "waiting" /\ host'[r] = host[r]
    PROVE  WaitersInv'
BY DEF WaitersInv, At

LEMMA OneMoves ==
    ASSUME TypeOK, HostInv, WaitersInv, NEW r \in Runs, NEW p, p \notin {"none", "waiting"}, Goto(r, p),
           agent[r] # "none", lock'.bound = lock.bound, UNCHANGED host
    PROVE  HostInv' /\ WaitersInv'
<1>1. agent'[r] = p /\ \A s \in Runs \ {r} : agent'[s] = agent[s]
  BY DEF Goto, TypeOK
<1> QED BY <1>1, WaitersRest DEF HostInv

LEMMA WaitersStep ==
    ASSUME SafetyInv, HostInv, WaitersInv, [Next]_vars
    PROVE  HostInv' /\ WaitersInv'
<1> USE RunLifecycleAssumption
<1>0. TypeOK /\ \A r \in Runs : RunOK(r)
  BY DEF SafetyInv
<1>1. CASE UNCHANGED <<agent, host, lock>>
  BY <1>1, WaitersRest DEF HostInv
<1>2. ASSUME NEW r \in Runs, NEW h \in Runs \union {"main"}, status[r] \in {"none", "pending"}, Goto(r, "spawned"),
             host' = [host EXCEPT ![r] = h], UNCHANGED lock
      PROVE  HostInv' /\ WaitersInv'
  <2>1. /\ agent'[r] = "spawned" /\ host'[r] = h
        /\ \A s \in Runs \ {r} : agent'[s] = agent[s] /\ host'[s] = host[s]
    BY <1>0, <1>2 DEF Goto, TypeOK
  <2> QED BY <1>2, <2>1, WaitersRest DEF HostInv
<1>3. ASSUME NEW r \in Runs, StartRun(r) PROVE HostInv' /\ WaitersInv'
  BY <1>2, <1>3 DEF StartRun
<1>4. ASSUME NEW r \in Runs, NEW n \in Runs, RetryRun(r, n) PROVE HostInv' /\ WaitersInv'
  BY <1>2, <1>4 DEF RetryRun
<1>5. ASSUME NEW r \in Runs, At(r, "spawned"), Acquire(r), UNCHANGED host PROVE HostInv' /\ WaitersInv'
  <2>1. CASE lock.bound \in {NoLoop, host[r]} /\ lock' = [lock EXCEPT !.waiters = Append(@, r), !.bound = host[r]]
             /\ Goto(r, "waiting")
    <3>1. agent'[r] = "waiting" /\ \A s \in Runs \ {r} : agent'[s] = agent[s]
      BY <1>0, <2>1 DEF Goto, TypeOK
    <3>2. host[r] # NoLoop /\ lock'.bound = host[r]
      BY <1>0, <1>5, <2>1 DEF HostInv, At, TypeOK
    <3> QED BY <1>5, <2>1, <3>1, <3>2 DEF HostInv, WaitersInv, At
  <2>2. CASE UNCHANGED lock /\ (Goto(r, "taking") \/ Goto(r, "refused"))
    BY <1>0, <1>5, <2>2, OneMoves DEF At
  <2> QED BY <1>5, <2>1, <2>2 DEF Acquire
<1>6. ASSUME NEW r \in Runs, Begin(r) PROVE HostInv' /\ WaitersInv'
  <2>1. At(r, "spawned") /\ UNCHANGED host /\ (Acquire(r) \/ (Goto(r, "ended") /\ UNCHANGED lock))
    BY <1>6 DEF Begin
  <2> QED BY <1>0, <1>5, <2>1, OneMoves DEF At
<1>7. ASSUME NEW r \in Runs, LockTaken(r) \/ LockGranted(r) PROVE HostInv' /\ WaitersInv'
  <2>1. Goto(r, "work") /\ agent[r] \in {"taking", "waiting"} /\ UNCHANGED host
    BY <1>7 DEF LockTaken, LockGranted, FirstWaiter, EnterAgent, At
  <2>2. lock'.bound = lock.bound
    BY <1>0, <1>7 DEF LockTaken, LockGranted, EnterAgent, TypeOK
  <2> QED BY <1>0, <2>1, <2>2, OneMoves
<1>8. ASSUME NEW r \in Runs, Turn(r) \/ NextTurn(r) \/ Finish(r) \/ End(r) PROVE HostInv' /\ WaitersInv'
  <2>1. PICK p \in {"work", "turn", "closing", "raising", "ended"} : Goto(r, p)
    BY <1>8 DEF Turn, NextTurn, Finish, End
  <2>2. agent[r] # "none" /\ UNCHANGED host
    BY <1>8 DEF Turn, NextTurn, Finish, End, At
  <2>3. lock'.bound = lock.bound
    BY <1>0, <1>8 DEF Turn, NextTurn, Finish, End, TypeOK
  <2> QED BY <1>0, <2>1, <2>2, <2>3, OneMoves
<1>9. CASE Crash
  <2>1. UNCHANGED host /\ \A r \in Runs : agent'[r] # "waiting" /\ (agent'[r] # "none" => agent[r] # "none")
    BY <1>0, <1>9 DEF Crash, TypeOK
  <2> QED BY <2>1 DEF HostInv, WaitersInv, At
<1> QED BY <1>1, <1>3, <1>4, <1>6, <1>7, <1>8, <1>9
        DEF Next, Execution, CreateRun, SetMode, PauseRun, AbortRun, ForceFinish, ForceFinished, vars

(***************************************************************************)
(* All who wait for the gpu lock wait on one event loop: a started run,    *)
(* which has a loop of its own, never waits beside another run.  A second  *)
(* one is refused (RuntimeError of asyncio.Lock, orchestrator.py 257-266,  *)
(* routers/runs.py 296 and 373-384), not queued.                           *)
(***************************************************************************)
THEOREM WaitersShareALoop == Spec => []WaitOnOneLoop
<1>1. Init => HostInv /\ WaitersInv
  BY DEF Init, HostInv, WaitersInv, At
<1>2. SafetyInv /\ HostInv /\ WaitersInv /\ [Next]_vars => HostInv' /\ WaitersInv'
  BY WaitersStep
<1>3. WaitersInv => WaitOnOneLoop
  BY DEF WaitersInv, WaitOnOneLoop
<1> QED BY <1>1, <1>2, <1>3, SafetyAlways, PTL DEF Spec

-----------------------------------------------------------------------------
(***************************************************************************)
(* An abort of an execution is not lost: it stays in the entry until the   *)
(* agent leaves its turns, through pauses, modes and retries of others;    *)
(* only force_finish, which reports the run as failed, or a crash takes it *)
(* back.                                                                   *)
(***************************************************************************)
Aborted(r) == control[r] # NoControl /\ control[r].abort

AbortIsKept ==
    [][\A r \in Runs : agent[r] \in Executing /\ Aborted(r) =>
           Aborted(r)' \/ r \in closed' \/ agent'[r] = "lost"]_vars

LEMMA AbortStep ==
    ASSUME SafetyInv, [Next]_vars, NEW r \in Runs, agent[r] \in Executing, Aborted(r)
    PROVE  Aborted(r)' \/ r \in closed' \/ agent'[r] = "lost"
<1> USE RunLifecycleAssumption
<1>0. TypeOK /\ RunOK(r) /\ \A s \in Runs : RunOK(s)
  BY DEF SafetyInv
<1>1. control \in [Runs -> Controls \union {NoControl}] /\ control[r] \in Controls /\ control[r].abort
  BY <1>0 DEF TypeOK, Aborted
<1>2. ASSUME control'[r] = control[r] PROVE Aborted(r)'
  BY <1>2 DEF Aborted
<1>3. ASSUME NEW e \in Controls, e.abort, control'[r] = e PROVE Aborted(r)'
  BY <1>3, ControlsKept DEF Aborted
<1>4. /\ Entry(r) \in Controls /\ Entry(r).abort
      /\ ControlEntry(r) \in Controls /\ ControlEntry(r).abort
  BY <1>0, <1>1, EntryIsControl DEF Entry, ControlEntry, Controls, Aborted
<1>5. ASSUME NEW s \in Runs, StartRun(s) PROVE Aborted(r)'
  <2>1. s # r /\ control' = [control EXCEPT ![s] = Fresh]
    BY <1>0, <1>5 DEF StartRun, RunOK, Executing
  <2> QED BY <1>1, <1>2, <2>1
<1>6. ASSUME NEW s \in Runs, NEW n \in Runs, RetryRun(s, n) PROVE Aborted(r)'
  <2>1. n # r /\ control' = [control EXCEPT ![n] = Fresh, ![s] = ControlEntry(s)]
    BY <1>0, <1>6 DEF RetryRun, RunOK, Executing
  <2>2. control'[r] \in {control[r], ControlEntry(r)}
    BY <1>1, <2>1
  <2> QED BY <1>2, <1>3, <1>4, <2>2
<1>7. ASSUME NEW s \in Runs, SetMode(s) \/ PauseRun(s) \/ AbortRun(s) \/ ForceFinish(s) PROVE Aborted(r)'
  <2>1. CASE s # r
    <3>1. control'[r] = control[r]
      BY <1>1, <1>7, <2>1 DEF SetMode, PauseRun, AbortRun, ForceFinish
    <3> QED BY <1>2, <3>1
  <2>2. CASE s = r
    <3>1. \/ control'[r] \in {Entry(r), ControlEntry(r)}
          \/ control'[r] = [ControlEntry(r) EXCEPT !.paused = ~@]
          \/ control'[r] = [ControlEntry(r) EXCEPT !.abort = TRUE, !.paused = FALSE]
      BY <1>1, <1>7, <2>2 DEF SetMode, PauseRun, AbortRun, ForceFinish
    <3>2. /\ [ControlEntry(r) EXCEPT !.paused = ~@] \in Controls
          /\ [ControlEntry(r) EXCEPT !.paused = ~@].abort
          /\ [ControlEntry(r) EXCEPT !.abort = TRUE, !.paused = FALSE] \in Controls
          /\ [ControlEntry(r) EXCEPT !.abort = TRUE, !.paused = FALSE].abort
      BY <1>4 DEF Controls
    <3> QED BY <1>3, <1>4, <3>1, <3>2
  <2> QED BY <2>1, <2>2
<1>8. ASSUME NEW s \in Runs, ForceFinished(s) PROVE Aborted(r)' \/ r \in closed'
  <2>1. CASE s = r
    BY <1>8, <2>1 DEF ForceFinished
  <2>2. CASE s # r
    <3>1. control'[r] = control[r]
      BY <1>1, <1>8, <2>2 DEF ForceFinished
    <3> QED BY <1>2, <3>1
  <2> QED BY <2>1, <2>2
<1>9. ASSUME NEW s \in Runs, Begin(s) \/ End(s) PROVE Aborted(r)'
  <2>1. control'[r] = control[r] \/ control'[r] = [control[r] EXCEPT !.running = FALSE]
    BY <1>1, <1>9 DEF Begin, End
  <2>2. [control[r] EXCEPT !.running = FALSE] \in Controls /\ [control[r] EXCEPT !.running = FALSE].abort
    BY <1>1 DEF Controls
  <2> QED BY <1>2, <1>3, <2>1, <2>2
<1>10. CASE Crash
  BY <1>0, <1>10 DEF Crash, TypeOK, Executing
<1>11. CASE UNCHANGED control
  BY <1>2, <1>11
<1> QED BY <1>5, <1>6, <1>7, <1>8, <1>9, <1>10, <1>11
        DEF Next, Execution, CreateRun, LockTaken, LockGranted, EnterAgent, Turn, NextTurn, Finish, vars

\* What AbortEndsRun needs besides a next turn: the turn finds the abort, for
\* any number of runs (control_run_endpoint, AgentBrain.run).
THEOREM AbortIsNotLost == Spec => AbortIsKept
<1>1. SafetyInv /\ [Next]_vars =>
          [\A r \in Runs : agent[r] \in Executing /\ Aborted(r) =>
               Aborted(r)' \/ r \in closed' \/ agent'[r] = "lost"]_vars
  BY AbortStep
<1> QED BY <1>1, SafetyAlways, PTL DEF Spec, AbortIsKept
=============================================================================
