----------------------------- MODULE Scheduler ------------------------------
(***************************************************************************)
(* mellow_link/core/scheduler_service.py over the scheduled_tasks table of *)
(* infra/memory_database.py: the background loop takes a snapshot of the   *)
(* due tasks, runs them one after the other, and writes status, failures   *)
(* and next_run_at back row by row.  Meanwhile tasks are added, disabled   *)
(* and enabled, and the loop is stopped (or the process dies) wherever it  *)
(* is suspended.                                                           *)
(***************************************************************************)
EXTENDS Naturals, FiniteSets

CONSTANTS Tasks,         \* task ids
          Kind,          \* [Tasks -> "agent" | "async" | "sync"]: task_type
          Periodic,      \* the tasks whose schedule_expr parses
          NoTask,        \* nothing is being executed
          FailureLimit,  \* 5 in the code
          MaxFailures,   \* bound: no re-enabling beyond this many failures
          Operator,      \* disable_task / enable_task may be called
          Interruptible  \* stop() or a crash may hit the loop

ASSUME SchedulerAssumption ==
    /\ Kind \in [Tasks -> {"agent", "async", "sync"}]
    /\ Periodic \subseteq Tasks
    /\ NoTask \notin Tasks
    /\ FailureLimit \in Nat \ {0} /\ MaxFailures \in Nat
    /\ {Operator, Interruptible} \subseteq BOOLEAN

VARIABLES row,        \* the table: [Tasks -> status, failures, due]
          loop,       \* the background loop: "stopped", "poll", "run" or "sleep"
          snapshot,   \* the tasks of this poll still to be executed
          seen,       \* [Tasks -> consecutive_failures in the snapshot]
          current,    \* the task whose execution is suspended
          violated,   \* history: disabled for a security violation, not enabled since
          streak,     \* history: [Tasks -> failures since the last success or enabling]
          orphaned    \* history: cut off in their execution, not enabled since

vars == <<row, loop, snapshot, seen, current, violated, streak, orphaned>>

Rows == [status : {"none", "ENABLED", "RUNNING", "DISABLED"},
         failures : Nat, due : BOOLEAN]

Status(t) == row[t].status

Init ==
    /\ row = [t \in Tasks |-> [status |-> "none", failures |-> 0, due |-> FALSE]]
    /\ loop = "stopped"
    /\ snapshot = {} /\ current = NoTask
    /\ seen = [t \in Tasks |-> 0]
    /\ violated = {}
    /\ streak = [t \in Tasks |-> 0]
    /\ orphaned = {}
-----------------------------------------------------------------------------
(* The table.                                                              *)

\* add_task; the _register_* functions of start() add a task only if there
\* is none of its name.
AddTask(t) ==
    /\ Status(t) = "none"
    /\ row' = [row EXCEPT ![t] = [status |-> "ENABLED", failures |-> 0, due |-> FALSE]]
    /\ UNCHANGED <<loop, snapshot, seen, current, violated, streak, orphaned>>

\* next_run_at is reached.
BecomesDue(t) ==
    /\ Status(t) # "none" /\ ~row[t].due
    /\ row' = [row EXCEPT ![t].due = TRUE]
    /\ UNCHANGED <<loop, snapshot, seen, current, violated, streak, orphaned>>

DisableTask(t) ==
    /\ Operator /\ Status(t) # "none"
    /\ row' = [row EXCEPT ![t].status = "DISABLED"]
    /\ UNCHANGED <<loop, snapshot, seen, current, violated, streak, orphaned>>

\* The failures and next_run_at stay as they are.
EnableTask(t) ==
    /\ Operator /\ Status(t) # "none" /\ row[t].failures < MaxFailures
    /\ row' = [row EXCEPT ![t].status = "ENABLED"]
    /\ violated' = violated \ {t}
    /\ streak' = [streak EXCEPT ![t] = 0]
    /\ orphaned' = orphaned \ {t}
    /\ UNCHANGED <<loop, snapshot, seen, current>>
-----------------------------------------------------------------------------
(* What an execution writes, in the order of the code.  Only a task's own  *)
(* loop writes its failures, from the snapshot's value.                    *)

\* "violation" and "failed" (error, max_turns, parse_fallback) are finish
\* reasons of AgentBrain.run; "failed" of another kind is a run_evolution_tick
\* without success; "raised" is an exception.
Outcomes(t) == {"ok", "failed", "raised"} \union (IF Kind[t] = "agent" THEN {"violation"} ELSE {})

\* update_task_result(next_run_at, status="ENABLED"), or nothing if the
\* schedule gives no next run.
Reschedule(r, t) ==
    IF t \in Periodic THEN [r EXCEPT !.status = "ENABLED", !.due = FALSE] ELSE r

Disabled(r, failures) == [r EXCEPT !.status = "DISABLED", !.failures = failures]

AfterFailure(r, t) ==
    LET failures == seen[t] + 1 IN
    IF failures >= FailureLimit THEN Disabled(r, failures)
    ELSE Reschedule([r EXCEPT !.failures = failures], t)

\* Mutant: disables only beyond the limit.
AfterExceptionLate(r, t) ==
    LET failures == seen[t] + 1 IN
    IF failures > FailureLimit THEN Disabled(r, failures)
    ELSE IF t \in Periodic THEN Reschedule([r EXCEPT !.failures = failures], t)
    ELSE r

\* Mutant: writes the next run without the status.
AfterExceptionRunning(r, t) ==
    LET failures == seen[t] + 1 IN
    IF failures >= FailureLimit THEN Disabled(r, failures)
    ELSE IF t \in Periodic THEN [r EXCEPT !.failures = failures, !.due = FALSE]
    ELSE r

\* The except branch writes the failures together with the next run only.
AfterException(r, t) ==
    LET failures == seen[t] + 1 IN
    IF failures >= FailureLimit THEN Disabled(r, failures)
    ELSE IF t \in Periodic THEN Reschedule([r EXCEPT !.failures = failures], t)
    ELSE r

AfterSuccess(r, t) ==
    LET s == IF Kind[t] = "agent" THEN [r EXCEPT !.failures = 0] ELSE r IN
    IF t \in Periodic THEN Reschedule(s, t) ELSE [s EXCEPT !.status = "DISABLED"]

\* Mutant: a violation does not return before the task is rescheduled.
AfterRunFallsThrough(r, t, outcome) ==
    CASE outcome = "ok"        -> AfterSuccess(r, t)
      [] outcome = "violation" -> Reschedule(Disabled(r, seen[t] + 1), t)
      [] outcome = "raised"    -> AfterException(r, t)
      [] OTHER                 -> IF Kind[t] = "agent" THEN AfterFailure(r, t)
                                  ELSE Reschedule(r, t)

AfterRun(r, t, outcome) ==
    CASE outcome = "ok"        -> AfterSuccess(r, t)
      [] outcome = "violation" -> Disabled(r, seen[t] + 1)
      [] outcome = "raised"    -> AfterException(r, t)
      [] OTHER                 -> IF Kind[t] = "agent" THEN AfterFailure(r, t)
                                  ELSE Reschedule(r, t)

Record(t, outcome) ==
    /\ violated' = IF outcome = "violation" THEN violated \union {t} ELSE violated
    /\ streak' = [streak EXCEPT ![t] =
                    CASE outcome = "ok" -> 0
                      [] outcome = "failed" /\ Kind[t] # "agent" -> @
                      [] OTHER -> IF @ < FailureLimit THEN @ + 1 ELSE @]

\* The next task of the snapshot, or the sleep until the next poll.
NextInSnapshot(t) ==
    /\ snapshot' = snapshot \ {t}
    /\ loop' = IF snapshot' = {} THEN "sleep" ELSE "run"
-----------------------------------------------------------------------------
(* The background loop.                                                    *)

Start ==
    /\ loop = "stopped"
    /\ loop' = "poll"
    /\ UNCHANGED <<row, snapshot, seen, current, violated, streak, orphaned>>

\* Mutant: the query returns one row, without an ORDER BY next_run_at.
PollFirst ==
    /\ loop = "poll"
    /\ LET pending == {t \in Tasks : Status(t) = "ENABLED" /\ row[t].due}
       IN  snapshot' = IF pending = {} THEN {} ELSE {CHOOSE t \in pending : TRUE}
    /\ seen' = [t \in Tasks |-> IF t \in snapshot' THEN row[t].failures ELSE seen[t]]
    /\ loop' = IF snapshot' = {} THEN "sleep" ELSE "run"
    /\ UNCHANGED <<row, current, violated, streak, orphaned>>

Poll ==
    /\ loop = "poll"
    /\ snapshot' = {t \in Tasks : Status(t) = "ENABLED" /\ row[t].due}
    /\ seen' = [t \in Tasks |-> IF t \in snapshot' THEN row[t].failures ELSE seen[t]]
    /\ loop' = IF snapshot' = {} THEN "sleep" ELSE "run"
    /\ UNCHANGED <<row, current, violated, streak, orphaned>>

Wake ==
    /\ loop = "sleep"
    /\ loop' = "poll"
    /\ UNCHANGED <<row, snapshot, seen, current, violated, streak, orphaned>>

\* status = RUNNING, then the first await of the task.
Begin(t) ==
    /\ loop = "run" /\ current = NoTask
    /\ t \in snapshot /\ Kind[t] # "sync"
    /\ row' = [row EXCEPT ![t].status = "RUNNING"]
    /\ current' = t
    /\ UNCHANGED <<loop, snapshot, seen, violated, streak, orphaned>>

\* From the last await of the task to the next one's first.
End(t, outcome) ==
    /\ current = t
    /\ row' = [row EXCEPT ![t] = AfterRun(@, t, outcome)]
    /\ current' = NoTask
    /\ Record(t, outcome)
    /\ NextInSnapshot(t)
    /\ UNCHANGED <<seen, orphaned>>

\* diagnosis_task and evolution_feedback_task do not await at all.
RunSync(t, outcome) ==
    /\ loop = "run" /\ current = NoTask
    /\ t \in snapshot /\ Kind[t] = "sync" /\ outcome # "failed"
    /\ row' = [row EXCEPT ![t] = AfterRun([@ EXCEPT !.status = "RUNNING"], t, outcome)]
    /\ Record(t, outcome)
    /\ NextInSnapshot(t)
    /\ UNCHANGED <<seen, current, orphaned>>

\* stop() cancels the loop where it is suspended; a crash does as much.
Stop ==
    /\ Interruptible /\ loop # "stopped"
    /\ loop' = "stopped"
    /\ snapshot' = {} /\ current' = NoTask
    /\ orphaned' = orphaned \union ({current} \ {NoTask})
    /\ UNCHANGED <<row, seen, violated, streak>>

LoopStep == \/ Poll \/ Wake
            \/ \E t \in Tasks : \/ Begin(t)
                                \/ \E o \in Outcomes(t) : End(t, o) \/ RunSync(t, o)

Next == \/ \E t \in Tasks : AddTask(t) \/ BecomesDue(t) \/ DisableTask(t) \/ EnableTask(t)
        \/ Start \/ Stop \/ LoopStep

\* The loop runs and is started again; every awaited task has a timeout.
Fairness == WF_vars(Start) /\ WF_vars(LoopStep)

Spec == Init /\ [][Next]_vars /\ Fairness
-----------------------------------------------------------------------------
TypeOK ==
    /\ row \in [Tasks -> Rows]
    /\ loop \in {"stopped", "poll", "run", "sleep"}
    /\ snapshot \subseteq Tasks
    /\ seen \in [Tasks -> Nat]
    /\ current \in snapshot \union {NoTask}
    /\ (loop = "run" <=> snapshot # {})
    /\ violated \subseteq Tasks
    /\ streak \in [Tasks -> 0..FailureLimit]
    /\ orphaned \subseteq Tasks

(***************************************************************************)
(* A task that was disabled for a security violation ("Manual review       *)
(* required!", scheduler_service.py 430-439) stays disabled until somebody *)
(* enables it, whatever snapshot the loop holds and across restarts.       *)
(***************************************************************************)
ViolationStaysDisabled == \A t \in violated : Status(t) = "DISABLED"

(***************************************************************************)
(* Failing FailureLimit times in a row disables a periodic task            *)
(* (scheduler_service.py 446-457, 515-520): no interleaving of polls,      *)
(* stops, disabling and executions loses a failure.                        *)
(***************************************************************************)
FailuresDisable ==
    \A t \in Periodic : streak[t] = FailureLimit => Status(t) = "DISABLED"

(***************************************************************************)
(* RUNNING means being executed: on every path an execution brings its row *)
(* out of RUNNING again, so that only the task at hand has it, or one that *)
(* a stop or a crash has cut off (scheduler_service.py 331, 429-529).      *)
(***************************************************************************)
RunningIsCurrent ==
    \A t \in Periodic : Status(t) = "RUNNING" => current = t \/ t \in orphaned

(***************************************************************************)
(* A task that is enabled and due is executed (or disabled), however many  *)
(* other tasks keep coming due, unless the loop is stopped.                *)
(***************************************************************************)
DueTaskRuns ==
    \A t \in Tasks : (Status(t) = "ENABLED" /\ row[t].due) ~>
                     (~(Status(t) = "ENABLED" /\ row[t].due) \/ loop = "stopped")

(***************************************************************************)
(* disable_task answers True for "태스크 비활성화" (scheduler_service.py   *)
(* 634): only enable_task makes a disabled task run again.                 *)
(***************************************************************************)
DisabledUntilEnabled ==
    [][\A t \in Tasks : Status(t) = "DISABLED" /\ Status(t)' # "DISABLED" => EnableTask(t)]_vars

(***************************************************************************)
(* The scheduler "periodically finds the pending tasks and executes them"  *)
(* (scheduler_service.py 103): a task does not stay RUNNING for ever when  *)
(* the loop is stopped and started again.                                  *)
(***************************************************************************)
RunningEnds == \A t \in Tasks : Status(t) = "RUNNING" ~> Status(t) # "RUNNING"
=============================================================================
