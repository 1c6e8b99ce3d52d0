--------------------------- MODULE SchedulerProofs ---------------------------
(***************************************************************************)
(* What runs without a user: the scheduler, the autonomous agent, and the  *)
(* generation of goals.                                                    *)
(*                                                                         *)
(* The scheduler's safety for any set of tasks, any limit of failures, and *)
(* with the operator and the interruptions allowed.  SnapshotInv says what *)
(* still holds of a snapshot that is older than the table: a task waiting  *)
(* in it is not disabled for a violation, has not reached the limit, and   *)
(* nobody else has counted its failures.                                   *)
(***************************************************************************)
EXTENDS Scheduler, Autonomous, Goals, SequenceTheorems, TLAPS

SnapshotInv ==
    \A t \in snapshot : /\ t \notin violated
                        /\ seen[t] = row[t].failures
                        /\ t \in Periodic => streak[t] < FailureLimit

\* A periodic task's row counts every failure since its last success.
StreakInv == \A t \in Periodic : streak[t] <= row[t].failures

\* A task that has not been added has no past.
NoneInv == \A t \in Tasks : Status(t) = "none" => t \notin snapshot /\ streak[t] = 0

SafetyInv ==
    /\ TypeOK
    /\ NoneInv
    /\ SnapshotInv
    /\ StreakInv
    /\ ViolationStaysDisabled
    /\ FailuresDisable
    /\ RunningIsCurrent
-----------------------------------------------------------------------------
(***************************************************************************)
(* What an execution writes into a row: a row again, out of RUNNING if the *)
(* task is periodic, DISABLED after a violation and at the limit, with the *)
(* failures of the snapshot counted up or reset as the outcome demands.    *)
(***************************************************************************)
LEMMA AfterRunRow ==
    ASSUME NEW t \in Tasks, NEW r \in Rows, NEW o \in Outcomes(t), seen[t] = r.failures
    PROVE  /\ AfterRun(r, t, o) \in Rows
           /\ t \in Periodic => AfterRun(r, t, o).status # "RUNNING"
           /\ o = "violation" => AfterRun(r, t, o).status = "DISABLED"
           /\ r.status # "none" => AfterRun(r, t, o).status # "none"
<1>1. o \in {"ok", "failed", "raised", "violation"}
  BY DEF Outcomes
<1>2. seen[t] \in Nat /\ seen[t] + 1 \in Nat
  BY DEF Rows
<1>3. \A s \in Rows : /\ Reschedule(s, t) \in Rows
                      /\ t \in Periodic => Reschedule(s, t).status = "ENABLED"
                      /\ t \notin Periodic => Reschedule(s, t) = s
  BY DEF Reschedule, Rows
<1>4. /\ Disabled(r, seen[t] + 1) \in Rows
      /\ Disabled(r, seen[t] + 1).status = "DISABLED"
  BY <1>2 DEF Disabled, Rows
<1>5. /\ [r EXCEPT !.failures = seen[t] + 1] \in Rows
      /\ [r EXCEPT !.failures = seen[t] + 1].status = r.status
  BY <1>2 DEF Rows
<1>6. CASE o = "ok"
  BY <1>6 DEF AfterRun, AfterSuccess, Reschedule, Rows
<1>7. CASE o = "failed"
  BY <1>3, <1>4, <1>5, <1>7 DEF AfterRun, AfterFailure
<1>8. CASE o = "raised"
  BY <1>3, <1>4, <1>5, <1>8 DEF AfterRun, AfterException
<1>9. CASE o = "violation"
  BY <1>4, <1>9 DEF AfterRun
<1> QED BY <1>1, <1>6, <1>7, <1>8, <1>9

\* How a failure is counted, and that the limit disables a periodic task.
Counted(t, o) == o \in {"raised", "violation"} \/ (o = "failed" /\ Kind[t] = "agent")

LEMMA AfterRunFailures ==
    ASSUME NEW t \in Tasks, t \in Periodic, NEW r \in Rows, NEW o \in Outcomes(t),
           seen[t] = r.failures
    PROVE  /\ Counted(t, o) =>
                 /\ AfterRun(r, t, o).failures = r.failures + 1
                 /\ r.failures + 1 >= FailureLimit => AfterRun(r, t, o).status = "DISABLED"
           /\ o = "failed" /\ ~Counted(t, o) => AfterRun(r, t, o).failures = r.failures
<1>1. \A s \in Rows : Reschedule(s, t).failures = s.failures
  BY DEF Reschedule, Rows
<1>2. seen[t] + 1 \in Nat
  BY DEF Rows
<1>3. /\ Disabled(r, seen[t] + 1).status = "DISABLED"
      /\ Disabled(r, seen[t] + 1).failures = seen[t] + 1
  BY <1>2 DEF Disabled, Rows
<1>4. /\ [r EXCEPT !.failures = seen[t] + 1] \in Rows
      /\ [r EXCEPT !.failures = seen[t] + 1].failures = seen[t] + 1
  BY <1>2 DEF Rows
<1>5. CASE o = "failed"
  BY <1>1, <1>3, <1>4, <1>5 DEF AfterRun, AfterFailure, Counted
<1>6. CASE o = "raised"
  BY <1>1, <1>3, <1>4, <1>6 DEF AfterRun, AfterException
<1>7. CASE o = "violation"
  BY <1>3, <1>7 DEF AfterRun
<1> QED BY <1>5, <1>6, <1>7 DEF Counted
-----------------------------------------------------------------------------
(***************************************************************************)
(* The end of an execution keeps SafetyInv: r is the row it works on, which*)
(* differs from the table's in its status only.                            *)
(***************************************************************************)
LEMMA ExecutionStep ==
    ASSUME SafetyInv, NEW t \in Tasks, t \in snapshot, NEW o \in Outcomes(t),
           NEW r \in Rows, r.failures = row[t].failures, r.status # "none",
           row' = [row EXCEPT ![t] = AfterRun(r, t, o)],
           current \in {t, NoTask}, current' = NoTask,
           Record(t, o), NextInSnapshot(t), UNCHANGED <<seen, orphaned>>
    PROVE  SafetyInv'
<1> USE SchedulerAssumption DEF SafetyInv
<1>1. seen[t] = r.failures /\ t \notin violated
  BY DEF SnapshotInv
<1>2. AfterRun(r, t, o) \in Rows
  BY <1>1, AfterRunRow
<1>3. /\ row'[t] = AfterRun(r, t, o)
      /\ \A u \in Tasks \ {t} : row'[u] = row[u]
      /\ row' \in [Tasks -> Rows]
  BY <1>2 DEF TypeOK
<1>4. /\ streak' \in [Tasks -> 0..FailureLimit]
      /\ \A u \in Tasks \ {t} : streak'[u] = streak[u]
  BY DEF Record, TypeOK
<1>5. /\ violated' \subseteq violated \union {t}
      /\ t \in violated' => o = "violation"
      /\ snapshot' = snapshot \ {t}
  BY <1>1 DEF Record, NextInSnapshot
<1>6. TypeOK'
  BY <1>3, <1>4, <1>5 DEF TypeOK, NextInSnapshot
<1>7. SnapshotInv'
  BY <1>3, <1>4, <1>5 DEF SnapshotInv, TypeOK
<1>8. t \in Periodic => streak'[t] <= row'[t].failures
  <2> SUFFICES ASSUME t \in Periodic
               PROVE  streak'[t] <= row'[t].failures
    OBVIOUS
  <2>1. streak[t] <= r.failures /\ streak[t] \in 0..FailureLimit /\ r.failures \in Nat
    BY DEF StreakInv, TypeOK, Rows
  <2>2. row'[t].failures \in Nat
    BY <1>2, <1>3 DEF Rows
  <2>3. CASE o = "ok"
    BY <2>2, <2>3 DEF Record, TypeOK
  <2>4. CASE Counted(t, o)
    <3>1. row'[t].failures = r.failures + 1
      BY <1>1, <1>3, <2>4, AfterRunFailures
    <3>2. streak'[t] <= streak[t] + 1
      BY <2>1, <2>4 DEF Record, TypeOK, Counted
    <3> QED BY <1>4, <2>1, <3>1, <3>2
  <2>5. CASE o = "failed" /\ ~Counted(t, o)
    <3>1. row'[t].failures = r.failures
      BY <1>1, <1>3, <2>5, AfterRunFailures
    <3>2. streak'[t] = streak[t]
      BY <2>5 DEF Record, TypeOK, Counted
    <3> QED BY <2>1, <3>1, <3>2
  <2> QED BY <2>3, <2>4, <2>5 DEF Outcomes, Counted
<1>9. StreakInv'
  BY <1>3, <1>4, <1>8 DEF StreakInv
<1>10. ViolationStaysDisabled'
  <2>1. o = "violation" => row'[t].status = "DISABLED"
    BY <1>1, <1>3, AfterRunRow
  <2> QED BY <1>3, <1>5, <2>1 DEF ViolationStaysDisabled, Status, TypeOK
<1>11. FailuresDisable'
  <2> SUFFICES ASSUME t \in Periodic, streak'[t] = FailureLimit
               PROVE  row'[t].status = "DISABLED"
    BY <1>3, <1>4 DEF FailuresDisable, Status
  <2>1. streak[t] < FailureLimit /\ streak[t] \in Nat /\ streak[t] <= r.failures
    BY DEF SnapshotInv, StreakInv, TypeOK
  <2>2. Counted(t, o) /\ streak[t] + 1 = FailureLimit
    BY <2>1 DEF Record, TypeOK, Counted, Outcomes
  <2>3. r.failures + 1 >= FailureLimit
    BY <2>1, <2>2 DEF Rows
  <2> QED BY <1>1, <1>3, <2>2, <2>3, AfterRunFailures
<1>12. RunningIsCurrent'
  <2>1. t \in Periodic => row'[t].status # "RUNNING"
    BY <1>1, <1>3, AfterRunRow
  <2> QED BY <1>3, <2>1 DEF RunningIsCurrent, Status
<1>13. NoneInv'
  <2>1. row'[t].status # "none"
    BY <1>1, <1>3, AfterRunRow
  <2> QED BY <1>3, <1>4, <1>5, <2>1 DEF NoneInv, Status
<1> QED BY <1>6, <1>7, <1>9, <1>10, <1>11, <1>12, <1>13

(***************************************************************************)
(* SafetyInv is inductive: the steps of the table, of the loop, and its    *)
(* interruptions.                                                          *)
(***************************************************************************)
LEMMA SafetyStep == SafetyInv /\ [Next]_vars => SafetyInv'
<1> SUFFICES ASSUME SafetyInv, [Next]_vars
             PROVE  SafetyInv'
  OBVIOUS
<1> USE SchedulerAssumption
<1> USE DEF SafetyInv, TypeOK, NoneInv, SnapshotInv, StreakInv, ViolationStaysDisabled, FailuresDisable,
            RunningIsCurrent, Status
<1>1. ASSUME NEW t \in Tasks, AddTask(t)
      PROVE  SafetyInv'
  BY <1>1 DEF AddTask, Rows
<1>2. ASSUME NEW t \in Tasks, BecomesDue(t)
      PROVE  SafetyInv'
  <2>1. \A u \in Tasks : row'[u].status = row[u].status /\ row'[u].failures = row[u].failures
    BY <1>2 DEF BecomesDue, Rows
  <2>2. row' \in [Tasks -> Rows]
    BY <1>2 DEF BecomesDue, Rows
  <2> QED BY <1>2, <2>1, <2>2 DEF BecomesDue
<1>3. ASSUME NEW t \in Tasks, DisableTask(t)
      PROVE  SafetyInv'
  BY <1>3 DEF DisableTask, Rows
<1>4. ASSUME NEW t \in Tasks, EnableTask(t)
      PROVE  SafetyInv'
  BY <1>4 DEF EnableTask, Rows
<1>5. CASE Start
  BY <1>5 DEF Start
<1>6. CASE Poll
  <2>1. /\ snapshot' = {t \in Tasks : Status(t) = "ENABLED" /\ row[t].due}
        /\ UNCHANGED <<row, current, violated, streak, orphaned>>
    BY <1>6 DEF Poll
  <2>2. \A t \in snapshot' : t \in Tasks /\ row[t].status = "ENABLED"
    BY <2>1
  <2>3. \A t \in Tasks : row[t].failures \in Nat
    BY DEF Rows
  <2>4. /\ seen' \in [Tasks -> Nat]
        /\ \A t \in snapshot' : seen'[t] = row[t].failures
    BY <1>6, <2>2, <2>3 DEF Poll
  <2>5. current = NoTask /\ loop' \in {"sleep", "run"} /\ (loop' = "run" <=> snapshot' # {})
    BY <1>6 DEF Poll
  <2>6. TypeOK'
    BY <2>1, <2>2, <2>4, <2>5
  <2>7. \A t \in snapshot' : t \in Periodic => streak[t] < FailureLimit
    BY <2>2
  <2> QED BY <2>1, <2>2, <2>4, <2>6, <2>7
<1>7. CASE Wake
  BY <1>7 DEF Wake
<1>8. ASSUME NEW t \in Tasks, Begin(t)
      PROVE  SafetyInv'
  BY <1>8 DEF Begin, Rows
<1>9. ASSUME NEW t \in Tasks, NEW o \in Outcomes(t), End(t, o)
      PROVE  SafetyInv'
  <2>1. t \in snapshot
    BY <1>9 DEF End
  <2> QED BY <1>9, <2>1, ExecutionStep DEF End
<1>10. ASSUME NEW t \in Tasks, NEW o \in Outcomes(t), RunSync(t, o)
       PROVE  SafetyInv'
  <2>1. /\ [row[t] EXCEPT !.status = "RUNNING"] \in Rows
        /\ [row[t] EXCEPT !.status = "RUNNING"].failures = row[t].failures
        /\ [row[t] EXCEPT !.status = "RUNNING"].status = "RUNNING"
    BY DEF Rows
  <2> QED BY <1>10, <2>1, ExecutionStep DEF RunSync
<1>11. CASE Stop
  BY <1>11 DEF Stop
<1>12. CASE UNCHANGED vars
  BY <1>12 DEF vars
<1> QED BY <1>1, <1>2, <1>3, <1>4, <1>5, <1>6, <1>7, <1>8, <1>9, <1>10, <1>11, <1>12
        DEF Next, LoopStep

LEMMA SafetyAlways == Spec => []SafetyInv
<1>1. Init => SafetyInv
  BY SchedulerAssumption
     DEF Init, SafetyInv, TypeOK, NoneInv, SnapshotInv, StreakInv, ViolationStaysDisabled,
         FailuresDisable, RunningIsCurrent, Status, Rows
<1> QED BY <1>1, SafetyStep, PTL DEF Spec
-----------------------------------------------------------------------------
(***************************************************************************)
(* Rows, snapshot, loop and history variables are what they should be; the *)
(* executing task is always one of the snapshot.                           *)
(***************************************************************************)
THEOREM SchedulerTypeCorrect == Spec => []TypeOK
<1>1. SafetyInv => TypeOK
  BY DEF SafetyInv
<1> QED BY <1>1, SafetyAlways, PTL

(***************************************************************************)
(* A task disabled for a security violation stays disabled until it is     *)
(* enabled, for any tasks and any interruptions (_execute_task 429-440).   *)
(***************************************************************************)
THEOREM ViolationIsFinal == Spec => []ViolationStaysDisabled
<1>1. SafetyInv => ViolationStaysDisabled
  BY DEF SafetyInv
<1> QED BY <1>1, SafetyAlways, PTL

(***************************************************************************)
(* FailureLimit failures in a row disable a periodic task, whatever the    *)
(* limit is (_execute_task 446-457, 515-520).                              *)
(***************************************************************************)
THEOREM FailureLimitHolds == Spec => []FailuresDisable
<1>1. SafetyInv => FailuresDisable
  BY DEF SafetyInv
<1> QED BY <1>1, SafetyAlways, PTL

(***************************************************************************)
(* A periodic task's row is RUNNING only while it is executed, or after it *)
(* was cut off.                                                            *)
(***************************************************************************)
THEOREM RunningIsExecuting == Spec => []RunningIsCurrent
<1>1. SafetyInv => RunningIsCurrent
  BY DEF SafetyInv
<1> QED BY <1>1, SafetyAlways, PTL

(***************************************************************************)
(* The only way around disable_task is the snapshot: a task that was not   *)
(* in it when it was disabled runs again after enable_task, not before.    *)
(* (DisabledUntilEnabled, which promises it of every task, fails.)         *)
(***************************************************************************)
DisabledOutsideSnapshot ==
    [][\A t \in Tasks \ snapshot :
           Status(t) = "DISABLED" /\ Status(t)' # "DISABLED" => EnableTask(t)]_vars

LEMMA OutsideSnapshotStep ==
    ASSUME SafetyInv, [Next]_vars, NEW t \in Tasks \ snapshot,
           Status(t) = "DISABLED", Status(t)' # "DISABLED"
    PROVE  EnableTask(t)
<1> USE DEF Status
<1>1. row \in [Tasks -> Rows] /\ (current # NoTask => current \in snapshot)
  BY DEF SafetyInv, TypeOK
<1>2. row' # row
  OBVIOUS
<1>3. ASSUME NEW u \in Tasks, AddTask(u) \/ BecomesDue(u) \/ DisableTask(u) PROVE FALSE
  BY <1>1, <1>3 DEF AddTask, BecomesDue, DisableTask, Rows
<1>4. ASSUME NEW u \in Tasks, EnableTask(u) PROVE u = t
  BY <1>1, <1>4 DEF EnableTask
<1>5. ASSUME NEW u \in Tasks, \/ Begin(u)
                              \/ \E o \in Outcomes(u) : End(u, o) \/ RunSync(u, o)
      PROVE  FALSE
  <2>1. u \in snapshot
    BY <1>1, <1>5, SchedulerAssumption DEF Begin, End, RunSync
  <2>2. row'[t] = row[t]
    BY <1>1, <1>5, <2>1 DEF Begin, End, RunSync
  <2> QED BY <2>2
<1> QED BY <1>2, <1>3, <1>4, <1>5 DEF Next, LoopStep, Start, Stop, Poll, Wake, vars

\* disable_task holds against the loop for every task that the loop had not
\* selected, for any tasks and with stops and crashes.
THEOREM DisabledStaysOutside == Spec => DisabledOutsideSnapshot
<1>1. SafetyInv /\ [Next]_vars =>
          [\A t \in Tasks \ snapshot :
               Status(t) = "DISABLED" /\ Status(t)' # "DISABLED" => EnableTask(t)]_vars
  BY OutsideSnapshotStep
<1> QED BY <1>1, SafetyAlways, PTL DEF Spec, DisabledOutsideSnapshot

-----------------------------------------------------------------------------
(***************************************************************************)
(* The autonomous agent, for any number of ticks and approvals, with       *)
(* restarts.                                                               *)
(***************************************************************************)
Taken == {"verdict", "audit", "pause", "launched", "running"}
Pending(c) == place[c] \in {"verdict", "audit", "launched"}

\* A tick works on its own record.  Work that was taken up has been approved.
SubjectInv ==
    /\ \A t \in Ticks : subject[t] = t
    /\ \A c \in Calls : place[c] \in Taken => subject[c] \in ethics
    /\ \A r \in Ticks : record[r] = "WAITING_FOR_APPROVAL" => r \in ethics

\* Until its review a tick has no row, and nobody else can take it up.
UnreviewedInv ==
    \A t \in Ticks : place[t] \in {"off", "plan", "ethics"} =>
        /\ record[t] = "none" /\ begun[t] = 0
        /\ \A c \in Calls : place[c] \in Taken => subject[c] # t

\* The call whose script runs has the event loop and the file.
BlockInv ==
    /\ \A c \in Calls : place[c] = "launched" => script = c
    /\ \A c, d \in Calls :
           place[c] \in {"launched", "running"} /\ place[d] \in {"launched", "running"} => c = d

CodeInv ==
    \A x \in executed : /\ x[2] \in Calls /\ place[x[2]] # "off"
                        /\ subject[x[2]] = x[1] /\ x[1] \in ethics

\* Work that was started is not waiting, nor about to be started again.
OnceInv ==
    \A r \in Ticks : r \notin overlapped =>
        /\ \A c, d \in Calls : Pending(c) /\ Pending(d) /\ subject[c] = r /\ subject[d] = r => c = d
        /\ begun[r] <= 1
        /\ begun[r] = 1 => /\ record[r] # "WAITING_FOR_APPROVAL"
                           /\ \A c \in Calls : Pending(c) => subject[c] # r

\* A record under execution is not waiting.
LaunchedInv ==
    \A c \in Calls : place[c] \in {"launched", "running"} =>
        record[subject[c]] # "WAITING_FOR_APPROVAL"

\* What was rejected is neither waiting nor about to be started.
RejectedInv ==
    \A r \in rejected : /\ record[r] \notin {"none", "WAITING_FOR_APPROVAL"}
                        /\ \A c \in Calls : Pending(c) => subject[c] # r

AutoInv ==
    /\ AutonomousTypeOK /\ SubjectInv /\ UnreviewedInv /\ BlockInv /\ CodeInv /\ OnceInv
    /\ LaunchedInv /\ RejectedInv

LEMMA AutoInitInv == AutonomousInit => AutoInv
<1> SUFFICES ASSUME AutonomousInit PROVE AutoInv
  OBVIOUS
<1>1. /\ \A c \in Calls : place[c] = "off"
      /\ \A t \in Ticks : t \in Calls /\ record[t] = "none" /\ begun[t] = 0 /\ subject[t] = t
  BY DEF AutonomousInit, Calls
<1>2. AutonomousTypeOK
  <2>1. record \in [Ticks -> RecordStates] /\ begun \in [Ticks -> Nat]
    BY DEF AutonomousInit, RecordStates
  <2>2. place \in [Calls -> CallPlaces]
    BY DEF AutonomousInit, CallPlaces
  <2>3. subject \in [Calls -> Ticks \union {NoRecord}]
    BY DEF AutonomousInit
  <2>4. /\ ethics \subseteq Ticks /\ overlapped \subseteq Ticks /\ rejected \subseteq Ticks
        /\ retried \subseteq Calls /\ script \in Calls \union {NoScript}
    BY DEF AutonomousInit
  <2>5. executed \subseteq Ticks \X (Calls \union {NoScript})
    BY DEF AutonomousInit
  <2> QED BY <2>1, <2>2, <2>3, <2>4, <2>5 DEF AutonomousTypeOK
<1>3. SubjectInv /\ UnreviewedInv /\ BlockInv /\ LaunchedInv
  BY <1>1 DEF SubjectInv, UnreviewedInv, BlockInv, LaunchedInv, Taken
<1>4. CodeInv /\ RejectedInv
  BY DEF AutonomousInit, CodeInv, RejectedInv
<1>5. OnceInv
  <2>1. \A c \in Calls : ~Pending(c)
    BY <1>1 DEF Pending
  <2> QED BY <1>1, <2>1 DEF OnceInv
<1> QED BY <1>2, <1>3, <1>4, <1>5 DEF AutoInv

\* What a call's change of place means for the others.
LEMMA OnePlaceChanges ==
    ASSUME AutonomousTypeOK, NEW c \in Calls, NEW p \in CallPlaces, Enters(c, p)
    PROVE  /\ place' \in [Calls -> CallPlaces] /\ place'[c] = p
           /\ \A d \in Calls \ {c} : place'[d] = place[d]
BY DEF AutonomousTypeOK, Enters

LEMMA NobodyRuns ==
    ASSUME ~Blocked
    PROVE  \A c \in Calls : place[c] # "launched" /\ place[c] # "running"
BY DEF Blocked

(***************************************************************************)
(* A call takes up a record: a tick its own, new one, others one that      *)
(* waits.                                                                  *)
(***************************************************************************)
LEMMA BeginsInv ==
    ASSUME AutoInv, NEW c \in Calls, NEW r \in Ticks, Begins(c, r), ~Blocked,
           ~Pending(c), c \in Ticks => c = r,
           record[r] = "WAITING_FOR_APPROVAL" \/ (c = r /\ place[c] = "ethics"),
           subject' \in [Calls -> Ticks \union {NoRecord}], subject'[c] = r,
           \A d \in Calls \ {c} : subject'[d] = subject[d],
           place[c] = "off" \/ subject'[c] = subject[c],
           ethics' \in {ethics, ethics \union {r}}, r \in ethics',
           retried' \subseteq Calls, UNCHANGED <<script, begun, executed, rejected>>
    PROVE  AutoInv'
<1> USE DEF Calls
<1>1. PICK p \in {"verdict", "over"} :
        /\ Enters(c, p)
        /\ p = "verdict" => /\ record' = [record EXCEPT ![r] = "WAITING_FOR_APPROVAL"]
                            /\ overlapped' = IF Executing(r) # {} THEN overlapped \union {r} ELSE overlapped
        /\ p = "over" => record' = [record EXCEPT ![r] = "COMPLETED"] /\ overlapped' = overlapped
  BY DEF Begins
<1>2. p \in CallPlaces /\ AutonomousTypeOK
  BY DEF CallPlaces, AutoInv
<1>3. /\ place' \in [Calls -> CallPlaces] /\ place'[c] = p
      /\ \A d \in Calls \ {c} : place'[d] = place[d]
  BY <1>1, <1>2, OnePlaceChanges
<1>4. /\ record' \in [Ticks -> RecordStates]
      /\ record'[r] \in {"WAITING_FOR_APPROVAL", "COMPLETED"}
      /\ p = "over" => record'[r] = "COMPLETED"
      /\ \A t \in Ticks \ {r} : record'[t] = record[t]
  BY <1>1, <1>2 DEF AutonomousTypeOK, RecordStates
<1>5. overlapped \subseteq overlapped' /\ overlapped' \subseteq overlapped \union {r}
  BY <1>1
<1>6. \A d \in Calls : place[d] # "launched" /\ place[d] # "running"
  BY NobodyRuns
<1>7. /\ ethics \subseteq ethics' /\ ethics' \subseteq Ticks
      /\ \A t \in ethics' : t = r \/ t \in ethics
  BY <1>2 DEF AutonomousTypeOK
<1>8. AutonomousTypeOK'
  BY <1>2, <1>3, <1>4, <1>5, <1>7 DEF AutonomousTypeOK
<1>9. SubjectInv'
  <2>1. \A t \in Ticks : subject'[t] = t
    BY DEF AutoInv, SubjectInv
  <2>2. \A d \in Calls : place'[d] \in Taken => subject'[d] \in ethics'
    BY <1>3, <1>7 DEF AutoInv, SubjectInv
  <2>3. \A t \in Ticks : record'[t] = "WAITING_FOR_APPROVAL" => t \in ethics'
    BY <1>4, <1>7 DEF AutoInv, SubjectInv
  <2> QED BY <2>1, <2>2, <2>3 DEF SubjectInv
<1>10. place[r] \in {"off", "plan", "ethics"} => c = r
  BY DEF AutoInv, UnreviewedInv
<1>11. UnreviewedInv'
  BY <1>3, <1>4, <1>10 DEF AutoInv, UnreviewedInv, Taken
<1>12. BlockInv' /\ LaunchedInv'
  BY <1>3, <1>6 DEF BlockInv, LaunchedInv
<1>13. CodeInv'
  BY <1>3, <1>7 DEF AutoInv, CodeInv
<1>14. OnceInv'
  <2> SUFFICES ASSUME NEW t \in Ticks, t \notin overlapped'
               PROVE  /\ \A d, e \in Calls : Pending(d)' /\ Pending(e)' /\ subject'[d] = t /\ subject'[e] = t => d = e
                      /\ begun'[t] <= 1
                      /\ begun'[t] = 1 => /\ record'[t] # "WAITING_FOR_APPROVAL"
                                          /\ \A d \in Calls : Pending(d)' => subject'[d] # t
    BY DEF OnceInv
  <2>1. t \notin overlapped
    BY <1>5
  <2>2. \A d \in Calls \ {c} : Pending(d)' => Pending(d) /\ subject'[d] = subject[d]
    BY <1>3 DEF Pending
  <2>3. CASE t # r
    BY <2>1, <2>2, <2>3, <1>4 DEF AutoInv, OnceInv
  <2>4. CASE t = r
    <3>1. begun[r] = 0
      <4>1. CASE record[r] = "WAITING_FOR_APPROVAL"
        BY <4>1, <2>1, <2>4, <1>2 DEF AutoInv, OnceInv, AutonomousTypeOK
      <4>2. CASE c = r /\ place[c] = "ethics"
        BY <4>2 DEF AutoInv, UnreviewedInv
      <4> QED BY <4>1, <4>2
    <3>2. p = "verdict" => \A d \in Calls : Pending(d) => subject[d] # r
      BY <1>1, <1>6, <2>4 DEF Executing, Pending
    <3>3. p = "over" => ~Pending(c)'
      BY <1>3 DEF Pending
    <3>4. \A d, e \in Calls : Pending(d)' /\ Pending(e)' /\ subject'[d] = t /\ subject'[e] = t => d = e
      <4>1. CASE p = "verdict"
        BY <4>1, <2>2, <2>4, <3>2
      <4>2. CASE p = "over"
        BY <4>2, <2>1, <2>2, <2>4, <3>3 DEF AutoInv, OnceInv
      <4> QED BY <4>1, <4>2
    <3> QED BY <3>1, <3>4, <2>4
  <2> QED BY <2>3, <2>4
<1>15. RejectedInv'
  <2>1. r \notin rejected
    BY DEF AutoInv, UnreviewedInv, RejectedInv
  <2>2. \A d \in Calls \ {c} : Pending(d)' => Pending(d)
    BY <1>3 DEF Pending
  <2> QED BY <2>1, <2>2, <1>2, <1>4 DEF AutoInv, RejectedInv, AutonomousTypeOK
<1> QED BY <1>8, <1>9, <1>11, <1>12, <1>13, <1>14, <1>15 DEF AutoInv

(***************************************************************************)
(* A call that executes a record goes on with it, or ends.                 *)
(***************************************************************************)
LEMMA GoesOnInv ==
    ASSUME AutoInv, NEW c \in Calls, NEW p \in {"audit", "pause", "over"}, Enters(c, p),
           place[c] \in Taken, p = "audit" => place[c] = "verdict",
           p = "pause" => place[c] \notin {"launched", "running"},
           \/ record' = record
           \/ record' = [record EXCEPT ![subject[c]] = "COMPLETED"],
           retried' \subseteq Calls,
           UNCHANGED <<ethics, subject, script, begun, executed, overlapped, rejected>>
    PROVE  AutoInv'
<1>1. AutonomousTypeOK /\ p \in CallPlaces
  BY DEF AutoInv, CallPlaces
<1>2. /\ place' \in [Calls -> CallPlaces] /\ place'[c] = p
      /\ \A d \in Calls \ {c} : place'[d] = place[d]
  BY <1>1, OnePlaceChanges
<1>3. subject[c] \in ethics /\ subject[c] \in Ticks
  BY <1>1 DEF AutoInv, SubjectInv, AutonomousTypeOK
<1>4. /\ record' \in [Ticks -> RecordStates]
      /\ \A t \in Ticks : record'[t] = record[t] \/ (t = subject[c] /\ record'[t] = "COMPLETED")
  BY <1>1, <1>3 DEF AutonomousTypeOK, RecordStates
<1>5. \A d \in Calls : Pending(d)' => Pending(d)
  BY <1>2 DEF Pending
<1>6. \A d \in Calls : place'[d] \in Taken => place[d] \in Taken
  BY <1>2
<1>7. \A d \in Calls : place'[d] \in {"launched", "running"} => place'[d] = place[d]
  BY <1>2
<1>8. AutonomousTypeOK'
  BY <1>1, <1>2, <1>4 DEF AutonomousTypeOK
<1>9. SubjectInv'
  BY <1>4, <1>6 DEF AutoInv, SubjectInv
<1>10. UnreviewedInv'
  <2>1. \A t \in Ticks : place'[t] \in {"off", "plan", "ethics"} => place[t] = place'[t]
    BY <1>2 DEF Calls
  <2>2. \A t \in Ticks : place[t] \in {"off", "plan", "ethics"} => t # subject[c]
    BY DEF AutoInv, UnreviewedInv
  <2> QED BY <2>1, <2>2, <1>4, <1>6 DEF AutoInv, UnreviewedInv
<1>11. BlockInv' /\ LaunchedInv'
  BY <1>3, <1>4, <1>7, <1>1 DEF AutoInv, BlockInv, LaunchedInv, SubjectInv, Taken, AutonomousTypeOK
<1>12. CodeInv'
  BY <1>2 DEF AutoInv, CodeInv
<1>13. OnceInv'
  BY <1>4, <1>5 DEF AutoInv, OnceInv
<1>14. RejectedInv'
  BY <1>1, <1>4, <1>5 DEF AutoInv, RejectedInv, AutonomousTypeOK
<1> QED BY <1>8, <1>9, <1>10, <1>11, <1>12, <1>13, <1>14 DEF AutoInv
(***************************************************************************)
(* The checked script is saved, recorded as executing, and started; then   *)
(* the interpreter reads it.                                               *)
(***************************************************************************)
LEMMA LaunchesInv ==
    ASSUME AutoInv, NEW c \in Calls, Launches(c), ~Blocked,
           place[c] \in {"verdict", "audit"},
           UNCHANGED <<ethics, subject, retried, begun, executed, rejected>>
    PROVE  AutoInv'
<1>1. /\ AutonomousTypeOK /\ "launched" \in CallPlaces /\ Enters(c, "launched")
      /\ record' = [record EXCEPT ![subject[c]] = "EXECUTING"]
      /\ script' = c /\ overlapped' = overlapped
  BY DEF AutoInv, CallPlaces, Launches
<1>2. /\ place' \in [Calls -> CallPlaces] /\ place'[c] = "launched"
      /\ \A d \in Calls \ {c} : place'[d] = place[d]
  BY <1>1, OnePlaceChanges
<1>3. subject[c] \in ethics /\ subject[c] \in Ticks
  BY <1>1 DEF AutoInv, SubjectInv, AutonomousTypeOK, Taken
<1>4. /\ record' \in [Ticks -> RecordStates] /\ record'[subject[c]] = "EXECUTING"
      /\ \A t \in Ticks : record'[t] = record[t] \/ (t = subject[c] /\ record'[t] = "EXECUTING")
  BY <1>1, <1>3 DEF AutonomousTypeOK, RecordStates
<1>5. /\ \A d \in Calls : Pending(d)' => Pending(d)
      /\ \A d \in Calls : place'[d] \in Taken => place[d] \in Taken
  BY <1>2 DEF Pending, Taken
<1>6. \A d \in Calls : place'[d] \in {"launched", "running"} => d = c
  BY <1>2, NobodyRuns
<1>7. AutonomousTypeOK'
  BY <1>1, <1>2, <1>4 DEF AutonomousTypeOK
<1>8. SubjectInv'
  BY <1>4, <1>5 DEF AutoInv, SubjectInv
<1>9. UnreviewedInv'
  <2>1. \A t \in Ticks : place'[t] \in {"off", "plan", "ethics"} => place[t] = place'[t]
    BY <1>2 DEF Calls
  <2>2. \A t \in Ticks : place[t] \in {"off", "plan", "ethics"} => t # subject[c]
    BY DEF AutoInv, UnreviewedInv, Taken
  <2> QED BY <2>1, <2>2, <1>4, <1>5 DEF AutoInv, UnreviewedInv
<1>10. BlockInv' /\ LaunchedInv'
  BY <1>1, <1>4, <1>6 DEF BlockInv, LaunchedInv
<1>11. CodeInv'
  BY <1>2 DEF AutoInv, CodeInv
<1>12. OnceInv'
  BY <1>1, <1>4, <1>5 DEF AutoInv, OnceInv
<1>13. RejectedInv'
  BY <1>1, <1>4, <1>5 DEF AutoInv, RejectedInv, AutonomousTypeOK
<1> QED BY <1>7, <1>8, <1>9, <1>10, <1>11, <1>12, <1>13 DEF AutoInv

LEMMA ScriptStartsInv ==
    ASSUME AutoInv, NEW c \in Calls, ScriptStarts(c)
    PROVE  AutoInv' /\ subject[c] \notin rejected
<1>1. /\ AutonomousTypeOK /\ "running" \in CallPlaces /\ Enters(c, "running")
      /\ place[c] = "launched" /\ script = c
      /\ begun' = [begun EXCEPT ![subject[c]] = @ + 1]
      /\ executed' = executed \union {<<subject[c], c>>}
      /\ UNCHANGED <<record, ethics, subject, retried, script, overlapped, rejected>>
  BY DEF AutoInv, CallPlaces, ScriptStarts, BlockInv
<1>2. /\ place' \in [Calls -> CallPlaces] /\ place'[c] = "running"
      /\ \A d \in Calls \ {c} : place'[d] = place[d]
  BY <1>1, OnePlaceChanges
<1>3. subject[c] \in ethics /\ subject[c] \in Ticks
  BY <1>1 DEF AutoInv, SubjectInv, AutonomousTypeOK, Taken
<1>4. begun' \in [Ticks -> Nat] /\ begun'[subject[c]] = begun[subject[c]] + 1
      /\ \A t \in Ticks \ {subject[c]} : begun'[t] = begun[t]
  BY <1>1, <1>3 DEF AutonomousTypeOK
<1>5. /\ \A d \in Calls : Pending(d)' <=> Pending(d) /\ d # c
      /\ \A d \in Calls : place'[d] \in Taken <=> place[d] \in Taken
      /\ Pending(c)
  BY <1>1, <1>2 DEF Pending, Taken
<1>6. \A d \in Calls : place'[d] \in {"launched", "running"} => d = c
  BY <1>1, <1>2 DEF AutoInv, BlockInv
<1>7. AutonomousTypeOK'
  BY <1>1, <1>2, <1>3, <1>4 DEF AutonomousTypeOK
<1>8. SubjectInv'
  BY <1>1, <1>5 DEF AutoInv, SubjectInv
<1>9. UnreviewedInv'
  <2>1. \A t \in Ticks : place'[t] \in {"off", "plan", "ethics"} => place[t] = place'[t]
    BY <1>2 DEF Calls
  <2>2. \A t \in Ticks : place[t] \in {"off", "plan", "ethics"} => t # subject[c]
    BY <1>1 DEF AutoInv, UnreviewedInv, Taken
  <2> QED BY <2>1, <2>2, <1>1, <1>4, <1>5 DEF AutoInv, UnreviewedInv
<1>10. BlockInv' /\ LaunchedInv'
  <2>1. record[subject[c]] # "WAITING_FOR_APPROVAL"
    BY <1>1 DEF AutoInv, LaunchedInv
  <2> QED BY <2>1, <1>1, <1>2, <1>6 DEF BlockInv, LaunchedInv
<1>11. CodeInv'
  BY <1>1, <1>2, <1>3 DEF AutoInv, CodeInv
<1>12. OnceInv'
  <2> SUFFICES ASSUME NEW t \in Ticks, t \notin overlapped
               PROVE  /\ \A d, e \in Calls : Pending(d)' /\ Pending(e)' /\ subject'[d] = t /\ subject'[e] = t => d = e
                      /\ begun'[t] <= 1
                      /\ begun'[t] = 1 => /\ record'[t] # "WAITING_FOR_APPROVAL"
                                          /\ \A d \in Calls : Pending(d)' => subject'[d] # t
    BY <1>1 DEF OnceInv
  <2>1. CASE t # subject[c]
    BY <2>1, <1>1, <1>4, <1>5 DEF AutoInv, OnceInv
  <2>2. CASE t = subject[c]
    <3>1. begun[t] = 0
      BY <2>2, <1>1, <1>5 DEF AutoInv, OnceInv, AutonomousTypeOK
    <3>2. record[t] # "WAITING_FOR_APPROVAL"
      BY <2>2, <1>1 DEF AutoInv, LaunchedInv
    <3>3. \A d \in Calls : Pending(d)' => subject'[d] # t
      BY <2>2, <1>1, <1>5 DEF AutoInv, OnceInv
    <3> QED BY <3>1, <3>2, <3>3, <2>2, <1>1, <1>4
  <2> QED BY <2>1, <2>2
<1>13. RejectedInv' /\ subject[c] \notin rejected
  BY <1>1, <1>5 DEF AutoInv, RejectedInv
<1> QED BY <1>7, <1>8, <1>9, <1>10, <1>11, <1>12, <1>13 DEF AutoInv

(***************************************************************************)
(* A tick before its work is taken up.                                     *)
(***************************************************************************)
LEMMA TickInv ==
    ASSUME AutoInv, NEW t \in Ticks, NEW p \in {"plan", "ethics", "over"}, Enters(t, p),
           place[t] \in {"off", "plan", "ethics"},
           \/ record' = record
           \/ p = "over" /\ \E s \in RecordStates \ {"none", "WAITING_FOR_APPROVAL"} :
                                record' = [record EXCEPT ![t] = s],
           ethics' \in {ethics, ethics \union {t}},
           UNCHANGED <<subject, retried, script, begun, executed, overlapped, rejected>>
    PROVE  AutoInv'
<1>1. AutonomousTypeOK /\ p \in CallPlaces /\ t \in Calls
  BY DEF AutoInv, CallPlaces, Calls
<1>2. /\ place' \in [Calls -> CallPlaces] /\ place'[t] = p
      /\ \A d \in Calls \ {t} : place'[d] = place[d]
  BY <1>1, OnePlaceChanges
<1>3. /\ record' \in [Ticks -> RecordStates]
      /\ \A r \in Ticks \ {t} : record'[r] = record[r]
      /\ record'[t] = record[t] \/ (p = "over" /\ record'[t] \notin {"none", "WAITING_FOR_APPROVAL"})
  BY <1>1 DEF AutonomousTypeOK
<1>4. /\ \A d \in Calls : Pending(d)' => Pending(d) /\ d # t
      /\ \A d \in Calls : place'[d] \in Taken => place[d] \in Taken
      /\ \A d \in Calls : place'[d] \in {"launched", "running"} => place'[d] = place[d]
  BY <1>2 DEF Pending, Taken
<1>5. /\ ethics \subseteq ethics' /\ ethics' \subseteq Ticks
  BY <1>1 DEF AutonomousTypeOK
<1>6. AutonomousTypeOK'
  BY <1>1, <1>2, <1>3, <1>5 DEF AutonomousTypeOK
<1>7. SubjectInv'
  BY <1>3, <1>4, <1>5 DEF AutoInv, SubjectInv
<1>8. UnreviewedInv'
  <2>1. \A r \in Ticks \ {t} : place'[r] = place[r]
    BY <1>2 DEF Calls
  <2> QED BY <2>1, <1>2, <1>3, <1>4 DEF AutoInv, UnreviewedInv
<1>9. BlockInv' /\ LaunchedInv'
  <2>1. \A d \in Calls : place[d] \in Taken => subject[d] \in Ticks
    BY <1>1 DEF AutoInv, SubjectInv, AutonomousTypeOK
  <2> QED BY <2>1, <1>3, <1>4 DEF AutoInv, BlockInv, LaunchedInv, Taken
<1>10. CodeInv'
  BY <1>2, <1>5 DEF AutoInv, CodeInv
<1>11. OnceInv'
  BY <1>3, <1>4 DEF AutoInv, OnceInv
<1>12. RejectedInv'
  BY <1>1, <1>3, <1>4 DEF AutoInv, RejectedInv, AutonomousTypeOK
<1> QED BY <1>6, <1>7, <1>8, <1>9, <1>10, <1>11, <1>12 DEF AutoInv

(***************************************************************************)
(* The operators, and a restart.                                           *)
(***************************************************************************)
LEMMA RejectsInv ==
    ASSUME AutoInv, NEW rs \in SUBSET Ticks, \A r \in rs : record[r] # "none", Rejects(rs)
    PROVE  AutoInv'
<1>1. /\ AutonomousTypeOK
      /\ record' = [r \in Ticks |-> IF r \in rs THEN "REJECTED" ELSE record[r]]
      /\ rejected' = rejected \union {r \in rs : Executing(r) = {}}
      /\ UNCHANGED <<ethics, place, subject, retried, script, begun, executed, overlapped>>
  BY DEF AutoInv, Rejects
<1>2. /\ record' \in [Ticks -> RecordStates]
      /\ \A r \in Ticks : record'[r] = record[r] \/ (r \in rs /\ record'[r] = "REJECTED")
      /\ \A r \in rs : record'[r] = "REJECTED"
  BY <1>1 DEF AutonomousTypeOK, RecordStates
<1>3. AutonomousTypeOK'
  BY <1>1, <1>2 DEF AutonomousTypeOK
<1>4. SubjectInv' /\ UnreviewedInv' /\ BlockInv' /\ CodeInv'
  BY <1>1, <1>2 DEF AutoInv, SubjectInv, UnreviewedInv, BlockInv, CodeInv
<1>5. LaunchedInv'
  BY <1>1, NobodyRuns DEF LaunchedInv, Rejects
<1>6. OnceInv'
  BY <1>1, <1>2 DEF AutoInv, OnceInv, Pending
<1>7. RejectedInv'
  <2>1. \A r \in rejected' : record'[r] \notin {"none", "WAITING_FOR_APPROVAL"}
    BY <1>1, <1>2 DEF AutoInv, RejectedInv, AutonomousTypeOK
  <2>2. \A d \in Calls : place[d] # "launched"
    BY NobodyRuns DEF Rejects
  <2>3. \A r \in rejected' : \A d \in Calls : Pending(d)' => subject'[d] # r
    BY <1>1, <2>2 DEF AutoInv, RejectedInv, Executing, Pending
  <2> QED BY <2>1, <2>3 DEF RejectedInv
<1> QED BY <1>3, <1>4, <1>5, <1>6, <1>7 DEF AutoInv

LEMMA RestartInv == ASSUME AutoInv, Restart PROVE AutoInv'
<1>1. /\ AutonomousTypeOK
      /\ \A c \in Calls : place'[c] = IF place[c] = "off" THEN "off" ELSE "over"
      /\ place' \in [Calls -> CallPlaces]
      /\ UNCHANGED <<record, ethics, subject, retried, script, begun, executed, overlapped, rejected>>
  BY DEF AutoInv, Restart, CallPlaces
<1>2. /\ \A c \in Calls : place'[c] \notin Taken /\ ~Pending(c)'
      /\ \A c \in Calls : place'[c] \in {"off", "plan", "ethics"} => place'[c] = place[c]
  BY <1>1 DEF Taken, Pending
<1>3. AutonomousTypeOK'
  BY <1>1 DEF AutonomousTypeOK
<1>4. SubjectInv' /\ BlockInv' /\ LaunchedInv'
  BY <1>1, <1>2 DEF AutoInv, SubjectInv, BlockInv, LaunchedInv, Taken
<1>5. UnreviewedInv'
  BY <1>1, <1>2 DEF AutoInv, UnreviewedInv, Calls
<1>6. CodeInv'
  BY <1>1 DEF AutoInv, CodeInv
<1>7. OnceInv' /\ RejectedInv'
  BY <1>1, <1>2 DEF AutoInv, OnceInv, RejectedInv
<1> QED BY <1>3, <1>4, <1>5, <1>6, <1>7 DEF AutoInv

LEMMA AutoStep ==
    ASSUME AutoInv, AutonomousNext
    PROVE  AutoInv' /\ \A r \in rejected : begun'[r] = begun[r]
<1>1. \A t \in Ticks : t \in Calls
  BY DEF Calls
<1>2. ASSUME NEW t \in Ticks, TickBegins(t) PROVE AutoInv' /\ begun' = begun
  BY <1>2, TickInv DEF TickBegins
<1>3. ASSUME NEW t \in Ticks, TowerAnswers(t) PROVE AutoInv' /\ begun' = begun
  <2>1. "COMPLETED" \in RecordStates \ {"none", "WAITING_FOR_APPROVAL"}
    BY DEF RecordStates
  <2> QED BY <2>1, <1>3, TickInv DEF TowerAnswers
<1>4. ASSUME NEW t \in Ticks, EthicsReviewed(t) PROVE AutoInv' /\ begun' = begun
  <2>1. "QUARANTINED" \in RecordStates \ {"none", "WAITING_FOR_APPROVAL"}
    BY DEF RecordStates
  <2>2. CASE ~Begins(t, t)
    BY <2>1, <2>2, <1>4, TickInv DEF EthicsReviewed
  <2>3. CASE Begins(t, t) /\ ethics' = ethics \union {t}
    <3>1. subject[t] = t /\ subject' = subject /\ subject \in [Calls -> Ticks \union {NoRecord}]
      BY <1>4 DEF EthicsReviewed, AutoInv, SubjectInv, AutonomousTypeOK
    <3>2. retried' \subseteq Calls
      BY <1>4 DEF EthicsReviewed, AutoInv, AutonomousTypeOK
    <3> QED BY <2>3, <3>1, <3>2, <1>1, <1>4, BeginsInv DEF EthicsReviewed, Pending
  <2>4. CASE ~(ethics' = ethics \union {t})
    BY <2>1, <2>4, <1>4, TickInv DEF EthicsReviewed
  <2> QED BY <2>2, <2>3, <2>4
<1>5. ASSUME NEW t \in Ticks, TickFails(t) PROVE AutoInv' /\ begun' = begun
  <2>1. {"ETHICS_FAIL", "PENDING"} \subseteq RecordStates \ {"none", "WAITING_FOR_APPROVAL"}
    BY DEF RecordStates
  <2> QED BY <2>1, <1>5, TickInv DEF TickFails
<1>6. ASSUME NEW c \in Calls, CodeArrives(c) \/ AuditAnswers(c) PROVE AutoInv' /\ begun' = begun
  <2>1. /\ place[c] \in {"verdict", "audit"} /\ place[c] \in Taken /\ ~Blocked
        /\ UNCHANGED <<ethics, subject, retried, begun, executed, rejected>>
        /\ retried' \subseteq Calls
    BY <1>6 DEF CodeArrives, AuditAnswers, Taken, AutoInv, AutonomousTypeOK
  <2>2. CASE Launches(c)
    BY <2>1, <2>2, LaunchesInv
  <2>3. CASE Fails(c)
    BY <2>1, <2>3, GoesOnInv DEF Fails
  <2>4. CASE Unexpected(c)
    BY <2>1, <2>4, GoesOnInv DEF Unexpected, Fails
  <2>5. CASE place[c] = "verdict" /\ Enters(c, "audit") /\ UNCHANGED <<record, script, overlapped>>
    BY <2>1, <2>5, GoesOnInv
  <2> QED BY <1>6, <2>2, <2>3, <2>4, <2>5 DEF CodeArrives, AuditAnswers
<1>7. ASSUME NEW c \in Calls, Retry(c) PROVE AutoInv' /\ begun' = begun
  <2>1. /\ place[c] = "pause" /\ place[c] \in Taken /\ ~Pending(c) /\ ~Blocked
        /\ UNCHANGED <<ethics, subject, script, begun, executed, rejected>>
        /\ retried' \subseteq Calls
    BY <1>7 DEF Retry, Taken, Pending, AutoInv, AutonomousTypeOK
  <2>2. /\ subject[c] \in ethics /\ subject[c] \in Ticks /\ (c \in Ticks => c = subject[c])
        /\ subject \in [Calls -> Ticks \union {NoRecord}]
    BY <2>1 DEF AutoInv, SubjectInv, AutonomousTypeOK
  <2>3. CASE record[subject[c]] = "WAITING_FOR_APPROVAL" /\ Begins(c, subject[c])
    BY <2>1, <2>2, <2>3, BeginsInv
  <2>4. CASE Enters(c, "over") /\ UNCHANGED <<record, overlapped>>
    BY <2>1, <2>4, GoesOnInv
  <2> QED BY <1>7, <2>3, <2>4, <2>1 DEF Retry
<1>8. ASSUME NEW c \in Calls, ScriptStarts(c)
      PROVE  AutoInv' /\ \A r \in rejected : begun'[r] = begun[r]
  <2>1. AutoInv' /\ subject[c] \notin rejected
    BY <1>8, ScriptStartsInv
  <2>2. \A r \in Ticks : r # subject[c] => begun'[r] = begun[r]
    BY <1>8 DEF ScriptStarts, AutoInv, AutonomousTypeOK
  <2> QED BY <2>1, <2>2 DEF AutoInv, AutonomousTypeOK
<1>9. ASSUME NEW c \in Calls, ScriptEnds(c) PROVE AutoInv' /\ begun' = begun
  <2>1. /\ place[c] \in Taken /\ retried' \subseteq Calls
    BY <1>9 DEF ScriptEnds, Taken, AutoInv, AutonomousTypeOK
  <2> QED BY <2>1, <1>9, GoesOnInv DEF ScriptEnds
<1>10. ASSUME NEW a \in Approvals, NEW r \in Ticks, Approve(a, r) PROVE AutoInv' /\ begun' = begun
  <2>1. /\ a \in Calls /\ a \notin Ticks /\ place[a] = "off" /\ ~Pending(a) /\ ~Blocked
        /\ record[r] = "WAITING_FOR_APPROVAL" /\ r \in ethics
        /\ UNCHANGED <<ethics, retried, script, begun, executed, rejected>>
        /\ retried' \subseteq Calls
    BY <1>10, AutonomousAssumption DEF Approve, Calls, Pending, AutoInv, SubjectInv, AutonomousTypeOK
  <2>2. /\ subject' \in [Calls -> Ticks \union {NoRecord}] /\ subject'[a] = r
        /\ \A d \in Calls \ {a} : subject'[d] = subject[d]
    BY <2>1, <1>10 DEF Approve, AutoInv, AutonomousTypeOK
  <2> QED BY <2>1, <2>2, <1>10, BeginsInv DEF Approve
<1>11. ASSUME NEW t \in Ticks, Reject(t) PROVE AutoInv' /\ begun' = begun
  <2>1. {t} \in SUBSET Ticks /\ Rejects({t}) /\ \A r \in {t} : record[r] # "none"
    BY <1>11 DEF Reject
  <2>2. begun' = begun
    BY <2>1 DEF Rejects
  <2> QED BY <2>1, <2>2, RejectsInv
<1>12. ASSUME RejectAll PROVE AutoInv' /\ begun' = begun
  <2> DEFINE rs == {r \in Ticks : record[r] \in {"WAITING_FOR_APPROVAL", "QUARANTINED"}}
  <2>1. rs \in SUBSET Ticks /\ Rejects(rs) /\ \A r \in rs : record[r] # "none"
    BY <1>12 DEF RejectAll
  <2> QED BY <2>1, RejectsInv DEF Rejects
<1>13. ASSUME Restart PROVE AutoInv' /\ begun' = begun
  BY <1>13, RestartInv DEF Restart
<1> QED
  BY <1>2, <1>3, <1>4, <1>5, <1>6, <1>7, <1>8, <1>9, <1>10, <1>11, <1>12, <1>13
     DEF AutonomousNext, CallStep, TickStep, WorkStep

LEMMA AutoStutters ==
    ASSUME AutoInv, UNCHANGED autonomousVars
    PROVE  AutoInv' /\ \A r \in rejected : begun'[r] = begun[r]
BY DEF autonomousVars, AutoInv, AutonomousTypeOK, SubjectInv, UnreviewedInv, BlockInv, CodeInv,
   OnceInv, LaunchedInv, RejectedInv, Pending

(***************************************************************************)
(* The invariant of the autonomous agent holds in every reachable state.   *)
(***************************************************************************)
THEOREM AutonomousInvariant == AutonomousSpec => []AutoInv
<1>1. AutoInv /\ [AutonomousNext]_autonomousVars => AutoInv'
  BY AutoStep, AutoStutters
<1> QED BY <1>1, AutoInitInv, PTL DEF AutonomousSpec

(***************************************************************************)
(* The types of the autonomous agent's variables.                          *)
(***************************************************************************)
THEOREM AutonomousTypeCorrect == AutonomousSpec => []AutonomousTypeOK
<1>1. AutoInv => AutonomousTypeOK
  BY DEF AutoInv
<1> QED BY <1>1, AutonomousInvariant, PTL

(***************************************************************************)
(* What is run for a record is the code that was written and checked for   *)
(* it, although the scripts share a file.                                  *)
(***************************************************************************)
THEOREM RunsOwnCode == AutonomousSpec => []RunsItsOwnCode
<1>1. AutoInv => RunsItsOwnCode
  BY DEF AutoInv, CodeInv, RunsItsOwnCode
<1> QED BY <1>1, AutonomousInvariant, PTL

(***************************************************************************)
(* Work that no two calls took up at a time is started once at most.       *)
(***************************************************************************)
THEOREM WorkStartsOnce == AutonomousSpec => []StartedOnce
<1>1. AutoInv => StartedOnce
  BY DEF AutoInv, AutonomousTypeOK, OnceInv, StartedOnce
<1> QED BY <1>1, AutonomousInvariant, PTL

(***************************************************************************)
(* A rejection that nobody has overtaken holds.                            *)
(***************************************************************************)
THEOREM RejectionIsRespected == AutonomousSpec => RejectionHolds
<1>1. AutoInv /\ [AutonomousNext]_autonomousVars =>
          [\A r \in rejected : begun'[r] = begun[r]]_autonomousVars
  BY AutoStep
<1> QED BY <1>1, AutonomousInvariant, PTL DEF AutonomousSpec, RejectionHolds

(***************************************************************************)
(* Every step of a call takes it onwards, also over its one retry: the     *)
(* steps it has left at most.  Nothing that others do adds to them.        *)
(***************************************************************************)
Left(c) ==
    CASE place[c] = "off"      -> 10
      [] place[c] = "plan"     -> 9
      [] place[c] = "ethics"   -> 8
      [] place[c] = "verdict"  -> IF c \in retried THEN 4 ELSE 7
      [] place[c] = "audit"    -> IF c \in retried THEN 3 ELSE 6
      [] place[c] = "pause"    -> 5
      [] place[c] = "launched" -> 2
      [] place[c] = "running"  -> 1
      [] OTHER                 -> 0

CallRunsOut ==
    [][\A c \in Calls : place[c] # place'[c] => Left(c)' < Left(c)]_autonomousVars

\* One call moves, and it moves on.
LEMMA CallMovesOn ==
    ASSUME AutonomousTypeOK, NEW c \in Calls, NEW p \in CallPlaces, Enters(c, p),
           retried' \in {retried, retried \union {c}},
           CASE place[c] = "off"      -> p # "off"
             [] place[c] = "plan"     -> p \in {"ethics", "over"}
             [] place[c] = "ethics"   -> p \in {"verdict", "over"}
             [] place[c] = "verdict"  -> \/ p \in {"audit", "launched", "over"}
                                         \/ p = "pause" /\ c \notin retried
             [] place[c] = "audit"    -> \/ p \in {"launched", "over"}
                                         \/ p = "pause" /\ c \notin retried
             [] place[c] = "pause"    -> p = "over" \/ (p = "verdict" /\ c \in retried')
             [] place[c] = "launched" -> p = "running"
             [] place[c] = "running"  -> p = "over"
             [] OTHER                 -> FALSE
    PROVE  \A d \in Calls : place[d] # place'[d] => Left(d)' < Left(d)
<1>1. place'[c] = p /\ \A d \in Calls \ {c} : place'[d] = place[d]
  BY OnePlaceChanges
<1>2. place[c] \in CallPlaces
  BY DEF AutonomousTypeOK
<1>3. Left(c)' < Left(c)
  BY <1>1, <1>2 DEF Left, CallPlaces
<1> QED BY <1>1, <1>3

LEMMA CallStepIsOnward ==
    ASSUME AutonomousTypeOK, [AutonomousNext]_autonomousVars
    PROVE  \A d \in Calls : place[d] # place'[d] => Left(d)' < Left(d)
<1> DEFINE Onward == \A d \in Calls : place[d] # place'[d] => Left(d)' < Left(d)
<1> USE DEF CallPlaces
<1>1. CASE UNCHANGED place
  BY <1>1
<1>2. CASE Restart
  <2>1. ASSUME NEW d \in Calls, place[d] # place'[d]
        PROVE  place'[d] = "over" /\ place[d] \notin {"off", "over"} /\ place[d] \in CallPlaces
    BY <1>2, <2>1 DEF Restart, AutonomousTypeOK
  <2> QED BY <2>1 DEF Left
<1>3. ASSUME NEW c \in Calls, NEW r, Begins(c, r), retried' \in {retried, retried \union {c}},
             place[c] \in {"off", "ethics"} \/ (place[c] = "pause" /\ c \in retried')
      PROVE  Onward
  <2>1. PICK p \in {"verdict", "over"} : Enters(c, p)
    BY <1>3 DEF Begins
  <2> QED BY <1>3, <2>1, CallMovesOn
<1>4. ASSUME NEW t \in Ticks, TickBegins(t) \/ TickStep(t) PROVE Onward
  <2>1. t \in Calls /\ retried' = retried
    BY <1>4 DEF Calls, TickBegins, TickStep, TowerAnswers, EthicsReviewed, TickFails
  <2>2. CASE TickBegins(t)
    BY <2>1, <2>2, CallMovesOn DEF TickBegins
  <2>3. CASE TowerAnswers(t)
    BY <2>1, <2>3, CallMovesOn DEF TowerAnswers
  <2>4. CASE EthicsReviewed(t)
    BY <2>1, <2>4, <1>3, CallMovesOn DEF EthicsReviewed
  <2>5. CASE TickFails(t)
    BY <2>1, <2>5, CallMovesOn DEF TickFails
  <2> QED BY <1>4, <2>2, <2>3, <2>4, <2>5 DEF TickStep
<1>5. ASSUME NEW c \in Calls, CodeArrives(c) \/ AuditAnswers(c) PROVE Onward
  <2>1. PICK p \in {"audit", "launched", "pause", "over"} :
            /\ Enters(c, p) /\ retried' = retried
            /\ place[c] = "verdict" \/ (place[c] = "audit" /\ p # "audit")
            /\ p = "pause" => c \notin retried
    BY <1>5 DEF CodeArrives, AuditAnswers, Fails, Launches, Unexpected
  <2> QED BY <2>1, CallMovesOn
<1>6. ASSUME NEW c \in Calls, Retry(c) PROVE Onward
  <2>1. place[c] = "pause" /\ retried' = retried \union {c}
    BY <1>6 DEF Retry
  <2>2. CASE Enters(c, "over")
    BY <2>1, <2>2, CallMovesOn
  <2> QED BY <1>6, <2>1, <2>2, <1>3 DEF Retry
<1>7. ASSUME NEW c \in Calls, ScriptStarts(c) \/ ScriptEnds(c) PROVE Onward
  BY <1>7, CallMovesOn DEF ScriptStarts, ScriptEnds
<1>8. ASSUME NEW a \in Approvals, NEW r \in Ticks, Approve(a, r) PROVE Onward
  BY <1>8, <1>3 DEF Approve, Calls
<1>9. CASE RejectAll \/ \E t \in Ticks : Reject(t)
  BY <1>1, <1>9 DEF RejectAll, Reject, Rejects
<1> QED BY <1>1, <1>2, <1>4, <1>5, <1>6, <1>7, <1>8, <1>9
        DEF AutonomousNext, CallStep, WorkStep, autonomousVars

(***************************************************************************)
(* A tick or an approval takes ten steps at most, whatever fails, is       *)
(* retried, rejected or restarted: what CallEnds needs besides the end of  *)
(* every await (execute_approved_work, auto_retry).                        *)
(***************************************************************************)
THEOREM EveryCallRunsOut == AutonomousSpec => CallRunsOut
<1>1. AutoInv /\ [AutonomousNext]_autonomousVars =>
          [\A c \in Calls : place[c] # place'[c] => Left(c)' < Left(c)]_autonomousVars
  BY CallStepIsOnward DEF AutoInv
<1> QED BY <1>1, AutonomousInvariant, PTL DEF AutonomousSpec, CallRunsOut

-----------------------------------------------------------------------------
(***************************************************************************)
(* The goals, for any insights, titles and resemblance, and any number of  *)
(* generations.                                                            *)
(***************************************************************************)
Goal == [title : Titles, parent : Nat, by : 0 .. MaxGenerations]

\* While a generation is at work, all goals are of earlier ones.
ByInv ==
    /\ batch # {} => generation > 0
    /\ \A g \in DOMAIN goals : goals[g].by <= generation /\ (batch # {} => goals[g].by < generation)

GoalsInv == GoalsTypeOK /\ ByInv /\ GoalsNotRepeated

\* Rows are added behind the others, which stay as they are.
LEMMA SavedRows ==
    ASSUME GoalsTypeOK, NEW n \in Nat, NEW titles \in [1 .. n -> Titles], NEW p \in Nat,
           NEW by \in 0 .. MaxGenerations, GoalsSaved(titles, p, by)
    PROVE  /\ goals' \in Seq(Goal) /\ DOMAIN goals \subseteq DOMAIN goals'
           /\ status' \in [DOMAIN goals' -> Statuses]
           /\ \A g \in DOMAIN goals : goals'[g] = goals[g] /\ status'[g] = status[g]
           /\ \A g \in DOMAIN goals' \ DOMAIN goals :
                  /\ g \in Nat /\ \A old \in DOMAIN goals : ~(g < old)
                  /\ \E k \in 1 .. n : goals'[g] = [title |-> titles[k], parent |-> p, by |-> by]
<1> DEFINE rowOf(k) == [title |-> titles[k], parent |-> p, by |-> by]
           more == [k \in 1 .. n |-> rowOf(k)]
<1>1. /\ goals \in Seq(Goal) /\ status \in [DOMAIN goals -> Statuses]
      /\ goals' = goals \o more
      /\ status' = [g \in DOMAIN goals' |-> IF g \in DOMAIN goals THEN status[g] ELSE "TO_DO"]
  BY DEF GoalsTypeOK, Goal, GoalsSaved
<1>2. \A k \in 1 .. n : rowOf(k) \in Goal
  BY DEF Goal
<1>3. more \in Seq(Goal) /\ Len(more) = n /\ \A k \in 1 .. n : more[k] = rowOf(k)
  BY <1>2
<1> HIDE DEF more, rowOf
<1>4. /\ goals' \in Seq(Goal) /\ Len(goals') = Len(goals) + n
      /\ Len(goals) \in Nat /\ DOMAIN goals = 1 .. Len(goals) /\ DOMAIN goals' = 1 .. Len(goals')
  <2>1. goals' \in Seq(Goal) /\ goals \in Seq(Goal)
    BY <1>1, <1>3
  <2>2. Len(goals \o more) = Len(goals) + Len(more)
    BY <1>3, <2>1, ConcatProperties
  <2>3. Len(goals) \in Nat /\ DOMAIN goals = 1 .. Len(goals)
    BY <2>1
  <2>4. DOMAIN goals' = 1 .. Len(goals')
    BY <2>1
  <2> QED BY <1>1, <1>3, <2>1, <2>2, <2>3, <2>4
<1>9. \A g \in 1 .. Len(goals) + n :
        (goals \o more)[g] = IF g <= Len(goals) THEN goals[g] ELSE more[g - Len(goals)]
  BY <1>1, <1>3, ConcatProperties
<1>5. \A g \in DOMAIN goals : g \in DOMAIN goals' /\ goals'[g] = goals[g]
  BY <1>1, <1>3, <1>4, <1>9
<1>6. \A g \in DOMAIN goals' \ DOMAIN goals : g - Len(goals) \in 1 .. n /\ goals'[g] = more[g - Len(goals)]
  BY <1>1, <1>3, <1>4, <1>9
<1>7. status' \in [DOMAIN goals' -> Statuses] /\ \A g \in DOMAIN goals : status'[g] = status[g]
  BY <1>1, <1>5 DEF Statuses
<1>8. ASSUME NEW g \in DOMAIN goals' \ DOMAIN goals
      PROVE  /\ g \in Nat /\ \A old \in DOMAIN goals : ~(g < old)
             /\ \E k \in 1 .. n : goals'[g] = rowOf(k)
  BY <1>3, <1>4, <1>6, <1>8
<1> QED BY <1>4, <1>5, <1>7, <1>8 DEF rowOf

\* What keeps the invariant: the rows that were there stay, none of them becomes
\* active again, and a new row is of no generation or compared with what was active.
LEMMA RowsKept ==
    ASSUME GoalsInv, DOMAIN goals \subseteq DOMAIN goals', blind \subseteq blind',
           \A g \in DOMAIN goals : goals'[g] = goals[g] /\ (status'[g] \notin Ended => status[g] \notin Ended),
           \A g \in DOMAIN goals' \ DOMAIN goals : \A old \in DOMAIN goals : ~(g < old),
           \A h \in DOMAIN goals' \ DOMAIN goals :
               \/ goals'[h].by = 0
               \/ /\ \A g \in DOMAIN goals' \ DOMAIN goals : goals'[g].by = goals'[h].by
                  /\ \/ goals'[h].by \in blind'
                     \/ \A g \in ActiveGoals : <<goals'[h].title, goals[g].title>> \notin Resembling
    PROVE  GoalsNotRepeated'
<1> SUFFICES ASSUME NEW g \in ActiveGoals', NEW h \in ActiveGoals', g < h, goals'[h].by # 0,
                    goals'[h].by # goals'[g].by,
                    <<goals'[h].title, goals'[g].title>> \in Resembling
             PROVE  goals'[h].by \in blind'
  BY DEF GoalsNotRepeated
<1>1. g \in DOMAIN goals' /\ status'[g] \notin Ended /\ h \in DOMAIN goals' /\ status'[h] \notin Ended
  BY DEF ActiveGoals
<1>2. CASE h \in DOMAIN goals
  <2>1. g \in DOMAIN goals
    BY <1>1, <1>2
  <2>2. g \in ActiveGoals /\ h \in ActiveGoals
    BY <1>1, <1>2, <2>1 DEF ActiveGoals
  <2> QED BY <1>2, <2>1, <2>2 DEF GoalsInv, GoalsNotRepeated
<1>3. CASE h \notin DOMAIN goals
  <2>1. g \in DOMAIN goals
    BY <1>1, <1>3
  <2>2. g \in ActiveGoals
    BY <1>1, <2>1 DEF ActiveGoals
  <2> QED BY <1>1, <1>3, <2>1, <2>2
<1> QED BY <1>2, <1>3

LEMMA RegisterInv ==
    ASSUME GoalsInv, Register
    PROVE  GoalsInv'
<1>1. PICK n \in 0 .. MaxGoals, active \in SUBSET ActiveGoals : \E titles \in [1 .. n -> Titles] :
        /\ \A k \in 1 .. n : ~IsDuplicate(titles[k], active)
        /\ GoalsSaved(titles, under, generation)
        /\ blind' = IF active = ActiveGoals THEN blind ELSE blind \union {generation}
  BY DEF Register
<1>2. PICK titles \in [1 .. n -> Titles] :
        /\ \A k \in 1 .. n : ~IsDuplicate(titles[k], active)
        /\ GoalsSaved(titles, under, generation)
        /\ blind' = IF active = ActiveGoals THEN blind ELSE blind \union {generation}
  BY <1>1
<1>3. /\ GoalsTypeOK /\ ByInv /\ batch # {} /\ batch' = {} /\ under' = 0
      /\ UNCHANGED <<rows, applied, generation, handed>>
      /\ n \in Nat /\ under \in Nat /\ generation \in 0 .. MaxGenerations /\ generation > 0
  BY GoalsAssumption DEF GoalsAssumption, Register, GoalsInv, GoalsTypeOK, ByInv
<1>4. /\ goals' \in Seq(Goal) /\ DOMAIN goals \subseteq DOMAIN goals'
      /\ status' \in [DOMAIN goals' -> Statuses]
      /\ \A g \in DOMAIN goals : goals'[g] = goals[g] /\ status'[g] = status[g]
      /\ \A g \in DOMAIN goals' \ DOMAIN goals :
             /\ \A old \in DOMAIN goals : ~(g < old)
             /\ \E k \in 1 .. n : goals'[g] = [title |-> titles[k], parent |-> under, by |-> generation]
  BY <1>2, <1>3, SavedRows
<1>5. GoalsTypeOK'
  <2>1. blind' \subseteq 1 .. MaxGenerations
    BY <1>2, <1>3, GoalsAssumption DEF GoalsAssumption, GoalsTypeOK
  <2> QED BY <1>3, <1>4, <2>1 DEF GoalsTypeOK, Goal
<1>6. ByInv'
  <2>1. \A g \in DOMAIN goals' : goals'[g].by <= generation
    BY <1>3, <1>4 DEF ByInv
  <2> QED BY <1>3, <2>1 DEF ByInv
<1>7. GoalsNotRepeated'
  <2>1. ASSUME NEW h \in DOMAIN goals' \ DOMAIN goals
        PROVE  \/ goals'[h].by \in blind'
               \/ \A g \in ActiveGoals : <<goals'[h].title, goals[g].title>> \notin Resembling
    <3>1. PICK k \in 1 .. n : goals'[h] = [title |-> titles[k], parent |-> under, by |-> generation]
      BY <1>4
    <3>2. CASE active = ActiveGoals
      <4>1. goals'[h].title = titles[k]
        BY <3>1
      <4>2. \A g \in ActiveGoals : <<titles[k], goals[g].title>> \notin Resembling
        BY <1>2, <3>2 DEF IsDuplicate
      <4> QED BY <4>1, <4>2
    <3>3. CASE active # ActiveGoals
      BY <1>2, <3>1, <3>3
    <3> QED BY <3>2, <3>3
  <2>2. \A g \in DOMAIN goals' \ DOMAIN goals : goals'[g].by = generation
    BY <1>4
  <2>3. blind \subseteq blind'
    BY <1>2
  <2> QED BY <1>4, <2>1, <2>2, <2>3, RowsKept
<1> QED BY <1>5, <1>6, <1>7 DEF GoalsInv

\* Rows of no generation are added.
LEMMA PlannedRows ==
    ASSUME GoalsInv, NEW n \in Nat, NEW titles \in [1 .. n -> Titles], NEW p \in Nat,
           GoalsSaved(titles, p, 0), UNCHANGED blind
    PROVE  /\ goals' \in Seq(Goal) /\ DOMAIN goals \subseteq DOMAIN goals'
           /\ status' \in [DOMAIN goals' -> Statuses]
           /\ \A g \in DOMAIN goals' :
                  goals'[g].by = 0 \/ (g \in DOMAIN goals /\ goals'[g].by = goals[g].by)
           /\ GoalsNotRepeated'
<1>1. /\ goals' \in Seq(Goal) /\ DOMAIN goals \subseteq DOMAIN goals'
      /\ status' \in [DOMAIN goals' -> Statuses]
      /\ \A g \in DOMAIN goals : goals'[g] = goals[g] /\ status'[g] = status[g]
      /\ \A g \in DOMAIN goals' \ DOMAIN goals :
             /\ \A old \in DOMAIN goals : ~(g < old)
             /\ \E k \in 1 .. n : goals'[g] = [title |-> titles[k], parent |-> p, by |-> 0]
  BY SavedRows, GoalsAssumption DEF GoalsAssumption, GoalsInv
<1>2. \A g \in DOMAIN goals' \ DOMAIN goals : goals'[g].by = 0
  BY <1>1
<1>3. GoalsNotRepeated'
  BY <1>1, <1>2, RowsKept
<1> QED BY <1>1, <1>2, <1>3

LEMMA ClaimInv ==
    ASSUME GoalsInv, Claim
    PROVE  GoalsInv'
<1>1. /\ GoalsTypeOK /\ ByInv /\ UNCHANGED <<rows, blind>>
      /\ generation \in Nat /\ generation' = generation + 1 /\ generation' \in 0 .. MaxGenerations
      /\ \A g \in DOMAIN goals : goals[g].by \in Nat /\ goals[g].by <= generation
  <2>1. /\ GoalsTypeOK /\ ByInv /\ UNCHANGED <<rows, blind>>
        /\ generation < MaxGenerations /\ generation' = generation + 1
    BY DEF Claim, GoalsInv
  <2>2. MaxGenerations \in Nat /\ generation \in 0 .. MaxGenerations /\ goals \in Seq(Goal)
    BY <2>1, GoalsAssumption DEF GoalsAssumption, GoalsTypeOK, Goal
  <2>3. \A g \in DOMAIN goals : goals[g] \in Goal
    BY <2>2
  <2>4. \A g \in DOMAIN goals : goals[g].by \in Nat
    BY <2>2, <2>3 DEF Goal
  <2> QED BY <2>1, <2>2, <2>4 DEF ByInv
<1>2. PICK some \in SUBSET (rows \ applied), p \in 1 .. Len(goals) + 1 :
        /\ \/ p \in DOMAIN goals /\ UNCHANGED <<goals, status>>
           \/ /\ p \notin DOMAIN goals /\ \A g \in ActiveGoals : goals[g].parent # 0
              /\ GoalsSaved(<<RootTitle>>, 0, 0)
        /\ batch' = some
        /\ under' = IF some = {} THEN 0 ELSE p
        /\ applied' = Closed(FALSE, applied, applied \union some)
        /\ handed' = [i \in Insights |-> handed[i] + IF i \in some THEN 1 ELSE 0]
  BY DEF Claim
<1>3. applied' \subseteq rows' /\ batch' \subseteq rows' /\ handed' \in [Insights -> Nat]
  <2>1. applied' = applied /\ rows' = rows /\ applied \subseteq rows /\ handed \in [Insights -> Nat]
    BY <1>1, <1>2 DEF Closed, GoalsTypeOK
  <2>2. \A i \in Insights : handed[i] + (IF i \in some THEN 1 ELSE 0) \in Nat
    BY <2>1
  <2> QED BY <1>2, <2>1, <2>2
<1>4. CASE p \in DOMAIN goals /\ UNCHANGED <<goals, status>>
  <2>1. GoalsTypeOK'
    BY <1>1, <1>2, <1>3, <1>4 DEF GoalsTypeOK
  <2>2. ByInv'
    BY <1>1, <1>4 DEF ByInv
  <2>3. GoalsNotRepeated'
    BY <1>1, <1>4 DEF GoalsInv, GoalsNotRepeated, ActiveGoals
  <2> QED BY <2>1, <2>2, <2>3 DEF GoalsInv
<1>5. CASE p \notin DOMAIN goals /\ GoalsSaved(<<RootTitle>>, 0, 0)
  <2>1. <<RootTitle>> \in [1 .. 1 -> Titles]
    BY GoalsAssumption DEF GoalsAssumption
  <2>2. /\ goals' \in Seq(Goal) /\ DOMAIN goals \subseteq DOMAIN goals'
        /\ status' \in [DOMAIN goals' -> Statuses]
        /\ \A g \in DOMAIN goals' :
               goals'[g].by = 0 \/ (g \in DOMAIN goals /\ goals'[g].by = goals[g].by)
        /\ GoalsNotRepeated'
    BY <1>1, <1>5, <2>1, PlannedRows
  <2>3. p \in DOMAIN goals'
    <3>1. goals \in Seq(Goal) /\ DOMAIN goals = 1 .. Len(goals) /\ Len(goals) \in Nat
      BY <1>1 DEF GoalsTypeOK, Goal
    <3>2. p = Len(goals) + 1
      BY <1>2, <1>5, <3>1
    <3> QED BY <1>5, <3>1, <3>2 DEF GoalsSaved
  <2>4. GoalsTypeOK'
    BY <1>1, <1>2, <1>3, <2>2, <2>3 DEF GoalsTypeOK, Goal
  <2>5. ByInv'
    BY <1>1, <2>2 DEF ByInv
  <2> QED BY <2>2, <2>4, <2>5 DEF GoalsInv
<1> QED BY <1>2, <1>4, <1>5

LEMMA PlanInv ==
    ASSUME GoalsInv, Plan
    PROVE  GoalsInv'
<1>1. PICK n \in 1 .. MaxGoals : \E titles \in [1 .. n -> Titles], p \in {0} \union DOMAIN goals :
        GoalsSaved(titles, p, 0)
  BY DEF Plan
<1>2. PICK titles \in [1 .. n -> Titles], p \in {0} \union DOMAIN goals : GoalsSaved(titles, p, 0)
  BY <1>1
<1>3. /\ GoalsTypeOK /\ ByInv /\ UNCHANGED <<rows, applied, generation, batch, under, blind, handed>>
      /\ n \in Nat /\ generation \in Nat
  BY GoalsAssumption DEF GoalsAssumption, Plan, GoalsInv, GoalsTypeOK
<1>4. p \in Nat
  BY <1>3 DEF GoalsTypeOK
<1>5. /\ goals' \in Seq(Goal) /\ DOMAIN goals \subseteq DOMAIN goals'
      /\ status' \in [DOMAIN goals' -> Statuses]
      /\ \A g \in DOMAIN goals' :
             goals'[g].by = 0 \/ (g \in DOMAIN goals /\ goals'[g].by = goals[g].by)
      /\ GoalsNotRepeated'
  BY <1>2, <1>3, <1>4, PlannedRows
<1>6. GoalsTypeOK'
  BY <1>3, <1>5 DEF GoalsTypeOK, Goal
<1>7. ByInv'
  BY <1>3, <1>5 DEF ByInv
<1> QED BY <1>5, <1>6, <1>7 DEF GoalsInv

\* Whatever the fates of the goals above it, no goal becomes active again.
LEMMA EndGoalInv ==
    ASSUME GoalsInv, NEW g \in DOMAIN goals, NEW s \in Ended, EndGoal(g, s)
    PROVE  GoalsInv'
<1> DEFINE fate == Fates(g, s)
<1>1. /\ status' = [p \in DOMAIN goals |-> IF fate[p] \in Ended THEN fate[p] ELSE status[p]]
      /\ UNCHANGED <<rows, applied, goals, generation, batch, under, blind, handed>>
  BY DEF EndGoal
<1> HIDE DEF fate
<1>2. GoalsTypeOK'
  BY <1>1 DEF GoalsInv, GoalsTypeOK, Statuses
<1>3. ByInv'
  BY <1>1 DEF GoalsInv, ByInv
<1>4. \A p \in DOMAIN goals : goals'[p] = goals[p] /\ (status'[p] \notin Ended => status[p] \notin Ended)
  BY <1>1
<1>5. GoalsNotRepeated'
  BY <1>1, <1>4, RowsKept
<1> QED BY <1>2, <1>3, <1>5 DEF GoalsInv

(***************************************************************************)
(* The invariant of the goals holds in every reachable state.              *)
(***************************************************************************)
THEOREM GoalsInvariant == GoalsSpec => []GoalsInv
<1>1. GoalsInit => GoalsInv
  BY GoalsAssumption DEF GoalsAssumption, GoalsInit, GoalsInv, GoalsTypeOK, ByInv, GoalsNotRepeated, ActiveGoals
<1>2. ASSUME GoalsInv, NEW i \in Insights, SaveInsight(i) PROVE GoalsInv'
  <2>1. GoalsTypeOK'
    BY <1>2 DEF SaveInsight, Closed, GoalsInv, GoalsTypeOK
  <2> QED BY <1>2, <2>1 DEF SaveInsight, GoalsInv, ByInv, GoalsNotRepeated, ActiveGoals
<1>3. GoalsInv /\ UNCHANGED goalsVars => GoalsInv'
  BY DEF goalsVars, GoalsInv, GoalsTypeOK, ByInv, GoalsNotRepeated, ActiveGoals
<1>4. GoalsInv /\ [GoalsNext]_goalsVars => GoalsInv'
  BY <1>2, <1>3, ClaimInv, RegisterInv, PlanInv, EndGoalInv DEF GoalsNext
<1> QED BY <1>1, <1>4, PTL DEF GoalsSpec

(***************************************************************************)
(* The types of the goals' variables.                                      *)
(***************************************************************************)
THEOREM GoalsTypeCorrect == GoalsSpec => []GoalsTypeOK
<1>1. GoalsInv => GoalsTypeOK
  BY DEF GoalsInv
<1> QED BY <1>1, GoalsInvariant, PTL

(***************************************************************************)
(* However often the same insights come, and whatever ends meanwhile, a    *)
(* generation that sees all active goals registers none of them again.     *)
(***************************************************************************)
THEOREM NoGoalRepeated == GoalsSpec => []GoalsNotRepeated
<1>1. GoalsInv => GoalsNotRepeated
  BY DEF GoalsInv
<1> QED BY <1>1, GoalsInvariant, PTL
=============================================================================
