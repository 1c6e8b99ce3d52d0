------------------------------ MODULE AgentLoop ------------------------------
(***************************************************************************)
(* The ReAct loop of AgentBrain.run (core/agent_brain.py) for the requests *)
(* of one session, and the checkpoint row of that session                  *)
(* (core/checkpoint_manager.py, infra/memory_database.py).  The GPU lock   *)
(* of the orchestrator lets one request run at a time; a request finds the *)
(* row the earlier ones left and may continue their task.                  *)
(*                                                                         *)
(* A task is what a chain of requests works on: a request that resumes     *)
(* nothing begins a task of its own.  The row is durable; a run may die    *)
(* anywhere (crash of the process, forced end).  Pause and resume of a run *)
(* are in RunLifecycle.                                                    *)
(***************************************************************************)
EXTENDS Naturals

CONSTANTS MaxRequests,    \* bound on the requests of the session
          AgentTurns,     \* the turns a fresh thinking request is given
          NoCheckpoint,   \* the session has no row
          WritesMayFail   \* writes of the row may fail, which is swallowed

ASSUME AgentLoopAssumption ==
    /\ MaxRequests \in Nat /\ AgentTurns \in Nat \ {0} /\ WritesMayFail \in BOOLEAN

AgentModes == {"fast", "lite", "thinking"}
Tasks == 1 .. MaxRequests
MaxRecoveries == 2

VARIABLES checkpoint,  \* the row of session_checkpoints, or NoCheckpoint
          work,        \* locals of run(), see Resting
          task,        \* the task the request works on
          requests,    \* requests made so far
          outcome,     \* history: how the last request ended
          stored,      \* history: <<task, turn>> whose tool call is in a row that was written
          done,        \* history: tasks that ended in an answer
          barred,      \* history: tasks stopped by a security violation
          unwritten,   \* history: tasks whose last row could not be written
          proven       \* history: tasks with a substantive observation

loopVars == <<checkpoint, work, task, requests, outcome, stored, done, barred, unwritten, proven>>

Resting == [phase |-> "rest", fast |-> FALSE, lite |-> FALSE, strict |-> FALSE, max |-> 0,
            turn |-> 0, good |-> FALSE, empties |-> 0, retries |-> 0, calls |-> 0,
            rejects |-> 0, recoveries |-> 0]

LoopInit ==
    /\ checkpoint = NoCheckpoint /\ work = Resting /\ task = 0 /\ requests = 0
    /\ outcome = [reason |-> "none", strict |-> FALSE, task |-> 0]
    /\ stored = {} /\ done = {} /\ barred = {} /\ unwritten = {} /\ proven = {}

Working == work.phase # "rest"
In(phase) == work.phase = phase
-----------------------------------------------------------------------------
\* load_checkpoint: an open row, unless a security violation paused it.
Resumable ==
    /\ checkpoint # NoCheckpoint
    /\ checkpoint.status \in {"RUNNING", "PAUSED"}
    /\ checkpoint.reason # "security_violation"

\* Mutant: it begins with the turn that was saved last.
TurnsTakenButOne == checkpoint.step - 1

\* Turns already taken, as the loop counts them: it begins with turn
\* current_step + 1.
TurnsTaken == checkpoint.step

\* A request of the session.  A row that cannot be read is as good as none.
Request(mode) ==
    /\ ~Working /\ requests < MaxRequests
    /\ requests' = requests + 1
    /\ \E resumed \in IF Resumable THEN {TRUE} \union {~WritesMayFail} ELSE {FALSE} :
          /\ task' = IF resumed THEN checkpoint.task ELSE requests + 1
          /\ work' = [Resting EXCEPT
                        !.phase = "begin", !.fast = (mode = "fast"), !.lite = (mode = "lite"),
                        !.strict = (mode = "thinking"),
                        !.turn = IF resumed THEN TurnsTaken ELSE 0,
                        !.good = resumed /\ checkpoint.good,
                        !.max = IF mode # "thinking" THEN 2
                                ELSE IF resumed THEN checkpoint.max ELSE AgentTurns]
    /\ UNCHANGED <<checkpoint, outcome, stored, done, barred, unwritten, proven>>

\* The run is over, and the row stays as it is.
Ends(reason) ==
    /\ work' = Resting
    /\ outcome' = [reason |-> reason, strict |-> work.strict, task |-> task]

\* Mutant: the row is left to the next save.
AnsweredOnly(reason) ==
    /\ Ends(reason)
    /\ done' = done \union {task}
    /\ UNCHANGED <<checkpoint, task, requests, stored, barred, unwritten, proven>>

\* The run is over, and clear_checkpoint marks the row COMPLETED.
Answered(reason) ==
    /\ Ends(reason)
    /\ done' = done \union {task}
    /\ \/ /\ checkpoint' = IF checkpoint = NoCheckpoint THEN NoCheckpoint
                           ELSE [checkpoint EXCEPT !.status = "COMPLETED"]
          /\ UNCHANGED unwritten
       \/ /\ WritesMayFail
          /\ unwritten' = unwritten \union {task}
          /\ UNCHANGED checkpoint
    /\ UNCHANGED <<task, requests, stored, barred, proven>>

GivesUp(reason) ==
    /\ Ends(reason)
    /\ UNCHANGED <<checkpoint, task, requests, stored, done, barred, unwritten, proven>>

Continues(w) ==
    /\ work' = w
    /\ UNCHANGED <<checkpoint, task, requests, outcome, stored, done, barred, unwritten, proven>>

\* What save_checkpoint writes.
Row(step, status, reason) ==
    [task |-> task, step |-> step, max |-> work.max, status |-> status, reason |-> reason,
     good |-> work.good]
-----------------------------------------------------------------------------
\* The VRAM is above 95 % before the run or before a turn.
SelfKill == (In("begin") \/ In("turn")) /\ GivesUp("vram_critical_self_kill")

\* One read-only tool answers; when it fails the loop is entered.
RoutingHit == In("begin") /\ GivesUp("routing_hit")

PlanOnly == In("begin") /\ Answered("plan_created_ack")

EnterLoop == In("begin") /\ Continues([work EXCEPT !.phase = "loop"])

\* abort_requested is looked at before every turn.
OperatorAbort == In("loop") /\ work.turn < work.max /\ GivesUp("operator_abort")

TurnBegins ==
    /\ In("loop") /\ work.turn < work.max
    /\ Continues([work EXCEPT !.phase = "turn", !.turn = @ + 1])

\* After the VRAM check the LLM is called.
Think == In("turn") /\ Continues([work EXCEPT !.phase = "think"])

\* The call raises: the error is reported and the exception goes on.
ThinkFails == In("think") /\ GivesUp("error")

\* Neither text nor tool calls: two retries, three in a row end the run, and
\* when the retries were used by another reply the empty text is the answer.
EmptyReply ==
    /\ In("think")
    /\ \/ work.empties = 2 /\ GivesUp("consecutive_empty_responses")
       \/ /\ work.empties < 2 /\ work.retries < 2
          /\ Continues([work EXCEPT !.phase = "loop", !.empties = @ + 1, !.retries = @ + 1])
       \/ work.empties < 2 /\ work.retries = 2 /\ Answered("no_tool_calls")

\* Text without a call answers the request, also where a tool is required.
PlainReply == In("think") /\ Answered("no_tool_calls")

\* Tool calls whose arguments cannot be read.  The retry counter was reset
\* because there are tool calls, so that it never reaches its limit here.
GarbledCall ==
    /\ In("think") /\ ~(work.lite /\ work.calls = 1)
    /\ Continues([work EXCEPT !.phase = "loop", !.empties = 0, !.retries = 1,
                              !.calls = IF work.lite THEN 1 ELSE 0])

\* A call was read: the fields that every such reply resets.  In lite mode
\* native calls are counted, and calls written in the text are not.
Parsed(phase, native) ==
    [work EXCEPT !.phase = phase, !.empties = 0, !.retries = 0,
                 !.calls = IF work.lite /\ native THEN 1 ELSE @]

\* Fast mode executes nothing: a heavy tool switches to thinking, once, within
\* the same two turns; a light one ends the run.
FastCall ==
    /\ In("think") /\ work.fast
    /\ \/ Continues([Parsed("loop", TRUE) EXCEPT !.fast = FALSE])
       \/ GivesUp("fast_toolcall_blocked")

\* Mutant: only the first finish is refused.
UnprovenOnce == work.strict /\ ~work.good /\ work.rejects = 0

\* finish: in a strict mode only after a tool with a substantive observation,
\* and the second refusal ends the run.
Unproven == work.strict /\ ~work.good

FinishAction ==
    /\ In("think")
    /\ \/ ~Unproven /\ Answered("finish_tool")
       \/ /\ Unproven /\ work.rejects = 0
          /\ Continues([Parsed("loop", TRUE) EXCEPT !.rejects = 1])
       \/ Unproven /\ work.rejects = 1 /\ GivesUp("observation_required_not_met")

\* The second native call of lite mode is turned into finish.
LiteCall == In("think") /\ work.lite /\ work.calls = 1 /\ Answered("finish_tool")

Allowed(native) == In("think") /\ ~work.fast /\ ~(native /\ work.lite /\ work.calls = 1)

\* Mutant: a refused call does not count as a turn.
RefusedCallFree ==
    \E native \in BOOLEAN :
        Allowed(native) /\ Continues([Parsed("loop", native) EXCEPT !.turn = @ - 1])

\* An unknown tool, or a path outside the workspace: the turn is used up.
RefusedCall ==
    \E native \in BOOLEAN : Allowed(native) /\ Continues(Parsed("loop", native))

\* The tool is executed.  Only an error may be followed by a recovery.
Execute ==
    /\ \E native \in BOOLEAN, seen \in {"good", "poor", "error"} :
          /\ Allowed(native)
          /\ work' = [Parsed(IF seen = "error" THEN "failed" ELSE "acted", native)
                        EXCEPT !.good = @ \/ seen = "good"]
          /\ proven' = IF seen = "good" THEN proven \union {task} ELSE proven
    /\ UNCHANGED <<checkpoint, task, requests, outcome, stored, done, barred, unwritten>>

\* A retry, or another tool, if the recovery manager suggests one.  What goes
\* wrong there, a security violation too, is swallowed.
Recover ==
    /\ In("failed") /\ work.recoveries < MaxRecoveries
    /\ \E mended \in BOOLEAN :
          /\ work' = [work EXCEPT !.phase = "acted", !.recoveries = @ + 1,
                                  !.good = @ \/ mended]
          /\ proven' = IF mended THEN proven \union {task} ELSE proven
    /\ UNCHANGED <<checkpoint, task, requests, outcome, stored, done, barred, unwritten>>

NoRecovery == In("failed") /\ Continues([work EXCEPT !.phase = "acted"])

\* The step is appended and save_checkpoint replaces the row.
SaveStep ==
    /\ In("acted")
    /\ \/ /\ checkpoint' = Row(work.turn, "RUNNING", "none")
          /\ stored' = stored \union {<<task, work.turn>>}
       \/ WritesMayFail /\ UNCHANGED <<checkpoint, stored>>
    /\ work' = [work EXCEPT !.phase = "loop"]
    /\ UNCHANGED <<task, requests, outcome, done, barred, unwritten, proven>>

\* SecurityBlocked or PermissionError: the row is PAUSED for a review.
SecurityStop ==
    /\ \E native \in BOOLEAN : Allowed(native)
    /\ Ends("security_violation")
    /\ barred' = barred \union {task}
    /\ \/ checkpoint' = Row(work.turn, "PAUSED", "security_violation") /\ UNCHANGED unwritten
       \/ WritesMayFail /\ unwritten' = unwritten \union {task} /\ UNCHANGED checkpoint
    /\ UNCHANGED <<task, requests, stored, done, proven>>

\* The turns are used up: a summary, and the row is PAUSED at the limit.
OutOfTurns ==
    /\ In("loop") /\ work.turn >= work.max
    /\ Ends("max_turns")
    /\ \/ checkpoint' = Row(work.max, "PAUSED", "max_turns")
       \/ WritesMayFail /\ UNCHANGED checkpoint
    /\ UNCHANGED <<task, requests, stored, done, barred, unwritten, proven>>

\* The process dies, or the run is cancelled: nothing is written.
AgentDies == Working /\ GivesUp("lost")

AgentStep ==
    \/ SelfKill \/ RoutingHit \/ PlanOnly \/ EnterLoop
    \/ OperatorAbort \/ TurnBegins \/ Think \/ ThinkFails
    \/ EmptyReply \/ PlainReply \/ GarbledCall \/ FastCall \/ FinishAction \/ LiteCall \/ RefusedCall
    \/ Execute \/ Recover \/ NoRecovery \/ SaveStep \/ SecurityStop \/ OutOfTurns

LoopNext == (\E mode \in AgentModes : Request(mode)) \/ AgentStep \/ AgentDies

\* The LLM answers or its client times out, and tools return.
LoopFairness == WF_loopVars(AgentStep)

LoopSpec == LoopInit /\ [][LoopNext]_loopVars /\ LoopFairness
-----------------------------------------------------------------------------
LoopTypeOK ==
    /\ checkpoint \in {NoCheckpoint} \union
         [task : Tasks, step : Nat, max : Nat, status : {"RUNNING", "PAUSED", "COMPLETED"},
          reason : {"none", "security_violation", "max_turns"}, good : BOOLEAN]
    /\ work \in [phase : {"rest", "begin", "loop", "turn", "think", "failed", "acted"},
                 fast : BOOLEAN, lite : BOOLEAN, strict : BOOLEAN, max : Nat, turn : Nat,
                 good : BOOLEAN, empties : 0 .. 2, retries : 0 .. 2, calls : 0 .. 1,
                 rejects : 0 .. 1, recoveries : 0 .. MaxRecoveries]
    /\ task \in Tasks \union {0} /\ requests \in 0 .. MaxRequests
    /\ stored \subseteq Tasks \X Nat
    /\ done \subseteq Tasks /\ barred \subseteq Tasks /\ proven \subseteq Tasks
    /\ unwritten \subseteq Tasks

\* The tool call of a turn that a written row holds is never made again: a
\* resumed loop goes on after it, whatever died or failed in between.
SavedTurnNotRepeated == In("think") => <<task, work.turn>> \notin stored

\* A task that ended in an answer, or was stopped by a security violation (it
\* waits for a manual review), is not taken up by a later request of the
\* session, unless the write that closes or pauses its row failed.
ClosedNotReopened == Working => task \notin (done \union barred) \ unwritten

\* A finish that is accepted in a strict mode follows a tool call of this task
\* with a substantive observation, possibly one of an earlier request.
FinishIsProven ==
    outcome.reason = "finish_tool" /\ outcome.strict => outcome.task \in proven

\* Every request ends.
RequestEnds == Working ~> ~Working
=============================================================================
