# Mellow-Link: a TLA+ model

Mellow-Link is a local AI assistant: a FastAPI server (`src/mellow_link/`) in
front of Ollama (language models) and ComfyUI (images), which compete for the
VRAM of one GPU.  Around this core there are an agent with tools of its own
making, a scheduler, an evolution manager, a relay to an avatar, a video studio
(`src/api_server.py`) and an older application (`src/core/`).  The server is
asyncio, with threads added where the authors did not want to block: most of
what can go wrong happens between two awaits, or between two threads.

## 1. Inventory

### The GPU: the orchestrator's state machine (`core/orchestrator.py` 417-632)
*State*: `current_state` (IDLE, TEXT, IMAGE, ERROR), `_last_transition_time`;
outside it, the models that are in VRAM.  *Operations*:
`request_state_change`, `force_state_change`.  *Hard*: the method checks the
transition table and the cooldown, then awaits the unloading of the model of
the state being left, then assigns the state without a second look; any number
of tasks call it.  *Correct when*: the GPU has one owner, the cooldown is kept,
a request for IDLE reaches IDLE.

### The task queue and the main loop (`core/orchestrator.py` 185-414, 545-1077)
*State*: `_task_queue`, `_active_tasks`, `_task_results`, `_is_running`,
`_shutdown_event`, `_gpu_lock`.  *Operations*: `submit_task`, `cancel_task`,
`get_task_status`, `run`, `_process_task`, `shutdown`, `run_agent`.  *Hard*: a
failure at any step has to release the lock, forget the task and return to
IDLE, while the VRAM watchdog forces IDLE as well.  *Correct when*: the loop is
in IDLE between tasks, the dictionary and the queue agree, the lock is held
only during an execution, every task is answered.  In this version nothing but
the tests and `examples/` calls `submit_task` and `run`; the server uses
`run_agent`.

### The clients of the GPU (`routers/chat.py`, `routers/media_generation.py`, `media/tools.py`, `main.py` 125-146)
*State*: `SESSION_BUSY`, the queue of the gpu lock.  *Operations*: a chat
(admission, TEXT request, agent under the lock, finally), an image request, the
agent's `create_image`, the watchdog's callback.  *Hard*: streams are cancelled
wherever they wait; every chat requests TEXT and IDLE on its own, and ignores
the answers.  *Correct when*: a session is busy exactly while a chat of it is
under way; the lock goes to one chat at a time and is never left behind; every
chat ends; one model is in VRAM.

### The scheduler (`core/scheduler_service.py`, `infra/memory_database.py` 60-100, 2040-2140)
*State*: the table `scheduled_tasks` (durable), the loop and its snapshot of due
tasks.  *Operations*: `add_task`, `disable_task`, `enable_task`, `start`,
`stop`, the poll, the execution with its five ways to end.  *Hard*: the
snapshot is older than the row; the loop is cancelled inside an execution.
*Correct when*: a security violation disables for good, failures in a row
disable, RUNNING means being executed, due tasks are executed.

### Agent runs (`routers/runs.py`, `infra/run_events.py`, `core/agent_brain.py`)
*State*: the row in `agent_runs`, its events, `RUN_CONTROL_STATE`, the
execution on an event loop of its own in a thread of its own.  *Operations*:
create, start, pause, abort, retry, force_finish, mode.  *Hard*: the status is
written by handlers and by the agent from different threads, and the gpu lock
is an `asyncio.Lock` shared by several event loops.  *Correct when*: a run that
executes can be paused and aborted, abort ends it, the lock is not leaked.

### The agent's loop and its checkpoints (`core/agent_brain.py`, `core/checkpoint_manager.py`, `core/recovery_manager.py`)
*State*: the locals of `AgentBrain.run` (turn, mode, counters of empty replies,
retries, refusals, recoveries), the row of `session_checkpoints` (durable).
*Operations*: a request in one of three modes; think, parse, execute, recover,
finish; save, pause, load and clear the row.  *Hard*: thirteen ways out of the
loop, of which some clear the row, some pause it and some leave it; the next
request of the session continues what it finds.  *Correct when*: a saved turn
is not repeated, an answered or barred task is not reopened, a strict finish
rests on a tool's result, the loop ends.

### The view of a run (`routers/runs.py` 850-960)
*State*: the run's events (durable), the reader's cursor.  *Operations*: replay
from `last_event_id`, poll every second, heartbeat, close.  *Hard*: events are
written between the query of the events and the query of the status.  *Correct
when*: no event is skipped or reordered, the stream does not close before the
end was told.

### ToolForge and approvals (`core/tool_forge.py`, `core/dynamic_registry.py`, `infra/run_approval.py`)
*State*: the stages of a proposal, rows and files (durable), the registry,
`RUN_APPROVAL_STATE`.  *Operations*: validate, audit, ask the operator, approve
or reject, promote, reload, restart.  *Hard*: the audit is scheduled on the
loop whose thread waits for it; the answer is read after the waiter was woken;
files and rows are loaded by different rules.  *Correct when*: only audited code
is run, what is reported as registered is available, the waiter reads the
answer that was accepted, every proposal ends.

### Evolution manager (`core/evolution_manager.py`, `evolution_trigger.py`, `routers/evolution.py`)
*State*: cycles under way, the ledger of proposals (JSON files), the project's
files, the history of the day, the cooldown's file.  *Operations*: cycle with
retries, refine, proceed from a plan, reject, apply, the scheduler's tick.
*Hard*: every await of a provider lets another call in; the ledger is
overwritten as a whole; the limit is read before and written after.  *Correct
when*: only what the audit approved reaches a file, a rejection is kept, the
limit of the day holds.

### Guardian (`core/guardian_service.py`)
*State*: usage of the day, the circuit of each provider.  *Operations*: audits
by the main provider or by risk, the stand-in, a 429, a new day.  *Hard*: the
quota is read before the call and charged after it.  *Correct when*: a quota is
overshot by no more than what is under way, and suspended providers are not
asked.

### Music video studio, image and video service (`src/api_server.py`, `media/services/`)
*State*: the session (timeline, plan, scene), `_GEN_LOCK`, the prompt of each
service, messages on its websocket.  *Operations*: realign, plan, generate an
image or a video, connect.  *Hard*: values read before the lock is waited for;
messages of an earlier prompt; lost messages.  *Correct when*: the plan fits the
timeline, a success is not lost to another's messages, every request for an image
or a video is answered.

### Autonomous agent (`core/autonomous_agent.py`, `routers/autonomous.py`, `routers/telegram.py`)
*State*: the records of the work (durable, table `autonomous_work_results`), the
script's file, the calls under way.  *Operations*: a tick (plan, review, save,
execute), the execution of work that waits (code, checks, audit, run, one
retry), approve, reject, reject all.  *Hard*: the record is read before two
awaits and executed after them; several calls may execute it; scripts share a
file; the run of a script blocks the event loop.  *Correct when*: what is run
for a record is the code that was checked for it, work is started once, a
rejection holds, every call ends.

### Goals (`core/goal_manager.py`, the insights and goals of `infra/memory_database.py`)
*State*: the tables of insights and goals (durable; goals form trees).
*Operations*: save an insight, claim the unprocessed ones, register the goals
that are made of them, plan trees and subgoals, end a goal and with it those
above it.
*Hard*: what is compared with what: a generation reads the active goals after
the Tower answers, a limited number of them, and none when the query fails.
*Correct when*: an insight is processed once; a goal that a generation sees
active is not made again.

### VTuber relay (`services/vtuber_relay.py`)
*State*: the queue, the socket and its status, the subtitle's timer.
*Operations*: start, stop, dial, ping, send a text sentence by sentence, or drop
it when `ENABLE_EDGE_TTS` is off (the default) or it is blank.
*Hard*: three tasks share the socket.  *Correct when*: with speech allowed, every
accepted text that has something to send is waiting, in hand, sent once or known
to be cut; without, nothing is sent.

### The first application's FSM (`src/core/fsm_manager.py`)
*State*: the pipeline's state, the running flag, the user's input.
*Operations*: run, the loop, input, pause, reset.  *Hard*: an input may come
before, between or after the waits of the checkpoints.  *Correct when*: a
checkpoint is passed only by a confirmation given there.  Nothing in the
repository calls `run()`.

### Not modelled
See section 6.

## 2. Modules

| Module | What it is | Proofs |
|---|---|---|
| `GpuModes` | abstract: what `core/states.py` and the docstrings promise about the GPU | |
| `FairLock` | abstract: what the program relies on where it says `async with` to an `asyncio.Lock` of one event loop | |
| `Orchestrator` | `request_state_change` between its suspension points | `OrchestratorProofs` |
| `TaskLoop` | EXTENDS `Orchestrator` with the queue, the main loop, shutdown and the kill switch as callers | `TaskLoopProofs` |
| `GpuClients` | EXTENDS `Orchestrator` with chats, image requests, `create_image` and the kill switch as callers | `GpuClientsProofs` |
| `Scheduler` | the scheduler's loop over its table | `SchedulerProofs` |
| `RunLifecycle` | runs: handlers, row, control entry, execution, lock over event loops | `RunLifecycleProofs` |
| `AgentLoop` | the ReAct loop over the requests of a session and the session's checkpoint | `PartsProofs` |
| `EventStream` | one reader of a run's events | `PartsProofs` |
| `ToolForge` | proposals of tools, audits, approvals, the registry | `ToolForgeProofs` |
| `Evolution` | cycles, plans, the ledger, application, limits, the tick | `EvolutionProofs` |
| `Guardian` | quotas and circuits of the audit's providers | `PartsProofs` |
| `Autonomous` | ticks and approvals over their records and the shared script | `SchedulerProofs` |
| `Goals` | insights, claims and goals | `SchedulerProofs` |
| `Studio` | the studio's handlers with the image and the video service | `PartsProofs` |
| `Relay` | the avatar's three tasks | `PartsProofs` |
| `PipelineFsm` | the states of a music video | `PartsProofs` |
| `MCOrchestrator`, `MCTaskLoop`, `MCGpuClients`, `MCScheduler`, `MCRunLifecycle`, `MCGoals` | the values of the constants for TLC | |
| `MCParts`, `MCBackground`, `MCEvolution`, `MCAgentRuns` | several components in one run, see section 3 | |

One action is the code between two points where another actor can run.  On an
event loop these are the awaits that really suspend; between threads, every
statement that reads or writes shared state.

**Orchestrator.**  `Outcome` is what lines 441-457 decide; `SwitchAtOnce` is the
way without an unload, `BeginUnload` the code up to the await of
`unload_model`, `UnloadEffect` what the service does with the VRAM,
`FinishCall` the code after the await (the assignment, the timestamp).  A
suspended call is a record with what its frame remembers.  The clock is
`cooling`: less than `DEFAULT_COOLDOWN_SECONDS` since the last transition.
Listeners, metrics and logging are left out: they return nothing the method
looks at.  The constant `Serialised` restricts the *callers*, for the
refinement only: the runs about callers that exist set it to FALSE.

**TaskLoop.**  `loop.pc` names the suspension point of `_main_loop` /
`_process_task`; the finally block is the operator `Finally`, joined to every
step that leads into it.  `shutdown` has two calls in flight, `main.py`'s and
the one from `run`'s finally.  `Rank` is the order of (priority, timestamp); a
tie of both would raise a TypeError in `PriorityQueue` and is excluded by an
assumption.  `AgentLocks` / `AgentUnlocks` stand for `run_agent`.

**GpuClients.**  `pc` is where a request is.  `Disconnect` is what happens to a
stream whose client goes away: cancelled where it waits, and at every await of
its finally blocks again.  A `StreamingResponse` whose generator is never
started is not modelled (see the hazards).  `PaintLoads` is external: ComfyUI
loads a checkpoint when a workflow names it.

**Scheduler.**  `AfterRun` and the operators above it are what the branches of
`_execute_task` write.  `seen` is `consecutive_failures` in the snapshot, which
is what the code counts up from.  `violated`, `streak` and `orphaned` are
history variables: the program does not have them, the properties need them.
A crash is `Stop` at any point, the table survives.  Cron expressions are
abstracted to `BecomesDue` and to the set `Periodic` of tasks whose expression
parses.

**RunLifecycle.**  `lock` is `asyncio.Lock` as CPython 3.10 implements it:
`acquire` tests and sets in two statements (`taking`), binds itself to the loop
of the first acquire that waits, and wakes waiters with `call_soon`.
`force_finish` is two steps because the run's thread may write the status in
between; other handlers are one step, since they contain no await and the event
loop of the server runs them one at a time.  Database writes are assumed to
succeed.  The agent's turns are `AgentLoop`'s; approvals are `ToolForge`'s.

**AgentLoop.**  `work` holds the locals of `AgentBrain.run`; `work.phase` is the
place between two awaits.  `Continues` goes on, `GivesUp` and `Answered` leave,
with what each exit does to the row (clear, pause or nothing).  A *task* is a
chain of requests that continue each other.  What the model answers is a
choice; tools answer with substance, without it, with an error, or break the
rules.  A write of the row may fail (`WritesMayFail`): the code only logs it.
Branches that cannot be reached are left out: `parse_fallback`, since the
earlier test for an empty text answers first.

**EventStream.**  An event is its kind, its id is its place.  The replay and the
poll query separately; a poll's batch is sent event by event, with the query of
the status afterwards (`EndSeen`, `LastSent`).

**ToolForge.**  `stage` is how far `validate_and_register` is.  An audit on a
running loop (`OnLoop`) times out, since its own thread waits for it, and comes
back later into `late`.  `Ask`, `WakeUp` and `ReadAnswer` are the three sections
of `set_pending_and_wait`, `Resolve` is either endpoint.  `DropTools` and
`LoadTools` are two steps: another thread may find an empty registry.

**Evolution.**  `cycle` and `handler` name the provider a call waits for.  A
verdict's code is named for the call that asked for it.  The ledger's entries
are overwritten as the code does (`Entry`); what a rejection and an application
write is lost when `proceed_from_plan` writes its own copy.  `excused` says that
the count of the day was overtaken, which is what `WithinDailyLimit` allows.

**Guardian.**  A slot is an audit under way; it remembers who was asked.  The
quota is in units, a charge is 0 to `MaxCharge` of them.

**Studio.**  One session with one scene.  `jobs` is where each request waits;
`wire` holds the messages that the listener has not read.  ComfyUI is external:
it accepts prompts, starts one at a time, and answers the client in order.
`aside` is a generation by a service of its own (`get_media_ai`), which the code
uses under the lock when the shared one cannot be used.

**Autonomous.**  A call is a tick or an operator's approval; `subject` is the
record that it executes, `place` the await at which it is.  `script` is the file
that the scripts share, by the call that wrote it; `executed` remembers which
call's code was run for which record.  `subprocess.run` blocks the event loop:
while a script runs (`Blocked`) no other action is possible but the process's
death.  `overlapped` (two calls between their look at the record and the run)
and `rejected` (rejections while there was no such call) are history variables.
Listings of the workspace, which need no script, end at once.

**Goals.**  An insight is a row and a mark.  `Closed` is what a connection leaves
behind: its writes if they were committed, what was there before otherwise.
Which titles resemble each other is the constant `Resembling`; the code compares
for equal titles, or one contained in the other.  A goal remembers which
generation made it.  Goals end: `EndGoal` is `update_goal_status` as the agent and
the scheduler call it, and `Fates` what `_check_and_update_parent` makes of the
goals above, as a recursive function of the tree instead of a climb (the two were
compared on every tree of four goals and every status).  `Plan` stands for
`create_goal_tree` and `generate_subgoals_from_insights`, which compare nothing.
`blind` is a history variable: the generations that did not see all active goals,
because there were more than they read or because the query failed
(`get_active_goals` returns an empty list then).  The writes of an end and its
climb are one step and succeed; a goal that is registered may fail to be saved.

**Relay.**  `socket` is the number of the connection, so that a ping, a dial and
a sentence that began on an old one can be told from the new.  `spoken` is a
history variable: the numbers of the sentences that the avatar received of each
text.  `edgeTts` is `allow_edge_tts()`.  `_send_to_vtuber` begins with three
returns: nothing is sent when speech is not allowed (it returns True), when the
text is blank and when nothing is left of it after splitting (it returns False).
`_send_loop` looks at neither answer, so such a text is taken and gone
(`Sayable`, `Take`); of the others at most ten sentences are sent (`Cards`).
`SpeechAccountedFor` says which texts must not go missing, and these are not
among them.

**PipelineFsm.**  `Pipeline` is the table of transitions.  `Moves` is one step
of the loop, `given` tells whether an input was given since the state was
entered.

## 3. Runs

| Run | Module | Expected | What it shows |
|---|---|---|---|
| `orch_serial` | `MCParts` | pass | GPU requests that do not overlap, unloads that work: every step of the code is a step of `GpuModes` (`Contract`); beside it the agent's loop, the relay, the guardian, the first application's FSM and the music video studio |
| `background` | `MCBackground` | pass | overlapping GPU requests, failing unloads: a request for IDLE that has begun reaches IDLE; beside it the scheduler (violations stay disabled, failures disable, RUNNING means being executed, due tasks run) and the autonomous agent (a record's own code is run, once, not after a rejection; calls end) |
| `loop_tasks` | `MCEvolution` | pass | IDLE between tasks, no task forgotten, an answer for every task; beside it the evolution manager, and the goals (none that a generation sees active is made again) |
| `clients_chats` | `MCGpuClients` | pass | session lock and gpu lock exact, every chat ends |
| `clients_stuck` | `MCGpuClients` | violation | a chat shorter than the cooldown leaves the FSM in TEXT |
| `clients_vram` | `MCGpuClients` | violation | a chat and an image request load both models |
| `sched_disable` | `MCScheduler` | violation | a task disabled while it runs comes back |
| `sched_orphan` | `MCScheduler` | violation | a task cut off by `stop()` stays RUNNING |
| `goals_claim` | `MCGoals` | violation | a claim of insights is never committed: the next generation claims them again |
| `runs_control` | `MCAgentRuns` | pass | a run can be paused and aborted, abort ends it, the lock is not leaked; beside it proposals of tools with audits, approvals and reloads, and the stream of a run's events |
| `runs_silent` | `MCRunLifecycle` | violation | most ways to end a run leave it `running` |
| `runs_lock` | `MCRunLifecycle` | violation | a waiter on another thread's loop is not woken |

Four runs check several components.  These share no state, so their product
would only multiply states: `Init` chooses a `part`, the others stay in their
initial states, and each part's fairness is stated for the behaviours in which
it is the part.  The state spaces are therefore added, not multiplied, and every
property speaks of its own component.

Each property of a passing run has a mutant: a definition changed the way a
plausible bug would change it (a dropped `finally`, a check before the lock, a
missing return), with which TLC finds that property violated.  The mutants stand
in the modules, marked as such, before the definitions they change.

### Bounds, and why they are enough
* Three callers of the FSM (`orch_serial`, `background`): what goes wrong needs one call suspended
  and one that comes in between, or two suspended and a third.  The proofs are
  for any number.
* `loop_tasks`: two tasks, each of any kind, a queue of length 1: the loop works
  on one task while another waits and the queue refuses; a task follows one of
  the same kind, of the other GPU kind and of none.  Each id is submitted once.
* `clients_chats`: two chats with the same session or different ones, an image
  request, the watchdog.  Each is served once; a session's next request is the
  other chat.
* Scheduler (`background`, `sched_*`): an agent task, one that awaits, one that does not, one of them
  without a schedule; the limit of failures is 2 instead of 5, which still has a
  value below the limit and a reset in between; `MaxFailures` stops
  `enable_task` from counting failures up for ever and is above the limit.
* `runs_*`: two runs, so that one may be the retry of the other, each on its own
  loop or on the main one; the lock has a holder and a waiter.
* `AgentLoop`: two requests of one session (one continues what the other left),
  three turns instead of 20 or more (`AgentTurns`), counters with the code's own
  limits where these are small, writes of the row that may fail.
* `EventStream`: five events and three polls: events before the replay, between
  the two queries, within a batch and after the end.
* `Relay`: three speeches (of two sentences, of three where two are sent, and a
  blank one), speech allowed or not, two dials, two starts: a speech can be cut
  between its sentences while the other waits, over a reconnect and a restart.
* `Autonomous`: two ticks and one approval: two calls execute one record, two
  records share the script, a tick or an approval is retried while the operator
  rejects, all of it over restarts.
* `Goals`: one insight, two titles of which one is the root goal's, two generations
  of one goal each (`MaxGoals`), a limit of two active goals that are read
  (`ActiveLimit`, 100 in the code), which the goals that are planned and generated
  exceed; trees are planned while there are fewer than two goals (`MaxPlanned`),
  and goals are ended while fewer than two have ended (`MaxEnded`): one that was
  seen, or was beyond the limit, ends before or between two generations.
* `Guardian`: two audits under way, a quota of 2 and charges up to 2
  (`MaxCharge`): a charge can pass the quota by itself and together with
  another; `UsageCap` is above what any behaviour reaches.
* `PipelineFsm`: two runs of the loop, the inputs that confirm each checkpoint
  and one that goes back.
* `Studio`: two requests, two prompts, a timeline changed at most twice: one
  request waits for the lock, or for messages, while the other changes what it
  has read.
* `Evolution`: three cycles (one automatic with one retry, one with an empty
  request, one tick), one refining or proceeding call, one target file, one
  cycle a day: the limit can be reached by one cycle while another is under way.
* `ToolForge`: four proposals of one name (on a running loop, from a script, from
  a worker and from a batch whose file does not load), two rows of the table
  (`RowLimit`), restarts.

### Fairness
Weak fairness of the steps of a coroutine that can go on: the event loop is FIFO.
HTTP calls to Ollama and ComfyUI have timeouts, hence the ends of unloads and
executions are fair, and so is each step of a generation in the studio (`Works`):
its HTTP calls, its waits for messages and ffmpeg have timeouts.  The end of a
transcription (`Realigned`) is not fair: `_run_transcribe_worker` awaits a process
without a timeout, and `RequestAnswered` speaks of generations only, beside
transcriptions that may hang.  Strong fairness of
`LockGranted` in `TaskLoop`: `asyncio.Lock` serves its waiters in turn although
the lock is taken by others meanwhile.  Strong fairness of `AgentEnds`: an
agent's turns are bounded (`max_turns`), it does not call tools for ever.  In
`RunLifecycle` a waiter is fair only on the main loop: nothing wakes the loop of
another thread.  `AgentStep` of `AgentLoop` and `Propose` of `ToolForge` are
weakly fair: every await in them has a timeout, and threads are scheduled; so is
`CallStep` of `Autonomous`: the providers' calls end or fail, the pause before
the retry is five seconds, a script has a minute.  No fairness for operators, clients, submissions, the watchdog, time or crashes, and
none at all where only safety is claimed: event stream, relay, guardian,
evolution, goals, the first application's FSM.
Deadlock is not checked where the system may stop: all requests served, all
runs ended, the orchestrator shut down.

### Type invariants
The type invariants are proved, all of them (section 4), also `PartsTypeOK`, the
conjunction of those of the parts of `orch_serial`.

### Refinements
`Orchestrator` implements `GpuModes` for callers that do not overlap (run
`orch_serial` and proof), `TaskLoop` is such a caller until a shutdown (proof),
and the users of the two `asyncio.Lock`s of one event loop, `GpuClients` and
`Studio`, implement `FairLock` (proof: `GpuLockIsFair`, `GenLockIsFair`).

## 4. Proofs

`OrchestratorProofs`, for any set of callers:

* `FsmTypeCorrect`: `FsmSpec => []FsmTypeOK`.  `FsmTypeOK` is inductive as it is.
  It contains that a suspended call has left TEXT or IMAGE and nothing else.
* `SerialRefinement`: under `Serialised` and `~UnloadMayFail`, the state machine
  implements `GpuModes` (`Contract`).  The inductive invariant is `SerialInv`:
  at most one call is in flight; what it read before the await (the state it
  leaves, the cooldown) still holds; once the unload is done nothing is in VRAM;
  and no state keeps a model it does not own.  Without the second part the
  final assignment would be no step of `GpuModes`, without the last one
  `SwitchAtOnce` could enter IDLE with a model resident.  Each step of the code
  is then a `Switch`, `Load`, `Evict`, `Cool` or a stutter: the unload maps to
  `Evict`, the assignment to `Switch`.
* `SerialOneOwner`: under the same assumptions `OneOwner` always holds.

Both assumptions are necessary.  With overlapping calls the cooldown and the
ownership break, which is what `clients_vram` finds for callers that exist.
`SerialStep` and `ContractStep` are stated for `SerialNext`, a step of the FSM
by a caller that finds no other call in flight, so that they serve callers that
are orderly without being told to (`TaskLoop`, below).
The assumptions of the constants (`OrchestratorAssumption`) are about model
values and Booleans only.

`TaskLoopProofs`, for any tasks and queue size, with the kill switch, both
shutdowns and unloads that fail:

* `TaskLoopTypeCorrect`, `LoopIsIdleBetweenTasks`, `ActiveIsQueued` and
  `LockIsForExecution`: the two invariants that `loop_tasks` checks of the queue
  and the loop, and that the loop holds the lock exactly while it executes.  The invariant `IndInv`
  adds four facts to them.  `TowardsIdle`: every suspended request is one for
  IDLE, so that an unload that returns late cannot take the FSM out of IDLE
  under the loop's next task; this is why the blind assignment after the await,
  which breaks the FSM for chats, does no harm here.  `ForcingInv`: a task is
  begun in IDLE, and while its end waits for forced IDLE the task is no longer
  registered.  `KnownInv`: what is queued, registered or under way has been
  submitted, and only a GPU task waits for the lock.  `EndInv`: the loop's own
  `shutdown` begins after the loop has ended.
* `NoTaskVanishes`: a submitted task is registered, or it has a result, an error
  or was cancelled.  It is what `TaskAnswered` needs besides fairness, and holds
  because whatever takes a task off the register has answered it before.
* `LoopFollowsFsm` and `LoopKeepsContract`: the refinements compose.  Until a
  shutdown drains the queue, every behaviour of `TaskLoop` without the kill
  switch is one of `FsmSpec`, and with unloads that work one of `GpuModes`, with
  `Serialised` no longer assumed of the callers but proved of this one.
  `LoopOnly` carries it: the watchdog has no call in flight, and while a task
  waits for the lock or is executed the FSM is in the task's state; with `IndInv`
  the loop's next request then finds no other (`SerialInv`).  The hypotheses are
  the ones that TLC needs, too: with the kill switch the contract is broken by
  the watchdog's forced IDLE under a task, with a failing unload by IDLE with a
  model in VRAM, and a shutdown that drains the queue calls the FSM while the
  loop's last call may be suspended.

`GpuClientsProofs`, for any chats, images and sessions:

* `SessionLockIsExact`: `SessionExact` is inductive with the types of its
  variables and the fact that a chat under way has a session.  The FSM, the VRAM
  and the gpu lock do not occur in the invariant: the session lock is right
  although they are not.
* `ClientsTypeCorrect` and `GpuLockIsExact`: the gpu lock's queue holds the
  clients that hold the lock or wait for it, each once, and the holder is its
  head.  `Disconnect` takes a chat out of the middle of the queue; it is defined by
  the place at which the chat waits, which the invariant makes unique, so that no
  induction over the sequence is needed.
* `GpuLockRefinesFairLock`: the lock implements `FairLock`.  Its holder is found
  from where the chats are; that granting it (`LockGranted`) is a `Grant`, the end
  of an agent a `Release`, and a disconnect a `Release` or a `GiveUp` by the place
  of the chat, rests on `GpuLockIsExact`.
* `NoOrphanedCall`: a request to the FSM is suspended exactly while its client
  waits for it.  A client that fails, goes on or goes away leaves none behind that
  would change the state under somebody else; what breaks `OneModel` in
  `clients_vram` is the calls of clients that are there.

`SchedulerProofs`, for any tasks, failure limit and interruptions:

* `SchedulerTypeCorrect`, `ViolationIsFinal`, `FailureLimitHolds` and
  `RunningIsExecuting`: the type invariant and the three safety properties of
  the scheduler.  The invariant `SafetyInv` adds three facts to them.
  `SnapshotInv`: a task that the loop has yet to come to has not been found in
  violation, its counter in the snapshot is still the row's, and its failures
  in a row are below the limit.  `StreakInv`: the row of a periodic task counts
  every failure since its last success, also over `disable_task` and
  `enable_task`; without these two the limit could be missed by counting up
  from an old value.  `NoneInv`: a task that has not been added has no past.
* `DisabledStaysOutside`: where `disable_task` does hold.  `sched_disable` shows a
  disabled task come back; this theorem says that the snapshot is the only way:
  a disabled task that the loop has not selected is made to run again by
  `enable_task` and by nothing else.

* `AutonomousTypeCorrect`, `RunsOwnCode`, `WorkStartsOnce` and
  `RejectionIsRespected`, for any ticks and approvals, with restarts.  `BlockInv`:
  one script is launched or runs at a time, and a launched one is what the file
  holds; this is why the shared file does no harm.  `SubjectInv` and
  `UnreviewedInv`: nobody takes up a record before its review.  `OnceInv` and
  `RejectedInv`: unless two calls overlapped, work that was started or rejected
  is not waiting, and no call that has seen it waiting is left.
* `EveryCallRunsOut`: each step of a call lowers `Left`, the number of steps that
  it may still take (ten at first), and no step of another call, of an operator
  or of a restart raises it: the retry cannot be retried.  `CallEnds` needs
  besides this only that every await ends.
* `GoalsTypeCorrect` and `NoGoalRepeated`, for any insights, titles, resemblance
  and limits, any trees, and any ends: `RowsKept` is the argument.  Rows are only
  added behind the others, and no goal becomes active again, whatever its fate
  (`EndGoalInv`); so a pair that violates the property holds the row that was just
  added, and that row was compared with the other one unless its generation was
  blind.  `ByInv` tells the goals of the generation at work from earlier ones.

`RunLifecycleProofs`, for any number of runs, with crashes:

* `RunsTypeCorrect`, `ExecutingIsPausable` and `LockHasHolder`: the invariants
  of `runs_control`.  `Pausable` is about the control entry and is not
  inductive, because a handler may make a missing entry from the *row*, or
  repair it from there (`ControlEntry`).  `RunOK` therefore ties the two
  together: from `/start` to the agent's last statement a run that nobody has
  force-finished is `running` in its row and in its entry, and a run that was
  never started has no execution.  `force_finish` is the exception the history
  variable `closed` remembers.  `LockNotLeaked` needs that two threads that took
  a free lock together both have it: the first to release unlocks it, the second
  fails in `release` and keeps nothing.
* `WaitersShareALoop`: all runs that wait for the lock are on one event loop
  (`WaitersInv`: the one it is bound to).  A started run, which has a loop of its
  own, therefore never waits beside another run; it is refused.
* `AbortIsNotLost`: the safety half of `AbortEndsRun`.  The handlers that rewrite
  an entry keep its abort, `/start` and a retry make a new entry only for a run
  without an execution (`RunOK`); `force_finish` and a crash are the exceptions.

`ToolForgeProofs`, for any proposals, runs and tool names, with restarts and
failing writes.  The assumption is that `NoEntry` is no answer.

* `ForgeTypeCorrect`, `RegistryIsAudited`, `AnswerHasReader` and
  `ApprovalIsLastAnswer`.  The invariant `ForgeInv` ties each proposal's stage to
  what it has passed (`CallInv`), the answers to the operators' choices
  (`AnswerInv`), the approval entry to the proposal that waits at it and back
  (`EntryHasWaiter`, `WaiterHasEntry`), and files and rows to an audit
  (`AuditInv`).  A late audit comes back after its caller has given up: without
  `AuditInv` it could be taken for one of the code that is in the file now.
* `ReportedToolIsAvailable`: a tool whose proposal was reported as registered is
  in the registry whenever the registry is loaded.  A reload takes the newest
  active row, so the proof needs that there is one: a set of naturals that is
  not empty has a least element, which comes from the well-foundedness of < on
  Nat.

`PartsProofs`:

* `AgentLoop`, for any number of requests and turns: `LoopTypeCorrect`,
  `SavedTurnIsNotRepeated`, `ClosedTaskStaysClosed`, `StrictFinishIsProven`.
  `LoopInv` adds that every turn saved for a task is behind the turn of the request
  that works on it (`TurnInv`) and behind the turn of the row (`RowInv`), unless
  the turns of a fast request are used up; how many turns a mode has (`ModeInv`);
  that a closed task is not what the row offers, unless the write that closed it
  failed (`ClosedInv`); and that the flag of a substantive observation is true of
  its task (`ProvenInv`).
* `EveryStepCounts`, the safety half of `RequestEnds`: every step of a request ends
  it or lowers `StepsLeft`, six for each turn that is left and a rank of the
  places within a turn.  Empty replies, refused finishes and recoveries take
  their turns like everything else.  `TurnsAreBudgeted`: that number is bounded by
  the longest mode, and so are the turns of a task over all requests that
  continue it, escalations included; `BudgetInv` says so of the row's limit, which
  the next request takes over.
* `PartsTypeCorrect`: the parts in their composition, as `orch_serial` runs them.
  `PartsInv` joins the parts' invariants; a step of one is a stutter of the others.
* `EventStream`, for any number of events and polls: `StreamTypeCorrect`,
  `PollingIsInOrder`, `ClosedStreamToldTheEnd`.  `BatchInv`: what the reader holds
  is what followed the cursor when it queried; `EndInv`: the end that it saw is
  in what it has told.
* `Guardian`, for any slots, quota and charge: `QuotaOvershootIsBounded`, with
  `AskedInv`: who is asked has a quota.  Usage and what the audits under way may
  still bring stay below the quota together with one charge for every slot.
  There must be a slot.
* `PipelineFsm`: `CheckpointIsConfirmedHere`, with `VisitInv`: unless the loop was
  doubled there is one of them, and an input that has woken it was given since
  the state was entered; `LeavingInv`: a loop that leaves a state knows the next.

* `Relay`, for any texts and sentences, blank ones included, with speech allowed or
  not, with stops, restarts and broken links:
  `RelayTypeCorrect` and `NoSpeechIsLost`.  `HandInv`: the text in hand goes on
  exactly where its last sentence was sent, and is one to be sent; `SilentInv`:
  nothing was sent when speech is not allowed; `WaitingInv`: a text waits once, and
  nothing of what waits was sent.
* `Studio`, for any requests and prompts, with lost connections and timeouts:
  `StudioTypeCorrect`, `PlanIsOfTimeline`, `SuccessIsKept`.  `LineInv`: requests
  are in the lock's queue once and only its head generates; `CurrentInv`: the
  filter is open until a prompt's id is known and the prompt's own from then on;
  `PromptInv` and `WireInv`: only the service that queued a prompt hears of it,
  and not before ComfyUI has started it.  With these, `HeardInv` says that a
  success that was heard has woken its generation, even one that came before the
  answer to the request which queued the prompt.  `ConnectionLost` needs nothing:
  a success that is not heard is lost, and the timeout answers.
  `GenLockRefinesFairLock`: `_GEN_LOCK` implements `FairLock`; a request that has
  the lock and finds nothing to connect to gives up its place, the end of a
  generation, whichever it is, is a `Release` by the head of the line
  (`HeadAnswers`).

`EvolutionProofs`, for any cycles, handlers and targets, with disjoint names:

* `EvolutionTypeCorrect`, `AppliedIsApproved`, `RejectionIsKept`, `DayHasItsLimit`
  and `TickIsBlocked`.  `EvoInv` says what a call under way carries (`AttemptInv`,
  `HandlerInv`), that a cycle writes under a name nobody has used (`FreshInv`),
  and that an entry called approved holds code for which a verdict exists
  (`ApprovedInv`).  `BudgetInv`: while nothing has overtaken the count, one cycle
  at a time is under way, and it was let in below the limit; `TickInv`: the end
  of the tick's gate leaves the cooldown on until the tick's own request.

Only model-checked: all liveness (under fairness, out of the provers' reach) and
the violations.  Every safety property that a passing run checks, refinement and
action properties included, is also proved.  Of four of the liveness properties
(`TaskAnswered`, `RequestEnds`, `CallEnds`, `AbortEndsRun`) the part that is not
about fairness is proved: `NoTaskVanishes`, `EveryStepCounts`,
`EveryCallRunsOut`, `AbortIsNotLost`.  That a rank which every step lowers makes
the steps end would be an induction over it and stays with TLC, too.

## 5. Disagreements without a run

The models contain these behaviours too (except where a line says that they were
only read); they are not stated as properties.

Orchestrator and runs
* `cancel_task` (orchestrator.py 702) removes a task from the dictionary and not
  from the queue: it is executed later.
* `submit_task` (650) accepts tasks after `shutdown()` has begun; tasks drained at
  shutdown (371) stay in `_active_tasks` and are reported as pending.
* A GPU task behind another one (774) is failed by the cooldown that the forced
  IDLE of its predecessor has started.
* An IDLE request of one chat (chat.py 1207) ends TEXT under another one that
  is generating.
* A client that leaves before the generator of its `StreamingResponse` is started
  (chat.py 1219) leaves its session busy (read only).
* `consecutive_failures` (scheduler_service.py 468) is reset by agent tasks
  only; other tasks are disabled at their fifth failure ever.
* An abort of a pending run is overwritten by `/start` (runs.py 362), and a run
  closed by `force_finish` (658) goes on and overwrites its status.
* `emit_event` (run_events.py 171) swallows database errors: a run whose
  `run_started` was not written can be started twice (read only).
* Two threads may both find the `asyncio.Lock` free (orchestrator.py 257).

The agent's loop (agent_brain.py)
* Two empty replies after a garbled call count as an answer; a textual JSON call
  passes the limit of the lite mode.
* A request that was escalated from fast to strict can use up its turns on refused
  finishes; a row paused at its last turn makes the next request of the
  session end at once.
* When the write that pauses a barred task fails, its row stays RUNNING and the
  task is taken up again.  A security violation inside a recovery is swallowed.
* Some exits leave the row as it is: the next request continues the old task.

Event stream, relay, pipeline
* The replay (runs.py 890) does not move the cursor before the polls begin: events
  may be sent twice.  A poll between "error" and "run_finished" closes the
  stream before the latter.
* The relay's queue (vtuber_relay.py 380) rotates while there is no connection;
  a late failure of a ping ends the new connection; texts waiting at a
  restart are lost, and sentences beyond the tenth are dropped.
* With `ENABLE_EDGE_TTS` off, the default (settings.py 577), `send_message` goes on
  to answer True, and every text is taken from the queue and dropped, for which
  `_send_to_vtuber` returns True as well (vtuber_relay.py 520-525); a blank text is
  accepted and dropped too (529-531).  When the settings cannot be read, the text
  is sent (526, read only).
* In `fsm_manager.py` an input before the wait is lost, the trigger
  `{state}_failed` exists for one state only, and `reset` with `run()` may leave
  two loops.

ToolForge, evolution, guardian
* The only caller on a running loop is the agent's own tool: its audits always time
  out (tool_forge.py 884), so it can never register anything.
* A tool that an operator approved is rejected by the code that follows (566-577),
  though the comment at 553 says that it proceeds.
* A failing write in the promotion leaves a row that the next reload registers,
  for a tool that was reported as failed.
* A rejection is lost when `proceed_from_plan` writes its own copy of the proposal
  (evolution_manager.py 1130); `apply_proposal` does not look at it.
* An answer with a malformed `risk_score` keeps `audit_approved`.
* The tick asks its gate with a whole cycle (evolution_trigger.py 80), whose end
  starts the cooldown that blocks the tick's own request; blocked attempts
  prolong it.
* A 429 of the stand-in (guardian_service.py 338) trips the main provider's
  circuit.

Studio
* The success of a video prompt that has timed out passes the filter of the next
  one, since that compares with None until its own id is known.
* After a failed generation the image service stays GENERATING.
* `gen_scene_video` (api_server.py 1046) reads the image before the lock.
* A request to align the lyrics may never be answered: the transcription worker is
  awaited without a timeout, and since its standard output is read to the end
  before its standard error (api_server.py 230-240), a worker that fills the pipe of
  the latter waits for ever.

Goals (goal_manager.py)
* `generate_goals_from_insights` prevents repetitions of active goals (its docstring,
  356), but compares with a hundred of them at most (381), with none when the query
  fails (memory_database.py 1308-1310), and goals of one answer not with each other.
* Nothing in the repository sets a goal IN_PROGRESS, which the agent's log says of one
  whose turns are used up (agent_brain.py 1886) and which the scheduler asks for before
  it ends one (scheduler_service.py 555).
* The goal to register under is chosen before the Tower is asked; it may have ended
  when the new goals become its children.

Autonomous agent (autonomous_agent.py)
* A rejection that comes during an execution is overwritten by EXECUTING and
  COMPLETED; two calls that overlap run the work twice; failures are recorded as
  COMPLETED (574).
* QUARANTINED work can be rejected and never approved, though the file's docstring
  (7) leaves it to an administrator; PENDING is taken up by nobody, and
  EXECUTING after a crash neither.

Read, not modelled
* A database write that fails is swallowed (memory_database.py 2850): work that
  has been executed may stay WAITING_FOR_APPROVAL.
* `GET /vram` and the monitor's loop (watchdog.py) may both see a transition and
  call the kill switch twice, though the docstring (257) says once; an excursion
  that starts while the kill switch unloads gets none of its own.
* `_prepare_model_for_request` (llm_service.py 349-359) is to keep one model
  resident (its docstring), and unloads the model of a request under way when one
  for another model comes.
* A request that waits for another's reconnection (llm_service.py 606-610) fails
  as not connected when the status is GENERATING again by the time it looks.
* Callers of `generate` without a context share one history (1330); a call on the
  event loop of a run closes the session of the main loop (333-346).

## 6. Not modelled, and what is left

* *VRAM watchdog.*  Its kill switch is an action of `TaskLoop` and `GpuClients`;
  its levels are a comparison of numbers from the driver.
* *LLM service.*  Its loads and unloads are actions of `Orchestrator` and its
  callers, with the outcomes that the service has.  What else it keeps (the
  status, the session, the name of the model) is shared by all requests without
  any protocol: what can be said of it are the disagreements above.
* *Memory database.*  A library of queries.  The tables that a protocol rests on
  are state of the modules above (`scheduled_tasks`, `agent_runs`,
  `run_events`, `session_checkpoints`, tools and proposals).
* *Retrieval, documents, prompts, parsers, authentication, folders,
  notifications, user interfaces, settings, backend workers.*  They transform
  data within one request, or draw a screen.  There is no protocol in them;
  more than half of the repository's lines are of this kind.

The definitions of the modules stand for about a tenth of the repository's
lines.  These are the lines that change shared or durable state; of the modelled
components the rest formats prompts, parses answers, builds queries and maps
models to JSON.

Left for later: a rank for the proposals of `ToolForge`, as for the calls of
`Autonomous`; the LLM service's history of contexts with concurrent callers.
`RunLifecycle`'s use of the gpu lock does not implement `FairLock`: two threads
may have it together.
