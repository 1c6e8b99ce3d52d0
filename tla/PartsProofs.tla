----------------------------- MODULE PartsProofs -----------------------------
(***************************************************************************)
(* What is proved of six parts: the agent's loop over the requests of a    *)
(* session, the stream of a run's events, the guardian's quotas, the       *)
(* checkpoints of the first application, the relay to the avatar and the   *)
(* music video studio.  They share no state; each has an invariant of its  *)
(* own, and MCParts keeps them all.                                        *)
(***************************************************************************)
EXTENDS MCParts, EventStream, OrchestratorProofs, FiniteSetTheorems, SequenceTheorems

-----------------------------------------------------------------------------
(***************************************************************************)
(* The agent's loop, for any number of requests and turns, with failing    *)
(* writes and requests that die anywhere.                                  *)
(***************************************************************************)
\* What is known has been requested: the next request's task is a new one.
KnownInv ==
    /\ checkpoint # NoCheckpoint => checkpoint.task \in 1 .. requests
    /\ Working => task \in 1 .. requests
    /\ \A t \in done \union barred \union proven : t \in 1 .. requests
    /\ \A s \in stored : s[1] \in 1 .. requests

\* A fast or lite run has two turns, and a thinking one never takes more than
\* it has.
ModeInv ==
    /\ Working /\ ~work.strict => work.max = 2
    /\ work.lite => ~work.strict
    /\ work.turn > work.max => ~work.strict /\ work.phase \in {"begin", "loop"}

\* Only a request that has used up the turns of a fast one finds saved turns
\* beyond its own, and it has none left.
Ahead(t, n) == \A s \in stored : s[1] = t => s[2] <= n
UsedUp(turn, max) == turn >= 2 /\ max = 2

TurnInv ==
    /\ In("begin") \/ In("loop") => Ahead(task, work.turn) \/ UsedUp(work.turn, work.max)
    /\ work.phase \in {"turn", "think", "failed", "acted"} =>
           \A s \in stored : s[1] = task => s[2] < work.turn

RowInv ==
    checkpoint # NoCheckpoint =>
        /\ checkpoint.step <= checkpoint.max
        /\ Ahead(checkpoint.task, checkpoint.step) \/ UsedUp(checkpoint.step, checkpoint.max)

\* A closed task is neither worked on nor taken up, if the write that closed
\* it did not fail.
Closed == (done \union barred) \ unwritten
ClosedInv == ClosedNotReopened /\ (Resumable => checkpoint.task \notin Closed)

\* The flag of a substantive observation is true of its task.
ProvenInv ==
    /\ Working /\ work.good => task \in proven
    /\ checkpoint # NoCheckpoint /\ checkpoint.good => checkpoint.task \in proven
    /\ FinishIsProven

LoopInv == LoopTypeOK /\ KnownInv /\ ModeInv /\ TurnInv /\ RowInv /\ ClosedInv /\ ProvenInv
-----------------------------------------------------------------------------
(***************************************************************************)
(* LoopInv is inductive.  A step of a run ends it, with or without an      *)
(* answer, or takes it on to another phase.                                *)
(***************************************************************************)
Late == {"turn", "think", "failed", "acted"}

WorkRecords ==
    [phase : {"begin", "loop", "turn", "think", "failed", "acted"},
     fast : BOOLEAN, lite : BOOLEAN, strict : BOOLEAN, max : Nat, turn : Nat,
     good : BOOLEAN, empties : 0 .. 2, retries : 0 .. 2, calls : 0 .. 1,
     rejects : 0 .. 1, recoveries : 0 .. MaxRecoveries]

\* The phases and the turn counter.
MovesTo(w) ==
    /\ w.lite = work.lite /\ w.strict = work.strict /\ w.max = work.max
    /\ \/ work.phase \in Late /\ w.phase \in (Late \ {"turn"}) \union {"loop"} /\ w.turn = work.turn
       \/ work.phase = "begin" /\ w.phase = "loop" /\ w.turn = work.turn
       \/ work.phase = "loop" /\ work.turn < work.max /\ w.phase = "turn" /\ w.turn = work.turn + 1

LEMMA LoopInitInv == LoopInit => LoopInv
BY AgentLoopAssumption
DEF LoopInit, LoopInv, LoopTypeOK, KnownInv, ModeInv, TurnInv, RowInv, ClosedInv, Closed,
    ClosedNotReopened, Resumable, ProvenInv, FinishIsProven, Resting, Working, In,
    MaxRecoveries, Tasks, Ahead

(***************************************************************************)
(* The fields of a run at work, one at a time.                             *)
(***************************************************************************)
Phases == {"begin", "loop", "turn", "think", "failed", "acted"}

LEMMA SetPhase ==
    ASSUME NEW v \in WorkRecords, NEW p \in Phases PROVE [v EXCEPT !.phase = p] \in WorkRecords
BY DEF WorkRecords, Phases

LEMMA SetTurn ==
    ASSUME NEW v \in WorkRecords, NEW p \in Phases, NEW n \in Nat
    PROVE  [v EXCEPT !.phase = p, !.turn = n] \in WorkRecords
BY DEF WorkRecords, Phases

LEMMA SetReply ==
    ASSUME NEW v \in WorkRecords, NEW p \in Phases, NEW e \in 0 .. 2, NEW r \in 0 .. 2, NEW c \in 0 .. 1
    PROVE  [v EXCEPT !.phase = p, !.empties = e, !.retries = r, !.calls = c] \in WorkRecords
<1>1. [v EXCEPT !.phase = p] \in WorkRecords
  BY SetPhase
<1>2. \A u \in WorkRecords : [u EXCEPT !.empties = e] \in WorkRecords
  BY DEF WorkRecords
<1>3. \A u \in WorkRecords : [u EXCEPT !.retries = r] \in WorkRecords
  BY DEF WorkRecords
<1>4. \A u \in WorkRecords : [u EXCEPT !.calls = c] \in WorkRecords
  BY DEF WorkRecords
<1> QED BY <1>1, <1>2, <1>3, <1>4

LEMMA SetRetry ==
    ASSUME NEW v \in WorkRecords, NEW p \in Phases, NEW e \in 0 .. 2, NEW r \in 0 .. 2
    PROVE  [v EXCEPT !.phase = p, !.empties = e, !.retries = r] \in WorkRecords
<1>1. [v EXCEPT !.phase = p] \in WorkRecords
  BY SetPhase
<1>2. \A u \in WorkRecords : [u EXCEPT !.empties = e] \in WorkRecords
  BY DEF WorkRecords
<1>3. \A u \in WorkRecords : [u EXCEPT !.retries = r] \in WorkRecords
  BY DEF WorkRecords
<1> QED BY <1>1, <1>2, <1>3

LEMMA SetRecovered ==
    ASSUME NEW v \in WorkRecords, NEW p \in Phases, NEW n \in 0 .. MaxRecoveries, NEW g \in BOOLEAN
    PROVE  [v EXCEPT !.phase = p, !.recoveries = n, !.good = g] \in WorkRecords
<1>1. [v EXCEPT !.phase = p] \in WorkRecords
  BY SetPhase
<1>2. \A u \in WorkRecords : [u EXCEPT !.recoveries = n] \in WorkRecords
  BY DEF WorkRecords
<1>3. \A u \in WorkRecords : [u EXCEPT !.good = g] \in WorkRecords
  BY DEF WorkRecords
<1> QED BY <1>1, <1>2, <1>3

LEMMA SetRejects ==
    ASSUME NEW v \in WorkRecords, NEW n \in 0 .. 1 PROVE [v EXCEPT !.rejects = n] \in WorkRecords
BY DEF WorkRecords

LEMMA FreshRecord ==
    ASSUME NEW fast \in BOOLEAN, NEW lite \in BOOLEAN, NEW strict \in BOOLEAN, NEW turn \in Nat,
           NEW max \in Nat, NEW good \in BOOLEAN
    PROVE  [Resting EXCEPT !.phase = "begin", !.fast = fast, !.lite = lite, !.strict = strict,
                           !.turn = turn, !.good = good, !.max = max] \in WorkRecords
<1>1. 0 \in 0 .. 2 /\ 0 \in 0 .. 1 /\ 0 \in 0 .. MaxRecoveries
  BY DEF MaxRecoveries
<1>2. [Resting EXCEPT !.phase = "begin"] \in WorkRecords
  BY <1>1 DEF Resting, WorkRecords
<1>3. \A u \in WorkRecords : [u EXCEPT !.fast = fast] \in WorkRecords
  BY DEF WorkRecords
<1>4. \A u \in WorkRecords : [u EXCEPT !.lite = lite] \in WorkRecords
  BY DEF WorkRecords
<1>5. \A u \in WorkRecords : [u EXCEPT !.strict = strict] \in WorkRecords
  BY DEF WorkRecords
<1>6. \A u \in WorkRecords : [u EXCEPT !.turn = turn] \in WorkRecords
  BY DEF WorkRecords
<1>7. \A u \in WorkRecords : [u EXCEPT !.good = good] \in WorkRecords
  BY DEF WorkRecords
<1>8. \A u \in WorkRecords : [u EXCEPT !.max = max] \in WorkRecords
  BY DEF WorkRecords
<1> QED BY <1>2, <1>3, <1>4, <1>5, <1>6, <1>7, <1>8

LEMMA WorkOK == ASSUME LoopTypeOK, Working PROVE work \in WorkRecords
BY DEF LoopTypeOK, Working, WorkRecords

\* A run that rests says nothing.
LEMMA RestingOK ==
    ASSUME work' = Resting, LoopInv
    PROVE  ModeInv' /\ TurnInv' /\ ~Working'
BY DEF Resting, Working, In, ModeInv, TurnInv, LoopInv

LEMMA RestingType ==
    Resting \in [phase : {"rest", "begin", "loop", "turn", "think", "failed", "acted"},
                 fast : BOOLEAN, lite : BOOLEAN, strict : BOOLEAN, max : Nat, turn : Nat,
                 good : BOOLEAN, empties : 0 .. 2, retries : 0 .. 2, calls : 0 .. 1,
                 rejects : 0 .. 1, recoveries : 0 .. MaxRecoveries]
<1>1. 0 \in 0 .. 2 /\ 0 \in 0 .. 1 /\ 0 \in 0 .. MaxRecoveries /\ 0 \in Nat
  BY DEF MaxRecoveries
<1> QED BY <1>1 DEF Resting

\* The run goes on, and may have made a substantive observation.
LEMMA GoesOn ==
    ASSUME LoopInv, Working, NEW w \in WorkRecords, MovesTo(w), work' = w,
           w.good => work.good \/ task \in proven',
           proven' \in {proven, proven \union {task}},
           UNCHANGED <<checkpoint, task, requests, outcome, stored, done, barred, unwritten>>
    PROVE  LoopInv'
<1>0. work \in WorkRecords /\ task \in 1 .. requests /\ LoopTypeOK
  BY WorkOK DEF LoopInv, KnownInv
<1>1. LoopTypeOK'
  BY <1>0, AgentLoopAssumption DEF LoopInv, LoopTypeOK, WorkRecords, Tasks
<1>2. KnownInv'
  BY <1>0 DEF LoopInv, KnownInv, Working
<1>3. ModeInv'
  BY <1>0 DEF LoopInv, ModeInv, MovesTo, WorkRecords, Late, Working
<1>4. TurnInv'
  <2>1. /\ work.phase \in {"begin", "loop"} => Ahead(task, work.turn) \/ UsedUp(work.turn, work.max)
        /\ work.phase \in Late => \A s \in stored : s[1] = task => s[2] < work.turn
        /\ stored \subseteq Tasks \X Nat
    BY <1>0 DEF LoopInv, LoopTypeOK, TurnInv, In, Late
  <2>2. CASE w.phase \in Late \ {"turn"}
    BY <1>0, <2>1, <2>2 DEF MovesTo, TurnInv, In, Late
  <2>3. CASE w.phase = "turn"
    <3>1. work.phase = "loop" /\ work.turn < work.max /\ w.turn = work.turn + 1
      BY <2>3 DEF MovesTo, Late
    <3>2. Ahead(task, work.turn)
      BY <1>0, <2>1, <3>1 DEF UsedUp, WorkRecords
    <3>3. \A s \in stored : s[1] = task => s[2] < w.turn
      BY <1>0, <2>1, <3>1, <3>2 DEF Ahead, WorkRecords
    <3> QED BY <2>3, <3>3 DEF TurnInv, In
  <2>4. CASE w.phase = "loop"
    <3>1. w.turn = work.turn /\ w.max = work.max /\ (work.phase \in Late \/ work.phase = "begin")
      BY <2>4 DEF MovesTo, Late
    <3>2. Ahead(task, w.turn) \/ UsedUp(w.turn, w.max)
      BY <1>0, <2>1, <3>1 DEF Ahead, WorkRecords
    <3> QED BY <2>4, <3>2 DEF TurnInv, In, Ahead
  <2> QED BY <2>2, <2>3, <2>4 DEF MovesTo, Late
<1>5. RowInv'
  BY DEF LoopInv, RowInv, Ahead
<1>6. ClosedInv'
  BY DEF LoopInv, ClosedInv, ClosedNotReopened, Closed, Resumable, Working
<1>7. ProvenInv'
  BY <1>0 DEF LoopInv, ProvenInv, FinishIsProven, Working, WorkRecords
<1> QED BY <1>1, <1>2, <1>3, <1>4, <1>5, <1>6, <1>7 DEF LoopInv

LEMMA ContinuesOK ==
    ASSUME LoopInv, Working, NEW w \in WorkRecords, MovesTo(w), Continues(w), w.good = work.good
    PROVE  LoopInv'
BY GoesOn DEF Continues

LEMMA GivesUpOK ==
    ASSUME LoopInv, Working, NEW reason, GivesUp(reason), reason # "finish_tool"
    PROVE  LoopInv'
<1>0. work' = Resting
  BY DEF GivesUp, Ends
<1>1. LoopTypeOK'
  BY <1>0, RestingType DEF GivesUp, LoopInv, LoopTypeOK
<1>2. KnownInv' /\ RowInv' /\ ClosedInv' /\ ProvenInv'
  BY <1>0, RestingOK
  DEF GivesUp, Ends, LoopInv, KnownInv, RowInv, Ahead, ClosedInv, ClosedNotReopened, Closed,
      Resumable, ProvenInv, FinishIsProven
<1> QED BY <1>0, <1>1, <1>2, RestingOK DEF LoopInv

LEMMA AnsweredOK ==
    ASSUME LoopInv, Working, NEW reason, Answered(reason),
           reason = "finish_tool" /\ work.strict => work.good
    PROVE  LoopInv'
<1>0. /\ work' = Resting /\ task \in 1 .. requests /\ done' = done \union {task}
      /\ outcome' = [reason |-> reason, strict |-> work.strict, task |-> task]
      /\ UNCHANGED <<task, requests, stored, barred, proven>>
  BY DEF Answered, Ends, LoopInv, KnownInv
<1>1. \/ UNCHANGED <<checkpoint, unwritten>> /\ checkpoint = NoCheckpoint
      \/ /\ checkpoint # NoCheckpoint /\ UNCHANGED unwritten
         /\ checkpoint' = [checkpoint EXCEPT !.status = "COMPLETED"]
      \/ UNCHANGED checkpoint /\ unwritten' = unwritten \union {task}
  BY DEF Answered
<1>2. LoopTypeOK' /\ KnownInv'
  BY <1>0, <1>1, AgentLoopAssumption, RestingOK, RestingType
  DEF LoopInv, LoopTypeOK, KnownInv, Tasks
<1>3. RowInv'
  BY <1>0, <1>1 DEF LoopInv, LoopTypeOK, RowInv, Ahead
<1>4. ClosedInv'
  BY <1>0, <1>1, RestingOK DEF LoopInv, LoopTypeOK, ClosedInv, ClosedNotReopened, Closed, Resumable
<1>5. ProvenInv'
  BY <1>0, <1>1, RestingOK DEF LoopInv, LoopTypeOK, ProvenInv, FinishIsProven
<1> QED BY <1>0, <1>2, <1>3, <1>4, <1>5, RestingOK DEF LoopInv

\* The run ends with a row that it writes itself.
LEMMA StopsOK ==
    ASSUME LoopInv, Working, NEW reason, reason # "finish_tool", Ends(reason),
           NEW step \in Nat, NEW why \in {"security_violation", "max_turns"},
           UNCHANGED <<task, requests, stored, done, proven>>,
           step <= work.max, Ahead(task, step) \/ UsedUp(step, work.max),
           \/ UNCHANGED <<barred, unwritten>> /\ checkpoint' \in {checkpoint, Row(step, "PAUSED", why)}
           \/ /\ barred' = barred \union {task} /\ why = "security_violation"
              /\ \/ checkpoint' = Row(step, "PAUSED", why) /\ UNCHANGED unwritten
                 \/ unwritten' = unwritten \union {task} /\ UNCHANGED checkpoint
    PROVE  LoopInv'
<1>0. /\ work' = Resting /\ task \in 1 .. requests /\ work \in WorkRecords
      /\ outcome' = [reason |-> reason, strict |-> work.strict, task |-> task]
  BY WorkOK DEF Ends, LoopInv, KnownInv
<1>1. task \in Tasks /\ work.max \in Nat /\ work.good \in BOOLEAN
  BY <1>0, AgentLoopAssumption DEF LoopInv, LoopTypeOK, Tasks, WorkRecords
<1>2. LoopTypeOK'
  <2>1. Row(step, "PAUSED", why) \in
            [task : Tasks, step : Nat, max : Nat, status : {"RUNNING", "PAUSED", "COMPLETED"},
             reason : {"none", "security_violation", "max_turns"}, good : BOOLEAN]
    BY <1>1 DEF Row
  <2>2. checkpoint' \in {checkpoint, Row(step, "PAUSED", why)}
    OBVIOUS
  <2>3. /\ barred' \subseteq Tasks /\ unwritten' \subseteq Tasks
        /\ UNCHANGED <<task, requests, stored, done, proven>>
    BY <1>1 DEF LoopInv, LoopTypeOK
  <2> QED BY <1>0, <2>1, <2>2, <2>3, RestingType DEF LoopInv, LoopTypeOK
<1>3. KnownInv'
  BY <1>0, RestingOK DEF LoopInv, KnownInv, Row
<1>4. RowInv'
  BY <1>0 DEF LoopInv, RowInv, Ahead, Row
<1>5. ClosedInv'
  BY <1>0, RestingOK DEF LoopInv, ClosedInv, ClosedNotReopened, Closed, Resumable, Row
<1>6. ProvenInv'
  BY <1>0, RestingOK DEF LoopInv, ProvenInv, FinishIsProven, Row
<1> QED BY <1>0, <1>2, <1>3, <1>4, <1>5, <1>6, RestingOK DEF LoopInv
-----------------------------------------------------------------------------
LEMMA ParsedOK ==
    ASSUME LoopInv, In("think"), NEW phase \in {"loop", "failed", "acted"}, NEW native \in BOOLEAN
    PROVE  /\ Parsed(phase, native) \in WorkRecords /\ MovesTo(Parsed(phase, native))
           /\ Parsed(phase, native).good = work.good
<1>1. work \in WorkRecords
  BY WorkOK DEF LoopInv, In, Working
<1>2. Parsed(phase, native) \in WorkRecords
  <2>1. (IF work.lite /\ native THEN 1 ELSE work.calls) \in 0 .. 1 /\ 0 \in 0 .. 2 /\ phase \in Phases
    BY <1>1 DEF WorkRecords, Phases
  <2> QED BY <1>1, <2>1, SetReply DEF Parsed
<1>3. MovesTo(Parsed(phase, native)) /\ Parsed(phase, native).good = work.good
  BY <1>1 DEF Parsed, WorkRecords, MovesTo, In, Late
<1> QED BY <1>2, <1>3

\* What a request begins with: the row, or nothing.
LEMMA RequestStep == ASSUME LoopInv, NEW mode \in AgentModes, Request(mode) PROVE LoopInv'
<1>1. PICK resumed \in BOOLEAN :
          /\ resumed => Resumable
          /\ task' = IF resumed THEN checkpoint.task ELSE requests + 1
          /\ work' = [Resting EXCEPT
                        !.phase = "begin", !.fast = (mode = "fast"), !.lite = (mode = "lite"),
                        !.strict = (mode = "thinking"),
                        !.turn = IF resumed THEN TurnsTaken ELSE 0,
                        !.good = resumed /\ checkpoint.good,
                        !.max = IF mode # "thinking" THEN 2
                                ELSE IF resumed THEN checkpoint.max ELSE AgentTurns]
  BY AgentLoopAssumption DEF Request
<1> DEFINE turn == IF resumed THEN TurnsTaken ELSE 0
           good == resumed /\ checkpoint.good
           max == IF mode # "thinking" THEN 2 ELSE IF resumed THEN checkpoint.max ELSE AgentTurns
<1>2. resumed => /\ checkpoint # NoCheckpoint /\ task' = checkpoint.task
                 /\ checkpoint.task \in 1 .. requests /\ checkpoint.task \in Tasks
                 /\ checkpoint.step \in Nat /\ checkpoint.max \in Nat /\ checkpoint.good \in BOOLEAN
  BY <1>1 DEF Resumable, LoopInv, LoopTypeOK, KnownInv
<1>3. /\ requests' = requests + 1 /\ requests \in Nat /\ requests < MaxRequests
      /\ ~resumed => task' = requests + 1
  BY <1>1, AgentLoopAssumption DEF Request, LoopInv, LoopTypeOK
<1>4. turn \in Nat /\ max \in Nat /\ good \in BOOLEAN
  BY <1>2, AgentLoopAssumption DEF TurnsTaken
<1>5. work' \in WorkRecords
  <2>1. work' = [Resting EXCEPT
                   !.phase = "begin", !.fast = (mode = "fast"), !.lite = (mode = "lite"),
                   !.strict = (mode = "thinking"), !.turn = turn, !.good = good, !.max = max]
    BY <1>1
  <2> HIDE DEF turn, good, max
  <2>2. \A fast, lite, strict \in BOOLEAN :
            [Resting EXCEPT
               !.phase = "begin", !.fast = fast, !.lite = lite, !.strict = strict,
               !.turn = turn, !.good = good, !.max = max] \in WorkRecords
    <3> TAKE fast, lite, strict \in BOOLEAN
    <3> QED BY <1>4, FreshRecord, Zenon
  <2>3. [Resting EXCEPT
           !.phase = "begin", !.fast = (mode = "fast"), !.lite = (mode = "lite"),
           !.strict = (mode = "thinking"), !.turn = turn, !.good = good, !.max = max]
        \in WorkRecords
    <3>1. (mode = "fast") \in BOOLEAN /\ (mode = "lite") \in BOOLEAN /\ (mode = "thinking") \in BOOLEAN
      OBVIOUS
    <3> QED BY <2>2, <3>1, Zenon
  <2> QED BY <2>1, <2>3, Zenon
<1>6. /\ work'.phase = "begin" /\ work'.lite = (mode = "lite") /\ work'.strict = (mode = "thinking")
      /\ work'.turn = turn /\ work'.good = good /\ work'.max = max
  BY <1>1 DEF Resting
<1>7. task' \in 1 .. requests' /\ task' \in Tasks
  BY <1>2, <1>3, AgentLoopAssumption DEF Tasks
<1>8. LoopTypeOK'
  <2>1. /\ work' \in [phase : {"rest", "begin", "loop", "turn", "think", "failed", "acted"},
                      fast : BOOLEAN, lite : BOOLEAN, strict : BOOLEAN, max : Nat, turn : Nat,
                      good : BOOLEAN, empties : 0 .. 2, retries : 0 .. 2, calls : 0 .. 1,
                      rejects : 0 .. 1, recoveries : 0 .. MaxRecoveries]
    BY <1>5 DEF WorkRecords
  <2> QED BY <1>3, <1>7, <2>1, AgentLoopAssumption DEF Request, LoopInv, LoopTypeOK
<1>9. KnownInv'
  BY <1>3, <1>7 DEF Request, LoopInv, LoopTypeOK, KnownInv
<1>10. ModeInv'
  <2>1. work'.strict \/ work'.max = 2
    BY <1>6
  <2>2. work'.strict => work'.turn <= work'.max
    <3>1. CASE resumed
      BY <1>2, <1>6, <3>1 DEF LoopInv, RowInv, TurnsTaken
    <3>2. CASE ~resumed
      BY <1>6, <3>2, AgentLoopAssumption
    <3> QED BY <3>1, <3>2
  <2>3. work'.lite => ~work'.strict
    BY <1>6
  <2> QED BY <1>4, <1>6, <2>1, <2>2, <2>3 DEF ModeInv
<1>11. TurnInv'
  <2>1. CASE resumed
    <3>1. Ahead(task', turn) \/ UsedUp(turn, checkpoint.max)
      BY <1>2, <2>1 DEF LoopInv, RowInv, TurnsTaken
    <3>2. Ahead(task', turn) \/ UsedUp(turn, max)
      BY <2>1, <3>1 DEF UsedUp
    <3> QED BY <1>6, <3>2 DEF Request, TurnInv, In, Ahead, UsedUp
  <2>2. CASE ~resumed
    BY <1>3, <1>6, <2>2 DEF Request, LoopInv, KnownInv, TurnInv, In, Ahead
  <2> QED BY <2>1, <2>2
<1>12. RowInv'
  BY DEF Request, LoopInv, RowInv, Ahead
<1>13. ClosedInv'
  <2>1. task' \notin Closed
    BY <1>1, <1>2, <1>3 DEF LoopInv, KnownInv, ClosedInv, Closed
  <2> QED BY <2>1 DEF Request, LoopInv, ClosedInv, ClosedNotReopened, Closed, Resumable
<1>14. ProvenInv'
  <2>1. work'.good => task' \in proven
    BY <1>2, <1>6 DEF LoopInv, ProvenInv
  <2> QED BY <2>1 DEF Request, LoopInv, ProvenInv, FinishIsProven
<1> QED BY <1>8, <1>9, <1>10, <1>11, <1>12, <1>13, <1>14 DEF LoopInv

LEMMA BeforeTheLlm ==
    ASSUME LoopInv,
           SelfKill \/ RoutingHit \/ PlanOnly \/ EnterLoop \/ OperatorAbort \/ TurnBegins \/ Think
    PROVE  LoopInv'
<1>0. Working /\ work \in WorkRecords
  BY WorkOK DEF LoopInv, SelfKill, RoutingHit, PlanOnly, EnterLoop, OperatorAbort, TurnBegins,
                Think, In, Working
<1>1. CASE SelfKill \/ RoutingHit \/ OperatorAbort
  BY <1>0, <1>1, GivesUpOK DEF SelfKill, RoutingHit, OperatorAbort
<1>2. CASE PlanOnly
  BY <1>0, <1>2, AnsweredOK DEF PlanOnly
<1>3. CASE EnterLoop
  <2> DEFINE w == [work EXCEPT !.phase = "loop"]
  <2>1. w \in WorkRecords
    BY <1>0, SetPhase DEF Phases
  <2>2. MovesTo(w) /\ w.good = work.good
    BY <1>0, <1>3 DEF EnterLoop, WorkRecords, MovesTo, In
  <2> QED BY <1>0, <1>3, <2>1, <2>2, ContinuesOK DEF EnterLoop
<1>4. CASE TurnBegins
  <2> DEFINE w == [work EXCEPT !.phase = "turn", !.turn = @ + 1]
  <2>1. work.turn + 1 \in Nat /\ "turn" \in Phases
    BY <1>0 DEF WorkRecords, Phases
  <2>2. w \in WorkRecords
    BY <1>0, <2>1, SetTurn
  <2>3. MovesTo(w) /\ w.good = work.good
    BY <1>0, <1>4 DEF TurnBegins, WorkRecords, MovesTo, In
  <2> QED BY <1>0, <1>4, <2>2, <2>3, ContinuesOK DEF TurnBegins
<1>5. CASE Think
  <2> DEFINE w == [work EXCEPT !.phase = "think"]
  <2>1. w \in WorkRecords
    BY <1>0, SetPhase DEF Phases
  <2>2. MovesTo(w) /\ w.good = work.good
    BY <1>0, <1>5 DEF Think, WorkRecords, MovesTo, In, Late
  <2> QED BY <1>0, <1>5, <2>1, <2>2, ContinuesOK DEF Think
<1> QED BY <1>1, <1>2, <1>3, <1>4, <1>5

LEMMA ReplyWithoutCall ==
    ASSUME LoopInv, ThinkFails \/ EmptyReply \/ PlainReply \/ GarbledCall
    PROVE  LoopInv'
<1>0. Working /\ work \in WorkRecords /\ work.phase = "think" /\ "loop" \in Phases
  BY WorkOK DEF LoopInv, ThinkFails, EmptyReply, PlainReply, GarbledCall, In, Working, Phases
<1>1. CASE ThinkFails
  BY <1>0, <1>1, GivesUpOK DEF ThinkFails
<1>2. CASE EmptyReply
  <2> DEFINE w == [work EXCEPT !.phase = "loop", !.empties = @ + 1, !.retries = @ + 1]
  <2>1. CASE GivesUp("consecutive_empty_responses")
    BY <1>0, <2>1, GivesUpOK
  <2>2. CASE work.empties < 2 /\ work.retries < 2 /\ Continues(w)
    <3>1. work.empties + 1 \in 0 .. 2 /\ work.retries + 1 \in 0 .. 2
      BY <1>0, <2>2 DEF WorkRecords
    <3>2. w \in WorkRecords
      BY <1>0, <3>1, SetRetry
    <3>3. MovesTo(w) /\ w.good = work.good
      BY <1>0 DEF WorkRecords, MovesTo, Late
    <3> QED BY <1>0, <2>2, <3>2, <3>3, ContinuesOK
  <2>3. CASE Answered("no_tool_calls")
    BY <1>0, <2>3, AnsweredOK
  <2> QED BY <1>2, <2>1, <2>2, <2>3 DEF EmptyReply
<1>3. CASE PlainReply
  BY <1>0, <1>3, AnsweredOK DEF PlainReply
<1>4. CASE GarbledCall
  <2> DEFINE w == [work EXCEPT !.phase = "loop", !.empties = 0, !.retries = 1,
                               !.calls = IF work.lite THEN 1 ELSE 0]
  <2>1. 0 \in 0 .. 2 /\ 1 \in 0 .. 2 /\ (IF work.lite THEN 1 ELSE 0) \in 0 .. 1
    OBVIOUS
  <2>2. w \in WorkRecords
    BY <1>0, <2>1, SetReply
  <2>3. MovesTo(w) /\ w.good = work.good
    BY <1>0 DEF WorkRecords, MovesTo, Late
  <2> QED BY <1>0, <1>4, <2>2, <2>3, ContinuesOK DEF GarbledCall
<1> QED BY <1>1, <1>2, <1>3, <1>4

LEMMA CallNotExecuted ==
    ASSUME LoopInv, FastCall \/ FinishAction \/ LiteCall \/ RefusedCall
    PROVE  LoopInv'
<1>0. Working /\ In("think")
  BY DEF FastCall, FinishAction, LiteCall, RefusedCall, Allowed, In, Working
<1> DEFINE v == Parsed("loop", TRUE)
<1>1. v \in WorkRecords /\ MovesTo(v) /\ v.good = work.good
  BY <1>0, ParsedOK
<1>2. CASE FastCall
  <2> DEFINE w == [v EXCEPT !.fast = FALSE]
  <2>1. w \in WorkRecords /\ MovesTo(w) /\ w.good = work.good
    <3> HIDE DEF v
    <3> QED BY <1>1 DEF WorkRecords, MovesTo
  <2> QED BY <1>0, <1>2, <2>1, ContinuesOK, GivesUpOK DEF FastCall
<1>3. CASE FinishAction
  <2> DEFINE w == [v EXCEPT !.rejects = 1]
  <2>1. w \in WorkRecords /\ MovesTo(w) /\ w.good = work.good
    <3> HIDE DEF v
    <3>1. w \in WorkRecords
      <4>1. 1 \in 0 .. 1
        OBVIOUS
      <4> QED BY <1>1, <4>1, SetRejects
    <3>2. MovesTo(w) /\ w.good = work.good
      BY <1>1 DEF WorkRecords, MovesTo
    <3> QED BY <3>1, <3>2
  <2>2. CASE ~Unproven /\ Answered("finish_tool")
    BY <1>0, <2>2, AnsweredOK DEF Unproven
  <2>3. CASE Continues(w)
    BY <1>0, <2>1, <2>3, ContinuesOK
  <2>4. CASE GivesUp("observation_required_not_met")
    BY <1>0, <2>4, GivesUpOK
  <2> QED BY <1>3, <2>2, <2>3, <2>4 DEF FinishAction
<1>4. CASE LiteCall
  BY <1>0, <1>4, AnsweredOK DEF LiteCall, LoopInv, ModeInv
<1>5. CASE RefusedCall
  BY <1>0, <1>5, ParsedOK, ContinuesOK DEF RefusedCall
<1> QED BY <1>2, <1>3, <1>4, <1>5

LEMMA ToolSteps == ASSUME LoopInv, Execute \/ Recover \/ NoRecovery PROVE LoopInv'
<1>0. Working /\ work \in WorkRecords /\ work.phase \in Late \ {"turn"} /\ "acted" \in Phases
  BY WorkOK DEF LoopInv, Execute, Recover, NoRecovery, Allowed, In, Working, Late, Phases
<1>1. CASE Execute
  <2>1. PICK native \in BOOLEAN, seen \in {"good", "poor", "error"} :
          /\ Allowed(native)
          /\ work' = [Parsed(IF seen = "error" THEN "failed" ELSE "acted", native)
                        EXCEPT !.good = @ \/ seen = "good"]
          /\ proven' = IF seen = "good" THEN proven \union {task} ELSE proven
    BY <1>1 DEF Execute
  <2> DEFINE v == Parsed(IF seen = "error" THEN "failed" ELSE "acted", native)
             w == [v EXCEPT !.good = @ \/ seen = "good"]
  <2>2. v \in WorkRecords /\ MovesTo(v) /\ v.good = work.good
    BY <2>1, ParsedOK DEF Allowed
  <2>3. w \in WorkRecords /\ MovesTo(w) /\ (w.good => work.good \/ seen = "good")
    <3> HIDE DEF v
    <3> QED BY <2>2 DEF WorkRecords, MovesTo
  <2> QED BY <1>0, <1>1, <2>1, <2>3, GoesOn DEF Execute
<1>2. CASE Recover
  <2>1. PICK mended \in BOOLEAN :
          /\ work' = [work EXCEPT !.phase = "acted", !.recoveries = @ + 1, !.good = @ \/ mended]
          /\ proven' = IF mended THEN proven \union {task} ELSE proven
    BY <1>2 DEF Recover
  <2> DEFINE w == [work EXCEPT !.phase = "acted", !.recoveries = @ + 1, !.good = @ \/ mended]
  <2>2. work.recoveries + 1 \in 0 .. MaxRecoveries
    <3>1. work.recoveries \in 0 .. MaxRecoveries
      BY <1>0 DEF WorkRecords
    <3>2. work.recoveries < MaxRecoveries
      BY <1>2 DEF Recover
    <3> QED BY <3>1, <3>2 DEF MaxRecoveries
  <2>5. (work.good \/ mended) \in BOOLEAN
    OBVIOUS
  <2>3. w \in WorkRecords
    BY <1>0, <2>2, <2>5, SetRecovered
  <2>4. MovesTo(w) /\ (w.good => work.good \/ mended)
    BY <1>0 DEF WorkRecords, MovesTo, Late
  <2> QED BY <1>0, <1>2, <2>1, <2>3, <2>4, GoesOn DEF Recover
<1>3. CASE NoRecovery
  <2> DEFINE w == [work EXCEPT !.phase = "acted"]
  <2>1. w \in WorkRecords
    BY <1>0, SetPhase
  <2>2. MovesTo(w) /\ w.good = work.good
    BY <1>0 DEF WorkRecords, MovesTo, Late
  <2> QED BY <1>0, <1>3, <2>1, <2>2, ContinuesOK DEF NoRecovery
<1> QED BY <1>1, <1>2, <1>3

\* The row becomes what the run is, and the turn is known to be in it.
LEMMA SaveStepOK == ASSUME LoopInv, SaveStep PROVE LoopInv'
<1> DEFINE w == [work EXCEPT !.phase = "loop"]
<1>0. /\ Working /\ work.phase = "acted" /\ work \in WorkRecords /\ work' = w
      /\ task \in 1 .. requests /\ task \in Tasks /\ LoopTypeOK
      /\ UNCHANGED <<task, requests, outcome, done, barred, unwritten, proven>>
  BY WorkOK, AgentLoopAssumption
  DEF SaveStep, LoopInv, LoopTypeOK, KnownInv, In, Working, Tasks
<1>1. w \in WorkRecords /\ MovesTo(w) /\ w.good = work.good
  <2>1. w \in WorkRecords
    BY <1>0, SetPhase DEF Phases
  <2>2. MovesTo(w) /\ w.good = work.good
    BY <1>0 DEF WorkRecords, MovesTo, Late
  <2> QED BY <2>1, <2>2
<1>2. CASE UNCHANGED <<checkpoint, stored>>
  BY <1>0, <1>1, <1>2, GoesOn
<1>3. CASE checkpoint' = Row(work.turn, "RUNNING", "none") /\ stored' = stored \union {<<task, work.turn>>}
  <2>1. /\ checkpoint'.task = task /\ checkpoint'.step = work.turn /\ checkpoint'.max = work.max
        /\ checkpoint'.status = "RUNNING" /\ checkpoint'.good = work.good
        /\ work.turn \in Nat /\ work.max \in Nat /\ work.good \in BOOLEAN
    BY <1>0, <1>3 DEF Row, WorkRecords
  <2>2. w.turn = work.turn /\ w.max = work.max /\ w.phase = "loop"
    BY <1>0 DEF WorkRecords
  <2>3. LoopTypeOK'
    <3>1. checkpoint' \in [task : Tasks, step : Nat, max : Nat, status : {"RUNNING", "PAUSED", "COMPLETED"},
                           reason : {"none", "security_violation", "max_turns"}, good : BOOLEAN]
      BY <1>0, <1>3, <2>1 DEF Row
    <3>2. work' \in [phase : {"rest", "begin", "loop", "turn", "think", "failed", "acted"},
                     fast : BOOLEAN, lite : BOOLEAN, strict : BOOLEAN, max : Nat, turn : Nat,
                     good : BOOLEAN, empties : 0 .. 2, retries : 0 .. 2, calls : 0 .. 1,
                     rejects : 0 .. 1, recoveries : 0 .. MaxRecoveries]
      BY <1>0, <1>1 DEF WorkRecords
    <3>3. stored' \subseteq Tasks \X Nat
      BY <1>0, <1>3, <2>1 DEF LoopTypeOK
    <3> QED BY <1>0, <3>1, <3>2, <3>3 DEF LoopTypeOK
  <2>4. KnownInv'
    BY <1>0, <1>3, <2>1 DEF LoopInv, KnownInv
  <2>5. ModeInv'
    BY <1>0, <1>1, <2>2 DEF LoopInv, ModeInv, MovesTo, Working
  <2>6. \A s \in stored : s[1] = task => s[2] <= work.turn
    BY <1>0, <2>1 DEF LoopInv, TurnInv, LoopTypeOK
  <2>7. \A s \in stored' : s[1] = task => s[2] <= work.turn
    BY <1>3, <2>1, <2>6
  <2>8. TurnInv'
    BY <1>0, <2>2, <2>7 DEF TurnInv, In, Ahead
  <2>9. RowInv'
    BY <1>0, <2>1, <2>7 DEF LoopInv, ModeInv, RowInv, Ahead
  <2>10. ClosedInv'
    BY <1>0, <1>1, <2>1 DEF LoopInv, ClosedInv, ClosedNotReopened, Closed, Resumable
  <2>11. ProvenInv'
    BY <1>0, <1>1, <2>1 DEF LoopInv, ProvenInv, FinishIsProven
  <2> QED BY <2>3, <2>4, <2>5, <2>8, <2>9, <2>10, <2>11 DEF LoopInv
<1> QED BY <1>2, <1>3 DEF SaveStep

LEMMA EndsWithRow == ASSUME LoopInv, SecurityStop \/ OutOfTurns PROVE LoopInv'
<1>0. Working /\ work \in WorkRecords /\ work.turn \in Nat /\ work.max \in Nat /\ LoopTypeOK
  BY WorkOK DEF LoopInv, SecurityStop, OutOfTurns, Allowed, In, Working, WorkRecords
<1>1. CASE SecurityStop
  <2>1. work.phase = "think" /\ Ahead(task, work.turn) /\ work.turn <= work.max
    BY <1>0, <1>1 DEF SecurityStop, Allowed, In, LoopInv, LoopTypeOK, TurnInv, ModeInv, Ahead
  <2> QED BY <1>0, <1>1, <2>1, StopsOK DEF SecurityStop
<1>2. CASE OutOfTurns
  <2>1. Ahead(task, work.max) \/ UsedUp(work.max, work.max)
    <3>1. Ahead(task, work.turn) \/ UsedUp(work.turn, work.max)
      BY <1>2 DEF OutOfTurns, LoopInv, TurnInv
    <3>2. work.turn > work.max => work.max = 2
      BY <1>0 DEF LoopInv, ModeInv
    <3> QED BY <1>0, <1>2, <3>1, <3>2 DEF OutOfTurns, UsedUp
  <2> QED BY <1>0, <1>2, <2>1, StopsOK DEF OutOfTurns
<1> QED BY <1>1, <1>2
-----------------------------------------------------------------------------
LEMMA LoopStep == LoopInv /\ [LoopNext]_loopVars => LoopInv'
<1> SUFFICES ASSUME LoopInv, [LoopNext]_loopVars PROVE LoopInv'
  OBVIOUS
<1>1. CASE \E mode \in AgentModes : Request(mode)
  BY <1>1, RequestStep
<1>2. CASE AgentStep
  BY <1>2, BeforeTheLlm, ReplyWithoutCall, CallNotExecuted, ToolSteps, SaveStepOK, EndsWithRow
  DEF AgentStep
<1>3. CASE AgentDies
  BY <1>3, GivesUpOK DEF AgentDies
<1>4. CASE UNCHANGED loopVars
  BY <1>4 DEF loopVars, LoopInv, LoopTypeOK, KnownInv, ModeInv, TurnInv, Ahead, RowInv, ClosedInv,
              ClosedNotReopened, Closed, Resumable, ProvenInv, FinishIsProven, Working, In
<1> QED BY <1>1, <1>2, <1>3, <1>4 DEF LoopNext

LEMMA LoopInvariant == LoopSpec => []LoopInv
BY LoopInitInv, LoopStep, PTL DEF LoopSpec

(***************************************************************************)
(* The loop and its row are type correct: counters of retries, refusals    *)
(* and recoveries stay below their limits over any number of turns.        *)
(***************************************************************************)
THEOREM LoopTypeCorrect == LoopSpec => []LoopTypeOK
BY LoopInvariant, PTL DEF LoopInv

(***************************************************************************)
(* A tool call that a written row holds is not made again, for any number  *)
(* of requests and turns, in any mode, whatever died or failed in between. *)
(***************************************************************************)
THEOREM SavedTurnIsNotRepeated == LoopSpec => []SavedTurnNotRepeated
<1>1. LoopInv => SavedTurnNotRepeated
  <2> SUFFICES ASSUME LoopInv, In("think"), <<task, work.turn>> \in stored PROVE FALSE
    BY DEF SavedTurnNotRepeated
  <2>1. work.turn < work.turn
    BY DEF LoopInv, TurnInv, In
  <2>2. work.turn \in Nat
    BY WorkOK DEF LoopInv, In, Working, WorkRecords
  <2> QED BY <2>1, <2>2
<1> QED BY <1>1, LoopInvariant, PTL

(***************************************************************************)
(* A task that was answered, or stopped for a security review, is not      *)
(* taken up again, unless the write that closed its row failed.            *)
(***************************************************************************)
THEOREM ClosedTaskStaysClosed == LoopSpec => []ClosedNotReopened
BY LoopInvariant, PTL DEF LoopInv, ClosedInv

(***************************************************************************)
(* A finish that a strict mode accepts has a substantive observation of    *)
(* the same task behind it, which an earlier request may have made.        *)
(***************************************************************************)
THEOREM StrictFinishIsProven == LoopSpec => []FinishIsProven
BY LoopInvariant, PTL DEF LoopInv, ProvenInv
-----------------------------------------------------------------------------
(***************************************************************************)
(* How far a request is from its end: the steps it has left at most.  Six  *)
(* take it through a turn; a finish that is refused, a garbled call or an  *)
(* empty reply only shorten the turn.                                      *)
(***************************************************************************)
StepsOfPhase == [turn |-> 5, think |-> 4, failed |-> 3, acted |-> 2, begin |-> 1, loop |-> 0, rest |-> 0]

TurnsOpen == IF work.turn < work.max THEN work.max - work.turn ELSE 0

StepsLeft == 6 * TurnsOpen + StepsOfPhase[work.phase]

Longest == IF AgentTurns > 2 THEN AgentTurns ELSE 2

\* Within a turn the request goes forward; between turns the counter does.
Onward(w) ==
    /\ w.max = work.max
    /\ \/ w.turn = work.turn /\ StepsOfPhase[w.phase] < StepsOfPhase[work.phase]
       \/ In("loop") /\ work.turn < work.max /\ w.phase = "turn" /\ w.turn = work.turn + 1

LEMMA StepIsOnward ==
    ASSUME LoopTypeOK, AgentStep \/ AgentDies
    PROVE  work' = Resting \/ (work' \in WorkRecords /\ Onward(work'))
<1>0. Working /\ work \in WorkRecords
  <2>1. Working
    BY DEF AgentStep, SelfKill, RoutingHit, PlanOnly, EnterLoop, OperatorAbort, TurnBegins, Think,
           ThinkFails, EmptyReply, PlainReply, GarbledCall, FastCall, FinishAction, LiteCall,
           RefusedCall, Execute, Recover, NoRecovery, SaveStep, SecurityStop, OutOfTurns, Allowed,
           AgentDies, In, Working
  <2> QED BY <2>1, WorkOK
<1>a. ASSUME NEW p \in Phases, StepsOfPhase[p] < StepsOfPhase[work.phase],
             work' \in WorkRecords, work'.phase = p, work'.turn = work.turn, work'.max = work.max
      PROVE  work' \in WorkRecords /\ Onward(work')
  BY <1>a DEF Onward
<1> DEFINE Enters(p) == /\ work' \in WorkRecords /\ work'.phase = p
                        /\ work'.turn = work.turn /\ work'.max = work.max
<1>1. ASSUME NEW reason, Ends(reason) \/ GivesUp(reason) \/ Answered(reason)
      PROVE  work' = Resting
  BY <1>1 DEF Ends, GivesUp, Answered
<1>2. ASSUME NEW p \in {"loop", "failed", "acted"}, NEW native \in BOOLEAN
      PROVE  /\ Parsed(p, native) \in WorkRecords /\ Parsed(p, native).phase = p
             /\ Parsed(p, native).turn = work.turn /\ Parsed(p, native).max = work.max
  <2>1. (IF work.lite /\ native THEN 1 ELSE work.calls) \in 0 .. 1 /\ 0 \in 0 .. 2 /\ p \in Phases
    BY <1>0 DEF WorkRecords, Phases
  <2>2. Parsed(p, native) \in WorkRecords
    BY <1>0, <2>1, SetReply DEF Parsed
  <2> QED BY <1>0, <2>2 DEF Parsed, WorkRecords
<1>3. CASE EnterLoop \/ Think \/ NoRecovery
  <2>1. PICK p \in Phases : /\ work' = [work EXCEPT !.phase = p]
                           /\ StepsOfPhase[p] < StepsOfPhase[work.phase]
    BY <1>3 DEF EnterLoop, Think, NoRecovery, Continues, In, Phases, StepsOfPhase
  <2> QED BY <1>0, <1>a, <2>1, SetPhase DEF WorkRecords
<1>4. CASE TurnBegins
  <2>1. work' = [work EXCEPT !.phase = "turn", !.turn = @ + 1] /\ In("loop") /\ work.turn < work.max
    BY <1>4 DEF TurnBegins, Continues
  <2>2. work.turn + 1 \in Nat /\ "turn" \in Phases
    BY <1>0 DEF WorkRecords, Phases
  <2>3. work' \in WorkRecords
    BY <1>0, <2>1, <2>2, SetTurn
  <2> QED BY <1>0, <2>1, <2>3 DEF Onward, WorkRecords
<1>5. CASE In("think") /\ \E p \in {"loop", "failed", "acted"} : Enters(p)
  BY <1>5, <1>a DEF In, Phases, StepsOfPhase
<1>6. CASE EmptyReply
  <2>1. CASE /\ work.empties < 2 /\ work.retries < 2
             /\ work' = [work EXCEPT !.phase = "loop", !.empties = @ + 1, !.retries = @ + 1]
    <3>1. work.empties + 1 \in 0 .. 2 /\ work.retries + 1 \in 0 .. 2 /\ "loop" \in Phases
      BY <1>0, <2>1 DEF WorkRecords, Phases
    <3>2. work' \in WorkRecords
      BY <1>0, <2>1, <3>1, SetRetry
    <3> QED BY <1>0, <1>5, <1>6, <2>1, <3>2 DEF EmptyReply, WorkRecords
  <2> QED BY <1>1, <1>6, <2>1 DEF EmptyReply, Continues
<1>7. CASE GarbledCall
  <2>1. /\ work' = [work EXCEPT !.phase = "loop", !.empties = 0, !.retries = 1,
                               !.calls = IF work.lite THEN 1 ELSE 0]
        /\ 0 \in 0 .. 2 /\ 1 \in 0 .. 2 /\ (IF work.lite THEN 1 ELSE 0) \in 0 .. 1 /\ "loop" \in Phases
    BY <1>7 DEF GarbledCall, Continues, Phases
  <2>2. work' \in WorkRecords
    BY <1>0, <2>1, SetReply
  <2> QED BY <1>0, <1>5, <1>7, <2>1, <2>2 DEF GarbledCall, WorkRecords
<1>8. CASE FastCall
  <2>1. ASSUME work' = [Parsed("loop", TRUE) EXCEPT !.fast = FALSE]
        PROVE  Enters("loop")
    BY <1>2, <2>1 DEF WorkRecords
  <2>2. In("think") /\ (work' = [Parsed("loop", TRUE) EXCEPT !.fast = FALSE] \/ GivesUp("fast_toolcall_blocked"))
    BY <1>8, Zenon DEF FastCall, Continues
  <2>3. CASE work' = [Parsed("loop", TRUE) EXCEPT !.fast = FALSE]
    <3>1. In("think") /\ Enters("loop")
      BY <2>1, <2>2, <2>3
    <3> QED BY <1>5, <3>1
  <2>4. CASE GivesUp("fast_toolcall_blocked")
    BY <1>1, <2>4
  <2> QED BY <2>2, <2>3, <2>4
<1>9. CASE FinishAction
  <2>1. ASSUME work' = [Parsed("loop", TRUE) EXCEPT !.rejects = 1]
        PROVE  Enters("loop")
    <3> DEFINE v == Parsed("loop", TRUE)
    <3>1. v \in WorkRecords /\ v.phase = "loop" /\ v.turn = work.turn /\ v.max = work.max
      BY <1>2
    <3> HIDE DEF v
    <3>2. work' = [v EXCEPT !.rejects = 1]
      BY <2>1 DEF v
    <3> QED BY <3>1, <3>2, SetRejects DEF WorkRecords
  <2>2. /\ In("think")
        /\ \/ work' = [Parsed("loop", TRUE) EXCEPT !.rejects = 1]
           \/ Answered("finish_tool") \/ GivesUp("observation_required_not_met")
    BY <1>9, Zenon DEF FinishAction, Continues
  <2>3. CASE work' = [Parsed("loop", TRUE) EXCEPT !.rejects = 1]
    <3>1. In("think") /\ Enters("loop")
      BY <2>1, <2>2, <2>3
    <3> QED BY <1>5, <3>1
  <2>4. CASE Answered("finish_tool") \/ GivesUp("observation_required_not_met")
    BY <1>1, <2>4
  <2> QED BY <2>2, <2>3, <2>4
<1>10. CASE RefusedCall
  <2>1. PICK native \in BOOLEAN : In("think") /\ work' = Parsed("loop", native)
    BY <1>10 DEF RefusedCall, Allowed, Continues
  <2> QED BY <1>2, <1>5, <2>1
<1>11. CASE Execute
  <2>1. PICK native \in BOOLEAN, seen \in {"good", "poor", "error"} :
            /\ In("think")
            /\ work' = [Parsed(IF seen = "error" THEN "failed" ELSE "acted", native)
                          EXCEPT !.good = @ \/ seen = "good"]
    BY <1>11, Zenon DEF Execute, Allowed
  <2> DEFINE p == IF seen = "error" THEN "failed" ELSE "acted"
  <2>2. Enters(p)
    <3>1. work' = [Parsed(p, native) EXCEPT !.good = @ \/ seen = "good"] /\ p \in {"failed", "acted"}
      BY <2>1
    <3>2. \A u \in WorkRecords, g \in BOOLEAN : [u EXCEPT !.good = g] \in WorkRecords
      BY DEF WorkRecords
    <3>3. \A u \in WorkRecords : (u.good \/ seen = "good") \in BOOLEAN
      BY DEF WorkRecords
    <3> DEFINE v == Parsed(p, native)
    <3> HIDE DEF p
    <3>4. v \in WorkRecords /\ v.phase = p /\ v.turn = work.turn /\ v.max = work.max
      BY <1>2, <3>1
    <3> HIDE DEF v
    <3>5. work' = [v EXCEPT !.good = v.good \/ seen = "good"]
      BY <3>1 DEF v
    <3>6. work' \in WorkRecords
      BY <3>2, <3>3, <3>4, <3>5
    <3> QED BY <3>4, <3>5, <3>6 DEF WorkRecords
  <2> QED BY <1>5, <2>1, <2>2
<1>12. CASE Recover
  <2>1. PICK mended \in BOOLEAN :
            /\ work.phase = "failed" /\ work.recoveries < MaxRecoveries
            /\ work' = [work EXCEPT !.phase = "acted", !.recoveries = @ + 1, !.good = @ \/ mended]
    BY <1>12, Zenon DEF Recover, In
  <2>2. work.recoveries + 1 \in 0 .. MaxRecoveries /\ (work.good \/ mended) \in BOOLEAN /\ "acted" \in Phases
    BY <1>0, <2>1 DEF WorkRecords, MaxRecoveries, Phases
  <2>3. work' \in WorkRecords
    BY <1>0, <2>1, <2>2, SetRecovered
  <2> QED BY <1>0, <1>a, <2>1, <2>2, <2>3 DEF WorkRecords, StepsOfPhase
<1>13. CASE SaveStep
  <2>1. work' = [work EXCEPT !.phase = "loop"] /\ work.phase = "acted" /\ "loop" \in Phases
    BY <1>13 DEF SaveStep, In, Phases
  <2> QED BY <1>0, <1>a, <2>1, SetPhase DEF WorkRecords, StepsOfPhase
<1>14. CASE SelfKill \/ RoutingHit \/ PlanOnly \/ OperatorAbort \/ ThinkFails \/ PlainReply \/ LiteCall
            \/ SecurityStop \/ OutOfTurns \/ AgentDies
  BY <1>1, <1>14 DEF SelfKill, RoutingHit, PlanOnly, OperatorAbort, ThinkFails, PlainReply, LiteCall,
                     SecurityStop, OutOfTurns, AgentDies
<1> QED BY <1>3, <1>4, <1>6, <1>7, <1>8, <1>9, <1>10, <1>11, <1>12, <1>13, <1>14 DEF AgentStep

(***************************************************************************)
(* A request runs out of steps: whatever the LLM answers and whatever      *)
(* fails, every step of run() ends the request or brings it nearer to its  *)
(* end (the loop over the turns, the two empty replies, the one refused    *)
(* finish and the two recoveries of core/agent_brain.py).  This is what    *)
(* RequestEnds rests on, besides the scheduling of the steps.              *)
(***************************************************************************)
RequestRunsOut == [][Working => ~Working' \/ StepsLeft' < StepsLeft]_loopVars

\* Every step of AgentBrain.run brings its request nearer to its end, for any
\* number of turns, whatever the LLM answers and whatever fails.
THEOREM EveryStepCounts == LoopSpec => RequestRunsOut
<1>1. LoopTypeOK /\ [LoopNext]_loopVars => [Working => ~Working' \/ StepsLeft' < StepsLeft]_loopVars
  <2> SUFFICES ASSUME LoopTypeOK, LoopNext, Working, Working'
               PROVE  StepsLeft' < StepsLeft
    BY DEF loopVars
  <2>1. AgentStep \/ AgentDies
    BY DEF LoopNext, Request
  <2>2. work' # Resting
    BY DEF Working, Resting
  <2>3. work \in WorkRecords /\ work' \in WorkRecords /\ Onward(work')
    BY <2>1, <2>2, StepIsOnward, WorkOK
  <2>4. StepsOfPhase[work.phase] \in 0 .. 5 /\ StepsOfPhase[work'.phase] \in 0 .. 5
    BY <2>3 DEF WorkRecords, StepsOfPhase
  <2>5. CASE work'.turn = work.turn /\ StepsOfPhase[work'.phase] < StepsOfPhase[work.phase]
    BY <2>3, <2>4, <2>5 DEF Onward, StepsLeft, TurnsOpen, WorkRecords
  <2>6. CASE In("loop") /\ work.turn < work.max /\ work'.phase = "turn" /\ work'.turn = work.turn + 1
    BY <2>3, <2>6 DEF Onward, StepsLeft, TurnsOpen, WorkRecords, In, StepsOfPhase
  <2> QED BY <2>3, <2>5, <2>6 DEF Onward
<1> QED BY <1>1, LoopTypeCorrect, PTL DEF LoopSpec, RequestRunsOut

\* Rows and requests keep to the turns of the longest request.
BudgetInv ==
    /\ work.max <= Longest
    /\ work.phase \in Late => work.turn \in 1 .. work.max
    /\ checkpoint # NoCheckpoint => checkpoint.max <= Longest
    /\ \A s \in stored : s[2] \in 1 .. Longest

LEMMA BudgetStep ==
    ASSUME LoopInv, BudgetInv, [LoopNext]_loopVars
    PROVE  BudgetInv'
<1>0. Longest \in Nat /\ 2 <= Longest /\ AgentTurns <= Longest /\ LoopTypeOK
  BY AgentLoopAssumption DEF Longest, LoopInv
<1>1. CASE UNCHANGED loopVars
  BY <1>1 DEF loopVars, BudgetInv
<1>2. ASSUME NEW mode \in AgentModes, Request(mode)
      PROVE  BudgetInv'
  <2>1. PICK resumed \in BOOLEAN :
            /\ resumed => Resumable
            /\ work' = [Resting EXCEPT
                          !.phase = "begin", !.fast = (mode = "fast"), !.lite = (mode = "lite"),
                          !.strict = (mode = "thinking"),
                          !.turn = IF resumed THEN TurnsTaken ELSE 0,
                          !.good = resumed /\ checkpoint.good,
                          !.max = IF mode # "thinking" THEN 2
                                  ELSE IF resumed THEN checkpoint.max ELSE AgentTurns]
    BY <1>2, AgentLoopAssumption DEF Request
  <2>2. work'.phase = "begin" /\ work'.max \in {2, AgentTurns} \union (IF resumed THEN {checkpoint.max} ELSE {})
    BY <2>1 DEF Resting
  <2>3. resumed => checkpoint.max <= Longest
    BY <2>1 DEF Resumable, BudgetInv
  <2> QED BY <1>0, <1>2, <2>2, <2>3 DEF Request, BudgetInv, Late
<1>3. CASE AgentStep \/ AgentDies
  <2>1. /\ work'.max <= Longest
        /\ work'.phase \in Late => work'.turn \in 1 .. work'.max
    <3>1. CASE work' = Resting
      BY <1>0, <3>1 DEF Resting, Late
    <3>2. CASE work' \in WorkRecords /\ Onward(work')
      <4>1. work'.max = work.max /\ work'.max <= Longest
        BY <3>2 DEF Onward, BudgetInv
      <4>2. CASE In("loop") /\ work.turn < work.max /\ work'.turn = work.turn + 1
        BY <1>0, <4>1, <4>2 DEF LoopTypeOK
      <4>3. CASE work'.turn = work.turn /\ StepsOfPhase[work'.phase] < StepsOfPhase[work.phase]
        <5>1. work'.phase \in Late => work.phase \in Late
          BY <1>0, <3>2, <4>3 DEF LoopTypeOK, StepsOfPhase, Late, WorkRecords
        <5> QED BY <4>1, <4>3, <5>1 DEF BudgetInv
      <4> QED BY <3>2, <4>1, <4>2, <4>3 DEF Onward
    <3> QED BY <1>0, <1>3, <3>1, <3>2, StepIsOnward
  <2>2. checkpoint' # NoCheckpoint => checkpoint'.max <= Longest
    <3>1. \/ UNCHANGED checkpoint
          \/ checkpoint # NoCheckpoint /\ checkpoint' = [checkpoint EXCEPT !.status = "COMPLETED"]
          \/ \E step, status, reason : checkpoint' = Row(step, status, reason)
      BY <1>3, Zenon DEF AgentStep, SelfKill, RoutingHit, PlanOnly, EnterLoop, OperatorAbort, TurnBegins,
           Think, ThinkFails, EmptyReply, PlainReply, GarbledCall, FastCall, FinishAction, LiteCall,
           RefusedCall, Execute, Recover, NoRecovery, SaveStep, SecurityStop, OutOfTurns, AgentDies,
           GivesUp, Answered, Continues
    <3> QED BY <1>0, <3>1 DEF Row, BudgetInv, LoopTypeOK
  <2>3. \A s \in stored' : s[2] \in 1 .. Longest
    <3>1. UNCHANGED stored \/ (In("acted") /\ stored' = stored \union {<<task, work.turn>>})
      BY <1>3, Zenon DEF AgentStep, SelfKill, RoutingHit, PlanOnly, EnterLoop, OperatorAbort, TurnBegins,
           Think, ThinkFails, EmptyReply, PlainReply, GarbledCall, FastCall, FinishAction, LiteCall,
           RefusedCall, Execute, Recover, NoRecovery, SaveStep, SecurityStop, OutOfTurns, AgentDies,
           GivesUp, Answered, Continues
    <3>2. In("acted") => work.turn \in 1 .. Longest
      BY <1>0 DEF In, Late, BudgetInv, LoopTypeOK
    <3> QED BY <3>1, <3>2 DEF BudgetInv
  <2> QED BY <2>1, <2>2, <2>3 DEF BudgetInv
<1> QED BY <1>1, <1>2, <1>3 DEF LoopNext

(***************************************************************************)
(* A task has a budget of turns however many requests take it up: the row  *)
(* counts on where the last request stopped, so that all tool calls that   *)
(* are in written rows are of the turns 1 to the limit, and a request has  *)
(* never more than six steps for each of them before it.                   *)
(***************************************************************************)
TaskTurnBudget ==
    /\ stored \subseteq Tasks \X (1 .. Longest)
    /\ StepsLeft \in 0 .. 6 * Longest + 1

\* The turns of a task over all its requests stay below the limit of the
\* longest mode, for any number of requests and turns.
THEOREM TurnsAreBudgeted == LoopSpec => []TaskTurnBudget
<1>1. LoopInit => BudgetInv
  BY AgentLoopAssumption DEF LoopInit, BudgetInv, Resting, Late, Longest
<1>2. LoopInv /\ BudgetInv => TaskTurnBudget
  <2> SUFFICES ASSUME LoopInv, BudgetInv
               PROVE  TaskTurnBudget
    OBVIOUS
  <2>1. /\ Longest \in Nat /\ work.max \in 0 .. Longest /\ work.turn \in Nat
        /\ work.phase \in Phases \union {"rest"} /\ stored \subseteq Tasks \X Nat
    BY AgentLoopAssumption DEF LoopInv, LoopTypeOK, BudgetInv, Longest, Phases
  <2>2. TurnsOpen \in 0 .. Longest
    BY <2>1 DEF TurnsOpen
  <2>3. work.phase \in Late => TurnsOpen + 1 <= Longest
    BY <2>1 DEF TurnsOpen, BudgetInv
  <2>4. StepsLeft \in 0 .. 6 * Longest + 1
    <3>1. CASE work.phase \in Late
      BY <2>1, <2>2, <2>3, <3>1 DEF Late, StepsOfPhase, StepsLeft
    <3>2. CASE work.phase \in {"begin", "loop", "rest"}
      BY <2>1, <2>2, <3>2 DEF StepsOfPhase, StepsLeft
    <3> QED BY <2>1, <3>1, <3>2 DEF Late, Phases
  <2>5. stored \subseteq Tasks \X (1 .. Longest)
    BY <2>1 DEF BudgetInv
  <2> QED BY <2>4, <2>5 DEF TaskTurnBudget
<1>3. LoopInv /\ BudgetInv /\ [LoopNext]_loopVars => BudgetInv'
  BY BudgetStep
<1> QED BY <1>1, <1>2, <1>3, LoopInvariant, PTL DEF LoopSpec
-----------------------------------------------------------------------------
(***************************************************************************)
(* The stream of a run's events.                                           *)
(***************************************************************************)
Consecutive(s, id) == \A i \in 1 .. Len(s) : s[i] = id + i

\* How far the reader has come.
Told == after + Len(polled)

\* What is polled goes on where the last batch ended; the cursor keeps up with
\* it until the last batch.
BatchInv ==
    /\ Consecutive(polled, after) /\ Told <= Len(events)
    /\ reader \in {"away", "replay", "replaying"} => polled = <<>>
    /\ reader \in {"replay", "replaying", "poll", "sending"} => cursor = Told
    /\ reader \in {"sending", "last"} => /\ Consecutive(batch, Told)
                                         /\ Told + Len(batch) <= Len(events)

\* The last batch contains the end, or it was told before.
EndInv ==
    /\ EndIsTold
    /\ reader = "last" => \E id \in 1 .. Told + Len(batch) : Ending(id)

PollsInv == reader # "timeout" => polls < MaxPolls

StreamInv == StreamTypeOK /\ BatchInv /\ EndInv /\ PollsInv

LEMMA EventsAfterIsBatch ==
    ASSUME StreamTypeOK, NEW id \in 0 .. MaxEvents, id <= Len(events)
    PROVE  /\ EventsAfter(id) \in Seq(EventIds) /\ Len(EventsAfter(id)) = Len(events) - id
           /\ Consecutive(EventsAfter(id), id)
<1>1. Len(events) \in Nat /\ Len(events) <= MaxEvents /\ MaxEvents \in Nat
  BY EventStreamAssumption DEF StreamTypeOK
<1>2. /\ EventsAfter(id) = [i \in 1 .. Len(events) - id |-> id + i]
      /\ Len(events) - id \in Nat
      /\ \A i \in 1 .. Len(events) - id : id + i \in EventIds
  BY <1>1 DEF EventsAfter, EventIds
<1>3. EventsAfter(id) \in Seq(EventIds) /\ Len(EventsAfter(id)) = Len(events) - id
  BY <1>2
<1> QED BY <1>1, <1>2, <1>3 DEF Consecutive

LEMMA StreamInitInv == StreamInit => StreamInv
BY EventStreamAssumption
   DEF StreamInit, StreamInv, StreamTypeOK, BatchInv, EndInv, EndIsTold, PollsInv, Consecutive,
   Told, EventIds

\* New events change nothing for those that are there.
LEMMA EventStep == ASSUME StreamInv, EventWritten PROVE StreamInv'
<1>1. PICK kind \in {"step", "finished", "error"} : events' = Append(events, kind)
  BY DEF EventWritten
<1>2. /\ events \in Seq({"step", "finished", "error"}) /\ Len(events) < MaxEvents /\ MaxEvents \in Nat
      /\ UNCHANGED <<reader, after, cursor, batch, polls, polled>>
  BY EventStreamAssumption DEF EventWritten, StreamInv, StreamTypeOK
<1>3. /\ events' \in Seq({"step", "finished", "error"}) /\ Len(events') = Len(events) + 1
      /\ \A id \in 1 .. Len(events) : events'[id] = events[id]
  BY <1>1, <1>2
<1>4. /\ StreamTypeOK'
  BY <1>2, <1>3 DEF StreamInv, StreamTypeOK
<1>5. BatchInv' /\ PollsInv'
  BY <1>2, <1>3 DEF StreamInv, StreamTypeOK, BatchInv, PollsInv, Told, Consecutive
<1>6. \A id \in 1 .. Len(events) : Ending(id) => Ending(id)'
  BY <1>3 DEF Ending
<1>7. EndInv'
  <2>1. Told \in Nat /\ Told <= Len(events) /\ Told' = Told /\ Len(batch) \in Nat
    BY <1>2 DEF StreamInv, StreamTypeOK, BatchInv, Told
  <2>2. reader = "closed" => \E id \in 1 .. Told : Ending(id)'
    BY <1>2, <1>6, <2>1 DEF StreamInv, EndInv, EndIsTold, Told
  <2>3. reader = "last" => \E id \in 1 .. Told + Len(batch) : Ending(id)'
    BY <1>2, <1>6, <2>1 DEF StreamInv, EndInv, BatchInv
  <2> QED BY <1>2, <2>1, <2>2, <2>3 DEF EndInv, EndIsTold, Told
<1> QED BY <1>4, <1>5, <1>7 DEF StreamInv

\* Connections, replay and the queries of a poll.
LEMMA QueryStep ==
    ASSUME StreamInv, Connected \/ Replay \/ ReplaySends \/ Poll \/ EndSeen \/ Disconnected
    PROVE  StreamInv'
<1>1. /\ Len(events) \in Nat /\ Len(events) <= MaxEvents /\ MaxEvents \in Nat /\ MaxPolls \in Nat \ {0}
      /\ Len(polled) \in Nat /\ after \in Nat /\ polled \in Seq(EventIds) /\ batch \in Seq(EventIds)
  BY EventStreamAssumption DEF StreamInv, StreamTypeOK
<1>2. CASE Connected
  <2>1. /\ reader = "away" /\ UNCHANGED <<events, batch, polls, polled>> /\ after' = cursor'
        /\ after' \in 0 .. Len(events) /\ reader' \in {"replay", "poll"}
    BY <1>2 DEF Connected
  <2>2. polled = <<>>
    BY <2>1 DEF StreamInv, BatchInv
  <2>3. Told' = after' /\ Len(polled') = 0 /\ cursor' = Told' /\ Told' <= Len(events')
    <3>1. Len(<<>>) = 0 /\ polled' = <<>> /\ events' = events
      BY <2>1, <2>2
    <3>2. Len(polled') = 0 /\ after' \in Nat
      BY <1>1, <2>1, <3>1
    <3>3. \A n \in Nat : n + 0 = n
      OBVIOUS
    <3>4. Told' = after'
      BY <3>2, <3>3 DEF Told
    <3>5. cursor' = after' /\ after' <= Len(events)
      BY <1>1, <2>1
    <3> QED BY <3>1, <3>2, <3>4, <3>5
  <2>4. BatchInv'
    BY <2>1, <2>2, <2>3 DEF BatchInv, Consecutive
  <2>5. EndInv' /\ PollsInv'
    BY <2>1 DEF StreamInv, EndInv, EndIsTold, PollsInv
  <2>6. StreamTypeOK'
    BY <1>1, <2>1 DEF StreamInv, StreamTypeOK
  <2> QED BY <2>4, <2>5, <2>6 DEF StreamInv
<1>3. CASE Replay
  <2>1. /\ reader = "replay" /\ reader' = "replaying" /\ batch' = EventsAfter(after)
        /\ UNCHANGED <<events, after, cursor, polls, polled>>
    BY <1>3 DEF Replay
  <2>2. after <= Len(events) /\ after \in 0 .. MaxEvents
    BY <1>1 DEF StreamInv, StreamTypeOK, BatchInv, Told
  <2>3. batch' \in Seq(EventIds)
    BY <2>1, <2>2, EventsAfterIsBatch DEF StreamInv
  <2> QED BY <1>1, <2>1, <2>3 DEF StreamInv, StreamTypeOK, BatchInv, EndInv, EndIsTold, PollsInv,
                                Consecutive, Told
<1>4. CASE ReplaySends
  <2>1. /\ reader = "replaying" /\ reader' \in {"replaying", "poll"} /\ batch' \in Seq(EventIds)
        /\ UNCHANGED <<events, after, cursor, polls, polled>>
    <3>1. CASE batch # <<>> /\ batch' = Tail(batch) /\ UNCHANGED reader
      BY <1>1, <1>4, <3>1 DEF ReplaySends
    <3>2. CASE batch = <<>> /\ reader' = "poll" /\ UNCHANGED batch
      BY <1>1, <1>4, <3>2 DEF ReplaySends
    <3> QED BY <1>4, <3>1, <3>2 DEF ReplaySends
  <2> QED BY <1>1, <2>1 DEF StreamInv, StreamTypeOK, BatchInv, EndInv, EndIsTold, PollsInv,
                                Consecutive, Told
<1>5. CASE Poll
  <2>1. /\ reader = "poll" /\ reader' = "sending" /\ batch' = EventsAfter(cursor)
        /\ UNCHANGED <<events, after, cursor, polls, polled>>
    BY <1>5 DEF Poll
  <2>2. cursor <= Len(events) /\ cursor \in 0 .. MaxEvents /\ cursor = Told
    BY <1>1, <2>1 DEF StreamInv, StreamTypeOK, BatchInv
  <2>3. batch' \in Seq(EventIds) /\ Len(batch') = Len(events) - cursor /\ Consecutive(batch', cursor)
    BY <2>1, <2>2, EventsAfterIsBatch DEF StreamInv
  <2> QED BY <1>1, <2>1, <2>2, <2>3 DEF StreamInv, StreamTypeOK, BatchInv, EndInv, EndIsTold, PollsInv,
                                Consecutive, Told
<1>6. CASE EndSeen
  <2>1. /\ reader = "sending" /\ reader' = "last" /\ batch' = EventsAfter(cursor) /\ RunEnded
        /\ UNCHANGED <<events, after, cursor, polls, polled>>
    BY <1>6 DEF EndSeen
  <2>2. cursor <= Len(events) /\ cursor \in 0 .. MaxEvents /\ cursor = Told
    BY <1>1, <2>1 DEF StreamInv, StreamTypeOK, BatchInv
  <2>3. batch' \in Seq(EventIds) /\ Len(batch') = Len(events) - cursor /\ Consecutive(batch', cursor)
    BY <2>1, <2>2, EventsAfterIsBatch DEF StreamInv
  <2>4. Told' = Told /\ Told' + Len(batch') = Len(events)
    BY <1>1, <2>1, <2>2, <2>3 DEF Told
  <2>5. \E id \in 1 .. Told' + Len(batch') : Ending(id)'
    BY <2>1, <2>4 DEF RunEnded, Ending, StreamInv, StreamTypeOK
  <2>6. EndInv'
    BY <2>1, <2>5 DEF EndInv, EndIsTold
  <2> QED BY <1>1, <2>1, <2>2, <2>3, <2>4, <2>6 DEF StreamInv, StreamTypeOK, BatchInv, PollsInv, Consecutive
<1>7. CASE Disconnected
  BY <1>1, <1>7 DEF Disconnected, StreamInv, StreamTypeOK, BatchInv, EndInv, EndIsTold, PollsInv,
                    Consecutive, Told
<1> QED BY <1>2, <1>3, <1>4, <1>5, <1>6, <1>7

\* The next event of the batch.
LEMMA SendStep == ASSUME StreamInv, Sends PROVE StreamInv'
<1>1. /\ reader \in {"sending", "last"} /\ batch # <<>> /\ UNCHANGED <<events, after, polls>>
      /\ polled' = Append(polled, Head(batch)) /\ batch' = Tail(batch)
      /\ cursor' = IF reader = "sending" THEN Head(batch) ELSE cursor
      /\ reader' = IF reader = "sending" /\ events[Head(batch)] = "finished" THEN "closed" ELSE reader
  BY DEF Sends, CursorAfter
<1>2. /\ Len(events) \in Nat /\ MaxEvents \in Nat
      /\ Len(polled) \in Nat /\ after \in Nat /\ polled \in Seq(EventIds) /\ batch \in Seq(EventIds)
      /\ Told \in Nat
  BY EventStreamAssumption DEF StreamInv, StreamTypeOK, Told
<1>3. /\ Head(batch) = Told + 1 /\ Head(batch) \in EventIds
      /\ Len(batch') = Len(batch) - 1 /\ batch' \in Seq(EventIds) /\ Len(batch) \in Nat
      /\ \A i \in 1 .. Len(batch') : batch'[i] = batch[i + 1]
  BY <1>1, <1>2 DEF StreamInv, BatchInv, Consecutive
<1>4. /\ polled' \in Seq(EventIds) /\ Len(polled') = Len(polled) + 1
      /\ \A i \in 1 .. Len(polled) : polled'[i] = polled[i]
      /\ polled'[Len(polled) + 1] = Head(batch)
  BY <1>1, <1>2, <1>3
<1>5. Told' = Told + 1
  BY <1>1, <1>2, <1>4 DEF Told
<1>6. StreamTypeOK'
  BY <1>1, <1>3, <1>4 DEF StreamInv, StreamTypeOK, EventIds
<1>7. Consecutive(polled', after)
  <2>1. \A i \in 1 .. Len(polled) : polled'[i] = after + i
    BY <1>4 DEF StreamInv, BatchInv, Consecutive
  <2>2. polled'[Len(polled) + 1] = after + (Len(polled) + 1)
    BY <1>2, <1>3, <1>4 DEF Told
  <2>3. \A i \in 1 .. Len(polled') : i \in 1 .. Len(polled) \/ i = Len(polled) + 1
    BY <1>2, <1>4
  <2> QED BY <2>1, <2>2, <2>3 DEF Consecutive
<1>8. Consecutive(batch', Told')
  BY <1>1, <1>2, <1>3, <1>5 DEF StreamInv, BatchInv, Consecutive
<1>9. Told + Len(batch) <= Len(events)
  BY <1>1 DEF StreamInv, BatchInv
<1>10. BatchInv'
  BY <1>1, <1>2, <1>3, <1>5, <1>7, <1>8, <1>9 DEF BatchInv
<1>11. EndInv'
  <2>1. CASE reader = "sending"
    <3>1. reader' = "closed" => Ending(Head(batch))
      BY <1>1, <2>1 DEF Ending
    <3>2. Head(batch) \in 1 .. Told'
      BY <1>2, <1>3, <1>5
    <3>3. reader' = "closed" => \E id \in 1 .. Told' : Ending(id)
      BY <3>1, <3>2
    <3>4. reader' \in {"sending", "closed"}
      BY <1>1, <2>1
    <3> QED BY <1>1, <3>3, <3>4 DEF EndInv, EndIsTold, Told, Ending
  <2>2. CASE reader = "last"
    <3>1. Told' + Len(batch') = Told + Len(batch) /\ reader' = "last"
      BY <1>1, <1>2, <1>3, <1>5, <2>2
    <3>2. \E id \in 1 .. Told' + Len(batch') : Ending(id)
      BY <2>2, <3>1 DEF StreamInv, EndInv
    <3> QED BY <1>1, <3>1, <3>2 DEF EndInv, EndIsTold, Ending
  <2> QED BY <1>1, <2>1, <2>2
<1>12. PollsInv'
  BY <1>1 DEF StreamInv, PollsInv
<1> QED BY <1>6, <1>10, <1>11, <1>12 DEF StreamInv

LEMMA EndOfPollStep == ASSUME StreamInv, LastSent \/ Heartbeat PROVE StreamInv'
<1>1. CASE LastSent
  <2>1. /\ reader = "last" /\ batch = <<>> /\ reader' = "closed"
        /\ UNCHANGED <<events, after, cursor, batch, polls, polled>>
    BY <1>1 DEF LastSent
  <2>2. Told \in Nat /\ Len(batch) = 0
    BY <2>1 DEF StreamInv, StreamTypeOK, Told
  <2>3. \E id \in 1 .. Told : Ending(id)
    BY <2>1, <2>2 DEF StreamInv, EndInv
  <2>4. EndInv'
    BY <2>1, <2>3 DEF EndInv, EndIsTold, Told, Ending
  <2> QED BY <2>1, <2>4 DEF StreamInv, StreamTypeOK, BatchInv, PollsInv, Told, Consecutive
<1>2. CASE Heartbeat
  <2>1. /\ reader = "sending" /\ polls' = polls + 1
        /\ reader' = IF polls + 1 < MaxPolls THEN "poll" ELSE "timeout"
        /\ UNCHANGED <<events, after, cursor, batch, polled>>
    BY <1>2 DEF Heartbeat
  <2>2. polls \in Nat /\ MaxPolls \in Nat /\ polls < MaxPolls
    BY <2>1, EventStreamAssumption DEF StreamInv, StreamTypeOK, PollsInv
  <2> QED BY <2>1, <2>2 DEF StreamInv, StreamTypeOK, BatchInv, EndInv, EndIsTold, PollsInv, Told,
                            Consecutive
<1> QED BY <1>1, <1>2

LEMMA StreamInvariant == StreamSpec => []StreamInv
<1>1. StreamInv /\ [StreamNext]_streamVars => StreamInv'
  <2> SUFFICES ASSUME StreamInv, [StreamNext]_streamVars PROVE StreamInv'
    OBVIOUS
  <2>1. CASE UNCHANGED streamVars
    BY <2>1 DEF streamVars, StreamInv, StreamTypeOK, BatchInv, EndInv, EndIsTold, PollsInv, Told,
                Consecutive, Ending
  <2> QED BY <2>1, EventStep, QueryStep, SendStep, EndOfPollStep DEF StreamNext
<1> QED BY <1>1, StreamInitInv, PTL DEF StreamSpec

(***************************************************************************)
(* Rows, connections and polls of a run's event stream are type correct    *)
(* for any number of events and clients.                                   *)
(***************************************************************************)
THEOREM StreamTypeCorrect == StreamSpec => []StreamTypeOK
BY StreamInvariant, PTL DEF StreamInv

(***************************************************************************)
(* A reader misses no event and gets none twice from polling, for any      *)
(* number of events and polls.                                             *)
(***************************************************************************)
THEOREM PollingIsInOrder == StreamSpec => []PolledInOrder
<1>1. StreamInv => PolledInOrder
  <2> SUFFICES ASSUME StreamInv PROVE PolledInOrder
    OBVIOUS
  <2>1. /\ polled \in Seq(EventIds) /\ DOMAIN polled = 1 .. Len(polled)
        /\ \A i \in 1 .. Len(polled) : polled[i] = after + i
    BY DEF StreamInv, StreamTypeOK, BatchInv, Consecutive
  <2>2. polled = [i \in DOMAIN polled |-> polled[i]]
    BY <2>1
  <2> QED BY <2>1, <2>2 DEF PolledInOrder
<1> QED BY <1>1, StreamInvariant, PTL

(***************************************************************************)
(* A stream that closes by itself has told the end.                        *)
(***************************************************************************)
THEOREM ClosedStreamToldTheEnd == StreamSpec => []EndIsTold
BY StreamInvariant, PTL DEF StreamInv, EndInv
-----------------------------------------------------------------------------
(***************************************************************************)
(* The quotas of the guardian.                                             *)
(***************************************************************************)
\* Who is asked has a quota.
AskedInv == \A s \in Slots : asked[s] # Nobody => Quota[asked[s]] > 0

QuotaInv == GuardianTypeOK /\ AskedInv /\ OvershootBounded

\* The charges that n audits may still bring.
Owed(n) == MaxCharge * n

LEMMA OwedIsMonotone ==
    ASSUME NEW m \in Nat, NEW n \in Nat, m <= n
    PROVE  Owed(m) \in Nat /\ Owed(n) \in Nat /\ Owed(m) <= Owed(n)
<1>1. MaxCharge \in Nat
  BY GuardianAssumption
<1>2. \A a, b, k \in Nat : a <= b => k * a \in Nat /\ k * b \in Nat /\ k * a <= k * b
  OBVIOUS
<1> QED BY <1>1, <1>2 DEF Owed

LEMMA OwedGrows ==
    ASSUME NEW n \in Nat
    PROVE  Owed(n) \in Nat /\ Owed(n + 1) = Owed(n) + MaxCharge /\ MaxCharge \in Nat \ {0}
<1>1. MaxCharge \in Nat \ {0}
  BY GuardianAssumption
<1>2. \A k \in Nat : k * n \in Nat /\ k * (n + 1) = k * n + k
  OBVIOUS
<1> QED BY <1>1, <1>2 DEF Owed

LEMMA InFlightIsFinite ==
    ASSUME NEW T \in SUBSET Slots
    PROVE  /\ IsFiniteSet(T) /\ Cardinality(T) \in Nat /\ Cardinality(Slots) \in Nat
           /\ Cardinality(T) <= Cardinality(Slots)
           /\ Owed(Cardinality(T)) \in Nat /\ Owed(Cardinality(Slots)) \in Nat
           /\ Owed(Cardinality(T)) <= Owed(Cardinality(Slots))
<1>1. IsFiniteSet(Slots)
  BY GuardianAssumption
<1>2. /\ IsFiniteSet(T) /\ Cardinality(T) \in Nat /\ Cardinality(Slots) \in Nat
      /\ Cardinality(T) <= Cardinality(Slots)
  BY <1>1, FS_Subset, FS_CardinalityType
<1> QED BY <1>2, OwedIsMonotone

\* A quota with what was used and what is owed.
Bounded(p) ==
    usage[p] + Owed(Cardinality(InFlightAt(p))) < Quota[p] + Owed(Cardinality(Slots))

LEMMA BoundedForAll == OvershootBounded <=> (~blind => \A p \in Providers : Bounded(p))
BY DEF OvershootBounded, Bounded, Owed

LEMMA UsageCapIsNat == UsageCap \in Nat
<1>1. "openai" \in Providers
  BY DEF Providers
<1> QED BY <1>1, GuardianAssumption

LEMMA QuotaInit == GuardianInit => QuotaInv
<1> SUFFICES ASSUME GuardianInit PROVE QuotaInv
  OBVIOUS
<1>1. GuardianTypeOK /\ AskedInv
  <2>1. /\ usage \in [Providers -> 0 .. UsageCap] /\ asked \in [Slots -> Providers \union {Nobody}]
        /\ \A s \in Slots : asked[s] = Nobody
    BY UsageCapIsNat DEF GuardianInit
  <2> QED BY <2>1 DEF GuardianInit, GuardianTypeOK, AskedInv
<1>2. ASSUME NEW p \in Providers PROVE Bounded(p)
  <2>1. InFlightAt(p) = {} /\ usage[p] = 0 /\ Quota[p] \in Nat
    BY GuardianAssumption DEF GuardianInit, InFlightAt, Nobody, Providers
  <2>2. Cardinality({}) = 0 /\ Cardinality(Slots) \in Nat /\ Cardinality(Slots) # 0
    BY FS_EmptySet, FS_CardinalityType, GuardianAssumption
  <2>3. Owed(0) = 0
    BY GuardianAssumption DEF Owed
  <2>4. Owed(1) = MaxCharge /\ Owed(1) <= Owed(Cardinality(Slots)) /\ Owed(Cardinality(Slots)) \in Nat
    BY <2>2, OwedIsMonotone, GuardianAssumption DEF Owed
  <2>5. MaxCharge \in Nat \ {0}
    BY GuardianAssumption
  <2> QED BY <2>1, <2>2, <2>3, <2>4, <2>5 DEF Bounded
<1> QED BY <1>1, <1>2, BoundedForAll DEF QuotaInv

\* An audit is sent while its provider is below its quota.
LEMMA AskKeepsQuota ==
    ASSUME QuotaInv, NEW s \in Slots, NEW p \in Providers, AskProvider(s, p),
           UNCHANGED <<main, usage, suspended>>, asked[s] = Nobody
    PROVE  QuotaInv'
<1>1. PICK read \in {usage[p], 0} : QuotaAllows(p, read) /\ blind' = (blind \/ read # usage[p])
  BY DEF AskProvider
<1>2. /\ asked' = [asked EXCEPT ![s] = p] /\ asked \in [Slots -> Providers \union {Nobody}]
      /\ asked' \in [Slots -> Providers \union {Nobody}]
  BY DEF AskProvider, QuotaInv, GuardianTypeOK
<1>3. GuardianTypeOK'
  BY <1>1, <1>2 DEF QuotaInv, GuardianTypeOK
<1>4. AskedInv'
  BY <1>1, <1>2 DEF QuotaInv, AskedInv, QuotaAllows
<1>5. ASSUME ~blind', NEW q \in Providers PROVE Bounded(q)'
  <2>1. ~blind /\ read = usage[p]
    BY <1>1, <1>5
  <2>2. InFlightAt(q)' \in SUBSET Slots /\ usage' = usage /\ usage[q] \in Nat /\ Quota[q] \in Nat
    BY GuardianAssumption DEF InFlightAt, QuotaInv, GuardianTypeOK
  <2>3. CASE q = p
    <3>1. usage[q] < Quota[q]
      BY <1>1, <2>1, <2>3 DEF QuotaAllows
    <3> QED BY <2>2, <3>1, InFlightIsFinite DEF Bounded
  <2>4. CASE q # p
    <3>1. InFlightAt(q)' = InFlightAt(q)
      BY <1>2, <2>4 DEF InFlightAt, Providers, Nobody
    <3>2. Bounded(q)
      BY <2>1, BoundedForAll DEF QuotaInv
    <3> QED BY <2>2, <3>1, <3>2 DEF Bounded
  <2> QED BY <2>3, <2>4
<1>6. OvershootBounded'
  BY <1>5 DEF OvershootBounded, Bounded, Owed
<1> QED BY <1>3, <1>4, <1>6 DEF QuotaInv

\* An audit that is over owes nothing any more.
LEMMA AnswerKeepsQuota ==
    ASSUME QuotaInv, NEW s \in Slots, AuditAnswered(s) \/ AuditFailed(s)
    PROVE  QuotaInv'
<1>1. PICK p \in Providers : p = asked[s]
  BY DEF QuotaInv, GuardianTypeOK, AuditAnswered, AuditFailed, Nobody
<1>2. /\ asked' = [asked EXCEPT ![s] = Nobody] /\ asked \in [Slots -> Providers \union {Nobody}]
      /\ asked' \in [Slots -> Providers \union {Nobody}] /\ UNCHANGED main
      /\ usage \in [Providers -> 0 .. UsageCap]
  BY DEF AuditAnswered, AuditFailed, QuotaInv, GuardianTypeOK
<1>3. MaxCharge \in Nat \ {0} /\ UsageCap \in Nat /\ \A q \in Providers : Quota[q] \in Nat
  BY GuardianAssumption DEF Providers
<1>4. /\ \/ usage' = usage
         \/ \E charge \in 1 .. MaxCharge : usage' = [usage EXCEPT ![p] = Capped(@ + charge)]
      /\ \/ UNCHANGED blind /\ suspended' \in {suspended, suspended \union {main}}
         \/ blind' = TRUE /\ UNCHANGED suspended
  BY <1>1 DEF AuditAnswered, AuditFailed
<1>5. /\ usage' \in [Providers -> 0 .. UsageCap]
      /\ usage'[p] <= usage[p] + MaxCharge
      /\ \A q \in Providers \ {p} : usage'[q] = usage[q]
  <2>1. CASE usage' = usage
    BY <1>2, <1>3, <2>1
  <2>2. ASSUME NEW charge \in 1 .. MaxCharge, usage' = [usage EXCEPT ![p] = Capped(@ + charge)]
        PROVE  <1>5!1 /\ <1>5!2 /\ <1>5!3
    <3>1. Capped(usage[p] + charge) \in 0 .. UsageCap /\ Capped(usage[p] + charge) <= usage[p] + MaxCharge
      BY <1>2, <1>3 DEF Capped
    <3> QED BY <1>2, <2>2, <3>1
  <2> QED BY <1>4, <2>1, <2>2
<1>6. GuardianTypeOK'
  BY <1>2, <1>4, <1>5 DEF QuotaInv, GuardianTypeOK
<1>7. AskedInv'
  BY <1>2 DEF QuotaInv, AskedInv
<1>8. ASSUME ~blind', NEW q \in Providers PROVE Bounded(q)'
  <2>1. ~blind /\ Bounded(q)
    BY <1>4, <1>8, BoundedForAll DEF QuotaInv
  <2>2. InFlightAt(q) \in SUBSET Slots /\ usage[q] \in Nat /\ usage'[q] \in Nat
    BY <1>2, <1>5, <1>3 DEF InFlightAt
  <2>3. CASE q = p
    <3>1. InFlightAt(q)' = InFlightAt(q) \ {s} /\ s \in InFlightAt(q)
      BY <1>1, <1>2, <2>3 DEF InFlightAt, Providers, Nobody
    <3>2. Cardinality(InFlightAt(q)') = Cardinality(InFlightAt(q)) - 1 /\ Cardinality(InFlightAt(q)') \in Nat
      BY <2>2, <3>1, InFlightIsFinite, FS_RemoveElement, FS_CardinalityType
    <3>3. Cardinality(InFlightAt(q)) \in Nat
      BY <2>2, InFlightIsFinite
    <3>4. Owed(Cardinality(InFlightAt(q))) = Owed(Cardinality(InFlightAt(q)')) + MaxCharge
             /\ Owed(Cardinality(InFlightAt(q)')) \in Nat
      <4>1. PICK n \in Nat : n = Cardinality(InFlightAt(q)') /\ n + 1 = Cardinality(InFlightAt(q))
        BY <3>2, <3>3
      <4> QED BY <4>1, OwedGrows
    <3>5. Owed(Cardinality(Slots)) \in Nat
      BY <2>2, InFlightIsFinite
    <3> QED BY <1>3, <1>5, <2>1, <2>2, <2>3, <3>4, <3>5 DEF Bounded, Owed
  <2>4. CASE q # p
    <3>1. InFlightAt(q)' = InFlightAt(q)
      BY <1>1, <1>2, <2>4 DEF InFlightAt, Providers, Nobody
    <3> QED BY <1>5, <2>1, <2>4, <3>1 DEF Bounded, Owed
  <2> QED BY <2>3, <2>4
<1>9. OvershootBounded'
  BY <1>8 DEF OvershootBounded, Bounded, Owed
<1> QED BY <1>6, <1>7, <1>9 DEF QuotaInv

\* A new day with audits under way: their provider has a quota.
LEMMA NewDayKeepsQuota == ASSUME QuotaInv, UsageOfNewDay PROVE QuotaInv'
<1>1. /\ usage' = [p \in Providers |-> 0] /\ blind' = FALSE /\ UNCHANGED <<main, asked, suspended>>
      /\ MaxCharge \in Nat \ {0} /\ \A q \in Providers : Quota[q] \in Nat
  BY GuardianAssumption DEF UsageOfNewDay, Providers
<1>2. GuardianTypeOK' /\ AskedInv'
  <2>1. usage' \in [Providers -> 0 .. UsageCap]
    BY <1>1, UsageCapIsNat
  <2> QED BY <1>1, <2>1 DEF QuotaInv, GuardianTypeOK, AskedInv
<1>3. ASSUME NEW q \in Providers PROVE Bounded(q)'
  <2>1. InFlightAt(q)' = InFlightAt(q) /\ InFlightAt(q) \in SUBSET Slots /\ usage'[q] = 0
    BY <1>1 DEF InFlightAt
  <2>2. CASE InFlightAt(q) # {}
    <3>1. Quota[q] > 0
      BY <2>2 DEF QuotaInv, AskedInv, InFlightAt, Providers, Nobody
    <3> QED BY <1>1, <2>1, <3>1, InFlightIsFinite DEF Bounded, Owed
  <2>3. CASE InFlightAt(q) = {}
    <3>1. Cardinality({}) = 0 /\ Cardinality(Slots) \in Nat /\ Cardinality(Slots) # 0
      BY FS_EmptySet, FS_CardinalityType, GuardianAssumption
    <3>2. Owed(0) = 0 /\ Owed(1) = MaxCharge
      BY <1>1 DEF Owed
    <3>3. Owed(1) <= Owed(Cardinality(Slots)) /\ Owed(Cardinality(Slots)) \in Nat
      BY <3>1, OwedIsMonotone
    <3>4. usage'[q] + Owed(Cardinality(InFlightAt(q)')) = 0
      BY <2>1, <2>3, <3>1, <3>2
    <3> QED BY <1>1, <3>2, <3>3, <3>4 DEF Bounded, Owed
  <2> QED BY <2>2, <2>3
<1>4. OvershootBounded'
  BY <1>3 DEF OvershootBounded, Bounded, Owed
<1> QED BY <1>2, <1>4 DEF QuotaInv

LEMMA QuotaStep == QuotaInv /\ [GuardianNext]_guardianVars => QuotaInv'
<1> SUFFICES ASSUME QuotaInv, [GuardianNext]_guardianVars
             PROVE  QuotaInv'
  OBVIOUS
<1>1. ASSUME NEW s \in Slots, AuditByMain(s) \/ AuditCode(s) PROVE QuotaInv'
  <2>1. asked[s] = Nobody /\ UNCHANGED <<main, usage, suspended>> /\ main \in Providers
    BY <1>1 DEF AuditByMain, AuditCode, QuotaInv, GuardianTypeOK
  <2>2. \E p \in Providers : AskProvider(s, p)
    BY <1>1, <2>1 DEF AuditByMain, AuditCode, StandIn, Providers
  <2> QED BY <2>1, <2>2, AskKeepsQuota
<1>2. ASSUME NEW p \in Providers, CircuitReset(p) PROVE QuotaInv'
  BY <1>2 DEF CircuitReset, QuotaInv, GuardianTypeOK, AskedInv, OvershootBounded, InFlightAt
<1>3. CASE UNCHANGED guardianVars
  BY <1>3 DEF guardianVars, QuotaInv, GuardianTypeOK, AskedInv, OvershootBounded, InFlightAt
<1> QED BY <1>1, <1>2, <1>3, AnswerKeepsQuota, NewDayKeepsQuota DEF GuardianNext

LEMMA QuotaInvariant == GuardianSpec => []QuotaInv
BY QuotaInit, QuotaStep, PTL DEF GuardianSpec

(***************************************************************************)
(* The overshoot is bounded by what the slots can be charged, for any      *)
(* number of slots, quotas and charges.                                    *)
(***************************************************************************)
THEOREM QuotaOvershootIsBounded == GuardianSpec => []OvershootBounded
BY QuotaInvariant, PTL DEF QuotaInv
-----------------------------------------------------------------------------
(***************************************************************************)
(* The checkpoints of the first application.                               *)
(***************************************************************************)
\* Until run() is called beside a loop that a reset left behind, one loop is
\* there, and the input it is woken with was given at this visit.
VisitInv ==
    ~doubled => /\ \A l, k \in Loops : ~At(l, "off") /\ ~At(k, "off") => l = k
                /\ \A l \in Loops : At(l, "woken") /\ input # NoInput => given

\* A loop that leaves a state knows the next one.
LeavingInv == \A l \in Loops : At(l, "leaving") => runs[l].to \in FsmStates

CheckpointInv == PipelineTypeOK /\ LeavingInv /\ VisitInv

LEMMA PipelineStates ==
    /\ \A t \in Pipeline : t[3] \in FsmStates
    /\ "INIT" \in FsmStates /\ "ERROR" \in FsmStates
<1>1. /\ <<"INIT", "start", "AUDIO_ANALYSIS">> \in Pipeline
      /\ <<"AUDIO_ANALYSIS", "analysis_failed", "ERROR">> \in Pipeline
  BY DEF Pipeline
<1>2. \A t \in Pipeline : t[1] \in FsmStates /\ t[3] \in FsmStates
  BY DEF FsmStates
<1>3. /\ <<"INIT", "start", "AUDIO_ANALYSIS">>[1] = "INIT"
      /\ <<"AUDIO_ANALYSIS", "analysis_failed", "ERROR">>[3] = "ERROR"
  OBVIOUS
<1> QED BY <1>1, <1>2, <1>3

RunPlace == [at : {"off", "top", "waiting", "woken", "leaving", "working"}, to : FsmStates \union {"none"}]

LegalMove(l, r) ==
    /\ runs' = [runs EXCEPT ![l] = r]
    /\ r.at # "woken" /\ (r.at = "leaving" => r.to \in FsmStates)

\* The step of a loop that is there: it stays or ends, and does not wake itself.
LEMMA LoopMoves ==
    ASSUME CheckpointInv, NEW l \in Loops, ~At(l, "off"), NEW r \in RunPlace,
           runs' = [runs EXCEPT ![l] = r], UNCHANGED doubled,
           r.at # "woken", r.at = "leaving" => r.to \in FsmStates,
           fsm' \in FsmStates, input' \in Inputs \union {NoInput},
           isRunning' \in BOOLEAN, paused' \in BOOLEAN, set' \in BOOLEAN, given' \in BOOLEAN
    PROVE  CheckpointInv'
<1>1. runs \in [Loops -> RunPlace] /\ runs'[l] = r /\ \A k \in Loops \ {l} : runs'[k] = runs[k]
  BY DEF CheckpointInv, PipelineTypeOK, RunPlace
<1>2. runs' \in [Loops -> RunPlace]
  BY <1>1
<1>3. PipelineTypeOK'
  BY <1>2 DEF CheckpointInv, PipelineTypeOK, RunPlace
<1>4. VisitInv'
  <2> SUFFICES ASSUME ~doubled PROVE VisitInv'
    BY DEF VisitInv
  <2>1. \A k \in Loops \ {l} : At(k, "off")'
    BY <1>1 DEF CheckpointInv, VisitInv, At
  <2> QED BY <1>1, <2>1 DEF VisitInv, At
<1>5. LeavingInv'
  BY <1>1 DEF CheckpointInv, LeavingInv, At
<1> QED BY <1>3, <1>4, <1>5 DEF CheckpointInv

LEMMA CheckpointStep == CheckpointInv /\ [PipelineNext]_pipelineVars => CheckpointInv'
<1> SUFFICES ASSUME CheckpointInv, [PipelineNext]_pipelineVars PROVE CheckpointInv'
  OBVIOUS
<1>0. /\ runs \in [Loops -> RunPlace] /\ fsm \in FsmStates /\ input \in Inputs \union {NoInput}
      /\ isRunning \in BOOLEAN /\ paused \in BOOLEAN /\ set \in BOOLEAN /\ given \in BOOLEAN
      /\ doubled \in BOOLEAN
  BY DEF CheckpointInv, PipelineTypeOK, RunPlace
<1>1. ASSUME NEW l \in Loops, RunBegins(l) PROVE CheckpointInv'
  <2>1. /\ runs' = [runs EXCEPT ![l] = [at |-> "top", to |-> "none"]] /\ isRunning' = TRUE /\ paused' = FALSE
        /\ doubled' = (doubled \/ \E k \in Loops \ {l} : ~At(k, "off"))
        /\ UNCHANGED <<fsm, input, set, given>>
    BY <1>1 DEF RunBegins, Moves
  <2>2. [at |-> "top", to |-> "none"] \in RunPlace
    BY DEF RunPlace
  <2>3. PipelineTypeOK'
    BY <1>0, <2>1, <2>2 DEF PipelineTypeOK, RunPlace
  <2>4. runs'[l].at = "top" /\ \A k \in Loops \ {l} : runs'[k] = runs[k]
    BY <1>0, <2>1
  <2>5. VisitInv'
    <3> SUFFICES ASSUME ~doubled' PROVE VisitInv'
      BY DEF VisitInv
    <3>1. \A k \in Loops \ {l} : At(k, "off")'
      BY <2>1, <2>4 DEF At
    <3>2. ~At(l, "woken")'
      BY <2>4 DEF At
    <3> QED BY <3>1, <3>2 DEF VisitInv, At
  <2>6. LeavingInv'
    BY <2>4 DEF CheckpointInv, LeavingInv, At
  <2> QED BY <2>3, <2>5, <2>6 DEF CheckpointInv
<1>2. ASSUME NEW l \in Loops,
             \/ RunEnds(l) \/ WaitForUser(l) \/ Woken(l) \/ Leave(l)
             \/ Work(l) \/ WorkSucceeds(l) \/ WorkFails(l) \/ WorkRaises(l)
      PROVE  CheckpointInv'
  <2>1. ~At(l, "off") /\ UNCHANGED doubled
    BY <1>2 DEF RunEnds, WaitForUser, Goes, Woken, Leave, Work, WorkSucceeds, WorkFails, WorkRaises, At
  <2>2. /\ fsm' \in FsmStates /\ input' \in Inputs \union {NoInput}
        /\ isRunning' \in BOOLEAN /\ paused' \in BOOLEAN /\ set' \in BOOLEAN /\ given' \in BOOLEAN
    <3>1. CASE Leave(l)
      <4>1. runs[l] \in RunPlace /\ fsm' = runs[l].to /\ At(l, "leaving")
        BY <1>0, <3>1 DEF Leave
      <4>2. fsm' \in FsmStates
        BY <4>1 DEF CheckpointInv, LeavingInv
      <4> QED BY <1>0, <3>1, <4>2 DEF Leave
    <3>2. CASE RunEnds(l) \/ WaitForUser(l) \/ Woken(l) \/ Work(l)
      BY <1>0, <3>2 DEF RunEnds, WaitForUser, Woken, Work, Forgotten
    <3>3. CASE WorkSucceeds(l) \/ WorkFails(l) \/ WorkRaises(l)
      <4>1. (fsm' = fsm /\ given' = given) \/ (fsm' = "ERROR" /\ given' = FALSE)
        BY <3>3 DEF WorkSucceeds, WorkFails, WorkRaises
      <4>2. isRunning' \in {isRunning, FALSE} /\ UNCHANGED <<paused, input, set>>
        BY <3>3 DEF WorkSucceeds, WorkFails, WorkRaises
      <4> QED BY <1>0, <4>1, <4>2, PipelineStates
    <3> QED BY <1>2, <3>1, <3>2, <3>3
  <2>3. \E r \in RunPlace : LegalMove(l, r)
    <3>1. /\ \A place \in {"off", "top", "waiting", "working"} :
                [at |-> place, to |-> "none"] \in RunPlace /\ [at |-> place, to |-> "none"].at = place
          /\ \A to \in FsmStates :
                /\ [at |-> "leaving", to |-> to] \in RunPlace
                /\ [at |-> "leaving", to |-> to].at = "leaving" /\ [at |-> "leaving", to |-> to].to = to
      BY DEF RunPlace
    <3>2. ASSUME NEW place \in {"off", "top", "waiting", "working"}, Moves(l, place)
          PROVE  \E r \in RunPlace : LegalMove(l, r)
      BY <3>1, <3>2 DEF Moves, LegalMove
    <3>3. ASSUME NEW trigger, Transit(l, trigger)
          PROVE  \E r \in RunPlace : LegalMove(l, r)
      <4>1. CASE \E t \in Pipeline : runs' = [runs EXCEPT ![l] = [at |-> "leaving", to |-> t[3]]]
        BY <3>1, <4>1, PipelineStates DEF LegalMove
      <4>2. CASE Moves(l, "top")
        BY <3>2, <4>2
      <4> QED BY <3>3, <4>1, <4>2 DEF Transit
    <3>4. CASE RunEnds(l) \/ WaitForUser(l) \/ Leave(l) \/ Work(l) \/ WorkRaises(l)
      BY <3>2, <3>4 DEF RunEnds, WaitForUser, Leave, Work, WorkRaises, Forgotten
    <3>5. CASE Woken(l) \/ WorkSucceeds(l) \/ WorkFails(l)
      BY <3>2, <3>3, <3>5 DEF Woken, WorkSucceeds, WorkFails
    <3> QED BY <1>2, <3>4, <3>5
  <2> QED BY <2>1, <2>2, <2>3, LoopMoves DEF LegalMove
<1>3. ASSUME NEW trigger \in Inputs, UserInput(trigger) PROVE CheckpointInv'
  <2>1. \A l \in Loops : runs'[l] \in RunPlace /\ (At(l, "off")' => At(l, "off"))
    BY <1>0, <1>3 DEF UserInput, At, RunPlace
  <2>2. runs' \in [Loops -> RunPlace]
    BY <1>3, <2>1 DEF UserInput
  <2>3. PipelineTypeOK'
    BY <1>0, <1>3, <2>2 DEF UserInput, PipelineTypeOK, RunPlace
  <2>4. \A l \in Loops : At(l, "off") => At(l, "off")'
    BY <1>0, <1>3 DEF UserInput, At
  <2>5. VisitInv'
    BY <1>3, <2>1, <2>4 DEF UserInput, CheckpointInv, VisitInv
  <2>6. LeavingInv'
    BY <1>0, <1>3 DEF UserInput, CheckpointInv, LeavingInv, At
  <2> QED BY <2>3, <2>5, <2>6 DEF CheckpointInv
<1>4. CASE UserPauses
  BY <1>0, <1>4 DEF UserPauses, CheckpointInv, PipelineTypeOK, VisitInv, LeavingInv, At
<1>5. CASE UserResets
  BY <1>0, <1>5, PipelineStates DEF UserResets, CheckpointInv, PipelineTypeOK, VisitInv, LeavingInv, At
<1>6. CASE UNCHANGED pipelineVars
  BY <1>6 DEF pipelineVars, CheckpointInv, PipelineTypeOK, VisitInv, LeavingInv, At
<1> QED BY <1>1, <1>2, <1>3, <1>4, <1>5, <1>6 DEF PipelineNext

LEMMA CheckpointStart == PipelineInit => CheckpointInv
<1> SUFFICES ASSUME PipelineInit PROVE CheckpointInv
  OBVIOUS
<1>1. Off \in RunPlace /\ Off.at = "off"
  BY DEF Off, RunPlace
<1>2. runs \in [Loops -> RunPlace] /\ \A l \in Loops : At(l, "off")
  BY <1>1 DEF PipelineInit, At
<1>3. VisitInv /\ LeavingInv
  BY <1>2 DEF VisitInv, LeavingInv, At
<1>4. PipelineTypeOK
  BY <1>2, PipelineStates DEF PipelineInit, PipelineTypeOK, RunPlace
<1> QED BY <1>3, <1>4 DEF CheckpointInv

(***************************************************************************)
(* A checkpoint is confirmed by what the user says there, for any number   *)
(* of loops, inputs, pauses and resets.                                    *)
(***************************************************************************)
THEOREM CheckpointIsConfirmedHere == PipelineSpec => ConfirmedHere
<1> DEFINE Here == \A l \in Loops :
         ~doubled /\ At(l, "woken") /\ runs'[l].at = "leaving" /\ fsm \in Checkpoints => given
<1>1. PipelineInit => CheckpointInv
  BY CheckpointStart
<1>2. ASSUME CheckpointInv, PipelineNext PROVE Here
  <2> SUFFICES ASSUME NEW l \in Loops, ~doubled, At(l, "woken"), runs'[l].at = "leaving" PROVE given
    OBVIOUS
  <2>1. runs \in [Loops -> RunPlace]
    BY <1>2 DEF CheckpointInv, PipelineTypeOK, RunPlace
  <2>2. \A k \in Loops \ {l} : At(k, "off")
    BY <1>2 DEF CheckpointInv, VisitInv, At
  <2>3. CASE Woken(l)
    <3>1. input # NoInput
      BY <2>1, <2>3 DEF Woken, Moves
    <3> QED BY <1>2, <3>1 DEF CheckpointInv, VisitInv
  <2>4. ASSUME NEW k \in Loops, RunBegins(k) PROVE FALSE
    BY <2>1, <2>4 DEF RunBegins, Moves, At
  <2>5. ASSUME NEW k \in Loops, \/ RunEnds(k) \/ WaitForUser(k) \/ Leave(k) \/ Work(k)
                                \/ WorkSucceeds(k) \/ WorkFails(k) \/ WorkRaises(k)
        PROVE  FALSE
    <3>1. k # l /\ ~At(k, "off")
      BY <2>5 DEF RunEnds, WaitForUser, Goes, Leave, Work, WorkSucceeds, WorkFails, WorkRaises, At
    <3> QED BY <2>2, <3>1
  <2>6. ASSUME NEW k \in Loops, Woken(k), k # l PROVE FALSE
    BY <2>2, <2>6 DEF Woken, At
  <2>7. ASSUME \/ \E trigger \in Inputs : UserInput(trigger)
               \/ UserPauses \/ UserResets
        PROVE  FALSE
    BY <2>1, <2>7 DEF UserInput, UserPauses, UserResets, At
  <2> QED BY <1>2, <2>3, <2>4, <2>5, <2>6, <2>7 DEF PipelineNext
<1>3. CheckpointInv /\ [PipelineNext]_pipelineVars => [Here]_pipelineVars
  BY <1>2
<1> QED BY <1>1, <1>3, CheckpointStep, PTL DEF PipelineSpec, ConfirmedHere

-----------------------------------------------------------------------------
(***************************************************************************)
(* The relay, for any texts and sentences, with stops, restarts, and       *)
(* connections that break.                                                 *)
(***************************************************************************)
\* A text in hand goes on where its last sentence was sent.
HandInv ==
    inHand # NoSpeech =>
        /\ inHand \in accepted /\ inHand \notin cut
        /\ said = Len(spoken[inHand]) /\ said < Cards(inHand) /\ edgeTts

\* What waits has been accepted, waits once, and nothing of it was sent.
WaitingInv ==
    /\ IsInjective(waiting)
    /\ ToSet(waiting) \subseteq accepted \ (cut \union {inHand})
    /\ \A m \in ToSet(waiting) : spoken[m] = <<>>
    /\ \A m \in Speeches \ accepted : spoken[m] = <<>>

\* When speech is not allowed nothing was sent, and no timer is armed.
SilentInv == ~edgeTts => timers = 0 /\ \A m \in Speeches : spoken[m] = <<>>

RelayInv ==
    /\ RelayTypeOK
    /\ dialing => dials < MaxDials
    /\ SilentInv /\ HandInv /\ WaitingInv /\ SpeechAccountedFor

LEMMA CardsType == \A m \in Speeches : Cards(m) \in Nat /\ Cards(m) <= CardLimit
BY RelayAssumption DEF RelayAssumption, Cards

\* Numbers in order: appending the next one.
LEMMA CountsOn ==
    ASSUME NEW q \in Seq(Nat), q = [i \in DOMAIN q |-> i]
    PROVE  /\ Append(q, Len(q) + 1) \in Seq(Nat) /\ Len(Append(q, Len(q) + 1)) = Len(q) + 1
           /\ Append(q, Len(q) + 1) = [i \in DOMAIN Append(q, Len(q) + 1) |-> i]
<1> DEFINE r == Append(q, Len(q) + 1)
<1>1. /\ r \in Seq(Nat) /\ Len(q) \in Nat /\ Len(r) = Len(q) + 1
      /\ DOMAIN q = 1 .. Len(q) /\ DOMAIN r = 1 .. Len(q) + 1
      /\ \A i \in 1 .. Len(q) : r[i] = q[i]
      /\ r[Len(q) + 1] = Len(q) + 1
  OBVIOUS
<1>2. \A i \in 1 .. Len(q) : q[i] = i
  BY <1>1
<1> HIDE DEF r
<1>3. \A i \in DOMAIN r : r[i] = i
  BY <1>1, <1>2
<1>4. r = [i \in DOMAIN r |-> i]
  BY <1>1, <1>3
<1> QED BY <1>1, <1>4 DEF r

\* The first element leaves a sequence without repetitions.
LEMMA HeadLeaves ==
    ASSUME NEW S, NEW q \in Seq(S), q # <<>>, IsInjective(q)
    PROVE  /\ Head(q) \in S /\ Head(q) \in ToSet(q)
           /\ Tail(q) \in Seq(S) /\ IsInjective(Tail(q))
           /\ ToSet(Tail(q)) = ToSet(q) \ {Head(q)}
<1> DEFINE r == Tail(q)
           m == Len(q)
<1>1. /\ m \in Nat \ {0} /\ DOMAIN q = 1 .. m /\ Head(q) = q[1] /\ q[1] \in S
      /\ r \in Seq(S) /\ DOMAIN r = 1 .. m - 1
      /\ \A i \in 1 .. m - 1 : r[i] = q[i + 1]
  OBVIOUS
<1> HIDE DEF r, m
<1>2. IsInjective(r)
  <2> SUFFICES ASSUME NEW a \in DOMAIN r, NEW b \in DOMAIN r, r[a] = r[b] PROVE a = b
    BY DEF IsInjective
  <2>1. a + 1 \in DOMAIN q /\ b + 1 \in DOMAIN q /\ q[a + 1] = q[b + 1]
    BY <1>1
  <2>2. a + 1 = b + 1
    BY <2>1 DEF IsInjective
  <2> QED BY <2>2, <1>1
<1>3. ASSUME NEW i \in 1 .. m - 1 PROVE r[i] \in ToSet(q) \ {Head(q)}
  <2>1. i + 1 \in DOMAIN q /\ 1 \in DOMAIN q /\ i + 1 # 1 /\ r[i] = q[i + 1]
    BY <1>1
  <2>2. q[i + 1] # q[1]
    BY <2>1 DEF IsInjective
  <2>3. q[i + 1] \in ToSet(q)
    BY <2>1 DEF ToSet
  <2> QED BY <1>1, <2>1, <2>2, <2>3
<1>4. ASSUME NEW i \in 1 .. m, i # 1 PROVE q[i] \in ToSet(r)
  <2>1. i - 1 \in DOMAIN r /\ r[i - 1] = q[i]
    BY <1>1, <1>4
  <2> QED BY <2>1 DEF ToSet
<1>5. ToSet(r) = ToSet(q) \ {Head(q)}
  <2>1. ToSet(r) \subseteq ToSet(q) \ {Head(q)}
    BY <1>1, <1>3 DEF ToSet
  <2>2. ASSUME NEW x \in ToSet(q), x # Head(q) PROVE x \in ToSet(r)
    <3>1. PICK i \in 1 .. m : x = q[i]
      BY <1>1 DEF ToSet
    <3> QED BY <1>1, <1>4, <2>2, <3>1
  <2> QED BY <2>1, <2>2
<1>6. Head(q) \in ToSet(q)
  BY <1>1 DEF ToSet
<1> QED BY <1>1, <1>2, <1>5, <1>6 DEF r

\* The last place of such a sequence is taken.
LEMMA NewOneJoins ==
    ASSUME NEW S, NEW q \in Seq(S), NEW c \in S, IsInjective(q), c \notin ToSet(q)
    PROVE  /\ Append(q, c) \in Seq(S) /\ IsInjective(Append(q, c))
           /\ ToSet(Append(q, c)) = ToSet(q) \union {c}
           /\ Append(q, c) # <<>>
           /\ q # <<>> => Head(Append(q, c)) = Head(q)
<1> DEFINE r == Append(q, c)
<1>1. /\ r \in Seq(S) /\ Len(q) \in Nat /\ DOMAIN q = 1 .. Len(q) /\ DOMAIN r = 1 .. Len(q) + 1
      /\ \A k \in 1 .. Len(q) : r[k] = q[k]
      /\ r[Len(q) + 1] = c
  OBVIOUS
<1>2. \A k \in 1 .. Len(q) : q[k] # c
  BY <1>1 DEF ToSet
<1>3. r # <<>>
  <2>1. Len(r) = Len(q) + 1 /\ Len(<<>>) = 0
    OBVIOUS
  <2> HIDE DEF r
  <2> QED BY <1>1, <2>1
<1> HIDE DEF r
<1>6. q # <<>> => Head(r) = Head(q)
  BY <1>1
<1>4. IsInjective(r)
  <2> SUFFICES ASSUME NEW a \in DOMAIN r, NEW b \in DOMAIN r, r[a] = r[b] PROVE a = b
    BY DEF IsInjective
  <2> QED BY <1>1, <1>2 DEF IsInjective
<1>5. ToSet(r) = ToSet(q) \union {c}
  <2>1. ToSet(r) \subseteq ToSet(q) \union {c}
    BY <1>1 DEF ToSet
  <2>2. ToSet(q) \subseteq ToSet(r) /\ c \in ToSet(r)
    BY <1>1 DEF ToSet
  <2> QED BY <2>1, <2>2
<1> QED BY <1>1, <1>3, <1>4, <1>5, <1>6 DEF r

\* The connection changes, or the timer: no text does.
LEMMA SpeechesRest ==
    ASSUME RelayInv, RelayTypeOK', dialing' => dials' < MaxDials, timers' = timers \/ timers > 0,
           UNCHANGED <<edgeTts, waiting, inHand, said, spoken, accepted, cut>>
    PROVE  RelayInv'
<1>1. SilentInv' /\ (~edgeTts => timers' = timers)
  <2>1. CASE edgeTts
    <3>1. edgeTts'
      BY <2>1
    <3> QED BY <2>1, <3>1 DEF SilentInv
  <2>2. CASE ~edgeTts
    <3>1. timers = 0 /\ \A m \in Speeches : spoken[m] = <<>>
      BY <2>2 DEF RelayInv, SilentInv
    <3>2. timers' = timers
      BY <3>1
    <3> QED BY <3>1, <3>2 DEF SilentInv
  <2> QED BY <2>1, <2>2
<1> QED BY <1>1 DEF RelayInv, HandInv, WaitingInv, SpeechAccountedFor, Cards

LEMMA RelayStep == ASSUME RelayInv, [RelayNext]_relayVars PROVE RelayInv'
<1> USE RelayAssumption
<1>1. /\ RelayTypeOK /\ SilentInv /\ HandInv /\ WaitingInv /\ SpeechAccountedFor
      /\ dialing => dials < MaxDials
  BY DEF RelayInv
<1>2. CASE RelayStarts
  <2>1. ToSet(waiting) \subseteq accepted
    BY <1>1 DEF WaitingInv
  <2>2. waiting' = <<>> /\ waiting' \in Seq(Speeches) /\ ToSet(waiting') = {} /\ IsInjective(waiting')
    BY <1>2 DEF RelayStarts, ToSet, IsInjective
  <2>3. RelayTypeOK'
    BY <1>1, <1>2, <2>1, <2>2 DEF RelayTypeOK, RelayStarts, link, speech
  <2>4. /\ UNCHANGED <<edgeTts, inHand, said, timers, spoken, accepted, dialing, dials>>
        /\ cut' = cut \union ToSet(waiting)
    BY <1>2 DEF RelayStarts, link, speech
  <2>5. SilentInv' /\ HandInv' /\ WaitingInv'
    BY <1>1, <2>2, <2>4 DEF SilentInv, HandInv, WaitingInv, Cards
  <2>6. SpeechAccountedFor'
    BY <1>1, <2>4 DEF SpeechAccountedFor, Cards
  <2> QED BY <1>1, <2>3, <2>4, <2>5, <2>6 DEF RelayInv
<1>3. CASE RelayStops
  <2>1. /\ UNCHANGED <<edgeTts, waiting, timers, spoken, accepted, dials>> /\ inHand' = NoSpeech /\ ~dialing'
        /\ cut' = IF inHand = NoSpeech THEN cut ELSE cut \union {inHand}
    BY <1>3 DEF RelayStops
  <2>2. RelayTypeOK'
    <3>1. /\ running' = FALSE /\ linked' = FALSE /\ socket' = 0 /\ pinging' = 0 /\ said' = 0
          /\ UNCHANGED <<starts, broken, timers>> /\ dialing' = FALSE
      BY <1>3 DEF RelayStops
    <3>2. cut' \subseteq accepted
      BY <1>1, <2>1 DEF HandInv, RelayTypeOK
    <3>3. 0 \in 0 .. dials
      BY <1>1 DEF RelayTypeOK
    <3> QED BY <1>1, <2>1, <3>1, <3>2, <3>3 DEF RelayTypeOK
  <2>3. ToSet(waiting) \subseteq Speeches
    BY <1>1 DEF WaitingInv, RelayTypeOK
  <2>4. SilentInv' /\ HandInv' /\ WaitingInv'
    BY <1>1, <2>1, <2>3 DEF SilentInv, HandInv, WaitingInv
  <2>5. SpeechAccountedFor'
    BY <1>1, <2>1 DEF SpeechAccountedFor, Cards
  <2> QED BY <2>1, <2>2, <2>4, <2>5 DEF RelayInv
<1>4. ASSUME NEW m \in Speeches, Say(m) PROVE RelayInv'
  <2>1. /\ waiting' = Append(waiting, m) /\ m \notin accepted /\ accepted' = accepted \union {m}
        /\ UNCHANGED <<edgeTts, inHand, said, timers, spoken, cut, dialing, dials>>
    BY <1>4 DEF Say, link, speech
  <2>2. m \notin ToSet(waiting) /\ m # inHand /\ m \notin cut /\ m # NoSpeech
    BY <1>1, <2>1 DEF WaitingInv, HandInv, RelayTypeOK
  <2>3. /\ waiting' \in Seq(Speeches) /\ IsInjective(waiting')
        /\ ToSet(waiting') = ToSet(waiting) \union {m}
    BY <1>1, <2>1, <2>2, NewOneJoins DEF WaitingInv, RelayTypeOK
  <2>4. RelayTypeOK'
    BY <1>1, <1>4, <2>1, <2>3 DEF RelayTypeOK, Say, link, speech
  <2>5. SilentInv' /\ HandInv' /\ WaitingInv'
    BY <1>1, <2>1, <2>2, <2>3 DEF SilentInv, HandInv, WaitingInv, Cards
  <2>6. spoken[m] = <<>>
    BY <1>1, <2>1 DEF WaitingInv
  <2>7. SpeechAccountedFor'
    <3>1. ASSUME NEW k \in accepted', k # m
          PROVE  /\ spoken'[k] = [i \in DOMAIN spoken'[k] |-> i]
                 /\ IF edgeTts'
                    THEN Len(spoken'[k]) < Cards(k)
                             => k \in ToSet(waiting') \union {inHand'} \union cut'
                    ELSE spoken'[k] = <<>> /\ timers' = 0
      BY <1>1, <2>1, <2>3, <3>1 DEF SpeechAccountedFor
    <3>2. <<>> = [i \in DOMAIN <<>> |-> i]
      OBVIOUS
    <3>3. m \in ToSet(waiting') /\ spoken'[m] = <<>> /\ (~edgeTts' => timers' = 0)
      BY <1>1, <2>1, <2>3, <2>6 DEF SilentInv
    <3>4. ASSUME NEW k \in accepted'
          PROVE  /\ spoken'[k] = [i \in DOMAIN spoken'[k] |-> i]
                 /\ IF edgeTts'
                    THEN Len(spoken'[k]) < Cards(k)
                             => k \in ToSet(waiting') \union {inHand'} \union cut'
                    ELSE spoken'[k] = <<>> /\ timers' = 0
      <4>1. CASE k = m
        <5>1. spoken'[k] = <<>> /\ k \in ToSet(waiting') /\ (~edgeTts' => timers' = 0)
          BY <3>3, <4>1
        <5>2. spoken'[k] = [i \in DOMAIN spoken'[k] |-> i]
          BY <3>2, <5>1
        <5> QED BY <5>1, <5>2
      <4>2. CASE k # m
        BY <3>1, <4>2
      <4> QED BY <4>1, <4>2
    <3> QED BY <3>4, Zenon DEF SpeechAccountedFor
  <2> QED BY <1>1, <2>1, <2>4, <2>5, <2>7 DEF RelayInv
<1>5. CASE Dial \/ LinkBreaks \/ Ping \/ PingEnds
  <2>1. UNCHANGED <<edgeTts, running, starts, waiting, socket, dials, inHand, said, timers, spoken,
                    accepted, cut>>
    BY <1>5 DEF Dial, LinkBreaks, Ping, PingEnds, speech, history
  <2>2. linked' \in BOOLEAN
    BY <1>1, <1>5 DEF Dial, LinkBreaks, Ping, PingEnds, RelayTypeOK
  <2>3. dialing' \in BOOLEAN /\ (dialing' => dials < MaxDials)
    <3>1. (dialing' = TRUE /\ dials < MaxDials) \/ dialing' = dialing
      BY <1>5 DEF Dial, LinkBreaks, Ping, PingEnds
    <3>2. dialing \in BOOLEAN
      BY <1>1 DEF RelayTypeOK
    <3>3. dialing => dials < MaxDials
      BY <1>1
    <3>4. CASE dialing' = TRUE /\ dials < MaxDials
      BY <3>4
    <3>5. CASE dialing' = dialing
      BY <3>2, <3>3, <3>5, Zenon
    <3> QED BY <3>1, <3>4, <3>5
  <2>4. pinging' \in {0, pinging, socket}
    BY <1>5 DEF Dial, LinkBreaks, Ping, PingEnds
  <2>5. broken' = broken \/ (socket # 0 /\ broken' = broken \union {socket})
    BY <1>5 DEF Dial, LinkBreaks, Ping, PingEnds
  <2>6. /\ dials \in Nat /\ socket \in 0 .. dials /\ pinging \in 0 .. dials /\ broken \subseteq 1 .. dials
    BY <1>1 DEF RelayTypeOK
  <2>7. pinging' \in 0 .. dials /\ broken' \subseteq 1 .. dials
    <3>1. 0 \in 0 .. dials /\ (socket # 0 => socket \in 1 .. dials)
      BY <2>6
    <3> QED BY <2>4, <2>5, <2>6, <3>1
  <2>8. RelayTypeOK'
    BY <1>1, <2>1, <2>2, <2>3, <2>7 DEF RelayTypeOK
  <2> QED BY <2>1, <2>3, <2>8, SpeechesRest
<1>10. CASE DialEnds
  <2>1. /\ UNCHANGED <<edgeTts, running, starts, waiting, inHand, said, broken, pinging, timers,
                       spoken, accepted, cut>>
        /\ dialing /\ dialing' = FALSE
        /\ \/ dials' = dials + 1 /\ socket' = dials + 1 /\ linked' = TRUE
           \/ linked' = FALSE /\ dials' = dials /\ socket' = socket
    BY <1>10 DEF DialEnds, speech, history
  <2>2. /\ dials \in 0 .. MaxDials /\ dials < MaxDials /\ dials \in Nat /\ MaxDials \in Nat
        /\ socket \in 0 .. dials /\ pinging \in 0 .. dials /\ broken \subseteq 1 .. dials
    BY <1>1, <2>1 DEF RelayTypeOK
  <2>3. dials' \in 0 .. MaxDials /\ socket' \in 0 .. dials' /\ pinging' \in 0 .. dials'
    BY <2>1, <2>2
  <2>4. broken' \subseteq 1 .. dials'
    BY <2>1, <2>2
  <2>5. RelayTypeOK'
    BY <1>1, <2>1, <2>3, <2>4 DEF RelayTypeOK
  <2> QED BY <2>1, <2>5, SpeechesRest
<1>11. CASE SubtitleClears
  <2>1. /\ UNCHANGED <<edgeTts, running, starts, waiting, socket, linked, dialing, dials, broken, pinging,
                       inHand, said, spoken, accepted, cut>>
        /\ timers > 0 /\ timers' = timers - 1
    BY <1>11 DEF SubtitleClears, link, speech, history
  <2>2. RelayTypeOK'
    BY <1>1, <2>1 DEF RelayTypeOK
  <2> QED BY <1>1, <2>1, <2>2, SpeechesRest
<1>6. CASE Take
  <2>1. /\ inHand = NoSpeech /\ waiting # <<>>
        /\ UNCHANGED <<edgeTts, running, starts, socket, linked, dialing, dials, broken, pinging,
                       timers, spoken, accepted, cut>>
    BY <1>6 DEF Take, link, history
  <2> DEFINE h == Head(waiting)
  <2>2. /\ h \in Speeches /\ h \in ToSet(waiting) /\ Tail(waiting) \in Seq(Speeches)
        /\ IsInjective(Tail(waiting)) /\ ToSet(Tail(waiting)) = ToSet(waiting) \ {h}
    BY <1>1, <2>1, HeadLeaves DEF WaitingInv, RelayTypeOK
  <2>3. /\ h \in accepted /\ h \notin cut /\ spoken[h] = <<>> /\ h # NoSpeech
        /\ Cards(h) \in Nat /\ SilentInv'
    BY <1>1, <2>1, <2>2, CardsType DEF WaitingInv, SilentInv
  <2> HIDE DEF h
  <2>4. CASE Reachable /\ Sayable(h)
    <3>1. /\ inHand' = h /\ said' = 0 /\ waiting' = Tail(waiting)
          /\ edgeTts /\ 0 < Cards(h)
      BY <1>6, <2>4 DEF Take, Sayable, h
    <3>2. RelayTypeOK'
      BY <1>1, <2>1, <2>2, <3>1 DEF RelayTypeOK
    <3>3. HandInv' /\ WaitingInv'
      BY <1>1, <2>1, <2>2, <2>3, <3>1 DEF HandInv, WaitingInv, Cards
    <3>4. SpeechAccountedFor'
      BY <1>1, <2>1, <2>2, <3>1 DEF SpeechAccountedFor, RelayTypeOK, Cards
    <3> QED BY <1>1, <2>1, <2>3, <3>2, <3>3, <3>4 DEF RelayInv
  <2>6. CASE Reachable /\ ~Sayable(h)
    <3>1. /\ inHand' = NoSpeech /\ said' = said /\ waiting' = Tail(waiting)
          /\ ~edgeTts \/ Cards(h) = 0
      BY <1>6, <2>1, <2>3, <2>6 DEF Take, Sayable, speech, h
    <3>2. RelayTypeOK'
      BY <1>1, <2>1, <2>2, <3>1 DEF RelayTypeOK
    <3>3. HandInv' /\ WaitingInv'
      BY <1>1, <2>1, <2>2, <2>3, <3>1 DEF HandInv, WaitingInv
    <3>4. SpeechAccountedFor'
      <4> SUFFICES ASSUME NEW m \in accepted
                   PROVE  /\ spoken[m] = [i \in DOMAIN spoken[m] |-> i]
                          /\ IF edgeTts
                             THEN Len(spoken[m]) < Cards(m)
                                      => m \in ToSet(Tail(waiting)) \union {NoSpeech} \union cut
                             ELSE spoken[m] = <<>> /\ timers = 0
        BY <2>1, <3>1 DEF SpeechAccountedFor, Cards
      <4>1. /\ spoken[m] = [i \in DOMAIN spoken[m] |-> i]
            /\ IF edgeTts
               THEN Len(spoken[m]) < Cards(m) => m \in ToSet(waiting) \union {NoSpeech} \union cut
               ELSE spoken[m] = <<>> /\ timers = 0
        BY <1>1, <2>1 DEF SpeechAccountedFor
      <4>2. m = h /\ edgeTts => ~(Len(spoken[m]) < Cards(m))
        BY <2>3, <3>1
      <4> QED BY <2>2, <4>1, <4>2
    <3> QED BY <1>1, <2>1, <2>3, <3>2, <3>3, <3>4 DEF RelayInv
  <2>5. CASE ~Reachable
    <3>1. waiting' = Append(Tail(waiting), h) /\ UNCHANGED <<inHand, said>>
      BY <1>6, <2>5 DEF Take, PutBack, speech, h
    <3>2. waiting' \in Seq(Speeches) /\ IsInjective(waiting') /\ ToSet(waiting') = ToSet(waiting)
      <4> DEFINE t == Tail(waiting)
      <4>1. /\ t \in Seq(Speeches) /\ IsInjective(t) /\ h \notin ToSet(t) /\ h \in Speeches
            /\ waiting' = Append(t, h) /\ ToSet(t) \union {h} = ToSet(waiting)
        BY <2>2, <3>1
      <4> HIDE DEF t
      <4>2. /\ Append(t, h) \in Seq(Speeches) /\ IsInjective(Append(t, h))
            /\ ToSet(Append(t, h)) = ToSet(t) \union {h}
        BY <4>1, NewOneJoins
      <4> QED BY <4>1, <4>2
    <3>3. RelayTypeOK'
      BY <1>1, <2>1, <3>1, <3>2 DEF RelayTypeOK
    <3>4. HandInv' /\ WaitingInv' /\ SpeechAccountedFor'
      BY <1>1, <2>1, <3>1, <3>2 DEF HandInv, WaitingInv, SpeechAccountedFor, Cards
    <3> QED BY <1>1, <2>1, <2>3, <3>3, <3>4 DEF RelayInv
  <2> QED BY <2>4, <2>5, <2>6
<1>7. CASE SendSentence
  <2>1. /\ inHand # NoSpeech /\ inHand \in Speeches /\ inHand \in accepted /\ inHand \notin cut
        /\ said = Len(spoken[inHand]) /\ said < Cards(inHand) /\ said \in Nat
        /\ inHand \notin ToSet(waiting) /\ Cards(inHand) \in Nat /\ edgeTts
    BY <1>1, <1>7, CardsType DEF SendSentence, HandInv, WaitingInv, RelayTypeOK
  <2>2. /\ spoken' = [spoken EXCEPT ![inHand] = Append(@, said + 1)]
        /\ UNCHANGED <<edgeTts, running, starts, waiting, socket, linked, dialing, dials, broken,
                       pinging, accepted, cut>>
        /\ \/ said + 1 < Cards(inHand) /\ said' = said + 1 /\ UNCHANGED <<inHand, timers>>
           \/ said + 1 >= Cards(inHand) /\ inHand' = NoSpeech /\ said' = 0 /\ timers' = 1
    BY <1>7, <2>1 DEF SendSentence, link
  <2>3. /\ spoken'[inHand] \in Seq(Nat) /\ Len(spoken'[inHand]) = said + 1
        /\ spoken'[inHand] = [i \in DOMAIN spoken'[inHand] |-> i]
        /\ \A m \in Speeches \ {inHand} : spoken'[m] = spoken[m]
        /\ spoken' \in [Speeches -> Seq(Nat)]
    <3>1. spoken \in [Speeches -> Seq(Nat)] /\ spoken[inHand] \in Seq(Nat)
      BY <1>1, <2>1 DEF RelayTypeOK
    <3>2. spoken[inHand] = [i \in DOMAIN spoken[inHand] |-> i]
      BY <1>1, <2>1 DEF SpeechAccountedFor
    <3>3. spoken'[inHand] = Append(spoken[inHand], Len(spoken[inHand]) + 1)
      BY <2>1, <2>2, <3>1
    <3>4. /\ spoken'[inHand] \in Seq(Nat) /\ Len(spoken'[inHand]) = Len(spoken[inHand]) + 1
          /\ spoken'[inHand] = [i \in DOMAIN spoken'[inHand] |-> i]
      BY <3>1, <3>2, <3>3, CountsOn
    <3>5. spoken' \in [Speeches -> Seq(Nat)] /\ \A m \in Speeches \ {inHand} : spoken'[m] = spoken[m]
      BY <2>1, <2>2, <3>1, <3>3, <3>4
    <3> QED BY <2>1, <3>4, <3>5
  <2>4. RelayTypeOK'
    BY <1>1, <2>1, <2>2, <2>3 DEF RelayTypeOK
  <2>5. SilentInv' /\ HandInv' /\ WaitingInv'
    <3>1. ToSet(waiting) \subseteq Speeches
      BY <1>1 DEF WaitingInv, RelayTypeOK
    <3>2. SilentInv'
      BY <2>1, <2>2 DEF SilentInv
    <3> QED BY <1>1, <2>1, <2>2, <2>3, <3>1, <3>2 DEF HandInv, WaitingInv, Cards
  <2>6. SpeechAccountedFor'
    <3> SUFFICES ASSUME NEW m \in accepted
                 PROVE  /\ spoken'[m] = [i \in DOMAIN spoken'[m] |-> i]
                        /\ Len(spoken'[m]) < Cards(m)
                               => m \in ToSet(waiting) \union {inHand'} \union cut
      BY <2>1, <2>2 DEF SpeechAccountedFor, Cards
    <3>1. CASE m = inHand
      <4>1. spoken'[m] = [i \in DOMAIN spoken'[m] |-> i] /\ Len(spoken'[m]) = said + 1
        BY <2>3, <3>1
      <4>2. said + 1 < Cards(m) => inHand' = m
        BY <2>1, <2>2, <3>1
      <4> QED BY <4>1, <4>2
    <3>2. CASE m # inHand
      BY <1>1, <2>1, <2>3, <3>2 DEF SpeechAccountedFor, RelayTypeOK
    <3> QED BY <3>1, <3>2
  <2> QED BY <1>1, <2>2, <2>4, <2>5, <2>6 DEF RelayInv
<1>8. CASE SendFails
  <2>1. /\ inHand # NoSpeech /\ inHand' = NoSpeech /\ cut' = cut \union {inHand}
        /\ UNCHANGED <<edgeTts, running, starts, waiting, socket, dialing, dials, broken, pinging,
                       timers, spoken, accepted>>
        /\ linked' = FALSE /\ said' = 0
    BY <1>8 DEF SendFails, Abandoned
  <2>2. RelayTypeOK'
    BY <1>1, <2>1 DEF RelayTypeOK, HandInv
  <2>3. ToSet(waiting) \subseteq Speeches
    BY <1>1 DEF WaitingInv, RelayTypeOK
  <2>4. SilentInv' /\ HandInv' /\ WaitingInv'
    BY <1>1, <2>1, <2>3 DEF SilentInv, HandInv, WaitingInv
  <2>5. SpeechAccountedFor'
    BY <1>1, <2>1 DEF SpeechAccountedFor, Cards
  <2> QED BY <1>1, <2>1, <2>2, <2>4, <2>5 DEF RelayInv
<1>9. CASE UNCHANGED relayVars
  <2>1. /\ RelayTypeOK'
        /\ UNCHANGED <<edgeTts, waiting, inHand, said, timers, spoken, accepted, cut, dialing, dials>>
    BY <1>1, <1>9 DEF relayVars, RelayTypeOK
  <2> QED BY <1>1, <2>1, SpeechesRest
<1> QED BY <1>2, <1>3, <1>4, <1>5, <1>6, <1>7, <1>8, <1>9,
           <1>10, <1>11 DEF RelayNext

LEMMA RelayStart == RelayInit => RelayInv
<1> USE RelayAssumption
<1> SUFFICES ASSUME RelayInit PROVE RelayInv
  OBVIOUS
<1>1. ToSet(waiting) = {} /\ IsInjective(waiting) /\ waiting \in Seq(Speeches)
  BY DEF RelayInit, ToSet, IsInjective
<1>2. spoken \in [Speeches -> Seq(Nat)] /\ \A m \in Speeches : spoken[m] = <<>>
  BY DEF RelayInit
<1>3. RelayTypeOK
  <2>1. /\ starts \in 0 .. MaxStarts /\ dials \in 0 .. MaxDials /\ socket \in 0 .. dials
        /\ pinging \in 0 .. dials /\ broken \subseteq 1 .. dials
    BY DEF RelayInit
  <2> QED BY <1>1, <1>2, <2>1 DEF RelayInit, RelayTypeOK
<1> QED BY <1>1, <1>2, <1>3 DEF RelayInit, RelayInv, SilentInv, HandInv, WaitingInv,
                                  SpeechAccountedFor

LEMMA RelayInvariant == RelaySpec => []RelayInv
<1>1. RelayInv /\ [RelayNext]_relayVars => RelayInv'
  BY RelayStep
<1> QED BY RelayStart, <1>1, PTL DEF RelaySpec

\* The variables of the relay keep their types, over stops and restarts
\* (VTuberRelayService).
THEOREM RelayTypeCorrect == RelaySpec => []RelayTypeOK
<1>1. RelayInv => RelayTypeOK
  BY DEF RelayInv
<1> QED BY <1>1, RelayInvariant, PTL

\* What is sent of a text are its first sentences in order.  When speech is
\* allowed, an accepted text waits, is being spoken, was spoken as far as it is
\* sent or was cut off; when it is not, nothing is sent (_send_loop,
\* _send_to_vtuber).
THEOREM NoSpeechIsLost == RelaySpec => []SpeechAccountedFor
<1>1. RelayInv => SpeechAccountedFor
  BY DEF RelayInv
<1> QED BY <1>1, RelayInvariant, PTL

-----------------------------------------------------------------------------
(***************************************************************************)
(* The studio, for any requests and prompts, with lost connections,        *)
(* timeouts, and transcriptions that change the timeline.                  *)
(***************************************************************************)
Held == {"aside", "queueing", "answered", "waiting"}
InLine == {"locking"} \union Held

Sessions == [timeline : 1..MaxTimeline, plan : 0..MaxTimeline, image : BOOLEAN]
Requests == [at : Places, kind : Services \union {"none"}, prompt : {None} \union Prompts]
ServiceStates == [status : Statuses, current : {None} \union Prompts, done : {"no", "success", "error"}]
PromptStates == Services \union {"new", "painting", "filming", "ended"}

\* Who has asked for _GEN_LOCK is in line once, and who generates is its head.
LineInv ==
    /\ genLock \in Seq(Jobs) /\ IsInjective(genLock)
    /\ ToSet(genLock) = {j \in Jobs : jobs[j].at \in InLine}
    /\ \A j \in Jobs : jobs[j].at \in Held => Head(genLock) = j

KindInv == \A j \in Jobs : jobs[j].at \in InLine => jobs[j].kind \in Services

\* Nothing is said of a prompt before ComfyUI has started it.
WireInv ==
    /\ \A k \in Services : \A i \in DOMAIN wire[k] :
           wire[k][i].type # "status" => comfy[wire[k][i].prompt] \in {"painting", "filming", "ended"}
    /\ \A p \in heard : comfy[p] \in {"painting", "filming", "ended"}

Owns(j) == jobs[j].at \in {"answered", "waiting"}
StatesOf(k) == IF k = "image" THEN {"image", "painting", "ended"} ELSE {"video", "filming", "ended"}

\* A prompt is queued with its request's service, which hears of it.
PromptInv ==
    \A j \in Jobs : Owns(j) =>
        /\ jobs[j].prompt \in Prompts /\ comfy[jobs[j].prompt] \in StatesOf(jobs[j].kind)
        /\ \A k \in Services : \A i \in DOMAIN wire[k] :
               wire[k][i].type # "status" /\ wire[k][i].prompt = jobs[j].prompt => k = jobs[j].kind

\* The filter is open until the prompt's id is known, and then the prompt's.
CurrentInv ==
    /\ \A j \in Jobs :
           /\ jobs[j].at \in {"queueing", "answered"} => service[jobs[j].kind].current = None
           /\ jobs[j].at = "waiting" => service[jobs[j].kind].current = jobs[j].prompt
    /\ (\A j \in Jobs : ~(jobs[j].at = "waiting" /\ jobs[j].kind = "image"))
           => service["image"].current = None

HeardInv ==
    \A j \in Jobs : Owns(j) /\ jobs[j].prompt \in heard => service[jobs[j].kind].done # "no"

StudioInv ==
    /\ StudioTypeOK /\ PlanFitsTimeline
    /\ LineInv /\ KindInv /\ WireInv /\ PromptInv /\ CurrentInv /\ HeardInv

\* The line stays, and so does everybody's place in it.
LEMMA LineKeeps ==
    ASSUME LineInv, UNCHANGED genLock,
           \A d \in Jobs : /\ jobs'[d].at \in InLine <=> jobs[d].at \in InLine
                           /\ jobs'[d].at \in Held => jobs[d].at \in Held \/ Head(genLock) = d
    PROVE  LineInv'
<1>1. {d \in Jobs : jobs'[d].at \in InLine} = {d \in Jobs : jobs[d].at \in InLine}
  OBVIOUS
<1> QED BY <1>1 DEF LineInv

\* A request joins it.
LEMMA LineJoined ==
    ASSUME LineInv, NEW j \in Jobs, jobs[j].at \notin InLine, genLock' = Append(genLock, j),
           jobs'[j].at = "locking", \A d \in Jobs \ {j} : jobs'[d] = jobs[d]
    PROVE  LineInv'
<1>1. genLock \in Seq(Jobs) /\ IsInjective(genLock) /\ j \notin ToSet(genLock)
  BY DEF LineInv
<1>2. /\ genLock' \in Seq(Jobs) /\ IsInjective(genLock')
      /\ ToSet(genLock') = ToSet(genLock) \union {j}
      /\ genLock # <<>> => Head(genLock') = Head(genLock)
  BY <1>1, NewOneJoins
<1>3. {d \in Jobs : jobs'[d].at \in InLine} = {d \in Jobs : jobs[d].at \in InLine} \union {j}
  BY DEF InLine
<1>4. ASSUME NEW d \in Jobs, jobs'[d].at \in Held PROVE Head(genLock') = d
  <2>1. d # j /\ jobs[d].at \in Held
    BY <1>4 DEF Held
  <2>2. d \in ToSet(genLock) /\ Head(genLock) = d
    BY <2>1 DEF LineInv, InLine
  <2>3. genLock # <<>>
    BY <2>2 DEF ToSet
  <2> QED BY <1>2, <2>2, <2>3
<1> QED BY <1>2, <1>3, <1>4 DEF LineInv

\* Its head leaves it, with its request.
LEMMA LineLeft ==
    ASSUME LineInv, NEW j \in Jobs, genLock # <<>>, Head(genLock) = j, genLock' = Tail(genLock),
           jobs'[j].at = "idle", \A d \in Jobs \ {j} : jobs'[d] = jobs[d]
    PROVE  LineInv' /\ \A d \in Jobs : jobs'[d].at \notin Held
<1>1. genLock \in Seq(Jobs) /\ IsInjective(genLock)
  BY DEF LineInv
<1>2. /\ genLock' \in Seq(Jobs) /\ IsInjective(genLock')
      /\ ToSet(genLock') = ToSet(genLock) \ {j}
  BY <1>1, HeadLeaves
<1>3. {d \in Jobs : jobs'[d].at \in InLine} = {d \in Jobs : jobs[d].at \in InLine} \ {j}
  BY DEF InLine, Held
<1>4. \A d \in Jobs : jobs'[d].at \notin Held
  BY DEF LineInv, Held
<1> QED BY <1>2, <1>3, <1>4 DEF LineInv

\* Who generates is alone.
LEMMA OneGenerates ==
    ASSUME LineInv, NEW j \in Jobs, jobs[j].at \in Held \/ Holds(j)
    PROVE  /\ genLock # <<>> /\ Head(genLock) = j
           /\ \A d \in Jobs \ {j} : jobs[d].at \notin Held
<1>1. CASE jobs[j].at \in Held
  BY <1>1 DEF LineInv, InLine, ToSet
<1>2. CASE Holds(j)
  BY <1>2 DEF LineInv, Holds
<1> QED BY <1>1, <1>2

\* Nobody generates: what is said of those who do holds.
LEMMA NobodyGenerates ==
    ASSUME StudioTypeOK', PlanFitsTimeline', LineInv', KindInv', WireInv',
           \A d \in Jobs : jobs'[d].at \notin Held,
           service'["image"].current = None
    PROVE  StudioInv'
BY DEF StudioInv, PromptInv, CurrentInv, HeardInv, Owns, Held

\* What is typed, and what is planned, in every step.
Typed ==
    /\ session \in Sessions /\ jobs \in [Jobs -> Requests] /\ genLock \in Seq(Jobs) /\ connected \in BOOLEAN
    /\ service \in [Services -> ServiceStates] /\ wire \in [Services -> Seq(Messages)]
    /\ listening \subseteq Services /\ heard \subseteq Prompts /\ comfy \in [Prompts -> PromptStates]

LEMMA JobTyped ==
    ASSUME NEW j \in Jobs, jobs \in [Jobs -> Requests]
    PROVE  /\ \A place \in Places : Goto(j, place) => jobs' \in [Jobs -> Requests]
           /\ Answer(j) => jobs' \in [Jobs -> Requests]
<1>1. Idle \in Requests
  BY DEF Idle, Requests, Places
<1>2. ASSUME NEW place \in Places PROVE [jobs[j] EXCEPT !.at = place] \in Requests
  BY DEF Requests
<1> QED BY <1>1, <1>2 DEF Goto, Answer

LEMMA PlanTyped ==
    ASSUME session \in Sessions
    PROVE  PlanOf(session) \in Sessions /\ PlanIfNone(session) \in Sessions
BY StudioAssumption DEF PlanOf, PlanIfNone, Sessions

LEMMA StudioTypeStep ==
    ASSUME StudioInv, [StudioNext]_studioVars
    PROVE  StudioTypeOK'
<1>0. Typed /\ KindInv /\ PromptInv
  BY DEF StudioInv, StudioTypeOK, Typed, Sessions, Requests, ServiceStates, PromptStates
<1> SUFFICES Typed'
  BY DEF StudioTypeOK, Typed, Sessions, Requests, ServiceStates, PromptStates
<1> USE <1>0, StudioAssumption DEF Typed
<1>p. Places = {"idle", "aligning", "locking", "aside", "queueing", "answered", "waiting"}
  BY DEF Places
<1>1. CASE UNCHANGED studioVars
  BY <1>1 DEF studioVars
<1>2. CASE PlanScenes
  BY <1>2, PlanTyped DEF PlanScenes, protocolVars
<1>3. ASSUME NEW j \in Jobs, Realign(j) PROVE Typed'
  BY <1>3, <1>p, JobTyped DEF Realign, protocolVars
<1>4. ASSUME NEW j \in Jobs, Realigned(j) PROVE Typed'
  <2>1. session.timeline < MaxTimeline => Timeline(session) \in Sessions
    <3>1. session.timeline < MaxTimeline => session.timeline + 1 \in 1 .. MaxTimeline /\ None \in 0 .. MaxTimeline
      BY DEF Sessions, None
    <3> QED BY <3>1 DEF Timeline, Sessions
  <2> QED BY <1>4, <2>1, JobTyped DEF Realigned, protocolVars
<1>q. ASSUME NEW kind \in Services PROVE [Idle EXCEPT !.at = "locking", !.kind = kind] \in Requests
  BY DEF Idle, Requests, Places
<1>5. ASSUME NEW j \in Jobs, AskImage(j) PROVE Typed'
  <2>1. jobs' \in [Jobs -> Requests]
    BY <1>5, <1>q DEF AskImage, Services
  <2> QED BY <1>5, <2>1, PlanTyped DEF AskImage, protocolVars
<1>6. ASSUME NEW j \in Jobs, AskVideo(j) PROVE Typed'
  <2>1. /\ session' = PlanIfNone(session) /\ UNCHANGED <<connected, protocolVars>>
        /\ \/ /\ jobs' = [jobs EXCEPT ![j] = [Idle EXCEPT !.at = "locking", !.kind = "video"]]
              /\ genLock' = Append(genLock, j)
           \/ UNCHANGED <<jobs, genLock>>
    BY <1>6, Zenon DEF AskVideo
  <2>2. jobs' \in [Jobs -> Requests]
    BY <2>1, <1>q DEF Services
  <2>3. genLock' \in Seq(Jobs)
    BY <2>1
  <2> QED BY <2>1, <2>2, <2>3, PlanTyped DEF protocolVars
<1>r. ASSUME NEW j \in Jobs, Answer(j), Release, genLock # <<>> PROVE jobs' \in [Jobs -> Requests] /\ genLock' \in Seq(Jobs)
  BY <1>r, JobTyped DEF Release
<1>g. ASSUME NEW j \in Jobs, jobs[j].at \in Held \/ Holds(j) PROVE genLock # <<>>
  BY <1>g, OneGenerates DEF StudioInv
<1>7. ASSUME NEW j \in Jobs, Connect(j) PROVE Typed'
  <2>1. CASE Fail(j) /\ UNCHANGED <<service, listening>>
    BY <1>7, <2>1, <1>r, <1>g DEF Connect, Fail
  <2>2. [k \in Services |-> [service[k] EXCEPT !.status = "connected"]] \in [Services -> ServiceStates]
    BY DEF ServiceStates, Statuses
  <2> QED BY <1>7, <2>1, <2>2 DEF Connect
<1>8. ASSUME NEW j \in Jobs, BeginGeneration(j) PROVE Typed'
  <2> DEFINE k == jobs[j].kind
  <2>0. UNCHANGED service \/ service' = [service EXCEPT ![k] = Begun(k, service[k])]
    BY <1>8 DEF BeginGeneration
  <2>1. Begun(k, service[k]) \in ServiceStates
    BY <1>8 DEF BeginGeneration, Begun, KindInv, InLine, ServiceStates
  <2>2. service' \in [Services -> ServiceStates]
    BY <2>0, <2>1
  <2> QED BY <1>8, <2>2, <1>p, JobTyped DEF BeginGeneration
<1>s. ASSUME NEW j \in Jobs, Store(j) PROVE session' \in Sessions
  BY <1>s DEF Store, Sessions
<1>9. ASSUME NEW j \in Jobs, GenerateAside(j) PROVE Typed'
  BY <1>9, <1>r, <1>s, <1>g DEF GenerateAside, Store, Fail, Held, protocolVars
<1>10. ASSUME NEW j \in Jobs, QueuePrompt(j) PROVE Typed'
  <2>1. PICK p \in Prompts : /\ comfy' = [comfy EXCEPT ![p] = jobs[j].kind]
                             /\ jobs' = [jobs EXCEPT ![j] = [@ EXCEPT !.at = "answered", !.prompt = p]]
    BY <1>10, Zenon DEF QueuePrompt
  <2>2. jobs' \in [Jobs -> Requests]
    BY <2>1, <1>p DEF Requests
  <2>3. jobs[j].kind \in PromptStates
    BY <1>10 DEF QueuePrompt, KindInv, InLine, Held, PromptStates
  <2>4. wire' \in [Services -> Seq(Messages)]
    <3>1. [type |-> "status"] \in Messages
      BY DEF Messages
    <3> QED BY <3>1, <1>10 DEF QueuePrompt
  <2> QED BY <1>10, <2>1, <2>2, <2>3, <2>4 DEF QueuePrompt
<1>11. ASSUME NEW j \in Jobs, Queued(j) PROVE Typed'
  <2>1. service' \in [Services -> ServiceStates]
    BY <1>11 DEF Queued, PromptInv, Owns, ServiceStates
  <2> QED BY <1>11, <1>p, <2>1, JobTyped DEF Queued
<1>12. ASSUME NEW j \in Jobs, Abandon(j), genLock # <<>>, UNCHANGED <<wire, listening, comfy, heard>> PROVE Typed'
  <2>1. service' \in [Services -> ServiceStates]
    BY <1>12 DEF Abandon, ServiceStates
  <2> QED BY <1>12, <2>1, <1>r DEF Abandon, Fail
<1>13. ASSUME NEW j \in Jobs, QueueFails(j) \/ TimeOut(j) PROVE Typed'
  BY <1>13, <1>12, <1>g DEF QueueFails, TimeOut, TimesOut, Held
<1>14. ASSUME NEW j \in Jobs, WokenUp(j) PROVE Typed'
  <2>1. genLock # <<>>
    BY <1>14, <1>g DEF WokenUp, Held
  <2>2. ASSUME Concluded(jobs[j].kind) PROVE service' \in [Services -> ServiceStates]
    <3> DEFINE k == jobs[j].kind
               ended == IF k = "image" THEN [service[k] EXCEPT !.status = "connected", !.current = None] ELSE service[k]
    <3>1. service' = [service EXCEPT ![k] = ended]
      BY <2>2 DEF Concluded
    <3>2. service[k] \in ServiceStates
      BY <1>14 DEF WokenUp, KindInv, InLine, Held
    <3>3. ended \in ServiceStates
      BY <3>2 DEF ServiceStates, Statuses
    <3> HIDE DEF ended
    <3> QED BY <3>1, <3>3
  <2>3. CASE Store(j) /\ Concluded(jobs[j].kind)
    BY <1>14, <2>1, <2>2, <2>3, <1>r, <1>s DEF WokenUp, Store
  <2>4. CASE Fail(j) /\ Concluded(jobs[j].kind)
    BY <1>14, <2>1, <2>2, <2>4, <1>r DEF WokenUp, Fail
  <2>5. CASE Abandon(j)
    BY <1>14, <2>1, <2>5, <1>12 DEF WokenUp
  <2> QED BY <1>14, <2>3, <2>4, <2>5 DEF WokenUp
<1>t. ASSUME NEW k \in Services, NEW m \in Messages, Tell(k, m) PROVE wire' \in [Services -> Seq(Messages)]
  BY <1>t DEF Tell
<1>15. ASSUME NEW p \in Prompts, ComfyStarts(p) PROVE Typed'
  <2>1. [type |-> "start", prompt |-> p] \in Messages
    BY DEF Messages
  <2> QED BY <1>15, <2>1, <1>t DEF ComfyStarts, PromptStates
<1>16. ASSUME NEW p \in Prompts, ComfyEnds(p) PROVE Typed'
  <2>1. \A type \in {"success", "error"} : [type |-> type, prompt |-> p] \in Messages
    BY DEF Messages
  <2> QED BY <1>16, <2>1, <1>t DEF ComfyEnds, PromptStates, Services
<1>17. ASSUME NEW k \in Services, Hear(k) PROVE Typed'
  <2>1. Head(wire[k]) \in Messages /\ Tail(wire[k]) \in Seq(Messages)
    BY <1>17 DEF Hear
  <2>2. \A m \in Messages, s \in ServiceStates : Handled(m, s) \in ServiceStates
    BY DEF Handled, ServiceStates, Statuses, Messages
  <2>3. \A m \in Messages : m.type = "success" => m.prompt \in Prompts
    BY DEF Messages
  <2> QED BY <1>17, <2>1, <2>2, <2>3 DEF Hear
<1>18. CASE ConnectionLost
  BY <1>18 DEF ConnectionLost
<1> QED BY <1>1, <1>2, <1>3, <1>4, <1>5, <1>6, <1>7, <1>8, <1>9, <1>10, <1>11, <1>13, <1>14, <1>15, <1>16, <1>17, <1>18
        DEF StudioNext, Works

LEMMA PlanStep ==
    ASSUME StudioInv, [StudioNext]_studioVars
    PROVE  PlanFitsTimeline'
<1>0. session \in Sessions /\ PlanFitsTimeline
  BY DEF StudioInv, StudioTypeOK, Sessions
<1> USE <1>0, StudioAssumption DEF Sessions, PlanFitsTimeline, PlanOf, PlanIfNone, None
<1>1. CASE UNCHANGED session
  BY <1>1
<1>2. CASE session' \in {PlanOf(session), PlanIfNone(session)}
  BY <1>2
<1>3. CASE session' = Timeline(session)
  BY <1>3 DEF Timeline
<1>4. ASSUME NEW j \in Jobs, Store(j) PROVE PlanFitsTimeline'
  BY <1>4 DEF Store
<1> HIDE DEF Sessions, PlanFitsTimeline, PlanOf, PlanIfNone
<1>5. CASE PlanScenes \/ \E j \in Jobs : Realigned(j) \/ AskImage(j) \/ AskVideo(j)
  <2>1. UNCHANGED session \/ session' \in {PlanOf(session), PlanIfNone(session), Timeline(session)}
    BY <1>5 DEF PlanScenes, Realigned, AskImage, AskVideo
  <2> QED BY <1>1, <1>2, <1>3, <2>1
<1>6. ASSUME NEW j \in Jobs, Realign(j) \/ BeginGeneration(j) \/ QueuePrompt(j) \/ Queued(j) PROVE UNCHANGED session
  <2>1. BeginGeneration(j) \/ QueuePrompt(j) => UNCHANGED session
    BY Zenon DEF BeginGeneration, QueuePrompt
  <2> QED BY <1>6, <2>1 DEF Realign, Queued
<1>7. ASSUME NEW j \in Jobs, Connect(j) \/ QueueFails(j) \/ TimeOut(j) PROVE UNCHANGED session
  BY <1>7 DEF Connect, QueueFails, TimeOut, Abandon, Fail
<1>8. ASSUME NEW j \in Jobs, GenerateAside(j) \/ WokenUp(j) PROVE UNCHANGED session \/ Store(j)
  BY <1>8 DEF GenerateAside, WokenUp, Abandon, Fail
<1>9. CASE \/ \E p \in Prompts : ComfyStarts(p) \/ ComfyEnds(p)
           \/ \E k \in Services : Hear(k)
           \/ ConnectionLost \/ UNCHANGED studioVars
  BY <1>1, <1>9 DEF ComfyStarts, ComfyEnds, Hear, ConnectionLost, studioVars
<1> QED BY <1>1, <1>4, <1>5, <1>6, <1>7, <1>8, <1>9 DEF StudioNext, Works

\* What a sequence holds when an element has joined it.
LEMMA Appended ==
    ASSUME NEW S, NEW q \in Seq(S), NEW m \in S, NEW i \in DOMAIN Append(q, m)
    PROVE  \/ i \in DOMAIN q /\ Append(q, m)[i] = q[i] /\ q[i] \in S
           \/ Append(q, m)[i] = m
OBVIOUS

\* Nobody who generates changes, nor does what the generations are about.
LEMMA GenerationsRest ==
    ASSUME StudioInv, StudioTypeOK', PlanFitsTimeline', LineInv', KindInv', UNCHANGED protocolVars,
           \A d \in Jobs : jobs'[d].at \in Held \/ jobs[d].at \in Held => jobs'[d] = jobs[d]
    PROVE  StudioInv'
<1>1. \A d \in Jobs : jobs'[d].at \in Held => jobs'[d] = jobs[d]
  OBVIOUS
<1>2. \A d \in Jobs : jobs[d].at = "waiting" => jobs'[d] = jobs[d]
  BY DEF Held
<1>3. WireInv'
  BY DEF StudioInv, WireInv, protocolVars
<1>4. PromptInv'
  BY <1>1 DEF StudioInv, PromptInv, Owns, Held, protocolVars
<1>5. CurrentInv'
  BY <1>1, <1>2 DEF StudioInv, CurrentInv, Held, protocolVars
<1>6. HeardInv'
  BY <1>1 DEF StudioInv, HeardInv, Owns, Held, protocolVars
<1> QED BY <1>3, <1>4, <1>5, <1>6 DEF StudioInv

\* The holder of the lock answers, and frees it.
LEMMA HolderAnswers ==
    ASSUME StudioInv, StudioTypeOK', PlanFitsTimeline', NEW j \in Jobs, jobs[j].at \in Held \/ Holds(j),
           Answer(j), Release, UNCHANGED <<wire, comfy, heard>>,
           \/ service'["image"].current = None
           \/ service'["image"] = service["image"] /\ ~(jobs[j].at = "waiting" /\ jobs[j].kind = "image")
    PROVE  StudioInv'
<1>1. LineInv /\ KindInv /\ WireInv /\ CurrentInv /\ StudioTypeOK
  BY DEF StudioInv
<1>2. genLock # <<>> /\ Head(genLock) = j /\ \A d \in Jobs \ {j} : jobs[d].at \notin Held
  BY <1>1, OneGenerates
<1>3. jobs'[j] = Idle /\ \A d \in Jobs \ {j} : jobs'[d] = jobs[d]
  BY <1>1 DEF Answer, StudioTypeOK
<1>4. LineInv' /\ \A d \in Jobs : jobs'[d].at \notin Held
  <2>1. jobs'[j].at = "idle" /\ genLock' = Tail(genLock)
    BY <1>3 DEF Idle, Release
  <2> QED BY <1>1, <1>2, <1>3, <2>1, LineLeft
<1>5. KindInv'
  BY <1>1, <1>3 DEF KindInv, Idle, InLine, Held
<1>6. WireInv'
  BY <1>1 DEF WireInv
<1>7. service'["image"].current = None
  <2>1. ~(jobs[j].at = "waiting" /\ jobs[j].kind = "image") => service["image"].current = None
    BY <1>1, <1>2 DEF CurrentInv, Held
  <2> QED BY <2>1
<1> QED BY <1>4, <1>5, <1>6, <1>7, NobodyGenerates

LEMMA StudioStep ==
    ASSUME StudioInv, [StudioNext]_studioVars
    PROVE  StudioInv'
<1>0. /\ StudioTypeOK /\ LineInv /\ KindInv /\ WireInv /\ PromptInv /\ CurrentInv /\ HeardInv
      /\ StudioTypeOK' /\ PlanFitsTimeline'
  BY StudioTypeStep, PlanStep DEF StudioInv
<1> USE <1>0
<1>a. /\ jobs \in [Jobs -> Requests] /\ service \in [Services -> ServiceStates]
      /\ wire \in [Services -> Seq(Messages)] /\ comfy \in [Prompts -> PromptStates]
  BY DEF StudioTypeOK, Requests, ServiceStates, PromptStates
<1>1. CASE UNCHANGED studioVars
  BY <1>1 DEF studioVars, StudioInv, StudioTypeOK, PlanFitsTimeline, LineInv, KindInv, WireInv, PromptInv, CurrentInv, HeardInv,
              Owns
<1>2. ASSUME UNCHANGED genLock, UNCHANGED protocolVars,
             \A d \in Jobs : jobs'[d] = jobs[d] \/ (jobs'[d].at \notin InLine /\ jobs[d].at \notin InLine)
      PROVE  StudioInv'
  <2>1. LineInv'
    BY <1>2, LineKeeps DEF InLine
  <2>2. KindInv'
    BY <1>2 DEF KindInv
  <2> QED BY <1>2, <2>1, <2>2, GenerationsRest DEF InLine
<1>3. CASE PlanScenes
  BY <1>2, <1>3 DEF PlanScenes
<1>4. ASSUME NEW j \in Jobs, Realign(j) \/ Realigned(j) PROVE StudioInv'
  <2>1. /\ UNCHANGED <<genLock, protocolVars>> /\ jobs[j].at \in {"idle", "aligning"}
        /\ jobs' \in {[jobs EXCEPT ![j].at = "aligning"], [jobs EXCEPT ![j] = Idle]}
    BY <1>4 DEF Realign, Realigned, Goto, Answer
  <2>2. jobs[j].at \notin InLine /\ jobs'[j].at \notin InLine /\ \A d \in Jobs \ {j} : jobs'[d] = jobs[d]
    BY <2>1, <1>a DEF InLine, Held, Idle, Requests
  <2> QED BY <2>1, <2>2, <1>2
<1>5. ASSUME NEW j \in Jobs, NEW kind \in Services, jobs[j].at = "idle",
             jobs' = [jobs EXCEPT ![j] = [Idle EXCEPT !.at = "locking", !.kind = kind]],
             genLock' = Append(genLock, j), UNCHANGED protocolVars
      PROVE  StudioInv'
  <2>1. /\ jobs[j].at \notin InLine /\ jobs'[j].at = "locking" /\ jobs'[j].kind = kind
        /\ \A d \in Jobs \ {j} : jobs'[d] = jobs[d]
    BY <1>5, <1>a DEF InLine, Held, Idle
  <2>2. LineInv'
    BY <1>5, <2>1, LineJoined
  <2>3. KindInv'
    BY <2>1 DEF KindInv
  <2> QED BY <1>5, <2>1, <2>2, <2>3, GenerationsRest DEF InLine, Held
<1>6. ASSUME NEW j \in Jobs, AskImage(j) \/ AskVideo(j) PROVE StudioInv'
  BY <1>6, <1>5, <1>2 DEF AskImage, AskVideo, Services
<1>7. ASSUME NEW j \in Jobs, Connect(j) PROVE StudioInv'
  <2>1. CASE Fail(j) /\ UNCHANGED <<service, listening>>
    BY <1>7, <2>1, HolderAnswers DEF Connect, Fail
  <2>2. CASE /\ service' = [k \in Services |-> [service[k] EXCEPT !.status = "connected"]]
             /\ UNCHANGED <<session, jobs, genLock, wire, comfy, heard>>
    <3>1. \A k \in Services : service'[k].current = service[k].current /\ service'[k].done = service[k].done
      BY <2>2, <1>a DEF ServiceStates
    <3>2. LineInv'
      BY <2>2, LineKeeps
    <3>3. KindInv' /\ WireInv' /\ PromptInv'
      BY <2>2 DEF KindInv, WireInv, PromptInv, Owns
    <3>4. CurrentInv'
      BY <2>2, <3>1 DEF CurrentInv, KindInv, InLine, Held, Services
    <3>5. HeardInv'
      BY <2>2, <3>1 DEF HeardInv, KindInv, InLine, Held, Owns
    <3> QED BY <3>2, <3>3, <3>4, <3>5 DEF StudioInv
  <2> QED BY <1>7, <2>1, <2>2 DEF Connect
<1>8. ASSUME NEW j \in Jobs, NEW place \in Held, jobs[j].at = "locking", Holds(j), Goto(j, place), UNCHANGED genLock
      PROVE  /\ LineInv' /\ KindInv' /\ jobs[j].kind \in Services
             /\ jobs'[j].at = place /\ jobs'[j].kind = jobs[j].kind
             /\ \A d \in Jobs \ {j} : jobs'[d] = jobs[d] /\ jobs[d].at \notin Held
  <2>1. jobs'[j].at = place /\ jobs'[j].kind = jobs[j].kind /\ \A d \in Jobs \ {j} : jobs'[d] = jobs[d]
    BY <1>8, <1>a DEF Goto, Requests
  <2>2. Head(genLock) = j /\ \A d \in Jobs \ {j} : jobs[d].at \notin Held
    BY <1>8, OneGenerates
  <2>3. LineInv'
    BY <1>8, <2>1, <2>2, LineKeeps DEF InLine
  <2> QED BY <1>8, <2>1, <2>2, <2>3 DEF KindInv, InLine
<1>9. ASSUME NEW j \in Jobs, BeginGeneration(j) PROVE StudioInv'
  <2> DEFINE k == jobs[j].kind
  <2>1. /\ jobs[j].at = "locking" /\ Holds(j)
        /\ UNCHANGED <<session, genLock, connected, wire, listening, comfy, heard>>
        /\ \/ service' = [service EXCEPT ![k] = Begun(k, service[k])] /\ Goto(j, "queueing")
           \/ UNCHANGED service /\ Goto(j, "aside")
    BY <1>9 DEF BeginGeneration
  <2>2. PICK place \in {"aside", "queueing"} : /\ Goto(j, place)
                                               /\ place = "aside" => UNCHANGED service
                                               /\ place # "aside" => service' = [service EXCEPT ![k] = Begun(k, service[k])]
    BY <2>1
  <2>3. /\ LineInv' /\ KindInv' /\ k \in Services
        /\ jobs'[j].at = place /\ jobs'[j].kind = k
        /\ \A d \in Jobs \ {j} : jobs'[d] = jobs[d] /\ jobs[d].at \notin Held
    <3>1. place \in Held
      BY DEF Held
    <3> QED BY <2>1, <2>2, <3>1, <1>8
  <2> HIDE DEF k
  <2>4. WireInv'
    BY <2>1 DEF WireInv
  <2>5. \A d \in Jobs : jobs'[d].at \in Held => d = j
    BY <2>3
  <2>6. PromptInv' /\ HeardInv'
    BY <2>2, <2>3, <2>5 DEF PromptInv, HeardInv, Owns, Held
  <2>7. service["image"].current = None
    BY <2>1, <2>3 DEF CurrentInv, Held
  <2>8. service'["image"].current = None /\ (place = "queueing" => service'[k].current = None)
    <3>1. k \in {"image", "video"} /\ service["image"] \in ServiceStates /\ service["video"] \in ServiceStates
      BY <2>3, <1>a DEF Services
    <3>2. Begun("image", service["image"]).current = None /\ Begun("video", service["video"]).current = None
      BY <2>7, <3>1 DEF Begun, ServiceStates
    <3> QED BY <2>2, <2>7, <3>1, <3>2, <1>a DEF Services
  <2>9. CurrentInv'
    BY <2>2, <2>3, <2>5, <2>8 DEF CurrentInv, Held
  <2> QED BY <2>3, <2>4, <2>6, <2>9 DEF StudioInv
<1>10. ASSUME NEW j \in Jobs, GenerateAside(j) PROVE StudioInv'
  BY <1>10, HolderAnswers DEF GenerateAside, Store, Fail, Held, protocolVars
<1>11. ASSUME NEW j \in Jobs, jobs[j].at \in Held, Abandon(j), UNCHANGED <<wire, comfy, heard>> PROVE StudioInv'
  <2>1. jobs[j].kind \in Services
    BY <1>11 DEF KindInv, InLine
  <2>2. \/ service'["image"].current = None
        \/ service'["image"] = service["image"] /\ jobs[j].kind # "image"
    BY <1>11, <2>1, <1>a DEF Abandon, ServiceStates, Services
  <2> QED BY <1>11, <2>2, HolderAnswers DEF Abandon, Fail
<1>12. ASSUME NEW j \in Jobs, QueueFails(j) \/ TimeOut(j) PROVE StudioInv'
  BY <1>12, <1>11 DEF QueueFails, TimeOut, TimesOut, Held
<1>13. ASSUME NEW j \in Jobs, WokenUp(j) PROVE StudioInv'
  <2>1. jobs[j].at = "waiting" /\ jobs[j].kind \in Services /\ UNCHANGED <<wire, comfy, heard>>
    BY <1>13 DEF WokenUp, KindInv, InLine, Held
  <2>2. CASE Concluded(jobs[j].kind) /\ (Store(j) \/ Fail(j))
    <3>1. \/ service'["image"].current = None
          \/ service'["image"] = service["image"] /\ jobs[j].kind # "image"
      BY <2>1, <2>2, <1>a DEF Concluded, ServiceStates, Services
    <3> QED BY <2>1, <2>2, <3>1, HolderAnswers DEF Store, Fail, Held
  <2>3. CASE Abandon(j)
    BY <2>1, <2>3, <1>11 DEF Held
  <2> QED BY <1>13, <2>2, <2>3 DEF WokenUp
<1>14. ASSUME NEW j \in Jobs, NEW place \in Held, jobs[j].at \in Held, UNCHANGED genLock,
              jobs'[j].at = place, jobs'[j].kind = jobs[j].kind, \A d \in Jobs \ {j} : jobs'[d] = jobs[d]
       PROVE  LineInv' /\ KindInv' /\ jobs[j].kind \in Services /\ \A d \in Jobs : jobs'[d].at \in Held => d = j
  <2>1. Head(genLock) = j /\ \A d \in Jobs \ {j} : jobs[d].at \notin Held
    BY <1>14, OneGenerates
  <2>2. LineInv'
    BY <1>14, <2>1, LineKeeps DEF InLine
  <2> QED BY <1>14, <2>1, <2>2 DEF KindInv, InLine
<1>15. ASSUME NEW j \in Jobs, QueuePrompt(j) PROVE StudioInv'
  <2>1. PICK p \in Prompts : /\ comfy[p] = "new"
                             /\ comfy' = [comfy EXCEPT ![p] = jobs[j].kind]
                             /\ jobs' = [jobs EXCEPT ![j] = [@ EXCEPT !.at = "answered", !.prompt = p]]
    BY <1>15, Zenon DEF QueuePrompt
  <2>2. /\ jobs[j].at = "queueing" /\ UNCHANGED <<session, genLock, connected, service, listening, heard>>
        /\ \A k \in Services : wire'[k] = IF k \in listening THEN Append(wire[k], [type |-> "status"]) ELSE wire[k]
    BY <1>15, Zenon DEF QueuePrompt
  <2>3. /\ jobs'[j].at = "answered" /\ jobs'[j].kind = jobs[j].kind /\ jobs'[j].prompt = p
        /\ \A d \in Jobs \ {j} : jobs'[d] = jobs[d]
    BY <2>1, <1>a DEF Requests
  <2>4. LineInv' /\ KindInv' /\ jobs[j].kind \in Services /\ \A d \in Jobs : jobs'[d].at \in Held => d = j
    BY <2>2, <2>3, <1>14 DEF Held
  <2>5. /\ comfy'[p] = jobs[j].kind /\ \A q \in Prompts \ {p} : comfy'[q] = comfy[q]
    BY <2>1, <1>a
  <2>6. ASSUME NEW k \in Services, NEW i \in DOMAIN wire'[k], wire'[k][i].type # "status"
        PROVE  i \in DOMAIN wire[k] /\ wire'[k][i] = wire[k][i] /\ wire[k][i] \in Messages
    <3> DEFINE m == [type |-> "status"]
    <3>1. wire[k] \in Seq(Messages) /\ m \in Messages /\ m.type = "status"
      BY <1>a DEF Messages
    <3>2. wire'[k] = wire[k] \/ wire'[k] = Append(wire[k], m)
      BY <2>2
    <3> HIDE DEF m
    <3> QED BY <2>6, <3>1, <3>2, Appended
  <2>7. /\ \A m \in Messages : m.type # "status" => m.prompt \in Prompts
        /\ p \notin heard
        /\ \A k \in Services : \A i \in DOMAIN wire'[k] : wire'[k][i].type # "status" => wire'[k][i].prompt # p
    BY <2>1, <2>6 DEF WireInv, Messages
  <2>8. WireInv'
    BY <2>2, <2>5, <2>6, <2>7 DEF WireInv, StudioTypeOK
  <2>9. PromptInv'
    BY <2>3, <2>4, <2>5, <2>7 DEF PromptInv, StatesOf, Services, Owns, Held
  <2>10. CurrentInv' /\ HeardInv'
    BY <2>2, <2>3, <2>4, <2>7 DEF CurrentInv, HeardInv, Owns, Held
  <2> QED BY <2>4, <2>8, <2>9, <2>10 DEF StudioInv
<1>16. ASSUME NEW j \in Jobs, Queued(j) PROVE StudioInv'
  <2>1. /\ jobs[j].at = "answered" /\ service' = [service EXCEPT ![jobs[j].kind].current = jobs[j].prompt]
        /\ Goto(j, "waiting")
        /\ UNCHANGED <<session, genLock, connected, wire, listening, comfy, heard>>
    BY <1>16 DEF Queued
  <2>2. /\ jobs'[j].at = "waiting" /\ jobs'[j].kind = jobs[j].kind /\ jobs'[j].prompt = jobs[j].prompt
        /\ \A d \in Jobs \ {j} : jobs'[d] = jobs[d]
    BY <2>1, <1>a DEF Goto, Requests
  <2>3. LineInv' /\ KindInv' /\ jobs[j].kind \in Services /\ \A d \in Jobs : jobs'[d].at \in Held => d = j
    BY <2>1, <2>2, <1>14 DEF Held
  <2>4. /\ service'[jobs[j].kind].current = jobs[j].prompt
        /\ \A k \in Services : service'[k].done = service[k].done
        /\ jobs[j].kind = "video" => service'["image"].current = service["image"].current
    BY <2>1, <2>3, <1>a DEF ServiceStates, Services
  <2>5. WireInv'
    BY <2>1 DEF WireInv
  <2>6. PromptInv' /\ HeardInv'
    BY <2>1, <2>2, <2>3, <2>4 DEF PromptInv, HeardInv, Owns, Held
  <2>7. jobs[j].kind = "video" => service["image"].current = None
    BY <2>1, <1>14, OneGenerates DEF CurrentInv, Held
  <2>8. CurrentInv'
    BY <2>2, <2>3, <2>4, <2>7 DEF CurrentInv, Held, Services
  <2> QED BY <2>3, <2>5, <2>6, <2>8 DEF StudioInv
<1>17. ASSUME UNCHANGED <<jobs, genLock, session>> PROVE LineInv' /\ KindInv'
  BY <1>17, LineKeeps DEF KindInv
<1>18. ASSUME NEW k \in Services, NEW m \in Messages, Tell(k, m), NEW l \in Services, NEW i \in DOMAIN wire'[l]
       PROVE  \/ i \in DOMAIN wire[l] /\ wire'[l][i] = wire[l][i] /\ wire[l][i] \in Messages
              \/ wire'[l][i] = m /\ l = k
  <2>1. wire[l] \in Seq(Messages) /\ wire'[l] \in {wire[l], Append(wire[l], m)} /\ (l # k => wire'[l] = wire[l])
    BY <1>18, <1>a DEF Tell
  <2> QED BY <1>18, <2>1, Appended
<1>19. ASSUME NEW p \in Prompts, NEW k \in Services, NEW m \in Messages, m.prompt = p,
              comfy[p] \in StatesOf(k) \ {"ended"}, comfy'[p] \in StatesOf(k) \ Services,
              \A q \in Prompts \ {p} : comfy'[q] = comfy[q], Tell(k, m),
              UNCHANGED <<session, jobs, genLock, connected, service, listening, heard>>
       PROVE  StudioInv'
  <2>1. LineInv' /\ KindInv'
    BY <1>17, <1>19
  <2>2. comfy'[p] \in {"painting", "filming", "ended"}
    BY <1>19 DEF StatesOf, Services
  <2>3. WireInv'
    <3>1. ASSUME NEW l \in Services, NEW i \in DOMAIN wire'[l], wire'[l][i].type # "status"
          PROVE  comfy'[wire'[l][i].prompt] \in {"painting", "filming", "ended"}
      <4>1. \A n \in Messages : n.type # "status" => n.prompt \in Prompts
        BY DEF Messages
      <4> QED BY <1>18, <1>19, <2>2, <3>1, <4>1 DEF WireInv
    <3>2. \A q \in heard : q \in Prompts /\ comfy'[q] \in {"painting", "filming", "ended"}
      BY <1>19, <2>2 DEF WireInv, StudioTypeOK
    <3> QED BY <1>19, <3>1, <3>2 DEF WireInv
  <2>4. PromptInv'
    <3> SUFFICES ASSUME NEW j \in Jobs, Owns(j)
                 PROVE  /\ jobs[j].prompt \in Prompts /\ comfy'[jobs[j].prompt] \in StatesOf(jobs[j].kind)
                        /\ \A l \in Services : \A i \in DOMAIN wire'[l] :
                              wire'[l][i].type # "status" /\ wire'[l][i].prompt = jobs[j].prompt => l = jobs[j].kind
      BY <1>19 DEF PromptInv, Owns
    <3>1. jobs[j].prompt \in Prompts /\ comfy[jobs[j].prompt] \in StatesOf(jobs[j].kind) /\ jobs[j].kind \in Services
      BY DEF PromptInv, KindInv, Owns, InLine, Held
    <3>2. jobs[j].prompt = p => jobs[j].kind = k
      BY <1>19, <3>1 DEF StatesOf, Services
    <3>3. comfy'[jobs[j].prompt] \in StatesOf(jobs[j].kind)
      BY <1>19, <3>1, <3>2
    <3> QED BY <1>18, <1>19, <3>1, <3>2, <3>3 DEF PromptInv
  <2>5. CurrentInv' /\ HeardInv'
    BY <1>19 DEF CurrentInv, HeardInv, Owns
  <2> QED BY <2>1, <2>3, <2>4, <2>5 DEF StudioInv
<1>20. ASSUME NEW p \in Prompts, ComfyStarts(p) PROVE StudioInv'
  BY <1>20, <1>19, <1>a DEF ComfyStarts, Messages, StatesOf, Services
<1>21. ASSUME NEW p \in Prompts, ComfyEnds(p) PROVE StudioInv'
  BY <1>21, <1>19, <1>a DEF ComfyEnds, Messages, StatesOf, Services
<1>22. ASSUME NEW k \in Services, Hear(k) PROVE StudioInv'
  <2> DEFINE m == Head(wire[k])
  <2>1. /\ wire[k] # <<>> /\ service' = [service EXCEPT ![k] = Handled(m, service[k])]
        /\ heard' = IF m.type = "success" THEN heard \union {m.prompt} ELSE heard
        /\ wire' = [wire EXCEPT ![k] = Tail(wire[k])]
        /\ UNCHANGED <<session, jobs, genLock, connected, listening, comfy>>
    BY <1>22 DEF Hear
  <2>2. /\ m \in Messages /\ 1 \in DOMAIN wire[k] /\ m = wire[k][1] /\ Tail(wire[k]) \in Seq(Messages)
        /\ \A i \in DOMAIN Tail(wire[k]) : i + 1 \in DOMAIN wire[k] /\ Tail(wire[k])[i] = wire[k][i + 1]
    BY <2>1, <1>a
  <2> HIDE DEF m
  <2>3. LineInv' /\ KindInv'
    BY <1>17, <2>1
  <2>4. ASSUME NEW l \in Services, NEW i \in DOMAIN wire'[l]
        PROVE  \E n \in DOMAIN wire[l] : wire'[l][i] = wire[l][n]
    BY <2>1, <2>2, <1>a
  <2>5. WireInv'
    BY <2>1, <2>2, <2>4 DEF WireInv
  <2>6. PromptInv'
    BY <2>1, <2>4 DEF PromptInv, Owns
  <2>7. ASSUME NEW l \in Services
        PROVE  service'[l].current = service[l].current /\ (service[l].done # "no" => service'[l].done # "no")
    BY <2>1, <2>2, <1>a DEF Handled, ServiceStates, Messages
  <2>8. CurrentInv'
    BY <2>1, <2>7 DEF CurrentInv, KindInv, InLine, Held, Services
  <2>9. HeardInv'
    <3> SUFFICES ASSUME NEW j \in Jobs, Owns(j), jobs[j].prompt \in heard'
                 PROVE  service'[jobs[j].kind].done # "no"
      BY <2>1 DEF HeardInv, Owns
    <3>1. jobs[j].kind \in Services
      BY DEF Owns, KindInv, InLine, Held
    <3>2. CASE jobs[j].prompt \in heard
      BY <2>7, <3>1, <3>2 DEF HeardInv
    <3>3. CASE m.type = "success" /\ m.prompt = jobs[j].prompt
      <4>1. jobs[j].kind = k
        BY <2>2, <3>3 DEF PromptInv
      <4>2. Passes(m, service[k])
        BY <3>3, <4>1 DEF CurrentInv, Owns, Passes
      <4>3. Handled(m, service[k]).done = "success"
        BY <3>3, <4>2, <1>a DEF Handled, ServiceStates
      <4> QED BY <2>1, <4>1, <4>3, <1>a
    <3> QED BY <2>1, <3>2, <3>3
  <2> QED BY <2>3, <2>5, <2>6, <2>8, <2>9 DEF StudioInv
<1>23. CASE ConnectionLost
  <2>1. /\ wire' = [k \in Services |-> <<>>]
        /\ UNCHANGED <<session, jobs, genLock, connected, service, comfy, heard>>
    BY <1>23 DEF ConnectionLost
  <2>2. WireInv' /\ PromptInv' /\ CurrentInv' /\ HeardInv'
    BY <2>1 DEF WireInv, PromptInv, CurrentInv, HeardInv, Owns
  <2> QED BY <1>17, <2>1, <2>2 DEF StudioInv
<1> QED BY <1>1, <1>3, <1>4, <1>6, <1>7, <1>9, <1>10, <1>12, <1>13, <1>15, <1>16, <1>20, <1>21, <1>22, <1>23
        DEF StudioNext, Works

LEMMA StudioStart == StudioInit => StudioInv
<1> SUFFICES ASSUME StudioInit PROVE StudioInv
  OBVIOUS
<1>1. StudioTypeOK
  <2>1. session \in Sessions
    BY StudioAssumption DEF StudioInit, Sessions, None
  <2>2. jobs \in [Jobs -> Requests]
    <3>1. Idle \in Requests
      BY DEF Requests, Idle, Places
    <3> QED BY <3>1 DEF StudioInit
  <2>3. service \in [Services -> ServiceStates]
    <3>1. [status |-> "disconnected", current |-> None, done |-> "no"] \in ServiceStates
      BY DEF ServiceStates, Statuses
    <3> QED BY <3>1 DEF StudioInit
  <2>4. genLock \in Seq(Jobs) /\ wire \in [Services -> Seq(Messages)]
    <3>1. /\ genLock = <<>> /\ wire = [k \in Services |-> <<>>]
          /\ <<>> \in Seq(Jobs) /\ <<>> \in Seq(Messages)
      BY DEF StudioInit
    <3> QED BY <3>1
  <2>5. /\ connected \in BOOLEAN /\ listening \subseteq Services /\ heard \subseteq Prompts
        /\ comfy \in [Prompts -> PromptStates]
    BY DEF StudioInit, PromptStates
  <2> QED BY <2>1, <2>2, <2>3, <2>4, <2>5 DEF StudioTypeOK, Sessions, Requests, ServiceStates, PromptStates
<1>2. PlanFitsTimeline
  BY DEF StudioInit, PlanFitsTimeline, None
<1>3. LineInv
  BY DEF StudioInit, LineInv, IsInjective, ToSet, InLine, Held, Idle
<1>4. KindInv /\ WireInv /\ PromptInv /\ CurrentInv /\ HeardInv
  BY DEF StudioInit, KindInv, WireInv, PromptInv, CurrentInv, HeardInv, InLine, Held, Owns, Idle, Services
<1> QED BY <1>1, <1>2, <1>3, <1>4 DEF StudioInv

LEMMA StudioInvariant == StudioSpec => []StudioInv
BY StudioStart, StudioStep, PTL DEF StudioSpec

\* The requests, the lock, the services, the messages and ComfyUI's prompts
\* hold values of their types, for any requests.
THEOREM StudioTypeCorrect == StudioSpec => []StudioTypeOK
<1>1. StudioInv => StudioTypeOK
  BY DEF StudioInv
<1> QED BY <1>1, StudioInvariant, PTL

\* The scenes that exist are planned from the timeline that exists, whatever
\* is planned while a transcription is under way (realign_lyrics).
THEOREM PlanIsOfTimeline == StudioSpec => []PlanFitsTimeline
<1>1. StudioInv => PlanFitsTimeline
  BY DEF StudioInv
<1> QED BY <1>1, StudioInvariant, PTL

\* No generation waits for a success that was heard before, not even for one
\* that came before the answer with the prompt's id.
THEOREM SuccessIsKept == StudioSpec => []SuccessNotLost
<1>1. StudioInv => SuccessNotLost
  BY DEF StudioInv, HeardInv, SuccessNotLost, Owns
<1> QED BY <1>1, StudioInvariant, PTL

(***************************************************************************)
(* _GEN_LOCK implements FairLock.                                          *)
(***************************************************************************)
Generating == \E j \in Jobs : jobs[j].at \in Held

LEMMA GenerationStays ==
    ASSUME LineInv, NEW j \in Jobs, UNCHANGED genLock, jobs'[j].at \in Held <=> jobs[j].at \in Held,
           \A d \in Jobs \ {j} : jobs'[d] = jobs[d]
    PROVE  UNCHANGED genLock /\ (Generating' <=> Generating)
BY DEF Generating

\* The head of the line answers: a generation that ends, or a request that
\* finds no connection.
LEMMA HeadAnswers ==
    ASSUME LineInv, jobs \in [Jobs -> Requests], NEW j \in Jobs, jobs[j].at \in Held \/ Holds(j),
           Answer(j), Release
    PROVE  \/ Generating /\ ~Generating' /\ genLock' = Tail(genLock)
           \/ 1 \in DOMAIN genLock /\ ~Generating /\ ~Generating' /\ genLock' = GenLock!RemoveAt(genLock, 1)
<1>1. genLock # <<>> /\ Head(genLock) = j /\ genLock \in Seq(Jobs) /\ \A d \in Jobs \ {j} : jobs[d].at \notin Held
  BY OneGenerates DEF LineInv
<1>2. jobs'[j].at = "idle" /\ \A d \in Jobs \ {j} : jobs'[d] = jobs[d]
  BY DEF Answer, Idle
<1>3. ~Generating' /\ genLock' = Tail(genLock)
  BY <1>1, <1>2 DEF Generating, Held, Release
<1>4. 1 \in DOMAIN genLock /\ GenLock!RemoveAt(genLock, 1) = Tail(genLock)
  <2>1. /\ Tail(genLock) = SubSeq(genLock, 2, Len(genLock)) /\ SubSeq(genLock, 1, 0) = <<>>
        /\ SubSeq(genLock, 2, Len(genLock)) \in Seq(Jobs)
    BY <1>1
  <2>2. <<>> \o SubSeq(genLock, 2, Len(genLock)) = SubSeq(genLock, 2, Len(genLock))
    BY <2>1
  <2> QED BY <1>1, <2>1, <2>2 DEF GenLock!RemoveAt
<1> QED BY <1>3, <1>4

LEMMA GenLockStep ==
    ASSUME StudioInv, [StudioNext]_studioVars
    PROVE  \/ UNCHANGED genLock /\ (Generating' <=> Generating)
           \/ ~Generating /\ genLock # <<>> /\ Generating' /\ UNCHANGED genLock
           \/ Generating /\ ~Generating' /\ genLock' = Tail(genLock)
           \/ \E j \in Jobs : /\ j \notin ToSet(genLock) /\ (Generating' <=> Generating)
                              /\ genLock' = Append(genLock, j)
           \/ 1 \in DOMAIN genLock /\ ~Generating /\ ~Generating' /\ genLock' = GenLock!RemoveAt(genLock, 1)
<1>0. LineInv /\ jobs \in [Jobs -> Requests]
  BY DEF StudioInv, StudioTypeOK, Requests
<1> USE <1>0
<1>1. ASSUME UNCHANGED <<jobs, genLock>>
      PROVE  UNCHANGED genLock /\ (Generating' <=> Generating)
  BY <1>1 DEF Generating
<1>2. CASE UNCHANGED studioVars
  BY <1>1, <1>2 DEF studioVars
<1>3. CASE PlanScenes \/ ConnectionLost \/ (\E p \in Prompts : ComfyStarts(p) \/ ComfyEnds(p)) \/ \E k \in Services : Hear(k)
  BY <1>1, <1>3 DEF PlanScenes, ConnectionLost, ComfyStarts, ComfyEnds, Hear
<1>4. ASSUME NEW j \in Jobs, Realign(j) \/ Realigned(j) \/ QueuePrompt(j) \/ Queued(j)
      PROVE  UNCHANGED genLock /\ (Generating' <=> Generating)
  <2>1. UNCHANGED genLock
    BY <1>4 DEF Realign, Realigned, QueuePrompt, Queued
  <2>2. CASE Realign(j) \/ Realigned(j)
    <3>1. jobs[j].at \in {"idle", "aligning"} /\ jobs' \in {[jobs EXCEPT ![j].at = "aligning"], [jobs EXCEPT ![j] = Idle]}
      BY <2>2 DEF Realign, Realigned, Goto, Answer
    <3>2. jobs'[j].at \notin Held /\ jobs[j].at \notin Held /\ \A d \in Jobs \ {j} : jobs'[d] = jobs[d]
      BY <3>1 DEF Held, Idle, Requests
    <3> QED BY <2>1, <3>2, GenerationStays
  <2>3. CASE QueuePrompt(j)
    <3>1. PICK p \in Prompts : jobs' = [jobs EXCEPT ![j] = [@ EXCEPT !.at = "answered", !.prompt = p]]
      BY <2>3, Zenon DEF QueuePrompt
    <3>2. jobs[j].at = "queueing"
      BY <2>3, Zenon DEF QueuePrompt
    <3>3. jobs'[j].at \in Held /\ jobs[j].at \in Held /\ \A d \in Jobs \ {j} : jobs'[d] = jobs[d]
      BY <3>1, <3>2 DEF Held, Requests
    <3> QED BY <2>1, <3>3, GenerationStays
  <2>4. CASE Queued(j)
    <3>1. jobs'[j].at \in Held /\ jobs[j].at \in Held /\ \A d \in Jobs \ {j} : jobs'[d] = jobs[d]
      BY <2>4 DEF Queued, Goto, Held, Requests
    <3> QED BY <2>1, <3>1, GenerationStays
  <2> QED BY <1>4, <2>2, <2>3, <2>4
<1>5. ASSUME NEW j \in Jobs, AskImage(j) \/ AskVideo(j)
      PROVE  \/ UNCHANGED genLock /\ (Generating' <=> Generating)
             \/ j \notin ToSet(genLock) /\ (Generating' <=> Generating) /\ genLock' = Append(genLock, j)
  <2>1. CASE UNCHANGED <<jobs, genLock>>
    BY <1>1, <2>1
  <2>2. ASSUME NEW kind, jobs' = [jobs EXCEPT ![j] = [Idle EXCEPT !.at = "locking", !.kind = kind]],
               jobs[j].at = "idle", genLock' = Append(genLock, j)
        PROVE  j \notin ToSet(genLock) /\ (Generating' <=> Generating)
    <3>1. /\ jobs'[j].at = "locking" /\ \A d \in Jobs \ {j} : jobs'[d] = jobs[d]
      BY <2>2 DEF Idle
    <3>2. j \notin ToSet(genLock)
      BY <2>2 DEF LineInv, InLine, Held
    <3>3. jobs'[j].at \notin Held /\ jobs[j].at \notin Held
      BY <2>2, <3>1 DEF Held
    <3> QED BY <3>1, <3>2, <3>3 DEF Generating
  <2> QED BY <1>5, <2>1, <2>2 DEF AskImage, AskVideo
<1>6. ASSUME NEW j \in Jobs, BeginGeneration(j)
      PROVE  ~Generating /\ genLock # <<>> /\ Generating' /\ UNCHANGED genLock
  <2>1. jobs[j].at = "locking" /\ Holds(j) /\ UNCHANGED genLock /\ (Goto(j, "queueing") \/ Goto(j, "aside"))
    BY <1>6 DEF BeginGeneration
  <2>2. genLock # <<>> /\ \A d \in Jobs \ {j} : jobs[d].at \notin Held
    BY <2>1, OneGenerates
  <2>3. jobs'[j].at \in Held /\ jobs[j].at \notin Held
    BY <2>1 DEF Goto, Requests, Held
  <2> QED BY <2>1, <2>2, <2>3 DEF Generating
<1>7. ASSUME NEW j \in Jobs, Connect(j) \/ GenerateAside(j) \/ QueueFails(j) \/ TimeOut(j) \/ WokenUp(j)
      PROVE  \/ UNCHANGED genLock /\ (Generating' <=> Generating)
             \/ Generating /\ ~Generating' /\ genLock' = Tail(genLock)
             \/ 1 \in DOMAIN genLock /\ ~Generating /\ ~Generating' /\ genLock' = GenLock!RemoveAt(genLock, 1)
  <2>1. CASE UNCHANGED <<jobs, genLock>>
    BY <1>1, <2>1
  <2>2. CASE ~UNCHANGED <<jobs, genLock>>
    <3>1. Answer(j) /\ Release
      BY <1>7, <2>2 DEF Connect, GenerateAside, QueueFails, TimeOut, WokenUp, Abandon, Store, Fail
    <3>2. jobs[j].at \in Held \/ Holds(j)
      BY <1>7 DEF Connect, GenerateAside, QueueFails, TimeOut, TimesOut, WokenUp, Held
    <3> QED BY <3>1, <3>2, HeadAnswers
  <2> QED BY <2>1, <2>2
<1> QED BY <1>2, <1>3, <1>4, <1>5, <1>6, <1>7, Zenon DEF StudioNext, Works

(***************************************************************************)
(* _GEN_LOCK is an asyncio.Lock for any number of requests: one generation *)
(* at a time, in the order in which they asked, freed however each of them *)
(* ends, and handed on by a request that finds no ComfyUI to connect to    *)
(* (api_server.py api_image, api_video).                                   *)
(***************************************************************************)
THEOREM GenLockRefinesFairLock == StudioSpec => GenLockIsFair
<1>1. StudioInit => GenLock!Init
  BY DEF StudioInit, GenLock!Init, Idle
<1>2. ASSUME StudioInv, [StudioNext]_studioVars PROVE [GenLock!Next]_(GenLock!lockVars)
  <2>1. \A q : GenLock!ToSet(q) = ToSet(q)
    BY DEF GenLock!ToSet, ToSet
  <2>2. CASE UNCHANGED genLock /\ (Generating' <=> Generating)
    BY <2>2 DEF GenLock!lockVars, Generating, Held
  <2>3. CASE ~Generating /\ genLock # <<>> /\ Generating' /\ UNCHANGED genLock
    BY <2>3 DEF GenLock!Next, GenLock!Grant, Generating, Held
  <2>4. CASE Generating /\ ~Generating' /\ genLock' = Tail(genLock)
    BY <2>4 DEF GenLock!Next, GenLock!Release, Generating, Held
  <2>5. CASE \E j \in Jobs : /\ j \notin ToSet(genLock) /\ (Generating' <=> Generating)
                             /\ genLock' = Append(genLock, j)
    BY <2>1, <2>5 DEF GenLock!Next, GenLock!Ask, Generating, Held
  <2>6. CASE 1 \in DOMAIN genLock /\ ~Generating /\ ~Generating' /\ genLock' = GenLock!RemoveAt(genLock, 1)
    BY <2>6 DEF GenLock!Next, GenLock!GiveUp, Generating, Held
  <2> QED BY <1>2, <2>2, <2>3, <2>4, <2>5, <2>6, GenLockStep, Zenon
<1> QED BY <1>1, <1>2, StudioStart, StudioStep, PTL DEF StudioSpec, GenLockIsFair, GenLock!Spec

-----------------------------------------------------------------------------
(***************************************************************************)
(* The parts side by side, as MCParts composes them: a step of one leaves  *)
(* the others where they are, so that each keeps its invariant.            *)
(***************************************************************************)
PartsInv == FsmTypeOK /\ CheckpointInv /\ LoopInv /\ RelayInv /\ QuotaInv /\ StudioInv

LEMMA PartsStart == PartsInit => PartsInv
<1>1. FsmInit => FsmTypeOK
  BY SerialInit DEF SerialInv
<1> QED BY <1>1, CheckpointStart, LoopInitInv, RelayStart, QuotaInit, StudioStart
        DEF PartsInit, PartsInv

partsVars == <<fsmVars, pipelineVars, loopVars, relayVars, guardianVars, studioVars, part>>

LEMMA PartsStep == PartsInv /\ [PartsNext]_partsVars => PartsInv'
<1> SUFFICES ASSUME PartsInv, [PartsNext]_partsVars
             PROVE  PartsInv'
  OBVIOUS
<1>1. [FsmNext]_fsmVars
  BY DEF PartsNext, OthersRest, partsVars
<1>2. [PipelineNext]_pipelineVars
  BY DEF PartsNext, OthersRest, partsVars
<1>3. [LoopNext]_loopVars
  BY DEF PartsNext, OthersRest, partsVars
<1>4. [RelayNext]_relayVars
  BY DEF PartsNext, OthersRest, partsVars
<1>5. [GuardianNext]_guardianVars
  BY DEF PartsNext, OthersRest, partsVars
<1>6. [StudioNext]_studioVars
  BY DEF PartsNext, OthersRest, partsVars
<1> QED BY <1>1, <1>2, <1>3, <1>4, <1>5, <1>6, FsmTypeStep, CheckpointStep, LoopStep, RelayStep,
           QuotaStep, StudioStep
        DEF PartsInv

(***************************************************************************)
(* Type correctness of the GPU's state machine and of the five parts that  *)
(* run beside it, in every behaviour of their composition.                 *)
(***************************************************************************)
THEOREM PartsTypeCorrect == PartsSpec => []PartsTypeOK
<1>1. PartsInv => PartsTypeOK
  BY DEF PartsInv, PartsTypeOK, CheckpointInv, LoopInv, RelayInv, QuotaInv, StudioInv
<1> QED BY <1>1, PartsStart, PartsStep, PTL DEF PartsSpec, partsVars
=============================================================================
