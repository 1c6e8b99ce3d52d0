----------------------------- MODULE Autonomous -----------------------------
(***************************************************************************)
(* The autonomous agent (core/autonomous_agent.py) with the operators'     *)
(* endpoints (routers/autonomous.py, routers/telegram.py).  A tick lets    *)
(* the Tower plan a piece of work, has it reviewed and executes it: the    *)
(* Verdict model writes a script, which is checked, saved and run.  The    *)
(* record of the work is durable.  Everything runs on one event loop,      *)
(* which the run of a script blocks.  All scripts without a name of their  *)
(* own share a file.  A tick may be the background loop's, the endpoint's  *)
(* or Telegram's; how long the background loop waits between its ticks is  *)
(* left to chance, and so is whether a plan resembles one that waits.      *)
(***************************************************************************)
EXTENDS Naturals

CONSTANTS Ticks,         \* calls of run_autonomous_tick, each with its record
          Approvals,     \* operators' approvals
          NoRecord, NoScript

Calls == Ticks \union Approvals

ASSUME AutonomousAssumption ==
    Ticks \intersect Approvals = {} /\ NoRecord \notin Ticks /\ NoScript \notin Calls

VARIABLES
    record,       \* the status of each tick's record, "none" without a row
    ethics,       \* the row's ethics_approved
    place,        \* where each call is
    subject,      \* the record whose work the call executes
    retried,      \* the calls that execute for the second time (auto_retry=False)
    script,       \* the script's file: the call that wrote it
    begun,        \* how often the work of each record was started
    executed,     \* pairs of a record and the code that was run for it
    overlapped,   \* records that two calls took up at a time
    rejected      \* records rejected while nobody was about to execute them

autonomousVars ==
    <<record, ethics, place, subject, retried, script, begun, executed, overlapped, rejected>>

RecordStates == {"none", "WAITING_FOR_APPROVAL", "QUARANTINED", "ETHICS_FAIL", "PENDING",
             "EXECUTING", "COMPLETED", "REJECTED"}
CallPlaces == {"off", "plan", "ethics", "verdict", "audit", "pause", "launched", "running", "over"}

AutonomousTypeOK ==
    /\ record \in [Ticks -> RecordStates]
    /\ ethics \subseteq Ticks /\ overlapped \subseteq Ticks /\ rejected \subseteq Ticks
    /\ place \in [Calls -> CallPlaces]
    /\ subject \in [Calls -> Ticks \union {NoRecord}]
    /\ retried \subseteq Calls
    /\ script \in Calls \union {NoScript}
    /\ begun \in [Ticks -> Nat]
    /\ executed \subseteq Ticks \X (Calls \union {NoScript})

AutonomousInit ==
    /\ record = [t \in Ticks |-> "none"] /\ ethics = {}
    /\ place = [c \in Calls |-> "off"]
    /\ subject = [c \in Calls |-> IF c \in Ticks THEN c ELSE NoRecord]
    /\ retried = {} /\ script = NoScript
    /\ begun = [t \in Ticks |-> 0] /\ executed = {}
    /\ overlapped = {} /\ rejected = {}
-----------------------------------------------------------------------------
\* MUTANT: the script is run without blocking the loop.
NeverBlocked == FALSE
\* subprocess.run blocks the thread of the event loop.
Blocked == \E c \in Calls : place[c] \in {"launched", "running"}

Enters(c, p) == place' = [place EXCEPT ![c] = p]

\* The calls that have seen the record waiting, and will execute it.
Executing(r) == {c \in Calls : subject[c] = r /\ place[c] \in {"verdict", "audit"}}

(***************************************************************************)
(* execute_approved_work for a record that was seen waiting, up to the     *)
(* await of the Verdict model.  A listing of the workspace is done at      *)
(* once, and a record without a usable file name fails at once.            *)
(***************************************************************************)
Begins(c, r) ==
    \/ /\ Enters(c, "verdict")
       /\ record' = [record EXCEPT ![r] = "WAITING_FOR_APPROVAL"]
       /\ overlapped' = IF Executing(r) # {} THEN overlapped \union {r} ELSE overlapped
    \/ /\ Enters(c, "over")
       /\ record' = [record EXCEPT ![r] = "COMPLETED"]
       /\ UNCHANGED overlapped

\* _record_and_notify_failure: a failure is recorded as COMPLETED, too.
Fails(c) ==
    /\ Enters(c, "over")
    /\ record' = [record EXCEPT ![subject[c]] = "COMPLETED"]
    /\ UNCHANGED <<script, overlapped>>

\* The checks are passed: the file is written, EXECUTING recorded, and the
\* interpreter started, without an await between them.
\* MUTANT: the status is recorded at the end only.
LaunchesUnrecorded(c) ==
    Enters(c, "launched") /\ script' = c /\ UNCHANGED <<record, overlapped>>
Launches(c) ==
    /\ Enters(c, "launched")
    /\ script' = c
    /\ record' = [record EXCEPT ![subject[c]] = "EXECUTING"]
    /\ UNCHANGED overlapped

\* An exception of no step in particular: a transient one is worth a retry
\* after five seconds, if this is not the retry.
\* MUTANT: the retry may be retried.
UnexpectedAgain(c) ==
    \/ Enters(c, "pause") /\ UNCHANGED <<record, script, overlapped>>
    \/ Fails(c)
Unexpected(c) ==
    \/ c \notin retried /\ Enters(c, "pause") /\ UNCHANGED <<record, script, overlapped>>
    \/ Fails(c)
-----------------------------------------------------------------------------
TickBegins(t) ==
    /\ place[t] = "off" /\ ~Blocked
    /\ Enters(t, "plan")
    /\ UNCHANGED <<record, ethics, subject, retried, script, begun, executed, overlapped, rejected>>

\* The Tower says skip, or nothing usable, or what resembles a waiting record;
\* or a listing, which is done at once; or work, which has to be reviewed.
TowerAnswers(t) ==
    /\ place[t] = "plan" /\ ~Blocked
    /\ \/ Enters(t, "over") /\ UNCHANGED <<record, ethics>>
       \/ /\ Enters(t, "over")
          /\ record' = [record EXCEPT ![t] = "COMPLETED"] /\ ethics' = ethics \union {t}
       \/ Enters(t, "ethics") /\ UNCHANGED <<record, ethics>>
    /\ UNCHANGED <<subject, retried, script, begun, executed, overlapped, rejected>>

\* Refused work is quarantined; approved work is saved as waiting, announced,
\* and executed by the tick itself.
EthicsReviewed(t) ==
    /\ place[t] = "ethics" /\ ~Blocked
    /\ \/ /\ Enters(t, "over")
          /\ record' = [record EXCEPT ![t] = "QUARANTINED"]
          /\ UNCHANGED <<ethics, overlapped>>
       \/ Begins(t, t) /\ ethics' = ethics \union {t}
    /\ UNCHANGED <<subject, retried, script, begun, executed, rejected>>

\* An exception in a tick; a recovery makes the record PENDING, which no code
\* takes up.
TickFails(t) ==
    /\ place[t] \in {"plan", "ethics"} /\ ~Blocked
    /\ Enters(t, "over")
    /\ \E status \in {"ETHICS_FAIL", "PENDING"} : record' = [record EXCEPT ![t] = status]
    /\ UNCHANGED <<ethics, subject, retried, script, begun, executed, overlapped, rejected>>

\* The code comes, or no code; it has no description, or the AST check
\* refuses it; it is of level 3 and has to be audited; or it is run.
CodeArrives(c) ==
    /\ place[c] = "verdict" /\ ~Blocked
    /\ \/ Fails(c)
       \/ Enters(c, "audit") /\ UNCHANGED <<record, script, overlapped>>
       \/ Launches(c)
       \/ Unexpected(c)
    /\ UNCHANGED <<ethics, subject, retried, begun, executed, rejected>>

AuditAnswers(c) ==
    /\ place[c] = "audit" /\ ~Blocked
    /\ \/ Fails(c)
       \/ Launches(c)
       \/ Unexpected(c)
    /\ UNCHANGED <<ethics, subject, retried, begun, executed, rejected>>

\* The retry is a call like the first, which looks at the record again.
\* MUTANT: it goes on with what the first call has seen.
RetryBlindly(c) ==
    /\ place[c] = "pause" /\ ~Blocked
    /\ retried' = retried \union {c}
    /\ Begins(c, subject[c])
    /\ UNCHANGED <<ethics, subject, script, begun, executed, rejected>>
Retry(c) ==
    /\ place[c] = "pause" /\ ~Blocked
    /\ retried' = retried \union {c}
    /\ \/ record[subject[c]] = "WAITING_FOR_APPROVAL" /\ Begins(c, subject[c])
       \/ /\ record[subject[c]] # "WAITING_FOR_APPROVAL"
          /\ Enters(c, "over") /\ UNCHANGED <<record, overlapped>>
    /\ UNCHANGED <<ethics, subject, script, begun, executed, rejected>>

\* The interpreter reads the file.
ScriptStarts(c) ==
    /\ place[c] = "launched"
    /\ Enters(c, "running")
    /\ begun' = [begun EXCEPT ![subject[c]] = @ + 1]
    /\ executed' = executed \union {<<subject[c], script>>}
    /\ UNCHANGED <<record, ethics, subject, retried, script, overlapped, rejected>>

\* The script ends, with whatever exit code, or is stopped after a minute.
ScriptEnds(c) ==
    /\ place[c] = "running"
    /\ Enters(c, "over")
    /\ record' = [record EXCEPT ![subject[c]] = "COMPLETED"]
    /\ UNCHANGED <<ethics, subject, retried, script, begun, executed, overlapped, rejected>>
-----------------------------------------------------------------------------
(***************************************************************************)
(* The operators.  An approval looks at the record twice, without an await *)
(* between; a rejection does not look.                                     *)
(***************************************************************************)
Approve(a, r) ==
    /\ place[a] = "off" /\ ~Blocked
    /\ record[r] = "WAITING_FOR_APPROVAL"
    /\ subject' = [subject EXCEPT ![a] = r]
    /\ Begins(a, r)
    /\ UNCHANGED <<ethics, retried, script, begun, executed, rejected>>

Rejects(rs) ==
    /\ rs # {} /\ ~Blocked
    /\ record' = [r \in Ticks |-> IF r \in rs THEN "REJECTED" ELSE record[r]]
    /\ rejected' = rejected \union {r \in rs : Executing(r) = {}}
    /\ UNCHANGED <<ethics, place, subject, retried, script, begun, executed, overlapped>>

Reject(r) == record[r] # "none" /\ Rejects({r})

RejectAll == Rejects({r \in Ticks : record[r] \in {"WAITING_FOR_APPROVAL", "QUARANTINED"}})

\* The process dies, or is shut down.  The rows and the file remain.
Restart ==
    /\ \E c \in Calls : place[c] \notin {"off", "over"}
    /\ place' = [c \in Calls |-> IF place[c] = "off" THEN "off" ELSE "over"]
    /\ UNCHANGED <<record, ethics, subject, retried, script, begun, executed, overlapped, rejected>>
-----------------------------------------------------------------------------
TickStep(t) == TowerAnswers(t) \/ EthicsReviewed(t) \/ TickFails(t)
WorkStep(c) ==
    CodeArrives(c) \/ AuditAnswers(c) \/ Retry(c) \/ ScriptStarts(c) \/ ScriptEnds(c)

CallStep(c) == (c \in Ticks /\ TickStep(c)) \/ WorkStep(c)

AutonomousNext ==
    \/ \E t \in Ticks : TickBegins(t) \/ Reject(t)
    \/ \E c \in Calls : CallStep(c)
    \/ \E a \in Approvals, r \in Ticks : Approve(a, r)
    \/ RejectAll \/ Restart

\* The providers' calls end or fail, and a script has a minute.
AutonomousFairness == \A c \in Calls : WF_autonomousVars(CallStep(c))

AutonomousSpec == AutonomousInit /\ [][AutonomousNext]_autonomousVars /\ AutonomousFairness
-----------------------------------------------------------------------------
(***************************************************************************)
(* Executions share a file.  What is run for a record is nevertheless the  *)
(* code that was written and checked for it, and its plan was approved     *)
(* (execute_approved_work, 791-811).                                       *)
(***************************************************************************)
RunsItsOwnCode ==
    \A x \in executed : x[2] \in Calls /\ subject[x[2]] = x[1] /\ x[1] \in ethics

(***************************************************************************)
(* A tick executes its record, and an operator may approve it meanwhile or *)
(* after a crash: if no two of these calls overlapped between their look   *)
(* at the record and the run, the work was started once at most, over      *)
(* retries and restarts (execute_approved_work, 608-609, 811).             *)
(***************************************************************************)
StartedOnce == \A r \in Ticks : begun[r] > 1 => r \in overlapped

(***************************************************************************)
(* A rejection that comes when no call is between its look at the record   *)
(* and the run holds: also one that comes while a call waits for its       *)
(* retry, or that follows a crash (autonomous_reject, 99-120).             *)
(***************************************************************************)
RejectionHolds ==
    [][\A r \in rejected : begun'[r] = begun[r]]_autonomousVars

(***************************************************************************)
(* Every tick and every approval comes to its end, through reviews,        *)
(* audits, a retry, and the scripts of others that block the loop.         *)
(***************************************************************************)
CallEnds ==
    \A c \in Calls : place[c] \notin {"off", "over"} ~> place[c] = "over"
=============================================================================
