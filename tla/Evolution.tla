------------------------------ MODULE Evolution ------------------------------
(***************************************************************************)
(* The evolution pipeline of core/evolution_manager.py when the guardian   *)
(* APIs are enabled: cycles (Tower, Verdict, Audit, with a retry), large   *)
(* plans that wait for the operator and then proceed, the ledger of        *)
(* proposals, their application to files, the limits of a day, and the     *)
(* scheduler's tick (core/evolution_trigger.py).                           *)
(*                                                                         *)
(* All of it runs on the main event loop: between the awaits of the        *)
(* providers a call is atomic, and at an await any other call may come.    *)
(***************************************************************************)
EXTENDS Naturals, FiniteSets

CONSTANTS Cycles,      \* calls of run_evolution_cycle (a refinement is one)
          GateCall,    \* the tick's first cycle, with an empty request
          TickCall,    \* the tick's own cycle
          Handlers,    \* calls of run_evolution_proceed_from_plan
          Topic,       \* [Cycles -> what the request is about, or NoTopic]
          NoTopic,     \* an empty request
          Targets,     \* files a verdict may change
          AutoScope,   \* targets in auto_apply_scope
          NoTarget,    \* a verdict without a target
          NoFile,     \* no file in the ledger
          NoProposal,  \* a handler that has not begun
          Original,    \* the content that no proposal has written
          MaxCycles,   \* max_cycles_per_day
          MaxRetries,  \* retry.max_retries
          Retries      \* [Cycles -> max_retries of the call]

ProposalIds == {p \in Cycles \X (0 .. MaxRetries) : p[2] <= Retries[p[1]]}
Codes == ProposalIds \union Handlers   \* a verdict's code, named for the call that asked for it

ASSUME EvolutionAssumption ==
    /\ {GateCall, TickCall} \subseteq Cycles /\ GateCall # TickCall
    /\ Topic \in [Cycles -> {Topic[c] : c \in Cycles}] /\ Topic[GateCall] = NoTopic
    /\ AutoScope \subseteq Targets /\ NoTarget \notin Targets
    /\ NoProposal \notin ProposalIds /\ Original \notin Codes
    /\ Handlers \intersect (Cycles \union ProposalIds) = {}
    /\ MaxCycles \in Nat \ {0} /\ MaxRetries \in Nat /\ Retries \in [Cycles -> 0 .. MaxRetries]

VARIABLES cycle,     \* [Cycles -> how far the call is]
          attempt,   \* [Cycles -> _retry_count]
          handler,   \* [Handlers -> [at, of]]
          draft,     \* [Cycles \union Handlers -> the target of the verdict in hand]
          ledger,    \* [ProposalIds -> the JSON file in logs/evolution_proposals]
          content,   \* [Targets -> whose code the file holds]
          cooldown,  \* evolution_cooldown.txt is younger than cooldown_minutes
          today,     \* rows of today in evolution_history
          tick,      \* where run_evolution_tick is
          cleared,   \* history: code that its audit said yes to, below the risk limit
          excused    \* history: the count of today was overtaken by an overlapping
                     \* call, by a plan, or could not be read

evolutionVars == <<cycle, attempt, handler, draft, ledger, content, cooldown, today,
                   tick, cleared, excused>>

Entry == [plan : BOOLEAN, target : Targets \union {NoTarget}, code : Codes,
          approved : BOOLEAN, rejected : BOOLEAN, applied : BOOLEAN]

EvolutionInit ==
    /\ cycle = [c \in Cycles |-> "new"]
    /\ attempt = [c \in Cycles |-> 0]
    /\ handler = [h \in Handlers |-> [at |-> "new", of |-> NoProposal]]
    /\ draft = [f \in Cycles \union Handlers |-> NoTarget]
    /\ ledger = [p \in ProposalIds |-> NoFile]
    /\ content = [t \in Targets |-> Original]
    /\ cooldown = FALSE
    /\ today = 0
    /\ tick = "idle"
    /\ cleared = {}
    /\ excused = FALSE

ProposalOf(c) == <<c, attempt[c]>>
Steps == {"tower", "verdict", "audit"}
Underway == {c \in Cycles : cycle[c] \in Steps} \union {h \in Handlers : handler[h].at \in Steps}

\* The ledger's files with p's replaced, unless the write fails (only logged).
Saved(p, e) == {ledger, [ledger EXCEPT ![p] = e]}

\* asdict(proposal): it has no fields `rejected` and `applied`.
Draft(code, target, plan, approved) ==
    [plan |-> plan, target |-> target, code |-> code, approved |-> approved,
     rejected |-> FALSE, applied |-> FALSE]

Waiting == {p \in ProposalIds : /\ ledger[p] # NoFile
                              /\ ledger[p].approved /\ ~ledger[p].applied /\ ~ledger[p].rejected}

SameRequest(c) == Topic[c] # NoTopic /\ \E p \in Waiting : Topic[p[1]] = Topic[c]
-----------------------------------------------------------------------------
(* A cycle.                                                                *)

\* Every way out of a cycle starts the cooldown, a blocked one too.
Conclude(c) == cycle' = [cycle EXCEPT ![c] = "over"] /\ cooldown' = TRUE

Advance(c, step) == cycle' = [cycle EXCEPT ![c] = step] /\ UNCHANGED cooldown

\* Mutant: the count is not compared.
LimitReachedNever(seen) == cooldown

\* _check_daily_limits; seen is 0 when the history cannot be read.
LimitReached(seen) == seen >= MaxCycles \/ cooldown

\* The limits of the day, which also look at the cost, and the requests that wait.
Begin0(c) ==
    /\ cycle[c] = "new"
    /\ \E seen \in {today, 0}, costly \in BOOLEAN :
          /\ costly => today > 0
          /\ IF LimitReached(seen) \/ costly \/ SameRequest(c)
             THEN Conclude(c) /\ UNCHANGED excused
             ELSE /\ Advance(c, "tower")
                  /\ excused' = (excused \/ Underway # {} \/ seen # today)
    /\ UNCHANGED <<attempt, handler, draft, ledger, today, cleared, content>>

RunCycle(c) == c \notin {GateCall, TickCall} /\ Begin0(c) /\ UNCHANGED tick

\* A proposal that was not approved is the source of a new cycle.
RefineCycle(c, p) ==
    /\ c \notin {GateCall, TickCall} /\ c # p[1] /\ Topic[c] = Topic[p[1]]
    /\ ledger[p] # NoFile /\ ~ledger[p].approved
    /\ Begin0(c) /\ UNCHANGED tick

\* The report: an error, a duplicate by its target or a low return (a row in
\* the history); a large plan, which waits for the operator; or go on.
Tower(c) ==
    /\ cycle[c] = "tower"
    /\ \/ /\ \E lowReturn, plan \in BOOLEAN :
                /\ ledger' \in Saved(ProposalOf(c), Draft(ProposalOf(c), NoTarget, plan, FALSE))
                /\ today' \in IF lowReturn /\ ~plan THEN {today, today + 1} ELSE {today}
          /\ Conclude(c)
       \/ Advance(c, "verdict") /\ UNCHANGED <<ledger, today>>
    /\ UNCHANGED <<attempt, handler, draft, tick, cleared, content, excused>>

\* Verdict and pre_flight_check.
Verdict(c) ==
    /\ cycle[c] = "verdict"
    /\ \E t \in Targets \union {NoTarget} :
          /\ \/ Advance(c, "audit") /\ draft' = [draft EXCEPT ![c] = t] /\ UNCHANGED <<ledger, today>>
             \/ /\ ledger' \in Saved(ProposalOf(c), Draft(ProposalOf(c), t, FALSE, FALSE))
                /\ today' \in {today, today + 1}
                /\ Conclude(c) /\ UNCHANGED draft
    /\ UNCHANGED <<attempt, handler, tick, cleared, content, excused>>

\* What the audit may say: no, nothing readable or an error; a yes; a yes with a
\* high risk_score, which is a no; a yes whose risk_score is no number, which
\* raises after audit_approved was set.
Sayings == {"yes", "no", "risky", "malformed"}

\* Mutant: the risk score is not looked at.
ApprovesRisk(saying) == saying \in {"yes", "risky", "malformed"}

Approves(saying) == saying \in {"yes", "malformed"}

ClearedBy(saying, code) ==
    IF saying \in {"yes", "malformed"} THEN cleared \union {code} ELSE cleared \ {code}

(***************************************************************************)
(* apply_from_proposal on the ledger L: a row DRAFT, a dry run that keeps  *)
(* the old content, the write, the row APPLIED, the verification.  Nothing *)
(* changes if it is refused (path, syntax, write error) or rolled back.    *)
(* What is written stays without the flag `applied` if it fails the        *)
(* verification and its row is not APPLIED (an update that failed is       *)
(* ignored), or if the flag cannot be saved.  Neither `rejected` nor       *)
(* `applied` is asked for.                                                 *)
(***************************************************************************)
ApplyFrom(p, L) ==
    \/ ledger' = L /\ UNCHANGED content
    \/ /\ L[p] # NoFile /\ L[p].approved /\ L[p].target # NoTarget
       /\ content' = [content EXCEPT ![L[p].target] = L[p].code]
       /\ ledger' \in {L, [L EXCEPT ![p].applied = TRUE]}

\* The proposal is saved; in auto_apply_scope it is applied at once, or else
\* the operator is asked.
Settle(p, code, target, saying) ==
    \E L \in Saved(p, Draft(code, target, FALSE, Approves(saying))) :
        IF Approves(saying) /\ target \in AutoScope
        THEN ApplyFrom(p, L)
        ELSE ledger' = L /\ UNCHANGED content

\* A rejection is tried once more, without an error and if the cost allows it: a
\* new proposal, for which the day's limits are not asked again.
AuditStep(c) ==
    /\ cycle[c] = "audit"
    /\ today' \in {today, today + 1}
    /\ draft' = [draft EXCEPT ![c] = NoTarget]
    /\ \E saying \in Sayings :
          /\ cleared' = ClearedBy(saying, ProposalOf(c))
          /\ Settle(ProposalOf(c), ProposalOf(c), draft[c], saying)
          /\ \/ Conclude(c) /\ UNCHANGED attempt
             \/ /\ ~Approves(saying) /\ attempt[c] < Retries[c]
                /\ IF SameRequest(c) THEN Conclude(c) ELSE Advance(c, "tower")
                /\ attempt' = [attempt EXCEPT ![c] = @ + 1]
    /\ UNCHANGED <<handler, tick, excused>>
-----------------------------------------------------------------------------
(* A plan that the operator lets proceed.                                  *)

\* The entry is read, and plan_pending cleared, in memory.
Proceed(h, p) ==
    /\ handler[h].at = "new"
    /\ ledger[p] # NoFile /\ ledger[p].plan
    /\ handler' = [handler EXCEPT ![h] = [at |-> "verdict", of |-> p]]
    /\ excused' = TRUE
    /\ UNCHANGED <<cycle, attempt, draft, ledger, cooldown, today, tick, cleared, content>>

ProceedVerdict(h) ==
    /\ handler[h].at = "verdict"
    /\ \E t \in Targets \union {NoTarget} :
          /\ \/ /\ handler' = [handler EXCEPT ![h].at = "audit"]
                /\ draft' = [draft EXCEPT ![h] = t]
                /\ UNCHANGED <<ledger, today>>
             \/ /\ handler' = [handler EXCEPT ![h].at = "over"]
                /\ ledger' \in Saved(handler[h].of, Draft(h, t, FALSE, FALSE))
                /\ today' \in {today, today + 1}
                /\ UNCHANGED draft
    /\ UNCHANGED <<cycle, attempt, cooldown, tick, cleared, content, excused>>

ProceedAudit(h) ==
    /\ handler[h].at = "audit"
    /\ today' \in {today, today + 1}
    /\ handler' = [handler EXCEPT ![h].at = "over"]
    /\ draft' = [draft EXCEPT ![h] = NoTarget]
    /\ \E saying \in Sayings :
          /\ cleared' = ClearedBy(saying, h)
          /\ Settle(handler[h].of, h, draft[h], saying)
    /\ UNCHANGED <<cycle, attempt, cooldown, tick, excused>>
-----------------------------------------------------------------------------
(* The operator and the clock.                                             *)

\* reject_proposal, and reject-all for everything that waits.
Rejects(ps) ==
    /\ ledger' = [p \in ProposalIds |-> IF p \in ps THEN [ledger[p] EXCEPT !.rejected = TRUE]
                                                  ELSE ledger[p]]
    /\ UNCHANGED <<cycle, attempt, handler, draft, cooldown, today, tick, cleared, content, excused>>

Reject(p) == ledger[p] # NoFile /\ Rejects({p})
RejectAll == Waiting # {} /\ Rejects(Waiting)

\* Mutant: a fresh entry is written with the flag.
ApplyFresh(p) ==
    /\ ledger[p] # NoFile
    /\ ApplyFrom(p, [ledger EXCEPT ![p].rejected = FALSE])
    /\ UNCHANGED <<cycle, attempt, handler, draft, cooldown, today, tick, cleared, excused>>

Apply(p) ==
    /\ ledger[p] # NoFile
    /\ ApplyFrom(p, ledger)
    /\ UNCHANGED <<cycle, attempt, handler, draft, cooldown, today, tick, cleared, excused>>

\* run_evolution_tick: a whole cycle for a gate, then its own Tower, ...
TickGate == tick = "idle" /\ Begin0(GateCall) /\ tick' = "gate"

TickPlan ==
    /\ tick = "gate" /\ cycle[GateCall] = "over"
    /\ tick' \in {"plan", "idle"}
    /\ UNCHANGED <<cycle, attempt, handler, draft, ledger, cooldown, today, cleared, content, excused>>

\* ... then a cycle with the request it made.
TickRequest == tick = "plan" /\ Begin0(TickCall) /\ tick' = "idle"

\* The cooldown is longer than a call of the tick's Tower.
CooldownOver ==
    /\ cooldown
    /\ tick = "gate" => cycle[GateCall] # "over"
    /\ tick # "plan"
    /\ cooldown' = FALSE
    /\ UNCHANGED <<cycle, attempt, handler, draft, ledger, today, tick, cleared, content, excused>>

NewDay ==
    /\ today' = 0
    /\ excused' = (Underway # {})
    /\ UNCHANGED <<cycle, attempt, handler, draft, ledger, cooldown, tick, cleared, content>>

EvolutionNext ==
    \/ \E c \in Cycles : RunCycle(c) \/ Tower(c) \/ Verdict(c) \/ AuditStep(c)
    \/ \E c \in Cycles, p \in ProposalIds : RefineCycle(c, p)
    \/ \E h \in Handlers : ProceedVerdict(h) \/ ProceedAudit(h)
    \/ \E h \in Handlers, p \in ProposalIds : Proceed(h, p)
    \/ \E p \in ProposalIds : Reject(p) \/ Apply(p)
    \/ RejectAll \/ TickGate \/ TickPlan \/ TickRequest \/ CooldownOver \/ NewDay

EvolutionSpec == EvolutionInit /\ [][EvolutionNext]_evolutionVars
-----------------------------------------------------------------------------
EvolutionTypeOK ==
    /\ cycle \in [Cycles -> {"new", "over"} \union Steps]
    /\ attempt \in [Cycles -> 0 .. MaxRetries]
    /\ handler \in [Handlers -> [at : {"new", "over"} \union Steps, of : ProposalIds \union {NoProposal}]]
    /\ draft \in [Cycles \union Handlers -> Targets \union {NoTarget}]
    /\ ledger \in [ProposalIds -> Entry \union {NoFile}]
    /\ content \in [Targets -> Codes \union {Original}]
    /\ cooldown \in BOOLEAN /\ today \in Nat
    /\ tick \in {"idle", "gate", "plan"}
    /\ cleared \subseteq Codes /\ excused \in BOOLEAN

(***************************************************************************)
(* Whatever a proposal has written to a file is code that the audit of     *)
(* that very verdict approved below the risk limit: also when two calls    *)
(* proceed from the same plan, when a save fails, when an older entry is   *)
(* applied again.  (A yes with an unusable risk score passes, see the      *)
(* README.)                                                                *)
(***************************************************************************)
OnlyApprovedApplied == \A t \in Targets : content[t] # Original => content[t] \in cleared

(***************************************************************************)
(* A rejection is not lost, except to a call that proceeds from the plan   *)
(* it rejects and had read the entry before.                               *)
(***************************************************************************)
RejectionKept ==
    [][\A p \in ProposalIds : ledger[p] # NoFile /\ ledger[p].rejected =>
           \/ ledger'[p].rejected
           \/ \E h \in Handlers : handler[h].of = p /\ handler[h].at \in Steps]_evolutionVars

(***************************************************************************)
(* Calls that do not overlap keep to max_cycles_per_day, up to the retries *)
(* of the last one.                                                        *)
(***************************************************************************)
WithinDailyLimit == today <= MaxCycles + MaxRetries \/ excused

(***************************************************************************)
(* The tick's own request never gets to the Tower: its gate is a whole     *)
(* cycle, which ends with the cooldown started, blocked or not             *)
(* (evolution_trigger.py 60 says that the request is pursued).             *)
(***************************************************************************)
TickRequestBlocked == cycle[TickCall] \in {"new", "over"}
=============================================================================
