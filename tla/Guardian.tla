------------------------------- MODULE Guardian ------------------------------
(***************************************************************************)
(* AIGuardian of core/guardian_service.py: audits that external providers  *)
(* answer, under a daily quota for each provider (read before the call and *)
(* charged after it) and a circuit breaker that a 429 trips.  Audits run   *)
(* concurrently on the event loop: a slot is one that may be under way.    *)
(***************************************************************************)
EXTENDS Naturals, FiniteSets

CONSTANTS Slots,      \* audits that may be under way at the same time
          Quota,      \* [Providers -> the limit of a day, in units of usage]
          MaxCharge,  \* the most an audit is charged
          UsageCap    \* bound: usage above it is not told apart

Providers == {"anthropic", "openai"}
Nobody == "nobody"

ASSUME GuardianAssumption ==
    /\ IsFiniteSet(Slots) /\ Slots # {} /\ MaxCharge \in Nat \ {0} /\ Quota \in [Providers -> Nat]
    /\ \A p \in Providers : UsageCap \in Nat /\ UsageCap > Quota[p] + MaxCharge * Cardinality(Slots)

VARIABLES main,       \* _provider
          asked,      \* [Slots -> the provider whose answer the audit waits for]
          usage,      \* [Providers -> usage of today in api_usage_logs]
          suspended,  \* providers whose circuit is tripped
          blind       \* history: the usage of today could not be read, or not be written

guardianVars == <<main, asked, usage, suspended, blind>>

GuardianInit ==
    /\ main \in Providers
    /\ asked = [s \in Slots |-> Nobody]
    /\ usage = [p \in Providers |-> 0]
    /\ suspended = {}
    /\ blind = FALSE

\* _check_quota: without a limit nothing is allowed.
QuotaAllows(p, read) == Quota[p] > 0 /\ read < Quota[p]

\* The audit is sent to p.  A database that cannot be read says 0.
AskProvider(s, p) ==
    /\ \E read \in {usage[p], 0} :
          /\ QuotaAllows(p, read)
          /\ blind' = (blind \/ read # usage[p])
    /\ asked' = [asked EXCEPT ![s] = p]

\* audit_insight and audit_autonomous_ethics: the main provider, or nobody.
AuditByMain(s) ==
    /\ asked[s] = Nobody
    /\ main \notin suspended
    /\ AskProvider(s, main)
    /\ UNCHANGED <<main, usage, suspended>>

\* Mutant: who stands in for openai is not asked for its own quota.
StandInAny(s) ==
    /\ "openai" \in suspended /\ "anthropic" \notin suspended
    /\ QuotaAllows("openai", usage["openai"])
    /\ asked' = [asked EXCEPT ![s] = "anthropic"]
    /\ UNCHANGED blind

\* openai is suspended: anthropic stands in, with both quotas asked.
StandIn(s) ==
    /\ "openai" \in suspended /\ "anthropic" \notin suspended
    /\ QuotaAllows("openai", usage["openai"])
    /\ AskProvider(s, "anthropic")

\* audit_tool_code and audit_evolution_proposal: the risk level of the code
\* selects the provider (tiered auditing; without it the main one).
AuditCode(s) ==
    /\ asked[s] = Nobody
    /\ \/ \E p \in Providers : p \notin suspended /\ AskProvider(s, p)
       \/ StandIn(s)
    /\ UNCHANGED <<main, usage, suspended>>

Capped(n) == IF n > UsageCap THEN UsageCap ELSE n

\* The answer is charged; a row that cannot be written is ignored.
AuditAnswered(s) ==
    /\ asked[s] # Nobody
    /\ asked' = [asked EXCEPT ![s] = Nobody]
    /\ \/ /\ \E charge \in 1 .. MaxCharge : usage' = [usage EXCEPT ![asked[s]] = Capped(@ + charge)]
          /\ UNCHANGED blind
       \/ blind' = TRUE /\ UNCHANGED usage
    /\ UNCHANGED <<main, suspended>>

\* An error; a 429 trips the circuit of the main provider, whoever sent it.
AuditFailed(s) ==
    /\ asked[s] # Nobody
    /\ asked' = [asked EXCEPT ![s] = Nobody]
    /\ suspended' \in {suspended, suspended \union {main}}
    /\ UNCHANGED <<main, usage, blind>>

\* The 30 minutes are over.
CircuitReset(p) ==
    /\ p \in suspended
    /\ suspended' = suspended \ {p}
    /\ UNCHANGED <<main, asked, usage, blind>>

UsageOfNewDay ==
    /\ usage' = [p \in Providers |-> 0]
    /\ blind' = FALSE
    /\ UNCHANGED <<main, asked, suspended>>

GuardianNext ==
    \/ \E s \in Slots : AuditByMain(s) \/ AuditCode(s) \/ AuditAnswered(s) \/ AuditFailed(s)
    \/ \E p \in Providers : CircuitReset(p)
    \/ UsageOfNewDay

GuardianSpec == GuardianInit /\ [][GuardianNext]_guardianVars
-----------------------------------------------------------------------------
GuardianTypeOK ==
    /\ main \in Providers
    /\ asked \in [Slots -> Providers \union {Nobody}]
    /\ usage \in [Providers -> 0 .. UsageCap]
    /\ suspended \subseteq Providers
    /\ blind \in BOOLEAN

InFlightAt(p) == {s \in Slots : asked[s] = p}

(***************************************************************************)
(* The quota is read before an audit and charged after it, so that audits  *)
(* under way overshoot it together; but never by more than what those can  *)
(* be charged that may be under way at once, also when one provider stands *)
(* in for the other.                                                       *)
(***************************************************************************)
OvershootBounded ==
    ~blind => \A p \in Providers :
        usage[p] + MaxCharge * Cardinality(InFlightAt(p)) < Quota[p] + MaxCharge * Cardinality(Slots)
=============================================================================
