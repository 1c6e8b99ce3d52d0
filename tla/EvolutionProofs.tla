--------------------------- MODULE EvolutionProofs ---------------------------
(***************************************************************************)
(* What is proved of the evolution pipeline for any calls, targets, limits *)
(* and retries, overlapping at every await and with saves that fail.       *)
(***************************************************************************)
EXTENDS Evolution, TLAPS

\* A proposal whose cycle has not come to it yet.
Fresh(p) == cycle[p[1]] # "over" /\ p[2] >= attempt[p[1]]

AttemptInv == \A c \in Cycles : attempt[c] <= Retries[c]

\* A fresh proposal has no file, and its code has not been audited.
FreshInv == \A p \in ProposalIds : Fresh(p) => ledger[p] = NoFile /\ p \notin cleared

\* A plan that proceeds has a file; the handler's own verdict comes last.
HandlerInv ==
    \A h \in Handlers :
        /\ handler[h].at # "over" => h \notin cleared
        /\ handler[h].at \in Steps => handler[h].of \in ProposalIds /\ ~Fresh(handler[h].of)

\* The flag in the ledger says what the audit of that code said.
ApprovedInv ==
    \A p \in ProposalIds : ledger[p] # NoFile /\ ledger[p].approved => ledger[p].code \in cleared

EvoInv ==
    /\ EvolutionTypeOK /\ AttemptInv /\ FreshInv /\ HandlerInv /\ ApprovedInv
    /\ OnlyApprovedApplied
-----------------------------------------------------------------------------
LEMMA EvoInitInv == EvolutionInit => EvoInv
<1> SUFFICES ASSUME EvolutionInit PROVE EvoInv
  OBVIOUS
<1>1. EvolutionTypeOK
  <2>1. attempt \in [Cycles -> 0 .. MaxRetries]
    BY EvolutionAssumption DEF EvolutionInit
  <2>2. handler \in [Handlers -> [at : {"new", "over"} \union Steps, of : ProposalIds \union {NoProposal}]]
    BY DEF EvolutionInit
  <2>3. /\ cycle \in [Cycles -> {"new", "over"} \union Steps]
        /\ draft \in [Cycles \union Handlers -> Targets \union {NoTarget}]
        /\ ledger \in [ProposalIds -> Entry \union {NoFile}]
        /\ content \in [Targets -> Codes \union {Original}]
    BY DEF EvolutionInit
  <2> QED BY <2>1, <2>2, <2>3 DEF EvolutionInit, EvolutionTypeOK
<1>2. AttemptInv /\ FreshInv
  BY EvolutionAssumption DEF EvolutionInit, AttemptInv, FreshInv
<1>3. HandlerInv /\ ApprovedInv /\ OnlyApprovedApplied
  BY DEF EvolutionInit, HandlerInv, ApprovedInv, OnlyApprovedApplied, Steps
<1> QED BY <1>1, <1>2, <1>3 DEF EvoInv

LEMMA ProposalIsId ==
    ASSUME EvoInv, NEW c \in Cycles
    PROVE  ProposalOf(c) \in ProposalIds /\ ProposalOf(c) \in Codes /\ c \in Cycles \union Handlers
<1>1. attempt[c] \in 0 .. MaxRetries /\ attempt[c] <= Retries[c]
  BY DEF EvoInv, EvolutionTypeOK, AttemptInv
<1> QED BY <1>1 DEF ProposalOf, ProposalIds, Codes

LEMMA DraftIsEntry ==
    ASSUME NEW code \in Codes, NEW target \in Targets \union {NoTarget}, NEW plan \in BOOLEAN,
           NEW approved \in BOOLEAN
    PROVE  /\ Draft(code, target, plan, approved) \in Entry
           /\ Draft(code, target, plan, approved).approved = approved
           /\ Draft(code, target, plan, approved).code = code
BY DEF Draft, Entry

\* A cycle moves on or ends; fewer proposals are fresh.
LEMMA CycleMoves ==
    ASSUME EvoInv, NEW c \in Cycles, cycle[c] # "over",
           NEW x \in {"over"} \union Steps, cycle' = [cycle EXCEPT ![c] = x], UNCHANGED attempt
    PROVE  /\ cycle' \in [Cycles -> {"new", "over"} \union Steps]
           /\ \A p \in ProposalIds : Fresh(p)' => Fresh(p)
           /\ x = "over" => \A p \in ProposalIds : p[1] = c => ~Fresh(p)'
<1>1. cycle \in [Cycles -> {"new", "over"} \union Steps]
  BY DEF EvoInv, EvolutionTypeOK
<1>2. \A p \in ProposalIds : p[1] \in Cycles
  BY DEF ProposalIds
<1> QED BY <1>1, <1>2 DEF Fresh, ProposalOf

(***************************************************************************)
(* One entry of the ledger is replaced, by one whose flag is justified, if *)
(* it is not fresh any more; and files may take code that was approved.    *)
(***************************************************************************)
Justified(e) == e \in Entry /\ (e.approved => e.code \in cleared')

Writes(p) ==
    /\ \A q \in ProposalIds \ {p} : ledger'[q] = ledger[q]
    /\ ledger'[p] = ledger[p] \/ (Justified(ledger'[p]) /\ ~Fresh(p)')
    /\ ledger' \in [ProposalIds -> Entry \union {NoFile}]

LEMMA LedgerKept ==
    ASSUME EvoInv, NEW p \in ProposalIds, Writes(p),
           cleared \subseteq cleared',
           \A q \in ProposalIds : Fresh(q)' => Fresh(q) /\ (q \in cleared' => q \in cleared),
           \A t \in Targets : content'[t] = content[t] \/ content'[t] \in cleared'
    PROVE  FreshInv' /\ ApprovedInv' /\ OnlyApprovedApplied'
<1>1. FreshInv'
  BY DEF Writes, EvoInv, FreshInv
<1>2. ApprovedInv'
  BY DEF Writes, Justified, EvoInv, ApprovedInv
<1>3. OnlyApprovedApplied'
  BY DEF EvoInv, OnlyApprovedApplied
<1> QED BY <1>1, <1>2, <1>3

\* A new draft is saved, or not.
LEMMA SavedWrites ==
    ASSUME EvoInv, NEW p \in ProposalIds, NEW e \in Entry, ledger' \in Saved(p, e),
           e.approved => e.code \in cleared', ~Fresh(p)'
    PROVE  Writes(p)
BY DEF Saved, Writes, Justified, EvoInv, EvolutionTypeOK

\* The application of an entry takes its code, which was approved.
LEMMA ApplyWrites ==
    ASSUME EvoInv, NEW p \in ProposalIds, NEW e, NEW L \in Saved(p, e), e \in Entry \/ L = ledger,
           e.approved => e.code \in cleared', ApplyFrom(p, L), ~Fresh(p)', cleared \subseteq cleared'
    PROVE  /\ Writes(p)
           /\ \A t \in Targets : content'[t] = content[t] \/ content'[t] \in cleared'
           /\ content' \in [Targets -> Codes \union {Original}]
<1>1. /\ ledger \in [ProposalIds -> Entry \union {NoFile}]
      /\ content \in [Targets -> Codes \union {Original}]
  BY DEF EvoInv, EvolutionTypeOK
<1>2. /\ L \in [ProposalIds -> Entry \union {NoFile}]
      /\ \A q \in ProposalIds \ {p} : L[q] = ledger[q]
      /\ L[p] = ledger[p] \/ Justified(L[p])
  BY <1>1 DEF Saved, Justified
<1>3. L[p] # NoFile /\ L[p].approved => L[p] \in Entry /\ L[p].code \in cleared'
  BY <1>1, <1>2 DEF Justified, EvoInv, ApprovedInv
<1>4. CASE ledger' = L /\ UNCHANGED content
  BY <1>1, <1>2, <1>4 DEF Writes
<1>5. CASE /\ L[p] # NoFile /\ L[p].approved /\ L[p].target # NoTarget
           /\ content' = [content EXCEPT ![L[p].target] = L[p].code]
           /\ ledger' \in {L, [L EXCEPT ![p].applied = TRUE]}
  <2>1. L[p] \in Entry /\ L[p].code \in cleared' /\ L[p].target \in Targets /\ L[p].code \in Codes
    BY <1>3, <1>5 DEF Entry
  <2>2. /\ [L[p] EXCEPT !.applied = TRUE] \in Entry
        /\ [L[p] EXCEPT !.applied = TRUE].code = L[p].code
    BY <2>1 DEF Entry
  <2>3. ledger' = L \/ ledger' = [L EXCEPT ![p] = [L[p] EXCEPT !.applied = TRUE]]
    BY <1>5
  <2>4. Writes(p)
    BY <1>1, <1>2, <2>1, <2>2, <2>3 DEF Writes, Justified
  <2> QED BY <1>1, <1>5, <2>1, <2>4
<1> QED BY <1>4, <1>5 DEF ApplyFrom

LEMMA SettleWrites ==
    ASSUME EvoInv, NEW p \in ProposalIds, NEW code \in Codes, NEW target \in Targets \union {NoTarget},
           NEW saying \in Sayings, Settle(p, code, target, saying), ~Fresh(p)',
           cleared \subseteq cleared', Approves(saying) => code \in cleared'
    PROVE  /\ Writes(p)
           /\ \A t \in Targets : content'[t] = content[t] \/ content'[t] \in cleared'
           /\ content' \in [Targets -> Codes \union {Original}]
<1> DEFINE e == Draft(code, target, FALSE, Approves(saying))
<1>1. e \in Entry /\ (e.approved => e.code \in cleared')
  <2>1. Approves(saying) \in BOOLEAN
    BY DEF Approves
  <2>2. e \in Entry /\ e.approved = Approves(saying) /\ e.code = code
    BY <2>1, DraftIsEntry
  <2> HIDE DEF e
  <2> QED BY <2>2
<1>2. PICK L \in Saved(p, e) : IF Approves(saying) /\ target \in AutoScope
                               THEN ApplyFrom(p, L) ELSE ledger' = L /\ UNCHANGED content
  BY DEF Settle
<1> HIDE DEF e
<1>3. CASE ApplyFrom(p, L)
  BY <1>1, <1>2, <1>3, ApplyWrites
<1>4. CASE ledger' = L /\ UNCHANGED content
  BY <1>1, <1>2, <1>4, SavedWrites DEF EvoInv, EvolutionTypeOK
<1> QED BY <1>2, <1>3, <1>4
-----------------------------------------------------------------------------
(***************************************************************************)
(* EvoInv is inductive.                                                    *)
(***************************************************************************)
LEMMA Begin0Step ==
    ASSUME EvoInv, NEW c \in Cycles, Begin0(c), tick' \in {"idle", "gate", "plan"} PROVE EvoInv'
<1>1. PICK x \in {"over"} \union Steps :
         /\ cycle' = [cycle EXCEPT ![c] = x] /\ cycle[c] = "new"
         /\ cooldown' \in BOOLEAN /\ excused' \in BOOLEAN
  BY DEF Begin0, Conclude, Advance, Steps, EvoInv, EvolutionTypeOK
<1>2. UNCHANGED <<attempt, handler, draft, ledger, today, cleared, content>>
  BY DEF Begin0
<1>3. /\ cycle' \in [Cycles -> {"new", "over"} \union Steps]
      /\ \A p \in ProposalIds : Fresh(p)' => Fresh(p)
  BY <1>1, <1>2, CycleMoves
<1> QED BY <1>1, <1>2, <1>3 DEF EvoInv, EvolutionTypeOK, AttemptInv, FreshInv, HandlerInv,
                             ApprovedInv, OnlyApprovedApplied

\* The report or the verdict of a cycle: on, or over with a draft in the ledger.
LEMMA ConcludesOrGoesOn ==
    ASSUME EvoInv, NEW c \in Cycles, cycle[c] \in Steps,
           NEW x \in {"over"} \union Steps, cycle' = [cycle EXCEPT ![c] = x],
           UNCHANGED <<attempt, handler, tick, cleared, content, excused>>,
           cooldown' \in BOOLEAN, today' \in {today, today + 1},
           draft' \in [Cycles \union Handlers -> Targets \union {NoTarget}],
           \/ UNCHANGED ledger
           \/ x = "over" /\ \E t \in Targets \union {NoTarget}, plan \in BOOLEAN :
                               ledger' \in Saved(ProposalOf(c), Draft(ProposalOf(c), t, plan, FALSE))
    PROVE  EvoInv'
<1>1. PICK p \in ProposalIds : p = ProposalOf(c) /\ p[1] = c /\ p \in Codes
  BY ProposalIsId DEF ProposalOf
<1>2. /\ cycle' \in [Cycles -> {"new", "over"} \union Steps]
      /\ \A q \in ProposalIds : Fresh(q)' => Fresh(q)
      /\ x = "over" => ~Fresh(p)'
  BY <1>1, CycleMoves DEF Steps
<1>3. Writes(p)
  <2>1. CASE UNCHANGED ledger
    BY <2>1 DEF Writes, EvoInv, EvolutionTypeOK
  <2>2. CASE x = "over" /\ \E t \in Targets \union {NoTarget}, plan \in BOOLEAN :
                               ledger' \in Saved(p, Draft(p, t, plan, FALSE))
    <3>1. PICK t \in Targets \union {NoTarget}, plan \in BOOLEAN :
              ledger' \in Saved(p, Draft(p, t, plan, FALSE))
      BY <2>2
    <3>2. Draft(p, t, plan, FALSE) \in Entry /\ ~Draft(p, t, plan, FALSE).approved
      BY <1>1, DraftIsEntry
    <3> QED BY <1>2, <2>2, <3>1, <3>2, SavedWrites
  <2> QED BY <1>1, <2>1, <2>2
<1>4. FreshInv' /\ ApprovedInv' /\ OnlyApprovedApplied'
  BY <1>2, <1>3, LedgerKept
<1>5. EvolutionTypeOK'
  BY <1>2, <1>3 DEF EvoInv, EvolutionTypeOK, Writes
<1> QED BY <1>2, <1>4, <1>5 DEF EvoInv, AttemptInv, HandlerInv

LEMMA TowerStep == ASSUME EvoInv, NEW c \in Cycles, Tower(c) PROVE EvoInv'
<1>0. /\ cycle[c] \in Steps /\ cooldown \in BOOLEAN
      /\ UNCHANGED <<attempt, handler, draft, tick, cleared, content, excused>>
      /\ draft \in [Cycles \union Handlers -> Targets \union {NoTarget}]
  BY DEF Tower, Steps, EvoInv, EvolutionTypeOK
<1>1. CASE Conclude(c)
  BY <1>0, <1>1, ConcludesOrGoesOn DEF Tower, Conclude, Advance, Steps
<1>2. CASE Advance(c, "verdict") /\ UNCHANGED <<ledger, today>>
  BY <1>0, <1>2, ConcludesOrGoesOn DEF Advance, Steps
<1> QED BY <1>1, <1>2 DEF Tower

LEMMA VerdictStep == ASSUME EvoInv, NEW c \in Cycles, Verdict(c) PROVE EvoInv'
<1>0. /\ cycle[c] \in Steps /\ cooldown \in BOOLEAN
      /\ UNCHANGED <<attempt, handler, tick, cleared, content, excused>>
      /\ draft \in [Cycles \union Handlers -> Targets \union {NoTarget}]
  BY DEF Verdict, Steps, EvoInv, EvolutionTypeOK
<1>1. PICK t \in Targets \union {NoTarget} :
         \/ Advance(c, "audit") /\ draft' = [draft EXCEPT ![c] = t] /\ UNCHANGED <<ledger, today>>
         \/ /\ ledger' \in Saved(ProposalOf(c), Draft(ProposalOf(c), t, FALSE, FALSE))
            /\ today' \in {today, today + 1}
            /\ Conclude(c) /\ UNCHANGED draft
  BY DEF Verdict
<1>2. CASE Advance(c, "audit") /\ draft' = [draft EXCEPT ![c] = t] /\ UNCHANGED <<ledger, today>>
  <2>1. draft' \in [Cycles \union Handlers -> Targets \union {NoTarget}]
    BY <1>0, <1>2
  <2> QED BY <1>0, <1>2, <2>1, ConcludesOrGoesOn DEF Advance, Steps
<1>3. CASE /\ ledger' \in Saved(ProposalOf(c), Draft(ProposalOf(c), t, FALSE, FALSE))
           /\ today' \in {today, today + 1}
           /\ Conclude(c) /\ UNCHANGED draft
  BY <1>0, <1>3, ConcludesOrGoesOn DEF Conclude, Steps
<1> QED BY <1>1, <1>2, <1>3

\* Code that nobody has audited is added to what is cleared, or it is not.
LEMMA ClearedGrows ==
    ASSUME NEW saying \in Sayings, NEW code \in Codes, code \notin cleared,
           cleared' = ClearedBy(saying, code), cleared \subseteq Codes
    PROVE  /\ cleared \subseteq cleared' /\ cleared' \subseteq cleared \union {code}
           /\ cleared' \subseteq Codes /\ (Approves(saying) => code \in cleared')
BY DEF ClearedBy, Approves

LEMMA AuditStepOK == ASSUME EvoInv, NEW c \in Cycles, AuditStep(c) PROVE EvoInv'
<1>1. PICK p \in ProposalIds : p = ProposalOf(c) /\ p = <<c, attempt[c]>> /\ p \in Codes
  BY ProposalIsId DEF ProposalOf
<1>2. PICK saying \in Sayings :
         /\ cleared' = ClearedBy(saying, p)
         /\ Settle(p, p, draft[c], saying)
         /\ \/ Conclude(c) /\ UNCHANGED attempt
            \/ /\ ~Approves(saying) /\ attempt[c] < Retries[c]
               /\ IF SameRequest(c) THEN Conclude(c) ELSE Advance(c, "tower")
               /\ attempt' = [attempt EXCEPT ![c] = @ + 1]
  BY <1>1 DEF AuditStep
<1>3. /\ cycle[c] = "audit" /\ UNCHANGED <<handler, tick, excused>>
      /\ today' \in {today, today + 1} /\ draft' = [draft EXCEPT ![c] = NoTarget]
      /\ EvolutionTypeOK /\ draft[c] \in Targets \union {NoTarget}
  BY DEF AuditStep, EvoInv, EvolutionTypeOK
<1>4. p \notin cleared /\ cleared \subseteq Codes /\ attempt[c] \in 0 .. MaxRetries
  <2>1. Fresh(p) /\ attempt[c] \in 0 .. MaxRetries
    BY <1>1, <1>3 DEF Fresh, EvolutionTypeOK
  <2> QED BY <1>3, <2>1 DEF EvoInv, FreshInv, EvolutionTypeOK
<1>5. /\ cleared \subseteq cleared' /\ cleared' \subseteq cleared \union {p}
      /\ cleared' \subseteq Codes /\ (Approves(saying) => p \in cleared')
  BY <1>1, <1>2, <1>4, ClearedGrows
<1>6. PICK x \in {"over", "tower"} :
         /\ cycle' = [cycle EXCEPT ![c] = x] /\ cooldown' \in BOOLEAN
         /\ \/ x = "over" /\ UNCHANGED attempt
            \/ attempt[c] < Retries[c] /\ attempt' = [attempt EXCEPT ![c] = attempt[c] + 1]
  BY <1>2, <1>3 DEF Conclude, Advance, EvolutionTypeOK
<1>7. /\ cycle' \in [Cycles -> {"new", "over"} \union Steps]
      /\ attempt' \in [Cycles -> 0 .. MaxRetries] /\ AttemptInv'
  <2>1. cycle' \in [Cycles -> {"new", "over"} \union Steps]
    BY <1>3, <1>6 DEF EvolutionTypeOK, Steps
  <2>2. attempt \in [Cycles -> 0 .. MaxRetries] /\ AttemptInv /\ Retries[c] \in 0 .. MaxRetries
    BY <1>3, EvolutionAssumption DEF EvoInv, EvolutionTypeOK
  <2>3. CASE attempt[c] < Retries[c] /\ attempt' = [attempt EXCEPT ![c] = attempt[c] + 1]
    <3>1. attempt[c] + 1 \in 0 .. MaxRetries /\ attempt[c] + 1 <= Retries[c]
      BY <1>4, <2>2, <2>3, EvolutionAssumption
    <3> QED BY <2>1, <2>2, <2>3, <3>1 DEF AttemptInv
  <2> QED BY <1>6, <2>1, <2>2, <2>3 DEF AttemptInv
<1>8. ~Fresh(p)' /\ \A q \in ProposalIds : Fresh(q)' => Fresh(q) /\ q # p
  <2>1. \A q \in ProposalIds : q[1] \in Cycles /\ q[2] \in Nat
    BY EvolutionAssumption DEF ProposalIds
  <2>2. \A d \in Cycles \ {c} : cycle'[d] = cycle[d] /\ attempt'[d] = attempt[d]
    BY <1>3, <1>6 DEF EvolutionTypeOK
  <2>3. cycle'[c] = "over" \/ attempt'[c] = attempt[c] + 1
    BY <1>3, <1>6 DEF EvolutionTypeOK
  <2> QED BY <1>1, <1>3, <1>4, <2>1, <2>2, <2>3 DEF Fresh
<1>9. /\ Writes(p)
      /\ \A t \in Targets : content'[t] = content[t] \/ content'[t] \in cleared'
      /\ content' \in [Targets -> Codes \union {Original}]
  BY <1>1, <1>2, <1>3, <1>5, <1>8, SettleWrites
<1>10. FreshInv' /\ ApprovedInv' /\ OnlyApprovedApplied'
  BY <1>5, <1>8, <1>9, LedgerKept
<1>11. HandlerInv'
  <2>1. \A h \in Handlers : h \in cleared' => h \in cleared
    BY <1>5, EvolutionAssumption
  <2> QED BY <1>3, <1>8, <2>1 DEF EvoInv, HandlerInv
<1>12. EvolutionTypeOK'
  BY <1>3, <1>5, <1>6, <1>7, <1>9 DEF EvolutionTypeOK, Writes
<1> QED BY <1>7, <1>10, <1>11, <1>12 DEF EvoInv

\* The handler's fields.
HandlerType == [at : {"new", "over"} \union Steps, of : ProposalIds \union {NoProposal}]

\* A handler moves on with the plan it has; the cycles do not.
LEMMA ProceedStep ==
    ASSUME EvoInv, NEW h \in Handlers, NEW p \in ProposalIds, Proceed(h, p) PROVE EvoInv'
<1>1. /\ handler[h].at = "new" /\ ledger[p] # NoFile
      /\ handler' = [handler EXCEPT ![h] = [at |-> "verdict", of |-> p]] /\ excused' = TRUE
      /\ UNCHANGED <<cycle, attempt, draft, ledger, cooldown, today, tick, cleared, content>>
  BY DEF Proceed
<1>2. \A q \in ProposalIds : Fresh(q)' <=> Fresh(q)
  BY <1>1 DEF Fresh
<1>3. ~Fresh(p)
  BY <1>1 DEF EvoInv, FreshInv
<1>4. /\ handler \in [Handlers -> HandlerType] /\ handler'[h] = [at |-> "verdict", of |-> p]
      /\ \A g \in Handlers \ {h} : handler'[g] = handler[g]
  BY <1>1 DEF EvoInv, EvolutionTypeOK, HandlerType
<1>5. HandlerInv'
  BY <1>1, <1>2, <1>3, <1>4 DEF EvoInv, HandlerInv
<1>6. [at |-> "verdict", of |-> p] \in HandlerType
  BY DEF HandlerType, Steps
<1>7. EvolutionTypeOK'
  BY <1>1, <1>4, <1>6 DEF EvoInv, EvolutionTypeOK, HandlerType
<1> QED BY <1>1, <1>2, <1>5, <1>7 DEF EvoInv, AttemptInv, FreshInv, ApprovedInv, OnlyApprovedApplied

LEMMA ProceedVerdictStep == ASSUME EvoInv, NEW h \in Handlers, ProceedVerdict(h) PROVE EvoInv'
<1>1. PICK t \in Targets \union {NoTarget}, x \in {"audit", "over"} :
         /\ handler' = [handler EXCEPT ![h].at = x]
         /\ draft' \in {draft, [draft EXCEPT ![h] = t]}
         /\ ledger' \in {ledger} \union Saved(handler[h].of, Draft(h, t, FALSE, FALSE))
         /\ today' \in {today, today + 1}
  BY DEF ProceedVerdict
<1>2. /\ handler[h].at = "verdict"
      /\ UNCHANGED <<cycle, attempt, cooldown, tick, cleared, content, excused>>
  BY DEF ProceedVerdict
<1>3. PICK p \in ProposalIds : p = handler[h].of /\ ~Fresh(p)
  BY <1>2 DEF EvoInv, HandlerInv, Steps
<1>4. \A q \in ProposalIds : Fresh(q)' <=> Fresh(q)
  BY <1>2 DEF Fresh
<1>5. Writes(p)
  <2>1. Draft(h, t, FALSE, FALSE) \in Entry /\ ~Draft(h, t, FALSE, FALSE).approved
    BY DraftIsEntry DEF Codes
  <2>2. ledger' \in Saved(p, Draft(h, t, FALSE, FALSE))
    BY <1>1, <1>3 DEF Saved
  <2> QED BY <1>3, <1>4, <2>1, <2>2, SavedWrites
<1>6. FreshInv' /\ ApprovedInv' /\ OnlyApprovedApplied'
  BY <1>2, <1>4, <1>5, LedgerKept
<1>7. /\ handler' \in [Handlers -> HandlerType]
      /\ \A g \in Handlers : handler'[g].of = handler[g].of
      /\ \A g \in Handlers : handler'[g].at \in Steps => handler[g].at \in Steps
      /\ \A g \in Handlers : handler'[g].at # "over" => handler[g].at # "over"
  BY <1>1, <1>2 DEF EvoInv, EvolutionTypeOK, HandlerType, Steps
<1>8. HandlerInv'
  BY <1>2, <1>4, <1>7 DEF EvoInv, HandlerInv
<1>9. EvolutionTypeOK'
  BY <1>1, <1>2, <1>5, <1>7 DEF EvoInv, EvolutionTypeOK, Writes, HandlerType
<1> QED BY <1>2, <1>6, <1>8, <1>9 DEF EvoInv, AttemptInv

LEMMA ProceedAuditStep == ASSUME EvoInv, NEW h \in Handlers, ProceedAudit(h) PROVE EvoInv'
<1>1. PICK saying \in Sayings :
         cleared' = ClearedBy(saying, h) /\ Settle(handler[h].of, h, draft[h], saying)
  BY DEF ProceedAudit
<1>2. /\ handler[h].at = "audit" /\ handler' = [handler EXCEPT ![h].at = "over"]
      /\ draft' = [draft EXCEPT ![h] = NoTarget] /\ today' \in {today, today + 1}
      /\ UNCHANGED <<cycle, attempt, cooldown, tick, excused>>
      /\ draft[h] \in Targets \union {NoTarget} /\ h \in Codes
  BY DEF ProceedAudit, EvoInv, EvolutionTypeOK, Codes
<1>3. PICK p \in ProposalIds : p = handler[h].of /\ ~Fresh(p)
  BY <1>2 DEF EvoInv, HandlerInv, Steps
<1>4. \A q \in ProposalIds : Fresh(q)' <=> Fresh(q)
  BY <1>2 DEF Fresh
<1>5. /\ cleared \subseteq cleared' /\ cleared' \subseteq cleared \union {h}
      /\ cleared' \subseteq Codes /\ (Approves(saying) => h \in cleared')
  BY <1>1, <1>2, ClearedGrows DEF EvoInv, HandlerInv, EvolutionTypeOK
<1>6. /\ Writes(p)
      /\ \A t \in Targets : content'[t] = content[t] \/ content'[t] \in cleared'
      /\ content' \in [Targets -> Codes \union {Original}]
  BY <1>1, <1>2, <1>3, <1>4, <1>5, SettleWrites
<1>7. \A q \in ProposalIds : q \in cleared' => q \in cleared
  BY <1>5, EvolutionAssumption
<1>8. FreshInv' /\ ApprovedInv' /\ OnlyApprovedApplied'
  BY <1>4, <1>5, <1>6, <1>7, LedgerKept
<1>9. /\ handler' \in [Handlers -> HandlerType] /\ handler'[h].at = "over"
      /\ \A g \in Handlers \ {h} : handler'[g] = handler[g]
  BY <1>2 DEF EvoInv, EvolutionTypeOK, HandlerType
<1>10. HandlerInv'
  BY <1>4, <1>5, <1>9 DEF EvoInv, HandlerInv, Steps
<1>11. EvolutionTypeOK'
  BY <1>2, <1>5, <1>6, <1>9 DEF EvoInv, EvolutionTypeOK, Writes, HandlerType
<1> QED BY <1>2, <1>8, <1>10, <1>11 DEF EvoInv, AttemptInv

LEMMA RejectsStep ==
    ASSUME EvoInv, NEW ps \in SUBSET ProposalIds, \A p \in ps : ledger[p] # NoFile, Rejects(ps)
    PROVE  EvoInv'
<1>1. UNCHANGED <<cycle, attempt, handler, draft, cooldown, today, tick, cleared, content, excused>>
  BY DEF Rejects
<1>2. \A p \in ProposalIds :
          \/ p \notin ps /\ ledger'[p] = ledger[p]
          \/ /\ p \in ps /\ ledger[p] \in Entry /\ ledger'[p] \in Entry
             /\ ledger'[p].approved = ledger[p].approved /\ ledger'[p].code = ledger[p].code
  BY DEF Rejects, EvoInv, EvolutionTypeOK, Entry
<1>3. \A p \in ProposalIds : Fresh(p)' <=> Fresh(p)
  BY <1>1 DEF Fresh
<1>4. ledger' \in [ProposalIds -> Entry \union {NoFile}]
  <2>1. ledger \in [ProposalIds -> Entry \union {NoFile}]
    BY DEF EvoInv, EvolutionTypeOK
  <2>2. DOMAIN ledger' = ProposalIds /\ ledger' = [p \in ProposalIds |-> ledger'[p]]
    BY DEF Rejects
  <2> QED BY <1>2, <2>1, <2>2
<1>5. FreshInv' /\ ApprovedInv'
  BY <1>1, <1>2, <1>3 DEF EvoInv, FreshInv, ApprovedInv
<1> QED BY <1>1, <1>3, <1>4, <1>5
        DEF EvoInv, EvolutionTypeOK, AttemptInv, HandlerInv, OnlyApprovedApplied

LEMMA ApplyStep == ASSUME EvoInv, NEW p \in ProposalIds, Apply(p) PROVE EvoInv'
<1>1. /\ UNCHANGED <<cycle, attempt, handler, draft, cooldown, today, tick, cleared, excused>>
      /\ ledger[p] # NoFile /\ ApplyFrom(p, ledger) /\ ledger[p] \in Entry
  BY DEF Apply, EvoInv, EvolutionTypeOK
<1>2. \A q \in ProposalIds : Fresh(q)' <=> Fresh(q)
  BY <1>1 DEF Fresh
<1>3. ~Fresh(p)'
  BY <1>1, <1>2 DEF EvoInv, FreshInv
<1>4. /\ ledger \in Saved(p, ledger[p])
      /\ ledger[p].approved => ledger[p].code \in cleared'
  BY <1>1 DEF Saved, EvoInv, ApprovedInv
<1>5. /\ Writes(p)
      /\ \A t \in Targets : content'[t] = content[t] \/ content'[t] \in cleared'
      /\ content' \in [Targets -> Codes \union {Original}]
  BY <1>1, <1>3, <1>4, ApplyWrites
<1>6. FreshInv' /\ ApprovedInv' /\ OnlyApprovedApplied'
  BY <1>1, <1>2, <1>5, LedgerKept
<1> QED BY <1>1, <1>2, <1>5, <1>6 DEF EvoInv, EvolutionTypeOK, AttemptInv, HandlerInv, Writes

LEMMA TickStep ==
    ASSUME EvoInv, TickGate \/ TickPlan \/ TickRequest \/ CooldownOver \/ NewDay PROVE EvoInv'
<1>0. GateCall \in Cycles /\ TickCall \in Cycles
  BY EvolutionAssumption
<1>1. CASE TickGate
  BY <1>0, <1>1, Begin0Step DEF TickGate
<1>2. CASE TickRequest
  BY <1>0, <1>2, Begin0Step DEF TickRequest
<1>3. CASE TickPlan \/ CooldownOver \/ NewDay
  <2>1. /\ UNCHANGED <<cycle, attempt, handler, draft, ledger, cleared, content>>
        /\ tick' \in {"idle", "gate", "plan"} /\ cooldown' \in BOOLEAN /\ today' \in Nat
        /\ excused' \in BOOLEAN
    <3>1. /\ cooldown \in BOOLEAN /\ today \in Nat /\ excused \in BOOLEAN
          /\ tick \in {"idle", "gate", "plan"}
      BY DEF EvoInv, EvolutionTypeOK
    <3>2. CASE TickPlan
      BY <3>1, <3>2 DEF TickPlan
    <3>3. CASE CooldownOver
      BY <3>1, <3>3 DEF CooldownOver
    <3>4. CASE NewDay
      BY <3>1, <3>4 DEF NewDay
    <3> QED BY <1>3, <3>2, <3>3, <3>4
  <2> QED BY <2>1 DEF EvoInv, EvolutionTypeOK, AttemptInv, FreshInv, HandlerInv, ApprovedInv,
                      OnlyApprovedApplied, Fresh
<1> QED BY <1>1, <1>2, <1>3

LEMMA EvoStep == EvoInv /\ [EvolutionNext]_evolutionVars => EvoInv'
<1> SUFFICES ASSUME EvoInv, [EvolutionNext]_evolutionVars PROVE EvoInv'
  OBVIOUS
<1>0. tick \in {"idle", "gate", "plan"}
  BY DEF EvoInv, EvolutionTypeOK
<1>1. CASE \E c \in Cycles : RunCycle(c) \/ Tower(c) \/ Verdict(c) \/ AuditStep(c)
  BY <1>0, <1>1, Begin0Step, TowerStep, VerdictStep, AuditStepOK DEF RunCycle
<1>2. CASE \E c \in Cycles, p \in ProposalIds : RefineCycle(c, p)
  BY <1>0, <1>2, Begin0Step DEF RefineCycle
<1>3. CASE \E h \in Handlers : ProceedVerdict(h) \/ ProceedAudit(h)
  BY <1>3, ProceedVerdictStep, ProceedAuditStep
<1>4. CASE \E h \in Handlers, p \in ProposalIds : Proceed(h, p)
  BY <1>4, ProceedStep
<1>5. CASE \E p \in ProposalIds : Reject(p) \/ Apply(p)
  <2>1. ASSUME NEW p \in ProposalIds, Reject(p) PROVE EvoInv'
    BY <2>1, RejectsStep DEF Reject
  <2> QED BY <1>5, <2>1, ApplyStep
<1>6. CASE RejectAll
  BY <1>6, RejectsStep DEF RejectAll, Waiting
<1>7. CASE TickGate \/ TickPlan \/ TickRequest \/ CooldownOver \/ NewDay
  BY <1>7, TickStep
<1>8. CASE UNCHANGED evolutionVars
  BY <1>8 DEF evolutionVars, EvoInv, EvolutionTypeOK, AttemptInv, FreshInv, HandlerInv,
              ApprovedInv, OnlyApprovedApplied, Fresh
<1> QED BY <1>1, <1>2, <1>3, <1>4, <1>5, <1>6, <1>7, <1>8 DEF EvolutionNext

\* A step of a cycle, or of a handler, writes its own entry only.
LEMMA SavedAlone ==
    ASSUME EvoInv, NEW p \in ProposalIds, NEW e, NEW L \in Saved(p, e),
           ledger' = L \/ ApplyFrom(p, L)
    PROVE  \A q \in ProposalIds \ {p} : ledger'[q] = ledger[q]
<1>1. DOMAIN L = ProposalIds /\ \A q \in ProposalIds \ {p} : L[q] = ledger[q]
  BY DEF Saved, EvoInv, EvolutionTypeOK
<1>2. ledger' \in {L, [L EXCEPT ![p].applied = TRUE]}
  BY DEF ApplyFrom
<1> QED BY <1>1, <1>2

LEMMA SettleAlone ==
    ASSUME EvoInv, NEW p \in ProposalIds, NEW code, NEW target, NEW saying,
           Settle(p, code, target, saying)
    PROVE  \A q \in ProposalIds \ {p} : ledger'[q] = ledger[q]
BY SavedAlone DEF Settle

LEMMA OthersKept ==
    ASSUME EvoInv, NEW c \in Cycles, NEW p \in ProposalIds, p = ProposalOf(c),
           Tower(c) \/ Verdict(c) \/ AuditStep(c)
    PROVE  \A q \in ProposalIds \ {p} : ledger'[q] = ledger[q]
<1>1. CASE Tower(c)
  BY <1>1, SavedAlone DEF Tower
<1>2. CASE Verdict(c)
  BY <1>2, SavedAlone DEF Verdict
<1>3. CASE AuditStep(c)
  BY <1>3, SettleAlone DEF AuditStep
<1> QED BY <1>1, <1>2, <1>3

LEMMA PlanKept ==
    ASSUME EvoInv, NEW h \in Handlers, NEW p \in ProposalIds, p = handler[h].of,
           ProceedVerdict(h) \/ ProceedAudit(h)
    PROVE  \A q \in ProposalIds \ {p} : ledger'[q] = ledger[q]
<1>1. CASE ProceedVerdict(h)
  BY <1>1, SavedAlone DEF ProceedVerdict
<1>2. CASE ProceedAudit(h)
  BY <1>2, SettleAlone DEF ProceedAudit
<1> QED BY <1>1, <1>2

LEMMA EvoInvariant == EvolutionSpec => []EvoInv
BY EvoInitInv, EvoStep, PTL DEF EvolutionSpec

(***************************************************************************)
(* The pipeline is type correct: no call retries more often than allowed,  *)
(* and a handler works on a proposal that is in the ledger.                *)
(***************************************************************************)
THEOREM EvolutionTypeCorrect == EvolutionSpec => []EvolutionTypeOK
BY EvoInvariant, PTL DEF EvoInv

(***************************************************************************)
(* No file holds code that its own audit has not approved, for any number  *)
(* of overlapping calls, retries, lost saves and repeated applications.    *)
(***************************************************************************)
THEOREM AppliedIsApproved == EvolutionSpec => []OnlyApprovedApplied
BY EvoInvariant, PTL DEF EvoInv

(***************************************************************************)
(* A rejection is lost to a plan that proceeds and to nothing else: not to *)
(* a retry, a refinement, another save or an application.                  *)
(***************************************************************************)
THEOREM RejectionIsKept == EvolutionSpec => RejectionKept
<1> DEFINE Kept == \A p \in ProposalIds : ledger[p] # NoFile /\ ledger[p].rejected =>
                       \/ ledger'[p].rejected
                       \/ \E h \in Handlers : handler[h].of = p /\ handler[h].at \in Steps
<1>1. ASSUME EvoInv, EvolutionNext PROVE Kept
  <2>1. ASSUME NEW c \in Cycles, Tower(c) \/ Verdict(c) \/ AuditStep(c) PROVE Kept
    <3>1. PICK p \in ProposalIds : p = ProposalOf(c) /\ p = <<c, attempt[c]>>
      BY <1>1, ProposalIsId DEF ProposalOf
    <3>2. ledger[p] = NoFile
      <4>1. cycle[c] # "over" /\ attempt[c] \in Nat
        <5>1. cycle[c] \in {"tower", "verdict", "audit"}
          BY <2>1 DEF Tower, Verdict, AuditStep
        <5>2. attempt[c] \in 0 .. MaxRetries
          BY <1>1 DEF EvoInv, EvolutionTypeOK
        <5> QED BY <5>1, <5>2
      <4> QED BY <1>1, <3>1, <4>1 DEF EvoInv, FreshInv, Fresh
    <3>3. \A q \in ProposalIds \ {p} : ledger'[q] = ledger[q]
      BY <1>1, <2>1, <3>1, OthersKept
    <3> QED BY <3>2, <3>3
  <2>2. ASSUME NEW h \in Handlers, ProceedVerdict(h) \/ ProceedAudit(h) PROVE Kept
    <3>1. PICK p \in ProposalIds : p = handler[h].of /\ handler[h].at \in Steps
      BY <1>1, <2>2 DEF ProceedVerdict, ProceedAudit, EvoInv, HandlerInv, Steps
    <3>2. \A q \in ProposalIds \ {p} : ledger'[q] = ledger[q]
      BY <1>1, <2>2, <3>1, PlanKept
    <3> QED BY <3>1, <3>2
  <2>3. ASSUME NEW ps, Rejects(ps) PROVE Kept
    BY <1>1, <2>3 DEF Rejects, EvoInv, EvolutionTypeOK, Entry
  <2>4. ASSUME NEW p \in ProposalIds, Apply(p) PROVE Kept
    <3>1. ledger' \in {ledger, [ledger EXCEPT ![p].applied = TRUE]} /\ ledger[p] \in Entry
      BY <1>1, <2>4 DEF Apply, ApplyFrom, EvoInv, EvolutionTypeOK
    <3> QED BY <1>1, <3>1 DEF EvoInv, EvolutionTypeOK, Entry
  <2>5. CASE UNCHANGED ledger
    BY <2>5
  <2> QED
    <3>1. CASE \E c \in Cycles : RunCycle(c) \/ \E p \in ProposalIds : RefineCycle(c, p)
      BY <2>5, <3>1 DEF RunCycle, RefineCycle, Begin0
    <3>2. CASE TickGate \/ TickPlan \/ TickRequest \/ CooldownOver \/ NewDay
      BY <2>5, <3>2 DEF TickGate, TickPlan, TickRequest, CooldownOver, NewDay, Begin0
    <3>3. CASE \E h \in Handlers, p \in ProposalIds : Proceed(h, p)
      BY <2>5, <3>3 DEF Proceed
    <3>4. CASE \E p \in ProposalIds : Reject(p) \/ Apply(p)
      BY <2>3, <2>4, <3>4 DEF Reject
    <3>5. CASE RejectAll
      BY <2>3, <3>5 DEF RejectAll
    <3> QED BY <1>1, <2>1, <2>2, <3>1, <3>2, <3>3, <3>4, <3>5 DEF EvolutionNext
<1>2. EvoInv /\ [EvolutionNext]_evolutionVars => [Kept]_evolutionVars
  BY <1>1
<1> QED BY <1>2, EvoInvariant, PTL DEF EvolutionSpec, RejectionKept
-----------------------------------------------------------------------------
(***************************************************************************)
(* The limit of the day and the tick.                                      *)
(***************************************************************************)
\* Unless it is excused, a single cycle is under way, below the limit but for
\* its own retries.
BudgetInv ==
    /\ WithinDailyLimit
    /\ ~excused => /\ \A h \in Handlers : handler[h].at \notin Steps
                   /\ \A c, d \in Cycles : cycle[c] \in Steps /\ cycle[d] \in Steps => c = d
                   /\ \A c \in Cycles : cycle[c] \in Steps => today < MaxCycles + attempt[c]

\* The gate's end leaves the cooldown on until the tick's own request came.
TickInv ==
    /\ TickRequestBlocked
    /\ tick = "gate" => cycle[GateCall] # "new"
    /\ tick = "gate" /\ cycle[GateCall] = "over" => cooldown
    /\ tick = "plan" => cooldown

LimitInv == BudgetInv /\ TickInv

\* How a step of a cycle under way counts.
CycleStep(c, x) ==
    /\ cycle[c] \in Steps /\ cycle' = [cycle EXCEPT ![c] = x]
    /\ x = "over" => cooldown'
    /\ cooldown => cooldown'
    /\ UNCHANGED <<handler, tick, excused>>
    /\ today' \in {today, today + 1}
    /\ \A d \in Cycles \ {c} : attempt'[d] = attempt[d]
    /\ x # "over" => \/ today' = today /\ attempt'[c] = attempt[c]
                     \/ attempt'[c] = attempt[c] + 1

LEMMA StepCounts ==
    ASSUME EvoInv, NEW c \in Cycles, Tower(c) \/ Verdict(c) \/ AuditStep(c)
    PROVE  \E x \in {"over"} \union Steps : CycleStep(c, x)
<1>1. /\ cycle[c] \in Steps /\ UNCHANGED <<handler, tick, excused>> /\ today' \in {today, today + 1}
  BY DEF Tower, Verdict, AuditStep, Steps
<1>2. attempt \in [Cycles -> 0 .. MaxRetries]
  BY DEF EvoInv, EvolutionTypeOK
<1>3. CASE Tower(c)
  <2>1. CASE Conclude(c) /\ UNCHANGED attempt
    BY <1>1, <2>1 DEF Conclude, CycleStep
  <2>2. CASE Advance(c, "verdict") /\ UNCHANGED <<attempt, today>>
    BY <1>1, <2>2 DEF Advance, CycleStep, Steps
  <2> QED BY <1>3, <2>1, <2>2 DEF Tower
<1>4. CASE Verdict(c)
  <2>1. CASE Conclude(c) /\ UNCHANGED attempt
    BY <1>1, <2>1 DEF Conclude, CycleStep
  <2>2. CASE Advance(c, "audit") /\ UNCHANGED <<attempt, today>>
    BY <1>1, <2>2 DEF Advance, CycleStep, Steps
  <2> QED BY <1>4, <2>1, <2>2 DEF Verdict
<1>5. CASE AuditStep(c)
  <2>1. CASE Conclude(c) /\ UNCHANGED attempt
    BY <1>1, <2>1 DEF Conclude, CycleStep
  <2>2. CASE attempt' = [attempt EXCEPT ![c] = @ + 1] /\ (Conclude(c) \/ Advance(c, "tower"))
    <3>1. attempt'[c] = attempt[c] + 1 /\ \A d \in Cycles \ {c} : attempt'[d] = attempt[d]
      BY <1>2, <2>2
    <3>2. CASE Conclude(c)
      BY <1>1, <3>1, <3>2 DEF Conclude, CycleStep
    <3>3. CASE Advance(c, "tower")
      BY <1>1, <3>1, <3>3 DEF Advance, CycleStep, Steps
    <3> QED BY <2>2, <3>2, <3>3
  <2> QED BY <1>5, <2>1, <2>2 DEF AuditStep
<1> QED BY <1>3, <1>4, <1>5

LEMMA CycleCounts ==
    ASSUME EvoInv, LimitInv, NEW c \in Cycles, NEW x \in {"over"} \union Steps, CycleStep(c, x),
           EvoInv'
    PROVE  LimitInv'
<1>1. /\ cycle \in [Cycles -> {"new", "over"} \union Steps] /\ today \in Nat /\ today' \in Nat
      /\ MaxCycles \in Nat /\ MaxRetries \in Nat
      /\ \A d \in Cycles : attempt[d] \in 0 .. MaxRetries /\ attempt'[d] \in 0 .. MaxRetries
  BY EvolutionAssumption DEF EvoInv, EvolutionTypeOK
<1>2. cycle'[c] = x /\ \A d \in Cycles \ {c} : cycle'[d] = cycle[d]
  BY <1>1 DEF CycleStep
<1>3. BudgetInv'
  <2> SUFFICES ASSUME ~excused' PROVE BudgetInv'
    BY <1>1 DEF BudgetInv, WithinDailyLimit
  <2>1. /\ ~excused /\ today < MaxCycles + attempt[c]
        /\ \A h \in Handlers : handler'[h].at \notin Steps
        /\ \A d \in Cycles \ {c} : cycle[d] \notin Steps
    BY DEF CycleStep, LimitInv, BudgetInv
  <2>2. WithinDailyLimit'
    BY <1>1, <2>1 DEF CycleStep, WithinDailyLimit
  <2>3. \A d \in Cycles : cycle'[d] \in Steps => d = c /\ today' < MaxCycles + attempt'[d]
    BY <1>1, <1>2, <2>1 DEF CycleStep, Steps
  <2> QED BY <2>1, <2>2, <2>3 DEF BudgetInv
<1>4. TickInv'
  BY <1>2, EvolutionAssumption DEF CycleStep, LimitInv, TickInv, TickRequestBlocked, Steps
<1> QED BY <1>3, <1>4 DEF LimitInv

\* A call that begins, or is blocked and starts the cooldown.
LEMMA BeginCounts ==
    ASSUME EvoInv, LimitInv, NEW c \in Cycles, Begin0(c),
           c = TickCall => tick = "plan" /\ tick' = "idle",
           c = GateCall => tick' = "gate",
           c # TickCall /\ c # GateCall => tick' = tick,
           EvoInv'
    PROVE  LimitInv'
<1>1. /\ cycle \in [Cycles -> {"new", "over"} \union Steps] /\ today \in Nat
      /\ MaxCycles \in Nat /\ MaxRetries \in Nat
      /\ attempt[c] \in 0 .. MaxRetries /\ cycle[c] = "new"
      /\ UNCHANGED <<attempt, handler, today>>
  BY EvolutionAssumption DEF EvoInv, EvolutionTypeOK, Begin0
<1>2. CASE cycle' = [cycle EXCEPT ![c] = "over"] /\ cooldown' = TRUE /\ UNCHANGED excused
  <2>1. cycle'[c] = "over" /\ \A d \in Cycles \ {c} : cycle'[d] = cycle[d]
    BY <1>1, <1>2
  <2>2. BudgetInv'
    BY <1>1, <1>2, <2>1 DEF LimitInv, BudgetInv, WithinDailyLimit, Steps
  <2>3. TickInv'
    BY <1>1, <1>2, <2>1, EvolutionAssumption DEF LimitInv, TickInv, TickRequestBlocked
  <2> QED BY <2>2, <2>3 DEF LimitInv
<1>3. CASE \E seen \in {today, 0} :
              /\ ~LimitReached(seen) /\ cycle' = [cycle EXCEPT ![c] = "tower"] /\ UNCHANGED cooldown
              /\ excused' = (excused \/ Underway # {} \/ seen # today)
  <2>1. PICK seen \in {today, 0} :
           /\ seen < MaxCycles /\ ~cooldown /\ UNCHANGED cooldown
           /\ cycle' = [cycle EXCEPT ![c] = "tower"]
           /\ excused' = (excused \/ Underway # {} \/ seen # today)
    BY <1>1, <1>3 DEF LimitReached
  <2>2. cycle'[c] = "tower" /\ \A d \in Cycles \ {c} : cycle'[d] = cycle[d]
    BY <1>1, <2>1
  <2>3. BudgetInv'
    <3> SUFFICES ASSUME ~excused' PROVE BudgetInv'
      BY <1>1 DEF BudgetInv, WithinDailyLimit
    <3>1. /\ ~excused /\ seen = today
          /\ \A d \in Cycles : cycle[d] \notin Steps
          /\ \A h \in Handlers : handler[h].at \notin Steps
      BY <2>1 DEF Underway
    <3> QED BY <1>1, <2>1, <2>2, <3>1 DEF BudgetInv, WithinDailyLimit
  <2>4. TickInv'
    BY <1>1, <2>1, <2>2, EvolutionAssumption DEF LimitInv, TickInv, TickRequestBlocked
  <2> QED BY <2>3, <2>4 DEF LimitInv
<1> QED BY <1>2, <1>3 DEF Begin0, Conclude, Advance

\* A plan that proceeds is excused.
LEMMA PlanCounts ==
    ASSUME EvoInv, LimitInv, EvoInv', NEW h \in Handlers,
           (\E p \in ProposalIds : Proceed(h, p)) \/ ProceedVerdict(h) \/ ProceedAudit(h)
    PROVE  LimitInv'
<1>1. UNCHANGED <<cycle, attempt, cooldown, tick>>
  BY DEF Proceed, ProceedVerdict, ProceedAudit
<1>2. excused'
  <2>1. CASE \E p \in ProposalIds : Proceed(h, p)
    BY <2>1 DEF Proceed
  <2>2. CASE ProceedVerdict(h) \/ ProceedAudit(h)
    BY <2>2 DEF ProceedVerdict, ProceedAudit, LimitInv, BudgetInv, Steps
  <2> QED BY <2>1, <2>2
<1> QED BY <1>1, <1>2 DEF LimitInv, BudgetInv, WithinDailyLimit, TickInv, TickRequestBlocked

LEMMA LimitInvariant == EvolutionSpec => []LimitInv
<1>1. EvolutionInit => LimitInv
  BY EvolutionAssumption DEF EvolutionInit, LimitInv, BudgetInv, WithinDailyLimit, TickInv,
     TickRequestBlocked, Steps
<1>2. ASSUME EvoInv, EvoInv', LimitInv, [EvolutionNext]_evolutionVars PROVE LimitInv'
  <2>1. ASSUME NEW c \in Cycles, Tower(c) \/ Verdict(c) \/ AuditStep(c) PROVE LimitInv'
    BY <1>2, <2>1, StepCounts, CycleCounts
  <2>2. ASSUME NEW c \in Cycles, RunCycle(c) \/ \E p \in ProposalIds : RefineCycle(c, p)
        PROVE  LimitInv'
    BY <1>2, <2>2, BeginCounts DEF RunCycle, RefineCycle
  <2>3. CASE TickGate \/ TickRequest
    BY <1>2, <2>3, BeginCounts, EvolutionAssumption DEF TickGate, TickRequest
  <2>4. ASSUME NEW h \in Handlers, \/ \E p \in ProposalIds : Proceed(h, p)
                                   \/ ProceedVerdict(h) \/ ProceedAudit(h)
        PROVE  LimitInv'
    BY <1>2, <2>4, PlanCounts
  <2>5. CASE UNCHANGED <<cycle, attempt, handler, cooldown, today, tick, excused>>
    BY <1>2, <2>5 DEF LimitInv, BudgetInv, WithinDailyLimit, TickInv, TickRequestBlocked
  <2>6. CASE TickPlan \/ CooldownOver
    BY <1>2, <2>6 DEF TickPlan, CooldownOver, LimitInv, BudgetInv, WithinDailyLimit, TickInv,
       TickRequestBlocked
  <2>7. CASE NewDay
    <3>1. MaxCycles \in Nat \ {0} /\ MaxRetries \in Nat /\ today' = 0
      BY <2>7, EvolutionAssumption DEF NewDay
    <3>2. BudgetInv'
      <4>1. ~excused' => /\ \A c \in Cycles : cycle'[c] \notin Steps
                         /\ \A h \in Handlers : handler'[h].at \notin Steps
        BY <2>7 DEF NewDay, Underway
      <4> QED BY <3>1, <4>1 DEF BudgetInv, WithinDailyLimit
    <3>3. TickInv'
      BY <1>2, <2>7 DEF NewDay, LimitInv, TickInv, TickRequestBlocked
    <3> QED BY <3>2, <3>3 DEF LimitInv
  <2>8. CASE RejectAll \/ \E p \in ProposalIds : Reject(p) \/ Apply(p)
    BY <2>5, <2>8 DEF RejectAll, Reject, Rejects, Apply
  <2> QED BY <1>2, <2>1, <2>2, <2>3, <2>4, <2>5, <2>6, <2>7, <2>8 DEF EvolutionNext, evolutionVars
<1> QED BY <1>1, <1>2, EvoInvariant, PTL DEF EvolutionSpec

(***************************************************************************)
(* The limit of a day holds for calls that do not overlap, whatever their  *)
(* retries, plans and refinements do.                                      *)
(***************************************************************************)
THEOREM DayHasItsLimit == EvolutionSpec => []WithinDailyLimit
BY LimitInvariant, PTL DEF LimitInv, BudgetInv

(***************************************************************************)
(* The tick's own request is always blocked by its gate.                   *)
(***************************************************************************)
THEOREM TickIsBlocked == EvolutionSpec => []TickRequestBlocked
BY LimitInvariant, PTL DEF LimitInv, TickInv
=============================================================================
