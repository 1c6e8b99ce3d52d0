--------------------------- MODULE ToolForgeProofs ---------------------------
(***************************************************************************)
(* What is proved of the tool forge for any proposals, runs, names and     *)
(* approvals, with late audits, failing writes and restarts at any moment. *)
(***************************************************************************)
EXTENDS ToolForge, WellFoundedInduction, TLAPS

Asking == {"asking", "waiting", "answered", "expired"}

\* A run makes one proposal at a time, and only a proposal with a run asks.
CallInv ==
    /\ \A p \in Proposals : stage[p] \in Asking => RunOf[p] # NoContext
    /\ \A p, q \in Proposals :
           p # q /\ RunOf[p] = RunOf[q] /\ RunOf[p] # NoContext => Over(p) \/ Over(q)

\* The entry holds the last answer, and one was given when the event was seen.
AnswerInv ==
    /\ \A r \in Contexts : approval[r] \in {"approved", "rejected"} => answered[r] = approval[r]
    /\ \A p \in Proposals : stage[p] = "answered" => approval[RunOf[p]] \in {"approved", "rejected"}

(***************************************************************************)
(* An answer is accepted only while a thread waits for it: when the wait   *)
(* is over, expired or not, no entry stays behind.                         *)
(***************************************************************************)
EntryHasWaiter ==
    \A r \in Contexts : approval[r] # NoEntry =>
        \E p \in Proposals : RunOf[p] = r /\ stage[p] \in {"waiting", "answered", "expired"}

\* The audit comes first: nothing is decided before it, and only what it
\* approved is saved, promoted and loaded.
AuditInv ==
    /\ \A p \in Proposals : stage[p] \in {"proposed", "staged"} => verdict[p] = "none"
    /\ \A p \in Proposals :
           stage[p] \in {"accepted", "saved", "promoted", "loading"} => verdict[p] = "approve"
    /\ \A p \in Proposals : stage[p] = "saved" => p \in ToSet(verified)
    /\ \A p \in ToSet(verified) : verdict[p] = "approve"

\* A proposal that waits has an entry.
WaiterHasEntry ==
    \A p \in Proposals :
        stage[p] \in {"waiting", "answered", "expired"} => approval[RunOf[p]] # NoEntry

ReadAnswerTaken == \E p \in Proposals : ReadAnswer(p)

ForgeInv == ForgeTypeOK /\ CallInv /\ AnswerInv /\ EntryHasWaiter /\ WaiterHasEntry
            /\ AuditInv /\ OnlyAuditedCode
-----------------------------------------------------------------------------
LEMMA ContextIsRun ==
    ASSUME NEW p \in Proposals, RunOf[p] # NoContext
    PROVE  RunOf[p] \in Contexts
BY DEF Contexts

LEMMA RowsAppended ==
    ASSUME NEW s \in Seq(Proposals), NEW p \in Proposals
    PROVE  Append(s, p) \in Seq(Proposals) /\ ToSet(Append(s, p)) = ToSet(s) \union {p}
<1>1. /\ Append(s, p) \in Seq(Proposals) /\ Len(Append(s, p)) = Len(s) + 1
      /\ Append(s, p)[Len(s) + 1] = p
      /\ \A i \in 1 .. Len(s) : Append(s, p)[i] = s[i]
  OBVIOUS
<1>2. DOMAIN Append(s, p) = DOMAIN s \union {Len(s) + 1} /\ DOMAIN s = 1 .. Len(s)
  BY <1>1
<1> QED BY <1>1, <1>2 DEF ToSet

\* Whatever a reload picks for a name is code of that name from a file or a row.
LEMMA LoadedIsKnown ==
    ASSUME ForgeInv, NEW n \in ToolNames, NEW before \in {NoTool, tools[n]}
    PROVE  /\ Loaded(n, before) \in Proposals \union {NoTool}
           /\ Loaded(n, before) # NoTool =>
                 /\ ToolName[Loaded(n, before)] = n /\ Loaded(n, before) \in ToSet(verified)
<1>0. ForgeTypeOK /\ OnlyAuditedCode
  BY DEF ForgeInv
<1>1. CASE files[n] \in Loadable
  <2>1. Loaded(n, before) = files[n] /\ files[n] # NoTool
    BY <1>1, ToolForgeAssumption DEF Loaded
  <2> QED BY <1>0, <2>1 DEF ForgeTypeOK, OnlyAuditedCode
<1>2. CASE files[n] \notin Loadable /\ (before # NoTool \/ Newest(n) = {})
  BY <1>0, <1>2 DEF Loaded, ForgeTypeOK, OnlyAuditedCode
<1>3. CASE files[n] \notin Loadable /\ before = NoTool /\ Newest(n) # {}
  <2>1. PICK i \in Newest(n) : Loaded(n, before) = verified[i]
    BY <1>3 DEF Loaded
  <2>2. i \in DOMAIN verified /\ ToolName[verified[i]] = n
    BY <2>1 DEF Newest, Restorable, Recent
  <2>3. verified[i] \in ToSet(verified) /\ verified[i] \in Proposals
    BY <1>0, <2>2 DEF ToSet, ForgeTypeOK
  <2> QED BY <2>1, <2>2, <2>3
<1> QED BY <1>1, <1>2, <1>3
-----------------------------------------------------------------------------
(***************************************************************************)
(* ForgeInv is inductive.                                                  *)
(***************************************************************************)
LEMMA ForgeInitInv == ForgeInit => ForgeInv
<1> SUFFICES ASSUME ForgeInit PROVE ForgeInv
  OBVIOUS
<1>1. verified \in Seq(Proposals) /\ ToSet(verified) = {}
  BY DEF ForgeInit, ToSet
<1>2. ForgeTypeOK
  BY <1>1 DEF ForgeInit, ForgeTypeOK
<1>3. CallInv /\ AuditInv
  BY <1>1 DEF ForgeInit, CallInv, AuditInv, Asking, Over
<1>4. AnswerInv /\ EntryHasWaiter /\ WaiterHasEntry
  BY ToolForgeAssumption DEF ForgeInit, AnswerInv, EntryHasWaiter, WaiterHasEntry
<1>5. OnlyAuditedCode
  BY DEF ForgeInit, OnlyAuditedCode
<1> QED BY <1>2, <1>3, <1>4, <1>5 DEF ForgeInv

\* A proposal that is no part of an approval moves on, with the rows.
LEMMA MovesOn ==
    ASSUME ForgeInv, NEW p \in Proposals, NEW s, s \notin Asking,
           stage[p] \notin {"waiting", "answered", "expired"},
           stage' = [stage EXCEPT ![p] = s],
           ~Over(p) \/ CallerFree(p),
           UNCHANGED <<approval, answered>>
    PROVE  CallInv' /\ AnswerInv' /\ EntryHasWaiter' /\ WaiterHasEntry'
<1>1. \A q \in Proposals : stage'[q] = IF q = p THEN s ELSE stage[q]
  BY DEF ForgeInv, ForgeTypeOK
<1>2. CallInv'
  BY <1>1 DEF ForgeInv, CallInv, Over, CallerFree, Asking
<1>3. AnswerInv' /\ EntryHasWaiter' /\ WaiterHasEntry'
  BY <1>1 DEF ForgeInv, AnswerInv, EntryHasWaiter, WaiterHasEntry, Asking
<1> QED BY <1>2, <1>3

\* Outside the registry and its rows nothing is known of what is audited.
LEMMA RegistryKept ==
    ASSUME ForgeInv, UNCHANGED <<verified, files, tools>>,
           \A p \in Proposals : verdict[p] = "approve" => verdict'[p] = "approve"
    PROVE  OnlyAuditedCode' /\ \A p \in ToSet(verified') : verdict'[p] = "approve"
<1>1. ToSet(verified) \subseteq Proposals
  BY DEF ForgeInv, ForgeTypeOK, ToSet
<1> QED BY <1>1 DEF ForgeInv, OnlyAuditedCode, AuditInv, ForgeTypeOK

LEMMA RowsKept ==
    ASSUME ForgeInv, UNCHANGED <<verified, verdict>>
    PROVE  ToSet(verified') = ToSet(verified) /\ \A p \in ToSet(verified') : verdict'[p] = "approve"
BY DEF ForgeInv, AuditInv

LEMMA ValidateStep == ASSUME ForgeInv, NEW p \in Proposals, Validate(p) PROVE ForgeInv'
<1>1. PICK s \in {"failed", "rejected", "staged"} : stage' = [stage EXCEPT ![p] = s]
  BY DEF Validate, Become
<1>2. CallInv' /\ AnswerInv' /\ EntryHasWaiter' /\ WaiterHasEntry'
  BY <1>1, MovesOn DEF Validate, Is, Asking
<1>3. OnlyAuditedCode' /\ AuditInv'
  BY <1>1, RegistryKept DEF Validate, Is, AuditInv, ForgeInv, ForgeTypeOK
<1> QED BY <1>1, <1>2, <1>3 DEF Validate, ForgeInv, ForgeTypeOK

LEMMA AuditTimesOutStep == ASSUME ForgeInv, NEW p \in Proposals, AuditTimesOut(p) PROVE ForgeInv'
<1>1. stage' = [stage EXCEPT ![p] = "rejected"]
  BY DEF AuditTimesOut, Become
<1>2. CallInv' /\ AnswerInv' /\ EntryHasWaiter' /\ WaiterHasEntry'
  BY <1>1, MovesOn DEF AuditTimesOut, Is, Asking, Over
<1>3. OnlyAuditedCode' /\ AuditInv'
  BY <1>1, RegistryKept DEF AuditTimesOut, Is, AuditInv, ForgeInv, ForgeTypeOK
<1> QED BY <1>1, <1>2, <1>3 DEF AuditTimesOut, ForgeInv, ForgeTypeOK

LEMMA LateAuditStep == ASSUME ForgeInv, NEW p \in Proposals, LateAudit(p) PROVE ForgeInv'
BY DEF LateAudit, ForgeInv, ForgeTypeOK, CallInv, AnswerInv, EntryHasWaiter, AuditInv,
       WaiterHasEntry, OnlyAuditedCode, Over

LEMMA AuditStep == ASSUME ForgeInv, NEW p \in Proposals, Audit(p) PROVE ForgeInv'
<1>1. PICK v \in {"approve", "reject", "review", "error"} :
         /\ verdict' = [verdict EXCEPT ![p] = v]
         /\ stage' = [stage EXCEPT ![p] = IF v = "approve" THEN "accepted"
                                          ELSE IF v = "review" /\ RunOf[p] # NoContext THEN "asking"
                                          ELSE "rejected"]
  BY DEF Audit, Become
<1>2. Is(p, "staged") /\ verdict[p] = "none"
  BY DEF Audit, Is, ForgeInv, AuditInv
<1>3. \A q \in Proposals : verdict[q] = "approve" => verdict'[q] = "approve"
  BY <1>1, <1>2 DEF ForgeInv, ForgeTypeOK
<1>4. OnlyAuditedCode' /\ \A q \in ToSet(verified') : verdict'[q] = "approve"
  BY <1>3, RegistryKept DEF Audit
<1>5. AuditInv'
  BY <1>1, <1>2, <1>3, <1>4 DEF AuditInv, Audit, ForgeInv, ForgeTypeOK
<1>6. AnswerInv' /\ EntryHasWaiter' /\ WaiterHasEntry'
  BY <1>1, <1>2 DEF Audit, Is, ForgeInv, AnswerInv, EntryHasWaiter, WaiterHasEntry, ForgeTypeOK
<1>7. CallInv'
  BY <1>1, <1>2 DEF Is, ForgeInv, CallInv, ForgeTypeOK, Over, Asking
<1> QED BY <1>1, <1>4, <1>5, <1>6, <1>7 DEF Audit, ForgeInv, ForgeTypeOK

LEMMA AskStep == ASSUME ForgeInv, NEW p \in Proposals, Ask(p) PROVE ForgeInv'
<1>1. /\ stage' = [stage EXCEPT ![p] = "waiting"] /\ stage[p] = "asking"
      /\ approval' = [approval EXCEPT ![RunOf[p]] = "open"]
      /\ answered' = [answered EXCEPT ![RunOf[p]] = "none"]
  BY DEF Ask, Become, Is
<1>2. RunOf[p] # NoContext /\ RunOf[p] \in Contexts
  BY <1>1, ContextIsRun DEF ForgeInv, CallInv, Asking
<1>3. \A q \in Proposals \ {p} : RunOf[q] = RunOf[p] => stage'[q] = stage[q] /\ stage[q] # "answered"
  BY <1>1, <1>2 DEF ForgeInv, ForgeTypeOK, CallInv, Over
<1>4. AnswerInv'
  BY <1>1, <1>2, <1>3, ContextIsRun DEF ForgeInv, ForgeTypeOK, AnswerInv, CallInv, Asking
<1>5. EntryHasWaiter' /\ WaiterHasEntry'
  BY <1>1, <1>2, ContextIsRun, ToolForgeAssumption
  DEF ForgeInv, ForgeTypeOK, EntryHasWaiter, WaiterHasEntry, CallInv, Asking
<1>6. CallInv'
  BY <1>1, <1>2 DEF ForgeInv, CallInv, ForgeTypeOK, Over, Asking
<1>7. AuditInv' /\ OnlyAuditedCode'
  BY <1>1, RegistryKept DEF Ask, ForgeInv, AuditInv, ForgeTypeOK
<1>8. ForgeTypeOK'
  BY <1>1, <1>2 DEF Ask, ForgeInv, ForgeTypeOK
<1> QED BY <1>4, <1>5, <1>6, <1>7, <1>8 DEF ForgeInv

LEMMA ResolveStep ==
    ASSUME ForgeInv, NEW r \in Contexts, NEW a \in {"approved", "rejected"}, Resolve(r, a)
    PROVE  ForgeInv'
<1>1. /\ approval' = [approval EXCEPT ![r] = a] /\ answered' = [answered EXCEPT ![r] = a]
      /\ approval[r] # NoEntry /\ UNCHANGED stage
  BY DEF Resolve
<1>2. AnswerInv' /\ EntryHasWaiter' /\ WaiterHasEntry'
  BY <1>1, ContextIsRun, ToolForgeAssumption
  DEF ForgeInv, ForgeTypeOK, AnswerInv, EntryHasWaiter, WaiterHasEntry, CallInv, Asking
<1>3. AuditInv' /\ OnlyAuditedCode'
  BY <1>1, RegistryKept DEF Resolve, ForgeInv, AuditInv
<1> QED BY <1>1, <1>2, <1>3 DEF Resolve, ForgeInv, ForgeTypeOK, CallInv, Over

LEMMA WakeUpStep == ASSUME ForgeInv, NEW p \in Proposals, WakeUp(p) PROVE ForgeInv'
<1>1. PICK s \in {"answered", "expired"} :
         /\ stage' = [stage EXCEPT ![p] = s]
         /\ s = "answered" => approval[RunOf[p]] # "open"
  BY DEF WakeUp, Become
<1>2. stage[p] = "waiting" /\ RunOf[p] \in Contexts
  BY ContextIsRun DEF WakeUp, Is, ForgeInv, CallInv, Asking
<1>3. WaiterHasEntry'
  BY <1>1, <1>2 DEF WakeUp, ForgeInv, ForgeTypeOK, WaiterHasEntry
<1>4. AnswerInv' /\ EntryHasWaiter'
  BY <1>1, <1>2 DEF WakeUp, ForgeInv, ForgeTypeOK, AnswerInv, EntryHasWaiter, WaiterHasEntry
<1>5. CallInv'
  BY <1>1, <1>2 DEF ForgeInv, CallInv, ForgeTypeOK, Over, Asking
<1>6. AuditInv' /\ OnlyAuditedCode'
  BY <1>1, <1>2, RegistryKept DEF WakeUp, ForgeInv, AuditInv, ForgeTypeOK
<1> QED BY <1>1, <1>3, <1>4, <1>5, <1>6 DEF WakeUp, ForgeInv, ForgeTypeOK

LEMMA ReadAnswerStep == ASSUME ForgeInv, NEW p \in Proposals, ReadAnswer(p) PROVE ForgeInv'
<1>1. /\ stage' = [stage EXCEPT ![p] = "rejected"]
      /\ approval' = [approval EXCEPT ![RunOf[p]] = NoEntry]
      /\ resolution' = [resolution EXCEPT ![p] = IF stage[p] = "answered" THEN approval[RunOf[p]]
                                                 ELSE "rejected"]
      /\ stage[p] \in {"answered", "expired"}
  BY DEF ReadAnswer, Become, Is
<1>2. RunOf[p] # NoContext /\ RunOf[p] \in Contexts
  BY <1>1, ContextIsRun DEF ForgeInv, CallInv, Asking
<1>3. \A q \in Proposals \ {p} :
          RunOf[q] = RunOf[p] => stage'[q] = stage[q] /\ stage[q] \notin Asking
  BY <1>1, <1>2 DEF ForgeInv, ForgeTypeOK, CallInv, Over, Asking
<1>4. WaiterHasEntry'
  BY <1>1, <1>2, <1>3, ContextIsRun DEF ForgeInv, ForgeTypeOK, WaiterHasEntry, CallInv, Asking
<1>5. AnswerInv'
  BY <1>1, <1>2, <1>3, ContextIsRun, ToolForgeAssumption
  DEF ReadAnswer, ForgeInv, ForgeTypeOK, AnswerInv, CallInv, Asking
<1>6. EntryHasWaiter'
  BY <1>1, <1>2, <1>3 DEF ForgeInv, ForgeTypeOK, EntryHasWaiter, Asking
<1>7. CallInv'
  BY <1>1, <1>2 DEF ForgeInv, CallInv, ForgeTypeOK, Over, Asking
<1>8. AuditInv' /\ OnlyAuditedCode'
  BY <1>1, RegistryKept DEF ReadAnswer, ForgeInv, AuditInv, ForgeTypeOK
<1>9. ForgeTypeOK'
  BY <1>1, <1>2 DEF ReadAnswer, ForgeInv, ForgeTypeOK, AnswerInv
<1> QED BY <1>4, <1>5, <1>6, <1>7, <1>8, <1>9 DEF ForgeInv

LEMMA SaveVerifiedStep == ASSUME ForgeInv, NEW p \in Proposals, SaveVerified(p) PROVE ForgeInv'
<1>1. PICK s \in {"saved", "failed"} :
         /\ stage' = [stage EXCEPT ![p] = s]
         /\ verified' = IF s = "saved" THEN Append(verified, p) ELSE verified
  BY DEF SaveVerified, Become
<1>2. stage[p] = "accepted" /\ verdict[p] = "approve"
  BY DEF SaveVerified, Is, ForgeInv, AuditInv
<1>3. /\ verified' \in Seq(Proposals)
      /\ ToSet(verified') = IF s = "saved" THEN ToSet(verified) \union {p} ELSE ToSet(verified)
  BY <1>1, RowsAppended DEF ForgeInv, ForgeTypeOK
<1>4. CallInv' /\ AnswerInv' /\ EntryHasWaiter' /\ WaiterHasEntry'
  BY <1>1, <1>2, MovesOn DEF SaveVerified, Asking, Over
<1>5. AuditInv' /\ OnlyAuditedCode'
  BY <1>1, <1>2, <1>3 DEF SaveVerified, ForgeInv, AuditInv, OnlyAuditedCode, ForgeTypeOK
<1> QED BY <1>1, <1>3, <1>4, <1>5 DEF SaveVerified, ForgeInv, ForgeTypeOK

LEMMA PromoteStep == ASSUME ForgeInv, NEW p \in Proposals, Promote(p) PROVE ForgeInv'
<1>1. PICK s \in {"done", "promoted", "failed"} :
         /\ stage' = [stage EXCEPT ![p] = s]
         /\ files' \in {files, [files EXCEPT ![ToolName[p]] = p]}
  BY DEF Promote, Become
<1>2. stage[p] = "saved" /\ verdict[p] = "approve" /\ p \in ToSet(verified) /\ ToolName[p] \in ToolNames
  BY <1>1 DEF Promote, Is, ForgeInv, AuditInv, ToolNames
<1>3. CallInv' /\ AnswerInv' /\ EntryHasWaiter' /\ WaiterHasEntry'
  BY <1>1, <1>2, MovesOn DEF Promote, Asking, Over
<1>4. \A n \in ToolNames : files'[n] = files[n] \/ (n = ToolName[p] /\ files'[n] = p)
  BY <1>1, <1>2 DEF ForgeInv, ForgeTypeOK
<1>5. AuditInv'
  BY <1>1, <1>2, RowsKept DEF Promote, ForgeInv, AuditInv, ForgeTypeOK
<1>6. OnlyAuditedCode'
  BY <1>2, <1>4 DEF Promote, ForgeInv, OnlyAuditedCode
<1> QED BY <1>1, <1>2, <1>3, <1>5, <1>6 DEF Promote, ForgeInv, ForgeTypeOK

LEMMA DropToolsStep == ASSUME ForgeInv, NEW p \in Proposals, DropTools(p) PROVE ForgeInv'
<1>1. stage' = [stage EXCEPT ![p] = "loading"] /\ stage[p] = "promoted"
  BY DEF DropTools, Become, Is
<1>2. CallInv' /\ AnswerInv' /\ EntryHasWaiter' /\ WaiterHasEntry'
  BY <1>1, MovesOn DEF DropTools, Asking, Over
<1>3. AuditInv'
  BY <1>1, RowsKept DEF DropTools, ForgeInv, AuditInv, ForgeTypeOK
<1>4. OnlyAuditedCode'
  BY DEF DropTools, ForgeInv, OnlyAuditedCode
<1> QED BY <1>1, <1>2, <1>3, <1>4 DEF DropTools, ForgeInv, ForgeTypeOK

LEMMA LoadToolsStep == ASSUME ForgeInv, NEW p \in Proposals, LoadTools(p) PROVE ForgeInv'
<1>1. stage' = [stage EXCEPT ![p] = "done"] /\ stage[p] = "loading"
  BY DEF LoadTools, Become, Is
<1>2. CallInv' /\ AnswerInv' /\ EntryHasWaiter' /\ WaiterHasEntry'
  BY <1>1, MovesOn DEF LoadTools, Asking, Over
<1>3. AuditInv'
  BY <1>1, RowsKept DEF LoadTools, ForgeInv, AuditInv, ForgeTypeOK
<1>4. \A n \in ToolNames : tools'[n] = Loaded(n, tools[n])
  BY DEF LoadTools
<1>5. tools' \in [ToolNames -> Proposals \union {NoTool}]
  BY <1>4, LoadedIsKnown DEF LoadTools
<1>6. OnlyAuditedCode'
  BY <1>4, LoadedIsKnown, RowsKept DEF LoadTools, ForgeInv, OnlyAuditedCode, AuditInv
<1> QED BY <1>1, <1>2, <1>3, <1>5, <1>6 DEF LoadTools, ForgeInv, ForgeTypeOK

LEMMA RestartStep == ASSUME ForgeInv, ForgeRestart PROVE ForgeInv'
<1>1. \A p \in Proposals : stage'[p] = IF Over(p) THEN stage[p] ELSE "lost"
  BY DEF ForgeRestart
<1>2. CallInv' /\ AnswerInv' /\ EntryHasWaiter' /\ WaiterHasEntry'
  BY <1>1, ToolForgeAssumption
  DEF ForgeRestart, CallInv, AnswerInv, EntryHasWaiter, WaiterHasEntry, Over, Asking
<1>3. AuditInv'
  BY <1>1, RowsKept DEF ForgeRestart, ForgeInv, AuditInv, Over
<1>4. \A n \in ToolNames : tools'[n] = Loaded(n, NoTool)
  BY DEF ForgeRestart
<1>5. tools' \in [ToolNames -> Proposals \union {NoTool}]
  BY <1>4, LoadedIsKnown DEF ForgeRestart
<1>6. OnlyAuditedCode'
  BY <1>4, LoadedIsKnown, RowsKept DEF ForgeRestart, ForgeInv, OnlyAuditedCode, AuditInv
<1>7. stage' \in [Proposals -> {"proposed", "rejected", "failed", "done", "lost"}]
  BY DEF ForgeRestart, Over
<1> QED BY <1>2, <1>3, <1>5, <1>6, <1>7 DEF ForgeRestart, ForgeInv, ForgeTypeOK
-----------------------------------------------------------------------------
LEMMA ForgeStep == ForgeInv /\ [ForgeNext]_forgeVars => ForgeInv'
<1> SUFFICES ASSUME ForgeInv, [ForgeNext]_forgeVars PROVE ForgeInv'
  OBVIOUS
<1>1. CASE \E p \in Proposals : Propose(p)
  BY <1>1, ValidateStep, AuditTimesOutStep, AuditStep, AskStep, WakeUpStep, ReadAnswerStep,
     SaveVerifiedStep, PromoteStep, DropToolsStep, LoadToolsStep DEF Propose
<1>2. CASE \E p \in Proposals : LateAudit(p)
  BY <1>2, LateAuditStep
<1>3. CASE \E r \in Contexts, a \in {"approved", "rejected"} : Resolve(r, a)
  BY <1>3, ResolveStep
<1>4. CASE ForgeRestart
  BY <1>4, RestartStep
<1>5. CASE UNCHANGED forgeVars
  BY <1>5 DEF forgeVars, ForgeInv, ForgeTypeOK, CallInv, AnswerInv, EntryHasWaiter,
              WaiterHasEntry, AuditInv, OnlyAuditedCode, Over
<1> QED BY <1>1, <1>2, <1>3, <1>4, <1>5 DEF ForgeNext

LEMMA ForgeInvariant == ForgeSpec => []ForgeInv
BY ForgeInitInv, ForgeStep, PTL DEF ForgeSpec

(***************************************************************************)
(* The forge is type correct; what set_pending_and_wait returns is an      *)
(* answer that was given, never an entry that another wait has put there.  *)
(***************************************************************************)
THEOREM ForgeTypeCorrect == ForgeSpec => []ForgeTypeOK
BY ForgeInvariant, PTL DEF ForgeInv

(***************************************************************************)
(* Whatever the registry runs or finds in a file was approved by the       *)
(* guardian and has its row, over late audits, failed writes and restarts. *)
(***************************************************************************)
THEOREM RegistryIsAudited == ForgeSpec => []OnlyAuditedCode
BY ForgeInvariant, PTL DEF ForgeInv

(***************************************************************************)
(* No entry of RUN_APPROVAL_STATE outlives the thread that waits for it:   *)
(* an answer that is accepted is one that somebody will read.              *)
(***************************************************************************)
THEOREM AnswerHasReader == ForgeSpec => []EntryHasWaiter
BY ForgeInvariant, PTL DEF ForgeInv

(***************************************************************************)
(* set_pending_and_wait reports an approval only if the operator's last    *)
(* accepted answer is one.                                                 *)
(***************************************************************************)
THEOREM ApprovalIsLastAnswer == ForgeSpec => ResolutionIsAnswer
<1> DEFINE Step == \A p \in Proposals :
                       resolution'[p] = "approved" /\ resolution[p] # "approved" =>
                           answered[RunOf[p]] = "approved"
<1>1. ASSUME ForgeInv, ForgeNext PROVE Step
  <2>1. ASSUME NEW p \in Proposals, ReadAnswer(p) PROVE Step
    <3>1. /\ resolution' = [resolution EXCEPT ![p] = IF stage[p] = "answered"
                                                     THEN approval[RunOf[p]] ELSE "rejected"]
          /\ stage[p] \in {"answered", "expired"}
      BY <2>1 DEF ReadAnswer, Is
    <3>2. RunOf[p] \in Contexts
      BY <1>1, <3>1, ContextIsRun DEF ForgeInv, CallInv, Asking
    <3> QED BY <1>1, <3>1, <3>2 DEF ForgeInv, ForgeTypeOK, AnswerInv
  <2>2. ReadAnswerTaken \/ UNCHANGED resolution
    BY <1>1 DEF ForgeNext, Propose, Validate, AuditTimesOut, Audit, Ask, WakeUp, SaveVerified,
                Promote, DropTools, LoadTools, LateAudit, Resolve, ForgeRestart, ReadAnswerTaken
  <2> QED BY <2>1, <2>2 DEF ReadAnswerTaken
<1>2. ForgeInv /\ [ForgeNext]_forgeVars => [Step]_forgeVars
  BY <1>1
<1> QED BY <1>2, ForgeInvariant, PTL DEF ForgeSpec, ResolutionIsAnswer
-----------------------------------------------------------------------------
\* A nonempty set of positions has a last one: the least distance from the end.
LEMMA LastExists ==
    ASSUME NEW n \in Nat, NEW T \in SUBSET (1 .. n), T # {}
    PROVE  \E i \in T : \A j \in T : j <= i
<1> DEFINE D == {n - i : i \in T}
<1>0. \A i \in T : i \in Nat /\ i <= n /\ n - i \in Nat
  OBVIOUS
<1>1. D \subseteq Nat /\ D # {}
  BY <1>0
<1>2. \E x \in D : \A y \in D : ~(<<y, x>> \in OpToRel(<, Nat))
  BY <1>1, NatLessThanWellFounded, WFMin
<1>3. PICK x \in D : \A y \in D : ~(y < x)
  BY <1>1, <1>2 DEF OpToRel
<1>4. PICK i \in T : x = n - i
  BY <1>3
<1>5. \A j \in T : n - j \in D
  OBVIOUS
<1>6. \A j \in T : ~(n - j < n - i)
  BY <1>3, <1>4, <1>5
<1> QED BY <1>0, <1>6

\* The rows of a name that can be restored have a newest one.
LEMMA NewestExists ==
    ASSUME ForgeTypeOK, NEW n, Restorable(n) # {} PROVE Newest(n) # {}
<1>1. Len(verified) \in Nat /\ Restorable(n) \in SUBSET (1 .. Len(verified))
  BY DEF ForgeTypeOK, Restorable, Recent
<1>2. PICK i \in Restorable(n) : \A j \in Restorable(n) : j <= i
  BY <1>1, LastExists
<1> QED BY <1>2 DEF Newest

\* A load finds a tool for a name with a recent row whose code defines it.
LEMMA LoadFinds ==
    ASSUME ForgeTypeOK, NEW p \in Loadable, NEW i \in Recent, verified[i] = p, NEW before
    PROVE  Loaded(ToolName[p], before) # NoTool
<1> DEFINE n == ToolName[p]
<1>1. Restorable(n) # {}
  BY DEF Restorable
<1>2. Newest(n) # {}
  BY <1>1, NewestExists
<1>3. \A k \in Newest(n) : verified[k] \in Proposals
  BY DEF Newest, Restorable, Recent, ForgeTypeOK
<1> QED BY <1>2, <1>3, ToolForgeAssumption DEF Loaded

\* A step that neither ends a load nor reports a tool, and leaves tools and rows alone.
LEMMA NothingReported ==
    ASSUME ForgeTypeOK, ReportedIsAvailable, UNCHANGED <<tools, verified>>,
           \A q \in Proposals : /\ stage[q] = "loading" => stage'[q] = "loading"
                                /\ q \notin Batch /\ stage'[q] = "done" => stage[q] = "done"
    PROVE  ReportedIsAvailable'
BY DEF ReportedIsAvailable, Recent, Is

LEMMA SavedKeepsAvailable ==
    ASSUME ForgeTypeOK, ReportedIsAvailable, NEW p \in Proposals, SaveVerified(p)
    PROVE  ReportedIsAvailable'
<1>1. CASE UNCHANGED verified
  <2>1. stage[p] = "accepted" /\ \E s \in {"saved", "failed"} : stage' = [stage EXCEPT ![p] = s]
    BY DEF SaveVerified, Become, Is
  <2> QED BY <1>1, <2>1, NothingReported DEF SaveVerified, ForgeTypeOK
<1>2. CASE verified' = Append(verified, p) /\ stage' = [stage EXCEPT ![p] = "saved"]
  <2>1. stage[p] = "accepted" /\ UNCHANGED tools
    BY DEF SaveVerified, Is
  <2>2. \A q \in Proposals : /\ stage[q] = "loading" => stage'[q] = "loading"
                             /\ stage'[q] = "done" => stage[q] = "done" /\ q # p
    BY <1>2, <2>1 DEF ForgeTypeOK
  <2>3. ASSUME NEW q \in Proposals \ {p}, NEW i \in Recent', verified'[i] = q
        PROVE  i \in Recent /\ verified[i] = q
    BY <1>2, <2>3, ToolForgeAssumption DEF Recent, ForgeTypeOK
  <2> QED BY <2>1, <2>2, <2>3 DEF ReportedIsAvailable, Is
<1> QED BY <1>1, <1>2 DEF SaveVerified, Become

LEMMA LoadedKeepsAvailable ==
    ASSUME ForgeTypeOK, UNCHANGED verified,
           \A n \in ToolNames : \E before : tools'[n] = Loaded(n, before)
    PROVE  ReportedIsAvailable'
<1> SUFFICES ASSUME NEW p \in Proposals \intersect Loadable, NEW i \in Recent, verified[i] = p
             PROVE  tools'[ToolName[p]] # NoTool
  BY DEF ReportedIsAvailable, Recent
<1>1. ToolName[p] \in ToolNames
  BY DEF ToolNames
<1> QED BY <1>1, LoadFinds

LEMMA AvailableStep ==
    ASSUME ForgeTypeOK, ReportedIsAvailable, [ForgeNext]_forgeVars PROVE ReportedIsAvailable'
<1>1. ASSUME NEW p \in Proposals,
             \/ Validate(p) \/ AuditTimesOut(p) \/ Audit(p) \/ Ask(p) \/ WakeUp(p) \/ ReadAnswer(p)
      PROVE  ReportedIsAvailable'
  <2>1. stage[p] # "loading" /\ UNCHANGED <<tools, verified>>
    BY <1>1 DEF Validate, AuditTimesOut, Audit, Ask, WakeUp, ReadAnswer, Is
  <2>2. \E s \in {"failed", "rejected", "staged", "accepted", "asking", "waiting", "answered",
                  "expired"} : stage' = [stage EXCEPT ![p] = s]
    BY <1>1 DEF Validate, AuditTimesOut, Audit, Ask, WakeUp, ReadAnswer, Become
  <2> QED BY <2>1, <2>2, NothingReported DEF ForgeTypeOK
<1>2. ASSUME NEW p \in Proposals, Promote(p) PROVE ReportedIsAvailable'
  <2>1. /\ stage[p] = "saved" /\ UNCHANGED <<tools, verified>>
        /\ \E s \in {"done", "promoted", "failed"} :
              stage' = [stage EXCEPT ![p] = s] /\ (s = "done" => p \in Batch)
    BY <1>2 DEF Promote, Become, Is
  <2> QED BY <2>1, NothingReported DEF ForgeTypeOK
<1>3. ASSUME NEW p \in Proposals, DropTools(p) PROVE ReportedIsAvailable'
  <2>1. stage'[p] = "loading"
    BY <1>3 DEF DropTools, Become, ForgeTypeOK
  <2> QED BY <2>1 DEF ReportedIsAvailable, Is
<1>4. ASSUME NEW p \in Proposals, LoadTools(p) PROVE ReportedIsAvailable'
  BY <1>4, LoadedKeepsAvailable DEF LoadTools
<1>5. CASE ForgeRestart
  BY <1>5, LoadedKeepsAvailable DEF ForgeRestart
<1>6. CASE \/ \E p \in Proposals : LateAudit(p)
           \/ \E r \in Contexts, a \in {"approved", "rejected"} : Resolve(r, a)
           \/ UNCHANGED forgeVars
  <2>1. UNCHANGED <<stage, tools, verified>>
    BY <1>6 DEF LateAudit, Resolve, forgeVars
  <2> QED BY <2>1, NothingReported
<1> QED BY <1>1, <1>2, <1>3, <1>4, <1>5, <1>6, SavedKeepsAvailable DEF ForgeNext, Propose

(***************************************************************************)
(* What propose_new_tool reported is found in the registry after any       *)
(* number of reloads and restarts, as long as its row is among those the   *)
(* registry asks for: the drop and the load are two steps, the file may    *)
(* have been replaced by one that does not load, and the newest row of the *)
(* name is restored then.                                                  *)
(***************************************************************************)
THEOREM ReportedToolIsAvailable == ForgeSpec => []ReportedIsAvailable
<1>1. ForgeInit => ReportedIsAvailable
  BY DEF ForgeInit, ReportedIsAvailable, Is
<1>2. ForgeTypeOK /\ ReportedIsAvailable /\ [ForgeNext]_forgeVars => ReportedIsAvailable'
  BY AvailableStep
<1> QED BY <1>1, <1>2, ForgeTypeCorrect, PTL DEF ForgeSpec
=============================================================================
