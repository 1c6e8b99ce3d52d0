------------------------------ MODULE ToolForge ------------------------------
(***************************************************************************)
(* Tools that agents propose: the stages of validate_and_register          *)
(* (core/tool_forge.py), the operator's approval they may wait for         *)
(* (infra/run_approval.py), and the registry that loads what was accepted  *)
(* (core/dynamic_registry.py), from its files first and from the database  *)
(* second.  Proposals run in threads of their own, or on the event loop of *)
(* an agent (propose_new_tool), which stands still meanwhile.              *)
(*                                                                         *)
(* The rows and the files are durable; everything else is lost in a crash. *)
(***************************************************************************)
EXTENDS Naturals, Sequences, SequencesExt

CONSTANTS Proposals,      \* calls of validate_and_register
          ToolName,       \* [Proposals -> the normalised name of the tool]
          RunOf,          \* [Proposals -> the run in whose context it is made, or NoContext]
          OnLoop,         \* proposals made on a running event loop
          Batch,          \* proposals of batch_validate, after which nothing is reloaded
          Loadable,       \* proposals whose code defines the tool
          NoTool,         \* a name without a file or a tool
          NoContext,      \* no run context
          NoEntry,        \* RUN_APPROVAL_STATE has no entry for the run
          RowLimit,       \* limit of the query for VERIFIED rows (50)
          ForgeMayCrash   \* the process may die and be started again

Contexts == {RunOf[p] : p \in Proposals} \ {NoContext}
ToolNames == {ToolName[p] : p \in Proposals}

ASSUME ToolForgeAssumption ==
    /\ OnLoop \subseteq Proposals /\ Batch \subseteq Proposals \ OnLoop
    /\ Loadable \subseteq Proposals
    /\ \A p \in OnLoop : RunOf[p] # NoContext
    /\ \A p \in Batch : RunOf[p] = NoContext
    /\ NoTool \notin Proposals /\ NoEntry \notin {"open", "approved", "rejected"}
    /\ RowLimit \in Nat \ {0} /\ ForgeMayCrash \in BOOLEAN

VARIABLES stage,      \* [Proposals -> how far the proposal is]
          verified,   \* the VERIFIED rows of dynamic_tools, oldest first
          files,      \* [ToolNames -> whose code custom_tools/<name>.py holds]
          tools,      \* [ToolNames -> whose code the registry runs], _dynamic_tools
          approval,   \* [Contexts -> RUN_APPROVAL_STATE: NoEntry, or the answer so far]
          late,       \* audits that timed out and are still scheduled on their loop
          verdict,    \* history: [Proposals -> what the guardian said before the decision]
          answered,   \* history: [Contexts -> the last answer that was accepted]
          resolution  \* history: [Proposals -> what set_pending_and_wait returned]

forgeVars == <<stage, verified, files, tools, approval, late, verdict, answered, resolution>>

ForgeInit ==
    /\ stage = [p \in Proposals |-> "proposed"]
    /\ verified = <<>>
    /\ files = [n \in ToolNames |-> NoTool]
    /\ tools = [n \in ToolNames |-> NoTool]
    /\ approval = [r \in Contexts |-> NoEntry]
    /\ late = {}
    /\ verdict = [p \in Proposals |-> "none"]
    /\ answered = [r \in Contexts |-> "none"]
    /\ resolution = [p \in Proposals |-> "none"]

Is(p, s) == stage[p] = s
Become(p, s) == stage' = [stage EXCEPT ![p] = s]
Over(p) == stage[p] \in {"proposed", "rejected", "failed", "done", "lost"}

\* A run executes one tool call at a time.
CallerFree(p) == RunOf[p] # NoContext => \A q \in Proposals \ {p} : RunOf[q] = RunOf[p] => Over(q)
-----------------------------------------------------------------------------
\* Syntax (no row), AST and sandbox (a REJECTED row), then staged for the audit.
Validate(p) ==
    /\ Is(p, "proposed") /\ CallerFree(p)
    /\ \E s \in {"failed", "rejected", "staged"} : Become(p, s)
    /\ UNCHANGED <<verified, files, tools, approval, late, verdict, answered, resolution>>

\* The audit of a proposal on a loop waits for that loop, and times out after
\* 60 s.  Its coroutine stays with the loop.
AuditTimesOut(p) ==
    /\ Is(p, "staged") /\ p \in OnLoop
    /\ Become(p, "rejected")
    /\ late' = late \union {p}
    /\ UNCHANGED <<verified, files, tools, approval, verdict, answered, resolution>>

\* Mutant: the verdict of the late audit is acted upon.
LateAuditCounts(p) ==
    /\ p \in late /\ CallerFree(p) /\ Over(p)
    /\ late' = late \ {p}
    /\ Become(p, "accepted")
    /\ UNCHANGED <<verified, files, tools, approval, verdict, answered, resolution>>

\* The loop comes to it when nobody waits for it any more.
LateAudit(p) ==
    /\ p \in late /\ CallerFree(p) /\ Over(p)
    /\ late' = late \ {p}
    /\ UNCHANGED <<stage, verified, files, tools, approval, verdict, answered, resolution>>

\* Off a running loop the guardian answers; NEED_AI_REVIEW asks the operator,
\* if there is a run to ask about.
Audit(p) ==
    /\ Is(p, "staged") /\ p \notin OnLoop
    /\ \E v \in {"approve", "reject", "review", "error"} :
          /\ verdict' = [verdict EXCEPT ![p] = v]
          /\ Become(p, CASE v = "approve" -> "accepted"
                         [] v = "review" /\ RunOf[p] # NoContext -> "asking"
                         [] OTHER -> "rejected")
    /\ UNCHANGED <<verified, files, tools, approval, late, answered, resolution>>

\* set_pending_and_wait: a new entry, then the wait.
Ask(p) ==
    /\ Is(p, "asking")
    /\ approval' = [approval EXCEPT ![RunOf[p]] = "open"]
    /\ answered' = [answered EXCEPT ![RunOf[p]] = "none"]
    /\ Become(p, "waiting")
    /\ UNCHANGED <<verified, files, tools, late, verdict, resolution>>

\* approve and reject: accepted as long as there is an entry.
Resolve(r, a) ==
    /\ approval[r] # NoEntry
    /\ approval' = [approval EXCEPT ![r] = a]
    /\ answered' = [answered EXCEPT ![r] = a]
    /\ UNCHANGED <<stage, verified, files, tools, late, verdict, resolution>>

\* Mutant: a wait without a limit.
WakeUpWhenAnswered(p) ==
    /\ Is(p, "waiting")
    /\ approval[RunOf[p]] # "open" /\ Become(p, "answered")
    /\ UNCHANGED <<verified, files, tools, approval, late, verdict, answered, resolution>>

\* The event is set, or the 24 hours are over.
WakeUp(p) ==
    /\ Is(p, "waiting")
    /\ \/ approval[RunOf[p]] # "open" /\ Become(p, "answered")
       \/ Become(p, "expired")
    /\ UNCHANGED <<verified, files, tools, approval, late, verdict, answered, resolution>>

\* Mutant: whoever was woken was approved.
ReadAnswerBlindly(p) ==
    /\ stage[p] \in {"answered", "expired"}
    /\ resolution' = [resolution EXCEPT ![p] = IF Is(p, "answered") THEN "approved" ELSE "rejected"]
    /\ approval' = [approval EXCEPT ![RunOf[p]] = NoEntry]
    /\ Become(p, "rejected")
    /\ UNCHANGED <<verified, files, tools, late, verdict, answered>>

\* The entry goes.  The audit's own verdict was False, and the code falls from
\* an approval into `if not approved`.
ReadAnswer(p) ==
    /\ stage[p] \in {"answered", "expired"}
    /\ resolution' = [resolution EXCEPT ![p] = IF Is(p, "answered") THEN approval[RunOf[p]] ELSE "rejected"]
    /\ approval' = [approval EXCEPT ![RunOf[p]] = NoEntry]
    /\ Become(p, "rejected")
    /\ UNCHANGED <<verified, files, tools, late, verdict, answered>>
-----------------------------------------------------------------------------
\* The VERIFIED row; the proposal fails if it cannot be saved.
SaveVerified(p) ==
    /\ Is(p, "accepted")
    /\ \/ verified' = Append(verified, p) /\ Become(p, "saved")
       \/ Become(p, "failed") /\ UNCHANGED verified
    /\ UNCHANGED <<files, tools, approval, late, verdict, answered, resolution>>

\* The file, over an earlier one of that name; a write that fails raises.
Promote(p) ==
    /\ Is(p, "saved")
    /\ \/ files' = [files EXCEPT ![ToolName[p]] = p]
          /\ Become(p, IF p \in Batch THEN "done" ELSE "promoted")
       \/ Become(p, "failed") /\ UNCHANGED files
    /\ UNCHANGED <<verified, tools, approval, late, verdict, answered, resolution>>

\* reload_custom_tools, in the proposal's thread: everything is dropped ...
DropTools(p) ==
    /\ Is(p, "promoted")
    /\ tools' = [n \in ToolNames |-> NoTool]
    /\ Become(p, "loading")
    /\ UNCHANGED <<verified, files, approval, late, verdict, answered, resolution>>

\* The rows that the query returns: the newest ones.
Recent == {i \in DOMAIN verified : i + RowLimit > Len(verified)}
Restorable(n) == {i \in Recent : ToolName[verified[i]] = n /\ verified[i] \in Loadable}
Newest(n) == {i \in Restorable(n) : \A j \in Restorable(n) : j <= i}

\* Mutant: what has a file is not restored from its row.
LoadedFilesOnly(n, before) == IF files[n] \in Loadable THEN files[n] ELSE before

\* A file that loads wins; then what is there already; then the newest row.
Loaded(n, before) ==
    IF files[n] \in Loadable THEN files[n]
    ELSE IF before # NoTool \/ Newest(n) = {} THEN before
    ELSE verified[CHOOSE i \in Newest(n) : TRUE]

\* ... and loaded again.
LoadTools(p) ==
    /\ Is(p, "loading")
    /\ tools' = [n \in ToolNames |-> Loaded(n, tools[n])]
    /\ Become(p, "done")
    /\ UNCHANGED <<verified, files, approval, late, verdict, answered, resolution>>

\* A new process loads all tools when its registry is made.
ForgeRestart ==
    /\ ForgeMayCrash
    /\ stage' = [p \in Proposals |-> IF Over(p) THEN stage[p] ELSE "lost"]
    /\ tools' = [n \in ToolNames |-> Loaded(n, NoTool)]
    /\ approval' = [r \in Contexts |-> NoEntry]
    /\ late' = {}
    /\ UNCHANGED <<verified, files, verdict, answered, resolution>>

Propose(p) == \/ Validate(p) \/ AuditTimesOut(p) \/ Audit(p) \/ Ask(p) \/ WakeUp(p)
              \/ ReadAnswer(p) \/ SaveVerified(p) \/ Promote(p) \/ DropTools(p) \/ LoadTools(p)

ForgeNext ==
    \/ \E p \in Proposals : Propose(p) \/ LateAudit(p)
    \/ \E r \in Contexts, a \in {"approved", "rejected"} : Resolve(r, a)
    \/ ForgeRestart

\* Threads go on; the waits for the audit and for the operator end.
ForgeFairness == \A p \in Proposals : WF_forgeVars(Propose(p))

ForgeSpec == ForgeInit /\ [][ForgeNext]_forgeVars /\ ForgeFairness
-----------------------------------------------------------------------------
ForgeTypeOK ==
    /\ stage \in [Proposals -> {"proposed", "staged", "asking", "waiting", "answered", "expired",
                                "accepted", "saved", "promoted", "loading",
                                "done", "rejected", "failed", "lost"}]
    /\ verified \in Seq(Proposals)
    /\ files \in [ToolNames -> Proposals \union {NoTool}]
    /\ tools \in [ToolNames -> Proposals \union {NoTool}]
    /\ approval \in [Contexts -> {NoEntry, "open", "approved", "rejected"}]
    /\ late \subseteq OnLoop
    /\ verdict \in [Proposals -> {"none", "approve", "reject", "review", "error"}]
    /\ answered \in [Contexts -> {"none", "approved", "rejected"}]
    /\ resolution \in [Proposals -> {"none", "approved", "rejected"}]

(***************************************************************************)
(* Fail-closed end to end: whatever the registry runs, or will load from a *)
(* file or a row, is code that the guardian approved before the decision,  *)
(* and the row that says so was saved.  A late audit, a failed save, a     *)
(* crash between row and file do not let anything else in.                 *)
(***************************************************************************)
OnlyAuditedCode ==
    \A n \in ToolNames : \A p \in {files[n], tools[n]} \ {NoTool} :
        ToolName[p] = n /\ verdict[p] = "approve" /\ p \in ToSet(verified)

(***************************************************************************)
(* An agent whose propose_new_tool has succeeded finds the tool in the     *)
(* registry, under its name, unless a reload is under way: also when its   *)
(* file was replaced by one that does not load, and after a restart, as    *)
(* long as its row is among those that the registry asks for.              *)
(***************************************************************************)
ReportedIsAvailable ==
    \A p \in (Proposals \ Batch) \intersect Loadable :
        Is(p, "done") /\ (\E i \in Recent : verified[i] = p) =>
            tools[ToolName[p]] # NoTool \/ \E q \in Proposals : Is(q, "loading")

(***************************************************************************)
(* set_pending_and_wait says "approved" only if the last answer that the   *)
(* operator was told is accepted is an approval: approve and reject may    *)
(* both come between the wake-up and the reading of the answer, or after   *)
(* the wait has expired.                                                   *)
(***************************************************************************)
ResolutionIsAnswer ==
    [][\A p \in Proposals : resolution'[p] = "approved" /\ resolution[p] # "approved" =>
           answered[RunOf[p]] = "approved"]_forgeVars

(***************************************************************************)
(* A proposal comes to an end, also if the guardian cannot answer on the   *)
(* loop that waits for it, and if no operator does.                        *)
(***************************************************************************)
ProposalEnds == \A p \in Proposals : Is(p, "staged") ~> Over(p)
=============================================================================
