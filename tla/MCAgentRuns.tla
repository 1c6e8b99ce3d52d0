----------------------------- MODULE MCAgentRuns ----------------------------
(***************************************************************************)
(* Runs of the agent, the stream of a run's events, and the tools that the *)
(* agent proposes with their audit and approval.  They share no state, so  *)
(* a behaviour is one of the part that Init chose, and the others stay     *)
(* where they are.                                                         *)
(***************************************************************************)
EXTENDS MCRunLifecycle, ToolForge, EventStream

CONSTANTS asker, script, worker, clerk

VARIABLE part

MCProposals == {asker, script, worker, clerk}
MCToolName == [p \in Proposals |-> "tool"]
MCRunOf == [p \in Proposals |-> CASE p \in {asker, script} -> "r1"
                                  [] p = worker -> NoContext
                                  [] OTHER -> "r2"]
MCOnLoop == {asker}
MCBatch == {worker}
MCLoadable == Proposals \ {worker}
-----------------------------------------------------------------------------
Parts == {"runs", "forge", "stream"}

PartsInit == part \in Parts /\ Init /\ ForgeInit /\ StreamInit

PartsNext ==
    /\ part' = part
    /\ \/ part = "runs" /\ Next /\ UNCHANGED <<forgeVars, streamVars>>
       \/ part = "forge" /\ ForgeNext /\ UNCHANGED <<vars, streamVars>>
       \/ part = "stream" /\ StreamNext /\ UNCHANGED <<vars, forgeVars>>

\* Each part, while it is the one, is as fair as its own specification says.
PartsFairness ==
    /\ \A r \in Runs : /\ WF_vars(part = "runs" /\ Execution(r))
                       /\ WF_vars(part = "runs" /\ ForceFinished(r))
                       /\ WF_vars(part = "runs" /\ host[r] = "main" /\ LockGranted(r))
    /\ \A p \in Proposals : WF_forgeVars(part = "forge" /\ Propose(p))

PartsSpec == PartsInit /\ [][PartsNext]_<<vars, forgeVars, streamVars, part>> /\ PartsFairness
=============================================================================
