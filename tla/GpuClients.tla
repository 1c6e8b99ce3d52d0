----------------------------- MODULE GpuClients -----------------------------
(***************************************************************************)
(* The HTTP clients of the GPU as main.py serves them: chats (/chat and    *)
(* /chat/ask in routers/chat.py, with the session lock SESSION_BUSY and    *)
(* Orchestrator.run_agent under the gpu lock), the image endpoint          *)
(* (routers/media_generation.py), the agent's create_image tool            *)
(* (media/tools.py) and the watchdog's kill switch (main.py), all driving  *)
(* the FSM of Orchestrator.tla.                                            *)
(***************************************************************************)
EXTENDS Orchestrator, Sequences, SequencesExt

CONSTANTS Chats, Images,    \* requests of the two kinds, each served once
          Sessions,         \* the values of _session_lock_key
          NoSession,        \* a chat that has not arrived yet
          KillSwitch,       \* VRAM may become critical
          MayDisconnect,    \* a chat's client may go away while it streams
          MayFail           \* a check of an admitted chat may raise

ASSUME GpuClientsAssumption ==
    /\ Callers = Chats \union Images \union {"watchdog"}
    /\ Chats \intersect Images = {} /\ "watchdog" \notin Chats \union Images
    /\ NoSession \notin Sessions
    /\ {KillSwitch, MayDisconnect, MayFail} \subseteq BOOLEAN

VARIABLES pc,        \* [Chats \union Images -> where the request is]
          session,   \* [Chats -> its _session_lock_key]
          busy,      \* SESSION_BUSY
          lockQueue  \* _gpu_lock: its holder, then its waiters

clientVars == <<pc, session, busy, lockQueue>>
vars == <<fsmVars, clientVars>>

Clients == Chats \union Images

\* Where a chat holds its session, waits for or holds the lock, and streams.
UsesLlm    == {"generating", "unloading"}
HoldsLock  == {"agent", "tool", "toolskip", "toolwait", "painting"} \union UsesLlm
InSession  == {"admitted", "entering", "started", "queued", "finishing"} \union HoldsLock
Streaming  == {"started", "queued", "finishing", "leaving"} \union HoldsLock

At(c, p) == pc[c] = p
Goto(c, p) == pc' = [pc EXCEPT ![c] = p]

Init == /\ FsmInit
        /\ pc = [c \in Clients |-> "new"]
        /\ session = [c \in Chats |-> NoSession]
        /\ busy = {}
        /\ lockQueue = <<>>

\* A request that goes on with p when it returns, and waits in w for an unload.
RequestThen(c, target, w, p) ==
    /\ RequestStateChange(c, target, FALSE)
    /\ Goto(c, IF call'[c] = NoCall THEN p ELSE w)

\* The unload of c's request is over.
ReturnThen(c, w, p) == At(c, w) /\ FinishCall(c) /\ Goto(c, p)
-----------------------------------------------------------------------------
(* Chats.                                                                  *)

\* The session lock: a second request of a busy session gets a 409.
AdmitChat(c, k) ==
    /\ At(c, "new")
    /\ session' = [session EXCEPT ![c] = k]
    /\ \/ k \in busy /\ Goto(c, "rejected") /\ UNCHANGED busy
       \/ k \notin busy /\ Goto(c, "admitted") /\ busy' = busy \union {k}
    /\ UNCHANGED <<fsmVars, lockQueue>>

\* Mutant: the except branch forgets the session.
AdmittedFailsBusy(c) ==
    /\ MayFail /\ At(c, "admitted")
    /\ Goto(c, "done")
    /\ UNCHANGED <<fsmVars, session, busy, lockQueue>>

\* LLM unavailable, a database error: the except branch frees the session.
AdmittedFails(c) ==
    /\ MayFail /\ At(c, "admitted")
    /\ Goto(c, "done")
    /\ busy' = busy \ {session[c]}
    /\ UNCHANGED <<fsmVars, session, lockQueue>>

\* The result of the request is not looked at.
EnterText(c) ==
    /\ \/ At(c, "admitted") /\ RequestThen(c, "TEXT", "entering", "started")
       \/ ReturnThen(c, "entering", "started")
    /\ UNCHANGED <<session, busy, lockQueue>>

\* run_agent: async with self._gpu_lock.
QueueForLock(c) ==
    /\ At(c, "started")
    /\ lockQueue' = Append(lockQueue, c)
    /\ Goto(c, "queued")
    /\ UNCHANGED <<fsmVars, session, busy>>

LockGranted(c) ==
    /\ At(c, "queued") /\ Head(lockQueue) = c
    /\ Goto(c, "agent")
    /\ UNCHANGED <<fsmVars, session, busy, lockQueue>>

\* One LLM call of the agent; the service unloads its model afterwards.
Generate(c) ==
    /\ At(c, "agent")
    /\ Goto(c, "generating")
    /\ models' = models \union {"llm"}
    /\ UNCHANGED <<current_state, cooling, call, session, busy, lockQueue>>

GenerateEnds(c) ==
    /\ \/ At(c, "generating") /\ Goto(c, "unloading") /\ UNCHANGED models
       \/ /\ At(c, "unloading") /\ Goto(c, "agent")
          /\ models' = IF UnloadOnIdle THEN models \ {"llm"} ELSE models
    /\ UNCHANGED <<current_state, cooling, call, session, busy, lockQueue>>

\* create_image: the state is read, then the VRAM usage is awaited ...
CreateImage(c) ==
    /\ At(c, "agent")
    /\ Goto(c, IF current_state = "IMAGE" THEN "toolskip" ELSE "tool")
    /\ UNCHANGED <<fsmVars, session, busy, lockQueue>>

\* ... and a refused transition is only logged.
CreateImageRequests(c) ==
    /\ \/ At(c, "tool") /\ RequestThen(c, "IMAGE", "toolwait", "painting")
       \/ At(c, "toolskip") /\ Goto(c, "painting") /\ UNCHANGED fsmVars
       \/ ReturnThen(c, "toolwait", "painting")
    /\ UNCHANGED <<session, busy, lockQueue>>

\* ComfyUI loads its checkpoint and keeps it.
PaintLoads(c) ==
    /\ At(c, "painting") /\ "image" \notin models
    /\ models' = models \union {"image"}
    /\ UNCHANGED <<current_state, cooling, call, clientVars>>

CreateImageEnds(c) ==
    /\ c \in Chats /\ At(c, "painting")
    /\ Goto(c, "agent")
    /\ UNCHANGED <<fsmVars, session, busy, lockQueue>>

\* Mutant: the lock is not released.
AgentEndsLocked(c) ==
    /\ At(c, "agent")
    /\ Goto(c, "finishing")
    /\ UNCHANGED <<fsmVars, session, busy, lockQueue>>

\* agent.run returns or raises.
AgentEnds(c) ==
    /\ At(c, "agent")
    /\ Goto(c, "finishing")
    /\ lockQueue' = Tail(lockQueue)
    /\ UNCHANGED <<fsmVars, session, busy>>

\* The finally of the stream: free the session, then ask for IDLE, unforced.
FinishChat(c) ==
    /\ \/ /\ At(c, "finishing")
          /\ busy' = busy \ {session[c]}
          /\ RequestThen(c, "IDLE", "leaving", "done")
       \/ ReturnThen(c, "leaving", "done") /\ UNCHANGED busy
    /\ UNCHANGED <<session, lockQueue>>

\* Mutant: a cancelled waiter stays in the queue of the lock.
DisconnectKeepsPlace(c) ==
    /\ MayDisconnect /\ At(c, "queued")
    /\ Goto(c, "done")
    /\ busy' = busy \ {session[c]}
    /\ UNCHANGED <<fsmVars, session, lockQueue>>

(***************************************************************************)
(* The client goes away: the stream's task is cancelled where it waits,    *)
(* and again at every await of its finally blocks.  The lock and the       *)
(* session are freed without awaiting; the unload of an LLM call, and the  *)
(* unload of the IDLE request, are cut off.                                *)
(***************************************************************************)
Disconnect(c) ==
    /\ MayDisconnect /\ pc[c] \in Streaming
    /\ Goto(c, "done")
    /\ busy' = IF At(c, "leaving") THEN busy ELSE busy \ {session[c]}
    /\ \/ c \notin ToSet(lockQueue) /\ UNCHANGED lockQueue
       \/ \E n \in DOMAIN lockQueue :
              lockQueue[n] = c /\ lockQueue' = RemoveAt(lockQueue, n)
    /\ UNCHANGED session
    /\ \/ /\ call[c] = NoCall
          /\ \/ RequestStateChange(c, "IDLE", FALSE) /\ call' = call
             \/ /\ Outcome("IDLE", FALSE) = "SUCCESS" /\ Suspends(current_state, "IDLE")
                /\ UNCHANGED fsmVars
       \/ /\ call[c] # NoCall
          /\ call' = [call EXCEPT ![c] = NoCall]
          /\ UNCHANGED <<current_state, cooling, models>>
-----------------------------------------------------------------------------
(* The image endpoint: no session lock and no gpu lock.                    *)

EnterImage(i) ==
    /\ \/ At(i, "new") /\ RequestThen(i, "IMAGE", "entering", "painting")
       \/ ReturnThen(i, "entering", "painting")
    /\ UNCHANGED <<session, busy, lockQueue>>

\* generate returns or raises; the finally asks for IDLE, unforced.
FinishImage(i) ==
    /\ \/ At(i, "painting") /\ RequestThen(i, "IDLE", "leaving", "done")
       \/ ReturnThen(i, "leaving", "done")
    /\ UNCHANGED <<session, busy, lockQueue>>
-----------------------------------------------------------------------------
VramCritical ==
    /\ KillSwitch
    /\ \/ RequestStateChange("watchdog", "IDLE", TRUE)
       \/ FinishCall("watchdog")
    /\ UNCHANGED clientVars

UnloadStep(c) == UnloadEffect(c) /\ UNCHANGED clientVars

TimeStep == CooldownElapses /\ UNCHANGED clientVars

ChatStep(c) ==
    \/ \E k \in Sessions : AdmitChat(c, k)
    \/ EnterText(c) \/ QueueForLock(c) \/ LockGranted(c)
    \/ GenerateEnds(c) \/ CreateImageRequests(c) \/ CreateImageEnds(c)
    \/ AgentEnds(c) \/ FinishChat(c)

ImageStep(i) == EnterImage(i) \/ FinishImage(i)

Next ==
    \/ \E c \in Chats : \/ ChatStep(c) \/ AdmittedFails(c) \/ Generate(c)
                        \/ CreateImage(c) \/ PaintLoads(c) \/ Disconnect(c)
    \/ \E i \in Images : ImageStep(i) \/ PaintLoads(i)
    \/ \E c \in Callers : UnloadStep(c)
    \/ VramCritical \/ TimeStep

(***************************************************************************)
(* Every coroutine that can go on goes on, every HTTP request to Ollama    *)
(* and ComfyUI has a timeout, and an agent run is bounded by its number of *)
(* steps: it does not call tools for ever (SF).                            *)
(***************************************************************************)
Fairness ==
    /\ \A c \in Chats : /\ WF_vars(ChatStep(c))
                        /\ SF_vars(AgentEnds(c))
    /\ \A i \in Images : WF_vars(ImageStep(i))
    /\ \A c \in Callers : WF_vars(UnloadStep(c))

Spec == Init /\ [][Next]_vars /\ Fairness
-----------------------------------------------------------------------------
TypeOK ==
    /\ FsmTypeOK
    /\ pc \in [Clients -> {"new", "rejected", "leaving", "done"} \union InSession]
    /\ session \in [Chats -> Sessions \union {NoSession}]
    /\ busy \subseteq Sessions
    /\ lockQueue \in Seq(Chats)

Live == {c \in Chats : pc[c] \in InSession}

(***************************************************************************)
(* SESSION_BUSY is exact: a session is busy if and only if a chat of it is *)
(* under way, and never two of them are, through failures, disconnects and *)
(* the early release before the IDLE request (chat.py 600-623, 1200-1217). *)
(***************************************************************************)
SessionExact ==
    /\ busy = {session[c] : c \in Live}
    /\ \A c, d \in Live : session[c] = session[d] => c = d

(***************************************************************************)
(* The gpu lock: one agent runs at a time, and the queue of the lock holds *)
(* exactly the chats that wait for it or have it, each once - a chat that  *)
(* failed or whose client went away is not left in it.                     *)
(***************************************************************************)
LockExact ==
    /\ ToSet(lockQueue) = {c \in Chats : pc[c] \in {"queued"} \union HoldsLock}
    /\ IsInjective(lockQueue)
    /\ \A c \in Chats : pc[c] \in HoldsLock => Head(lockQueue) = c

(***************************************************************************)
(* The chats use the gpu lock as an asyncio.Lock: one agent at a time, in  *)
(* the order in which run_agent asked, with clients that go away anywhere. *)
(***************************************************************************)
GpuLock == INSTANCE FairLock WITH
    Users <- Chats, line <- lockQueue, taken <- \E c \in Chats : pc[c] \in HoldsLock

GpuLockIsFair == GpuLock!Spec

(***************************************************************************)
(* No chat hangs: one that was admitted comes to its end, the session is   *)
(* released, and so the client's next request is not refused for ever.     *)
(***************************************************************************)
ChatEnds == \A c \in Chats : c \in Live ~> c \notin Live

(***************************************************************************)
(* "TEXT -> IDLE: When LLM task completes", "IMAGE -> IDLE: When image     *)
(* generation completes" (states.py 24, 26): when no request is under way  *)
(* any more the FSM is in IDLE.                                            *)
(***************************************************************************)
Quiet == \A c \in Clients : pc[c] \in {"new", "rejected", "done"}

QuietMeansIdle == Quiet => current_state = "IDLE"

(***************************************************************************)
(* "TEXT: Full VRAM allocated to LLM (Ollama)", "IMAGE: Full VRAM          *)
(* allocated to Image Gen (ComfyUI)" (states.py 33-34): the two models are *)
(* never in VRAM together.                                                 *)
(***************************************************************************)
OneModel == ~(Models \subseteq models)
=============================================================================
