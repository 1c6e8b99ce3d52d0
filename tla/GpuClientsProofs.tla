-------------------------- MODULE GpuClientsProofs --------------------------
(***************************************************************************)
(* What is proved of the clients for any chats, images and sessions: the   *)
(* session lock, the gpu lock and its queue, and the types.  The session   *)
(* lock holds whatever the FSM, the VRAM and the gpu lock do, and the gpu  *)
(* lock whatever the FSM, the VRAM and the sessions do: each has its own   *)
(* invariant.                                                              *)
(***************************************************************************)
EXTENDS GpuClients, OrchestratorProofs, TLAPS

\* A chat under way has a session.
SessionInv ==
    /\ pc \in [Clients -> {"new", "rejected", "leaving", "done"} \union InSession]
    /\ session \in [Chats -> Sessions \union {NoSession}]
    /\ busy \subseteq Sessions
    /\ \A c \in Live : session[c] \in Sessions
    /\ SessionExact
-----------------------------------------------------------------------------
(***************************************************************************)
(* A client moves on inside its session, or where it has none.             *)
(***************************************************************************)
LEMMA MovesOn ==
    ASSUME SessionInv, NEW c \in Clients, NEW p \in {"new", "rejected", "leaving", "done"} \union InSession,
           pc' = [pc EXCEPT ![c] = p], UNCHANGED <<session, busy>>,
           c \in Chats => (p \in InSession <=> pc[c] \in InSession)
    PROVE  SessionInv'
<1>1. Live' = Live
  BY DEF SessionInv, Live, Clients
<1> QED BY <1>1 DEF SessionInv, SessionExact

\* A chat's session is over.
LEMMA LeavesSession ==
    ASSUME SessionInv, NEW c \in Chats, NEW p \in {"leaving", "done"},
           pc[c] \in InSession, pc' = [pc EXCEPT ![c] = p],
           busy' = busy \ {session[c]}, UNCHANGED session
    PROVE  SessionInv'
<1>1. Live' = Live \ {c} /\ c \in Live
  BY DEF SessionInv, Live, Clients, InSession, HoldsLock, UsesLlm
<1>2. \A d \in Live \ {c} : session[d] # session[c]
  BY <1>1 DEF SessionInv, SessionExact
<1>3. SessionExact'
  BY <1>1, <1>2 DEF SessionInv, SessionExact
<1> QED BY <1>1, <1>3 DEF SessionInv, Clients

LEMMA AdmitStep ==
    ASSUME SessionInv, NEW c \in Chats, NEW k \in Sessions, AdmitChat(c, k)
    PROVE  SessionInv'
<1>0. /\ pc \in [Clients -> {"new", "rejected", "leaving", "done"} \union InSession]
      /\ session \in [Chats -> Sessions \union {NoSession}] /\ busy \subseteq Sessions
      /\ c \in Clients /\ c \notin Live /\ session'[c] = k
      /\ \A d \in Chats \ {c} : session'[d] = session[d]
  BY DEF SessionInv, AdmitChat, At, Live, Clients, InSession, HoldsLock, UsesLlm
<1>1. /\ session' \in [Chats -> Sessions \union {NoSession}]
      /\ \A d \in Live : session'[d] = session[d]
  BY <1>0 DEF AdmitChat, Live
<1>2. CASE k \in busy /\ Goto(c, "rejected") /\ UNCHANGED busy
  <2>1. Live' = Live
    BY <1>0, <1>2 DEF Goto, Live, Clients, InSession, HoldsLock, UsesLlm
  <2>2. SessionExact'
    BY <1>1, <1>2, <2>1 DEF SessionInv, SessionExact
  <2> QED BY <1>0, <1>1, <1>2, <2>1, <2>2 DEF SessionInv, Goto
<1>3. CASE k \notin busy /\ Goto(c, "admitted") /\ busy' = busy \union {k}
  <2>1. Live' = Live \union {c}
    BY <1>0, <1>3 DEF Goto, Live, Clients, InSession
  <2>2. \A d \in Live : session'[d] # k
    BY <1>1, <1>3 DEF SessionInv, SessionExact
  <2>3. SessionExact'
    BY <1>0, <1>1, <1>3, <2>1, <2>2 DEF SessionInv, SessionExact
  <2>4. pc' \in [Clients -> {"new", "rejected", "leaving", "done"} \union InSession]
    BY <1>0, <1>3 DEF Goto, InSession
  <2> QED BY <1>0, <1>1, <1>3, <2>1, <2>3, <2>4 DEF SessionInv
<1> QED BY <1>2, <1>3 DEF AdmitChat

\* The steps of a chat's life in order, but for the first and the last.
LEMMA ChatKeeps ==
    ASSUME SessionInv, NEW c \in Chats,
           \/ EnterText(c) \/ QueueForLock(c) \/ LockGranted(c) \/ Generate(c)
           \/ GenerateEnds(c) \/ CreateImage(c) \/ CreateImageRequests(c) \/ CreateImageEnds(c)
           \/ AgentEnds(c)
    PROVE  SessionInv'
<1>1. UNCHANGED <<session, busy>> /\ pc[c] \in InSession /\ c \in Clients
  BY DEF EnterText, QueueForLock, LockGranted, Generate, GenerateEnds, CreateImage,
         CreateImageRequests, CreateImageEnds, AgentEnds, ReturnThen, At, Clients,
         InSession, HoldsLock, UsesLlm
<1>2. PICK p \in InSession : pc' = [pc EXCEPT ![c] = p]
  BY DEF EnterText, QueueForLock, LockGranted, Generate, GenerateEnds, CreateImage,
         CreateImageRequests, CreateImageEnds, AgentEnds, RequestThen, ReturnThen, Goto,
         InSession, HoldsLock, UsesLlm
<1> QED BY <1>1, <1>2, MovesOn

LEMMA ChatLeaves ==
    ASSUME SessionInv, NEW c \in Chats, AdmittedFails(c) \/ FinishChat(c) \/ Disconnect(c)
    PROVE  SessionInv'
<1>0. UNCHANGED session /\ c \in Clients /\ "leaving" \notin InSession /\ "done" \notin InSession
  BY DEF AdmittedFails, FinishChat, Disconnect, Clients, InSession, HoldsLock, UsesLlm
<1>1. PICK p \in {"leaving", "done"} : pc' = [pc EXCEPT ![c] = p]
  BY DEF AdmittedFails, FinishChat, Disconnect, RequestThen, ReturnThen, Goto
<1>2. CASE pc[c] = "leaving"
  <2>1. UNCHANGED busy
    BY <1>2 DEF AdmittedFails, FinishChat, Disconnect, At
  <2> QED BY <1>0, <1>1, <1>2, <2>1, MovesOn
<1>3. CASE pc[c] # "leaving"
  <2>1. busy' = busy \ {session[c]} /\ pc[c] \in InSession
    BY <1>3 DEF AdmittedFails, FinishChat, Disconnect, ReturnThen, At, Streaming, InSession
  <2> QED BY <1>0, <1>1, <2>1, LeavesSession
<1> QED BY <1>2, <1>3

LEMMA ImageKeeps ==
    ASSUME SessionInv, NEW i \in Images, ImageStep(i)
    PROVE  SessionInv'
<1>1. UNCHANGED <<session, busy>> /\ i \in Clients /\ i \notin Chats
  BY GpuClientsAssumption DEF ImageStep, EnterImage, FinishImage, Clients
<1>2. PICK p \in {"leaving", "done"} \union InSession : pc' = [pc EXCEPT ![i] = p]
  BY DEF ImageStep, EnterImage, FinishImage, RequestThen, ReturnThen, Goto, InSession,
         HoldsLock
<1> QED BY <1>1, <1>2, MovesOn

LEMMA SessionStep == SessionInv /\ [Next]_vars => SessionInv'
<1> SUFFICES ASSUME SessionInv, [Next]_vars
             PROVE  SessionInv'
  OBVIOUS
<1>1. ASSUME UNCHANGED <<pc, session, busy>>
      PROVE  SessionInv'
  BY <1>1 DEF SessionInv, SessionExact, Live
<1>2. CASE UNCHANGED vars
  BY <1>1, <1>2 DEF vars, clientVars
<1>3. CASE VramCritical \/ TimeStep \/ \E c \in Callers : UnloadStep(c)
  BY <1>1, <1>3 DEF VramCritical, TimeStep, UnloadStep, clientVars
<1>4. ASSUME NEW c \in Clients, PaintLoads(c)
      PROVE  SessionInv'
  BY <1>1, <1>4 DEF PaintLoads, clientVars
<1>5. ASSUME NEW c \in Chats,
             ChatStep(c) \/ AdmittedFails(c) \/ Generate(c) \/ CreateImage(c) \/ Disconnect(c)
      PROVE  SessionInv'
  BY <1>5, AdmitStep, ChatKeeps, ChatLeaves DEF ChatStep
<1> QED BY <1>2, <1>3, <1>4, <1>5, ImageKeeps DEF Next, Clients
-----------------------------------------------------------------------------
(***************************************************************************)
(* SESSION_BUSY is exact for any number of chats and sessions: two chats   *)
(* of one session never run together, and a session whose chat has failed, *)
(* ended or lost its client is free again (routers/chat.py 600-623,        *)
(* 1200-1217).                                                             *)
(***************************************************************************)
THEOREM SessionLockIsExact == Spec => []SessionExact
<1>1. Init => SessionInv
  BY DEF Init, SessionInv, SessionExact, Live, Clients, InSession, HoldsLock, UsesLlm
<1>2. SessionInv => SessionExact
  BY DEF SessionInv
<1> QED BY <1>1, <1>2, SessionStep, PTL DEF Spec
-----------------------------------------------------------------------------
(***************************************************************************)
(* The gpu lock.                                                           *)
(***************************************************************************)
\* The chats in the queue of the gpu lock.
Queued == {"queued"} \union HoldsLock

LockInv == lockQueue \in Seq(Chats) /\ LockExact

\* Appending what is not in a sequence without repetitions.
LEMMA AppendedOnce ==
    ASSUME NEW S, NEW q \in Seq(S), NEW c \in S, IsInjective(q), c \notin ToSet(q)
    PROVE  /\ Append(q, c) \in Seq(S) /\ IsInjective(Append(q, c))
           /\ ToSet(Append(q, c)) = ToSet(q) \union {c}
           /\ q # <<>> => Head(Append(q, c)) = Head(q)
<1> DEFINE r == Append(q, c)
<1>1. /\ r \in Seq(S) /\ Len(q) \in Nat /\ DOMAIN q = 1 .. Len(q) /\ DOMAIN r = 1 .. Len(q) + 1
      /\ \A k \in 1 .. Len(q) : r[k] = q[k]
      /\ r[Len(q) + 1] = c
  OBVIOUS
<1>2. \A k \in 1 .. Len(q) : q[k] # c
  BY <1>1 DEF ToSet
<1> HIDE DEF r
<1>3. IsInjective(r)
  <2> SUFFICES ASSUME NEW a \in DOMAIN r, NEW b \in DOMAIN r, r[a] = r[b] PROVE a = b
    BY DEF IsInjective
  <2> QED BY <1>1, <1>2 DEF IsInjective
<1>4. ToSet(r) = ToSet(q) \union {c}
  <2>1. ToSet(r) \subseteq ToSet(q) \union {c}
    BY <1>1 DEF ToSet
  <2>2. ToSet(q) \subseteq ToSet(r)
    BY <1>1 DEF ToSet
  <2>3. c \in ToSet(r)
    BY <1>1 DEF ToSet
  <2> QED BY <2>1, <2>2, <2>3
<1>5. q # <<>> => Head(r) = Head(q)
  BY <1>1
<1> QED BY <1>1, <1>3, <1>4, <1>5 DEF r

\* Taking one place out of such a sequence.
LEMMA RemovedOnce ==
    ASSUME NEW S, NEW q \in Seq(S), IsInjective(q), NEW n \in DOMAIN q
    PROVE  /\ RemoveAt(q, n) \in Seq(S) /\ IsInjective(RemoveAt(q, n))
           /\ ToSet(RemoveAt(q, n)) = ToSet(q) \ {q[n]}
           /\ n # 1 => Head(RemoveAt(q, n)) = Head(q)
<1> DEFINE r == RemoveAt(q, n)
           m == Len(q)
<1>1. /\ m \in Nat /\ DOMAIN q = 1 .. m /\ n \in 1 .. m /\ \A k \in 1 .. m : q[k] \in S
  OBVIOUS
<1>2. /\ r \in Seq(S) /\ DOMAIN r = 1 .. m - 1
      /\ \A k \in 1 .. m - 1 : r[k] = IF k < n THEN q[k] ELSE q[k + 1]
  <2> DEFINE u == SubSeq(q, 1, n - 1)
             v == SubSeq(q, n + 1, m)
  <2>1. /\ u \in Seq(S) /\ Len(u) = n - 1 /\ \A k \in 1 .. n - 1 : u[k] = q[k]
    BY <1>1
  <2>2. /\ v \in Seq(S) /\ Len(v) = m - n
    BY <1>1
  <2>3. \A k \in 1 .. m - n : v[k] = q[n + k]
    BY <1>1
  <2>4. r = u \o v
    BY DEF RemoveAt
  <2> HIDE DEF u, v, r, m
  <2>5. r \in Seq(S) /\ Len(r) = m - 1
    <3>1. r \in Seq(S)
      BY <2>1, <2>2, <2>4
    <3>2. u \in Seq(S) /\ v \in Seq(S)
      BY <2>1, <2>2
    <3>3. Len(u \o v) = Len(u) + Len(v)
      BY <3>2
    <3>4. Len(r) = (n - 1) + (m - n)
      BY <3>3, <2>1, <2>2, <2>4
    <3>5. n \in Int /\ m \in Int
      BY <1>1
    <3>6. (n - 1) + (m - n) = m - 1
      BY <3>5
    <3> QED BY <3>1, <3>4, <3>6
  <2>6. ASSUME NEW k \in 1 .. m - 1, k < n PROVE r[k] = q[k]
    <3>1. /\ u \in Seq(S) /\ v \in Seq(S) /\ Len(u) \in Nat
          /\ k \in 1 .. n - 1 /\ k >= 1 /\ k <= Len(u)
      BY <2>1, <2>2, <2>6, <1>1
    <3>2. (u \o v)[k] = u[k]
      BY <3>1
    <3> QED BY <3>1, <3>2, <2>1, <2>4
  <2>7. ASSUME NEW k \in 1 .. m - 1, ~(k < n) PROVE r[k] = q[k + 1]
    <3>1. k - (n - 1) \in 1 .. m - n /\ n + (k - (n - 1)) = k + 1
      BY <2>7, <1>1
    <3>2. r[k] = v[k - (n - 1)]
      <4>1. /\ u \in Seq(S) /\ v \in Seq(S) /\ Len(u) \in Nat
            /\ k \in Nat /\ k > Len(u) /\ k <= Len(u) + Len(v)
        BY <2>1, <2>2, <2>7, <1>1
      <4>2. (u \o v)[k] = v[k - Len(u)]
        BY <4>1
      <4> QED BY <4>2, <2>1, <2>4
    <3>3. v[k - (n - 1)] = q[n + (k - (n - 1))]
      BY <3>1, <2>3
    <3> QED BY <3>1, <3>2, <3>3
  <2>8. DOMAIN r = 1 .. m - 1
    BY <2>5, <1>1
  <2> QED BY <2>5, <2>6, <2>7, <2>8, <1>1
<1> HIDE DEF r, m
<1>3. IsInjective(r)
  <2> SUFFICES ASSUME NEW a \in 1 .. m - 1, NEW b \in 1 .. m - 1, r[a] = r[b] PROVE a = b
    BY <1>2 DEF IsInjective
  <2> DEFINE at(k) == IF k < n THEN k ELSE k + 1
  <2>1. at(a) \in DOMAIN q /\ at(b) \in DOMAIN q /\ q[at(a)] = q[at(b)]
    BY <1>1, <1>2
  <2>2. at(a) = at(b)
    BY <2>1 DEF IsInjective
  <2> QED BY <2>2, <1>1
<1>4. ToSet(r) = ToSet(q) \ {q[n]}
  <2>1. ASSUME NEW k \in 1 .. m - 1 PROVE r[k] \in ToSet(q) \ {q[n]}
    <3> DEFINE j == IF k < n THEN k ELSE k + 1
    <3>1. j \in DOMAIN q /\ j # n /\ r[k] = q[j]
      BY <1>1, <1>2
    <3> QED BY <3>1, <1>1 DEF IsInjective, ToSet
  <2>2. ASSUME NEW j \in 1 .. m, j # n PROVE q[j] \in ToSet(r)
    <3> DEFINE k == IF j < n THEN j ELSE j - 1
    <3>1. k \in 1 .. m - 1 /\ r[k] = q[j]
      BY <1>1, <1>2, <2>2
    <3> QED BY <3>1, <1>2 DEF ToSet
  <2> QED BY <1>1, <1>2, <2>1, <2>2 DEF ToSet
<1>5. n # 1 => Head(r) = Head(q)
  BY <1>1, <1>2
<1> QED BY <1>2, <1>3, <1>4, <1>5 DEF r

LEMMA HeadRemoved ==
    ASSUME NEW S, NEW q \in Seq(S), q # <<>> PROVE RemoveAt(q, 1) = Tail(q)
<1>1. Tail(q) = SubSeq(q, 2, Len(q)) /\ SubSeq(q, 1, 0) = <<>> /\ SubSeq(q, 2, Len(q)) \in Seq(S)
  OBVIOUS
<1>2. <<>> \o SubSeq(q, 2, Len(q)) = SubSeq(q, 2, Len(q))
  BY <1>1
<1> QED BY <1>1, <1>2 DEF RemoveAt

\* A request moves on while the queue stays as it is.
LEMMA LockKeeps ==
    ASSUME LockInv, pc \in [Clients -> {"new", "rejected", "leaving", "done"} \union InSession],
           NEW c \in Clients, NEW p, Goto(c, p), UNCHANGED lockQueue,
           c \in Chats => /\ p \in Queued <=> pc[c] \in Queued
                          /\ p \in HoldsLock => pc[c] \in HoldsLock \/ Head(lockQueue) = c
    PROVE  LockInv'
<1>1. /\ \A d \in Chats : pc'[d] \in Queued <=> pc[d] \in Queued
      /\ \A d \in Chats : pc'[d] \in HoldsLock => pc[d] \in HoldsLock \/ Head(lockQueue) = d
  BY DEF Goto, Clients
<1> QED BY <1>1 DEF LockInv, LockExact, Queued

\* A chat queues for the lock.
LEMMA LockQueued ==
    ASSUME LockInv, pc \in [Clients -> {"new", "rejected", "leaving", "done"} \union InSession],
           NEW c \in Chats, QueueForLock(c)
    PROVE  LockInv'
<1>1. /\ lockQueue \in Seq(Chats) /\ IsInjective(lockQueue) /\ c \in Clients
      /\ pc[c] \notin Queued /\ c \notin ToSet(lockQueue)
  BY DEF LockInv, LockExact, QueueForLock, At, Queued, HoldsLock, UsesLlm, Clients
<1>2. lockQueue' = Append(lockQueue, c)
  BY DEF QueueForLock
<1>3. /\ lockQueue' \in Seq(Chats) /\ IsInjective(lockQueue')
      /\ ToSet(lockQueue') = ToSet(lockQueue) \union {c}
      /\ lockQueue # <<>> => Head(lockQueue') = Head(lockQueue)
  BY <1>1, <1>2, AppendedOnce
<1>4. /\ pc'[c] = "queued" /\ \A d \in Clients \ {c} : pc'[d] = pc[d]
      /\ "queued" \notin HoldsLock
  BY <1>1 DEF QueueForLock, Goto, HoldsLock, UsesLlm
<1>5. {d \in Chats : pc'[d] \in Queued} = {d \in Chats : pc[d] \in Queued} \union {c}
  BY <1>1, <1>4 DEF Queued, Clients
<1>6. ASSUME NEW d \in Chats, pc'[d] \in HoldsLock PROVE Head(lockQueue') = d
  <2>1. d # c /\ pc[d] \in HoldsLock
    BY <1>4, <1>6 DEF Clients
  <2>2. d \in ToSet(lockQueue) /\ Head(lockQueue) = d
    BY <2>1 DEF LockInv, LockExact
  <2>3. lockQueue # <<>>
    BY <2>2 DEF ToSet
  <2> QED BY <1>3, <2>2, <2>3
<1> QED BY <1>3, <1>5, <1>6 DEF LockInv, LockExact, Queued

\* A chat that is in the queue leaves it.
LEMMA LockLeft ==
    ASSUME LockInv, pc \in [Clients -> {"new", "rejected", "leaving", "done"} \union InSession],
           NEW c \in Chats, NEW p, Goto(c, p), p \notin Queued,
           NEW n \in DOMAIN lockQueue, lockQueue[n] = c, lockQueue' = RemoveAt(lockQueue, n)
    PROVE  LockInv'
<1>1. /\ lockQueue \in Seq(Chats) /\ IsInjective(lockQueue) /\ c \in Clients
      /\ ToSet(lockQueue) = {d \in Chats : pc[d] \in Queued}
  BY DEF LockInv, LockExact, Queued, Clients
<1>2. /\ lockQueue' \in Seq(Chats) /\ IsInjective(lockQueue')
      /\ ToSet(lockQueue') = ToSet(lockQueue) \ {c}
      /\ n # 1 => Head(lockQueue') = Head(lockQueue)
  BY <1>1, RemovedOnce
<1>3. pc'[c] = p /\ \A d \in Clients \ {c} : pc'[d] = pc[d]
  BY <1>1 DEF Goto
<1>4. {d \in Chats : pc'[d] \in Queued} = {d \in Chats : pc[d] \in Queued} \ {c}
  BY <1>1, <1>3 DEF Clients
<1>5. ASSUME NEW d \in Chats, pc'[d] \in HoldsLock PROVE Head(lockQueue') = d
  <2>1. d # c /\ pc[d] \in HoldsLock
    BY <1>3, <1>5 DEF Clients, Queued
  <2>2. Head(lockQueue) = d
    BY <2>1 DEF LockInv, LockExact
  <2>3. n # 1
    BY <1>1, <2>1, <2>2
  <2> QED BY <1>2, <2>2, <2>3
<1> QED BY <1>1, <1>2, <1>4, <1>5 DEF LockInv, LockExact, Queued

\* The chat that has the lock gives it back.
LEMMA LockReleased ==
    ASSUME LockInv, pc \in [Clients -> {"new", "rejected", "leaving", "done"} \union InSession],
           NEW c \in Chats, AgentEnds(c)
    PROVE  LockInv'
<1>1. Head(lockQueue) = c /\ c \in ToSet(lockQueue) /\ lockQueue \in Seq(Chats)
  BY DEF LockInv, LockExact, AgentEnds, At, HoldsLock
<1>2. 1 \in DOMAIN lockQueue /\ lockQueue[1] = c /\ lockQueue # <<>>
  BY <1>1 DEF ToSet
<1>3. lockQueue' = RemoveAt(lockQueue, 1)
  BY <1>1, <1>2, HeadRemoved DEF AgentEnds
<1>4. Goto(c, "finishing") /\ "finishing" \notin Queued
  BY DEF AgentEnds, Queued, HoldsLock, UsesLlm
<1> QED BY <1>2, <1>3, <1>4, LockLeft

\* A client goes away, wherever its chat is.
LEMMA LockCutOff ==
    ASSUME LockInv, pc \in [Clients -> {"new", "rejected", "leaving", "done"} \union InSession],
           NEW c \in Chats, Disconnect(c)
    PROVE  LockInv'
<1>1. Goto(c, "done") /\ "done" \notin Queued /\ c \in Clients
  BY DEF Disconnect, Queued, HoldsLock, UsesLlm, Clients
<1>2. CASE c \notin ToSet(lockQueue) /\ UNCHANGED lockQueue
  <2>1. pc[c] \notin Queued
    BY <1>2 DEF LockInv, LockExact, Queued
  <2> QED BY <1>1, <1>2, <2>1, LockKeeps DEF Queued
<1>3. CASE \E n \in DOMAIN lockQueue : lockQueue[n] = c /\ lockQueue' = RemoveAt(lockQueue, n)
  BY <1>1, <1>3, LockLeft
<1> QED BY <1>2, <1>3 DEF Disconnect

\* The steps of a chat that keep its place in the queue, or outside it.
LEMMA ChatKeepsPlace ==
    ASSUME LockInv, pc \in [Clients -> {"new", "rejected", "leaving", "done"} \union InSession],
           NEW c \in Chats,
           \/ \E k \in Sessions : AdmitChat(c, k)
           \/ EnterText(c) \/ LockGranted(c) \/ Generate(c)
           \/ GenerateEnds(c) \/ CreateImage(c) \/ CreateImageRequests(c) \/ CreateImageEnds(c)
           \/ FinishChat(c) \/ AdmittedFails(c)
    PROVE  LockInv'
<1> USE DEF At, Queued, HoldsLock, UsesLlm
<1>1. c \in Clients /\ UNCHANGED lockQueue
  BY DEF AdmitChat, EnterText, LockGranted, Generate, GenerateEnds, CreateImage,
         CreateImageRequests, CreateImageEnds, FinishChat, AdmittedFails, Clients
<1>2. CASE (\E k \in Sessions : AdmitChat(c, k)) \/ EnterText(c) \/ FinishChat(c) \/ AdmittedFails(c)
  <2>1. PICK p \in {"rejected", "admitted", "entering", "started", "leaving", "done"} : Goto(c, p)
    BY <1>2 DEF AdmitChat, EnterText, RequestThen, ReturnThen, FinishChat, AdmittedFails
  <2>2. pc[c] \notin Queued
    BY <1>2 DEF AdmitChat, EnterText, ReturnThen, FinishChat, AdmittedFails
  <2> QED BY <1>1, <2>1, <2>2, LockKeeps
<1>3. CASE \/ LockGranted(c) \/ Generate(c) \/ GenerateEnds(c) \/ CreateImage(c)
           \/ CreateImageRequests(c) \/ CreateImageEnds(c)
  <2>1. PICK p \in HoldsLock : Goto(c, p)
    BY <1>3 DEF LockGranted, Generate, GenerateEnds, CreateImage, CreateImageRequests,
                CreateImageEnds, RequestThen, ReturnThen
  <2>2. pc[c] \in HoldsLock \/ (pc[c] = "queued" /\ Head(lockQueue) = c)
    BY <1>3 DEF LockGranted, Generate, GenerateEnds, CreateImage, CreateImageRequests,
                CreateImageEnds, ReturnThen
  <2> HIDE DEF HoldsLock
  <2> QED BY <1>1, <2>1, <2>2, LockKeeps
<1> QED BY <1>2, <1>3

LEMMA ImageKeepsLock ==
    ASSUME LockInv, pc \in [Clients -> {"new", "rejected", "leaving", "done"} \union InSession],
           NEW i \in Images, ImageStep(i)
    PROVE  LockInv'
<1>1. UNCHANGED lockQueue /\ i \in Clients /\ i \notin Chats
  BY GpuClientsAssumption DEF ImageStep, EnterImage, FinishImage, Clients
<1>2. \E p : Goto(i, p)
  BY DEF ImageStep, EnterImage, FinishImage, RequestThen, ReturnThen
<1> QED BY <1>1, <1>2, LockKeeps

LEMMA LockStep ==
    ASSUME LockInv, pc \in [Clients -> {"new", "rejected", "leaving", "done"} \union InSession],
           [Next]_vars
    PROVE  LockInv'
<1>1. ASSUME UNCHANGED <<pc, lockQueue>>
      PROVE  LockInv'
  BY <1>1 DEF LockInv, LockExact
<1>2. CASE UNCHANGED vars
  BY <1>1, <1>2 DEF vars, clientVars
<1>3. CASE VramCritical \/ TimeStep \/ \E c \in Callers : UnloadStep(c)
  BY <1>1, <1>3 DEF VramCritical, TimeStep, UnloadStep, clientVars
<1>4. ASSUME NEW c \in Clients, PaintLoads(c)
      PROVE  LockInv'
  BY <1>1, <1>4 DEF PaintLoads, clientVars
<1>5. ASSUME NEW c \in Chats,
             ChatStep(c) \/ AdmittedFails(c) \/ Generate(c) \/ CreateImage(c) \/ Disconnect(c)
      PROVE  LockInv'
  BY <1>5, LockQueued, LockReleased, LockCutOff, ChatKeepsPlace DEF ChatStep
<1> QED BY <1>2, <1>3, <1>4, <1>5, ImageKeepsLock DEF Next, Clients
-----------------------------------------------------------------------------
(***************************************************************************)
(* The FSM's variables keep their types under its clients.                 *)
(***************************************************************************)
\* Requests and their ends are steps of the FSM.
LEMMA FsmStepKeepsTypes ==
    ASSUME FsmTypeOK,
           \/ \E c \in Callers, t \in States : RequestStateChange(c, t, FALSE)
           \/ \E c \in Callers : RequestStateChange(c, "IDLE", TRUE)
           \/ \E c \in Callers : UnloadEffect(c) \/ FinishCall(c)
           \/ CooldownElapses
           \/ UNCHANGED fsmVars
    PROVE  FsmTypeOK'
BY FsmTypeStep DEF FsmNext

LEMMA ClientsKeepFsmTypes ==
    ASSUME FsmTypeOK, [Next]_vars
    PROVE  FsmTypeOK'
<1>1. /\ "IDLE" \in States /\ "TEXT" \in States /\ "IMAGE" \in States
      /\ Chats \subseteq Callers /\ Images \subseteq Callers /\ "watchdog" \in Callers
  BY GpuClientsAssumption DEF States
<1>2. ASSUME NEW c \in Chats, ChatStep(c) \/ AdmittedFails(c) \/ CreateImage(c) \/ Disconnect(c)
      PROVE  FsmTypeOK'
  <2>1. CASE \/ UNCHANGED fsmVars \/ FinishCall(c)
             \/ \E t \in {"IDLE", "TEXT", "IMAGE"} : RequestStateChange(c, t, FALSE)
    BY <1>1, <2>1, FsmStepKeepsTypes
  <2>2. CASE GenerateEnds(c)
    BY <2>2 DEF GenerateEnds, FsmTypeOK
  <2>3. CASE call' = [call EXCEPT ![c] = NoCall] /\ UNCHANGED <<current_state, cooling, models>>
    BY <2>3 DEF FsmTypeOK
  <2> QED BY <1>2, <2>1, <2>2, <2>3
          DEF ChatStep, AdmitChat, EnterText, QueueForLock, LockGranted, CreateImageRequests,
              CreateImageEnds, AgentEnds, FinishChat, AdmittedFails, CreateImage, Disconnect,
              RequestThen, ReturnThen
<1>3. ASSUME NEW i \in Images, ImageStep(i)
      PROVE  FsmTypeOK'
  BY <1>1, <1>3, FsmStepKeepsTypes DEF ImageStep, EnterImage, FinishImage, RequestThen, ReturnThen
<1>4. ASSUME NEW c \in Clients, Generate(c) \/ PaintLoads(c)
      PROVE  FsmTypeOK'
  BY <1>4 DEF Generate, PaintLoads, FsmTypeOK, Models
<1>5. CASE VramCritical \/ TimeStep \/ (\E c \in Callers : UnloadStep(c)) \/ UNCHANGED vars
  BY <1>1, <1>5, FsmStepKeepsTypes DEF VramCritical, TimeStep, UnloadStep, vars
<1> QED BY <1>2, <1>3, <1>4, <1>5 DEF Next, Clients
-----------------------------------------------------------------------------
ClientsInv == SessionInv /\ LockInv /\ FsmTypeOK

LEMMA ClientsStep == ClientsInv /\ [Next]_vars => ClientsInv'
BY SessionStep, LockStep, ClientsKeepFsmTypes DEF ClientsInv, SessionInv

LEMMA ClientsInit == Init => ClientsInv
<1> SUFFICES ASSUME Init PROVE ClientsInv
  OBVIOUS
<1>1. SessionInv
  BY DEF Init, SessionInv, SessionExact, Live, Clients, InSession, HoldsLock, UsesLlm
<1>2. LockInv
  <2>1. \A c \in Chats : pc[c] = "new"
    BY DEF Init, Clients
  <2>2. ToSet(lockQueue) = {} /\ IsInjective(lockQueue) /\ lockQueue \in Seq(Chats)
    BY DEF Init, ToSet, IsInjective
  <2> QED BY <2>1, <2>2 DEF LockInv, LockExact, HoldsLock, UsesLlm
<1>3. FsmTypeOK
  BY DEF Init, FsmInit, FsmTypeOK, States, Models
<1> QED BY <1>1, <1>2, <1>3 DEF ClientsInv

(***************************************************************************)
(* The types of the clients' variables.                                    *)
(***************************************************************************)
THEOREM ClientsTypeCorrect == Spec => []TypeOK
<1>1. ClientsInv => TypeOK
  BY DEF ClientsInv, SessionInv, LockInv, TypeOK
<1> QED BY <1>1, ClientsInit, ClientsStep, PTL DEF Spec

(***************************************************************************)
(* The gpu lock is exact for any number of chats: its queue holds those    *)
(* that wait for it or have it, each once, and the one that has it is at   *)
(* its head, whoever fails or goes away (core/orchestrator.py 257-266,     *)
(* routers/chat.py 930).                                                   *)
(***************************************************************************)
THEOREM GpuLockIsExact == Spec => []LockExact
<1>1. ClientsInv => LockExact
  BY DEF ClientsInv, LockInv
<1> QED BY <1>1, ClientsInit, ClientsStep, PTL DEF Spec
-----------------------------------------------------------------------------
(***************************************************************************)
(* The gpu lock implements FairLock.                                       *)
(***************************************************************************)
Held == \E c \in Chats : pc[c] \in HoldsLock

LEMMA HolderIsAlone ==
    ASSUME LockInv, NEW c \in Chats, pc[c] \in HoldsLock
    PROVE  /\ Head(lockQueue) = c /\ lockQueue # <<>>
           /\ \A d \in Chats \ {c} : pc[d] \notin HoldsLock
BY DEF LockInv, LockExact, ToSet

\* A client moves on without taking or leaving the lock.
LEMMA HeldStays ==
    ASSUME pc \in [Clients -> {"new", "rejected", "leaving", "done"} \union InSession],
           NEW c \in Clients, NEW p, Goto(c, p),
           c \in Chats => (p \in HoldsLock <=> pc[c] \in HoldsLock)
    PROVE  Held' <=> Held
BY DEF Held, Goto, Clients

LEMMA FairLockStep ==
    ASSUME ClientsInv, [Next]_vars
    PROVE  \/ UNCHANGED lockQueue /\ (Held' <=> Held)
           \/ ~Held /\ lockQueue # <<>> /\ Held' /\ UNCHANGED lockQueue
           \/ Held /\ ~Held' /\ lockQueue' = Tail(lockQueue)
           \/ \E c \in Chats : /\ c \notin ToSet(lockQueue) /\ (Held' <=> Held)
                               /\ lockQueue' = Append(lockQueue, c)
           \/ \E n \in DOMAIN lockQueue : /\ Held => n # 1
                                          /\ lockQueue' = RemoveAt(lockQueue, n) /\ (Held' <=> Held)
<1>0. /\ LockInv /\ pc \in [Clients -> {"new", "rejected", "leaving", "done"} \union InSession]
      /\ lockQueue \in Seq(Chats) /\ IsInjective(lockQueue)
  BY DEF ClientsInv, SessionInv, LockInv, LockExact
<1>1. ASSUME UNCHANGED <<pc, lockQueue>>
      PROVE  UNCHANGED lockQueue /\ (Held' <=> Held)
  BY <1>1 DEF Held
<1>2. CASE UNCHANGED vars
  BY <1>1, <1>2 DEF vars, clientVars
<1>3. CASE VramCritical \/ TimeStep \/ \E c \in Callers : UnloadStep(c)
  BY <1>1, <1>3 DEF VramCritical, TimeStep, UnloadStep, clientVars
<1>4. ASSUME NEW c \in Clients, PaintLoads(c)
      PROVE  UNCHANGED lockQueue /\ (Held' <=> Held)
  BY <1>1, <1>4 DEF PaintLoads, clientVars
<1>5. ASSUME NEW i \in Images, ImageStep(i)
      PROVE  UNCHANGED lockQueue /\ (Held' <=> Held)
  <2>1. UNCHANGED lockQueue /\ i \in Clients /\ i \notin Chats
    BY <1>5, GpuClientsAssumption DEF ImageStep, EnterImage, FinishImage, Clients
  <2>2. \E p : Goto(i, p)
    BY <1>5 DEF ImageStep, EnterImage, FinishImage, RequestThen, ReturnThen
  <2> QED BY <1>0, <2>1, <2>2, HeldStays
<1>6. ASSUME NEW c \in Chats,
             \/ (\E k \in Sessions : AdmitChat(c, k)) \/ EnterText(c) \/ FinishChat(c) \/ AdmittedFails(c)
             \/ Generate(c) \/ GenerateEnds(c) \/ CreateImage(c)
             \/ CreateImageRequests(c) \/ CreateImageEnds(c)
      PROVE  UNCHANGED lockQueue /\ (Held' <=> Held)
  <2>1. c \in Clients /\ UNCHANGED lockQueue
    BY <1>6 DEF AdmitChat, EnterText, Generate, GenerateEnds, CreateImage,
                CreateImageRequests, CreateImageEnds, FinishChat, AdmittedFails, Clients
  <2>2. CASE (\E k \in Sessions : AdmitChat(c, k)) \/ EnterText(c) \/ FinishChat(c) \/ AdmittedFails(c)
    <3>1. PICK p \in {"rejected", "admitted", "entering", "started", "leaving", "done"} : Goto(c, p)
      BY <2>2 DEF AdmitChat, EnterText, RequestThen, ReturnThen, FinishChat, AdmittedFails
    <3>2. pc[c] \notin HoldsLock /\ p \notin HoldsLock
      BY <2>2 DEF AdmitChat, EnterText, ReturnThen, FinishChat, AdmittedFails, At, HoldsLock, UsesLlm
    <3> QED BY <1>0, <2>1, <3>1, <3>2, HeldStays
  <2>3. CASE \/ Generate(c) \/ GenerateEnds(c) \/ CreateImage(c)
             \/ CreateImageRequests(c) \/ CreateImageEnds(c)
    <3>1. PICK p \in HoldsLock : Goto(c, p)
      BY <2>3 DEF Generate, GenerateEnds, CreateImage, CreateImageRequests, CreateImageEnds,
                  RequestThen, ReturnThen, HoldsLock, UsesLlm
    <3>2. pc[c] \in HoldsLock
      BY <2>3 DEF Generate, GenerateEnds, CreateImage, CreateImageRequests, CreateImageEnds,
                  ReturnThen, At, HoldsLock, UsesLlm
    <3> QED BY <1>0, <2>1, <3>1, <3>2, HeldStays
  <2> QED BY <1>6, <2>2, <2>3
<1>7. ASSUME NEW c \in Chats, LockGranted(c)
      PROVE  lockQueue # <<>> /\ Held' /\ UNCHANGED lockQueue
  <2>1. c \in ToSet(lockQueue)
    BY <1>0, <1>7 DEF LockGranted, At, LockInv, LockExact
  <2>2. Held'
    BY <1>0, <1>7 DEF LockGranted, Goto, Held, HoldsLock, Clients
  <2> QED BY <1>7, <2>1, <2>2 DEF LockGranted, ToSet
<1>8. ASSUME NEW c \in Chats, QueueForLock(c)
      PROVE  c \notin ToSet(lockQueue) /\ (Held' <=> Held) /\ lockQueue' = Append(lockQueue, c)
  <2>1. pc[c] = "started" /\ Goto(c, "queued") /\ lockQueue' = Append(lockQueue, c) /\ c \in Clients
    BY <1>8 DEF QueueForLock, At, Clients
  <2>2. "queued" \notin HoldsLock /\ "started" \notin HoldsLock
    BY DEF HoldsLock, UsesLlm
  <2>3. Held' <=> Held
    BY <1>0, <2>1, <2>2, HeldStays
  <2> QED BY <1>0, <2>1, <2>2, <2>3 DEF LockInv, LockExact
<1>9. ASSUME NEW c \in Chats, pc[c] \in HoldsLock, NEW p, p \notin HoldsLock, Goto(c, p)
      PROVE  Held /\ ~Held'
  BY <1>0, <1>9, HolderIsAlone DEF Held, Goto, Clients
<1>10. ASSUME NEW c \in Chats, AgentEnds(c)
       PROVE  Held /\ ~Held' /\ lockQueue' = Tail(lockQueue)
  <2>1. pc[c] \in HoldsLock /\ Goto(c, "finishing") /\ "finishing" \notin HoldsLock
    BY <1>10 DEF AgentEnds, At, HoldsLock, UsesLlm
  <2> QED BY <1>9, <1>10, <2>1 DEF AgentEnds
<1>11. ASSUME NEW c \in Chats, Disconnect(c)
       PROVE  \/ UNCHANGED lockQueue /\ (Held' <=> Held)
              \/ Held /\ ~Held' /\ lockQueue' = Tail(lockQueue)
              \/ \E n \in DOMAIN lockQueue : /\ Held => n # 1
                                             /\ lockQueue' = RemoveAt(lockQueue, n) /\ (Held' <=> Held)
  <2>1. Goto(c, "done") /\ "done" \notin HoldsLock /\ c \in Clients
    BY <1>11 DEF Disconnect, HoldsLock, UsesLlm, Clients
  <2>2. CASE c \notin ToSet(lockQueue) /\ UNCHANGED lockQueue
    BY <1>0, <2>1, <2>2, HeldStays DEF LockInv, LockExact
  <2>3. ASSUME NEW n \in DOMAIN lockQueue, lockQueue[n] = c, lockQueue' = RemoveAt(lockQueue, n),
               pc[c] \in HoldsLock
        PROVE  Held /\ ~Held' /\ lockQueue' = Tail(lockQueue)
    <3>1. Head(lockQueue) = c /\ lockQueue # <<>>
      BY <1>0, <2>3, HolderIsAlone
    <3>2. n = 1
      BY <1>0, <2>3, <3>1 DEF IsInjective
    <3> QED BY <1>0, <1>9, <2>1, <2>3, <3>1, <3>2, HeadRemoved
  <2>4. ASSUME NEW n \in DOMAIN lockQueue, lockQueue[n] = c, lockQueue' = RemoveAt(lockQueue, n),
               pc[c] \notin HoldsLock
        PROVE  (Held => n # 1) /\ (Held' <=> Held)
    <3>1. ASSUME Held PROVE n # 1
      <4>1. PICK d \in Chats : pc[d] \in HoldsLock
        BY <3>1 DEF Held
      <4>2. Head(lockQueue) = d /\ d # c
        BY <1>0, <2>4, <4>1, HolderIsAlone
      <4> QED BY <1>0, <2>4, <4>2
    <3> QED BY <1>0, <2>1, <2>4, <3>1, HeldStays
  <2> QED BY <1>11, <2>2, <2>3, <2>4 DEF Disconnect
<1>12. ASSUME NEW c \in Chats,
              ChatStep(c) \/ AdmittedFails(c) \/ Generate(c) \/ CreateImage(c) \/ Disconnect(c)
       PROVE  \/ UNCHANGED lockQueue /\ (Held' <=> Held)
              \/ ~Held /\ lockQueue # <<>> /\ Held' /\ UNCHANGED lockQueue
              \/ Held /\ ~Held' /\ lockQueue' = Tail(lockQueue)
              \/ \E d \in Chats : /\ d \notin ToSet(lockQueue) /\ (Held' <=> Held)
                                  /\ lockQueue' = Append(lockQueue, d)
              \/ \E n \in DOMAIN lockQueue : /\ Held => n # 1
                                             /\ lockQueue' = RemoveAt(lockQueue, n) /\ (Held' <=> Held)
  BY <1>6, <1>7, <1>8, <1>10, <1>11, <1>12, Zenon DEF ChatStep
<1> QED BY <1>2, <1>3, <1>4, <1>5, <1>12, Zenon DEF Next, Clients

(***************************************************************************)
(* The gpu lock is an asyncio.Lock for any number of chats: taken by one   *)
(* agent at a time, in the order in which run_agent asked for it, freed    *)
(* however an agent or its client ends (core/orchestrator.py 257-266,      *)
(* routers/chat.py 930).                                                   *)
(***************************************************************************)
THEOREM GpuLockRefinesFairLock == Spec => GpuLockIsFair
<1>1. Init => GpuLock!Init
  <2> SUFFICES ASSUME Init PROVE lockQueue = <<>> /\ ~Held
    BY DEF GpuLock!Init, Held
  <2> QED BY DEF Init, Held, Clients, HoldsLock, UsesLlm
<1>2. ASSUME ClientsInv, [Next]_vars PROVE [GpuLock!Next]_(GpuLock!lockVars)
  <2>1. \A q, x : /\ GpuLock!ToSet(q) = ToSet(q)
                  /\ GpuLock!RemoveAt(q, x) = RemoveAt(q, x)
    BY DEF GpuLock!ToSet, ToSet, GpuLock!RemoveAt, RemoveAt
  <2>2. CASE UNCHANGED lockQueue /\ (Held' <=> Held)
    BY <2>2 DEF GpuLock!lockVars, Held
  <2>3. CASE ~Held /\ lockQueue # <<>> /\ Held' /\ UNCHANGED lockQueue
    BY <2>3 DEF GpuLock!Next, GpuLock!Grant, Held
  <2>4. CASE Held /\ ~Held' /\ lockQueue' = Tail(lockQueue)
    BY <2>4 DEF GpuLock!Next, GpuLock!Release, Held
  <2>5. CASE \E c \in Chats : /\ c \notin ToSet(lockQueue) /\ (Held' <=> Held)
                             /\ lockQueue' = Append(lockQueue, c)
    BY <2>1, <2>5 DEF GpuLock!Next, GpuLock!Ask, Held
  <2>6. CASE \E n \in DOMAIN lockQueue : /\ Held => n # 1
                                        /\ lockQueue' = RemoveAt(lockQueue, n) /\ (Held' <=> Held)
    BY <2>1, <2>6 DEF GpuLock!Next, GpuLock!GiveUp, Held
  <2> QED BY <1>2, <2>2, <2>3, <2>4, <2>5, <2>6, FairLockStep, Zenon
<1> QED BY <1>1, <1>2, ClientsInit, ClientsStep, PTL DEF Spec, GpuLockIsFair, GpuLock!Spec
-----------------------------------------------------------------------------
(***************************************************************************)
(* The clients and their calls.                                            *)
(***************************************************************************)
Waits == {"entering", "toolwait", "leaving"}

(***************************************************************************)
(* A request is suspended in an unload exactly while its client waits for  *)
(* it: a client that failed, went on or went away leaves no request behind *)
(* that would move the FSM later, and none waits for one that is over.     *)
(***************************************************************************)
CallExact == \A c \in Clients : call[c] # NoCall <=> pc[c] \in Waits

LEMMA CallsOfOthers ==
    ASSUME FsmTypeOK, NEW c \in Callers,
           \/ \E t \in States, f \in BOOLEAN : RequestStateChange(c, t, f)
           \/ FinishCall(c)
           \/ UnloadEffect(c)
    PROVE  \A d \in Callers : d # c \/ UnloadEffect(c) => (call'[d] = NoCall <=> call[d] = NoCall)
<1>1. ASSUME NEW t \in States, NEW f \in BOOLEAN, RequestStateChange(c, t, f)
      PROVE  \A d \in Callers \ {c} : call'[d] = call[d]
  BY <1>1 DEF RequestStateChange, Refuse, SwitchAtOnce, BeginUnload, fsmVars, FsmTypeOK
<1>2. CASE FinishCall(c)
  BY <1>2 DEF FinishCall, UnloadEffect, FsmTypeOK
<1>3. CASE UnloadEffect(c)
  <2>1. call[c] \in CallRecords /\ call[c] # NoCall
    BY <1>3 DEF UnloadEffect, FsmTypeOK
  <2>2. [call[c] EXCEPT !.phase = "unloaded"] \in CallRecords
    BY <2>1 DEF CallRecords
  <2>3. call' = [call EXCEPT ![c] = [call[c] EXCEPT !.phase = "unloaded"]]
    BY <1>3 DEF UnloadEffect
  <2> QED BY <2>1, <2>2, <2>3, OrchestratorAssumption DEF FsmTypeOK
<1>4. ASSUME NEW t \in States, NEW f \in BOOLEAN, RequestStateChange(c, t, f)
      PROVE  ~UnloadEffect(c)
  BY <1>4 DEF RequestStateChange, UnloadEffect
<1> QED BY <1>1, <1>2, <1>3, <1>4

\* A client moves on to p; what it has suspended then is what p says.
LEMMA CallFollows ==
    ASSUME CallExact, pc \in [Clients -> {"new", "rejected", "leaving", "done"} \union InSession],
           NEW c \in Clients, NEW p, Goto(c, p),
           \A d \in Clients \ {c} : call'[d] = NoCall <=> call[d] = NoCall,
           call'[c] # NoCall <=> p \in Waits
    PROVE  CallExact'
BY DEF CallExact, Goto

LEMMA CallRequested ==
    ASSUME ClientsInv, CallExact, NEW c \in Clients, NEW t \in States, NEW w \in Waits, NEW p,
           p \notin Waits, RequestThen(c, t, w, p) \/ ReturnThen(c, w, p)
    PROVE  CallExact'
<1>0. /\ FsmTypeOK /\ pc \in [Clients -> {"new", "rejected", "leaving", "done"} \union InSession]
      /\ Clients \subseteq Callers
  BY GpuClientsAssumption DEF ClientsInv, SessionInv, Clients
<1>1. CASE RequestThen(c, t, w, p)
  <2>1. RequestStateChange(c, t, FALSE) /\ Goto(c, IF call'[c] = NoCall THEN p ELSE w)
    BY <1>1 DEF RequestThen
  <2>2. \A d \in Clients \ {c} : call'[d] = NoCall <=> call[d] = NoCall
    BY <1>0, <2>1, CallsOfOthers
  <2> QED BY <1>0, <2>1, <2>2, CallFollows
<1>2. CASE ReturnThen(c, w, p)
  <2>1. FinishCall(c) /\ Goto(c, p)
    BY <1>2 DEF ReturnThen
  <2>2. \A d \in Clients \ {c} : call'[d] = NoCall <=> call[d] = NoCall
    BY <1>0, <2>1, CallsOfOthers
  <2>3. call'[c] = NoCall
    BY <1>0, <2>1 DEF FinishCall, FsmTypeOK
  <2> QED BY <1>0, <2>1, <2>2, <2>3, CallFollows
<1> QED BY <1>1, <1>2

LEMMA CallStep ==
    ASSUME ClientsInv, CallExact, [Next]_vars
    PROVE  CallExact'
<1>0. /\ FsmTypeOK /\ pc \in [Clients -> {"new", "rejected", "leaving", "done"} \union InSession]
      /\ Clients \subseteq Callers /\ "watchdog" \in Callers \ Clients
      /\ {"IDLE", "TEXT", "IMAGE"} \subseteq States
  BY GpuClientsAssumption DEF ClientsInv, SessionInv, Clients, States, Goto
<1>1. ASSUME UNCHANGED pc, \A d \in Clients : call'[d] = NoCall <=> call[d] = NoCall
      PROVE  CallExact'
  BY <1>1 DEF CallExact
<1>2. CASE UNCHANGED vars \/ TimeStep
  BY <1>1, <1>2 DEF vars, fsmVars, clientVars, TimeStep, CooldownElapses
<1>3. ASSUME NEW c \in Callers, UnloadStep(c)
      PROVE  CallExact'
  BY <1>0, <1>1, <1>3, CallsOfOthers DEF UnloadStep, clientVars
<1>4. CASE VramCritical
  BY <1>0, <1>1, <1>4, CallsOfOthers DEF VramCritical, clientVars
<1>5. ASSUME NEW c \in Clients, PaintLoads(c)
      PROVE  CallExact'
  BY <1>1, <1>5 DEF PaintLoads, clientVars
<1>6. ASSUME NEW c \in Chats, EnterText(c)
      PROVE  CallExact'
  BY <1>0, <1>6, CallRequested DEF EnterText, Waits, Clients
<1>7. ASSUME NEW c \in Chats, FinishChat(c)
      PROVE  CallExact'
  BY <1>0, <1>7, CallRequested DEF FinishChat, Waits, Clients
<1>8. ASSUME NEW i \in Images, ImageStep(i)
      PROVE  CallExact'
  BY <1>0, <1>8, CallRequested DEF ImageStep, EnterImage, FinishImage, Waits, Clients
<1>9. ASSUME NEW c \in Clients, NEW p, Goto(c, p), p \notin Waits, pc[c] \notin Waits, UNCHANGED call
      PROVE  CallExact'
  <2>1. call'[c] = NoCall
    BY <1>9 DEF CallExact
  <2> QED BY <1>0, <1>9, <2>1, CallFollows
<1>10. ASSUME NEW c \in Chats, CreateImageRequests(c)
       PROVE  CallExact'
  <2>1. CASE At(c, "toolskip") /\ Goto(c, "painting") /\ UNCHANGED fsmVars
    BY <1>9, <2>1 DEF At, Waits, fsmVars, Clients
  <2> QED BY <1>0, <1>10, <2>1, CallRequested DEF CreateImageRequests, Waits, Clients
<1>11. ASSUME NEW c \in Chats,
              \/ \E k \in Sessions : AdmitChat(c, k)
              \/ QueueForLock(c) \/ LockGranted(c) \/ Generate(c) \/ GenerateEnds(c) \/ CreateImage(c)
              \/ CreateImageEnds(c) \/ AgentEnds(c) \/ AdmittedFails(c)
       PROVE  CallExact'
  <2>1. PICK p \in {"rejected", "admitted", "queued", "agent", "generating", "unloading", "tool",
                    "toolskip", "finishing", "done"} : Goto(c, p)
    BY <1>11 DEF AdmitChat, QueueForLock, LockGranted, Generate, GenerateEnds, CreateImage,
                 CreateImageEnds, AgentEnds, AdmittedFails
  <2>2. pc[c] \notin Waits /\ UNCHANGED call /\ p \notin Waits /\ c \in Clients
    BY <1>11 DEF AdmitChat, QueueForLock, LockGranted, Generate, GenerateEnds, CreateImage,
                 CreateImageEnds, AgentEnds, AdmittedFails, At, fsmVars, Waits, Clients
  <2> QED BY <1>9, <2>1, <2>2
<1>12. ASSUME NEW c \in Chats, Disconnect(c)
       PROVE  CallExact'
  <2>1. Goto(c, "done") /\ "done" \notin Waits /\ c \in Clients
    BY <1>12 DEF Disconnect, Waits, Clients
  <2>2. call'[c] = NoCall /\ \A d \in Clients \ {c} : call'[d] = call[d]
    BY <1>0, <1>12, <2>1 DEF Disconnect, fsmVars, FsmTypeOK
  <2> QED BY <1>0, <2>1, <2>2, CallFollows
<1>13. ASSUME NEW c \in Chats,
              ChatStep(c) \/ AdmittedFails(c) \/ Generate(c) \/ CreateImage(c) \/ Disconnect(c)
       PROVE  CallExact'
  BY <1>6, <1>7, <1>10, <1>11, <1>12, <1>13, Zenon DEF ChatStep
<1> QED BY <1>2, <1>3, <1>4, <1>5, <1>8, <1>13, Zenon DEF Next, Clients

\* The calls of the FSM and the places of the clients agree, for any chats and
\* images, through failures, disconnects and the kill switch.
THEOREM NoOrphanedCall == Spec => []CallExact
<1>1. Init => CallExact
  BY GpuClientsAssumption DEF Init, FsmInit, CallExact, Clients, Waits
<1> QED BY <1>1, ClientsInit, ClientsStep, CallStep, PTL DEF Spec
=============================================================================
