-------------------------------- MODULE Relay --------------------------------
(***************************************************************************)
(* VTuberRelayService (services/vtuber_relay.py): texts are queued, and    *)
(* three tasks on one event loop dial the avatar, ping it and send it the  *)
(* texts sentence by sentence.  They share the websocket and the status;   *)
(* every await is a place where another task runs.  A timer sends an empty *)
(* frame ten seconds after the last complete text.  Unless the settings    *)
(* allow speech (by default they do not) nothing is sent: texts are taken  *)
(* from the queue and dropped.                                             *)
(***************************************************************************)
EXTENDS Naturals, Sequences, FiniteSets, SequencesExt

CONSTANTS Speeches,    \* texts, each queued once
          Sentences,   \* [Speeches -> how many sentences it is split into; none if it is blank]
          CardLimit,   \* how many of them are sent (10 in the code)
          NoSpeech,    \* the send loop holds no text
          MaxDials,    \* bound on connections
          MaxStarts    \* bound on starts of the service

ASSUME RelayAssumption ==
    /\ Sentences \in [Speeches -> Nat] /\ CardLimit \in Nat \ {0} /\ NoSpeech \notin Speeches
    /\ MaxDials \in Nat /\ MaxStarts \in Nat

VARIABLES edgeTts,   \* allow_edge_tts(): a setting, read once per process
          running,   \* _is_running, and with it the three tasks
          starts,    \* starts so far
          waiting,   \* _message_queue
          socket,    \* _websocket: the number of its connection, 0 for None
          linked,    \* _status is CONNECTED
          dialing,   \* connect() waits for its websocket
          dials,     \* connections so far
          broken,    \* connections that are dead
          pinging,   \* the connection a ping was sent on, 0 for none
          inHand,    \* the text that is being sent
          said,      \* its sentences that were sent
          timers,    \* armed subtitle timers
          spoken,    \* history: the sentences sent of each text, in order
          accepted,  \* history: texts that send_message took
          cut        \* history: texts that a stop or a dead connection cut off

relayVars == <<edgeTts, running, starts, waiting, socket, linked, dialing, dials, broken, pinging,
               inHand, said, timers, spoken, accepted, cut>>

RelayInit ==
    /\ edgeTts \in BOOLEAN
    /\ running = FALSE /\ starts = 0 /\ waiting = <<>> /\ socket = 0 /\ linked = FALSE
    /\ dialing = FALSE /\ dials = 0 /\ broken = {} /\ pinging = 0
    /\ inHand = NoSpeech /\ said = 0 /\ timers = 0
    /\ spoken = [m \in Speeches |-> <<>>] /\ accepted = {} /\ cut = {}

link == <<edgeTts, socket, linked, dialing, dials, broken, pinging>>
speech == <<inHand, said>>
history == <<spoken, accepted, cut>>

\* is_connected and self._websocket.
Reachable == linked /\ socket # 0

\* The sentences of a text that are to be sent, and whether there is anything
\* to send at all.
Cards(m) == IF Sentences[m] > CardLimit THEN CardLimit ELSE Sentences[m]
Sayable(m) == edgeTts /\ Cards(m) > 0
-----------------------------------------------------------------------------
\* start(): a new queue, whatever the old one holds.
RelayStarts ==
    /\ ~running /\ starts < MaxStarts
    /\ running' = TRUE /\ starts' = starts + 1
    /\ waiting' = <<>>
    /\ cut' = cut \union ToSet(waiting)
    /\ UNCHANGED <<link, speech, timers, spoken, accepted>>

\* disconnect(): the tasks are cancelled wherever they wait.
RelayStops ==
    /\ running
    /\ running' = FALSE
    /\ socket' = 0 /\ linked' = FALSE /\ dialing' = FALSE /\ pinging' = 0
    /\ inHand' = NoSpeech /\ said' = 0
    /\ cut' = IF inHand = NoSpeech THEN cut ELSE cut \union {inHand}
    /\ UNCHANGED <<edgeTts, starts, waiting, dials, broken, timers, spoken, accepted>>

\* send_message: the queue exists since the first start.  relay_llm_response
\* asks for a connection as well.
Say(m) ==
    /\ m \notin accepted /\ starts > 0
    /\ waiting' = Append(waiting, m)
    /\ accepted' = accepted \union {m}
    /\ UNCHANGED <<running, starts, link, speech, timers, spoken, cut>>

\* _reconnect_loop: the status is not CONNECTED.  The old websocket is not
\* closed.
Dial ==
    /\ running /\ ~linked /\ ~dialing /\ dials < MaxDials
    /\ dialing' = TRUE
    /\ UNCHANGED <<edgeTts, running, starts, waiting, socket, linked, dials, broken, pinging,
                   speech, timers, history>>

DialEnds ==
    /\ dialing
    /\ dialing' = FALSE
    /\ \/ dials' = dials + 1 /\ socket' = dials + 1 /\ linked' = TRUE
       \/ linked' = FALSE /\ UNCHANGED <<dials, socket>>
    /\ UNCHANGED <<edgeTts, running, starts, waiting, broken, pinging, speech, timers, history>>

\* The avatar goes away; nothing notices before the next send or ping.
LinkBreaks ==
    /\ socket # 0 /\ socket \notin broken
    /\ broken' = broken \union {socket}
    /\ UNCHANGED <<edgeTts, running, starts, waiting, socket, linked, dialing, dials, pinging,
                   speech, timers, history>>

\* _heartbeat_loop.  A ping that fails marks the service disconnected, also
\* when it was sent on an earlier connection; a timeout is tolerated.
Ping ==
    /\ running /\ Reachable /\ pinging = 0
    /\ pinging' = socket
    /\ UNCHANGED <<edgeTts, running, starts, waiting, socket, linked, dialing, dials, broken,
                   speech, timers, history>>

PingEnds ==
    /\ pinging # 0
    /\ pinging' = 0
    /\ linked' \in IF pinging \in broken THEN {linked, FALSE} ELSE {linked}
    /\ UNCHANGED <<edgeTts, running, starts, waiting, socket, dialing, dials, broken, speech,
                   timers, history>>

\* Without a connection the text goes to the end of the queue.
PutBack(queue, m) == Append(queue, m)

\* _send_loop takes a text.  When speech is not allowed, _send_to_vtuber returns
\* True at once, and False for a blank text; the loop looks at neither.
Take ==
    /\ running /\ inHand = NoSpeech /\ waiting # <<>>
    /\ \/ ~Reachable /\ waiting' = PutBack(Tail(waiting), Head(waiting)) /\ UNCHANGED speech
       \/ /\ Reachable /\ waiting' = Tail(waiting)
          /\ \/ Sayable(Head(waiting)) /\ inHand' = Head(waiting) /\ said' = 0
             \/ ~Sayable(Head(waiting)) /\ UNCHANGED speech
    /\ UNCHANGED <<running, starts, link, timers, history>>

\* One sentence is sent; after the last one the timer is armed.
SendSentence ==
    /\ inHand # NoSpeech /\ Reachable /\ socket \notin broken
    /\ spoken' = [spoken EXCEPT ![inHand] = Append(@, said + 1)]
    /\ IF said + 1 < Cards(inHand)
       THEN said' = said + 1 /\ UNCHANGED <<inHand, timers>>
       ELSE inHand' = NoSpeech /\ said' = 0 /\ timers' = 1
    /\ UNCHANGED <<running, starts, waiting, link, accepted, cut>>

\* Mutant: a text that was cut off is queued again.
QueueAfterCut(m) == Append(waiting, m)

Abandoned(m) == waiting

\* The connection is gone, or the send raises: the rest of the text is dropped.
SendFails ==
    /\ inHand # NoSpeech
    /\ ~Reachable \/ socket \in broken
    /\ linked' = FALSE
    /\ waiting' = Abandoned(inHand)
    /\ cut' = cut \union {inHand}
    /\ inHand' = NoSpeech /\ said' = 0
    /\ UNCHANGED <<edgeTts, running, starts, socket, dialing, dials, broken, pinging, timers,
                   spoken, accepted>>

\* The timer sends an empty frame, also in the middle of the next text, which
\* cancels it only at its end.
SubtitleClears ==
    /\ timers > 0
    /\ timers' = timers - 1
    /\ UNCHANGED <<running, starts, waiting, link, speech, history>>

RelayNext ==
    \/ RelayStarts \/ RelayStops \/ (\E m \in Speeches : Say(m))
    \/ Dial \/ DialEnds \/ LinkBreaks \/ Ping \/ PingEnds
    \/ Take \/ SendSentence \/ SendFails \/ SubtitleClears

RelaySpec == RelayInit /\ [][RelayNext]_relayVars
-----------------------------------------------------------------------------
RelayTypeOK ==
    /\ edgeTts \in BOOLEAN /\ running \in BOOLEAN /\ starts \in 0 .. MaxStarts /\ linked \in BOOLEAN
    /\ dialing \in BOOLEAN /\ dials \in 0 .. MaxDials
    /\ socket \in 0 .. dials /\ pinging \in 0 .. dials /\ broken \subseteq 1 .. dials
    /\ waiting \in Seq(Speeches) /\ inHand \in Speeches \union {NoSpeech}
    /\ said \in Nat /\ timers \in Nat
    /\ spoken \in [Speeches -> Seq(Nat)]
    /\ accepted \subseteq Speeches /\ cut \subseteq accepted

(***************************************************************************)
(* What was sent of a text are its first sentences, each of them once and  *)
(* in order.  When speech is allowed, a text that was accepted is waiting, *)
(* being spoken, spoken as far as it is sent at all, or was cut off by a   *)
(* stop or a dead connection: whatever breaks, restarts or dials again,    *)
(* nothing is repeated and nothing else goes missing.  What is dropped     *)
(* without a trace is not covered, and is dropped by the code: blank       *)
(* texts, sentences beyond the limit, and, when speech is not allowed,     *)
(* every text that is taken; of those nothing is ever sent                 *)
(* (_send_to_vtuber, 520-556).                                             *)
(***************************************************************************)
SpeechAccountedFor ==
    \A m \in accepted :
        /\ spoken[m] = [i \in DOMAIN spoken[m] |-> i]
        /\ IF edgeTts
           THEN Len(spoken[m]) < Cards(m) => m \in ToSet(waiting) \union {inHand} \union cut
           ELSE spoken[m] = <<>> /\ timers = 0
=============================================================================
