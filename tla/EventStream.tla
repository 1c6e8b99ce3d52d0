----------------------------- MODULE EventStream -----------------------------
(***************************************************************************)
(* The live view of a run: stream_run_events (routers/runs.py) replays the *)
(* events after the reader's cursor and then polls the table every second. *)
(* The run's events are written by other threads and handlers at any time  *)
(* (infra/run_events.py); an event is its kind, and its id is its place.   *)
(*                                                                         *)
(* Ids and timestamps grow together: two emitters that commit in the other *)
(* order than they took their timestamps are left out.                     *)
(***************************************************************************)
EXTENDS Naturals, Sequences

CONSTANTS MaxEvents,  \* bound on the events of the run
          MaxPolls    \* max_iterations (3600 polls, an hour)

ASSUME EventStreamAssumption == MaxEvents \in Nat /\ MaxPolls \in Nat \ {0}

EventIds == 1 .. MaxEvents

VARIABLES events,   \* the run's rows of agent_run_events: their kinds, by id
          reader,   \* where the generator is
          after,    \* initial_last_event_id (0: none)
          cursor,   \* last_seen_id
          batch,    \* events queried and not sent yet
          polls,    \* iteration
          polled    \* history: the ids that polling sent

streamVars == <<events, reader, after, cursor, batch, polls, polled>>

StreamInit ==
    /\ events = <<>> /\ reader = "away" /\ after = 0 /\ cursor = 0
    /\ batch = <<>> /\ polls = 0 /\ polled = <<>>

\* get_run_events.
EventsAfter(id) == [i \in 1 .. Len(events) - id |-> id + i]

Ending(id) == events[id] \in {"finished", "error"}

\* The status of the snapshot.
RunEnded == \E id \in DOMAIN events : Ending(id)
-----------------------------------------------------------------------------
\* emit_event.  A run that was finished by force may go on telling.
EventWritten ==
    /\ Len(events) < MaxEvents
    /\ \E kind \in {"step", "finished", "error"} : events' = Append(events, kind)
    /\ UNCHANGED <<reader, after, cursor, batch, polls, polled>>

\* The request: without last_event_id the reader begins at the snapshot.  The
\* generator starts later.
Connected ==
    /\ reader = "away"
    /\ \E given \in 0 .. Len(events) :
          /\ after' = given /\ cursor' = given
          /\ reader' \in IF given = 0 /\ events = <<>> THEN {"replay", "poll"} ELSE {"replay"}
    /\ UNCHANGED <<events, batch, polls, polled>>

\* The replay sends events without moving the cursor.
Replay ==
    /\ reader = "replay"
    /\ batch' = EventsAfter(after)
    /\ reader' = "replaying"
    /\ UNCHANGED <<events, after, cursor, polls, polled>>

ReplaySends ==
    /\ reader = "replaying"
    /\ \/ batch # <<>> /\ batch' = Tail(batch) /\ UNCHANGED reader
       \/ batch = <<>> /\ reader' = "poll" /\ UNCHANGED batch
    /\ UNCHANGED <<events, after, cursor, polls, polled>>

Poll ==
    /\ reader = "poll"
    /\ batch' = EventsAfter(cursor)
    /\ reader' = "sending"
    /\ UNCHANGED <<events, after, cursor, polls, polled>>

\* Mutant: the cursor is that of the newest event.
CursorAfterNewest(id) == Len(events)

CursorAfter(id) == id

\* A run_finished event is the last one that is sent.  The last events of a
\* run that ended do not move the cursor.
Sends ==
    /\ reader \in {"sending", "last"} /\ batch # <<>>
    /\ polled' = Append(polled, Head(batch))
    /\ cursor' = IF reader = "sending" THEN CursorAfter(Head(batch)) ELSE cursor
    /\ batch' = Tail(batch)
    /\ reader' = IF reader = "sending" /\ events[Head(batch)] = "finished" THEN "closed" ELSE reader
    /\ UNCHANGED <<events, after, polls>>

\* Mutant: the stream is closed without another look.
EndSeenAtOnce ==
    /\ reader = "sending" /\ batch = <<>> /\ RunEnded
    /\ reader' = "closed"
    /\ UNCHANGED <<events, after, cursor, batch, polls, polled>>

\* The status is read after the events were sent, and what was written in
\* between is sent last.
EndSeen ==
    /\ reader = "sending" /\ batch = <<>> /\ RunEnded
    /\ batch' = EventsAfter(cursor)
    /\ reader' = "last"
    /\ UNCHANGED <<events, after, cursor, polls, polled>>

LastSent ==
    /\ reader = "last" /\ batch = <<>>
    /\ reader' = "closed"
    /\ UNCHANGED <<events, after, cursor, batch, polls, polled>>

\* Heartbeat, a second's sleep, and the next poll up to the limit.
Heartbeat ==
    /\ reader = "sending" /\ batch = <<>> /\ ~RunEnded
    /\ polls' = polls + 1
    /\ reader' = IF polls + 1 < MaxPolls THEN "poll" ELSE "timeout"
    /\ UNCHANGED <<events, after, cursor, batch, polled>>

\* The reader goes away and connects again later, with a cursor or without.
Disconnected ==
    /\ reader # "away"
    /\ reader' = "away" /\ after' = 0 /\ cursor' = 0 /\ batch' = <<>> /\ polls' = 0
    /\ polled' = <<>>
    /\ UNCHANGED events

StreamNext ==
    \/ EventWritten \/ Connected \/ Replay \/ ReplaySends \/ Poll \/ Sends
    \/ EndSeen \/ LastSent \/ Heartbeat \/ Disconnected

StreamSpec == StreamInit /\ [][StreamNext]_streamVars
-----------------------------------------------------------------------------
StreamTypeOK ==
    /\ events \in Seq({"step", "finished", "error"}) /\ Len(events) <= MaxEvents
    /\ reader \in {"away", "replay", "replaying", "poll", "sending", "last", "closed", "timeout"}
    /\ after \in 0 .. MaxEvents /\ cursor \in 0 .. MaxEvents
    /\ batch \in Seq(EventIds) /\ polled \in Seq(EventIds)
    /\ polls \in 0 .. MaxPolls

\* Polling leaves no event out and sends none twice, whatever is written
\* between two queries.  (The replay's events are sent once more.)
PolledInOrder == polled = [i \in DOMAIN polled |-> after + i]

\* A stream that closed because the run ended has told an event that ended it,
\* or the reader's cursor was past it.
EndIsTold == reader = "closed" => \E id \in 1 .. after + Len(polled) : Ending(id)
=============================================================================
