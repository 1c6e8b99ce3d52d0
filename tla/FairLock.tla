------------------------------ MODULE FairLock ------------------------------
(***************************************************************************)
(* What the program relies on where it says `async with` to an             *)
(* asyncio.Lock: _gpu_lock of the Orchestrator and _GEN_LOCK of the studio *)
(* server.  The lock is taken by one user at a time, in the order in which *)
(* they asked for it; whoever is cancelled while waiting leaves the line   *)
(* and nobody else's place changes; it is freed in whatever way the block  *)
(* ends.  The models of its users have the line as a variable and find out *)
(* from where their users are whether it is taken.                         *)
(***************************************************************************)
EXTENDS Sequences, SequencesExt

CONSTANT Users

VARIABLES line,    \* those who asked for the lock; when it is taken, its holder first
          taken    \* it is held

lockVars == <<line, taken>>

Init == line = <<>> /\ taken = FALSE

\* acquire(), whether or not the lock is free.
Ask(u) ==
    /\ u \notin ToSet(line)
    /\ line' = Append(line, u)
    /\ UNCHANGED taken

\* The first in line has it.
Grant ==
    /\ ~taken /\ line # <<>>
    /\ taken' = TRUE
    /\ UNCHANGED line

\* The holder leaves the block: it returned, raised, or was cancelled.
Release ==
    /\ taken
    /\ taken' = FALSE
    /\ line' = Tail(line)

\* A place in line that does not hold the lock is given up; also where a user
\* has the lock no longer than to see that it cannot go on.
GiveUp(place) ==
    /\ taken => place # 1
    /\ line' = RemoveAt(line, place)
    /\ UNCHANGED taken

Next == \/ \E u \in Users : Ask(u)
        \/ Grant \/ Release
        \/ \E place \in DOMAIN line : GiveUp(place)

Spec == Init /\ [][Next]_lockVars
=============================================================================
