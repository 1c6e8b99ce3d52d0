-------------------------------- MODULE Goals --------------------------------
(***************************************************************************)
(* Goals (core/goal_manager.py, with the tables of insights and goals of   *)
(* infra/memory_database.py).  The analysers save insights; a task of the  *)
(* scheduler claims those that are not applied, lets the Tower turn them   *)
(* into goals, and registers the ones that resemble no active goal.        *)
(* Meanwhile the agent and the scheduler end goals, and trees of goals are *)
(* planned.  The scheduler runs one generation at a time.  Which insights  *)
(* are confident and recent enough is left to chance, and so are titles.   *)
(***************************************************************************)
EXTENDS Naturals, Sequences, FiniteSets

CONSTANTS Insights, Titles, RootTitle,
          Resembling,      \* pairs: a new title resembles that of an active goal
          ActiveLimit,     \* active goals a generation reads (100 in the code)
          MaxGoals,        \* goals of one answer (5 in the code)
          MaxGenerations,  \* bounds of the model: generations,
          MaxPlanned,      \* goals, beyond which no tree is planned,
          MaxEnded         \* and ended goals, beyond which none is ended

ASSUME GoalsAssumption ==
    /\ RootTitle \in Titles /\ Resembling \subseteq Titles \X Titles
    /\ ActiveLimit \in Nat /\ MaxGoals \in Nat /\ MaxGenerations \in Nat
    /\ MaxPlanned \in Nat /\ MaxEnded \in Nat

VARIABLES
    rows,         \* the insights in the database
    applied,      \* those with is_applied = 1
    goals,        \* the goals in the order of their rows: title, parent (0 for a root),
                  \* and the generation whose answer the goal was in (0 for none)
    status,       \* the status of each; nothing in the repository sets IN_PROGRESS
    generation,   \* the number of generations begun
    batch,        \* the insights the present generation has claimed
    under,        \* and the goal under which it will register
    blind,        \* history: generations that did not see every active goal
    handed        \* history: how often each insight was claimed since it was last saved

goalsVars == <<rows, applied, goals, status, generation, batch, under, blind, handed>>

Ended == {"DONE", "FAILED"}
Statuses == {"TO_DO"} \union Ended
ActiveGoals == {g \in DOMAIN goals : status[g] \notin Ended}

GoalsTypeOK ==
    /\ rows \subseteq Insights /\ applied \subseteq rows /\ batch \subseteq rows
    /\ goals \in Seq([title : Titles, parent : Nat, by : 0 .. MaxGenerations])
    /\ status \in [DOMAIN goals -> Statuses]
    /\ generation \in 0 .. MaxGenerations
    /\ under \in {0} \union DOMAIN goals /\ blind \subseteq 1 .. MaxGenerations
    /\ handed \in [Insights -> Nat]

GoalsInit ==
    /\ rows = {} /\ applied = {} /\ batch = {}
    /\ goals = <<>> /\ status = <<>> /\ under = 0
    /\ generation = 0 /\ blind = {}
    /\ handed = [i \in Insights |-> 0]
-----------------------------------------------------------------------------
\* What a connection leaves in a table when it is closed.
Closed(committed, before, after) == IF committed THEN after ELSE before

\* An analyser saves an insight, a new one or one like a saved one.
SaveInsight(i) ==
    /\ rows' = rows \union {i}
    /\ applied' = Closed(TRUE, applied, applied \ {i})
    /\ handed' = [handed EXCEPT ![i] = 0]
    /\ UNCHANGED <<goals, status, generation, batch, under, blind>>

\* New rows under parent p: one for each title, to be done.
GoalsSaved(titles, p, by) ==
    /\ goals' = goals \o [k \in DOMAIN titles |-> [title |-> titles[k], parent |-> p, by |-> by]]
    /\ status' = [g \in DOMAIN goals' |-> IF g \in DOMAIN goals THEN status[g] ELSE "TO_DO"]

\* The goal to register under is one that the task names, or the first active
\* root, or a new root when there is none.  Then insights are claimed: the
\* marks are written, and the connection is closed.
Claim ==
    /\ batch = {} /\ generation < MaxGenerations
    /\ generation' = generation + 1
    /\ \E some \in SUBSET (rows \ applied), p \in 1 .. Len(goals) + 1 :
           /\ \/ p \in DOMAIN goals /\ UNCHANGED <<goals, status>>
              \/ /\ p \notin DOMAIN goals /\ \A g \in ActiveGoals : goals[g].parent # 0
                 /\ GoalsSaved(<<RootTitle>>, 0, 0)
           /\ batch' = some
           /\ under' = IF some = {} THEN 0 ELSE p
           /\ applied' = Closed(FALSE, applied, applied \union some)
           /\ handed' = [i \in Insights |-> handed[i] + IF i \in some THEN 1 ELSE 0]
    /\ UNCHANGED <<rows, blind>>

\* MUTANT: nothing is compared with the active goals.
AnyTitle(t, active) == FALSE
IsDuplicate(t, active) == \E g \in active : <<t, goals[g].title>> \in Resembling

\* What get_active_goals returns: no more than the limit, and nothing at all
\* when the query fails.
IsReadOf(active) ==
    \/ active = ActiveGoals /\ Cardinality(active) <= ActiveLimit
    \/ active \subseteq ActiveGoals /\ Cardinality(active) = ActiveLimit
    \/ active = {}

\* The Tower has answered.  The goals of the answer are compared with the
\* active ones, not with each other.  A goal may fail to be saved, and a
\* malformed one ends the registration.
Register ==
    /\ batch # {} /\ batch' = {} /\ under' = 0
    /\ \E n \in 0 .. MaxGoals, active \in SUBSET ActiveGoals : \E titles \in [1 .. n -> Titles] :
           /\ IsReadOf(active)
           /\ \A k \in 1 .. n : ~IsDuplicate(titles[k], active)
           /\ GoalsSaved(titles, under, generation)
           /\ blind' = IF active = ActiveGoals THEN blind ELSE blind \union {generation}
    /\ UNCHANGED <<rows, applied, generation, handed>>

\* create_goal_tree saves a root, and later the planned goals under it;
\* generate_subgoals_from_insights adds goals under any other.  Neither
\* compares, and neither has a caller in the repository.
Plan ==
    /\ \E n \in 1 .. MaxGoals : \E titles \in [1 .. n -> Titles], p \in {0} \union DOMAIN goals :
           /\ p = 0 => n = 1
           /\ Len(goals) + n <= MaxPlanned
           /\ GoalsSaved(titles, p, 0)
    /\ UNCHANGED <<rows, applied, generation, batch, under, blind, handed>>

\* Goal g ends as s, and its parent is looked at: a failed child fails it, and
\* it is done when no child is left.  As long as something changes, the
\* parent's parent is looked at.
Fates(g, s) ==
    LET fate[p \in DOMAIN goals] ==
            LET children == {c \in DOMAIN goals : goals[c].parent = p}
                now == [c \in children |-> IF fate[c] = "same" THEN status[c] ELSE fate[c]]
                verdict == IF \E c \in children : now[c] = "FAILED" THEN "FAILED"
                           ELSE IF \A c \in children : now[c] \in Ended THEN "DONE"
                           ELSE status[p]
            IN  IF p = g THEN s
                ELSE IF (\A c \in children : fate[c] = "same") \/ verdict = status[p] THEN "same"
                ELSE verdict
    IN  fate

\* update_goal_status: the agent that has finished (DONE), or the scheduler
\* before it runs a task whose goal is in progress (DONE or FAILED).
EndGoal(g, s) ==
    /\ Cardinality(DOMAIN goals \ ActiveGoals) < MaxEnded
    /\ LET fate == Fates(g, s)
       IN  status' = [p \in DOMAIN goals |-> IF fate[p] \in Ended THEN fate[p] ELSE status[p]]
    /\ UNCHANGED <<rows, applied, goals, generation, batch, under, blind, handed>>

GoalsNext ==
    \/ Claim \/ Register \/ Plan
    \/ \E i \in Insights : SaveInsight(i)
    \/ \E g \in DOMAIN goals, s \in Ended : EndGoal(g, s)

GoalsSpec == GoalsInit /\ [][GoalsNext]_goalsVars
-----------------------------------------------------------------------------
(***************************************************************************)
(* claim_unprocessed_insights marks what it returns, so that nobody        *)
(* processes an insight a second time (its docstring, 1575-1578).          *)
(***************************************************************************)
ClaimedOnce == \A i \in Insights : handed[i] <= 1

(***************************************************************************)
(* The Tower meets the same insights again and again, while goals end and  *)
(* trees are planned.  An active goal that a generation registered         *)
(* resembles no older active goal, unless that generation did not see all  *)
(* active goals: there were more than it reads, or the query failed        *)
(* (generate_goals_from_insights, 381-389).  Goals of one answer are not   *)
(* compared with each other.                                               *)
(***************************************************************************)
GoalsNotRepeated ==
    \A g, h \in ActiveGoals :
        /\ g < h /\ goals[h].by # 0 /\ goals[h].by # goals[g].by
        /\ <<goals[h].title, goals[g].title>> \in Resembling
        => goals[h].by \in blind
=============================================================================
