------------------------------- MODULE MCGoals -------------------------------
(* One insight, and two titles, each of which resembles itself; there can be *)
(* more active goals than are read.                                          *)
EXTENDS Goals

CONSTANTS i1, t1

MCInsights == {i1}
MCTitles == {t1, RootTitle}
MCResembling == {<<t, t>> : t \in MCTitles}
=============================================================================
