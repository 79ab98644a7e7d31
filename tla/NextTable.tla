----------------------------- MODULE NextTable -----------------------------
(***************************************************************************)
(* Any table at all, as the walks of internal/routing meet it: its states, *)
(* the rows of a file, and where each leads.                               *)
(***************************************************************************)
CONSTANTS States, None

ASSUME NoneAssumption == None \notin States

VARIABLE next  \* each state's next, or None

\* A next names a row or nothing (checkStates).
Table == next \in [States -> States \cup {None}]
=============================================================================
