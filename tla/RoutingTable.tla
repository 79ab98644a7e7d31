---------------------------- MODULE RoutingTable ----------------------------
(***************************************************************************)
(* The routing file's table of states, `routing.states`                    *)
(* (internal/routing/states.go): an issue's state is the label it bears,   *)
(* each state wakes one role, whose result moves the issue to the state's  *)
(* next.  A state and its label are one name here: checkStates refuses     *)
(* two states of one name or of one label.                                 *)
(***************************************************************************)
EXTENDS Naturals

CONSTANTS States,   \* the names of the table's rows
          None,     \* no state, no role: the empty string of the code
          Pos,      \* Pos[s]: the row of s, its place in the table
          Role,     \* Role[s]: the role state s wakes, or None
          NextOf    \* NextOf[s]: the state that role's result moves to, or None

\* checkStates (states.go:93) and the YAML list: rows have distinct names
\* and a place each, and a next names a row or nothing.
ASSUME TableAssumption ==
    /\ None \notin States
    /\ Pos \in [States -> Nat]
    /\ \A s, t \in States : Pos[s] = Pos[t] => s = t
    /\ NextOf \in [States -> States \cup {None}]
    /\ DOMAIN Role = States

\* The state a set of labels says: the first row whose label is borne.
StateOf(labels) ==
    IF \E s \in labels : \A t \in labels : Pos[s] =< Pos[t]
      THEN CHOOSE s \in labels : \A t \in labels : Pos[s] =< Pos[t]
      ELSE None

\* What every walk along `next` from s stays in: the sets closed under it.
ClosedFrom(s, S) ==
    /\ NextOf[s] # None => NextOf[s] \in S
    /\ \A t \in S : NextOf[t] # None => NextOf[t] \in S

\* Whether state `to` lies further on the line than state `from`: it is on
\* the walk along `next`, the least set closed from `from`.  The walk stops
\* at a state it saw, so no state is ahead of itself.
Ahead(from, to) ==
    /\ from \in States
    /\ to # from
    /\ \A S \in SUBSET States : ClosedFrom(from, S) => to \in S
=============================================================================
