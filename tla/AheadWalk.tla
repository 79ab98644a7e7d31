----------------------------- MODULE AheadWalk -----------------------------
(***************************************************************************)
(* The walk Config.Ahead makes along `next` (internal/routing/states.go),  *)
(* a step of its loop at a time, on any table: what the line's hop count   *)
(* takes for progress.  RoutingTable's Ahead is what it is to answer.  A   *)
(* definition whose name adds a word to that of the one after it is a bug  *)
(* that one could have had.                                                *)
(***************************************************************************)
EXTENDS NextTable

VARIABLES from, to, \* what is asked
          s,        \* the state the walk is at
          seen,     \* the states it saw
          answer    \* "walking", then "ahead" or "not"

avars == <<next, from, to, s, seen, answer>>

\* from may name no row: the state of an old record, taken out of the table
\* since.
Init ==
    /\ Table
    /\ from \in States \cup {None} /\ to \in States
    /\ s = from /\ answer = "walking"
    /\ seen = {from}

\* A state with no next, or whose next the walk saw, ends it.
OverUnseen == s \notin States \/ next[s] = None
Over == s \notin States \/ next[s] = None \/ next[s] \in seen

StepFirst ==
    /\ answer = "walking"
    /\ IF s \in States /\ next[s] = to THEN answer' = "ahead" /\ UNCHANGED <<s, seen>>
       ELSE IF Over THEN answer' = "not" /\ UNCHANGED <<s, seen>>
       ELSE s' = next[s] /\ seen' = seen \cup {next[s]} /\ UNCHANGED answer
    /\ UNCHANGED <<next, from, to>>
Step ==
    /\ answer = "walking"
    /\ IF Over THEN answer' = "not" /\ UNCHANGED <<s, seen>>
       ELSE IF next[s] = to THEN answer' = "ahead" /\ UNCHANGED <<s, seen>>
       ELSE s' = next[s] /\ seen' = seen \cup {next[s]} /\ UNCHANGED answer
    /\ UNCHANGED <<next, from, to>>

Next == Step
Spec == Init /\ [][Next]_avars /\ WF_avars(Step)

\* The least set closed under next from a state, as RoutingTable says it.
ClosedFrom(a, S) ==
    /\ next[a] # None => next[a] \in S
    /\ \A t \in S : next[t] # None => next[t] \in S
IsAhead(a, b) == a \in States /\ b # a /\ \A S \in SUBSET States : ClosedFrom(a, S) => b \in S

TypeOK ==
    /\ Table
    /\ from \in States \cup {None} /\ to \in States
    /\ s \in States \cup {None} /\ seen \subseteq States \cup {None}
    /\ answer \in {"walking", "ahead", "not"}

\* The walk answers whether `to` lies further on the line, on a table with
\* a loop too.
WalkIsAhead == answer # "walking" => (answer = "ahead" <=> IsAhead(from, to))

\* A loop in the table ends the walk.
WalkEnds == <>(answer # "walking")
=============================================================================
