---------------------------- MODULE LineHistory ----------------------------
(***************************************************************************)
(* The line of states with what it did kept beside it, to state what the   *)
(* record is for: a loop of roles ends at max-hops, no role runs twice on  *)
(* an input but for the tries it is due, and no step is said acted that    *)
(* no role ran.  The history reads the line's steps and bounds none: every *)
(* step of LineOfStates is a step here.                                    *)
(***************************************************************************)
EXTENDS LineOfStates

VARIABLES entries,  \* roles woken on a state entered, since people, time or
                    \* a failure last did something, or it left Blocked
          tries,    \* roles woken since the issue last changed
          reading,  \* the input the run at hand was read on
          heard     \* the input of the last step the record was written of

hvars == <<vars, entries, tries, reading, heard>>

NoInput == <<None, None, Never, 0>>
Input   == <<cur, body, labeled[cur], SpecNow>>

Starts == job = NoJob /\ job' # NoJob /\ job'.phase = "run"
Enters == Starts /\ job'.kind = "step" /\ job'.rec.state # rec.state

HInit == Init /\ entries = 0 /\ tries = 0 /\ reading = NoInput /\ heard = NoInput

Entries ==
    IF outside' # outside THEN 0
    ELSE IF ~Enters THEN entries
    ELSE IF rec.state = Blocked THEN 1 ELSE entries + 1

Tries ==
    IF outside' # outside \/ <<labels, labeled, body, spec>>' # <<labels, labeled, body, spec>>
      THEN 0
    ELSE IF Starts THEN tries + 1 ELSE tries

HNext ==
    /\ Next
    /\ entries' = Entries
    /\ tries' = Tries
    /\ reading' = IF job' = NoJob THEN NoInput ELSE IF Starts THEN Input ELSE reading
    /\ heard' = IF Writing /\ job' = NoJob /\ outside' = outside /\ job.kind = "step"
                  THEN reading ELSE heard

HSpec == HInit /\ [][HNext]_hvars

-----------------------------------------------------------------------------
\* Loops end (max-hops, routing.md "Progress starts the count again"): with
\* nobody's doing, roles enter states at most max-hops times for each state
\* of the line, however they send the issue back and forth.
LoopsEnd == entries =< MaxHops * Cardinality({s \in States : Role[s] # None})

\* Never the same input twice (ADR-0063, I2): on an issue nothing changed,
\* its state's role is woken for the state, or what it was short of, or a
\* claim let go, and for each mark not spent, each run again for a machine
\* error at most ErrorBudget times a kind.
Chances(s) == 1 + Cardinality(Marks[s])
TriesBounded ==
    cur \in States => tries =< Chances(cur) * (1 + ErrorBudget * Cardinality(Kinds))

\* No silence taken for an act (state-acted): when the line finds nothing
\* due on an issue whose state wakes a role, that role did run on this very
\* labelling, body and review; what a person did during the run is due.
NeverSilent == Waking /\ ~Due => heard = Input
=============================================================================
