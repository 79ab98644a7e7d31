------------------------------ MODULE RingWalk ------------------------------
(***************************************************************************)
(* checkWIPCycle (internal/routing/states.go): the limits that can stop    *)
(* the line for good are refused, found by a walk along `next` from each   *)
(* row in turn.  A step moving an issue into a state at its limit waits;   *)
(* a table the walk accepts drains, whatever issues its states hold.  A    *)
(* definition whose name adds a word to that of the one after it is a bug  *)
(* that one could have had.                                                *)
(***************************************************************************)
EXTENDS NextTable, Integers, FiniteSets

CONSTANTS Issues,
          MaxLimit  \* bound: the highest WIP limit a table gives

\* A table is the rows of a file.
ASSUME RingAssumption == IsFiniteSet(States) /\ MaxLimit \in Nat

VARIABLES wip,       \* the limits, 0 for none
          rows,      \* the rows the walk has not begun from
          start,     \* the row it walks from, None between two
          n,         \* where it is
          ring,      \* the states it passed, the start among them
          verdict,   \* "reading", then "accepted" or "refused"
          at         \* at[i]: the state issue i is in, None once off the line

rvars == <<next, wip, rows, start, n, ring, verdict, at>>

\* A limit is on a row, and a number of issues (checkWIP).
RInit ==
    /\ Table
    /\ wip \in [States -> 0..MaxLimit]
    /\ rows = States /\ start = None /\ n = None /\ ring = {} /\ verdict = "reading"
    /\ at \in [Issues -> States]

-----------------------------------------------------------------------------
(* The check, as the routing file is loaded.                               *)

Begin ==
    /\ verdict = "reading" /\ start = None /\ rows # {}
    /\ \E r \in rows : start' = r /\ rows' = rows \ {r} /\ n' = next[r] /\ ring' = {r}
    /\ UNCHANGED <<next, wip, verdict, at>>

Limited(S) == \A r \in S : wip[r] > 0

\* Back at the start: the ring holds the states passed, refused when each
\* has a limit.  At no state, or one passed on a ring the start is not on:
\* the next row.
WalkFirst ==
    /\ verdict = "reading" /\ start # None
    /\ IF n = start /\ Limited({start})
         THEN verdict' = "refused" /\ UNCHANGED <<start, n, ring>>
       ELSE IF n = None \/ n \in ring
         THEN start' = None /\ UNCHANGED <<n, ring, verdict>>
       ELSE n' = next[n] /\ ring' = ring \cup {n} /\ UNCHANGED <<start, verdict>>
    /\ UNCHANGED <<next, wip, rows, at>>
WalkUnseen ==
    /\ verdict = "reading" /\ start # None
    /\ IF n = start /\ Limited(ring)
         THEN verdict' = "refused" /\ UNCHANGED <<start, n, ring>>
       ELSE IF n \in {None, start}
         THEN start' = None /\ UNCHANGED <<n, ring, verdict>>
       ELSE n' = next[n] /\ ring' = ring \cup {n} /\ UNCHANGED <<start, verdict>>
    /\ UNCHANGED <<next, wip, rows, at>>
Walk ==
    /\ verdict = "reading" /\ start # None
    /\ IF n = start /\ Limited(ring)
         THEN verdict' = "refused" /\ UNCHANGED <<start, n, ring>>
       ELSE IF n = None \/ n \in ring
         THEN start' = None /\ UNCHANGED <<n, ring, verdict>>
       ELSE n' = next[n] /\ ring' = ring \cup {n} /\ UNCHANGED <<start, verdict>>
    /\ UNCHANGED <<next, wip, rows, at>>

Accept ==
    /\ verdict = "reading" /\ start = None /\ rows = {}
    /\ verdict' = "accepted"
    /\ UNCHANGED <<next, wip, rows, start, n, ring, at>>

-----------------------------------------------------------------------------
(* The line, on a table accepted (waits, wip.go).                          *)

Holds(s) == Cardinality({i \in Issues : at[i] = s})
RoomForTwo(s) == s # None /\ wip[s] > 0 => Holds(s) + 1 < wip[s]
Room(s) == s # None /\ wip[s] > 0 => Holds(s) < wip[s]

\* An issue's step moves it on when its next state has room: its state's
\* last step, off the line.
Move(i) ==
    /\ verdict = "accepted" /\ at[i] # None /\ Room(next[at[i]])
    /\ at' = [at EXCEPT ![i] = next[at[i]]]
    /\ UNCHANGED <<next, wip, rows, start, n, ring, verdict>>

Check == Begin \/ Walk \/ Accept
RNext == Check \/ \E i \in Issues : Move(i)
RSpec == RInit /\ [][RNext]_rvars /\ WF_rvars(Check)

\* A ring of next, every state of it limited.
LimitedRing ==
    \E S \in (SUBSET States) \ {{}} :
        /\ Limited(S)
        /\ \A r \in S : next[r] \in S

\* The walk refuses the tables that hold such a ring, and no other: from
\* whichever row it begins, a ring its start is not on told from its own.
WalkFindsRing == verdict # "reading" => (verdict = "refused" <=> LimitedRing)

\* A table accepted never stops the line for good: however full people
\* leave its states, past their limits too, some issue still on the line
\* has room to move.
NeverStuck ==
    verdict = "accepted" /\ (\E i \in Issues : at[i] # None) =>
        \E i \in Issues : at[i] # None /\ Room(next[at[i]])

\* The check ends.
CheckEnds == <>(verdict # "reading")
=============================================================================
