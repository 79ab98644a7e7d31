----------------------------- MODULE Reconciler -----------------------------
(***************************************************************************)
(* The line over many issues: who is started, when, by whom                *)
(* (internal/line: reconcile, startDue, roomDue, waits, waitedSince; the   *)
(* jobs of ci/github/workline-develop.yml: judge, apply's steps next and   *)
(* room, reconcile, heartbeat, reconcile-due).  Two states of the line are *)
(* enough: tests, whose next state, ready, has a WIP limit, and ready,     *)
(* whose next has none.  What one issue's step decides and writes is       *)
(* LineOfStates', how the runs of one issue overlap is LineRuns'; here an  *)
(* issue has one run at a time, people leave one that runs alone, and      *)
(* nobody starts a reconcile by hand.  A definition whose name adds a word *)
(* to that of the one after it is a bug that one could have had.           *)
(***************************************************************************)
EXTENDS Integers, Sequences, FiniteSets, SequencesExt

CONSTANTS Issues,
          Limit,        \* wip: the open issues ready holds at most
          ReconcileMax, \* reconcile-max
          MaxOutside    \* bound: what people do, runs lost, starts refused, reads that fail

ASSUME ReconcilerAssumption ==
    /\ IsFiniteSet(Issues) /\ {Limit, ReconcileMax} \subseteq Nat \ {0}
    /\ MaxOutside \in Nat

VARIABLES at,     \* the state each issue is in: tests, ready, or one that wakes nobody
          rec,    \* the state its record names
          due,    \* its step is due, room aside
          told,   \* its record says it waits for room (Record.Waits)
          dates,  \* when each issue's label was put on, its step last ran, its
                  \* run under way was judged: the oldest first
          run,    \* its run in CI: queued, or its role at work
          after,  \* the apply job's last steps: next, then room
          job,    \* the job reconcile: what it listed
          coming, \* the reconciler's own runs: a heartbeat that waits, one queued
          missed, \* history: what no event said, or a failure
          outside

issueVars == <<at, rec, due, told, dates>>
vars == <<issueVars, run, after, job, coming, missed, outside>>

Waking == {"tests", "ready"}
Places == Waking \cup {"off"}
NoJob  == [at |-> "idle", listed |-> {}]

\* Issues labelled, in any order: their names stand for one another.
Init ==
    /\ at \in [Issues -> Waking]
    /\ rec = [i \in Issues |-> "none"] /\ due = [i \in Issues |-> TRUE]
    /\ told = [i \in Issues |-> FALSE]
    /\ LET s == SetToSeq(Issues) IN dates = [k \in DOMAIN s |-> <<s[k], "labeled">>]
    /\ run = [i \in Issues |-> "queued"]
    /\ missed = FALSE
    /\ after = [i \in Issues |-> "none"]
    /\ job = NoJob /\ coming = {}
    /\ outside = 0

\* A person's turn, or a failure.
Outside == outside < MaxOutside /\ outside' = outside + 1
Calm == UNCHANGED outside

-----------------------------------------------------------------------------
(* How long a step waited (waitedSince), and room (waits).                 *)

\* The first step in its state, since its label was put on; one due again
\* there, since its last run.
Date(i) == IF rec[i] = at[i] THEN <<i, "ran">> ELSE <<i, "labeled">>

\* What is left of them without those of D.
Without(D) ==
    LET kept[n \in 0..Len(dates)] ==
            IF n = 0 THEN <<>>
            ELSE IF dates[n] \in D THEN kept[n - 1]
            ELSE Append(kept[n - 1], dates[n])
    IN kept[Len(dates)]

\* A label of state s put on: its date matters where its record names another.
Labeled(i, s) ==
    IF s \in Waking \ {rec[i]} THEN Append(Without({<<i, "labeled">>}), <<i, "labeled">>)
    ELSE Without({<<i, "labeled">>})
\* The record written: its step ran when its run was judged.
Ran(i) ==
    LET kept == Without({<<i, "labeled">>, <<i, "ran">>})
    IN [k \in DOMAIN kept |-> IF kept[k] = <<i, "now">> THEN <<i, "ran">> ELSE kept[k]]

Holds == Cardinality({i \in Issues : at[i] = "ready"})
Full  == Holds >= Limit
\* Its step waits for no room.
CanRun(i) == due[i] /\ at[i] \in Waking /\ (at[i] = "tests" => ~Full)

\* One step started: counted in its next state from then (anticipate).
Counted(s, i) ==
    [s EXCEPT !.listed = @ \cup {i}, !.holds = @ + IF at[i] = "tests" THEN 1 ELSE -1]

\* One step due: left past reconcile-max; or where the steps before it took
\* the room, it waits.
Start(s, d) ==
    IF Cardinality(s.listed) >= ReconcileMax \/ (at[d[1]] = "tests" /\ s.holds >= Limit) THEN s
    ELSE Counted(s, d[1])

\* startDue, in CI: the steps listed, an issue with a run among them too,
\* the one waiting longest first.
StartDueUnsorted(S) ==
    LET q == SetToSeq(S)
    IN FoldLeft(Start, [listed |-> {}, holds |-> Holds], [k \in DOMAIN q |-> Date(q[k])])
StartDue(S) ==
    LET D == {Date(i) : i \in S}
        seen[n \in 0..Len(dates)] ==
            IF n = 0 THEN [listed |-> {}, holds |-> Holds]
            ELSE IF dates[n] \in D THEN Start(seen[n - 1], dates[n])
            ELSE seen[n - 1]
    IN seen[Len(dates)]

-----------------------------------------------------------------------------
(* An issue's run: judge, then apply.                                      *)

\* Started by workflow_dispatch: an issue with a run queued keeps that one.
Started(S) == [i \in Issues |-> IF i \in S /\ run[i] = "none" THEN "queued" ELSE run[i]]

\* Not due, or told already that it waits: nothing more.
JudgeNothing(i) ==
    /\ run[i] = "queued" /\ ~CanRun(i)
    /\ run' = [run EXCEPT ![i] = "none"]
    /\ IF due[i] /\ at[i] = "tests" /\ ~told[i]
         THEN after[i] = "none" /\ told' = [told EXCEPT ![i] = TRUE] /\ after' = [after EXCEPT ![i] = "next"]
         ELSE UNCHANGED <<told, after>>
    /\ Calm /\ UNCHANGED <<at, rec, due, dates, job, coming, missed>>

Judge(i) ==
    /\ run[i] = "queued" /\ CanRun(i)
    /\ run' = [run EXCEPT ![i] = "judges"]
    /\ dates' = Append(dates, <<i, "now">>)
    /\ Calm /\ UNCHANGED <<at, rec, due, told, after, job, coming, missed>>

\* What the role proposed, then the record: moved on, sent back, off the
\* line, or left there, acted on or due again (a retry, a review).
Apply(i) ==
    /\ run[i] = "judges" /\ after[i] = "none"
    /\ \E s \in Places, again \in BOOLEAN :
         /\ again => s # "off"
         /\ s \in Waking \ {at[i]} => again
         /\ at' = [at EXCEPT ![i] = s] /\ due' = [due EXCEPT ![i] = again]
         /\ dates' = IF s \in Waking \ {at[i]} THEN Append(Ran(i), <<i, "labeled">>) ELSE Ran(i)
    /\ rec' = [rec EXCEPT ![i] = at[i]] /\ told' = [told EXCEPT ![i] = FALSE]
    /\ run' = [run EXCEPT ![i] = "none"] /\ after' = [after EXCEPT ![i] = "next"]
    /\ Calm /\ UNCHANGED <<job, coming, missed>>

\* The state it moved the issue to wakes its next step now; one to tell it
\* waits for room is due too.
NextStep(i) ==
    /\ after[i] = "next" /\ after' = [after EXCEPT ![i] = "room"]
    /\ \/ run' = Started({i} \cap {j \in Issues : CanRun(j) \/ (due[j] /\ at[j] = "tests" /\ ~told[j])})
          /\ Calm /\ UNCHANGED missed
       \/ Outside /\ missed' = TRUE /\ UNCHANGED run
    /\ UNCHANGED <<issueVars, job, coming>>

\* Room this run freed wakes the issues waiting for it (roomDue); its own
\* next step is started above.
RoomDueLess == StartDue({j \in Issues : due[j] /\ at[j] = "tests" /\ Holds + 1 < Limit}).listed
RoomDue == StartDue({j \in Issues : at[j] = "tests" /\ CanRun(j)}).listed
Room(i) ==
    /\ after[i] = "room" /\ after' = [after EXCEPT ![i] = "none"]
    /\ \/ run' = Started(RoomDue \ {i}) /\ Calm /\ UNCHANGED missed
       \/ Outside /\ missed' = TRUE /\ UNCHANGED run
    /\ UNCHANGED <<issueVars, job, coming>>

\* The job dies, or an outside failure stops it: no record, its step as it
\* was.
Lost(i) ==
    /\ run[i] # "none" /\ Outside /\ missed' = TRUE
    /\ run' = [run EXCEPT ![i] = "none"] /\ dates' = Without({<<i, "now">>})
    /\ UNCHANGED <<at, rec, due, told, after, job, coming>>

-----------------------------------------------------------------------------
(* The job reconcile, and what starts it.                                  *)

\* A reconciler's run queued or under way, or a heartbeat that waits.
GoingQueued == coming \cap {"queued"} # {} \/ job.at # "idle"
Going == coming # {} \/ job.at # "idle"

\* On the schedule or a label, the heartbeat stopped (reconcile-due); one
\* not started is asked for again.
ReconcileDue ==
    /\ ~Going
    /\ coming' = coming \cup {"queued"}
    /\ Calm /\ UNCHANGED <<issueVars, run, after, job, missed>>

\* Its wait timer passed: the same run's reconcile, one at a time, one
\* queued.
Heartbeat ==
    /\ "beat" \in coming /\ coming' = (coming \ {"beat"}) \cup {"queued"}
    /\ Calm /\ UNCHANGED <<issueVars, run, after, job, missed>>

\* The waits not said yet, listed outside reconcile-max.
Untold == {i \in Issues : due[i] /\ at[i] = "tests" /\ Full /\ ~told[i]}
Dues == {i \in Issues : CanRun(i)}

List ==
    /\ job.at = "idle" /\ "queued" \in coming
    /\ coming' = coming \ {"queued"}
    /\ \/ job' = [at |-> "listed", listed |-> StartDue(Dues).listed \cup Untold] /\ Calm
       \/ job' = [at |-> "listed", listed |-> {}] /\ Outside  \* the forge out of reach
    /\ UNCHANGED <<issueVars, run, after, missed>>

\* An issue with a run queued or running, its last steps among them, is
\* not started again.
Free(S) == {i \in S : after[i] = "none"}

\* The runs of those listed, then the next reconcile, by the heartbeat, even
\* when this one failed: the one waiting cancelled.
StartListed ==
    /\ job.at = "listed" /\ job' = NoJob
    /\ \/ run' = Started(Free(job.listed)) /\ coming' = coming \cup {"beat"} /\ Calm
       \/ /\ Outside
          /\ \E i \in job.listed : run' = Started(Free(job.listed) \ {i})
          /\ coming' = coming \cup {"beat"}
       \* no environment with a wait timer, or its run not started
       \/ Outside /\ run' = Started(Free(job.listed)) /\ UNCHANGED coming
    /\ UNCHANGED <<issueVars, after, missed>>

ReconcileDies ==
    /\ job.at # "idle" /\ Outside /\ job' = NoJob
    /\ UNCHANGED <<issueVars, run, after, coming, missed>>

-----------------------------------------------------------------------------
(* People, and the claims the developer lets go.                           *)

\* A person's label: an event, which may be lost.
PersonLabels(i) ==
    /\ Outside /\ run[i] # "judges"
    /\ \E s \in Waking :
         /\ at' = [at EXCEPT ![i] = s] /\ due' = [due EXCEPT ![i] = TRUE]
         /\ told' = [told EXCEPT ![i] = FALSE]
         /\ dates' = Labeled(i, s)
    /\ \/ run' = Started({i}) /\ UNCHANGED missed
       \/ missed' = TRUE /\ UNCHANGED run
    /\ UNCHANGED <<rec, after, job, coming>>

\* Its label off, or the issue closed: no event.
PersonTakesOff(i) ==
    /\ Outside /\ run[i] # "judges" /\ at[i] # "off"
    /\ at' = [at EXCEPT ![i] = "off"] /\ due' = [due EXCEPT ![i] = FALSE]
    /\ dates' = Labeled(i, "off") /\ missed' = TRUE
    /\ UNCHANGED <<rec, told, run, after, job, coming>>

\* Its body edited: due again in its state, no event.
PersonEdits(i) ==
    /\ Outside /\ run[i] # "judges" /\ at[i] # "off" /\ ~due[i]
    /\ due' = [due EXCEPT ![i] = TRUE] /\ missed' = TRUE
    /\ UNCHANGED <<at, rec, told, dates, run, after, job, coming>>

\* A claim let go: ready put on anew, by the engine, whose labels start no
\* run.
LetGo(i) ==
    /\ at[i] = "off" /\ rec[i] = "ready" /\ run[i] = "none"
    /\ at' = [at EXCEPT ![i] = "ready"] /\ due' = [due EXCEPT ![i] = TRUE]
    /\ dates' = Labeled(i, "ready") /\ missed' = TRUE
    /\ Calm /\ UNCHANGED <<rec, told, run, after, job, coming>>

Run(i) == Judge(i) \/ JudgeNothing(i) \/ Apply(i) \/ NextStep(i) \/ Room(i)
Reconcile == List \/ StartListed
People(i) == PersonLabels(i) \/ PersonTakesOff(i) \/ PersonEdits(i) \/ LetGo(i)
Next ==
    \/ \E i \in Issues : Run(i) \/ Lost(i) \/ People(i)
    \/ Reconcile \/ ReconcileDies \/ ReconcileDue \/ Heartbeat

\* A run ends; the schedule, or a label, asks again one day.
Spec ==
    /\ Init /\ [][Next]_vars
    /\ \A i \in Issues : WF_vars(Run(i))
    /\ WF_vars(Reconcile \/ ReconcileDue \/ Heartbeat)

-----------------------------------------------------------------------------
TypeOK ==
    /\ at \in [Issues -> Places] /\ rec \in [Issues -> Waking \cup {"none"}]
    /\ due \in [Issues -> BOOLEAN] /\ told \in [Issues -> BOOLEAN]
    /\ dates \in Seq(Issues \X {"labeled", "ran", "now"})
    /\ run \in [Issues -> {"none", "queued", "judges"}]
    /\ after \in [Issues -> {"none", "next", "room"}]
    /\ job.at \in {"idle", "listed"} /\ job.listed \subseteq Issues /\ coming \subseteq {"beat", "queued"}
    /\ missed \in BOOLEAN
    /\ outside \in Nat

\* "Room that frees up wakes them at once" (room.go:15): no event lost and
\* nothing failed, and with no run under way, no issue waits for room that
\* is there.
Quiet == \A i \in Issues : run[i] = "none" /\ after[i] = "none"
RoomWakes == Quiet /\ ~missed => \A i \in Issues : ~CanRun(i)

\* "With more due than reconcile-max, each starts within a bounded number of
\* runs, whatever its age" (room.go:9): the reconciler, its heartbeat and
\* what starts them again when they stopped leave no step due for good with
\* room and no run, not behind others due again and again.
NeverLeft == \A i \in Issues : ~<>[](CanRun(i) /\ run[i] = "none")

\* "One at a time" (workline-develop.yml:277): the schedule, the labels and
\* the heartbeats never have two reconciles on their way, whichever of them
\* stopped, was not started or died.
OneComing == Cardinality(coming) + (IF job.at = "idle" THEN 0 ELSE 1) =< 1

-----------------------------------------------------------------------------
(* What the code's own words say, and the line does not do.                *)

\* "The open issues it holds at most" (docs/spec/routing.md, wip): two runs
\* that count at once both move their issue in.
LimitHeld == [][~Full => Holds' =< Limit]_at
=============================================================================
