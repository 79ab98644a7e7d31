------------------------------ MODULE LineRuns ------------------------------
(***************************************************************************)
(* The runs of one issue's step in CI (ci/github/workline-develop.yml, the *)
(* jobs judge, apply and reconcile): judge asks the line whether the step  *)
(* is due and runs the role with no write token; apply does what the role  *)
(* proposed, then writes the line's record, then starts the next step's    *)
(* run.  The issue's concurrency group is judge's alone: one judges, one   *)
(* waits, and any number apply.                                            *)
(*                                                                         *)
(* LineOfStates has what one run decides and writes; here an issue is its  *)
(* input, what makes a step due: its state, labelling and body, a number   *)
(* that each change makes a new one.  Every step here is due for its input *)
(* alone: hops, tries and marks are LineOfStates'.  A definition whose name*)
(* adds a word to that of the one after it is a bug that one could have    *)
(* had, for the check that a property would see it.                        *)
(***************************************************************************)
EXTENDS Naturals, FiniteSets

CONSTANTS Runs,       \* the runs there is room for at once
          MaxInput,   \* bound: the changes of the issue
          MaxOutside  \* bound: what people do, and failures

ASSUME RunsAssumption == IsFiniteSet(Runs) /\ Runs # {} /\ MaxInput \in Nat /\ MaxOutside \in Nat

VARIABLES input,   \* the issue as it is
          record,  \* the input the line's record says its last step ran on
          phase,   \* phase[r]: where run r is
          read,    \* read[r]: the input its judge read
          done,    \* the inputs whose step was applied
          listed,  \* whether the reconciler listed the issue, to start it
          missed,  \* whether a run was lost, or a change made with no
                   \* event, since the reconciler last started the issue
          outside  \* how much people and failures did (bounded)

rvars == <<input, record, phase, read, done, listed, missed, outside>>

Phases == {"none", "waits", "asked", "judges", "judged", "applied", "recorded"}

Init ==
    /\ input = 1 /\ record = 0 /\ done = {}
    /\ phase \in {[q \in Runs |-> IF q = r THEN "waits" ELSE "none"] : r \in Runs}
    /\ read = [r \in Runs |-> 0]
    /\ listed = FALSE /\ missed = FALSE /\ outside = 0

Due == record # input
Busy == {r \in Runs : phase[r] # "none"}

\* A run of the issue started, p the phases so far: it waits for the group,
\* where GitHub keeps one, the newest.
Started(p) ==
    \E r \in Runs :
        /\ p[r] = "none"
        /\ phase' = [q \in Runs |-> IF q = r THEN "waits" ELSE IF p[q] = "waits" THEN "none" ELSE p[q]]

Goes(r, p) == phase' = [phase EXCEPT ![r] = p]

-----------------------------------------------------------------------------
(* The job judge, in the issue's group.                                    *)

Group == {r \in Runs : phase[r] \in {"asked", "judges"}}

\* The step Due: the line asked with no agent; what it said is kept, and a
\* run whose step is not due ends there (its next step).
Ask(r) ==
    /\ phase[r] = "waits" /\ Group = {}
    /\ Goes(r, "asked") /\ read' = [read EXCEPT ![r] = IF Due THEN input ELSE 0]
    /\ UNCHANGED <<input, record, done, listed, missed, outside>>

\* The line reads the issue again, and wakes the role its state wakes; not
\* due when asked or now, nothing more.
Judge(r) ==
    /\ phase[r] = "asked"
    /\ IF read[r] # 0 /\ Due
         THEN Goes(r, "judges") /\ read' = [read EXCEPT ![r] = input]
         ELSE Goes(r, "none") /\ UNCHANGED read
    /\ UNCHANGED <<input, record, done, listed, missed, outside>>

\* Its role ran; the group is the next run's.
JudgeEnds(r) ==
    /\ phase[r] = "judges" /\ Goes(r, "judged")
    /\ UNCHANGED <<input, record, read, done, listed, missed, outside>>

-----------------------------------------------------------------------------
(* The job apply, in no group.                                             *)

\* What the role proposed: the issue moved, or not.
Apply(r) ==
    /\ phase[r] = "judged" /\ Goes(r, "applied")
    /\ input' \in {input, input + 1} /\ input' =< MaxInput
    /\ done' = done \cup {read[r]}
    /\ UNCHANGED <<record, read, listed, missed, outside>>

RecordJudged(r) ==
    /\ phase[r] \in {"judged", "applied"} /\ record # read[r]
    /\ record' = read[r] /\ phase' = [phase EXCEPT ![r] = IF @ = "applied" THEN "recorded" ELSE @]
    /\ UNCHANGED <<input, read, done, listed, missed, outside>>

\* The line's record, as judge made it, once all is applied (keepStates).
Record(r) ==
    /\ phase[r] = "applied" /\ Goes(r, "recorded") /\ record' = read[r]
    /\ UNCHANGED <<input, read, done, listed, missed, outside>>

ChainIdle(r) ==
    /\ phase[r] = "recorded"
    /\ IF Due /\ Busy = {r} THEN Started([phase EXCEPT ![r] = "none"]) ELSE Goes(r, "none")
    /\ UNCHANGED <<input, record, read, done, listed, missed, outside>>

\* The state it moved the issue to wakes its next step now: started even
\* when another run of the issue waits or asks.
Chain(r) ==
    /\ phase[r] = "recorded"
    /\ IF Due THEN Started([phase EXCEPT ![r] = "none"]) ELSE Goes(r, "none")
    /\ UNCHANGED <<input, record, read, done, listed, missed, outside>>

-----------------------------------------------------------------------------
(* The job reconcile: the steps due, then those whose issue has no run.    *)

ListUnread ==
    /\ ~listed /\ Due /\ listed' = TRUE
    /\ \A r \in Runs : read[r] # input
    /\ UNCHANGED <<input, record, phase, read, done, missed, outside>>

List ==
    /\ ~listed /\ Due /\ listed' = TRUE
    /\ UNCHANGED <<input, record, phase, read, done, missed, outside>>

StartListed ==
    /\ listed /\ listed' = FALSE
    /\ IF Busy # {} THEN UNCHANGED <<phase, missed>> ELSE Started(phase) /\ missed' = FALSE
    /\ UNCHANGED <<input, record, read, done, outside>>

-----------------------------------------------------------------------------
(* People, and failures.                                                   *)

Outside == outside < MaxOutside /\ outside' = outside + 1

\* A workline: label put on, one of a state or not: a run of the issue.
PersonLabels ==
    /\ Outside /\ input' \in {input, input + 1} /\ input' =< MaxInput
    /\ Started(phase)
    /\ UNCHANGED <<record, read, done, listed, missed>>

\* The body edited, or a label taken off: no run.
PersonEdits ==
    /\ Outside /\ input < MaxInput /\ input' = input + 1 /\ missed' = TRUE
    /\ UNCHANGED <<record, phase, read, done, listed>>

\* The agent out of reach, a job that dies, an apply that stops half-way.
Lost(r) ==
    /\ Outside /\ phase[r] \notin {"none", "waits"} /\ Goes(r, "none") /\ missed' = TRUE
    /\ UNCHANGED <<input, record, read, done, listed>>

Run(r) == Ask(r) \/ Judge(r) \/ JudgeEnds(r) \/ Apply(r) \/ Record(r) \/ Chain(r)
Reconcile == List \/ StartListed
Next == (\E r \in Runs : Run(r) \/ Lost(r)) \/ Reconcile \/ PersonLabels \/ PersonEdits

Spec == Init /\ [][Next]_rvars

\* A job started ends, and the reconciler comes back within the hour.
FairSpec == Spec /\ (\A r \in Runs : WF_rvars(Run(r))) /\ WF_rvars(List) /\ WF_rvars(StartListed)

TypeOK ==
    /\ input \in Nat \ {0} /\ record \in Nat /\ done \subseteq Nat
    /\ phase \in [Runs -> Phases] /\ read \in [Runs -> Nat]
    /\ listed \in BOOLEAN /\ missed \in BOOLEAN /\ outside \in Nat

-----------------------------------------------------------------------------
\* Events drive the line, the reconciler is its safety net (ADR-0059,
\* "Explicit chaining"): with no run of the issue and no event missed, its
\* step is acted on.  Whatever run asks too early, is replaced by a newer
\* one or writes the record after a newer one, a run is left to go on.
QuietIsActed == Busy = {} /\ ~missed => ~Due

\* The line's record names no input whose step was not applied: a judge's
\* proposal lost, or an apply that stops, leaves its step due.
RecordIsOfDone == record \in done \cup {0}

\* A step due is acted on at last: started by its event, or, the run lost,
\* by the reconciler, which leaves an issue with a run to that run.
DueIsActed == Due ~> ~Due

\* "A role does not run again on an input it already ran on, unless its last
\* outcome there was a machine error" (ADR-0063, I2), here a run lost: none
\* is woken on an input that was acted on, or that another run acts on.
NeverTwice ==
    [][\A r \in Runs : phase[r] = "asked" /\ phase'[r] = "judges" =>
          /\ read'[r] \notin done
          /\ \A q \in Runs : phase[q] \in {"judges", "judged", "applied", "recorded"}
                                => read[q] # read'[r]]_rvars
=============================================================================
