--------------------------- MODULE LineRuns_proofs ---------------------------
(***************************************************************************)
(* Of any number of runs of an issue at once, and any bounds: the types,   *)
(* that the record names what was applied, and that no step due is left to *)
(* the reconciler unless an event was missed.                              *)
(***************************************************************************)
EXTENDS LineRuns, TLAPS

\* What a start of a run leaves: its phases, and a run that waits.
LEMMA StartedWaits ==
    ASSUME NEW p \in [Runs -> Phases], Started(p)
    PROVE  /\ phase' \in [Runs -> Phases]
           /\ \E r \in Runs : phase'[r] = "waits"
           /\ \A r \in Runs : phase'[r] \in {"waits", "none", p[r]}
  BY DEF Started, Phases

\* Every variable keeps its type, by every step of the runs (LineRuns).
THEOREM TypeCorrect == Spec => []TypeOK
<1>1. ASSUME Init PROVE TypeOK
  <2>1. phase \in [Runs -> Phases]
    BY <1>1 DEF Init, Phases
  <2>2. read \in [Runs -> Nat]
    BY <1>1 DEF Init
  <2>3. input \in Nat \ {0} /\ record \in Nat /\ done \subseteq Nat
    BY <1>1 DEF Init
  <2>4. listed \in BOOLEAN /\ missed \in BOOLEAN /\ outside \in Nat
    BY <1>1 DEF Init
  <2> QED BY <2>1, <2>2, <2>3, <2>4 DEF TypeOK
<1>2. TypeOK /\ [Next]_rvars => TypeOK'
  <2> SUFFICES ASSUME TypeOK, [Next]_rvars PROVE TypeOK'
    OBVIOUS
  <2> USE DEF TypeOK
  <2>0. \A r \in Runs : [phase EXCEPT ![r] = "none"] \in [Runs -> Phases]
    BY DEF Phases
  <2>1. ASSUME NEW r \in Runs, Ask(r) PROVE TypeOK'
    BY <2>1 DEF Ask, Goes, Phases
  <2>2. ASSUME NEW r \in Runs, Judge(r) PROVE TypeOK'
    BY <2>2 DEF Judge, Goes, Phases
  <2>3. ASSUME NEW r \in Runs, JudgeEnds(r) PROVE TypeOK'
    BY <2>3 DEF JudgeEnds, Goes, Phases
  <2>4. ASSUME NEW r \in Runs, Apply(r) PROVE TypeOK'
    <3>1. phase' \in [Runs -> Phases]
      BY <2>4 DEF Apply, Goes, Phases
    <3>2. input' \in Nat \ {0}
      BY <2>4, RunsAssumption DEF Apply
    <3>3. done' \subseteq Nat
      BY <2>4 DEF Apply
    <3> QED BY <2>4, <3>1, <3>2, <3>3 DEF Apply
  <2>5. ASSUME NEW r \in Runs, Record(r) PROVE TypeOK'
    BY <2>5 DEF Record, Goes, Phases
  <2>6. ASSUME NEW r \in Runs, Chain(r) PROVE TypeOK'
    <3>1. CASE Due
      BY <3>1, <2>6, <2>0, StartedWaits DEF Chain
    <3>2. CASE ~Due
      BY <3>2, <2>6, <2>0 DEF Chain, Goes
    <3> QED BY <3>1, <3>2
  <2>7. CASE Reconcile
    BY <2>7, StartedWaits DEF Reconcile, List, StartListed
  <2>8. CASE PersonLabels
    BY <2>8, StartedWaits DEF PersonLabels, Outside
  <2>9. CASE PersonEdits
    BY <2>9 DEF PersonEdits, Outside
  <2>10. ASSUME NEW r \in Runs, Lost(r) PROVE TypeOK'
    BY <2>10, <2>0 DEF Lost, Goes, Outside
  <2>11. CASE UNCHANGED rvars
    BY <2>11 DEF rvars
  <2> QED
    BY <2>1, <2>2, <2>3, <2>4, <2>5, <2>6, <2>7, <2>8, <2>9, <2>10, <2>11 DEF Next, Run
<1> QED
  BY <1>1, <1>2, PTL DEF Spec

-----------------------------------------------------------------------------
\* A run past its apply read an input that was applied.
Applied == \A r \in Runs : phase[r] \in {"applied", "recorded"} => read[r] \in done

\* Whatever dies half-way, the record the line writes names an input whose
\* step was applied (RecordIsOfDone).
THEOREM RecordNamesDone == Spec => []RecordIsOfDone
<1> DEFINE IInv == RecordIsOfDone /\ Applied
<1>1. Init => IInv
  BY DEF Init, RecordIsOfDone, Applied
<1>2. TypeOK /\ IInv /\ [Next]_rvars => IInv'
  <2> SUFFICES ASSUME TypeOK, IInv, [Next]_rvars PROVE IInv'
    OBVIOUS
  <2> USE DEF TypeOK, RecordIsOfDone, Applied
  <2>0. ASSUME NEW p \in [Runs -> Phases], Started(p), UNCHANGED <<record, read, done>>,
               \A r \in Runs : p[r] \in {"none", phase[r]}
        PROVE IInv'
    <3>1. \A r \in Runs : phase'[r] \in {"waits", "none", phase[r]}
      BY <2>0, StartedWaits
    <3> QED BY <3>1, <2>0
  <2>1. ASSUME NEW r \in Runs, Ask(r) PROVE IInv'
    BY <2>1 DEF Ask, Goes
  <2>2. ASSUME NEW r \in Runs, Judge(r) PROVE IInv'
    BY <2>2 DEF Judge, Goes
  <2>3. ASSUME NEW r \in Runs, JudgeEnds(r) PROVE IInv'
    BY <2>3 DEF JudgeEnds, Goes
  <2>4. ASSUME NEW r \in Runs, Apply(r) PROVE IInv'
    BY <2>4 DEF Apply, Goes
  <2>5. ASSUME NEW r \in Runs, Record(r) PROVE IInv'
    BY <2>5 DEF Record, Goes
  <2>6. ASSUME NEW r \in Runs, Chain(r) PROVE IInv'
    <3>1. CASE Due
      <4>1. [phase EXCEPT ![r] = "none"] \in [Runs -> Phases]
        BY DEF Phases
      <4> QED BY <3>1, <4>1, <2>6, <2>0 DEF Chain
    <3>2. CASE ~Due
      BY <3>2, <2>6 DEF Chain, Goes
    <3> QED BY <3>1, <3>2
  <2>7. CASE Reconcile
    BY <2>7, <2>0 DEF Reconcile, List, StartListed
  <2>8. CASE PersonLabels
    BY <2>8, <2>0 DEF PersonLabels
  <2>9. CASE PersonEdits
    BY <2>9 DEF PersonEdits
  <2>10. ASSUME NEW r \in Runs, Lost(r) PROVE IInv'
    BY <2>10 DEF Lost, Goes
  <2>11. CASE UNCHANGED rvars
    BY <2>11 DEF rvars
  <2> QED
    BY <2>1, <2>2, <2>3, <2>4, <2>5, <2>6, <2>7, <2>8, <2>9, <2>10, <2>11 DEF Next, Run
<1> QED
  BY <1>1, <1>2, TypeCorrect, PTL DEF Spec

-----------------------------------------------------------------------------
\* A run that will act on a step due: one that waits will find it so, one
\* that asked knows it, and one that acts asks again at its end.
Going(r) == phase[r] # "none" /\ (phase[r] = "asked" => read[r] # 0)

LeftToGo == Due /\ ~missed => \E r \in Runs : Going(r)

\* With no run of the issue and no event missed, its step is acted on
\* (QuietIsActed): asking early, a replaced run, a record written late each
\* leave a run to go on.
THEOREM EventsDrive == Spec => []QuietIsActed
<1>1. Init => LeftToGo
  BY DEF Init, LeftToGo, Going
<1>2. TypeOK /\ LeftToGo /\ [Next]_rvars => LeftToGo'
  <2> SUFFICES ASSUME TypeOK, LeftToGo, [Next]_rvars, Due', ~missed'
               PROVE  \E r \in Runs : Going(r)'
    BY DEF LeftToGo
  <2> USE DEF TypeOK, LeftToGo, Going
  <2>0. ASSUME NEW p \in [Runs -> Phases], Started(p) PROVE \E r \in Runs : Going(r)'
    BY <2>0, StartedWaits
  <2>1. ASSUME NEW r \in Runs, Ask(r) PROVE \E q \in Runs : Going(q)'
    <3>1. Due /\ read'[r] = input /\ input # 0
      BY <2>1 DEF Ask, Due
    <3> QED BY <2>1, <3>1 DEF Ask, Goes
  <2>2. ASSUME NEW r \in Runs, Judge(r) PROVE \E q \in Runs : Going(q)'
    <3>1. Due /\ ~missed
      BY <2>2 DEF Judge, Due
    <3>2. PICK q \in Runs : Going(q)
      BY <3>1
    <3>3. CASE read[r] # 0
      BY <2>2, <3>1, <3>3 DEF Judge, Goes
    <3>4. CASE read[r] = 0
      <4>1. q # r
        BY <2>2, <3>2, <3>4 DEF Judge
      <4> QED BY <2>2, <3>2, <3>4, <4>1 DEF Judge, Goes
    <3> QED BY <3>3, <3>4
  <2>3. ASSUME NEW r \in Runs, JudgeEnds(r) PROVE \E q \in Runs : Going(q)'
    BY <2>3 DEF JudgeEnds, Goes
  <2>4. ASSUME NEW r \in Runs, Apply(r) PROVE \E q \in Runs : Going(q)'
    BY <2>4 DEF Apply, Goes
  <2>5. ASSUME NEW r \in Runs, Record(r) PROVE \E q \in Runs : Going(q)'
    BY <2>5 DEF Record, Goes
  <2>6. ASSUME NEW r \in Runs, Chain(r) PROVE \E q \in Runs : Going(q)'
    <3>1. Due
      BY <2>6 DEF Chain, Due
    <3>2. [phase EXCEPT ![r] = "none"] \in [Runs -> Phases]
      BY DEF Phases
    <3> QED BY <3>1, <3>2, <2>6, <2>0 DEF Chain
  <2>7. CASE List
    BY <2>7 DEF List, Due
  <2>8. CASE StartListed
    <3>1. CASE Busy # {}
      BY <2>8, <3>1 DEF StartListed, Due
    <3>2. CASE Busy = {}
      BY <2>8, <3>2, <2>0 DEF StartListed
    <3> QED BY <3>1, <3>2
  <2>9. CASE PersonLabels
    BY <2>9, <2>0 DEF PersonLabels
  <2>10. CASE PersonEdits
    BY <2>10 DEF PersonEdits
  <2>11. ASSUME NEW r \in Runs, Lost(r) PROVE \E q \in Runs : Going(q)'
    BY <2>11 DEF Lost
  <2>12. CASE UNCHANGED rvars
    BY <2>12 DEF rvars, Due
  <2> QED
    BY <2>1, <2>2, <2>3, <2>4, <2>5, <2>6, <2>7, <2>8, <2>9, <2>10, <2>11, <2>12
       DEF Next, Run, Reconcile
<1>3. LeftToGo => QuietIsActed
  BY DEF LeftToGo, QuietIsActed, Busy, Going
<1> QED
  BY <1>1, <1>2, <1>3, TypeCorrect, PTL DEF Spec
=============================================================================
