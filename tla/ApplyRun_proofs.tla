--------------------------- MODULE ApplyRun_proofs ---------------------------
(***************************************************************************)
(* For any runs, tries, caps, failures and number of applies: the apply of *)
(* a run keeps its types, writes no word twice, records only what is       *)
(* there, and implements RunPromise.                                       *)
(*                                                                         *)
(* The inductive invariant says what a call under way may count on: the    *)
(* intention it is at is not recorded, its comment or issue is not there   *)
(* when one is about to be posted, and what must come first is there       *)
(* before any of the run's words is.                                       *)
(***************************************************************************)
EXTENDS ApplyRun, WellFoundedInduction, TLAPS

Commits == {"role", "run", "person"}
Results == {"none", "pass", "external", "block", "not-pushed", "moved-on", "died"}

-----------------------------------------------------------------------------
(* Least numbers, and the commits of a branch.                             *)

LtRel == {ss \in Nat \X Nat : ss[1] < ss[2]}

LEMMA LtFounded == IsWellFoundedOn(LtRel, Nat)
  BY NatLessThanWellFounded, Zenon DEF OpToRel, LtRel

LEMMA LeastOf ==
    ASSUME NEW S \in SUBSET Nat, S # {}
    PROVE  \E m \in S : \A n \in S : m =< n
<1>1. PICK m \in S : \A n \in S : ~ (<<n, m>> \in LtRel)
  BY LtFounded, WFMin
<1>2. ASSUME NEW n \in S, n < m PROVE <<n, m>> \in LtRel
  <2>1. <<n, m>> \in Nat \X Nat
    OBVIOUS
  <2>2. <<n, m>>[1] = n /\ <<n, m>>[2] = m
    OBVIOUS
  <2> QED BY <1>2, <2>1, <2>2, Zenon DEF LtRel
<1>3. \A n \in S : ~ (n < m)
  BY <1>1, <1>2, Zenon
<1>4. \A n \in S : m =< n
  BY <1>3
<1> QED BY <1>4

LEMMA SetOfAppend ==
    ASSUME NEW S, NEW s \in Seq(S), NEW x \in S
    PROVE  ToSet(Append(s, x)) = ToSet(s) \cup {x}
<1>1. Len(Append(s, x)) = Len(s) + 1 /\ Len(s) \in Nat
  OBVIOUS
<1>2. \A n \in DOMAIN s : n \in DOMAIN Append(s, x) /\ Append(s, x)[n] = s[n]
  OBVIOUS
<1>3. Append(s, x)[Len(s) + 1] = x
  OBVIOUS
<1>4. DOMAIN Append(s, x) = DOMAIN s \cup {Len(s) + 1}
  OBVIOUS
<1> QED BY <1>1, <1>2, <1>3, <1>4 DEF ToSet

-----------------------------------------------------------------------------
(* The run judged, and the next of its intentions.                         *)

RunOK ==
    /\ judged \in Runs
    /\ run \in [applied : SUBSET Idx, written : BOOLEAN, committed : Seq(Commits),
                mr : BOOLEAN, pushed : BOOLEAN]

LEMMA JudgedKinds ==
    ASSUME judged \in Runs
    PROVE  /\ Mode \in Modes /\ Idx \in SUBSET Nat /\ 0 \notin Idx
           /\ \A i \in Idx : Kind(i) \in Patches \cup Posts
  BY ApplyAssumption DEF Mode, Idx, Kind

LEMMA NextIsPending ==
    ASSUME judged \in Runs, Pending # {}
    PROVE  NextOne \in Pending /\ (Before # {} => NextOne \in Before)
<1>1. Pending \in SUBSET Nat /\ Before \in SUBSET Nat /\ Before \subseteq Pending
  BY JudgedKinds DEF Pending, Before
<1>2. CASE Before # {}
  <2>1. \E i \in Before : \A j \in Before : i =< j
    BY <1>1, <1>2, LeastOf
  <2>2. NextOne = CHOOSE i \in Before : \A j \in Before : i =< j
    BY <1>2 DEF NextOne
  <2>3. NextOne \in Before
    BY <2>1, <2>2
  <2> QED BY <1>1, <2>3
<1>3. CASE Before = {}
  <2>1. \E i \in Pending : \A j \in Pending : i =< j
    BY <1>1, LeastOf
  <2>2. NextOne = CHOOSE i \in Pending : \A j \in Pending : i =< j
    BY <1>3 DEF NextOne
  <2> QED BY <1>3, <2>1, <2>2
<1> QED BY <1>2, <1>3

\* The words of a run that pushes or marks its Draft come once that is there.
FirstThere == Ended /\ Mode \in {"push", "ready"} => Landed

LEMMA WordsComeAfter ==
    ASSUME RunOK, Applying, Kind(NextOne) \in Posts,
           \A i \in run.applied : Kind(i) \in Patches => run.written,
           Mode = "push" /\ run.pushed => "run" \in ToSet(origin)
    PROVE  FirstThere
<1> SUFFICES ASSUME Ended, Mode \in {"push", "ready"} PROVE Landed
  BY DEF FirstThere
<1>1. NextOne \in Pending /\ (Before # {} => NextOne \in Before)
  BY NextIsPending DEF RunOK, Applying
<1>2. Posts \cap Patches = {}
  BY DEF Posts, Patches
<1>3. Later(NextOne)
  BY <1>2 DEF Later
<1>4. Before = {}
  BY <1>1, <1>3 DEF Before
<1>5. ~(PushDue \/ ReadyDue)
  BY <1>4 DEF Applying
<1>6. CASE Mode = "ready"
  BY <1>5, <1>6 DEF ReadyDue, Landed
<1>7. CASE Mode = "push"
  <2>1. PICK i \in Idx : Kind(i) \notin Posts
    BY <1>7 DEF Ended, Words
  <2>2. Kind(i) \in Patches
    BY <2>1, JudgedKinds DEF RunOK
  <2>3. i \in run.applied
    BY <1>4, <2>2 DEF Before, Pending, Later
  <2>4. run.pushed
    BY <2>2, <2>3, <1>5, <1>7 DEF PushDue
  <2> QED BY <2>4, <1>7 DEF Landed
<1> QED BY <1>6, <1>7

-----------------------------------------------------------------------------
(* What a write does, whatever fails: taken, tried again with nothing      *)
(* taken, or the end of the run with its effect there or not.              *)

Wrote(Taken, q, r) ==
    \/ Taken /\ Go(q) /\ UNCHANGED result
    \/ /\ NotWritten /\ proc.try < Tries
       /\ proc' = [proc EXCEPT !.try = @ + 1] /\ UNCHANGED result
    \/ (Taken \/ NotWritten) /\ Ends(r)

Kept == UNCHANGED <<judged, attempts>> /\ faults' \in {faults, faults + 1}

LEMMA WriteShape ==
    ASSUME Post \/ Triage \/ State \/ MarkReady \/ OpenMergeRequest \/ Record \/ PostDiff
    PROVE  Kept
  BY DEF Post, Triage, State, MarkReady, OpenMergeRequest, Record, PostDiff, Write, Kept, Fine, Fault

LEMMA PostShape ==
    ASSUME Post
    PROVE  /\ At("post") /\ UNCHANGED disk
           /\ Wrote(Posted, IF Kind(proc.i) = "issue" THEN "triage" ELSE "save", "external")
  BY DEF Post, Write, Wrote, Again, MayBeTaken

LEMMA TriageShape ==
    ASSUME Triage
    PROVE  At("triage") /\ UNCHANGED disk /\ Wrote(Finished(1), "state", "external")
  BY DEF Triage, Write, Wrote, Again, MayBeTaken

LEMMA StateShape ==
    ASSUME State
    PROVE  At("state") /\ UNCHANGED disk /\ Wrote(Finished(2), "save", "external")
  BY DEF State, Write, Wrote, Again, MayBeTaken

LEMMA MarkReadyShape ==
    ASSUME MarkReady
    PROVE  At("ready") /\ UNCHANGED disk /\ Wrote(Marked, "next", "external")
  BY DEF MarkReady, Write, Wrote, Again, MayBeTaken

LEMMA OpenShape ==
    ASSUME OpenMergeRequest
    PROVE  /\ At("mr") /\ UNCHANGED clone /\ Wrote(Opened, "opened", "external")
           /\ run' \in {run, [run EXCEPT !.committed = clone.branch]}
  BY DEF OpenMergeRequest, Write, Wrote, Again, MayBeTaken

LEMMA RecordShape ==
    ASSUME Record
    PROVE  At("record") /\ UNCHANGED disk /\ Wrote(Recorded, "next", "block")
  BY DEF Record, Write, Wrote, Again, MayBeTaken

LEMMA DiffShape ==
    ASSUME PostDiff
    PROVE  At("diff") /\ UNCHANGED disk /\ Wrote(Diffed, "pushed", "external")
  BY DEF PostDiff, Write, Wrote, Again, MayBeTaken

-----------------------------------------------------------------------------
(* Types.                                                                  *)

ProcT  == [at : Ats, i : Idx \cup {0}, try : 1..Tries, opened : Nat]
RunT   == [applied : SUBSET Idx, written : BOOLEAN, committed : Seq(Commits),
           mr : BOOLEAN, pushed : BOOLEAN]
CloneT == [branch : Seq(Commits), away : BOOLEAN, changed : SUBSET Idx]
MergeT == [open : 0..1, draft : BOOLEAN, record : BOOLEAN, diff : BOOLEAN]

Typed ==
    /\ judged \in Runs /\ run \in RunT /\ proc \in ProcT /\ clone \in CloneT
    /\ origin \in Seq(Commits) /\ copies \in [Idx -> Nat] /\ finished \in [Idx -> 0..2]
    /\ merge \in MergeT /\ result \in Results /\ faults \in Nat /\ attempts \in Nat

LEMMA TypedIsTypeOK == Typed <=> TypeOK
  BY DEF Typed, TypeOK, RunT, ProcT, CloneT, MergeT, Commits, Results

LEMMA NoProcTyped == NoProc \in ProcT
  BY ApplyAssumption DEF NoProc, ProcT, Ats

LEMMA GoTyped ==
    ASSUME Typed, NEW q \in Ats, Go(q)
    PROVE  proc' \in ProcT
<1>1. proc.at \in Ats /\ proc.i \in Idx \cup {0} /\ proc.opened \in Nat /\ proc.opened + 1 \in Nat
  BY DEF Typed, ProcT
<1>2. 1 \in 1..Tries
  BY ApplyAssumption
<1>3. PICK n \in Nat : proc' = [proc EXCEPT !.at = q, !.try = 1, !.opened = n]
  BY <1>1 DEF Go
<1>4. proc' = [at |-> q, i |-> proc.i, try |-> 1, opened |-> n]
  BY <1>3 DEF Typed, ProcT
<1> QED BY <1>1, <1>2, <1>4 DEF ProcT

LEMMA WroteTyped ==
    ASSUME Typed, NEW q \in Ats, NEW r \in Results,
           \/ Go(q) /\ UNCHANGED result
           \/ proc.try < Tries /\ proc' = [proc EXCEPT !.try = @ + 1] /\ UNCHANGED result
           \/ Ends(r)
    PROVE  proc' \in ProcT /\ result' \in Results
<1>1. CASE Go(q) /\ UNCHANGED result
  BY <1>1, GoTyped DEF Typed
<1>2. CASE proc.try < Tries /\ proc' = [proc EXCEPT !.try = @ + 1] /\ UNCHANGED result
  <2>1. proc.try \in Int /\ proc.try + 1 \in 1..Tries
    BY <1>2, ApplyAssumption DEF Typed, ProcT
  <2> QED BY <1>2, <2>1 DEF Typed, ProcT
<1>3. CASE Ends(r)
  BY <1>3, NoProcTyped DEF Ends
<1> QED BY <1>1, <1>2, <1>3

LEMMA JudgedStays == [Next]_vars => judged' = judged
<1> SUFFICES ASSUME [Next]_vars PROVE judged' = judged
  OBVIOUS
<1>1. CASE Post \/ Triage \/ State \/ MarkReady \/ OpenMergeRequest \/ Record \/ PostDiff
  BY <1>1, WriteShape DEF Kept
<1>2. CASE \/ ApplyPatch \/ Look \/ LookFails \/ Save \/ CommitOwn \/ CommitOwnFails \/ PushOwn
           \/ SavePushed \/ Ready
  BY <1>2 DEF ApplyPatch, Look, LookFails, Unread, Save, CommitOwn, CommitOwnFails, PushOwn,
              SavePushed, Ready
<1>3. CASE \/ Leave \/ Commit \/ CommitFails \/ PushOpen \/ Refused \/ Undo \/ SaveOpened
           \/ Diff \/ End
  BY <1>3 DEF Leave, Commit, CommitFails, Unread, PushOpen, Refused, Undo, SaveOpened, Diff, End
<1>4. CASE Resume \/ Rerun \/ Dies \/ PersonPushes
  BY <1>4 DEF Resume, Rerun, Dies, PersonPushes
<1>5. CASE UNCHANGED vars
  BY <1>5 DEF vars
<1> QED BY <1>1, <1>2, <1>3, <1>4, <1>5 DEF Next, Apply

LEMMA SameJudged ==
    ASSUME judged' = judged
    PROVE  /\ Idx' = Idx /\ Mode' = Mode /\ \A i \in Idx : Kind(i)' = Kind(i)
           /\ RunT' = RunT /\ ProcT' = ProcT /\ CloneT' = CloneT
           /\ Ended' = Ended /\ Words' = Words
  BY DEF Idx, Mode, Kind, RunT, ProcT, CloneT, Ended, Words

LEMMA TypedNext ==
    ASSUME Typed, judged' = judged, run' \in RunT, proc' \in ProcT, clone' \in CloneT,
           origin' \in Seq(Commits), copies' \in [Idx -> Nat], finished' \in [Idx -> 0..2],
           merge' \in MergeT, result' \in Results, faults' \in Nat, attempts' \in Nat
    PROVE  Typed'
  BY SameJudged DEF Typed, MergeT, Commits, Results

LEMMA TypeStep == Typed /\ (At("save") => proc.i \in Idx) /\ [Next]_vars => Typed'
<1> SUFFICES ASSUME Typed, At("save") => proc.i \in Idx, [Next]_vars PROVE Typed'
  OBVIOUS
<1> USE DEF disk, forge
<1>0. judged' = judged
  BY JudgedStays
<1>a. /\ run \in RunT /\ proc \in ProcT /\ clone \in CloneT /\ judged \in Runs
      /\ origin \in Seq(Commits) /\ copies \in [Idx -> Nat] /\ finished \in [Idx -> 0..2]
      /\ merge \in MergeT /\ result \in Results /\ faults \in Nat /\ attempts \in Nat
  BY DEF Typed
<1>b. NoProc \in ProcT /\ Results = {"none", "pass", "external", "block", "not-pushed", "moved-on", "died"}
  BY NoProcTyped DEF Results
<1>c. faults + 1 \in Nat /\ attempts + 1 \in Nat
  BY <1>a
<1>d. Fault => faults' \in Nat
  BY <1>c DEF Fault
<1>e. Unread => Typed'
  BY <1>0, <1>a, <1>b, <1>d, TypedNext DEF Unread, Ends
<1>f. "next" \in Ats /\ "save" \in Ats /\ "triage" \in Ats /\ "state" \in Ats /\ "push" \in Ats
      /\ "pushed" \in Ats /\ "mr" \in Ats /\ "undo" \in Ats /\ "opened" \in Ats
      /\ "record" \in Ats /\ "ready" \in Ats /\ "diff" \in Ats /\ "post" \in Ats
  BY DEF Ats
<1>g. ASSUME NEW q \in Ats, Go(q) PROVE proc' \in ProcT
  BY <1>g, GoTyped
<1>h. ASSUME NEW r \in Results, Ends(r) PROVE proc' \in ProcT /\ result' \in Results
  BY <1>h, <1>b DEF Ends
<1>1. CASE ApplyPatch
  <2>1. NextOne \in Idx
    BY <1>1, <1>a, NextIsPending DEF ApplyPatch, Applying, Pending
  <2>2. proc' \in ProcT /\ result' \in Results
    <3>1. CASE Ends("block")
      BY <3>1, <1>b, <1>h
    <3>2. CASE proc' = [proc EXCEPT !.at = "save", !.i = NextOne] /\ UNCHANGED result
      BY <3>2, <2>1, <1>a, <1>f DEF ProcT
    <3> QED BY <3>1, <3>2, <1>1 DEF ApplyPatch
  <2>3. clone' \in CloneT
    BY <1>1, <2>1, <1>a DEF ApplyPatch, CloneT
  <2> QED BY <1>0, <1>1, <1>a, <2>2, <2>3, TypedNext DEF ApplyPatch
<1>2. CASE Look
  <2>1. NextOne \in Idx
    BY <1>2, <1>a, NextIsPending DEF Look, Applying, Pending
  <2>2. PICK q \in {"save", "triage", "post"} :
           proc' = [proc EXCEPT !.i = NextOne, !.try = 1, !.at = q]
    BY <1>2 DEF Look
  <2>3. 1 \in 1..Tries
    BY ApplyAssumption
  <2>4. proc' \in ProcT
    BY <2>1, <2>2, <2>3, <1>a, <1>f DEF ProcT
  <2> QED BY <1>0, <1>2, <1>a, <2>4, TypedNext DEF Look
<1>3. CASE LookFails
  BY <1>3, <1>e DEF LookFails
<1>4. CASE Post
  <2>1. proc.i \in Idx \/ proc.i = 0
    BY <1>a DEF ProcT
  <2>2. copies' \in [Idx -> Nat] /\ UNCHANGED <<origin, finished, merge>>
    BY <1>4, <1>a, <2>1, PostShape DEF Wrote, Posted, NotWritten
  <2>3. PICK q \in {"triage", "save"} : Wrote(Posted, q, "external")
    BY <1>4, PostShape
  <2>4. proc' \in ProcT /\ result' \in Results
    BY <2>3, <1>b, <1>f, WroteTyped DEF Wrote
  <2> QED BY <1>0, <1>4, <1>a, <1>c, <2>2, <2>4, PostShape, WriteShape, TypedNext DEF Kept
<1>5. CASE Triage
  <2>1. finished' \in [Idx -> 0..2] /\ UNCHANGED <<origin, copies, merge>>
    BY <1>5, <1>a, TriageShape DEF Wrote, Finished, NotWritten
  <2>2. proc' \in ProcT /\ result' \in Results
    BY <1>5, <1>b, <1>f, TriageShape, WroteTyped DEF Wrote
  <2> QED BY <1>0, <1>5, <1>a, <1>c, <2>1, <2>2, TriageShape, WriteShape, TypedNext DEF Kept
<1>6. CASE State
  <2>1. finished' \in [Idx -> 0..2] /\ UNCHANGED <<origin, copies, merge>>
    BY <1>6, <1>a, StateShape DEF Wrote, Finished, NotWritten
  <2>2. proc' \in ProcT /\ result' \in Results
    BY <1>6, <1>b, <1>f, StateShape, WroteTyped DEF Wrote
  <2> QED BY <1>0, <1>6, <1>a, <1>c, <2>1, <2>2, StateShape, WriteShape, TypedNext DEF Kept
<1>7. CASE Save
  <2>1. run' \in RunT
    <3>1. run.applied \cup {proc.i} \in SUBSET Idx /\ proc.i \in Idx
      BY <1>7, <1>a DEF Save, RunT
    <3>2. (run.written \/ Kind(proc.i) \in Patches) \in BOOLEAN
      OBVIOUS
    <3> QED BY <1>7, <1>a, <3>1, <3>2 DEF Save, RunT
  <2> QED BY <1>0, <1>7, <1>a, <1>f, <1>g, <2>1, TypedNext DEF Save
<1>8. CASE CommitOwn
  <2>1. clone' \in CloneT
    <3>1. "run" \in Commits
      BY DEF Commits
    <3>2. clone.branch \in Seq(Commits) /\ clone.away \in BOOLEAN /\ {} \in SUBSET Idx
      BY <1>a DEF CloneT
    <3>3. Append(clone.branch, "run") \in Seq(Commits)
      BY <3>1, <3>2
    <3>4. CASE UNCHANGED clone
      BY <3>4, <1>a
    <3>5. CASE clone' = [clone EXCEPT !.branch = Append(@, "run"), !.changed = {}]
      <4>1. clone' = [branch |-> Append(clone.branch, "run"), away |-> clone.away, changed |-> {}]
        BY <3>5, <1>a DEF CloneT
      <4> QED BY <4>1, <3>2, <3>3 DEF CloneT
    <3> QED BY <1>8, <3>4, <3>5 DEF CommitOwn
  <2>2. proc' \in ProcT /\ result' \in Results
    BY <1>8, <1>a, <1>b, <1>f, <1>g, <1>h DEF CommitOwn
  <2> QED BY <1>0, <1>8, <1>a, <2>1, <2>2, TypedNext DEF CommitOwn
<1>9. CASE CommitOwnFails
  BY <1>9, <1>e DEF CommitOwnFails
<1>10. CASE PushOwn
  <2>1. origin' \in Seq(Commits) /\ UNCHANGED <<copies, finished, merge>>
    BY <1>10, <1>a DEF PushOwn, Pushed, NotWritten, CloneT
  <2>2. proc' \in ProcT /\ result' \in Results /\ faults' \in Nat
    BY <1>10, <1>a, <1>b, <1>d, <1>f, <1>g, <1>h DEF PushOwn, Fine
  <2> QED BY <1>0, <1>10, <1>a, <2>1, <2>2, TypedNext DEF PushOwn
<1>11. CASE SavePushed
  <2>1. run' \in RunT
    BY <1>11, <1>a DEF SavePushed, RunT
  <2> QED BY <1>0, <1>11, <1>a, <1>f, <1>g, <2>1, TypedNext DEF SavePushed
<1>12. CASE Ready
  BY <1>0, <1>12, <1>a, <1>f, <1>g, TypedNext DEF Ready
<1>13. CASE MarkReady
  <2>1. merge' \in MergeT /\ UNCHANGED <<origin, copies, finished>>
    BY <1>13, <1>a, MarkReadyShape DEF Wrote, Marked, NotWritten, MergeT
  <2>2. proc' \in ProcT /\ result' \in Results
    BY <1>13, <1>b, <1>f, MarkReadyShape, WroteTyped DEF Wrote
  <2> QED BY <1>0, <1>13, <1>a, <1>c, <2>1, <2>2, MarkReadyShape, WriteShape, TypedNext DEF Kept
<1>14. CASE Leave
  BY <1>0, <1>14, <1>a, <1>b, <1>h, TypedNext DEF Leave
<1>15. CASE Commit
  <2>1. clone' \in CloneT
    <3>1. <<"run">> \in Seq(Commits) /\ <<>> \in Seq(Commits)
      BY DEF Commits
    <3>2. CASE UNCHANGED clone
      BY <3>2, <1>a
    <3>3. CASE clone' = [branch |-> <<"run">>, away |-> TRUE, changed |-> {}]
      BY <3>1, <3>3 DEF CloneT
    <3>4. CASE clone' = [clone EXCEPT !.branch = IF clone.away THEN @ ELSE <<>>]
      BY <3>1, <3>4, <1>a DEF CloneT
    <3> QED BY <1>15, <3>2, <3>3, <3>4 DEF Commit
  <2>2. proc' \in ProcT /\ result' \in Results
    BY <1>15, <1>a, <1>f, <1>g DEF Commit
  <2> QED BY <1>0, <1>15, <1>a, <2>1, <2>2, TypedNext DEF Commit
<1>16. CASE CommitFails
  <2>1. CASE Unread
    BY <2>1, <1>e
  <2>2. CASE Ends("external") /\ UNCHANGED <<judged, disk, forge, faults, attempts>>
    BY <1>0, <2>2, <1>a, <1>b, <1>h, TypedNext
  <2> QED BY <1>16, <2>1, <2>2 DEF CommitFails
<1>17. CASE PushOpen
  <2>1. clone' \in CloneT /\ run' \in RunT
    BY <1>17, <1>a DEF PushOpen, CloneT, RunT
  <2>2. origin' \in Seq(Commits) /\ UNCHANGED <<copies, finished, merge>>
    BY <1>17, <1>a DEF PushOpen, Pushed, NotWritten, CloneT
  <2>3. proc' \in ProcT /\ result' \in Results /\ faults' \in Nat
    BY <1>17, <1>a, <1>b, <1>d, <1>f, <1>g, <1>h DEF PushOpen, Fine
  <2> QED BY <1>0, <1>17, <1>a, <2>1, <2>2, <2>3, TypedNext DEF PushOpen
<1>18. CASE OpenMergeRequest
  <2>1. merge' \in MergeT /\ UNCHANGED <<origin, copies, finished>>
    <3>1. (IF merge.open = 0 THEN 1 ELSE merge.open) \in 0..1
      BY <1>a DEF MergeT
    <3>2. Opened \/ NotWritten
      BY <1>18, OpenShape DEF Wrote
    <3> QED BY <3>1, <3>2, <1>a DEF Opened, NotWritten, MergeT
  <2>2. proc' \in ProcT /\ result' \in Results
    BY <1>18, <1>b, <1>f, OpenShape, WroteTyped DEF Wrote
  <2>3. run' \in RunT
    BY <1>18, <1>a, OpenShape DEF RunT, CloneT
  <2> QED BY <1>0, <1>18, <1>a, <1>c, <2>1, <2>2, <2>3, OpenShape, WriteShape, TypedNext DEF Kept
<1>19. CASE Refused
  <2>1. run' \in RunT
    BY <1>19, <1>a DEF Refused, RunT, CloneT
  <2> QED BY <1>0, <1>19, <1>a, <1>d, <1>f, <1>g, <2>1, TypedNext DEF Refused
<1>20. CASE Undo
  BY <1>0, <1>20, <1>a, <1>b, <1>h, TypedNext DEF Undo
<1>21. CASE SaveOpened
  <2>1. run' \in RunT
    BY <1>21, <1>a DEF SaveOpened, RunT
  <2> QED BY <1>0, <1>21, <1>a, <1>f, <1>g, <2>1, TypedNext DEF SaveOpened
<1>22. CASE Record
  <2>1. merge' \in MergeT /\ UNCHANGED <<origin, copies, finished>>
    BY <1>22, <1>a, RecordShape DEF Wrote, Recorded, NotWritten, MergeT
  <2>2. proc' \in ProcT /\ result' \in Results
    BY <1>22, <1>b, <1>f, RecordShape, WroteTyped DEF Wrote
  <2> QED BY <1>0, <1>22, <1>a, <1>c, <2>1, <2>2, RecordShape, WriteShape, TypedNext DEF Kept
<1>23. CASE Diff
  BY <1>0, <1>23, <1>a, <1>f, <1>g, TypedNext DEF Diff
<1>24. CASE PostDiff
  <2>1. merge' \in MergeT /\ UNCHANGED <<origin, copies, finished>>
    BY <1>24, <1>a, DiffShape DEF Wrote, Diffed, NotWritten, MergeT
  <2>2. proc' \in ProcT /\ result' \in Results
    BY <1>24, <1>b, <1>f, DiffShape, WroteTyped DEF Wrote
  <2> QED BY <1>0, <1>24, <1>a, <1>c, <2>1, <2>2, DiffShape, WriteShape, TypedNext DEF Kept
<1>25. CASE End
  BY <1>0, <1>25, <1>a, <1>b, <1>h, TypedNext DEF End
<1>26. CASE Resume
  <2>1. proc' \in ProcT
    BY <1>26, <1>b, <1>f DEF Resume, Begin, ProcT
  <2> QED BY <1>0, <1>26, <1>a, <1>b, <1>c, <2>1, TypedNext DEF Resume, Start, Begin
<1>27. CASE Rerun
  <2>1. proc' \in ProcT /\ result' \in Results
    BY <1>27, <1>b, <1>f DEF Rerun, Begin, ProcT
  <2>2. run' \in RunT
    BY <1>27 DEF Rerun, Judged, RunT
  <2>3. clone' \in CloneT
    <3>1. <<"role">> \in Seq(Commits) /\ <<>> \in Seq(Commits)
      BY DEF Commits
    <3> QED BY <1>27, <3>1 DEF Rerun, Checkout, CloneT
  <2> QED BY <1>0, <1>27, <1>a, <1>c, <2>1, <2>2, <2>3, TypedNext DEF Rerun, Start
<1>28. CASE Dies
  <2>1. origin' \in Seq(Commits)
    BY <1>28, <1>a DEF Dies, CloneT
  <2> QED BY <1>0, <1>28, <1>a, <1>b, <1>d, <1>h, <2>1, TypedNext DEF Dies
<1>29. CASE PersonPushes
  <2>1. origin' \in Seq(Commits)
    BY <1>29, <1>a DEF PersonPushes, Commits
  <2> QED BY <1>0, <1>29, <1>a, <1>d, <2>1, TypedNext DEF PersonPushes
<1>30. CASE UNCHANGED vars
  BY <1>0, <1>30, <1>a, TypedNext DEF vars
<1> QED
  BY <1>1, <1>2, <1>3, <1>4, <1>5, <1>6, <1>7, <1>8, <1>9, <1>10, <1>11, <1>12, <1>13, <1>14, <1>15,
     <1>16, <1>17, <1>18, <1>19, <1>20, <1>21, <1>22, <1>23, <1>24, <1>25, <1>26, <1>27, <1>28, <1>29,
     <1>30 DEF Next, Apply

-----------------------------------------------------------------------------
(* The inductive invariant.                                                *)

AtWord == {"post", "triage", "state"}
Plain  == {"next", "push", "pushed", "ready", "mr", "undo", "opened", "record", "diff"}
HasRun == "run" \in ToSet(origin)

\* What an intention of words is when it may be recorded.
Recordable(i) ==
    /\ copies[i] > 0 \/ Kind(i) = "issue"
    /\ Kind(i) = "issue" /\ copies[i] > 0 => finished[i] = 2

ProcOK ==
    /\ proc.at = "idle" => proc = NoProc
    /\ proc.at # "idle" => result = "none"
    /\ proc.at \in AtWord \cup {"save"} => proc.i \in Pending
    /\ proc.at \in AtWord => Kind(proc.i) \in Posts /\ FirstThere
    /\ proc.at = "post" /\ Kind(proc.i) \in {"comment", "issue"} => copies[proc.i] = 0
    /\ proc.at \in {"triage", "state"} => Kind(proc.i) = "issue" /\ copies[proc.i] > 0
    /\ proc.at = "triage" => finished[proc.i] < 2
    /\ proc.at = "state" => finished[proc.i] = 1
    /\ proc.at = "save" /\ Kind(proc.i) \in Posts => Recordable(proc.i)

WordsOK ==
    /\ \A i \in Idx : copies[i] = 0 => finished[i] = 0
    /\ \A i \in Idx : Kind(i) \in Posts \ {"reply"} => copies[i] =< 1
    /\ \A i \in run.applied : Kind(i) \in Posts => Recordable(i)
    /\ \A i \in run.applied : Kind(i) \in Patches => run.written

PlaceOK ==
    /\ proc.at = "push" /\ Mode = "push" => "run" \in ToSet(clone.branch)
    /\ proc.at = "pushed" => IF Mode = "push" THEN HasRun ELSE merge.diff
    /\ proc.at = "diff" => Mode = "patch"
    /\ proc.at = "opened" => merge.open = 1
    /\ Mode = "push" /\ run.pushed => HasRun
    /\ Mode = "patch" /\ run.pushed => merge.diff
    /\ run.mr => merge.open = 1

Inv == Typed /\ ProcOK /\ WordsOK /\ PlaceOK

LEMMA InitInv == Init => Inv
<1> SUFFICES ASSUME Init PROVE Inv
  OBVIOUS
<1>1. judged \in Runs /\ run = Judged /\ proc = NoProc /\ clone = Checkout(origin)
      /\ copies = [i \in Idx |-> 0] /\ finished = [i \in Idx |-> 0]
      /\ merge = [open |-> IF Mode = "open" THEN 0 ELSE 1, draft |-> Mode = "ready",
                  record |-> FALSE, diff |-> FALSE]
      /\ result = "none" /\ faults = 0 /\ attempts = 0
  BY DEF Init
<1>2. origin \in Seq(Commits)
  <2>1. <<"role">> \in Seq(Commits) /\ <<>> \in Seq(Commits)
    BY DEF Commits
  <2> QED BY <2>1 DEF Init
<1>3. run \in RunT
  <2>1. <<>> \in Seq(Commits)
    OBVIOUS
  <2> QED BY <1>1, <2>1 DEF Judged, RunT
<1>4. clone \in CloneT
  <2>1. <<>> \in Seq(Commits)
    OBVIOUS
  <2> QED BY <1>1, <1>2, <2>1 DEF Checkout, CloneT
<1>5. copies \in [Idx -> Nat] /\ finished \in [Idx -> 0..2] /\ merge \in MergeT
  BY <1>1 DEF MergeT
<1>6. Typed
  BY <1>1, <1>2, <1>3, <1>4, <1>5, NoProcTyped DEF Typed, Results
<1>7. ProcOK
  BY <1>1 DEF ProcOK, NoProc, AtWord
<1>8. WordsOK
  BY <1>1 DEF WordsOK, Judged
<1>9. PlaceOK
  BY <1>1 DEF PlaceOK, Judged, NoProc
<1> QED BY <1>6, <1>7, <1>8, <1>9 DEF Inv

\* What each step does on the forge.
LEMMA ForgeStep ==
    ASSUME Typed, [Next]_vars
    PROVE  /\ \/ UNCHANGED origin
              \/ At("push") /\ origin' = clone.branch
              \/ origin' = Append(origin, "person")
           /\ UNCHANGED <<copies, finished>> \/ Post \/ Triage \/ State
           /\ UNCHANGED merge \/ (At("ready") /\ Marked) \/ (At("mr") /\ Opened) \/ Recorded \/ Diffed
<1> USE DEF forge
<1>1. CASE MarkReady \/ OpenMergeRequest \/ Record \/ PostDiff
  BY <1>1, MarkReadyShape, OpenShape, RecordShape, DiffShape
     DEF Wrote, Marked, Opened, Recorded, Diffed, NotWritten
<1>2. CASE Post \/ Triage \/ State
  BY <1>2, PostShape, TriageShape, StateShape DEF Wrote, Posted, Finished, NotWritten
<1>3. CASE \/ ApplyPatch \/ Look \/ LookFails \/ Save \/ CommitOwn \/ CommitOwnFails \/ SavePushed \/ Ready
           \/ Leave \/ Commit \/ CommitFails \/ Refused \/ Undo \/ SaveOpened \/ Diff \/ End
  BY <1>3 DEF ApplyPatch, Look, LookFails, Unread, Save, CommitOwn, CommitOwnFails, SavePushed, Ready,
              Leave, Commit, CommitFails, Refused, Undo, SaveOpened, Diff, End
<1>4. CASE PushOwn \/ PushOpen
  BY <1>4 DEF PushOwn, PushOpen, Pushed, NotWritten
<1>5. CASE Resume \/ Rerun \/ Dies \/ PersonPushes
  BY <1>5 DEF Resume, Rerun, Dies, PersonPushes
<1>6. CASE UNCHANGED vars
  BY <1>6 DEF vars
<1> QED BY <1>1, <1>2, <1>3, <1>4, <1>5, <1>6 DEF Next, Apply

\* What is there stays there.
LEMMA PlaceStays ==
    ASSUME Inv, [Next]_vars
    PROVE  /\ Mode = "push" /\ HasRun => HasRun'
           /\ merge.open = 1 => merge'.open = 1
           /\ merge.diff => merge'.diff
           /\ ~merge.draft => ~merge'.draft
           /\ FirstThere => FirstThere'
<1>0. judged' = judged /\ Mode' = Mode /\ Ended' = Ended
  BY JudgedStays, SameJudged
<1>1. Mode = "push" /\ HasRun => HasRun'
  <2>1. CASE origin' = Append(origin, "person")
    <3>1. ToSet(origin') = ToSet(origin) \cup {"person"}
      BY <2>1, SetOfAppend DEF Inv, Typed, Commits
    <3> QED BY <3>1 DEF HasRun
  <2>2. CASE At("push") /\ origin' = clone.branch
    BY <2>2 DEF Inv, PlaceOK, HasRun, At
  <2>3. CASE UNCHANGED origin
    BY <2>3 DEF HasRun
  <2> QED BY <2>1, <2>2, <2>3, ForgeStep DEF Inv
<1>2. /\ merge.open = 1 => merge'.open = 1
      /\ merge.diff => merge'.diff
      /\ ~merge.draft => ~merge'.draft
  <2>1. UNCHANGED merge \/ Marked \/ Opened \/ Recorded \/ Diffed
    BY ForgeStep DEF Inv
  <2>2. merge \in MergeT
    BY DEF Inv, Typed
  <2> QED BY <2>1, <2>2 DEF Marked, Opened, Recorded, Diffed, MergeT
<1>3. FirstThere => FirstThere'
  BY <1>0, <1>1, <1>2 DEF FirstThere, Landed, HasRun
<1> QED BY <1>1, <1>2, <1>3

\* The steps that neither begin an intention nor write one end the process,
\* or go on to what is not an intention's.
OfIntents == ApplyPatch \/ Look \/ Post \/ Triage \/ State \/ PersonPushes \/ UNCHANGED vars

LEMMA ProcShape ==
    ASSUME Inv, [Next]_vars, ~OfIntents
    PROVE  proc' = NoProc \/ (proc'.at \in Plain /\ result' = "none")
<1>1. proc \in ProcT /\ (proc.at # "idle" => result = "none")
  BY DEF Inv, Typed, ProcOK
<1>2. \A q : Go(q) => proc'.at = q
  BY <1>1 DEF Go, ProcT
<1>3. ASSUME NEW q \in Plain, NEW r, NEW p \in Plain, At(p),
             \/ Go(q) /\ UNCHANGED result
             \/ proc' = [proc EXCEPT !.try = @ + 1] /\ UNCHANGED result
             \/ Ends(r)
      PROVE  proc' = NoProc \/ (proc'.at \in Plain /\ result' = "none")
  BY <1>1, <1>2, <1>3 DEF Plain, Ends, At, ProcT
<1>4. CASE MarkReady
  BY <1>4, <1>3, MarkReadyShape DEF Wrote, Plain
<1>5. CASE OpenMergeRequest
  BY <1>5, <1>3, OpenShape DEF Wrote, Plain
<1>6. CASE Record
  BY <1>6, <1>3, RecordShape DEF Wrote, Plain
<1>7. CASE PostDiff
  BY <1>7, <1>3, DiffShape DEF Wrote, Plain
<1>8. CASE LookFails \/ CommitOwnFails \/ CommitFails \/ Leave \/ Undo \/ End \/ Dies
  BY <1>8 DEF LookFails, CommitOwnFails, CommitFails, Unread, Leave, Undo, End, Dies, Ends
<1>9. CASE Save
  BY <1>9, <1>1, <1>2 DEF Save, At, Plain
<1>10. CASE CommitOwn \/ Commit
  BY <1>10, <1>1, <1>2 DEF CommitOwn, Commit, Proposing, At, Plain, Ends
<1>11. CASE PushOwn \/ PushOpen
  BY <1>11, <1>1, <1>2 DEF PushOwn, PushOpen, At, Plain, Ends
<1>12. CASE SavePushed \/ Ready \/ Refused \/ SaveOpened \/ Diff
  BY <1>12, <1>1, <1>2 DEF SavePushed, Ready, Refused, SaveOpened, Diff, At, Plain
<1>13. CASE Resume \/ Rerun
  BY <1>13 DEF Resume, Rerun, Begin, NoProc, Plain
<1> QED BY <1>4, <1>5, <1>6, <1>7, <1>8, <1>9, <1>10, <1>11, <1>12, <1>13 DEF Next, Apply, OfIntents

LEMMA ProcQuiet ==
    ASSUME proc' = NoProc \/ (proc'.at \in Plain /\ result' = "none")
    PROVE  ProcOK'
  BY DEF ProcOK, NoProc, Plain, AtWord

\* What the words' calls leave as it was.
LEMMA CountsStay ==
    ASSUME Typed, [Next]_vars, judged' = judged, NEW i \in Idx,
           ~((Post \/ Triage \/ State) /\ proc.i = i)
    PROVE  copies'[i] = copies[i] /\ finished'[i] = finished[i]
<1>1. CASE Post
  BY <1>1, PostShape DEF Wrote, Posted, NotWritten, forge, Typed
<1>2. CASE Triage
  BY <1>2, TriageShape DEF Wrote, Finished, NotWritten, forge, Typed
<1>3. CASE State
  BY <1>3, StateShape DEF Wrote, Finished, NotWritten, forge, Typed
<1> QED BY <1>1, <1>2, <1>3, ForgeStep

LEMMA ProcStep == Inv /\ [Next]_vars => ProcOK'
<1> SUFFICES ASSUME Inv, [Next]_vars PROVE ProcOK'
  OBVIOUS
<1>0. /\ judged' = judged /\ Idx' = Idx /\ \A i \in Idx : Kind(i)' = Kind(i)
      /\ FirstThere => FirstThere'
  BY JudgedStays, SameJudged, PlaceStays
<1>a. proc \in ProcT /\ run \in RunT /\ copies \in [Idx -> Nat] /\ finished \in [Idx -> 0..2]
      /\ judged \in Runs
  BY DEF Inv, Typed
<1>b. Posts \cap Patches = {} /\ {"comment", "issue", "label", "reply"} = Posts
  BY DEF Posts, Patches
<1>c. proc' = NoProc => ProcOK'
  BY ProcQuiet
<1>1. CASE ApplyPatch
  <2>0. PICK n : n = NextOne
    OBVIOUS
  <2>1. n \in Pending /\ At("next") /\ Kind(n) \in Patches /\ UNCHANGED run
    BY <1>1, <2>0, <1>a, NextIsPending DEF ApplyPatch, Applying
  <2>2. CASE proc' = NoProc
    BY <2>2, <1>c
  <2>3. CASE proc' = [proc EXCEPT !.at = "save", !.i = n] /\ UNCHANGED result
    <3>1. proc'.at = "save" /\ proc'.i = n /\ result' = "none"
      BY <2>1, <2>3, <1>a DEF ProcT, At, Inv, ProcOK
    <3>2. n \in Pending' /\ Kind(n)' = Kind(n)
      BY <2>1, <1>0 DEF Pending
    <3> QED BY <3>1, <3>2, <2>1, <1>b DEF ProcOK, AtWord
  <2> QED BY <1>1, <2>0, <2>2, <2>3 DEF ApplyPatch, Ends
<1>2. CASE Look
  <2>0. PICK n : n = NextOne
    OBVIOUS
  <2>1. n \in Pending /\ At("next") /\ Kind(n) \in Posts /\ FirstThere
    BY <1>2, <2>0, <1>a, NextIsPending, WordsComeAfter
       DEF Look, Applying, Inv, WordsOK, PlaceOK, HasRun, RunOK, RunT
  <2>2. /\ UNCHANGED <<run, copies, finished, result>>
        /\ proc'.i = n
        /\ proc'.at = IF Found(n) \/ Capped(n) THEN "save"
                      ELSE IF Kind(n) = "issue" /\ copies[n] > 0 THEN "triage" ELSE "post"
    BY <1>2, <2>0, <1>a DEF Look, disk, forge, ProcT
  <2>3. result' = "none" /\ n \in Pending' /\ Kind(n)' = Kind(n) /\ FirstThere' /\ n \in Idx
    BY <2>1, <2>2, <1>0 DEF Pending, Inv, ProcOK, At
  <2>4. copies[n] \in Nat /\ finished[n] \in 0..2
    BY <2>3, <1>a
  <2>5. CASE Found(n) \/ Capped(n)
    <3>1. Recordable(n)'
      BY <2>2, <2>3, <2>4, <2>5 DEF Found, Capped, Recordable
    <3> QED BY <3>1, <2>2, <2>3, <2>5 DEF ProcOK, AtWord
  <2>6. CASE ~(Found(n) \/ Capped(n)) /\ Kind(n) = "issue" /\ copies[n] > 0
    <3>1. finished[n] < 2
      BY <2>4, <2>6 DEF Found
    <3> QED BY <3>1, <2>1, <2>2, <2>3, <2>6 DEF ProcOK, AtWord
  <2>7. CASE ~(Found(n) \/ Capped(n)) /\ ~(Kind(n) = "issue" /\ copies[n] > 0)
    <3>1. Kind(n) \in {"comment", "issue"} => copies[n] = 0
      BY <2>4, <2>7 DEF Found
    <3> QED BY <3>1, <2>1, <2>2, <2>3, <2>7 DEF ProcOK, AtWord
  <2> QED BY <2>5, <2>6, <2>7
<1>3. ASSUME proc.at # "idle", proc' = [proc EXCEPT !.try = @ + 1], UNCHANGED <<result, run, copies, finished>>
      PROVE  ProcOK'
  <2>0. PICK i : i = proc.i
    OBVIOUS
  <2>1. proc'.at = proc.at /\ proc'.i = i
    BY <1>3, <2>0, <1>a DEF ProcT
  <2>2. proc.at \in AtWord \cup {"save"} => Kind(i)' = Kind(i)
    BY <1>0, <2>0 DEF Inv, ProcOK, Pending
  <2>3. Pending' = Pending
    BY <1>0, <1>3 DEF Pending
  <2> QED BY <2>0, <2>1, <2>2, <2>3, <1>0, <1>3 DEF Inv, ProcOK, Recordable, AtWord
<1>4. CASE Post
  <2>0. PICK i : i = proc.i
    OBVIOUS
  <2>1. i \in Idx /\ i \in Pending /\ Kind(i) \in Posts /\ FirstThere /\ result = "none" /\ proc.at = "post"
        /\ (Kind(i) \in {"comment", "issue"} => copies[i] = 0)
    BY <1>4, <2>0, PostShape DEF Inv, ProcOK, At, AtWord, Pending
  <2>2. UNCHANGED run
    BY <1>4, PostShape DEF disk
  <2>3. CASE Posted /\ Go(IF Kind(i) = "issue" THEN "triage" ELSE "save") /\ UNCHANGED result
    <3>1. proc'.i = i /\ proc'.at = IF Kind(i) = "issue" THEN "triage" ELSE "save"
      BY <2>0, <2>3, <1>a DEF Go, ProcT
    <3>2. copies'[i] > 0 /\ finished' = finished
      BY <2>0, <2>1, <2>3, <1>a DEF Posted
    <3>3. i \in Pending' /\ Kind(i)' = Kind(i) /\ result' = "none"
      BY <2>1, <2>2, <2>3, <1>0 DEF Pending
    <3>4. Kind(i) = "issue" => finished[i] = 0
      BY <2>1 DEF Inv, WordsOK
    <3> QED BY <2>1, <3>1, <3>2, <3>3, <3>4, <1>0 DEF ProcOK, AtWord, Recordable
  <2>4. CASE NotWritten /\ proc' = [proc EXCEPT !.try = @ + 1] /\ UNCHANGED result
    BY <2>1, <2>2, <2>4, <1>3 DEF NotWritten, forge
  <2>5. CASE Ends("external")
    BY <2>5, <1>c DEF Ends
  <2> QED BY <1>4, <2>0, <2>3, <2>4, <2>5, PostShape DEF Wrote
<1>5. CASE Triage
  <2>0. PICK i : i = proc.i
    OBVIOUS
  <2>1. i \in Idx /\ i \in Pending /\ Kind(i) = "issue" /\ FirstThere /\ result = "none"
        /\ copies[i] > 0 /\ proc.at = "triage" /\ Kind(i) \in Posts
    BY <1>5, <2>0, TriageShape DEF Inv, ProcOK, At, AtWord, Pending
  <2>2. UNCHANGED run
    BY <1>5, TriageShape DEF disk
  <2>3. CASE Finished(1) /\ Go("state") /\ UNCHANGED result
    <3>1. proc'.i = i /\ proc'.at = "state"
      BY <2>0, <2>3, <1>a DEF Go, ProcT
    <3>2. finished'[i] = 1 /\ copies' = copies
      BY <2>0, <2>1, <2>3, <1>a DEF Finished
    <3>3. i \in Pending' /\ Kind(i)' = Kind(i) /\ result' = "none"
      BY <2>1, <2>2, <2>3, <1>0 DEF Pending
    <3> QED BY <2>1, <3>1, <3>2, <3>3, <1>0 DEF ProcOK, AtWord
  <2>4. CASE NotWritten /\ proc' = [proc EXCEPT !.try = @ + 1] /\ UNCHANGED result
    BY <2>1, <2>2, <2>4, <1>3 DEF NotWritten, forge
  <2>5. CASE Ends("external")
    BY <2>5, <1>c DEF Ends
  <2> QED BY <1>5, <2>3, <2>4, <2>5, TriageShape DEF Wrote
<1>6. CASE State
  <2>0. PICK i : i = proc.i
    OBVIOUS
  <2>1. i \in Idx /\ i \in Pending /\ Kind(i) = "issue" /\ result = "none" /\ copies[i] > 0
        /\ proc.at = "state"
    BY <1>6, <2>0, StateShape DEF Inv, ProcOK, At, AtWord, Pending
  <2>2. UNCHANGED run
    BY <1>6, StateShape DEF disk
  <2>3. CASE Finished(2) /\ Go("save") /\ UNCHANGED result
    <3>1. proc'.i = i /\ proc'.at = "save"
      BY <2>0, <2>3, <1>a DEF Go, ProcT
    <3>2. finished'[i] = 2 /\ copies' = copies
      BY <2>0, <2>1, <2>3, <1>a DEF Finished
    <3>3. i \in Pending' /\ Kind(i)' = Kind(i) /\ result' = "none"
      BY <2>1, <2>2, <2>3, <1>0 DEF Pending
    <3> QED BY <2>1, <3>1, <3>2, <3>3 DEF ProcOK, AtWord, Recordable
  <2>4. CASE NotWritten /\ proc' = [proc EXCEPT !.try = @ + 1] /\ UNCHANGED result
    BY <2>1, <2>2, <2>4, <1>3 DEF NotWritten, forge
  <2>5. CASE Ends("external")
    BY <2>5, <1>c DEF Ends
  <2> QED BY <1>6, <2>3, <2>4, <2>5, StateShape DEF Wrote
<1>7. CASE PersonPushes \/ UNCHANGED vars
  <2>0. PICK i : i = proc.i
    OBVIOUS
  <2>1. UNCHANGED <<run, proc, copies, finished, result>>
    BY <1>7 DEF PersonPushes, disk, forge, vars
  <2>2. proc.at \in AtWord \cup {"save"} => Kind(i)' = Kind(i)
    BY <1>0, <2>0 DEF Inv, ProcOK, Pending
  <2>3. Pending' = Pending
    BY <1>0, <2>1 DEF Pending
  <2>4. NoProc' = NoProc
    BY DEF NoProc
  <2> QED BY <2>0, <2>1, <2>2, <2>3, <2>4, <1>0 DEF Inv, ProcOK, Recordable, AtWord
<1> QED BY <1>1, <1>2, <1>4, <1>5, <1>6, <1>7, ProcShape, ProcQuiet DEF OfIntents

LEMMA SaveShape ==
    ASSUME Inv, Save
    PROVE  /\ run'.applied = run.applied \cup {proc.i}
           /\ run'.written = (run.written \/ Kind(proc.i) \in Patches)
           /\ run'.pushed = run.pushed /\ run'.mr = run.mr
<1>1. PICK w \in BOOLEAN : w = (run.written \/ Kind(proc.i) \in Patches)
  OBVIOUS
<1>2. run' = [run EXCEPT !.applied = @ \cup {proc.i}, !.written = w]
  BY <1>1 DEF Save
<1>3. run \in RunT
  BY DEF Inv, Typed
<1> QED BY <1>1, <1>2, <1>3 DEF RunT

\* What a step leaves of out/run.yaml.
LEMMA RunStep ==
    ASSUME Inv, [Next]_vars
    PROVE  \/ Save
           \/ run'.applied = run.applied /\ run'.written = run.written
           \/ run' = Judged
<1>a. run \in RunT
  BY DEF Inv, Typed
<1>1. CASE Post \/ Triage \/ State \/ MarkReady \/ Record \/ PostDiff
  BY <1>1, PostShape, TriageShape, StateShape, MarkReadyShape, RecordShape, DiffShape DEF disk
<1>2. CASE OpenMergeRequest
  BY <1>2, <1>a, OpenShape DEF RunT
<1>3. CASE \/ ApplyPatch \/ Look \/ LookFails \/ CommitOwn \/ CommitOwnFails \/ PushOwn
           \/ SavePushed \/ Ready
  BY <1>3, <1>a DEF ApplyPatch, Look, LookFails, Unread, CommitOwn, CommitOwnFails, PushOwn,
                    SavePushed, Ready, disk, RunT
<1>4. CASE \/ Leave \/ Commit \/ CommitFails \/ PushOpen \/ Refused \/ Undo \/ SaveOpened
           \/ Diff \/ End
  BY <1>4, <1>a DEF Leave, Commit, CommitFails, Unread, PushOpen, Refused, Undo, SaveOpened,
                    Diff, End, disk, RunT
<1>5. CASE Resume \/ Rerun \/ Dies \/ PersonPushes \/ UNCHANGED vars
  BY <1>5 DEF Resume, Rerun, Dies, PersonPushes, vars, disk
<1> QED BY <1>1, <1>2, <1>3, <1>4, <1>5 DEF Next, Apply

LEMMA WordsStep == Inv /\ [Next]_vars => WordsOK'
<1> SUFFICES ASSUME Inv, [Next]_vars PROVE WordsOK'
  OBVIOUS
<1>0. judged' = judged /\ Idx' = Idx /\ \A i \in Idx : Kind(i)' = Kind(i)
  BY JudgedStays, SameJudged
<1>a. /\ proc \in ProcT /\ run \in RunT /\ copies \in [Idx -> Nat] /\ finished \in [Idx -> 0..2]
      /\ judged \in Runs /\ run.applied \subseteq Idx
  BY DEF Inv, Typed, RunT
<1>b. \A i \in Idx : Kind(i) \in Patches \cup Posts
  BY <1>a, JudgedKinds
<1>c. Posts \cap Patches = {}
  BY DEF Posts, Patches
<1>1. ASSUME NEW i \in Idx
      PROVE  /\ copies'[i] = 0 => finished'[i] = 0
             /\ Kind(i) \in Posts \ {"reply"} => copies'[i] =< 1
  <2>1. CASE ~((Post \/ Triage \/ State) /\ proc.i = i)
    BY <1>0, <2>1, CountsStay DEF Inv, WordsOK
  <2>2. CASE Post /\ proc.i = i
    <3>1. UNCHANGED <<copies, finished>> \/ Posted
      BY <2>2, PostShape DEF Wrote, NotWritten, forge
    <3>2. Kind(i) \in {"comment", "issue"} => copies[i] = 0
      BY <2>2, PostShape DEF Inv, ProcOK, At
    <3>3. CASE Posted
      <4>1. copies'[i] = IF Kind(i) = "label" THEN 1 ELSE copies[i] + 1
        BY <2>2, <3>3, <1>a DEF Posted
      <4>2. copies[i] \in Nat
        BY <1>a
      <4> QED BY <4>1, <4>2, <3>2 DEF Posts
    <3> QED BY <3>1, <3>3 DEF Inv, WordsOK
  <2>3. CASE (Triage \/ State) /\ proc.i = i
    <3>1. copies' = copies
      BY <2>3, TriageShape, StateShape DEF Wrote, Finished, NotWritten, forge
    <3>2. copies[i] > 0
      BY <2>3, TriageShape, StateShape DEF Inv, ProcOK, At
    <3> QED BY <3>1, <3>2 DEF Inv, WordsOK
  <2> QED BY <2>1, <2>2, <2>3
<1>2. ASSUME NEW i \in run'.applied
      PROVE  Kind(i) \in Posts => Recordable(i)'
  <2>1. CASE i \in run.applied
    <3>1. i \in Idx /\ ~((Post \/ Triage \/ State) /\ proc.i = i)
      BY <2>1, <1>a, PostShape, TriageShape, StateShape DEF Inv, ProcOK, Pending, At, AtWord
    <3>2. copies'[i] = copies[i] /\ finished'[i] = finished[i]
      BY <3>1, <1>0, CountsStay DEF Inv
    <3> QED BY <2>1, <3>1, <3>2, <1>0 DEF Inv, WordsOK, Recordable
  <2>2. CASE i \notin run.applied
    <3>1. Save /\ i = proc.i
      BY <2>2, RunStep, SaveShape DEF Judged
    <3>2. UNCHANGED <<copies, finished>> /\ At("save")
      BY <3>1 DEF Save, forge
    <3> QED BY <3>1, <3>2, <1>0 DEF Inv, ProcOK, At, Recordable, Pending
  <2> QED BY <2>1, <2>2
<1>3. ASSUME NEW i \in run'.applied, Kind(i) \in Patches
      PROVE  run'.written
  <2>1. CASE Save
    BY <1>3, <2>1, SaveShape DEF Inv, WordsOK
  <2>2. CASE run'.applied = run.applied /\ run'.written = run.written
    BY <1>3, <2>2 DEF Inv, WordsOK
  <2>3. CASE run' = Judged
    BY <1>3, <2>3 DEF Judged
  <2> QED BY <2>1, <2>2, <2>3, RunStep
<1>4. run'.applied \subseteq Idx
  BY <1>0, TypeStep DEF Inv, ProcOK, At, Pending, Typed, RunT
<1> QED BY <1>0, <1>1, <1>2, <1>3, <1>4 DEF WordsOK

\* What a step marks in out/run.yaml as done, beyond the intentions.
LEMMA MarksStep ==
    ASSUME Inv, [Next]_vars
    PROVE  \/ SavePushed /\ run'.mr = run.mr
           \/ SaveOpened /\ run'.pushed = run.pushed
           \/ run'.pushed = run.pushed /\ run'.mr = run.mr
           \/ run' = Judged
<1>a. run \in RunT
  BY DEF Inv, Typed
<1>1. CASE Post \/ Triage \/ State \/ MarkReady \/ Record \/ PostDiff
  BY <1>1, PostShape, TriageShape, StateShape, MarkReadyShape, RecordShape, DiffShape DEF disk
<1>2. CASE OpenMergeRequest
  BY <1>2, <1>a, OpenShape DEF RunT
<1>3. CASE \/ ApplyPatch \/ Look \/ LookFails \/ CommitOwn \/ CommitOwnFails \/ PushOwn
           \/ SavePushed \/ Ready
  BY <1>3, <1>a DEF ApplyPatch, Look, LookFails, Unread, CommitOwn, CommitOwnFails, PushOwn,
                    SavePushed, Ready, disk, RunT
<1>4. CASE \/ Leave \/ Commit \/ CommitFails \/ PushOpen \/ Refused \/ Undo \/ SaveOpened
           \/ Diff \/ End
  BY <1>4, <1>a DEF Leave, Commit, CommitFails, Unread, PushOpen, Refused, Undo, SaveOpened,
                    Diff, End, disk, RunT
<1>5. CASE Resume \/ Rerun \/ Dies \/ PersonPushes \/ UNCHANGED vars
  BY <1>5 DEF Resume, Rerun, Dies, PersonPushes, vars, disk
<1>6. CASE Save
  BY <1>6, SaveShape
<1> QED BY <1>1, <1>2, <1>3, <1>4, <1>5, <1>6 DEF Next, Apply

\* Where a step leads, of the places PlaceOK speaks of.
LEMMA AtStep ==
    ASSUME Inv, [Next]_vars, proc'.at \in {"push", "pushed", "diff", "opened"}
    PROVE  \/ CommitOwn \/ Commit \/ PushOwn \/ PostDiff \/ Diff \/ OpenMergeRequest
           \/ proc'.at = proc.at /\ UNCHANGED clone
<1>a. proc \in ProcT
  BY DEF Inv, Typed
<1>b. \A q : Go(q) => proc'.at = q
  BY <1>a DEF Go, ProcT
<1>c. NoProc.at = "idle"
  BY DEF NoProc
<1>1. CASE Post \/ Triage \/ State
  BY <1>1, <1>a, <1>b, <1>c, PostShape, TriageShape, StateShape DEF Wrote, Ends, At, ProcT
<1>2. CASE MarkReady \/ Record
  BY <1>2, <1>a, <1>b, <1>c, MarkReadyShape, RecordShape DEF Wrote, Ends, At, ProcT
<1>3. CASE ApplyPatch \/ Look
  BY <1>3, <1>a, <1>c DEF ApplyPatch, Look, Ends, ProcT
<1>4. CASE LookFails \/ CommitOwnFails \/ CommitFails \/ Leave \/ Undo \/ End \/ Dies
  BY <1>4, <1>c DEF LookFails, CommitOwnFails, CommitFails, Unread, Leave, Undo, End, Dies, Ends
<1>5. CASE Save \/ SavePushed \/ Ready \/ Refused \/ SaveOpened
  BY <1>5, <1>b DEF Save, SavePushed, Ready, Refused, SaveOpened
<1>6. CASE PushOpen
  BY <1>6, <1>b, <1>c DEF PushOpen, Ends
<1>7. CASE Resume \/ Rerun
  BY <1>7 DEF Resume, Rerun, Begin, NoProc
<1>8. CASE PersonPushes \/ UNCHANGED vars
  BY <1>8 DEF PersonPushes, vars, disk
<1> QED BY <1>1, <1>2, <1>3, <1>4, <1>5, <1>6, <1>7, <1>8 DEF Next, Apply

LEMMA PlaceStep == Inv /\ [Next]_vars => PlaceOK'
<1> SUFFICES ASSUME Inv, [Next]_vars PROVE PlaceOK'
  OBVIOUS
<1>0. Mode' = Mode
  BY JudgedStays, SameJudged
<1>a. proc \in ProcT /\ run \in RunT /\ clone \in CloneT /\ merge \in MergeT
  BY DEF Inv, Typed
<1>b. \A q : Go(q) => proc'.at = q
  BY <1>a DEF Go, ProcT
<1>c. NoProc.at = "idle"
  BY DEF NoProc
<1>1. proc'.at = "push" /\ Mode = "push" => "run" \in ToSet(clone'.branch)
  <2> SUFFICES ASSUME proc'.at = "push", Mode = "push" PROVE "run" \in ToSet(clone'.branch)
    OBVIOUS
  <2>1. CASE CommitOwn
    <3>1. clone' = [clone EXCEPT !.branch = Append(@, "run"), !.changed = {}]
      BY <2>1, <1>c DEF CommitOwn, Ends
    <3>2. clone'.branch = Append(clone.branch, "run") /\ clone.branch \in Seq(Commits)
      BY <3>1, <1>a DEF CloneT
    <3> QED BY <3>2, SetOfAppend DEF Commits
  <2>2. CASE proc'.at = proc.at /\ UNCHANGED clone
    BY <2>2 DEF Inv, PlaceOK
  <2>3. ~Commit
    BY DEF Commit, Proposing, OpenDue
  <2>4. ~(PushOwn \/ PostDiff \/ Diff \/ OpenMergeRequest)
    BY <1>a, <1>b, <1>c, DiffShape, OpenShape DEF PushOwn, Diff, Wrote, Ends, At, ProcT
  <2> QED BY <2>1, <2>2, <2>3, <2>4, AtStep
<1>2. proc'.at = "pushed" => IF Mode = "push" THEN HasRun' ELSE merge'.diff
  <2> SUFFICES ASSUME proc'.at = "pushed" PROVE IF Mode = "push" THEN HasRun' ELSE merge'.diff
    OBVIOUS
  <2>1. CASE PushOwn
    <3>1. Mode = "push" /\ At("push") /\ origin' = clone.branch
      BY <2>1, <1>c DEF PushOwn, Pushed, Ends
    <3> QED BY <3>1 DEF Inv, PlaceOK, At, HasRun
  <2>2. CASE PostDiff
    <3>1. Mode = "patch" /\ Diffed
      BY <2>2, <1>a, <1>c, DiffShape DEF Wrote, Ends, At, ProcT, Inv, PlaceOK
    <3> QED BY <3>1, <1>a DEF Diffed, MergeT
  <2>3. CASE proc'.at = proc.at
    BY <2>3, PlaceStays DEF Inv, PlaceOK
  <2>4. ~(CommitOwn \/ Commit \/ Diff \/ OpenMergeRequest)
    BY <1>a, <1>b, <1>c, OpenShape DEF CommitOwn, Commit, Diff, Wrote, Ends, At, ProcT
  <2> QED BY <2>1, <2>2, <2>3, <2>4, AtStep
<1>3. proc'.at = "diff" => Mode = "patch"
  <2> SUFFICES ASSUME proc'.at = "diff" PROVE Mode = "patch"
    OBVIOUS
  <2>1. CASE Diff
    BY <2>1 DEF Diff, DiffDue
  <2>2. CASE PostDiff
    BY <2>2, DiffShape DEF At, Inv, PlaceOK
  <2>3. CASE proc'.at = proc.at
    BY <2>3 DEF Inv, PlaceOK
  <2>4. ~(CommitOwn \/ Commit \/ PushOwn \/ OpenMergeRequest)
    BY <1>a, <1>b, <1>c, OpenShape DEF CommitOwn, Commit, PushOwn, Wrote, Ends, At, ProcT
  <2> QED BY <2>1, <2>2, <2>3, <2>4, AtStep
<1>4. proc'.at = "opened" => merge'.open = 1
  <2> SUFFICES ASSUME proc'.at = "opened" PROVE merge'.open = 1
    OBVIOUS
  <2>1. CASE OpenMergeRequest
    <3>1. Opened
      BY <2>1, <1>a, <1>c, OpenShape DEF Wrote, Ends, At, ProcT
    <3> QED BY <3>1, <1>a DEF Opened, MergeT
  <2>2. CASE proc'.at = proc.at
    BY <2>2, PlaceStays DEF Inv, PlaceOK
  <2>3. ~(CommitOwn \/ Commit \/ PushOwn \/ PostDiff \/ Diff)
    BY <1>a, <1>b, <1>c, DiffShape DEF CommitOwn, Commit, PushOwn, Diff, Wrote, Ends, At, ProcT
  <2> QED BY <2>1, <2>2, <2>3, AtStep
<1>5. /\ Mode = "push" /\ run'.pushed => HasRun'
      /\ Mode = "patch" /\ run'.pushed => merge'.diff
      /\ run'.mr => merge'.open = 1
  <2>1. CASE SavePushed /\ run'.mr = run.mr
    BY <2>1, PlaceStays DEF SavePushed, At, Inv, PlaceOK
  <2>2. CASE SaveOpened /\ run'.pushed = run.pushed
    BY <2>2, PlaceStays DEF SaveOpened, At, Inv, PlaceOK
  <2>3. CASE run'.pushed = run.pushed /\ run'.mr = run.mr
    BY <2>3, PlaceStays DEF Inv, PlaceOK
  <2>4. CASE run' = Judged
    BY <2>4 DEF Judged
  <2> QED BY <2>1, <2>2, <2>3, <2>4, MarksStep
<1> QED BY <1>0, <1>1, <1>2, <1>3, <1>4, <1>5 DEF PlaceOK

LEMMA InvStep == Inv /\ [Next]_vars => Inv'
<1>1. Inv => (At("save") => proc.i \in Idx)
  BY DEF Inv, ProcOK, At, Pending
<1> QED BY <1>1, TypeStep, ProcStep, WordsStep, PlaceStep DEF Inv

\* What holds of a run being applied, wherever it stops: the types, what the
\* call under way may count on, and what is recorded.
THEOREM Inductive == Spec => []Inv
  BY InitInv, InvStep, PTL DEF Spec

\* The run, the process, the clone and the forge keep their types (ApplyRun).
THEOREM TypeCorrect == Spec => []TypeOK
<1>1. Inv => TypeOK
  BY TypedIsTypeOK DEF Inv
<1> QED BY <1>1, Inductive, PTL

\* No comment, label or issue is written twice, of any run, with any number of
\* tries, failures and applies (applyOne, Openings, forge/retry.go).
THEOREM NoneTwice == Spec => []SaidOnce
<1>1. Inv => SaidOnce
  BY DEF Inv, WordsOK, SaidOnce
<1> QED BY <1>1, Inductive, PTL

\* What out/run.yaml records as applied is on the forge (applyAll's save after
\* each intention), but an issue past issues-max.
THEOREM RecordedIsThere == Spec => []AppliedIsThere
<1>1. Inv => AppliedIsThere
  BY DEF Inv, WordsOK, AppliedIsThere, Recordable
<1> QED BY <1>1, Inductive, PTL

-----------------------------------------------------------------------------
(* The apply implements RunPromise.                                        *)

PassOK == result = "pass" => Asked \subseteq IsDone \cup GivenUp

LEMMA AskedStays ==
    ASSUME judged' = judged
    PROVE  Asked' = Asked /\ First' = First /\ May' = May
<1>1. Idx' = Idx /\ Mode' = Mode /\ Words' = Words /\ Ended' = Ended
      /\ \A i \in Idx : Kind(i)' = Kind(i)
  BY SameJudged
<1>2. Words \subseteq Idx
  BY DEF Words
<1>3. {i \in Words : Kind(i) = "issue"}' = {i \in Words : Kind(i) = "issue"}
  BY <1>1, <1>2
<1> QED BY <1>1, <1>3 DEF Asked, First, May, Ending

\* Nothing else is given up than what may be.
LEMMA GivenUpMay == GivenUp \subseteq May
  BY DEF GivenUp, May

\* The end of a run's work is a number of its own.
LEMMA EndingApart ==
    ASSUME judged \in Runs
    PROVE  Ending \notin Idx /\ Words \subseteq Idx
  BY JudgedKinds DEF Ending, Words

\* A run passes from its last step alone, and a run that passed moves by
\* another apply, or by a person.
LEMMA ResultStep ==
    ASSUME Inv, [Next]_vars
    PROVE  /\ result' = "pass" => result = "pass" \/ Leave \/ End
           /\ result = "pass" => Resume \/ Rerun \/ PersonPushes \/ UNCHANGED vars
<1>a. proc \in ProcT /\ (proc.at # "idle" => result = "none") /\ (proc.at = "idle" => proc = NoProc)
  BY DEF Inv, Typed, ProcOK
<1>1. result' = "pass" => result = "pass" \/ Leave \/ End
  <2> SUFFICES ASSUME result' = "pass", result # "pass", ~Leave, ~End PROVE FALSE
    OBVIOUS
  <2>1. ~(Post \/ Triage \/ State \/ MarkReady \/ OpenMergeRequest \/ Record \/ PostDiff)
    BY PostShape, TriageShape, StateShape, MarkReadyShape, OpenShape, RecordShape, DiffShape
       DEF Wrote, Ends
  <2>2. ~(\/ ApplyPatch \/ Look \/ LookFails \/ Save \/ CommitOwn \/ CommitOwnFails \/ PushOwn
          \/ SavePushed \/ Ready)
    BY DEF ApplyPatch, Look, LookFails, Unread, Save, CommitOwn, CommitOwnFails, PushOwn,
           SavePushed, Ready, Ends
  <2>3. ~(Commit \/ CommitFails \/ PushOpen \/ Refused \/ Undo \/ SaveOpened \/ Diff)
    BY DEF Commit, CommitFails, Unread, PushOpen, Refused, Undo, SaveOpened, Diff, Ends
  <2>4. ~(Resume \/ Rerun \/ Dies \/ PersonPushes \/ UNCHANGED vars)
    BY DEF Resume, Rerun, Begin, Dies, PersonPushes, vars, Ends
  <2> QED BY <2>1, <2>2, <2>3, <2>4 DEF Next, Apply
<1>2. result = "pass" => Resume \/ Rerun \/ PersonPushes \/ UNCHANGED vars
  <2> SUFFICES ASSUME proc.at = "idle", proc = NoProc, ~(Resume \/ Rerun \/ PersonPushes \/ UNCHANGED vars)
               PROVE  FALSE
    BY <1>a
  <2>1. ~(Post \/ Triage \/ State \/ MarkReady \/ OpenMergeRequest \/ Record \/ PostDiff)
    BY PostShape, TriageShape, StateShape, MarkReadyShape, OpenShape, RecordShape, DiffShape DEF At
  <2>2. ~(\/ ApplyPatch \/ Look \/ LookFails \/ Save \/ CommitOwn \/ CommitOwnFails \/ PushOwn
          \/ SavePushed \/ Ready)
    BY DEF ApplyPatch, Look, LookFails, Applying, Save, CommitOwn, CommitOwnFails, PushOwn,
           SavePushed, Ready, At
  <2>3. ~(\/ Leave \/ Commit \/ CommitFails \/ PushOpen \/ Refused \/ Undo \/ SaveOpened \/ Diff
          \/ End \/ Dies)
    BY DEF Leave, Commit, CommitFails, Proposing, PushOpen, Refused, Undo, SaveOpened, Diff, End,
           Dies, At
  <2> QED BY <2>1, <2>2, <2>3 DEF Next, Apply
<1> QED BY <1>1, <1>2

\* Where a run's patches end is reached by one step, which leaves what is
\* given up as it was.
LEMMA LandedStep ==
    ASSUME Inv, [Next]_vars, Ended, ~Landed, Landed'
    PROVE  run'.applied = run.applied /\ (Mode = "open" => UNCHANGED origin)
           /\ UNCHANGED <<copies, finished>> /\ result # "pass" /\ result' # "pass"
<1>0. judged' = judged /\ Mode' = Mode
  BY JudgedStays, SameJudged
<1>a. run \in RunT /\ merge \in MergeT /\ origin \in Seq(Commits)
  BY DEF Inv, Typed
<1>b. proc.at # "idle" => result = "none"
  BY DEF Inv, ProcOK
<1>1. CASE Mode = "push"
  <2>1. ~HasRun /\ HasRun'
    BY <1>0, <1>1 DEF Landed, HasRun
  <2>2. origin' # origin /\ origin' # Append(origin, "person")
    <3>1. ASSUME origin' = Append(origin, "person") PROVE FALSE
      <4>1. ToSet(origin') = ToSet(origin) \cup {"person"}
        BY <1>a, <3>1, SetOfAppend DEF Commits
      <4> QED BY <2>1, <4>1 DEF HasRun
    <3>2. ASSUME origin' = origin PROVE FALSE
      BY <2>1, <3>2 DEF HasRun
    <3> QED BY <3>1, <3>2
  <2>3. PushOwn \/ Dies
    <3>1. At("push")
      BY <2>2, ForgeStep DEF Inv
    <3>2. ~(Post \/ Triage \/ State \/ MarkReady \/ OpenMergeRequest \/ Record \/ PostDiff)
      BY <3>1, PostShape, TriageShape, StateShape, MarkReadyShape, OpenShape, RecordShape, DiffShape DEF At
    <3>3. ~(\/ ApplyPatch \/ Look \/ LookFails \/ Save \/ CommitOwn \/ CommitOwnFails
            \/ SavePushed \/ Ready)
      BY <3>1 DEF ApplyPatch, Look, LookFails, Applying, Save, CommitOwn, CommitOwnFails,
             SavePushed, Ready, At
    <3>4. ~(\/ Leave \/ Commit \/ CommitFails \/ PushOpen \/ Refused \/ Undo \/ SaveOpened \/ Diff \/ End)
      BY <3>1, <1>1 DEF Leave, Commit, CommitFails, Proposing, PushOpen, Refused, Undo, SaveOpened,
             Diff, End, At
    <3>5. ~(Resume \/ Rerun \/ PersonPushes \/ UNCHANGED vars)
      BY <2>2 DEF Resume, Rerun, PersonPushes, vars, forge
    <3> QED BY <3>2, <3>3, <3>4, <3>5 DEF Next, Apply
  <2>4. At("push")
    BY <2>2, ForgeStep DEF Inv
  <2> QED BY <1>1, <2>3, <2>4, <1>b DEF PushOwn, Pushed, NotWritten, Dies, Ends, disk, forge, At
<1>2. CASE Mode # "push"
  <2>1. merge' # merge
    BY <1>0, <1>2 DEF Landed
  <2>2. MarkReady \/ OpenMergeRequest \/ Record \/ PostDiff
    <3>1. ~(Post \/ Triage \/ State)
      BY <2>1, PostShape, TriageShape, StateShape DEF Wrote, Posted, Finished, NotWritten, forge
    <3>2. ~(\/ ApplyPatch \/ Look \/ LookFails \/ Save \/ CommitOwn \/ CommitOwnFails \/ PushOwn
            \/ SavePushed \/ Ready)
      BY <2>1 DEF ApplyPatch, Look, LookFails, Unread, Save, CommitOwn, CommitOwnFails, PushOwn,
             Pushed, NotWritten, SavePushed, Ready, forge
    <3>3. ~(\/ Leave \/ Commit \/ CommitFails \/ PushOpen \/ Refused \/ Undo \/ SaveOpened \/ Diff \/ End)
      BY <2>1 DEF Leave, Commit, CommitFails, Unread, PushOpen, Pushed, NotWritten, Refused, Undo,
             SaveOpened, Diff, End, forge
    <3>4. ~(Resume \/ Rerun \/ Dies \/ PersonPushes \/ UNCHANGED vars)
      BY <2>1 DEF Resume, Rerun, Dies, PersonPushes, vars, forge
    <3> QED BY <3>1, <3>2, <3>3, <3>4 DEF Next, Apply
  <2>3. UNCHANGED <<origin, copies, finished>>
    BY <2>2, MarkReadyShape, OpenShape, RecordShape, DiffShape
       DEF Wrote, Marked, Opened, Recorded, Diffed, NotWritten, forge
  <2>4. run'.applied = run.applied
    BY <2>2, <1>a, MarkReadyShape, OpenShape, RecordShape, DiffShape DEF disk, RunT
  <2>5. result = "none" /\ result' # "pass"
    BY <2>2, <1>b, MarkReadyShape, OpenShape, RecordShape, DiffShape DEF Wrote, Ends, At
  <2> QED BY <2>3, <2>4, <2>5
<1> QED BY <1>1, <1>2

\* What is there stays, and comes one at a time, what must come first before
\* the rest.
LEMMA DoneStep ==
    ASSUME Inv, [Next]_vars
    PROVE  \/ IsDone' = IsDone
           \/ \E i \in Asked \ IsDone :
                 /\ i \notin First => First \subseteq IsDone
                 /\ IsDone' = IsDone \cup {i} /\ GivenUp' = GivenUp
                 /\ result # "pass" /\ result' # "pass"
<1>0. /\ judged' = judged /\ Mode' = Mode /\ Ended' = Ended /\ Words' = Words
      /\ \A k \in Idx : Kind(k)' = Kind(k)
  BY JudgedStays, SameJudged
<1>a. /\ proc \in ProcT /\ run \in RunT /\ copies \in [Idx -> Nat] /\ finished \in [Idx -> 0..2]
      /\ judged \in Runs
  BY DEF Inv, Typed
<1>b. Ending \notin Idx /\ Words \subseteq Idx /\ Ending \notin Words
  BY <1>a, EndingApart
<1>c. Ending' = Ending
  BY DEF Ending
<1>d. Landed => Landed'
  BY <1>0, PlaceStays DEF Landed, HasRun
<1>1. CASE Post \/ Triage \/ State
  <2>0. PICK i : i = proc.i
    OBVIOUS
  <2>1. /\ i \in Idx /\ i \notin run.applied /\ Kind(i) \in Posts /\ FirstThere /\ result = "none"
        /\ proc.at \in AtWord
    BY <1>1, <2>0, PostShape, TriageShape, StateShape DEF Inv, ProcOK, At, AtWord, Pending
  <2>2. UNCHANGED <<run, origin, merge>> /\ result' # "pass"
    BY <1>1, <2>1, PostShape, TriageShape, StateShape
       DEF Wrote, Posted, Finished, NotWritten, Ends, disk, forge
  <2>3. \A k \in Idx \ {i} : copies'[k] = copies[k] /\ finished'[k] = finished[k]
    BY <1>0, <2>0, CountsStay DEF Inv
  <2>4. Landed' = Landed
    BY <1>0, <2>2 DEF Landed
  <2>5. GivenUp' = GivenUp
    <3>1. {k \in Words \cap run.applied : copies[k] = 0 /\ Kind(k) = "issue"}' =
          {k \in Words \cap run.applied : copies[k] = 0 /\ Kind(k) = "issue"}
      BY <1>0, <1>b, <2>1, <2>2, <2>3
    <3> QED BY <1>0, <1>c, <2>2, <3>1 DEF GivenUp
  <2>6. \A k \in Words \ {i} : IsThere(k)' <=> IsThere(k)
    BY <1>0, <1>b, <2>3 DEF IsThere
  <2>7. i \in Words
    BY <2>1 DEF Words
  <2>8. IsThere(i) => IsThere(i)'
    <3>1. CASE Post
      <4>1. copies'[i] > 0 \/ copies'[i] = copies[i]
        BY <2>0, <2>1, <3>1, <1>a, PostShape DEF Wrote, Posted, NotWritten, forge
      <4>2. finished' = finished
        BY <3>1, PostShape DEF Wrote, Posted, NotWritten, forge
      <4> QED BY <1>0, <2>1, <4>1, <4>2 DEF IsThere
    <3>2. CASE Triage
      <4>1. ~IsThere(i)
        BY <2>0, <3>2, TriageShape DEF Inv, ProcOK, At, IsThere
      <4> QED BY <4>1
    <3>3. CASE State
      <4>1. ~IsThere(i)
        BY <2>0, <3>3, StateShape DEF Inv, ProcOK, At, IsThere
      <4> QED BY <4>1
    <3> QED BY <1>1, <3>1, <3>2, <3>3
  <2>9. CASE IsThere(i)' <=> IsThere(i)
    <3>1. {k \in Words : IsThere(k)}' = {k \in Words : IsThere(k)}
      BY <1>0, <2>6, <2>9
    <3> QED BY <1>0, <1>c, <2>4, <3>1 DEF IsDone
  <2>10. CASE ~IsThere(i) /\ IsThere(i)'
    <3>1. {k \in Words : IsThere(k)}' = {k \in Words : IsThere(k)} \cup {i}
      BY <1>0, <2>6, <2>7, <2>10
    <3>2. IsDone' = IsDone \cup {i}
      BY <1>0, <1>c, <2>4, <3>1 DEF IsDone
    <3>3. i \in Asked \ IsDone
      BY <1>b, <2>7, <2>10 DEF Asked, IsDone
    <3>4. First \subseteq IsDone
      BY <2>1 DEF FirstThere, First, IsDone
    <3> QED BY <2>1, <2>2, <2>5, <3>2, <3>3, <3>4
  <2> QED BY <2>8, <2>9, <2>10
<1>2. CASE ~(Post \/ Triage \/ State)
  <2>1. UNCHANGED <<copies, finished>>
    BY <1>2, ForgeStep DEF Inv
  <2>2. {k \in Words : IsThere(k)}' = {k \in Words : IsThere(k)}
    BY <1>0, <1>b, <2>1 DEF IsThere
  <2>3. CASE Ended => (Landed' <=> Landed)
    BY <1>0, <1>c, <2>2, <2>3 DEF IsDone
  <2>4. CASE Ended /\ ~Landed /\ Landed'
    <3>1. IsDone' = IsDone \cup {Ending} /\ Ending \in Asked \ IsDone
      BY <1>0, <1>b, <1>c, <2>2, <2>4 DEF IsDone, Asked
    <3>2. run'.applied = run.applied /\ (Mode = "open" => UNCHANGED origin)
          /\ result # "pass" /\ result' # "pass"
      BY <2>4, LandedStep
    <3>3. GivenUp' = GivenUp
      <4>1. {k \in Words \cap run.applied : copies[k] = 0 /\ Kind(k) = "issue"}' =
            {k \in Words \cap run.applied : copies[k] = 0 /\ Kind(k) = "issue"}
        BY <1>0, <1>b, <2>1, <3>2
      <4>2. Mode = "open" => ("person" \in ToSet(origin))' = ("person" \in ToSet(origin))
        BY <3>2
      <4> QED BY <1>0, <1>c, <4>1, <4>2 DEF GivenUp
    <3>4. First \subseteq {Ending}
      BY DEF First
    <3> QED BY <3>1, <3>2, <3>3, <3>4
  <2> QED BY <1>d, <2>3, <2>4
<1> QED BY <1>1, <1>2

\* Nothing pending nor due: all the run asks for is there, or given up.
LEMMA WordsThere ==
    ASSUME Inv, Pending = {}
    PROVE  Words \subseteq IsDone \cup GivenUp
<1>1. SUFFICES ASSUME NEW i \in Words PROVE i \in IsDone \cup GivenUp
  OBVIOUS
<1>2. i \in Idx /\ i \in run.applied /\ Kind(i) \in Posts
  BY DEF Words, Pending
<1>3. Recordable(i) /\ copies[i] \in Nat
  BY <1>2 DEF Inv, WordsOK, Typed
<1> QED BY <1>1, <1>2, <1>3 DEF Recordable, IsDone, GivenUp, IsThere

LEMMA AllThere ==
    ASSUME Inv, Pending = {}, ~(PushDue \/ ReadyDue \/ OpenDue \/ DiffDue)
    PROVE  Asked \subseteq IsDone \cup GivenUp
<1>1. Ended => Landed
  <2> SUFFICES ASSUME Ended PROVE Landed
    OBVIOUS
  <2>0. judged \in Runs
    BY DEF Inv, Typed
  <2>1. CASE Mode = "ready"
    BY <2>1 DEF ReadyDue, Landed
  <2>2. CASE Mode # "ready"
    <3>1. PICK i \in Idx : Kind(i) \notin Posts
      BY <2>2 DEF Ended, Words
    <3>2. Kind(i) \in Patches /\ i \in run.applied
      BY <2>0, <3>1, JudgedKinds DEF Pending
    <3>3. run.written
      BY <3>2 DEF Inv, WordsOK
    <3>4. Mode \in {"push", "open", "patch"}
      BY <2>0, <2>2, JudgedKinds DEF Modes, Ended
    <3> QED BY <3>3, <3>4 DEF PushDue, OpenDue, DiffDue, Landed, Inv, PlaceOK, HasRun
  <2> QED BY <2>1, <2>2
<1> QED BY <1>1, WordsThere DEF Asked, IsDone

LEMMA EndStays ==
    ASSUME Inv, [Next]_vars, Leave \/ End
    PROVE  GivenUp' = GivenUp
<1>0. /\ Ended' = Ended /\ Mode' = Mode /\ Words' = Words /\ Ending' = Ending /\ Words \subseteq Idx
      /\ \A k \in Idx : Kind(k)' = Kind(k)
  BY JudgedStays, SameJudged DEF Ending, Words
<1>1. UNCHANGED <<run, origin, copies>>
  BY DEF Leave, End, disk, forge
<1>2. {k \in Words \cap run.applied : copies[k] = 0 /\ Kind(k) = "issue"}' =
      {k \in Words \cap run.applied : copies[k] = 0 /\ Kind(k) = "issue"}
  BY <1>0, <1>1
<1> QED BY <1>0, <1>1, <1>2 DEF GivenUp

LEMMA PassOKStep == Inv /\ PassOK /\ [Next]_vars => PassOK'
<1> SUFFICES ASSUME Inv, PassOK, [Next]_vars, result' = "pass"
             PROVE  Asked' \subseteq IsDone' \cup GivenUp'
  BY DEF PassOK
<1>0. judged' = judged /\ Asked' = Asked /\ Ended' = Ended /\ Mode' = Mode /\ Words' = Words
      /\ \A k \in Idx : Kind(k)' = Kind(k)
  BY JudgedStays, AskedStays, SameJudged
<1>a. IsDone \subseteq IsDone'
  BY DoneStep
<1>b. Ending' = Ending /\ Words \subseteq Idx
  BY DEF Ending, Words
<1>1. CASE Leave \/ End
  <2>2. GivenUp' = GivenUp
    BY <1>1, EndStays
  <2>3. Asked \subseteq IsDone \cup GivenUp
    <3>1. CASE End
      BY <3>1, AllThere DEF End
    <3>2. CASE Leave
      <4>1. Pending = {} /\ Mode = "open" /\ "person" \in ToSet(origin)
        BY <3>2 DEF Leave, Proposing, OpenDue, LeftToAPerson
      <4> QED BY <4>1, WordsThere DEF Asked, GivenUp
    <3> QED BY <1>1, <3>1, <3>2
  <2> QED BY <1>0, <1>a, <2>2, <2>3
<1>2. CASE result = "pass"
  <2>1. PersonPushes \/ UNCHANGED vars
    BY <1>2, ResultStep DEF Resume, Rerun, Begin
  <2>2. UNCHANGED <<run, copies>> /\ (origin' = origin \/ origin' = Append(origin, "person"))
    BY <2>1 DEF PersonPushes, disk, forge, vars
  <2>3. "person" \in ToSet(origin) => "person" \in ToSet(origin')
    <3>1. CASE origin' = Append(origin, "person")
      <4>1. ToSet(origin') = ToSet(origin) \cup {"person"}
        BY <3>1, SetOfAppend DEF Inv, Typed, Commits
      <4> QED BY <4>1
    <3>2. CASE origin' = origin
      BY <3>2
    <3> QED BY <2>2, <3>1, <3>2
  <2>4. {k \in Words \cap run.applied : copies[k] = 0 /\ Kind(k) = "issue"}' =
        {k \in Words \cap run.applied : copies[k] = 0 /\ Kind(k) = "issue"}
    BY <1>0, <1>b, <2>2
  <2>5. GivenUp \subseteq GivenUp'
    BY <1>0, <1>b, <2>3, <2>4 DEF GivenUp
  <2> QED BY <1>0, <1>2, <1>a, <2>5 DEF PassOK
<1> QED BY <1>1, <1>2, ResultStep

LEMMA InitRefines == Init => Promise!Init
<1> SUFFICES ASSUME Init PROVE Promise!Init
  OBVIOUS
<1>1. First \subseteq Asked
  BY DEF First, Asked
<1>2. May \subseteq Asked
  BY DEF May, Asked
<1>3. \A i \in Words : ~IsThere(i)
  BY DEF Init, Words, IsThere
<1>4. Ended => ~Landed
  <2>1. "run" \notin ToSet(<<"role">>) /\ "run" \notin ToSet(<<>>)
    BY DEF ToSet
  <2>2. "run" \notin ToSet(origin)
    BY <2>1 DEF Init
  <2>3. merge = [open |-> IF Mode = "open" THEN 0 ELSE 1, draft |-> Mode = "ready",
                 record |-> FALSE, diff |-> FALSE]
    BY DEF Init
  <2>4. (Mode = "open" => merge.open = 0) /\ ~merge.diff /\ (Mode = "ready" => merge.draft)
    BY <2>3
  <2>5. CASE Mode \in {"push", "open"}
    BY <2>2, <2>4, <2>5 DEF Landed
  <2>6. CASE Mode \in {"patch", "ready"}
    BY <2>4, <2>6 DEF Landed
  <2>7. CASE Mode \notin {"push", "open", "patch", "ready"}
    BY <2>7 DEF Landed
  <2> QED BY <2>5, <2>6, <2>7
<1>5. IsDone = {}
  BY <1>3, <1>4 DEF IsDone
<1>6. "person" \notin ToSet(origin)
  <2>1. "person" \notin ToSet(<<"role">>) /\ "person" \notin ToSet(<<>>)
    BY DEF ToSet
  <2> QED BY <2>1 DEF Init
<1>7. GivenUp = {}
  BY <1>6 DEF Init, Judged, GivenUp
<1> QED BY <1>1, <1>2, <1>5, <1>7 DEF Promise!Init, Init

LEMMA StepRefines ==
    Inv /\ PassOK /\ [Next]_vars => [Promise!Next]_(Promise!pvars)
<1> SUFFICES ASSUME Inv, PassOK, [Next]_vars PROVE [Promise!Next]_(Promise!pvars)
  OBVIOUS
<1>0. /\ Asked' = Asked /\ First' = First /\ May' = May
      /\ GivenUp' \subseteq May /\ PassOK'
  <2>1. GivenUp' \subseteq May'
    BY DEF GivenUp, May
  <2> QED BY <2>1, JudgedStays, AskedStays, PassOKStep
<1>1. CASE result # "pass" /\ result' # "pass"
  <2>1. CASE IsDone' = IsDone
    <3>1. Promise!GiveUp
      BY <1>0, <1>1, <2>1 DEF Promise!GiveUp
    <3> QED BY <3>1 DEF Promise!Next
  <2>2. CASE IsDone' # IsDone
    <3>1. Promise!Effect
      BY <1>0, <1>1, <2>2, DoneStep DEF Promise!Effect
    <3> QED BY <3>1 DEF Promise!Next
  <2> QED BY <2>1, <2>2
<1>2. CASE result # "pass" /\ result' = "pass"
  <2>1. IsDone' = IsDone /\ GivenUp' = GivenUp
    <3>1. Leave \/ End
      BY <1>2, ResultStep
    <3> QED BY <1>2, <3>1, DoneStep, EndStays
  <2>2. Promise!Pass
    BY <1>0, <1>2, <2>1 DEF Promise!Pass, PassOK
  <2> QED BY <2>2 DEF Promise!Next
<1>3. CASE result = "pass"
  <2>1. IsDone' = IsDone
    BY <1>3, DoneStep
  <2>2. CASE result' = "pass"
    <3>1. Promise!GiveUp
      BY <1>0, <1>3, <2>1, <2>2 DEF Promise!GiveUp, PassOK
    <3> QED BY <3>1 DEF Promise!Next
  <2>3. CASE result' # "pass"
    <3>1. Promise!Again
      BY <1>0, <1>3, <2>1, <2>3 DEF Promise!Again
    <3> QED BY <3>1 DEF Promise!Next
  <2> QED BY <2>2, <2>3
<1> QED BY <1>1, <1>2, <1>3

\* The apply implements RunPromise: whatever fails, whoever pushes, however
\* often it is resumed or applied anew (applyAll, ResumeApply).
THEOREM ApplyKeepsPromise == Spec => KeepsPromise
<1>1. Init => PassOK
  BY DEF Init, PassOK
<1>2. Spec => [](Inv /\ PassOK)
  BY <1>1, InitInv, InvStep, PassOKStep, PTL DEF Spec
<1> QED BY <1>2, InitRefines, StepRefines, PTL DEF Spec, KeepsPromise, Promise!Spec
=============================================================================
