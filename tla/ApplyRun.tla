------------------------------ MODULE ApplyRun ------------------------------
(***************************************************************************)
(* The apply of one role's run (internal/engine, applyAll; the forge's     *)
(* writes, internal/forge): its intentions one by one, each recorded in    *)
(* out/run.yaml once done, the role's branch pushed, its merge request     *)
(* opened.  A forge call fails, its answer is lost, the job dies between   *)
(* any two steps; then `workline apply` resumes the run from out/run.yaml, *)
(* or CI runs the apply job again from what the judge job left.  A person  *)
(* may push to the role's branch at any time.                              *)
(*                                                                         *)
(* One call on the forge is the look for what is there, then the write,    *)
(* tried again by forge/retry.go's rule.  The forge keeps branches at      *)
(* origin; what an intention writes is its count alone.                    *)
(***************************************************************************)
EXTENDS Integers, Sequences, FiniteSets, SequencesExt

CONSTANTS Runs,        \* the runs judged: [mode, intents], intents a sequence of kinds
          Tries,       \* retry.tries
          IssuesMax,   \* issues-max, Openings.Max
          MaxFaults,   \* bound: what the forge and the machine fail, people push
          MaxAttempts  \* bound: how often the run is applied

Patches == {"diff", "whole"}                 \* patch: a unified diff; {file, content}
Posts   == {"label", "comment", "reply", "issue"}
Modes   == {"said", "patch", "push", "ready", "open"}

ASSUME ApplyAssumption ==
    /\ Tries \in Nat \ {0} /\ IssuesMax \in Nat
    /\ MaxFaults \in Nat /\ MaxAttempts \in Nat
    /\ \A r \in Runs : r.mode \in Modes /\ r.intents \in Seq(Patches \cup Posts)

VARIABLES judged,   \* the run: its mode and its intentions, never changed
          run,      \* out/run.yaml, runState
          proc,     \* the process applying it
          clone,    \* the clone it works in
          origin,   \* the role's branch at origin: who made each commit
          copies,   \* copies[i]: how often intention i's comment, label or issue was made
          finished, \* finished[i]: of its issue, the writes after its opening
          merge,    \* the merge request: how many opened, a draft or not, its record, its diff
          result,   \* how the last apply ended
          faults, attempts

disk == <<run, clone>>
forge == <<origin, copies, finished, merge>>
vars == <<judged, disk, proc, forge, result, faults, attempts>>

Idx  == DOMAIN judged.intents
Kind(i) == judged.intents[i]
Mode == judged.mode

\* out/run.yaml as the judge job leaves it.
Judged == [applied |-> {}, written |-> FALSE, committed |-> <<>>, mr |-> FALSE, pushed |-> FALSE]

\* A clone as the job checks it out: on the role's branch when it pushes to
\* it (onHead), on the base else.
Checkout(b) == [branch |-> IF Mode = "push" THEN b ELSE <<>>, away |-> FALSE, changed |-> {}]

NoProc == [at |-> "idle", i |-> 0, try |-> 1, opened |-> 0]

Init ==
    /\ judged \in Runs
    /\ run = Judged /\ proc = NoProc
    /\ origin \in IF Mode \in {"push", "ready", "patch"} THEN {<<"role">>} ELSE {<<>>, <<"role">>}
    /\ clone = Checkout(origin)
    /\ copies = [i \in Idx |-> 0] /\ finished = [i \in Idx |-> 0]
    /\ merge = [open |-> IF Mode = "open" THEN 0 ELSE 1, draft |-> Mode = "ready",
                record |-> FALSE, diff |-> FALSE]
    /\ result = "none" /\ faults = 0 /\ attempts = 0

-----------------------------------------------------------------------------
(* A call on the forge (forge/retry.go).                                   *)

Failures == {"unsent", "limited", "cut", "late", "lasting"}

\* A write the forge may have taken though it failed: its answer cut, or a
\* 5xx.
MayBeTaken(f) == f \in {"cut", "late"}

AgainTaken(f, try) == f # "lasting" /\ try < Tries

\* A write is sent again only when the forge certainly did not take it, the
\* tries not spent.
Again(f, try) == f \in {"unsent", "limited"} /\ try < Tries

At(p) == proc.at = p
Go(p) ==
    proc' = [proc EXCEPT !.at = p, !.try = 1,
               !.opened = IF At("post") /\ Kind(proc.i) = "issue" THEN @ + 1 ELSE @]
Fault == faults < MaxFaults /\ faults' = faults + 1
Fine  == UNCHANGED faults

\* The process ends, saying how.
Ends(r) == proc' = NoProc /\ result' = r

\* A read fails once its tries are spent: the run stops, to be resumed.
Unread == Fault /\ Ends("external") /\ UNCHANGED <<judged, disk, forge, attempts>>

\* A write in phase p, its effect Taken or Not, then phase q; one that
\* failed is sent again, or ends the run as r.
Write(p, Taken, Not, q, r) ==
    /\ At(p)
    /\ \/ Taken /\ Go(q) /\ Fine /\ UNCHANGED result
       \/ \E f \in Failures :
            /\ Fault
            /\ (Taken /\ MayBeTaken(f)) \/ Not
            /\ IF Again(f, proc.try)
                 THEN proc' = [proc EXCEPT !.try = @ + 1] /\ UNCHANGED result
                 ELSE Ends(r)
    /\ UNCHANGED <<judged, attempts>>

-----------------------------------------------------------------------------
(* The intentions, one by one (applyOne, applier.apply).                   *)

LaterNone(i) == FALSE

\* The role pushes to its own branch, or marks its Draft ready: what it
\* says waits for that.
Later(i) == Mode \in {"push", "ready"} /\ Kind(i) \notin Patches
Pending  == Idx \ run.applied
Before   == {i \in Pending : ~Later(i)}

PushDue  == Mode = "push" /\ run.written /\ ~run.pushed
ReadyDue == Mode = "ready" /\ merge.draft
OpenDue  == Mode = "open" /\ run.written /\ ~run.mr
DiffDue  == Mode = "patch" /\ run.written /\ ~run.pushed

\* The next intention; those recorded applied are left.
NextOne ==
    IF Before # {} THEN CHOOSE i \in Before : \A j \in Before : i =< j
    ELSE CHOOSE i \in Pending : \A j \in Pending : i =< j

Applying ==
    At("next") /\ Pending # {} /\ (Before # {} \/ ~(PushDue \/ ReadyDue))

\* A patch, in the working tree.  A diff is applied on the files as they
\* are: one applied already is refused, the run with it.
ApplyPatch ==
    /\ Applying /\ Kind(NextOne) \in Patches
    /\ IF Kind(NextOne) = "diff" /\ NextOne \in clone.changed
         THEN Ends("block") /\ UNCHANGED clone
         ELSE /\ clone' = [clone EXCEPT !.changed = @ \cup {NextOne}]
              /\ proc' = [proc EXCEPT !.at = "save", !.i = NextOne] /\ UNCHANGED result
    /\ UNCHANGED <<judged, run, forge, faults, attempts>>

FoundOpened(i) == Kind(i) \in {"comment", "issue"} /\ copies[i] > 0

\* Whether what the intention writes is on the forge: a comment by the
\* run's marker, an issue by its key, its state written last.  A label is
\* put on whatever is there; a reply in a thread carries no marker.
Found(i) ==
    \/ Kind(i) = "comment" /\ copies[i] > 0
    \/ Kind(i) = "issue" /\ copies[i] > 0 /\ finished[i] = 2

\* Past issues-max, an issue more is not opened; what this process opened
\* is counted alone.
Capped(i) == Kind(i) = "issue" /\ copies[i] = 0 /\ proc.opened >= IssuesMax

Look ==
    /\ Applying /\ Kind(NextOne) \in Posts
    /\ proc' = [proc EXCEPT !.i = NextOne, !.try = 1,
                  !.at = IF Found(NextOne) \/ Capped(NextOne) THEN "save"
                         ELSE IF Kind(NextOne) = "issue" /\ copies[NextOne] > 0 THEN "triage"
                         ELSE "post"]
    /\ UNCHANGED <<judged, disk, forge, result, faults, attempts>>

LookFails == Applying /\ Kind(NextOne) \in Posts /\ Unread

NotWritten == UNCHANGED forge

Posted ==
    /\ copies' = [copies EXCEPT ![proc.i] = IF Kind(proc.i) = "label" THEN 1 ELSE @ + 1]
    /\ UNCHANGED <<origin, finished, merge>>

Finished(n) ==
    /\ finished' = [finished EXCEPT ![proc.i] = n]
    /\ UNCHANGED <<origin, copies, merge>>

Post ==
    /\ Write("post", Posted, NotWritten, IF Kind(proc.i) = "issue" THEN "triage" ELSE "save", "external")
    /\ UNCHANGED disk

\* An issue opened gets its label, then its state, written last: what a
\* stopped run left out is written by the next (Openings.finish).
Triage == Write("triage", Finished(1), NotWritten, "state", "external") /\ UNCHANGED disk
State  == Write("state", Finished(2), NotWritten, "save", "external") /\ UNCHANGED disk

\* The intention is recorded, and what its patch wrote.
Save ==
    /\ At("save")
    /\ run' = [run EXCEPT !.applied = @ \cup {proc.i}, !.written = @ \/ Kind(proc.i) \in Patches]
    /\ Go("next")
    /\ UNCHANGED <<judged, clone, forge, result, faults, attempts>>

-----------------------------------------------------------------------------
(* The role's own branch, and its Draft made ready, before what it says.   *)

\* The working tree at the branch's tip, or nothing is committed; with
\* nothing to commit, git fails.
CommitOwn ==
    /\ At("next") /\ Before = {} /\ PushDue
    /\ IF origin # clone.branch \/ clone.changed = {}
         THEN Ends("not-pushed") /\ UNCHANGED clone
         ELSE /\ clone' = [clone EXCEPT !.branch = Append(@, "run"), !.changed = {}]
              /\ Go("push") /\ UNCHANGED result
    /\ UNCHANGED <<judged, run, forge, faults, attempts>>

CommitOwnFails == At("next") /\ Before = {} /\ PushDue /\ Unread

Pushed == origin' = clone.branch /\ UNCHANGED <<copies, finished, merge>>

\* Pushed without force: refused when the branch moved; a push that failed
\* may have been taken.
PushOwn ==
    /\ At("push") /\ Mode = "push"
    /\ \/ IsPrefix(origin, clone.branch) /\ Pushed /\ Go("pushed") /\ Fine /\ UNCHANGED result
       \/ ~IsPrefix(origin, clone.branch) /\ NotWritten /\ Fine /\ Ends("external")
       \/ /\ Fault /\ Ends("external")
          /\ (IsPrefix(origin, clone.branch) /\ Pushed) \/ NotWritten
    /\ UNCHANGED <<judged, disk, attempts>>

SavePushed ==
    /\ At("pushed")
    /\ run' = [run EXCEPT !.pushed = TRUE] /\ Go("next")
    /\ UNCHANGED <<judged, clone, forge, result, faults, attempts>>

\* Its Draft marked ready; one ready already is left.
Marked == merge' = [merge EXCEPT !.draft = FALSE] /\ UNCHANGED <<origin, copies, finished>>

Ready ==
    /\ At("next") /\ Before = {} /\ ReadyDue
    /\ Go("ready") /\ UNCHANGED <<judged, disk, forge, result, faults, attempts>>

MarkReady == Write("ready", Marked, NotWritten, "next", "external") /\ UNCHANGED disk

-----------------------------------------------------------------------------
(* The merge request a run opens (openMergeRequest, proposeBranch).        *)

Proposing == At("next") /\ Pending = {} /\ OpenDue

\* What tips read of the branch at origin: a person's commit leaves it to
\* them.  An apply that died at its push left the clone on the branch
\* itself, which is its base then: no commit is past it.
LeftToAPerson == ~clone.away /\ "person" \in ToSet(origin)

Leave ==
    /\ Proposing /\ LeftToAPerson
    /\ Ends("pass")
    /\ UNCHANGED <<judged, disk, forge, faults, attempts>>

\* The commit, on the branch made anew from the base; not made again when
\* the run recorded it and the branch still holds it.
Recommitted == run.committed # <<>> /\ clone.branch = run.committed

Commit ==
    /\ Proposing /\ ~LeftToAPerson
    /\ clone.away => origin # <<>>
    /\ \/ Recommitted /\ Go("push") /\ UNCHANGED <<clone, result>>
       \/ /\ ~Recommitted /\ clone.changed # {}
          /\ clone' = [branch |-> <<"run">>, away |-> TRUE, changed |-> {}]
          /\ Go("push") /\ UNCHANGED result
       \/ /\ ~Recommitted /\ clone.changed = {}  \* nothing to commit
          /\ clone' = [clone EXCEPT !.branch = IF clone.away THEN @ ELSE <<>>]
          /\ Go("undo") /\ UNCHANGED result
    /\ UNCHANGED <<judged, run, forge, faults, attempts>>

\* The base, or the branch, cannot be fetched.
CommitFails ==
    \/ Proposing /\ Unread
    \/ /\ Proposing /\ clone.away /\ origin = <<>>
       /\ Ends("external") /\ UNCHANGED <<judged, disk, forge, faults, attempts>>

\* Pushed by force, then back on the base; one that failed is recorded.
PushOpen ==
    /\ At("push") /\ Mode = "open"
    /\ clone' = [clone EXCEPT !.away = FALSE]
    /\ \/ Pushed /\ Go("mr") /\ Fine /\ UNCHANGED <<run, result>>
       \/ /\ Fault /\ Ends("external")
          /\ Pushed \/ NotWritten
          /\ run' = [run EXCEPT !.committed = clone.branch]
    /\ UNCHANGED <<judged, attempts>>

Opened == merge' = [merge EXCEPT !.open = IF @ = 0 THEN 1 ELSE @] /\ UNCHANGED <<origin, copies, finished>>

\* Its merge request opened, or the one open from the branch updated; that
\* it was committed is recorded when it fails.
OpenMergeRequest ==
    /\ Write("mr", Opened, NotWritten, "opened", "external")
    /\ run' = IF proc'.at = "idle" THEN [run EXCEPT !.committed = clone.branch] ELSE run
    /\ UNCHANGED clone

\* Refused by a forge within reach: what the role asks for that case.
Refused ==
    /\ At("mr") /\ Fault /\ Go("undo")
    /\ run' = [run EXCEPT !.committed = clone.branch]
    /\ UNCHANGED <<judged, clone, forge, result, attempts>>

Undo == At("undo") /\ Ends("block") /\ UNCHANGED <<judged, disk, forge, faults, attempts>>

SaveOpened ==
    /\ At("opened")
    /\ run' = [run EXCEPT !.mr = TRUE] /\ Go("record")
    /\ UNCHANGED <<judged, clone, forge, result, faults, attempts>>

Recorded == merge' = [merge EXCEPT !.record = TRUE] /\ UNCHANGED <<origin, copies, finished>>

\* The role's record, on the merge request it opened.
Record == Write("record", Recorded, NotWritten, "next", "block") /\ UNCHANGED disk

\* Elsewhere, what the patches wrote, in a comment kept in place.
Diffed == merge' = [merge EXCEPT !.diff = TRUE] /\ UNCHANGED <<origin, copies, finished>>

Diff ==
    /\ At("next") /\ Pending = {} /\ DiffDue
    /\ Go("diff") /\ UNCHANGED <<judged, disk, forge, result, faults, attempts>>

PostDiff == Write("diff", Diffed, NotWritten, "pushed", "external") /\ UNCHANGED disk

End ==
    /\ At("next") /\ Pending = {} /\ ~(PushDue \/ ReadyDue \/ OpenDue \/ DiffDue)
    /\ Ends("pass")
    /\ UNCHANGED <<judged, disk, forge, faults, attempts>>

-----------------------------------------------------------------------------
(* Starting, dying, resuming; a person's push.                             *)

Start == proc = NoProc /\ attempts < MaxAttempts /\ attempts' = attempts + 1

Begin == proc' = [NoProc EXCEPT !.at = "next"] /\ result' = "none"

\* workline apply <run>, where the run stopped (Resume); the first apply
\* as one that stopped at nothing.
Resume ==
    /\ Start /\ Begin
    /\ UNCHANGED <<judged, disk, forge, faults>>

\* CI's job again: what the judge job left, a new clone (ResumeFrom for a
\* merge request's).  The branch moved on from the head judged: nothing.
Rerun ==
    /\ Start /\ attempts > 0
    /\ run' = Judged
    /\ IF Mode \in {"push", "ready", "patch"} /\ origin # <<"role">>
         THEN result' = "moved-on" /\ proc' = NoProc ELSE Begin
    /\ clone' = Checkout(<<"role">>)
    /\ UNCHANGED <<judged, forge, faults>>

\* The process dies; at a push, the push may have been taken.
Dies ==
    /\ proc # NoProc /\ Fault /\ Ends("died")
    /\ \/ UNCHANGED origin
       \/ At("push") /\ (Mode = "open" \/ IsPrefix(origin, clone.branch)) /\ origin' = clone.branch
    /\ UNCHANGED <<judged, disk, copies, finished, merge, attempts>>

PersonPushes ==
    /\ Fault /\ origin # <<>> /\ Len(origin) < 3
    /\ origin' = Append(origin, "person")
    /\ UNCHANGED <<judged, disk, proc, copies, finished, merge, result, attempts>>

Apply == \/ ApplyPatch \/ Look \/ LookFails \/ Post \/ Triage \/ State \/ Save
         \/ CommitOwn \/ CommitOwnFails \/ PushOwn \/ SavePushed \/ Ready \/ MarkReady
         \/ Leave \/ Commit \/ CommitFails \/ PushOpen \/ OpenMergeRequest \/ Refused \/ Undo
         \/ SaveOpened \/ Record \/ Diff \/ PostDiff \/ End

Next == Apply \/ Resume \/ Rerun \/ Dies \/ PersonPushes
Spec == Init /\ [][Next]_vars

Ats == {"idle", "next", "save", "post", "triage", "state", "push", "pushed", "ready", "mr",
        "undo", "opened", "record", "diff"}

TypeOK ==
    /\ judged \in Runs
    /\ run \in [applied : SUBSET Idx, written : BOOLEAN, committed : Seq({"role", "run", "person"}),
                mr : BOOLEAN, pushed : BOOLEAN]
    /\ proc \in [at : Ats, i : Idx \cup {0}, try : 1..Tries, opened : Nat]
    /\ clone \in [branch : Seq({"role", "run", "person"}), away : BOOLEAN, changed : SUBSET Idx]
    /\ origin \in Seq({"role", "run", "person"})
    /\ copies \in [Idx -> Nat] /\ finished \in [Idx -> 0..2]
    /\ merge \in [open : 0..1, draft : BOOLEAN, record : BOOLEAN, diff : BOOLEAN]
    /\ result \in {"none", "pass", "external", "block", "not-pushed", "moved-on", "died"}
    /\ faults \in Nat /\ attempts \in Nat

-----------------------------------------------------------------------------
\* No write is made twice (forge.go:1, "every write is idempotent"): a
\* comment, a label, an issue is on the forge once, whatever answer was
\* lost, wherever the run stopped, resumed there or applied anew from what
\* the judge left.  A reply in a thread is not one of them: Reply carries
\* no marker.
SaidOnce == \A i \in Idx : Kind(i) \in Posts \ {"reply"} => copies[i] =< 1

\* What a resume leaves out is there (role-contract.md, "When apply stops
\* half-way"): an intention recorded as applied is on the forge, its issue
\* with its label and its state, but an issue past issues-max.
AppliedIsThere ==
    \A i \in run.applied :
        Kind(i) \in Posts =>
            /\ copies[i] > 0 \/ Kind(i) = "issue"
            /\ Kind(i) = "issue" /\ copies[i] > 0 => finished[i] = 2

\* What the run asks for: its words, and where its patches end, the branch,
\* the merge request or its comment, or its Draft ready: its Ending.
Ending == 0
Words  == {i \in Idx : Kind(i) \in Posts}
Ended  == Mode = "ready" \/ (Mode # "said" /\ Words # Idx)
Asked  == Words \cup (IF Ended THEN {Ending} ELSE {})
First  == IF Ended /\ Mode \in {"push", "ready"} THEN {Ending} ELSE {}
May    == {i \in Words : Kind(i) = "issue"} \cup (IF Ended /\ Mode = "open" THEN {Ending} ELSE {})

IsThere(i) == copies[i] > 0 /\ (Kind(i) = "issue" => finished[i] = 2)
Landed ==
    CASE Mode = "push" -> "run" \in ToSet(origin) [] Mode = "open" -> merge.open = 1
      [] Mode = "patch" -> merge.diff [] Mode = "ready" -> ~merge.draft [] OTHER -> FALSE
IsDone == {i \in Words : IsThere(i)} \cup (IF Ended /\ Landed THEN {Ending} ELSE {})
GivenUp == {i \in Words \cap run.applied : copies[i] = 0 /\ Kind(i) = "issue"}
             \cup (IF Ended /\ Mode = "open" /\ "person" \in ToSet(origin) THEN {Ending} ELSE {})

Promise == INSTANCE RunPromise
             WITH asked <- Asked, first <- First, may <- May,
                  done <- IsDone, left <- GivenUp, passed <- result = "pass"

\* The apply keeps what a run promises: a role that pushes to its own
\* branch, or marks its Draft ready, says nothing before that is there
\* (engine.go:1418), whatever failed and whoever pushed; nothing done is
\* undone; and a run passes with nothing left out, but an issue past
\* issues-max and a branch a person has.
KeepsPromise == Promise!Spec

-----------------------------------------------------------------------------
(* What the code's own words say, and the apply does not do.               *)

\* A branch a person committed to is never pushed over (ErrLeftToAPerson,
\* engine.go:1960).
PersonKept == [][\A n \in DOMAIN origin : origin[n] = "person" => "person" \in ToSet(origin')]_origin

\* A role's record is on the merge request it opened, once its run passes
\* (engine.go:1541).
RecordKept == result = "pass" /\ run.mr => merge.record

\* A commit whose push failed is pushed by the resume (engine.go:1459), but
\* where another moved the branch.
PushResumed == result = "not-pushed" => "person" \in ToSet(origin)
=============================================================================
