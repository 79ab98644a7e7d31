-------------------------- MODULE MergePolicy_proofs --------------------------
(***************************************************************************)
(* For any merge requests, any number of pushes, acts of people and calls  *)
(* that fail: the status workline/accepted is on no head that has not      *)
(* earned it, and no head without it merges; one merged with no person's   *)
(* yes has its record; and auto-merge a person turned off stays off.       *)
(*                                                                         *)
(* A run weighs what it read and acts later, so the inductive invariant    *)
(* says what stays true of a reading while the forge goes on: the yeses it *)
(* read were given, and what was pushed since is dated later; and of the   *)
(* calls left: the yes is among them only for a head that earned it.  What *)
(* a head earned it keeps, whoever pushes, judges or labels (EarnedKept).  *)
(***************************************************************************)
EXTENDS MergePolicy, SequenceTheorems, TLAPS

LabelsT == [Labels -> [on : BOOLEAN, at : Nat, writer : BOOLEAN]]
AutoT == [on : BOOLEAN, by : {"nobody", "bot", "person"}, at : Nat]
HeadT == [at : Nat, own : BOOLEAN, accepted : {"none", "yes", "no"}, checks : Checks,
          class : Classes \cup {"none"}, was : SUBSET (Classes \cup {"green"})]
MrT == [draft : BOOLEAN, taken : Nat, recorded : BOOLEAN, merged : 0..MaxHeads,
        labels : LabelsT, auto : AutoT]
StT == [draft : BOOLEAN, labels : LabelsT, taken : Nat, auto : AutoT, checks : Checks,
        mergeable : BOOLEAN, pushed : Nat, listed : SUBSET Labels]

-----------------------------------------------------------------------------
(* The calls a run makes.                                                  *)

Meek == [do : {"off", "on", "record"}] \cup [do : {"unlabel"}, labels : SUBSET Labels]
        \cup {Accept(FALSE)}
Calls == Meek \cup {Accept(TRUE)}

\* A call of Meek is not the yes.
LEMMA YesNotMeek == Accept(TRUE) \notin Meek
  BY DEF Accept, Meek

LEMMA OneSeq ==
    ASSUME NEW S
    PROVE  <<>> \in Seq(S) /\ \A x \in S : <<x>> \in Seq(S)
  OBVIOUS

LEMMA CallsMeek ==
    /\ \A d \in {"off", "on", "record"} : <<Call(d)>> \in Seq(Meek)
    /\ <<Accept(FALSE)>> \in Seq(Meek)
    /\ \A ls \in SUBSET Labels : <<Unlabel(ls)>> \in Seq(Meek)
    /\ <<>> \in Seq(Meek)
<1>1. \A d \in {"off", "on", "record"} : Call(d) \in Meek
  BY DEF Call, Meek
<1>2. Accept(FALSE) \in Meek
  BY DEF Meek
<1>3. \A ls \in SUBSET Labels : Unlabel(ls) \in Meek
  BY DEF Unlabel, Meek
<1> HIDE DEF Meek
<1> QED BY <1>1, <1>2, <1>3, OneSeq

LEMMA JoinMeek == \A s, t \in Seq(Meek) : s \o t \in Seq(Meek)
  BY ConcatProperties

LEMMA MeekCalls == \A s \in Seq(Meek) : s \in Seq(Calls)
  BY SeqMonotonic DEF Calls

\* What a run does short of the yes.
LEMMA OffMeek ==
    ASSUME NEW st
    PROVE  /\ TurnOff(st) \in Seq(Meek)
           /\ TakeBack(st) \in Seq(Meek)
           /\ Stalled(st) \in Seq(Meek)
<1>1. TurnOff(st) \in Seq(Meek)
  BY CallsMeek DEF TurnOff
<1>2. TakeBack(st) \in Seq(Meek)
  BY <1>1, CallsMeek, JoinMeek DEF TakeBack
<1>3. Stalled(st) \in Seq(Meek)
  BY CallsMeek DEF Stalled
<1> QED BY <1>1, <1>2, <1>3

\* armed: the yes, then what turns auto-merge on.
LEMMA ArmedCalls ==
    ASSUME NEW st, NEW record \in Seq(Meek)
    PROVE  Armed(st, record) \in Seq(Calls)
<1> DEFINE rest == IF st.auto.on THEN Stalled(st) ELSE record \o <<Call("on")>>
<1>1. rest \in Seq(Meek)
  BY OffMeek, CallsMeek, JoinMeek
<1>2. <<Accept(TRUE)>> \in Seq(Calls) /\ rest \in Seq(Calls)
  BY <1>1, MeekCalls, OneSeq DEF Calls
<1>3. <<Accept(TRUE)>> \o rest \in Seq(Calls)
  BY <1>2, ConcatProperties
<1> QED BY <1>3 DEF Armed

\* What weighing says of the head tip: the yes only if it is earned.
Fair(calls, tip) == calls \in Seq(Calls) /\ (calls \in Seq(Meek) \/ Earned(tip))

LEMMA MeekFair == \A s \in Seq(Meek) : \A h : Fair(s, h)
  BY MeekCalls DEF Fair

LEMMA ArmedFair ==
    ASSUME NEW st, NEW record \in Seq(Meek), NEW h, Earned(h)
    PROVE  Fair(Armed(st, record), h)
  BY ArmedCalls DEF Fair

LEMMA JoinFair ==
    ASSUME NEW s \in Seq(Meek), NEW t, NEW h, Fair(t, h)
    PROVE  Fair(s \o t, h)
<1>1. s \in Seq(Calls) /\ t \in Seq(Calls)
  BY MeekCalls DEF Fair
<1>2. s \o t \in Seq(Calls)
  BY <1>1, ConcatProperties
<1>3. t \in Seq(Meek) => s \o t \in Seq(Meek)
  BY JoinMeek
<1> QED BY <1>2, <1>3 DEF Fair

-----------------------------------------------------------------------------
(* The inductive invariant.                                                *)

Given(d, whole) == [at |-> d, whole |-> whole] \in yeses

\* Who accepts the merge request, by what the forge shows of it.
YesesGiven(labels, auto) ==
    /\ \A l \in Labels : labels[l].on /\ labels[l].writer => Given(labels[l].at, l = "whole")
    /\ auto.by = "person" => Given(auto.at, FALSE)

Dated(labels, auto, before) ==
    (\A l \in Labels : labels[l].at < before) /\ auto.at < before

\* A reading: the yeses in it were given, the head it saw is there, its
\* checks passed if it says so, and each head since is dated later.
ReadOK(st) ==
    /\ st \in StT
    /\ st.pushed \in DOMAIN heads
    /\ YesesGiven(st.labels, st.auto)
    /\ Dated(st.labels, st.auto, now)
    /\ st.checks = "success" => "green" \in heads[st.pushed].was
    /\ \A h \in DOMAIN heads : h > st.pushed => Dated(st.labels, st.auto, heads[h].at)

JobOK ==
    \/ job = Idle
    \/ job.at = "weigh" /\ ReadOK(job.st)
    \/ /\ job.at = "act" /\ job.tip \in DOMAIN heads
       /\ job.calls # <<>> /\ Fair(job.calls, job.tip)

Typed ==
    /\ kind \in Kinds /\ demoted \in BOOLEAN /\ vetoed \in {"no", "label", "off", "late"}
    /\ mr \in MrT
    /\ heads \in Seq(HeadT) /\ Len(heads) \in 1..MaxHeads
    /\ yeses \in SUBSET [at : Nat, whole : BOOLEAN]
    /\ now \in Nat \ {0} /\ turns \in Nat /\ faults \in Nat

HeadsOK ==
    \A h \in DOMAIN heads :
        /\ heads[h].class # "none" => heads[h].class \in heads[h].was
        /\ heads[h].checks = "success" => "green" \in heads[h].was
        /\ ~kind.here => ~heads[h].own

MrOK ==
    /\ YesesGiven(mr.labels, mr.auto)
    /\ Dated(mr.labels, mr.auto, now)
    /\ mr.auto.on <=> mr.auto.by # "nobody"
    /\ mr.merged # 0 => mr.merged \in DOMAIN heads /\ heads[mr.merged].accepted = "yes"

Inv == Typed /\ HeadsOK /\ MrOK /\ JobOK /\ AcceptEarned

-----------------------------------------------------------------------------
(* What a head earned it keeps.                                            *)

\* What a step may do to the heads and yeses there are.
Grows ==
    /\ kind' = kind /\ yeses \subseteq yeses' /\ DOMAIN heads \subseteq DOMAIN heads'
    /\ now <= now' /\ \A h \in DOMAIN heads' \ DOMAIN heads : heads'[h].at >= now
    /\ \A h \in DOMAIN heads :
          heads'[h].at = heads[h].at /\ heads'[h].own = heads[h].own
          /\ heads[h].was \subseteq heads'[h].was

LEMMA EarnedKept ==
    ASSUME Typed, Grows, NEW h \in DOMAIN heads, Earned(h)
    PROVE  Earned(h)'
<1>1. \A i \in 1..h : i \in DOMAIN heads
  BY DEF Typed
<1>2. ASSUME kind.own, ~kind.barred, "pass" \in heads[h].was, \A i \in 1..h : heads[i].own
      PROVE  Earned(h)'
  BY <1>1, <1>2 DEF Grows, Earned
<1>3. ASSUME NEW y \in yeses, CoveredBy(y, h),
             IF kind.here
             THEN "pass" \in heads[h].was \/ (y.whole /\ "short" \in heads[h].was)
             ELSE "green" \in heads[h].was /\ ~kind.barred
      PROVE  Earned(h)'
  <2>1. y \in yeses'
    BY DEF Grows
  <2>2. \A i \in 1..h : heads'[i].at <= y.at \/ heads'[i].own
    BY <1>1, <1>3 DEF Grows, CoveredBy
  <2>3. IF kind'.here
        THEN "pass" \in heads'[h].was \/ (y.whole /\ "short" \in heads'[h].was)
        ELSE "green" \in heads'[h].was /\ ~kind'.barred
    BY <1>3 DEF Grows
  <2> QED BY <2>1, <2>2, <2>3 DEF Earned, CoveredBy
<1> QED BY <1>2, <1>3 DEF Earned

-----------------------------------------------------------------------------
(* Weighing asks for the yes only for a head that earned it.               *)

\* A yes of the reading that covers the head was given, and covers it.
LEMMA FreshCovers ==
    ASSUME Inv, NEW st, ReadOK(st), NEW d \in Nat, Covers(Known(st, Tip), d, Tip),
           NEW whole \in BOOLEAN, Given(d, whole)
    PROVE  \E y \in yeses : y.at = d /\ y.whole = whole /\ CoveredBy(y, Tip)
<1> DEFINE y == [at |-> d, whole |-> whole]
<1>1. y \in yeses
  BY DEF Given
<1>2. CoveredBy(y, Tip)
  BY DEF Covers, CoveredBy
<1> QED BY <1>1, <1>2

LEMMA RoutineFair ==
    ASSUME Inv, NEW st, ReadOK(st), NEW held
    PROVE  kind.own => Fair(WeighRoutine(st, Tip, held), Tip)
<1> DEFINE waits == IF st.auto.on /\ st.auto.by = "bot" THEN TakeBack(st) ELSE <<>>
           passed == ~(kind.barred \/ held \/ ~\A h \in 1..Tip : heads[h].own)
<1>1. Fair(waits, Tip) /\ Fair(<<>>, Tip) /\ Fair(<<Accept(FALSE)>>, Tip)
  BY OffMeek, CallsMeek, MeekFair
<1>2. ASSUME kind.own, passed, heads[Tip].class = "pass"
      PROVE  Fair(Armed(st, <<Call("record")>>), Tip)
  <2>1. "pass" \in heads[Tip].was
    BY <1>2 DEF Inv, Typed, HeadsOK, Tip
  <2>2. Earned(Tip)
    BY <1>2, <2>1 DEF Earned
  <2> QED BY <2>2, ArmedFair, CallsMeek
<1> QED BY <1>1, <1>2 DEF WeighRoutine

LEMMA ForkFair ==
    ASSUME Inv, NEW st, ReadOK(st), ~kind.here, NEW d \in Nat, NEW whole \in BOOLEAN,
           Covers(Known(st, Tip), d, Tip), Given(d, whole),
           \A h \in DOMAIN heads : h > st.pushed => d < heads[h].at
    PROVE  Fair(WeighFork(st, Tip), Tip)
<1>1. Fair(<<>>, Tip)
      /\ Fair((IF st.auto.by = "bot" THEN TurnOff(st) ELSE <<>>) \o <<Accept(FALSE)>>, Tip)
  BY OffMeek, CallsMeek, MeekFair, JoinMeek
<1>2. ASSUME ~kind.barred, st.checks = "success"
      PROVE  Fair(Armed(st, <<>>), Tip)
  <2>1. Tip \in DOMAIN heads /\ heads \in Seq(HeadT)
    BY DEF Inv, Typed, Tip
  <2>2. ~heads[Tip].own
    BY <2>1 DEF Inv, HeadsOK
  <2>3. heads[Tip].at <= d
    BY <2>1, <2>2 DEF Covers, Tip
  <2>4. Tip = st.pushed
    <3>1. heads[Tip].at \in Nat
      <4>1. heads[Tip] \in HeadT
        BY <2>1
      <4> QED BY <4>1 DEF HeadT
    <3>2. ~(d < heads[Tip].at)
      BY <2>3, <3>1
    <3>3. ~(Tip > st.pushed)
      BY <2>1, <3>2
    <3>4. st.pushed \in 1..Tip /\ Tip \in Nat
      BY <2>1 DEF ReadOK, Tip
    <3> QED BY <3>3, <3>4
  <2>5. "green" \in heads[Tip].was
    BY <1>2, <2>4 DEF ReadOK
  <2>6. Earned(Tip)
    BY <1>2, <2>5, FreshCovers DEF Earned
  <2> QED BY <2>6, ArmedFair, CallsMeek
<1> QED BY <1>1, <1>2 DEF WeighFork

LEMMA VerdictFair ==
    ASSUME Inv, NEW st, ReadOK(st), kind.here, NEW yes, NEW fresh, NEW by,
           fresh # {},
           \A l \in fresh : by[l] \in Nat /\ Covers(Known(st, Tip), by[l], Tip)
                            /\ Given(by[l], l = "whole")
    PROVE  Fair(WeighVerdict(st, Tip, yes, "whole" \in fresh), Tip)
<1>1. Fair(<<>>, Tip)
      /\ Fair((IF Ours(st, yes) THEN TurnOff(st) ELSE <<>>) \o <<Accept(FALSE)>>, Tip)
  BY OffMeek, CallsMeek, MeekFair, JoinMeek
<1>2. Tip \in DOMAIN heads
  BY DEF Inv, Typed, Tip
<1>3. ASSUME heads[Tip].class = "pass"
      PROVE  Fair(Armed(st, <<>>), Tip)
  <2>1. "pass" \in heads[Tip].was
    BY <1>2, <1>3 DEF Inv, HeadsOK
  <2>2. PICK l \in fresh : TRUE
    OBVIOUS
  <2>3. PICK y \in yeses : CoveredBy(y, Tip)
    BY <2>2, FreshCovers
  <2>4. Earned(Tip)
    BY <2>1, <2>3 DEF Earned
  <2> QED BY <2>4, ArmedFair, CallsMeek
<1>4. ASSUME heads[Tip].class = "short", "whole" \in fresh
      PROVE  Fair(Armed(st, <<>>), Tip)
  <2>1. "short" \in heads[Tip].was
    BY <1>2, <1>4 DEF Inv, HeadsOK
  <2>2. Given(by["whole"], TRUE) /\ by["whole"] \in Nat
        /\ Covers(Known(st, Tip), by["whole"], Tip)
    BY <1>4
  <2>3. PICK y \in yeses : y.whole = TRUE /\ CoveredBy(y, Tip)
    BY <2>2, FreshCovers
  <2>4. Earned(Tip)
    BY <2>1, <2>3 DEF Earned
  <2> QED BY <2>4, ArmedFair, CallsMeek
<1> QED BY <1>1, <1>3, <1>4 DEF WeighVerdict

LEMMA YesFair ==
    ASSUME Inv, NEW st, ReadOK(st), NEW by,
           \A l \in DOMAIN by : /\ by[l] \in Nat /\ Given(by[l], l = "whole")
                                /\ \A h \in DOMAIN heads : h > st.pushed => by[l] < heads[h].at
    PROVE  Fair(WeighYes(st, Tip, by), Tip)
<1> DEFINE fresh == {l \in DOMAIN by : Covers(Known(st, Tip), by[l], Tip)}
           yes == Max({by[l] : l \in IF fresh # {} THEN fresh ELSE DOMAIN by})
           stale == DOMAIN by \ fresh
           past == IF Vetoed(st, yes) THEN <<Accept(FALSE)>>
                   ELSE IF st.checks = "failure" THEN <<>>
                   ELSE IF ~kind.here THEN WeighFork(st, Tip)
                   ELSE WeighVerdict(st, Tip, yes, "whole" \in fresh)
<1>1. st.listed \in SUBSET Labels /\ (stale \cap st.listed) \in SUBSET Labels
  BY DEF ReadOK, StT
<1>2. /\ Fair(IF st.auto.on THEN TakeBack(st) ELSE <<>>, Tip)
      /\ Fair(TakeBack(st) \o (IF st.listed # {} THEN <<Unlabel(st.listed)>> ELSE <<>>), Tip)
  BY <1>1, OffMeek, CallsMeek, MeekFair, JoinMeek
<1>3. StaleOff(st, stale) \in Seq(Meek)
  BY <1>1, CallsMeek DEF StaleOff
<1>4. fresh # {} => Fair(past, Tip)
  <2> SUFFICES ASSUME fresh # {} PROVE Fair(past, Tip)
    OBVIOUS
  <2>1. Fair(<<Accept(FALSE)>>, Tip) /\ Fair(<<>>, Tip)
    BY CallsMeek, MeekFair
  <2>2. PICK l \in fresh : TRUE
    OBVIOUS
  <2>3. by[l] \in Nat /\ Covers(Known(st, Tip), by[l], Tip) /\ Given(by[l], l = "whole")
        /\ \A h \in DOMAIN heads : h > st.pushed => by[l] < heads[h].at
    BY <2>2
  <2>4. ~kind.here => Fair(WeighFork(st, Tip), Tip)
    BY <2>3, ForkFair
  <2>5. kind.here => Fair(WeighVerdict(st, Tip, yes, "whole" \in fresh), Tip)
    BY VerdictFair
  <2> QED BY <2>1, <2>4, <2>5
<1>5. fresh # {} => Fair(StaleOff(st, stale) \o past, Tip)
  BY <1>3, <1>4, JoinFair
<1> QED BY <1>2, <1>5 DEF WeighYes

LEMMA WeighFair ==
    ASSUME Inv, NEW st, ReadOK(st), NEW held
    PROVE  Fair(Weigh(st, Tip, held), Tip)
<1>1. Fair(TakeBack(st), Tip) /\ Fair(<<>>, Tip)
  BY OffMeek, CallsMeek, MeekFair
<1>2. kind.own => Fair(WeighRoutine(st, Tip, held), Tip)
  BY RoutineFair
<1>3. st.auto.by = "person" => Fair(WeighYes(st, Tip, [l \in {"plain"} |-> st.auto.at]), Tip)
  <2> DEFINE by == [l \in {"plain"} |-> st.auto.at]
  <2> SUFFICES ASSUME st.auto.by = "person" PROVE Fair(WeighYes(st, Tip, by), Tip)
    OBVIOUS
  <2>1. \A l \in DOMAIN by :
           /\ by[l] \in Nat /\ Given(by[l], l = "whole")
           /\ \A h \in DOMAIN heads : h > st.pushed => by[l] < heads[h].at
    BY DEF ReadOK, YesesGiven, Dated, StT, AutoT
  <2> HIDE DEF by
  <2> QED BY <2>1, YesFair
<1>4. Fair(WeighYes(st, Tip, [l \in Yeses(st.labels) |-> st.labels[l].at]), Tip)
  <2> DEFINE by == [l \in Yeses(st.labels) |-> st.labels[l].at]
  <2> SUFFICES Fair(WeighYes(st, Tip, by), Tip)
    OBVIOUS
  <2>1. \A l \in DOMAIN by :
           /\ by[l] \in Nat /\ Given(by[l], l = "whole")
           /\ \A h \in DOMAIN heads : h > st.pushed => by[l] < heads[h].at
    BY DEF ReadOK, YesesGiven, Dated, StT, LabelsT, Yeses, On
  <2> HIDE DEF by
  <2> QED BY <2>1, YesFair
<1> QED BY <1>1, <1>2, <1>3, <1>4 DEF Weigh

-----------------------------------------------------------------------------
(* Each step keeps the invariant.                                          *)

\* What a run read, and is to do, stays true while the forge goes on.
LEMMA ReadKept ==
    ASSUME Inv, Typed', Grows, NEW st, ReadOK(st)
    PROVE  ReadOK(st)'
<1>1. st \in StT /\ st.pushed \in DOMAIN heads'
  BY DEF ReadOK, Grows
<1>2. YesesGiven(st.labels, st.auto)'
  BY DEF ReadOK, YesesGiven, Given, Grows
<1>3. now \in Nat /\ now' \in Nat /\ now <= now'
  BY DEF Inv, Typed, Grows
<1>4. Dated(st.labels, st.auto, now)'
  BY <1>1, <1>3 DEF ReadOK, Dated, StT, LabelsT, AutoT
<1>5. (st.checks = "success" => "green" \in heads[st.pushed].was)'
  BY DEF ReadOK, Grows
<1>6. ASSUME NEW h \in DOMAIN heads', h > st.pushed
      PROVE  Dated(st.labels, st.auto, heads'[h].at)
  <2>1. CASE h \in DOMAIN heads
    BY <1>6, <2>1 DEF ReadOK, Grows
  <2>2. CASE h \notin DOMAIN heads
    <3>1. heads'[h] \in HeadT
      BY <1>6 DEF Typed
    <3>2. heads'[h].at \in Nat
      BY <3>1 DEF HeadT
    <3>3. heads'[h].at >= now
      BY <1>6, <2>2 DEF Grows
    <3> QED BY <1>1, <1>3, <3>2, <3>3 DEF ReadOK, Dated, StT, LabelsT, AutoT
  <2> QED BY <2>1, <2>2
<1> QED BY <1>1, <1>2, <1>4, <1>5, <1>6 DEF ReadOK

LEMMA FairKept ==
    ASSUME Inv, Grows, NEW calls, NEW h \in DOMAIN heads, Fair(calls, h)
    PROVE  Fair(calls, h)'
  BY EarnedKept DEF Inv, Fair

LEMMA JobKept ==
    ASSUME Inv, Typed', Grows, job' = job
    PROVE  JobOK'
<1>1. CASE job = Idle
  BY <1>1 DEF JobOK
<1>2. CASE job.at = "weigh" /\ ReadOK(job.st)
  BY <1>2, ReadKept DEF JobOK
<1>3. CASE job.at = "act" /\ job.tip \in DOMAIN heads
           /\ job.calls # <<>> /\ Fair(job.calls, job.tip)
  <2>1. Fair(job.calls, job.tip)'
    BY <1>3, FairKept
  <2>2. job.tip \in DOMAIN heads'
    BY <1>3 DEF Grows
  <2> QED BY <1>3, <2>1, <2>2 DEF JobOK
<1> QED BY <1>1, <1>2, <1>3 DEF Inv, JobOK

\* The status is on the heads it was on, or is put on one that earned it.
Statuses ==
    \A h \in DOMAIN heads' :
        heads'[h].accepted = "yes" =>
            h \in DOMAIN heads /\ (heads[h].accepted = "yes" \/ Earned(h))

LEMMA AcceptKept ==
    ASSUME Inv, Grows, Statuses
    PROVE  AcceptEarned'
<1> SUFFICES ASSUME NEW h \in DOMAIN heads', heads'[h].accepted = "yes"
             PROVE  Earned(h)'
  BY DEF AcceptEarned
<1>1. h \in DOMAIN heads /\ Earned(h)
  BY DEF Statuses, Inv, AcceptEarned
<1> QED BY <1>1, EarnedKept DEF Inv

\* A step that leaves the heads alone.
LEMMA SameHeads ==
    ASSUME Inv, heads' = heads, kind' = kind, yeses \subseteq yeses', now <= now'
    PROVE  Grows /\ Statuses /\ HeadsOK'
  BY DEF Grows, Statuses, Inv, HeadsOK

\* A step keeps the invariant: what its action has to show.
LEMMA KeepsInv ==
    ASSUME Inv, Typed', HeadsOK', MrOK', Grows, Statuses, JobOK'
    PROVE  Inv'
  BY AcceptKept DEF Inv

LEMMA MergeStateKeeps == Inv /\ MergeState => Inv'
<1> SUFFICES ASSUME Inv, MergeState PROVE Inv'
  OBVIOUS
<1>1. Typed' /\ MrOK'
  BY DEF MergeState, Others, Inv, Typed, MrOK, YesesGiven, Given, Dated
<1>2. Grows /\ Statuses /\ HeadsOK'
  BY SameHeads DEF MergeState, Others, Inv, Typed
<1>3. JobOK'
  <2>1. Tip \in DOMAIN heads /\ Tip \in Nat /\ Tip = Len(heads) /\ heads[Tip] \in HeadT
    BY DEF Inv, Typed, Tip
  <2>2. heads[Tip].checks \in Checks /\ Mergeable \in BOOLEAN
    BY <2>1 DEF HeadT, Mergeable
  <2>3. On(mr.labels) \in SUBSET Labels
    BY DEF On
  <2>4. job'.at = "weigh"
        /\ job'.st = [draft |-> mr.draft, labels |-> mr.labels, taken |-> mr.taken,
                      auto |-> mr.auto, checks |-> heads[Tip].checks,
                      mergeable |-> Mergeable, pushed |-> Tip, listed |-> On(mr.labels)]
    BY DEF MergeState
  <2>5. job'.st \in StT
    BY <2>1, <2>2, <2>3, <2>4 DEF StT, Inv, Typed, MrT
  <2>6. ReadOK(job'.st)
    BY <2>1, <2>4, <2>5 DEF ReadOK, Inv, MrOK, HeadsOK
  <2>7. (ReadOK(job.st))'
    BY <2>6 DEF ReadOK, YesesGiven, Given, Dated, MergeState, Others
  <2> QED BY <2>4, <2>7 DEF JobOK
<1> QED BY <1>1, <1>2, <1>3, KeepsInv

\* The calls left, or none.
LEMMA DoingOK ==
    ASSUME NEW h \in DOMAIN heads, NEW calls, Fair(calls, h)
    PROVE  \/ Doing(h, calls) = Idle
           \/ /\ Doing(h, calls).at = "act" /\ Doing(h, calls).tip = h
              /\ Doing(h, calls).calls = calls /\ calls # <<>>
  BY DEF Doing

LEMMA WeighItKeeps == Inv /\ WeighIt => Inv'
<1> SUFFICES ASSUME Inv, WeighIt PROVE Inv'
  OBVIOUS
<1>1. Typed' /\ MrOK'
  BY DEF WeighIt, Others, Inv, Typed, MrOK, YesesGiven, Given, Dated
<1>2. Grows /\ Statuses /\ HeadsOK'
  BY SameHeads DEF WeighIt, Others, Inv, Typed
<1>3. JobOK'
  <2>1. ReadOK(job.st)
    BY DEF Inv, JobOK, WeighIt, Idle
  <2>2. PICK h, calls : h = Tip /\ calls = Weigh(job.st, Tip, job.held)
    OBVIOUS
  <2>3. h \in DOMAIN heads /\ Fair(calls, h)
    BY <2>1, <2>2, WeighFair DEF Inv, Typed, Tip
  <2>4. h \in DOMAIN heads' /\ Fair(calls, h)'
    BY <1>2, <2>3, FairKept DEF Grows
  <2>5. job' = Doing(h, calls)
    BY <2>2 DEF WeighIt
  <2> QED BY <2>3, <2>4, <2>5, DoingOK DEF JobOK
<1> QED BY <1>1, <1>2, <1>3, KeepsInv

\* The first call left: one a run makes, the yes only if it is earned.
LEMMA HeadCall ==
    ASSUME Inv, job.at = "act"
    PROVE  /\ job.tip \in DOMAIN heads
           /\ Head(job.calls) \in Calls
           /\ Head(job.calls) \in Meek \/ Earned(job.tip)
           /\ Tail(job.calls) \in Seq(Calls)
           /\ Tail(job.calls) \in Seq(Meek) \/ Earned(job.tip)
<1>1. job.tip \in DOMAIN heads /\ job.calls # <<>> /\ Fair(job.calls, job.tip)
  BY DEF Inv, JobOK, Idle
<1>2. Head(job.calls) \in Calls /\ Tail(job.calls) \in Seq(Calls)
  BY <1>1, HeadTailProperties DEF Fair
<1>3. job.calls \in Seq(Meek) => Head(job.calls) \in Meek /\ Tail(job.calls) \in Seq(Meek)
  BY <1>1, HeadTailProperties
<1> QED BY <1>1, <1>2, <1>3 DEF Fair

LEMMA MrTypes ==
    ASSUME Inv
    PROVE  /\ mr.draft \in BOOLEAN /\ mr.taken \in Nat /\ mr.recorded \in BOOLEAN
           /\ mr.merged \in 0..MaxHeads /\ mr.labels \in LabelsT /\ mr.auto \in AutoT
           /\ \A l \in Labels : mr.labels[l] \in [on : BOOLEAN, at : Nat, writer : BOOLEAN]
           /\ mr.auto.on \in BOOLEAN /\ mr.auto.at \in Nat
           /\ Tip \in DOMAIN heads /\ Tip \in 1..MaxHeads /\ now \in Nat \ {0} /\ MaxHeads \in Nat
  BY PolicyAssumption DEF Inv, Typed, MrT, AutoT, LabelsT, Tip

\* The calls on the merge request: off, on, a label off, the record.
LEMMA MergesKept ==
    ASSUME Inv, Open, Mergeable, mr' = [mr EXCEPT !.merged = Tip, !.auto = AutoOff], NEW d \in Nat, now <= d
    PROVE  /\ mr' \in MrT
           /\ (\A l \in Labels : mr'.labels[l].at < d) /\ mr'.auto.at < d
           /\ mr'.labels = mr.labels
           /\ mr'.auto.by = "nobody" /\ mr'.auto.on = FALSE
           /\ mr'.merged = Tip /\ heads[Tip].accepted = "yes"
<1>1. mr \in MrT /\ AutoOff \in AutoT /\ AutoOff.at = 0 /\ AutoOff.by = "nobody" /\ AutoOff.on = FALSE
  BY DEF Inv, Typed, AutoOff, AutoT
<1>2. \A l \in Labels : mr.labels[l].at < d
  BY MrTypes DEF Inv, MrOK, Dated
<1>3. mr' \in MrT
  <2>1. Tip \in 0..MaxHeads
    BY MrTypes
  <2> QED BY <1>1, <2>1 DEF MrT
<1>4. mr'.labels = mr.labels /\ mr'.auto = AutoOff /\ mr'.merged = Tip
  BY <1>1 DEF MrT
<1>5. heads[Tip].accepted = "yes"
  BY DEF Mergeable
<1>6. mr'.auto.at < d
  BY <1>1, <1>4, MrTypes
<1> QED BY <1>1, <1>2, <1>3, <1>4, <1>5, <1>6

\* Labels that come off, by anyone.
LEMMA UnlabelledKept ==
    ASSUME Inv, NEW ls \in SUBSET Labels, Unlabelled(ls), NEW d \in Nat, now <= d
    PROVE  /\ mr' \in MrT
           /\ mr'.auto = mr.auto /\ mr'.merged = mr.merged
           /\ \A l \in Labels : /\ mr'.labels[l].on => mr'.labels[l] = mr.labels[l]
                                /\ mr'.labels[l].at < d
<1> DEFINE labels == [l \in Labels |-> IF l \in ls THEN Off ELSE mr.labels[l]]
           taken == IF ls \cap On(mr.labels) # {} THEN now ELSE mr.taken
<1>1. mr' = [mr EXCEPT !.labels = labels, !.taken = taken]
  BY DEF Unlabelled
<1>2. labels \in LabelsT /\ taken \in Nat
  BY MrTypes DEF LabelsT, Off
<1>3. mr \in MrT
  BY DEF Inv, Typed
<1>4. mr' \in MrT /\ mr'.labels = labels /\ mr'.auto = mr.auto /\ mr'.merged = mr.merged
  <2> HIDE DEF labels, taken
  <2> QED BY <1>1, <1>2, <1>3 DEF MrT
<1>5. \A l \in Labels : mr.labels[l].at < d
  BY MrTypes DEF Inv, MrOK, Dated
<1>6. 0 < d
  BY MrTypes
<1>7. \A l \in Labels : /\ labels[l].on => labels[l] = mr.labels[l]
                        /\ labels[l].at < d
  BY <1>5, <1>6 DEF Off
<1> QED BY <1>4, <1>7

\* Auto-merge turned on, now.
LEMMA TurnsOnKept ==
    ASSUME Inv, NEW by \in {"bot", "person"}, TurnsOn(by)
    PROVE  /\ mr' \in MrT /\ mr'.labels = mr.labels /\ mr'.merged = mr.merged
           /\ mr'.auto = [on |-> TRUE, by |-> by, at |-> now]
<1>1. [on |-> TRUE, by |-> by, at |-> now] \in AutoT /\ mr \in MrT
  BY MrTypes DEF AutoT, Inv, Typed
<1> QED BY <1>1 DEF TurnsOn, MrT

\* Auto-merge turned off.
LEMMA TurnsOffKept ==
    ASSUME Inv, TurnsOff
    PROVE  /\ mr' \in MrT /\ mr'.labels = mr.labels /\ mr'.merged = mr.merged
           /\ mr'.auto.on = FALSE /\ mr'.auto.by = "nobody" /\ mr'.auto.at = mr.auto.at
<1>1. mr \in MrT /\ mr.auto \in AutoT
  BY MrTypes DEF Inv, Typed
<1>2. [mr.auto EXCEPT !.on = FALSE, !.by = "nobody"] \in AutoT
  BY <1>1 DEF AutoT
<1>3. mr' = [mr EXCEPT !.auto = [mr.auto EXCEPT !.on = FALSE, !.by = "nobody"]]
  BY <1>1 DEF TurnsOff, MrT, AutoT
<1> QED BY <1>1, <1>2, <1>3 DEF MrT, AutoT

\* The labels and the dates, where no label is put.
LEMMA LabelsKept ==
    ASSUME Inv, yeses \subseteq yeses', now \in Nat, now' \in Nat, now <= now',
           \A l \in Labels : /\ mr'.labels[l].on => mr'.labels[l] = mr.labels[l]
                             /\ mr'.labels[l].at < now'
    PROVE  \A l \in Labels :
             /\ mr'.labels[l].on /\ mr'.labels[l].writer => Given(mr.labels[l].at, l = "whole")'
             /\ mr'.labels[l].at < now'
<1> SUFFICES ASSUME NEW l \in Labels, mr'.labels[l].on, mr'.labels[l].writer
             PROVE  Given(mr.labels[l].at, l = "whole")'
  OBVIOUS
<1>1. mr'.labels[l] = mr.labels[l]
  OBVIOUS
<1>2. Given(mr.labels[l].at, l = "whole")
  BY <1>1 DEF Inv, MrOK, YesesGiven
<1> QED BY <1>1, <1>2 DEF Given

LEMMA SameLabels ==
    ASSUME Inv, mr'.labels = mr.labels, now' \in Nat, now <= now'
    PROVE  \A l \in Labels : /\ mr'.labels[l].on => mr'.labels[l] = mr.labels[l]
                             /\ mr'.labels[l].at < now'
  BY MrTypes DEF Inv, MrOK, Dated

\* The status put on the head weighed.
LEMMA AcceptedKept ==
    ASSUME Inv, NEW h \in DOMAIN heads, NEW ok \in BOOLEAN, ok => Earned(h),
           heads' = [heads EXCEPT ![h].accepted = IF ok THEN "yes" ELSE "no"],
           kind' = kind, yeses' = yeses, now' = now
    PROVE  /\ heads' \in Seq(HeadT) /\ Len(heads') = Len(heads)
           /\ Grows /\ Statuses /\ HeadsOK'
<1> DEFINE new == [heads[h] EXCEPT !.accepted = IF ok THEN "yes" ELSE "no"]
<1>1. heads \in Seq(HeadT) /\ heads[h] \in HeadT /\ now \in Nat
  BY DEF Inv, Typed
<1>2. new \in HeadT /\ new.at = heads[h].at /\ new.own = heads[h].own
      /\ new.was = heads[h].was /\ new.class = heads[h].class /\ new.checks = heads[h].checks
      /\ new.accepted = (IF ok THEN "yes" ELSE "no")
  BY <1>1 DEF HeadT
<1>3. heads' = [heads EXCEPT ![h] = new]
  OBVIOUS
<1> HIDE DEF new
<1>4. heads' \in Seq(HeadT) /\ Len(heads') = Len(heads) /\ DOMAIN heads' = DOMAIN heads
  BY <1>1, <1>2, <1>3
<1>5. \A i \in DOMAIN heads : heads'[i] = IF i = h THEN new ELSE heads[i]
  BY <1>1, <1>3
<1>6. Grows
  BY <1>1, <1>2, <1>4, <1>5 DEF Grows
<1>7. Statuses
  BY <1>2, <1>4, <1>5 DEF Statuses
<1>8. HeadsOK'
  BY <1>2, <1>4, <1>5 DEF Inv, HeadsOK
<1> QED BY <1>4, <1>6, <1>7, <1>8

Done1 == /\ mr' \in MrT
         /\ heads' \in Seq(HeadT) /\ Len(heads') = Len(heads)
         /\ now' \in Nat \ {0}
         /\ Grows /\ Statuses /\ HeadsOK' /\ MrOK'

LEMMA DoneKeeps ==
    ASSUME Inv, Open, job.at = "act", Done(Head(job.calls)), UNCHANGED Others
    PROVE  Done1
<1> DEFINE call == Head(job.calls)
<1>0. /\ job.tip \in DOMAIN heads /\ call \in Calls /\ (call \in Meek \/ Earned(job.tip))
      /\ mr \in MrT /\ heads \in Seq(HeadT) /\ now \in Nat \ {0}
      /\ kind' = kind /\ yeses' = yeses /\ mr.merged = 0
  BY HeadCall DEF Inv, Typed, Others, Open
<1>1. CASE call.do = "accept"
  <2>1. mr' = mr /\ now' = now
    BY <1>1 DEF Done
  <2>2. PICK ok \in BOOLEAN : call = Accept(ok) /\ (ok => Earned(job.tip))
    BY <1>0, <1>1, YesNotMeek DEF Calls, Meek, Accept
  <2>3. heads' = [heads EXCEPT ![job.tip].accepted = IF ok THEN "yes" ELSE "no"]
    <3>1. heads' = Accepted(call.ok)
      BY <1>1 DEF Done
    <3>2. call.ok = ok
      BY <2>2 DEF Accept
    <3> QED BY <3>1, <3>2 DEF Accepted
  <2>4. /\ heads' \in Seq(HeadT) /\ Len(heads') = Len(heads)
        /\ Grows /\ Statuses /\ HeadsOK'
    BY <1>0, <2>1, <2>2, <2>3, AcceptedKept
  <2>5. MrOK'
    BY <1>0, <2>1 DEF Inv, MrOK, YesesGiven, Given, Dated
  <2> QED BY <1>0, <2>1, <2>4, <2>5 DEF Done1
<1>2. CASE call.do # "accept"
  <2>1. heads' = heads /\ now' \in Nat \ {0} /\ now <= now'
    BY <1>0, <1>2 DEF Done, Tick
  <2>2. Grows /\ Statuses /\ HeadsOK'
    BY <1>0, <2>1, SameHeads
  <2>3. mr.labels \in LabelsT /\ mr.auto \in AutoT /\ mr.auto.at < now /\ mr.auto.at \in Nat /\ MrOK
    BY MrTypes DEF Inv, MrOK, Dated
  <2>4. SUFFICES
          /\ mr' \in MrT
          /\ \A l \in Labels : /\ mr'.labels[l].on => mr'.labels[l] = mr.labels[l]
                               /\ mr'.labels[l].at < now'
          /\ mr'.auto.on <=> mr'.auto.by # "nobody"
          /\ mr'.auto.by = "person" => mr'.auto = mr.auto
          /\ mr'.auto.at < now'
          /\ mr'.merged # 0 => mr'.merged = Tip /\ heads[Tip].accepted = "yes"
    <3>1. YesesGiven(mr.labels, mr.auto)'
      BY <1>0, <2>1, <2>3, <2>4, LabelsKept DEF YesesGiven, MrOK, Given
    <3>2. Dated(mr.labels, mr.auto, now)'
      BY <2>4 DEF Dated
    <3>3. MrOK'
      BY <2>1, <2>4, <3>1, <3>2, MrTypes DEF MrOK
    <3> QED BY <1>0, <2>1, <2>2, <2>4, <3>3 DEF Done1
  <2>5. CASE call.do = "off"
    <3>1. TurnsOff
      BY <2>5 DEF Done
    <3>2. /\ mr' \in MrT /\ mr'.labels = mr.labels /\ mr'.merged = mr.merged
          /\ mr'.auto.on = FALSE /\ mr'.auto.by = "nobody" /\ mr'.auto.at = mr.auto.at
      BY <3>1, TurnsOffKept
    <3>3. mr'.auto.at < now'
      BY <1>0, <2>1, <2>3, <3>2
    <3> QED BY <1>0, <2>1, <3>2, <3>3, SameLabels
  <2>6. CASE call.do = "unlabel"
    <3>1. call.labels \in SUBSET Labels
      BY <1>0, <2>6 DEF Calls, Meek, Accept
    <3>2. Unlabelled(call.labels)
      BY <2>6 DEF Done
    <3> QED BY <1>0, <2>1, <2>3, <3>1, <3>2, UnlabelledKept DEF MrOK
  <2>7. CASE call.do = "record"
    <3>1. mr' = [mr EXCEPT !.recorded = TRUE]
      BY <2>7 DEF Done
    <3>2. mr' \in MrT /\ mr'.labels = mr.labels /\ mr'.auto = mr.auto /\ mr'.merged = mr.merged
      BY <1>0, <3>1 DEF MrT
    <3> QED BY <1>0, <2>1, <2>3, <3>2, SameLabels DEF MrOK
  <2>8. CASE call.do = "on"
    <3>1. AutoMergeOn /\ now' = now + 1
      BY <2>8 DEF Done, Tick
    <3>2. CASE mr' = mr
      BY <1>0, <2>1, <2>3, <3>2, SameLabels DEF MrOK
    <3>3. CASE Mergeable /\ Merge(Tip)
      BY <1>0, <2>1, <3>3, MergesKept DEF Merge
    <3>4. CASE TurnsOn("bot")
      BY <1>0, <2>1, <3>1, <3>4, TurnsOnKept, SameLabels
    <3> QED BY <3>1, <3>2, <3>3, <3>4 DEF AutoMergeOn
  <2> QED
    BY <1>0, <1>2, <2>5, <2>6, <2>7, <2>8 DEF Calls, Meek, Accept
<1> QED BY <1>1, <1>2

LEMMA ActKeeps == Inv /\ Act => Inv'
<1> SUFFICES ASSUME Inv, Act PROVE Inv'
  OBVIOUS
<1>1. Done1
  BY DoneKeeps DEF Act
<1>2. Typed'
  BY <1>1 DEF Done1, Act, Others, Inv, Typed
<1>3. JobOK'
  <2>1. PICK h, calls : h = job.tip /\ calls = Tail(job.calls)
    OBVIOUS
  <2>2. h \in DOMAIN heads /\ Fair(calls, h)
    BY <2>1, HeadCall DEF Act, Fair
  <2>3. h \in DOMAIN heads' /\ Fair(calls, h)'
    BY <1>1, <2>2, FairKept DEF Done1, Grows
  <2>4. job' = Doing(h, calls)
    BY <2>1 DEF Act
  <2> QED BY <2>2, <2>3, <2>4, DoingOK DEF JobOK
<1> QED BY <1>1, <1>2, <1>3, KeepsInv DEF Done1

LEMMA FailsKeeps == Inv /\ Fails => Inv'
<1> SUFFICES ASSUME Inv, Fails PROVE Inv'
  OBVIOUS
<1>1. JobOK'
  BY DEF Fails, JobOK
<1>2. CASE UNCHANGED <<mr, heads, now>>
  <2>1. Typed' /\ MrOK'
    BY <1>2 DEF Fails, Others, Inv, Typed, MrOK, YesesGiven, Given, Dated
  <2>2. Grows /\ Statuses /\ HeadsOK'
    BY <1>2, SameHeads DEF Fails, Others, Inv, Typed
  <2> QED BY <1>1, <2>1, <2>2, KeepsInv
<1>3. CASE Open /\ job.at = "act" /\ Done(Head(job.calls))
  <2>1. Done1
    BY <1>3, DoneKeeps DEF Fails
  <2>2. Typed'
    BY <2>1 DEF Done1, Fails, Others, Inv, Typed
  <2> QED BY <1>1, <2>1, <2>2, KeepsInv DEF Done1
<1> QED BY <1>2, <1>3 DEF Fails

\* A step of the forge or of people that leaves the heads and the run alone.
LEMMA MrStep ==
    ASSUME Inv, heads' = heads, job' = job, kind' = kind, yeses \subseteq yeses',
           Typed', now <= now', MrOK'
    PROVE  Inv'
<1>1. Grows /\ Statuses /\ HeadsOK'
  BY SameHeads
<1> QED BY <1>1, JobKept, KeepsInv

LEMMA ForgeMergesKeeps == Inv /\ ForgeMerges => Inv'
<1> SUFFICES ASSUME Inv, ForgeMerges PROVE Inv'
  OBVIOUS
<1>1. /\ mr' = [mr EXCEPT !.merged = Tip, !.auto = AutoOff] /\ Open /\ Mergeable
      /\ heads' = heads /\ job' = job /\ kind' = kind /\ yeses' = yeses /\ now' = now
      /\ now \in Nat /\ now <= now
  BY DEF ForgeMerges, Merge, Others, Inv, Typed
<1>2. /\ mr' \in MrT
      /\ (\A l \in Labels : mr'.labels[l].at < now) /\ mr'.auto.at < now
      /\ mr'.labels = mr.labels
      /\ mr'.auto.by = "nobody" /\ mr'.auto.on = FALSE
      /\ mr'.merged = Tip /\ heads[Tip].accepted = "yes"
  BY <1>1, MergesKept
<1>3. Typed'
  BY <1>1, <1>2 DEF ForgeMerges, Others, Inv, Typed
<1>4. YesesGiven(mr.labels, mr.auto)'
  BY <1>1, <1>2 DEF Inv, MrOK, YesesGiven, Given
<1>5. Dated(mr.labels, mr.auto, now)'
  BY <1>1, <1>2 DEF Dated
<1>6. MrOK'
  BY <1>1, <1>2, <1>4, <1>5, MrTypes DEF MrOK
<1> QED BY <1>1, <1>3, <1>6, MrStep

LEMMA PutsKeeps == ASSUME NEW l \in Labels, NEW w \in BOOLEAN PROVE Inv /\ Puts(l, w) => Inv'
<1> SUFFICES ASSUME Inv, Puts(l, w) PROVE Inv'
  OBVIOUS
<1> DEFINE put == [on |-> TRUE, at |-> now, writer |-> w]
           labels == [mr.labels EXCEPT ![l] = put]
<1>1. /\ mr \in MrT /\ mr.labels \in LabelsT /\ now \in Nat \ {0} /\ now' = now + 1
      /\ heads' = heads /\ job' = job /\ kind' = kind /\ Open
  BY MrTypes DEF Inv, Typed, Puts, Tick, Turn, Still
<1>2. yeses \subseteq yeses' /\ yeses' \in SUBSET [at : Nat, whole : BOOLEAN]
      /\ (w => [at |-> now, whole |-> l = "whole"] \in yeses') /\ vetoed' \in {"no", "label", "off", "late"}
  <2> DEFINE y == [at |-> now, whole |-> l = "whole"]
  <2>1. y \in [at : Nat, whole : BOOLEAN]
    BY <1>1
  <2>2. CASE w
    <3>1. yeses' = yeses \cup {y} /\ vetoed' = "no"
      BY <2>2 DEF Puts, Gives
    <3> QED BY <2>1, <3>1 DEF Inv, Typed
  <2>3. CASE ~w
    BY <2>3 DEF Puts, Inv, Typed
  <2> QED BY <2>2, <2>3
<1>3. mr' = [mr EXCEPT !.labels = labels, !.taken = 0]
  BY <1>1 DEF Puts, MrT
<1>4. labels \in LabelsT
  BY <1>1 DEF LabelsT
<1>5. mr' \in MrT /\ mr'.labels = labels /\ mr'.auto = mr.auto /\ mr'.merged = mr.merged
  <2> HIDE DEF labels
  <2> QED BY <1>1, <1>3, <1>4 DEF MrT
<1>6. Typed'
  BY <1>1, <1>2, <1>5 DEF Puts, Turn, Still, Inv, Typed
<1>7. \A k \in Labels : labels[k] = IF k = l THEN put ELSE mr.labels[k]
  BY <1>1 DEF LabelsT
<1>8. YesesGiven(mr.labels, mr.auto)'
  <2>1. ASSUME NEW k \in Labels, labels[k].on, labels[k].writer
        PROVE  [at |-> labels[k].at, whole |-> k = "whole"] \in yeses'
    BY <1>2, <1>7, <2>1 DEF Inv, MrOK, YesesGiven, Given
  <2>2. mr.auto.by = "person" => [at |-> mr.auto.at, whole |-> FALSE] \in yeses'
    BY <1>2 DEF Inv, MrOK, YesesGiven, Given
  <2> HIDE DEF labels
  <2> QED BY <1>5, <2>1, <2>2 DEF YesesGiven, Given
<1>9. Dated(mr.labels, mr.auto, now)'
  BY <1>1, <1>5, <1>7, MrTypes DEF Inv, MrOK, Dated
<1>10. MrOK'
  <2> HIDE DEF labels
  <2> QED BY <1>1, <1>5, <1>8, <1>9 DEF Inv, MrOK, Open
<1> QED BY <1>1, <1>2, <1>6, <1>10, MrStep

LEMMA TakesOffKeeps == ASSUME NEW l \in Labels PROVE Inv /\ TakesOff(l) => Inv'
<1> SUFFICES ASSUME Inv, TakesOff(l) PROVE Inv'
  OBVIOUS
<1>1. /\ now \in Nat \ {0} /\ now' = now + 1 /\ yeses' = yeses
      /\ heads' = heads /\ job' = job /\ kind' = kind /\ Open
  BY MrTypes DEF Inv, Typed, TakesOff, Tick, Turn, Still
<1>2. /\ mr' \in MrT
      /\ mr'.auto = mr.auto /\ mr'.merged = mr.merged
      /\ \A k \in Labels : /\ mr'.labels[k].on => mr'.labels[k] = mr.labels[k]
                           /\ mr'.labels[k].at < now'
  BY <1>1, UnlabelledKept DEF TakesOff
<1>3. Typed'
  BY <1>1, <1>2 DEF TakesOff, Turn, Still, Vetoes, Inv, Typed
<1>4. YesesGiven(mr.labels, mr.auto)'
  BY <1>1, <1>2, LabelsKept DEF Inv, MrOK, YesesGiven, Given
<1>5. Dated(mr.labels, mr.auto, now)'
  BY <1>1, <1>2, MrTypes DEF Inv, MrOK, Dated
<1>6. MrOK'
  BY <1>1, <1>2, <1>4, <1>5 DEF Inv, MrOK, Open
<1> QED BY <1>1, <1>3, <1>6, MrStep

\* Auto-merge turned on by a person: their own yes.
LEMMA PersonTurnsOnKeeps == Inv /\ PersonTurnsOn => Inv'
<1> SUFFICES ASSUME Inv, PersonTurnsOn PROVE Inv'
  OBVIOUS
<1> DEFINE y == [at |-> now, whole |-> FALSE]
<1>1. /\ now \in Nat \ {0} /\ now' = now + 1 /\ yeses' = yeses \cup {y}
      /\ heads' = heads /\ job' = job /\ kind' = kind /\ Open /\ vetoed' = "no"
  BY MrTypes DEF PersonTurnsOn, Tick, Turn, Still, Gives
<1>2. /\ mr' \in MrT /\ mr'.labels = mr.labels /\ mr'.merged = mr.merged
      /\ mr'.auto = [on |-> TRUE, by |-> "person", at |-> now]
  BY TurnsOnKept DEF PersonTurnsOn
<1>3. y \in [at : Nat, whole : BOOLEAN]
  BY <1>1
<1>4. Typed'
  <2>1. yeses' \in SUBSET [at : Nat, whole : BOOLEAN]
    BY <1>1, <1>3 DEF Inv, Typed
  <2> QED BY <1>1, <1>2, <2>1 DEF PersonTurnsOn, Turn, Still, Inv, Typed
<1>5. YesesGiven(mr.labels, mr.auto)'
  BY <1>1, <1>2 DEF Inv, MrOK, YesesGiven, Given
<1>6. Dated(mr.labels, mr.auto, now)'
  BY <1>1, <1>2, MrTypes DEF Inv, MrOK, Dated
<1>7. MrOK'
  BY <1>1, <1>2, <1>5, <1>6 DEF MrOK, Open
<1> QED BY <1>1, <1>4, <1>7, MrStep

LEMMA PersonTurnsOffKeeps == Inv /\ PersonTurnsOff => Inv'
<1> SUFFICES ASSUME Inv, PersonTurnsOff PROVE Inv'
  OBVIOUS
<1>1. /\ now \in Nat \ {0} /\ now' = now /\ yeses' = yeses
      /\ heads' = heads /\ job' = job /\ kind' = kind /\ Open
  BY MrTypes DEF PersonTurnsOff, Turn, Still
<1>2. /\ mr' \in MrT /\ mr'.labels = mr.labels /\ mr'.merged = mr.merged
      /\ mr'.auto.on = FALSE /\ mr'.auto.by = "nobody" /\ mr'.auto.at = mr.auto.at
  BY TurnsOffKept DEF PersonTurnsOff
<1>3. vetoed' \in {"no", "label", "off", "late"}
  BY DEF PersonTurnsOff, Vetoes, Inv, Typed
<1>4. Typed'
  BY <1>1, <1>2, <1>3 DEF PersonTurnsOff, Turn, Still, Inv, Typed
<1>5. YesesGiven(mr.labels, mr.auto)'
  BY <1>1, <1>2 DEF Inv, MrOK, YesesGiven, Given
<1>6. Dated(mr.labels, mr.auto, now)'
  BY <1>1, <1>2, MrTypes DEF Inv, MrOK, Dated
<1>7. MrOK'
  BY <1>1, <1>2, <1>5, <1>6 DEF MrOK, Open
<1> QED BY <1>1, <1>4, <1>7, MrStep

LEMMA DraftsKeeps == Inv /\ Drafts => Inv'
<1> SUFFICES ASSUME Inv, Drafts PROVE Inv'
  OBVIOUS
<1>1. /\ now \in Nat \ {0} /\ now' = now /\ yeses' = yeses /\ mr \in MrT
      /\ heads' = heads /\ job' = job /\ kind' = kind /\ Open
  BY MrTypes DEF Drafts, Turn, Still, Inv, Typed
<1>2. mr' \in MrT /\ mr'.labels = mr.labels /\ mr'.merged = mr.merged /\ mr'.auto = mr.auto
  BY <1>1 DEF Drafts, MrT
<1>3. Typed'
  BY <1>1, <1>2 DEF Drafts, Turn, Still, Inv, Typed
<1>4. MrOK'
  BY <1>1, <1>2 DEF Inv, MrOK, YesesGiven, Given, Dated, Open
<1> QED BY <1>1, <1>3, <1>4, MrStep

LEMMA DemotesKeeps == Inv /\ Demotes => Inv'
<1> SUFFICES ASSUME Inv, Demotes PROVE Inv'
  OBVIOUS
<1>1. /\ now \in Nat \ {0} /\ now' = now /\ yeses' = yeses /\ mr' = mr
      /\ heads' = heads /\ job' = job /\ kind' = kind
  BY MrTypes DEF Demotes, Still
<1>2. Typed'
  BY <1>1 DEF Demotes, Turn, Still, Inv, Typed
<1>3. MrOK'
  BY <1>1 DEF Inv, MrOK, YesesGiven, Given, Dated
<1> QED BY <1>1, <1>2, <1>3, MrStep

\* A step that leaves the merge request, the dates before now and the run
\* alone, and changes a head, or adds one.
LEMMA HeadStep ==
    ASSUME Inv, mr' = mr, job' = job, kind' = kind, yeses' = yeses, now <= now',
           Typed', Grows, Statuses, HeadsOK',
           \A h \in DOMAIN heads : heads'[h].accepted = heads[h].accepted
    PROVE  Inv'
<1>1. now \in Nat /\ now' \in Nat
  BY DEF Inv, Typed
<1>2. YesesGiven(mr.labels, mr.auto)'
  BY DEF Inv, MrOK, YesesGiven, Given
<1>3. Dated(mr.labels, mr.auto, now)'
  BY <1>1, MrTypes DEF Inv, MrOK, Dated
<1>4. MrOK'
  BY <1>2, <1>3 DEF Inv, MrOK, Grows
<1> QED BY <1>4, JobKept, KeepsInv

LEMMA PushesKeeps == ASSUME NEW own \in BOOLEAN PROVE Inv /\ Pushes(own) => Inv'
<1> SUFFICES ASSUME Inv, Pushes(own) PROVE Inv'
  OBVIOUS
<1> DEFINE new == NewHead(own, now)
<1>1. /\ heads \in Seq(HeadT) /\ Len(heads) \in 1..MaxHeads /\ Len(heads) < MaxHeads
      /\ now \in Nat \ {0} /\ now' = now + 1 /\ mr' = mr /\ job' = job /\ kind' = kind
      /\ yeses' = yeses /\ heads' = Append(heads, new) /\ MaxHeads \in Nat
  BY MrTypes DEF Pushes, Turn, Tick, Still, Tip, Inv, Typed
<1>2. /\ new \in HeadT /\ new.at = now /\ new.own = own /\ new.accepted = "none"
      /\ new.class = "none" /\ new.checks = "pending"
  BY <1>1 DEF NewHead, HeadT, Checks, Classes
<1> HIDE DEF new
<1>3. /\ heads' \in Seq(HeadT) /\ Len(heads') = Len(heads) + 1
      /\ \A i \in 1..Len(heads) : heads'[i] = heads[i]
      /\ heads'[Len(heads) + 1] = new
  BY <1>1, <1>2, AppendProperties
<1>4. /\ DOMAIN heads = 1..Len(heads) /\ DOMAIN heads' = 1..(Len(heads) + 1)
      /\ Len(heads) \in Nat
  BY <1>1, <1>3
<1>5. Typed'
  BY <1>1, <1>3 DEF Pushes, Turn, Still, Inv, Typed
<1>6. Grows
  BY <1>1, <1>2, <1>3, <1>4 DEF Grows
<1>7. Statuses
  BY <1>2, <1>3, <1>4 DEF Statuses
<1>8. HeadsOK'
  BY <1>1, <1>2, <1>3, <1>4 DEF Inv, HeadsOK, Pushes
<1> QED BY <1>1, <1>3, <1>4, <1>5, <1>6, <1>7, <1>8, HeadStep

\* The tip judged or checked anew: what it earned stays in its history.
LEMMA TipStep ==
    ASSUME Inv, NEW new, new \in HeadT, heads' = [heads EXCEPT ![Tip] = new],
           new.at = heads[Tip].at, new.own = heads[Tip].own,
           new.accepted = heads[Tip].accepted, heads[Tip].was \subseteq new.was,
           new.class # "none" => new.class \in new.was,
           new.checks = "success" => "green" \in new.was,
           UNCHANGED <<mr, now, yeses, vetoed, demoted, kind, job, faults>>, turns' \in Nat
    PROVE  Inv'
<1>1. heads \in Seq(HeadT) /\ Tip \in DOMAIN heads /\ now \in Nat
  BY MrTypes DEF Inv, Typed
<1>2. heads' \in Seq(HeadT) /\ Len(heads') = Len(heads) /\ DOMAIN heads' = DOMAIN heads
  BY <1>1
<1>3. \A i \in DOMAIN heads : heads'[i] = IF i = Tip THEN new ELSE heads[i]
  BY <1>1
<1>4. Typed'
  BY <1>2 DEF Inv, Typed
<1>5. Grows
  BY <1>1, <1>2, <1>3 DEF Grows
<1>6. Statuses
  BY <1>1, <1>2, <1>3 DEF Statuses
<1>7. HeadsOK'
  BY <1>1, <1>2, <1>3 DEF Inv, HeadsOK
<1>8. \A h \in DOMAIN heads : heads'[h].accepted = heads[h].accepted
  BY <1>3
<1> QED BY <1>1, <1>4, <1>5, <1>6, <1>7, <1>8, HeadStep

LEMMA CheckEndsKeeps ==
    ASSUME NEW s \in Checks \ {"pending"} PROVE Inv /\ CheckEnds(s) => Inv'
<1> SUFFICES ASSUME Inv, CheckEnds(s) PROVE Inv'
  OBVIOUS
<1> DEFINE was == heads[Tip].was \cup (IF s = "success" THEN {"green"} ELSE {})
           new == [heads[Tip] EXCEPT !.checks = s, !.was = was]
<1>1. heads \in Seq(HeadT) /\ heads[Tip] \in HeadT /\ Tip \in DOMAIN heads
  <2>1. heads \in Seq(HeadT) /\ Tip \in DOMAIN heads
    BY MrTypes DEF Inv, Typed
  <2> QED BY <2>1
<1>2. was \in SUBSET (Classes \cup {"green"})
  BY <1>1 DEF HeadT
<1>3. heads' = [heads EXCEPT ![Tip] = new]
  BY <1>1 DEF CheckEnds, HeadT
<1>4. /\ new \in HeadT /\ new.at = heads[Tip].at /\ new.own = heads[Tip].own
      /\ new.accepted = heads[Tip].accepted /\ new.class = heads[Tip].class
      /\ new.was = was /\ new.checks = s
  <2> HIDE DEF was
  <2> QED BY <1>1, <1>2 DEF HeadT
<1>5. new.class # "none" => new.class \in new.was
  BY <1>1, <1>4 DEF Inv, HeadsOK
<1>6. /\ UNCHANGED <<mr, now, yeses, vetoed, demoted, kind, job, faults>>
      /\ turns' \in Nat
  BY DEF CheckEnds, Anew, Turn, Still, Inv, Typed
<1>7. heads[Tip].was \subseteq new.was /\ (new.checks = "success" => "green" \in new.was)
  BY <1>4
<1> HIDE DEF new
<1> QED BY <1>3, <1>4, <1>5, <1>6, <1>7, TipStep

LEMMA KeepVerdictKeeps ==
    ASSUME NEW c \in Classes PROVE Inv /\ KeepVerdict(c) => Inv'
<1> SUFFICES ASSUME Inv, KeepVerdict(c) PROVE Inv'
  OBVIOUS
<1> DEFINE was == heads[Tip].was \cup {c}
           new == [heads[Tip] EXCEPT !.class = c, !.was = was]
<1>1. heads \in Seq(HeadT) /\ heads[Tip] \in HeadT /\ Tip \in DOMAIN heads
  <2>1. heads \in Seq(HeadT) /\ Tip \in DOMAIN heads
    BY MrTypes DEF Inv, Typed
  <2> QED BY <2>1
<1>2. was \in SUBSET (Classes \cup {"green"})
  BY <1>1 DEF HeadT
<1>3. heads' = [heads EXCEPT ![Tip] = new]
  BY <1>1 DEF KeepVerdict, HeadT
<1>4. /\ new \in HeadT /\ new.at = heads[Tip].at /\ new.own = heads[Tip].own
      /\ new.accepted = heads[Tip].accepted /\ new.class = c
      /\ new.was = was /\ new.checks = heads[Tip].checks
  <2> HIDE DEF was
  <2> QED BY <1>1, <1>2 DEF HeadT
<1>5. new.checks = "success" => "green" \in new.was
  BY <1>1, <1>4 DEF Inv, HeadsOK
<1>6. /\ UNCHANGED <<mr, now, yeses, vetoed, demoted, kind, job, faults>>
      /\ turns' \in Nat
  BY DEF KeepVerdict, Anew, Turn, Still, Inv, Typed
<1>7. heads[Tip].was \subseteq new.was /\ new.class \in new.was
  BY <1>4
<1> HIDE DEF new
<1> QED BY <1>3, <1>4, <1>5, <1>6, <1>7, TipStep

-----------------------------------------------------------------------------
(* The theorems.                                                           *)

LEMMA InitInv == Init => Inv
<1> SUFFICES ASSUME Init PROVE Inv
  OBVIOUS
<1> DEFINE yes == [on |-> TRUE, at |-> 1, writer |-> TRUE]
<1>1. PICK labelled \in BOOLEAN :
          /\ mr = [draft |-> FALSE, taken |-> 0, auto |-> AutoOff, recorded |-> FALSE, merged |-> 0,
                   labels |-> [l \in Labels |-> IF labelled /\ l = "plain" THEN yes ELSE Off]]
          /\ yeses = IF labelled THEN {[at |-> 1, whole |-> FALSE]} ELSE {}
  BY DEF Init
<1> DEFINE head == NewHead(kind.own, 0)
<1>2. /\ kind \in Kinds /\ now = 2 /\ heads = <<head>> /\ job = Idle /\ demoted = FALSE
      /\ turns = 0 /\ faults = 0 /\ vetoed = "no"
  BY DEF Init
<1>3. kind.own \in BOOLEAN /\ (kind.own => kind.here) /\ MaxHeads \in Nat \ {0}
  BY <1>2, PolicyAssumption
<1>4. /\ head \in HeadT /\ head.own = kind.own /\ head.accepted = "none"
      /\ head.class = "none" /\ head.checks = "pending"
  BY <1>3 DEF NewHead, HeadT, Checks, Classes
<1>5. mr.labels \in LabelsT /\ AutoOff \in AutoT
  BY <1>1 DEF LabelsT, Off, AutoOff, AutoT
<1>6. mr \in MrT
  BY <1>1, <1>3, <1>5 DEF MrT
<1> HIDE DEF head
<1>7. heads \in Seq(HeadT) /\ Len(heads) = 1 /\ DOMAIN heads = {1} /\ heads[1] = head
  BY <1>2, <1>4
<1>8. yeses \in SUBSET [at : Nat, whole : BOOLEAN]
  BY <1>1
<1>9. Typed
  <2>1. Len(heads) \in 1..MaxHeads
    BY <1>3, <1>7
  <2>2. kind \in Kinds /\ demoted \in BOOLEAN /\ vetoed \in {"no", "label", "off", "late"}
    BY <1>2
  <2>3. now \in Nat \ {0} /\ turns \in Nat /\ faults \in Nat
    BY <1>2
  <2> QED BY <1>6, <1>7, <1>8, <2>1, <2>2, <2>3 DEF Typed
<1>10. HeadsOK /\ AcceptEarned
  BY <1>3, <1>4, <1>7 DEF HeadsOK, AcceptEarned
<1>11. \A l \in Labels : /\ mr.labels[l].on => labelled /\ l = "plain" /\ mr.labels[l].at = 1
                         /\ mr.labels[l].at < 2
  BY <1>1 DEF Off
<1>12. mr.auto.by = "nobody" /\ mr.auto.at = 0 /\ mr.auto.on = FALSE /\ mr.merged = 0
  BY <1>1 DEF AutoOff
<1>13. YesesGiven(mr.labels, mr.auto)
  <2>1. ASSUME NEW l \in Labels, mr.labels[l].on
        PROVE  [at |-> mr.labels[l].at, whole |-> l = "whole"] \in yeses
    <3>1. (l = "whole") = FALSE /\ mr.labels[l].at = 1
      BY <1>11, <2>1
    <3>2. [at |-> 1, whole |-> FALSE] \in yeses
      BY <1>1, <1>11, <2>1
    <3> QED BY <3>1, <3>2
  <2> QED BY <1>12, <2>1 DEF YesesGiven, Given
<1>14. Dated(mr.labels, mr.auto, now)
  <2>1. now = 2
    BY <1>2
  <2>2. mr.auto.at < now
    BY <1>12, <2>1
  <2>3. \A l \in Labels : mr.labels[l].at < now
    BY <1>11, <2>1
  <2> QED BY <2>2, <2>3 DEF Dated
<1>15. MrOK
  BY <1>12, <1>13, <1>14 DEF MrOK
<1> QED BY <1>2, <1>9, <1>10, <1>15 DEF Inv, JobOK

LEMMA StepInv == Inv /\ [Next]_vars => Inv'
<1> SUFFICES ASSUME Inv, [Next]_vars PROVE Inv'
  OBVIOUS
<1>1. CASE Follow
  BY <1>1, MergeStateKeeps, WeighItKeeps, ActKeeps DEF Follow
<1>2. CASE Fails
  BY <1>2, FailsKeeps
<1>3. CASE ForgeMerges
  BY <1>3, ForgeMergesKeeps
<1>4. CASE People
  <2>1. ASSUME NEW l \in Labels, TakesOff(l) \/ \E w \in BOOLEAN : Puts(l, w) PROVE Inv'
    BY <2>1, TakesOffKeeps, PutsKeeps
  <2>2. CASE PersonTurnsOn \/ PersonTurnsOff \/ Drafts \/ Demotes
    BY <2>2, PersonTurnsOnKeeps, PersonTurnsOffKeeps, DraftsKeeps, DemotesKeeps
  <2>3. ASSUME NEW own \in BOOLEAN, Pushes(own) PROVE Inv'
    BY <2>3, PushesKeeps
  <2>4. ASSUME NEW s \in Checks \ {"pending"}, CheckEnds(s) PROVE Inv'
    BY <2>4, CheckEndsKeeps
  <2>5. ASSUME NEW c \in Classes, KeepVerdict(c) PROVE Inv'
    BY <2>5, KeepVerdictKeeps
  <2> QED BY <1>4, <2>1, <2>2, <2>3, <2>4, <2>5 DEF People
<1>5. CASE UNCHANGED vars
  <2>1. Typed' /\ MrOK'
    BY <1>5 DEF vars, Inv, Typed, MrOK, YesesGiven, Given, Dated
  <2> QED BY <1>5, <2>1, MrStep DEF vars, Inv, Typed
<1> QED BY <1>1, <1>2, <1>3, <1>4, <1>5 DEF Next

\* The invariant the results below rest on: the types, the order of the dates,
\* what a run read against what is there now, and what an accepted head earned.
THEOREM Inductive == Spec => []Inv
  BY InitInv, StepInv, PTL DEF Spec

\* The state of a merge request, its heads and the run keep their types
\* (MergePolicy).
THEOREM TypeCorrect == Spec => []TypeOK
<1>1. Inv => TypeOK
  BY DEF Inv, Typed, MrOK, JobOK, Idle, TypeOK, MrT, LabelsT, AutoT, HeadT
<1> QED BY <1>1, Inductive, PTL

\* The status workline/accepted is on no head that has not earned it, of any
\* merge request, with any pushes, labels, verdicts and failures (weigh,
\* armed, Accept).
THEOREM AcceptIsEarned == Spec => []AcceptEarned
<1>1. Inv => AcceptEarned
  BY DEF Inv
<1> QED BY <1>1, Inductive, PTL

\* No head merges without it (AutoMerge, Guarded, the forge's auto-merge).
THEOREM MergeIsEarned == Spec => []MergedEarned
<1>1. Inv => MergedEarned
  <2> SUFFICES ASSUME Inv, mr.merged # 0
               PROVE  heads[mr.merged].accepted = "yes" /\ Earned(mr.merged)
    BY DEF MergedEarned, Open
  <2>1. mr.merged \in DOMAIN heads /\ heads[mr.merged].accepted = "yes"
    BY DEF Inv, MrOK
  <2> QED BY <2>1 DEF Inv, AcceptEarned
<1> QED BY <1>1, Inductive, PTL

-----------------------------------------------------------------------------
(* The record: a head that merges on no person's yes has it.  Until one of *)
(* them is there, a run has only the calls of a first weighing left, the   *)
(* record before what turns auto-merge on.                                 *)

\* The merge request has its record, or a person's yes was given.
Marked == mr.recorded \/ yeses # {}

Lone == {<<Accept(FALSE)>>,
         <<Accept(TRUE), Call("record"), Call("on")>>, <<Call("record"), Call("on")>>}

MarkedOn == mr.auto.on => Marked

MarkedJob ==
    /\ job.at = "weigh" /\ job.st.auto.on => Marked
    /\ job.at = "act" /\ ~Marked => job.calls \in Lone

RecInv == MarkedOn /\ MarkedJob /\ RecordedAlone

LEMMA JoinTwo == ASSUME NEW S, NEW a \in S, NEW b \in S PROVE <<a>> \o <<b>> = <<a, b>>
<1> DEFINE s == <<a>> \o <<b>>
           t == <<a, b>>
<1>1. s \in Seq(S) /\ t \in Seq(S) /\ Len(s) = 2 /\ Len(t) = 2
  BY ConcatProperties
<1>2. s[1] = a /\ s[2] = b /\ t[1] = a /\ t[2] = b
  BY ConcatProperties
<1> HIDE DEF s, t
<1>3. s = t
  BY <1>1, <1>2, SeqEqual
<1> QED BY <1>3 DEF s, t

LEMMA JoinThree ==
    ASSUME NEW S, NEW a \in S, NEW b \in S, NEW c \in S PROVE <<a>> \o <<b, c>> = <<a, b, c>>
<1> DEFINE s == <<a>> \o <<b, c>>
           t == <<a, b, c>>
<1>1. s \in Seq(S) /\ t \in Seq(S) /\ Len(s) = 3 /\ Len(t) = 3
  BY ConcatProperties
<1>2. s[1] = a /\ s[2] = b /\ s[3] = c /\ t[1] = a /\ t[2] = b /\ t[3] = c
  BY ConcatProperties
<1> HIDE DEF s, t
<1>3. s = t
  BY <1>1, <1>2, SeqEqual
<1> QED BY <1>3 DEF s, t

LEMMA LoneWeighed ==
    ASSUME Inv, NEW st, ReadOK(st), NEW held, ~Marked, ~st.auto.on
    PROVE  Weigh(st, Tip, held) \in Lone \cup {<<>>}
<1>1. st.auto.by # "person" /\ Yeses(st.labels) = {}
  BY DEF ReadOK, YesesGiven, Given, Marked, Yeses, On
<1>2. TurnOff(st) = <<>> /\ TakeBack(st) = <<Accept(FALSE)>>
  <2>1. <<Accept(FALSE)>> \in Seq(Calls)
    BY OneSeq DEF Calls, Meek
  <2> QED BY <2>1, ConcatEmptySeq DEF TurnOff, TakeBack
<1>3. Armed(st, <<Call("record")>>) = <<Accept(TRUE), Call("record"), Call("on")>>
  <2>0. Call("record") \in Calls /\ Call("on") \in Calls /\ Accept(TRUE) \in Calls
    BY DEF Call, Calls, Meek
  <2>1. <<Call("record")>> \o <<Call("on")>> = <<Call("record"), Call("on")>>
    BY <2>0, JoinTwo
  <2>2. <<Accept(TRUE)>> \o <<Call("record"), Call("on")>>
        = <<Accept(TRUE), Call("record"), Call("on")>>
    BY <2>0, JoinThree
  <2> QED BY <2>1, <2>2 DEF Armed
<1>4. WeighRoutine(st, Tip, held) \in Lone \cup {<<>>}
  BY <1>3 DEF WeighRoutine, Lone
<1> QED BY <1>1, <1>2, <1>4 DEF Weigh, Lone

\* The calls after the first are again of a first weighing, or the record is
\* made.
LEMMA LoneActs ==
    ASSUME Inv, job.at = "act", ~Marked, job.calls \in Lone
    PROVE  LET call == Head(job.calls) IN
           /\ call.do \in {"accept", "record"}
           /\ call.do = "accept" => Tail(job.calls) \in Lone \cup {<<>>}
<1>1. CASE job.calls = <<Accept(FALSE)>>
  BY <1>1 DEF Accept
<1>2. CASE job.calls = <<Accept(TRUE), Call("record"), Call("on")>>
  BY <1>2 DEF Accept, Lone
<1>3. CASE job.calls = <<Call("record"), Call("on")>>
  BY <1>3 DEF Call
<1> QED BY <1>1, <1>2, <1>3 DEF Lone

\* A head merges that earned the status: by a yes that covers it, or as the
\* App's own through and through, which any yes covers.
LEMMA MergesRecorded ==
    ASSUME Inv, Marked, Mergeable, mr' = [mr EXCEPT !.merged = Tip, !.auto = AutoOff],
           heads' = heads, yeses' = yeses
    PROVE  RecordedAlone'
<1>1. Tip \in DOMAIN heads /\ mr \in MrT
  BY MrTypes DEF Inv, Typed
<1>2. mr'.recorded = mr.recorded /\ mr'.merged = Tip
  BY <1>1 DEF MrT
<1>3. Earned(Tip)
  BY <1>1 DEF Inv, AcceptEarned, Mergeable
<1>4. mr.recorded \/ \E y \in yeses : CoveredBy(y, Tip)
  BY <1>3 DEF Earned, CoveredBy, Marked
<1> QED BY <1>2, <1>4 DEF RecordedAlone, CoveredBy

\* A step that merges nothing.
LEMMA RecordKept ==
    ASSUME RecInv, yeses \subseteq yeses', mr.recorded => mr'.recorded,
           mr'.merged = mr.merged, mr.merged = 0 \/ heads' = heads
    PROVE  RecordedAlone'
  BY DEF RecInv, RecordedAlone, Open, CoveredBy

\* A step of the forge or of people that merges nothing.
LEMMA RecStep ==
    ASSUME Inv, RecInv, job' = job, yeses \subseteq yeses', mr.recorded => mr'.recorded,
           mr'.merged = mr.merged, mr.merged = 0 \/ heads' = heads,
           mr'.auto.on => mr.auto.on \/ yeses' # {}
    PROVE  RecInv'
<1>1. Marked => Marked'
  BY DEF Marked
<1>2. RecordedAlone'
  BY RecordKept
<1>3. MarkedOn'
  BY <1>1 DEF RecInv, MarkedOn, Marked
<1>4. MarkedJob'
  BY <1>1 DEF RecInv, MarkedJob
<1> QED BY <1>2, <1>3, <1>4 DEF RecInv

\* A call of a run.
LEMMA RecDone ==
    ASSUME Inv, RecInv, Open, job.at = "act", Done(Head(job.calls)), UNCHANGED Others
    PROVE  /\ RecordedAlone' /\ MarkedOn'
           /\ ~Marked' => ~Marked /\ Head(job.calls).do = "accept"
<1> DEFINE call == Head(job.calls)
<1>0. /\ call \in Calls /\ mr \in MrT /\ mr.auto \in AutoT /\ yeses' = yeses
      /\ mr.merged = 0
  BY HeadCall, MrTypes DEF Inv, Typed, Others, Open
<1>1. call.do \in {"accept", "off", "unlabel", "record", "on"}
  BY <1>0 DEF Calls, Meek, Accept
<1>2. CASE call.do = "on"
  <2>1. Marked /\ heads' = heads
    BY <1>2, LoneActs DEF RecInv, MarkedJob, Done
  <2>2. CASE mr' = mr
    BY <1>0, <2>1, <2>2, RecordKept DEF MarkedOn, Marked
  <2>3. CASE Mergeable /\ Merge(Tip)
    <3>1. RecordedAlone'
      BY <1>0, <2>1, <2>3, MergesRecorded DEF Merge
    <3>2. mr'.auto.on = FALSE /\ mr'.recorded = mr.recorded
      BY <1>0, <2>3 DEF Merge, MrT, AutoOff
    <3> QED BY <1>0, <2>1, <3>1, <3>2 DEF MarkedOn, Marked
  <2>4. CASE TurnsOn("bot")
    <3>1. mr'.recorded = mr.recorded /\ mr'.merged = mr.merged
      BY <1>0, <2>4 DEF TurnsOn, MrT
    <3>2. RecordedAlone'
      BY <1>0, <2>1, <3>1, RecordKept
    <3> QED BY <1>0, <2>1, <3>1, <3>2 DEF MarkedOn, Marked
  <2>5. AutoMergeOn
    BY <1>2 DEF Done
  <2> QED BY <2>2, <2>3, <2>4, <2>5 DEF AutoMergeOn
<1>3. CASE call.do = "off"
  <2>1. mr' = [mr EXCEPT !.auto = [mr.auto EXCEPT !.on = FALSE, !.by = "nobody"]]
    BY <1>0, <1>3 DEF Done, TurnsOff, MrT, AutoT
  <2>2. mr'.recorded = mr.recorded /\ mr'.merged = mr.merged
    BY <1>0, <2>1 DEF MrT
  <2>3. mr'.auto.on = FALSE
    BY <1>0, <2>1 DEF MrT, AutoT
  <2>4. Marked
    BY <1>3, LoneActs DEF RecInv, MarkedJob
  <2>5. RecordedAlone'
    BY <1>0, <2>2, RecordKept
  <2> QED BY <1>0, <2>2, <2>3, <2>4, <2>5 DEF MarkedOn, Marked
<1>4. CASE call.do = "unlabel"
  <2>1. /\ mr'.recorded = mr.recorded /\ mr'.merged = mr.merged
        /\ mr'.auto = mr.auto
    BY <1>0, <1>4 DEF Done, Unlabelled, MrT
  <2>2. Marked
    BY <1>4, LoneActs DEF RecInv, MarkedJob
  <2>3. RecordedAlone'
    BY <1>0, <2>1, RecordKept
  <2> QED BY <1>0, <2>1, <2>2, <2>3 DEF MarkedOn, Marked
<1>5. CASE call.do = "record"
  <2>1. mr'.recorded = TRUE /\ mr'.merged = mr.merged
    BY <1>0, <1>5 DEF Done, MrT
  <2>2. RecordedAlone'
    BY <1>0, <2>1, RecordKept
  <2> QED BY <2>1, <2>2 DEF MarkedOn, Marked
<1>6. CASE call.do = "accept"
  <2>1. mr' = mr
    BY <1>6 DEF Done
  <2>2. RecordedAlone'
    BY <1>0, <2>1, RecordKept
  <2> QED BY <1>0, <1>6, <2>1, <2>2 DEF RecInv, MarkedOn, Marked
<1> QED BY <1>1, <1>2, <1>3, <1>4, <1>5, <1>6

LEMMA RecFollow == Inv /\ RecInv /\ Follow => RecInv'
<1> SUFFICES ASSUME Inv, RecInv, Follow PROVE RecInv'
  OBVIOUS
<1>1. CASE MergeState
  <2>1. /\ mr' = mr /\ heads' = heads /\ yeses' = yeses
        /\ job'.at = "weigh" /\ job'.st.auto = mr.auto
    BY <1>1 DEF MergeState, Others
  <2> QED BY <2>1, RecordKept DEF RecInv, MarkedOn, MarkedJob, Marked
<1>2. CASE WeighIt
  <2>1. mr' = mr /\ heads' = heads /\ yeses' = yeses
    BY <1>2 DEF WeighIt, Others
  <2>2. PICK calls : calls = Weigh(job.st, Tip, job.held)
    OBVIOUS
  <2>3. ~Marked => calls \in Lone \cup {<<>>}
    <3>1. job.at = "weigh" /\ ReadOK(job.st)
      BY <1>2 DEF Inv, JobOK, WeighIt, Idle
    <3> QED BY <2>2, <3>1, LoneWeighed DEF RecInv, MarkedJob
  <2>4. job' = Doing(Tip, calls)
    BY <1>2, <2>2 DEF WeighIt
  <2>5. MarkedJob'
    BY <2>1, <2>3, <2>4 DEF MarkedJob, Marked, Doing, Idle
  <2> QED BY <2>1, <2>5, RecordKept DEF RecInv, MarkedOn, Marked
<1>3. CASE Act
  <2>1. /\ RecordedAlone' /\ MarkedOn'
        /\ ~Marked' => ~Marked /\ Head(job.calls).do = "accept"
    BY <1>3, RecDone DEF Act
  <2>2. PICK calls : calls = Tail(job.calls)
    OBVIOUS
  <2>3. ~Marked' => calls \in Lone \cup {<<>>}
    BY <1>3, <2>1, <2>2, LoneActs DEF RecInv, MarkedJob, Act
  <2>4. job' = Doing(job.tip, calls)
    BY <1>3, <2>2 DEF Act
  <2>5. MarkedJob'
    BY <2>3, <2>4 DEF MarkedJob, Doing, Idle
  <2> QED BY <2>1, <2>5 DEF RecInv
<1> QED BY <1>1, <1>2, <1>3 DEF Follow

LEMMA RecPeople == Inv /\ RecInv /\ People => RecInv'
<1> SUFFICES ASSUME Inv, RecInv, People PROVE RecInv'
  OBVIOUS
<1>0. mr \in MrT /\ mr.auto \in AutoT
  BY MrTypes DEF Inv, Typed
<1>1. ASSUME NEW l \in Labels, TakesOff(l) PROVE RecInv'
  <2>1. /\ mr'.recorded = mr.recorded /\ mr'.merged = mr.merged /\ mr'.auto = mr.auto
    BY <1>0, <1>1 DEF TakesOff, Unlabelled, MrT
  <2> QED BY <1>1, <2>1, RecStep DEF TakesOff, Still
<1>2. ASSUME NEW l \in Labels, NEW w \in BOOLEAN, Puts(l, w) PROVE RecInv'
  <2> DEFINE labels == [mr.labels EXCEPT ![l] = [on |-> TRUE, at |-> now, writer |-> w]]
  <2>1. mr' = [mr EXCEPT !.labels = labels, !.taken = 0]
    BY <1>0, <1>2 DEF Puts, MrT
  <2>2. /\ mr'.recorded = mr.recorded /\ mr'.merged = mr.merged /\ mr'.auto = mr.auto
    BY <1>0, <2>1 DEF MrT
  <2>3. yeses \subseteq yeses'
    BY <1>2 DEF Puts, Gives
  <2> QED BY <1>2, <2>2, <2>3, RecStep DEF Puts, Still
<1>3. CASE PersonTurnsOn
  <2>1. mr'.recorded = mr.recorded /\ mr'.merged = mr.merged
    BY <1>0, <1>3 DEF PersonTurnsOn, TurnsOn, MrT
  <2>2. yeses \subseteq yeses' /\ yeses' # {}
    BY <1>3 DEF PersonTurnsOn, Gives
  <2> QED BY <1>3, <2>1, <2>2, RecStep DEF PersonTurnsOn, Still
<1>4. CASE PersonTurnsOff
  <2>1. mr' = [mr EXCEPT !.auto = [mr.auto EXCEPT !.on = FALSE, !.by = "nobody"]]
    BY <1>0, <1>4 DEF PersonTurnsOff, TurnsOff, MrT, AutoT
  <2>2. mr'.recorded = mr.recorded /\ mr'.merged = mr.merged
    BY <1>0, <2>1 DEF MrT
  <2>3. mr'.auto.on = FALSE
    BY <1>0, <2>1 DEF MrT, AutoT
  <2> QED BY <1>4, <2>2, <2>3, RecStep DEF PersonTurnsOff, Still
<1>5. CASE Drafts
  <2>1. /\ mr'.recorded = mr.recorded /\ mr'.merged = mr.merged /\ mr'.auto = mr.auto
    BY <1>0, <1>5 DEF Drafts, MrT
  <2> QED BY <1>5, <2>1, RecStep DEF Drafts, Still
<1>6. CASE Demotes
  BY <1>6, RecStep DEF Demotes, Still
<1>7. ASSUME NEW own \in BOOLEAN, Pushes(own) PROVE RecInv'
  BY <1>7, RecStep DEF Pushes, Turn, Open, Still
<1>8. ASSUME NEW s \in Checks \ {"pending"}, CheckEnds(s) PROVE RecInv'
  BY <1>8, RecStep DEF CheckEnds, Anew, Open, Still
<1>9. ASSUME NEW c \in Classes, KeepVerdict(c) PROVE RecInv'
  BY <1>9, RecStep DEF KeepVerdict, Anew, Open, Still
<1> QED
  BY <1>1, <1>2, <1>3, <1>4, <1>5, <1>6, <1>7, <1>8, <1>9 DEF People

LEMMA StepRec == Inv /\ RecInv /\ [Next]_vars => RecInv'
<1> SUFFICES ASSUME Inv, RecInv, [Next]_vars PROVE RecInv'
  OBVIOUS
<1>1. CASE Follow \/ People
  BY <1>1, RecFollow, RecPeople
<1>2. CASE Fails
  <2>1. job' = Idle
    BY <1>2 DEF Fails
  <2>2. RecordedAlone' /\ MarkedOn'
    <3>1. CASE UNCHANGED <<mr, heads, now>>
      BY <1>2, <3>1, RecordKept DEF Fails, Others, RecInv, MarkedOn, Marked
    <3>2. CASE Open /\ job.at = "act" /\ Done(Head(job.calls))
      BY <1>2, <3>2, RecDone DEF Fails
    <3> QED BY <1>2, <3>1, <3>2 DEF Fails
  <2> QED BY <2>1, <2>2 DEF RecInv, MarkedJob, Idle
<1>3. CASE ForgeMerges
  <2>1. /\ mr' = [mr EXCEPT !.merged = Tip, !.auto = AutoOff] /\ Mergeable /\ mr.auto.on
        /\ heads' = heads /\ job' = job /\ yeses' = yeses
    BY <1>3 DEF ForgeMerges, Merge, Others
  <2>2. Marked
    BY <2>1 DEF RecInv, MarkedOn
  <2>3. RecordedAlone'
    BY <2>1, <2>2, MergesRecorded
  <2>4. mr'.auto.on = FALSE /\ mr'.recorded = mr.recorded
    BY <2>1 DEF Inv, Typed, MrT, AutoOff
  <2>5. Marked'
    BY <2>1, <2>2, <2>4 DEF Marked
  <2> QED BY <2>1, <2>3, <2>4, <2>5 DEF RecInv, MarkedOn, MarkedJob
<1>4. CASE UNCHANGED vars
  BY <1>4, RecStep DEF vars
<1> QED BY <1>1, <1>2, <1>3, <1>4 DEF Next

LEMMA InitRec == Init => RecInv
<1> SUFFICES ASSUME Init PROVE RecInv
  OBVIOUS
<1>1. mr.auto = AutoOff /\ mr.merged = 0 /\ job = Idle
  BY DEF Init
<1> QED BY <1>1 DEF RecInv, MarkedOn, MarkedJob, RecordedAlone, Open, AutoOff, Idle

\* What merged with no person's yes on its head has its record, by which a
\* later revert of it is read: whenever the run dies, and whoever merges it
\* (armed at "normal", admit).
THEOREM RecordsAlone == Spec => []RecordedAlone
<1>1. Inv /\ RecInv /\ [Next]_vars => RecInv'
  BY StepRec
<1>2. RecInv => RecordedAlone
  BY DEF RecInv
<1> QED BY <1>1, <1>2, InitRec, Inductive, PTL DEF Spec

-----------------------------------------------------------------------------
(* A person's veto.  Auto-merge stays off because every yes there is, and  *)
(* every yes a run read, is older than the day it was last on: weighing    *)
(* takes no call that turns it on again, and none is left to a run.        *)

\* Every yes of labels was given before auto-merge was last turned on.
Older(labels, auto) == \A l \in Yeses(labels) : labels[l].at < auto.at
LeftOff(labels, auto) == ~auto.on /\ auto.at > 0 /\ Older(labels, auto)

\* No yes is put at the moment auto-merge is turned on.
Distinct ==
    mr.auto.on => mr.auto.at > 0 /\ \A l \in Yeses(mr.labels) : mr.labels[l].at # mr.auto.at

Quiet == {c \in Calls : c.do # "on"}
QuietJob ==
    /\ job.at = "weigh" => job.st.auto = mr.auto /\ Older(job.st.labels, mr.auto)
    /\ job.at = "act" => job.calls \in Seq(Quiet)

VetoInv == Distinct /\ (vetoed = "off" => LeftOff(mr.labels, mr.auto) /\ QuietJob)

\* What a step has to show.
Stands == VetoInv' /\ (vetoed = "off" => mr'.merged = mr.merged)

LEMMA JoinQuiet == \A s, t \in Seq(Quiet) : s \o t \in Seq(Quiet)
  BY ConcatProperties

LEMMA QuietCalls ==
    /\ <<>> \in Seq(Quiet) /\ <<Call("off")>> \in Seq(Quiet) /\ <<Accept(FALSE)>> \in Seq(Quiet)
    /\ \A ls \in SUBSET Labels : <<Unlabel(ls)>> \in Seq(Quiet)
    /\ \A st : TurnOff(st) \in Seq(Quiet) /\ TakeBack(st) \in Seq(Quiet)
<1>1. Call("off") \in Quiet
  BY DEF Call, Quiet, Calls, Meek
<1>2. Accept(FALSE) \in Quiet
  BY DEF Accept, Quiet, Calls, Meek
<1>3. \A ls \in SUBSET Labels : Unlabel(ls) \in Quiet
  BY DEF Unlabel, Quiet, Calls, Meek
<1> HIDE DEF Quiet
<1>4. <<>> \in Seq(Quiet) /\ <<Call("off")>> \in Seq(Quiet) /\ <<Accept(FALSE)>> \in Seq(Quiet)
  BY <1>1, <1>2, OneSeq
<1>5. \A st : TurnOff(st) \in Seq(Quiet) /\ TakeBack(st) \in Seq(Quiet)
  BY <1>4, JoinQuiet DEF TurnOff, TakeBack
<1> QED BY <1>3, <1>4, <1>5, OneSeq

\* The latest of the two labels' dates is one of them.
LEMMA LatestIsOne ==
    ASSUME NEW ls \in SUBSET Labels, ls # {}, NEW by, \A l \in ls : by[l] \in Nat
    PROVE  Max({by[l] : l \in ls}) \in {by[l] : l \in ls}
<1> DEFINE dates == {by[l] : l \in ls}
<1>1. \E x \in dates : \A y \in dates : x >= y
  <2>1. CASE "plain" \in ls /\ "whole" \in ls
    <3>1. by["plain"] \in Nat /\ by["whole"] \in Nat
      BY <2>1
    <3>2. by["plain"] >= by["whole"] \/ by["whole"] >= by["plain"]
      BY <3>1
    <3>3. \A l \in ls : l = "plain" \/ l = "whole"
      BY DEF Labels
    <3> QED BY <2>1, <3>1, <3>2, <3>3
  <2>2. CASE ~("plain" \in ls /\ "whole" \in ls)
    <3>1. PICK l \in ls : \A k \in ls : k = l
      BY <2>2 DEF Labels
    <3>2. \A y \in dates : y = by[l] /\ by[l] \in Nat
      BY <3>1
    <3> QED BY <3>1, <3>2
  <2> QED BY <2>1, <2>2
<1> QED BY <1>1 DEF Max

\* Weighed, a merge request left off is not turned on.
LEMMA LeftOffWeighed ==
    ASSUME Inv, NEW st, ReadOK(st), NEW held, LeftOff(st.labels, st.auto), st.auto.by # "person"
    PROVE  Weigh(st, Tip, held) \in Seq(Quiet)
<1>1. st.listed \in SUBSET Labels /\ st.auto.at \in Nat
      /\ \A l \in Labels : st.labels[l].at \in Nat
  BY DEF ReadOK, StT, LabelsT, AutoT
<1>2. WeighRoutine(st, Tip, held) \in Seq(Quiet)
  <2>1. Vetoed(st, 0)
    BY DEF LeftOff, Vetoed
  <2> QED BY <2>1, QuietCalls DEF WeighRoutine
<1>3. ASSUME Yeses(st.labels) # {}
      PROVE  WeighYes(st, Tip, [l \in Yeses(st.labels) |-> st.labels[l].at]) \in Seq(Quiet)
  <2> DEFINE by == [l \in Yeses(st.labels) |-> st.labels[l].at]
             fresh == {l \in DOMAIN by : Covers(Known(st, Tip), by[l], Tip)}
             yes == Max({by[l] : l \in IF fresh # {} THEN fresh ELSE DOMAIN by})
             stale == DOMAIN by \ fresh
             off == IF st.auto.on THEN TakeBack(st) ELSE <<>>
             over == TakeBack(st) \o (IF st.listed # {} THEN <<Unlabel(st.listed)>> ELSE <<>>)
  <2>1. /\ DOMAIN by \in SUBSET Labels
        /\ \A l \in DOMAIN by : by[l] \in Nat /\ by[l] < st.auto.at
    BY <1>1 DEF Yeses, On, LeftOff, Older
  <2>2. fresh # {} => Vetoed(st, yes)
    <3> SUFFICES ASSUME fresh # {} PROVE Vetoed(st, yes)
      OBVIOUS
    <3>1. fresh \in SUBSET Labels /\ \A l \in fresh : by[l] \in Nat /\ by[l] < st.auto.at
      BY <2>1
    <3> HIDE DEF by, fresh
    <3>2. yes \in {by[l] : l \in fresh}
      BY <3>1, LatestIsOne
    <3>3. yes < st.auto.at /\ yes \in Nat
      BY <3>1, <3>2
    <3> QED BY <1>1, <3>3 DEF LeftOff, Vetoed
  <2>3. StaleOff(st, stale) \in Seq(Quiet)
    <3>1. stale \cap st.listed \in SUBSET Labels
      BY <1>1
    <3> QED BY <3>1, QuietCalls DEF StaleOff
  <2>4. StaleOff(st, stale) \o <<Accept(FALSE)>> \in Seq(Quiet)
    BY <2>3, QuietCalls, JoinQuiet
  <2>5. off \in Seq(Quiet) /\ over \in Seq(Quiet)
    BY <1>1, QuietCalls, JoinQuiet
  <2>6. WeighYes(st, Tip, by)
        = IF st.draft THEN off
          ELSE IF fresh = {} THEN over
          ELSE StaleOff(st, stale)
               \o (IF Vetoed(st, yes) THEN <<Accept(FALSE)>>
                   ELSE IF st.checks = "failure" THEN <<>>
                   ELSE IF ~kind.here THEN WeighFork(st, Tip)
                   ELSE WeighVerdict(st, Tip, yes, "whole" \in fresh))
    BY DEF WeighYes
  <2> HIDE DEF by, fresh, yes, stale, off, over
  <2>7. WeighYes(st, Tip, by) \in Seq(Quiet)
    BY <2>2, <2>4, <2>5, <2>6
  <2> QED BY <2>7 DEF by
<1> QED BY <1>2, <1>3, QuietCalls DEF Weigh

\* A step that leaves auto-merge as it is, and puts no label.
LEMMA LeftKept ==
    ASSUME Inv, VetoInv, mr'.auto.on = mr.auto.on, mr'.auto.at = mr.auto.at,
           \A l \in Labels : mr'.labels[l].on => mr'.labels[l] = mr.labels[l]
    PROVE  Distinct' /\ (LeftOff(mr.labels, mr.auto) => LeftOff(mr'.labels, mr'.auto))
<1>1. \A l \in Yeses(mr'.labels) : l \in Yeses(mr.labels) /\ mr'.labels[l] = mr.labels[l]
  BY DEF Yeses, On
<1> QED BY <1>1 DEF VetoInv, Distinct, LeftOff, Older, Yeses, On

LEMMA VetoStep ==
    ASSUME Inv, VetoInv, job' = job, mr'.auto = mr.auto, mr'.merged = mr.merged,
           vetoed' = "off" => vetoed = "off",
           \A l \in Labels : mr'.labels[l].on => mr'.labels[l] = mr.labels[l]
    PROVE  Stands
<1>1. Distinct' /\ (LeftOff(mr.labels, mr.auto) => LeftOff(mr'.labels, mr'.auto))
  BY LeftKept
<1>2. QuietJob => QuietJob'
  BY DEF QuietJob
<1> QED BY <1>1, <1>2 DEF VetoInv, Stands

\* Auto-merge turned on, now: later than each label.
LEMMA OnIsDistinct ==
    ASSUME Inv, mr'.labels = mr.labels, mr'.auto.at = now
    PROVE  Distinct'
<1>1. now \in Nat \ {0} /\ \A l \in Labels : mr.labels[l].at < now /\ mr.labels[l].at \in Nat
  BY MrTypes DEF Inv, MrOK, Dated
<1>2. \A l \in Yeses(mr.labels) : mr.labels[l].at # now
  BY <1>1 DEF Yeses, On
<1> QED BY <1>1, <1>2 DEF Distinct

\* A call of a run.
LEMMA VetoDone ==
    ASSUME Inv, VetoInv, Open, job.at = "act", Done(Head(job.calls)), UNCHANGED Others
    PROVE  /\ Distinct'
           /\ vetoed = "off" => /\ Head(job.calls).do # "on" /\ Tail(job.calls) \in Seq(Quiet)
                                /\ LeftOff(mr'.labels, mr'.auto) /\ mr'.merged = mr.merged
<1> DEFINE call == Head(job.calls)
<1>0. /\ call \in Calls /\ mr \in MrT /\ job.calls # <<>> /\ now \in Nat /\ now <= now
  BY HeadCall, MrTypes DEF Inv, Typed, JobOK, Idle
<1>1. call.do \in {"accept", "off", "unlabel", "record", "on"}
  BY <1>0 DEF Calls, Meek, Accept
<1>2. vetoed = "off" => call.do # "on" /\ Tail(job.calls) \in Seq(Quiet)
  <2> SUFFICES ASSUME vetoed = "off" PROVE call.do # "on" /\ Tail(job.calls) \in Seq(Quiet)
    OBVIOUS
  <2>1. job.calls \in Seq(Quiet)
    BY DEF VetoInv, QuietJob
  <2>2. call \in Quiet /\ Tail(job.calls) \in Seq(Quiet)
    BY <1>0, <2>1, HeadTailProperties
  <2> QED BY <2>2 DEF Quiet
<1>3. CASE call.do = "on"
  <2>1. CASE mr' = mr
    BY <1>2, <1>3, <2>1, LeftKept
  <2>2. CASE Merge(Tip)
    BY <1>0, <1>2, <1>3, <2>2 DEF Merge, MrT, AutoOff, Distinct
  <2>3. CASE TurnsOn("bot")
    BY <1>2, <1>3, <2>3, TurnsOnKept, OnIsDistinct
  <2>4. AutoMergeOn
    BY <1>3 DEF Done
  <2> QED BY <2>1, <2>2, <2>3, <2>4 DEF AutoMergeOn
<1>4. CASE call.do = "off"
  <2>1. /\ mr'.labels = mr.labels /\ mr'.merged = mr.merged
        /\ mr'.auto.on = FALSE /\ mr'.auto.at = mr.auto.at
    BY <1>4, TurnsOffKept DEF Done
  <2>2. LeftOff(mr.labels, mr.auto) => LeftOff(mr'.labels, mr'.auto)
    BY <2>1 DEF LeftOff, Older
  <2> QED BY <1>2, <2>1, <2>2 DEF VetoInv, Distinct
<1>5. CASE call.do = "unlabel"
  <2>1. call.labels \in SUBSET Labels
    BY <1>0, <1>5 DEF Calls, Meek, Accept
  <2>2. /\ mr'.auto = mr.auto /\ mr'.merged = mr.merged
        /\ \A l \in Labels : mr'.labels[l].on => mr'.labels[l] = mr.labels[l]
    BY <1>0, <1>5, <2>1, UnlabelledKept DEF Done
  <2> QED BY <1>2, <2>2, LeftKept DEF VetoInv
<1>6. CASE call.do \in {"record", "accept"}
  <2>1. mr'.auto = mr.auto /\ mr'.merged = mr.merged /\ mr'.labels = mr.labels
    BY <1>0, <1>6 DEF Done, MrT
  <2> QED BY <1>2, <2>1, LeftKept DEF VetoInv
<1> QED BY <1>1, <1>3, <1>4, <1>5, <1>6

LEMMA VetoFollow == Inv /\ VetoInv /\ Follow => Stands
<1> SUFFICES ASSUME Inv, VetoInv, Follow PROVE Stands
  OBVIOUS
<1>1. CASE MergeState
  <2>1. /\ mr' = mr /\ vetoed' = vetoed
        /\ job'.at = "weigh" /\ job'.st.auto = mr.auto /\ job'.st.labels = mr.labels
    BY <1>1 DEF MergeState, Others
  <2> QED BY <2>1, LeftKept DEF VetoInv, Stands, QuietJob, LeftOff
<1>2. CASE WeighIt
  <2>1. mr' = mr /\ vetoed' = vetoed
    BY <1>2 DEF WeighIt, Others
  <2>2. PICK calls : calls = Weigh(job.st, Tip, job.held)
    OBVIOUS
  <2>3. vetoed = "off" => calls \in Seq(Quiet)
    <3> SUFFICES ASSUME vetoed = "off" PROVE calls \in Seq(Quiet)
      OBVIOUS
    <3>1. job.at = "weigh" /\ ReadOK(job.st)
      BY <1>2 DEF Inv, JobOK, WeighIt, Idle
    <3>2. LeftOff(job.st.labels, job.st.auto)
      BY <3>1 DEF VetoInv, QuietJob, LeftOff
    <3>3. job.st.auto.by # "person"
      BY <3>1 DEF VetoInv, QuietJob, LeftOff, Inv, MrOK
    <3> QED BY <2>2, <3>1, <3>2, <3>3, LeftOffWeighed
  <2>4. job' = Doing(Tip, calls)
    BY <1>2, <2>2 DEF WeighIt
  <2>5. vetoed = "off" => QuietJob'
    BY <2>3, <2>4 DEF QuietJob, Doing, Idle
  <2> QED BY <2>1, <2>5, LeftKept DEF VetoInv, Stands
<1>3. CASE Act
  <2>1. /\ Distinct'
        /\ vetoed = "off" => /\ Tail(job.calls) \in Seq(Quiet)
                             /\ LeftOff(mr'.labels, mr'.auto) /\ mr'.merged = mr.merged
    BY <1>3, VetoDone DEF Act
  <2>2. vetoed' = vetoed
    BY <1>3 DEF Act, Others
  <2>3. PICK calls : calls = Tail(job.calls)
    OBVIOUS
  <2>4. job' = Doing(job.tip, calls)
    BY <1>3, <2>3 DEF Act
  <2>5. vetoed = "off" => QuietJob'
    BY <2>1, <2>3, <2>4 DEF QuietJob, Doing, Idle
  <2> QED BY <2>1, <2>2, <2>5 DEF VetoInv, Stands
<1> QED BY <1>1, <1>2, <1>3 DEF Follow

LEMMA VetoPeople == Inv /\ VetoInv /\ People => Stands
<1> SUFFICES ASSUME Inv, VetoInv, People PROVE Stands
  OBVIOUS
<1>0. mr \in MrT /\ mr.auto \in AutoT /\ mr.labels \in LabelsT /\ now \in Nat \ {0} /\ now <= now
  BY MrTypes DEF Inv, Typed
<1>1. ASSUME NEW l \in Labels, TakesOff(l) PROVE Stands
  <2>1. /\ mr'.merged = mr.merged /\ mr'.auto = mr.auto
        /\ \A k \in Labels : mr'.labels[k].on => mr'.labels[k] = mr.labels[k]
    BY <1>0, <1>1, UnlabelledKept DEF TakesOff
  <2>2. vetoed' = "off" => vetoed = "off"
    BY <1>1 DEF TakesOff, Vetoes
  <2> QED BY <1>1, <2>1, <2>2, VetoStep DEF TakesOff, Still
<1>2. ASSUME NEW l \in Labels, NEW w \in BOOLEAN, Puts(l, w) PROVE Stands
  <2> DEFINE labels == [mr.labels EXCEPT ![l] = [on |-> TRUE, at |-> now, writer |-> w]]
  <2>1. mr' = [mr EXCEPT !.labels = labels, !.taken = 0]
    BY <1>0, <1>2 DEF Puts, MrT
  <2>2. mr'.labels = labels /\ mr'.merged = mr.merged /\ mr'.auto = mr.auto
    BY <1>0, <2>1 DEF MrT
  <2>3. \A k \in Labels : labels[k] = IF k = l THEN [on |-> TRUE, at |-> now, writer |-> w]
                                     ELSE mr.labels[k]
    BY <1>0 DEF LabelsT
  <2>4. vetoed' = "no"
    BY <1>2 DEF Puts, Gives
  <2>5. mr.auto.at # now
    BY <1>0 DEF Inv, MrOK, Dated, AutoT
  <2> HIDE DEF labels
  <2>6. Distinct'
    BY <2>2, <2>3, <2>5 DEF VetoInv, Distinct, Yeses, On
  <2> QED BY <2>2, <2>4, <2>6 DEF VetoInv, Stands
<1>3. CASE PersonTurnsOn
  <2>1. mr'.labels = mr.labels /\ mr'.merged = mr.merged /\ mr'.auto.at = now
    BY <1>3, TurnsOnKept DEF PersonTurnsOn
  <2>2. vetoed' = "no"
    BY <1>3 DEF PersonTurnsOn, Gives
  <2> QED BY <2>1, <2>2, OnIsDistinct DEF VetoInv, Stands
<1>4. CASE PersonTurnsOff
  <2>1. /\ mr'.labels = mr.labels /\ mr'.merged = mr.merged
        /\ mr'.auto.on = FALSE /\ mr'.auto.at = mr.auto.at
    BY <1>4, TurnsOffKept DEF PersonTurnsOff
  <2>2. mr.auto.on /\ vetoed # "off" /\ job' = job
    BY <1>4 DEF PersonTurnsOff, Still, VetoInv, LeftOff
  <2>3. Distinct'
    BY <2>1 DEF Distinct
  <2>4. ASSUME vetoed' = "off" PROVE LeftOff(mr'.labels, mr'.auto) /\ QuietJob'
    <3>1. job = Idle /\ ~\E l \in Yeses(mr.labels) : mr.labels[l].at > mr.auto.at
      BY <1>4, <2>2, <2>4 DEF PersonTurnsOff, Vetoes
    <3>2. mr.auto.at \in Nat /\ \A l \in Yeses(mr.labels) : mr.labels[l].at \in Nat
      BY MrTypes DEF Yeses, On
    <3>3. mr.auto.at > 0 /\ \A l \in Yeses(mr.labels) : mr.labels[l].at < mr.auto.at
      BY <2>2, <3>1, <3>2 DEF VetoInv, Distinct
    <3>4. LeftOff(mr'.labels, mr'.auto)
      BY <2>1, <3>3 DEF LeftOff, Older
    <3>5. QuietJob'
      BY <2>2, <3>1 DEF QuietJob, Idle
    <3> QED BY <3>4, <3>5
  <2> QED BY <2>1, <2>3, <2>4 DEF VetoInv, Stands
<1>5. CASE Drafts
  <2>1. mr'.labels = mr.labels /\ mr'.merged = mr.merged /\ mr'.auto = mr.auto
    BY <1>0, <1>5 DEF Drafts, MrT
  <2> QED BY <1>5, <2>1, VetoStep DEF Drafts, Still
<1>6. CASE Demotes
  BY <1>6, VetoStep DEF Demotes, Still
<1>7. ASSUME NEW own \in BOOLEAN, Pushes(own) PROVE Stands
  BY <1>7, VetoStep DEF Pushes, Still
<1>8. ASSUME NEW s \in Checks \ {"pending"}, CheckEnds(s) PROVE Stands
  BY <1>8, VetoStep DEF CheckEnds, Still
<1>9. ASSUME NEW c \in Classes, KeepVerdict(c) PROVE Stands
  BY <1>9, VetoStep DEF KeepVerdict, Still
<1> QED
  BY <1>1, <1>2, <1>3, <1>4, <1>5, <1>6, <1>7, <1>8, <1>9 DEF People

LEMMA StepVeto == Inv /\ VetoInv /\ [Next]_vars => Stands
<1> SUFFICES ASSUME Inv, VetoInv, [Next]_vars PROVE Stands
  OBVIOUS
<1>1. CASE Follow \/ People
  BY <1>1, VetoFollow, VetoPeople
<1>2. CASE Fails
  <2>1. job' = Idle /\ vetoed' = vetoed
    BY <1>2 DEF Fails, Others
  <2>2. QuietJob'
    BY <2>1 DEF QuietJob, Idle
  <2>3. CASE UNCHANGED <<mr, heads, now>>
    BY <2>1, <2>2, <2>3, LeftKept DEF VetoInv, Stands
  <2>4. CASE Open /\ job.at = "act" /\ Done(Head(job.calls))
    <3>1. /\ Distinct'
          /\ vetoed = "off" => LeftOff(mr'.labels, mr'.auto) /\ mr'.merged = mr.merged
      BY <1>2, <2>4, VetoDone DEF Fails
    <3> QED BY <2>1, <2>2, <3>1 DEF VetoInv, Stands
  <2> QED BY <1>2, <2>3, <2>4 DEF Fails
<1>3. CASE ForgeMerges
  <2>1. mr' = [mr EXCEPT !.merged = Tip, !.auto = AutoOff] /\ mr.auto.on /\ vetoed' = vetoed
    BY <1>3 DEF ForgeMerges, Merge, Others
  <2>2. mr'.auto.on = FALSE /\ vetoed # "off"
    BY <2>1 DEF Inv, Typed, MrT, AutoOff, VetoInv, LeftOff
  <2> QED BY <2>1, <2>2 DEF VetoInv, Stands, Distinct
<1>4. CASE UNCHANGED vars
  BY <1>4, VetoStep DEF vars
<1> QED BY <1>1, <1>2, <1>3, <1>4 DEF Next

LEMMA InitVeto == Init => VetoInv
<1> SUFFICES ASSUME Init PROVE VetoInv
  OBVIOUS
<1>1. mr.auto = AutoOff /\ vetoed = "no"
  BY DEF Init
<1> QED BY <1>1 DEF VetoInv, Distinct, AutoOff

\* Auto-merge a person turned off between two runs, with no newer yes, is
\* not turned on, nor the head merged, until a label is put or a person turns
\* it on: whatever run starts, with what it read, and wherever it dies.
THEOREM VetoIsKept == Spec => VetoStands
<1>1. Inv /\ VetoInv /\ [Next]_vars => VetoInv'
  BY StepVeto DEF Stands
<1>2. Inv /\ VetoInv /\ [Next]_vars
      => [vetoed = "off" /\ vetoed' = "off" => NotOnAgain]_vars
  <2> SUFFICES ASSUME Inv, VetoInv, [Next]_vars, vetoed = "off", vetoed' = "off"
               PROVE  NotOnAgain
    OBVIOUS
  <2>1. VetoInv' /\ mr'.merged = mr.merged
    BY StepVeto DEF Stands
  <2> QED BY <2>1 DEF VetoInv, LeftOff, NotOnAgain
<1> QED BY <1>1, <1>2, InitVeto, Inductive, PTL DEF Spec, VetoStands
=============================================================================
