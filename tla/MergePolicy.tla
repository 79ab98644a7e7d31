----------------------------- MODULE MergePolicy -----------------------------
(***************************************************************************)
(* The merge policy on one merge request into the base (engine/merge.go,   *)
(* routine.go): each run of follow lists it, reads its state, weighs it    *)
(* and acts, call after call: the yes set on its head, the forge's         *)
(* auto-merge on or off, a stale label off.  Runs come one at a time;      *)
(* people, other jobs and the forge act between any two of their calls.    *)
(*                                                                         *)
(* A head is a number, the pushes so far.  A date is a number, no two acts *)
(* at the same.  The forge is GitHub: it merges a head that holds the      *)
(* status workline/accepted of the App and whose checks passed.            *)
(***************************************************************************)
EXTENDS Integers, Sequences, FiniteSets, FiniteSetsExt, SequencesExt

CONSTANTS Kinds,     \* the merge requests: [here, own, barred]
          MaxHeads,  \* bound: the pushes to its branch
          MaxTurns,  \* bound: what people, and the forge for them, do
          MaxFaults  \* bound: calls that fail

Labels  == {"plain", "whole"}  \* workline:accepted, workline:accepted-whole
Classes == {"pass", "short", "red"}
Checks  == {"pending", "success", "failure"}

ASSUME PolicyAssumption ==
    /\ Kinds \subseteq [here : BOOLEAN, own : BOOLEAN, barred : BOOLEAN]
    /\ \A k \in Kinds : k.own => k.here
    /\ MaxHeads \in Nat \ {0} /\ MaxTurns \in Nat /\ MaxFaults \in Nat

VARIABLES kind,   \* which merge request it is
          mr,     \* it, as the forge keeps it
          heads,  \* each head: when pushed, whether by the App, its statuses
          job,    \* the run of follow
          demoted, \* its kind waits for a person's yes since a revert
          now, turns, faults,
          yeses,  \* history: the dates of the yeses of who may push and merge
          vetoed  \* history: a person's veto, no run under way, no yes since

vars == <<kind, mr, heads, job, demoted, now, turns, faults, yeses, vetoed>>

Off  == [on |-> FALSE, at |-> 0, writer |-> FALSE]
AutoOff == [on |-> FALSE, by |-> "nobody", at |-> 0]
Idle == [at |-> "idle"]
NewHead(own, at) == [at |-> at, own |-> own, accepted |-> "none", checks |-> "pending",
              class |-> "none", was |-> {}]

\* Opened, and labelled by who may push and merge, or not yet.
Init ==
    /\ kind \in Kinds
    /\ now = 2
    /\ heads = <<NewHead(kind.own, 0)>>
    /\ \E labelled \in BOOLEAN :
          LET yes == [on |-> TRUE, at |-> 1, writer |-> TRUE] IN
          /\ mr = [draft |-> FALSE, taken |-> 0, auto |-> AutoOff, recorded |-> FALSE, merged |-> 0,
                   labels |-> [l \in Labels |-> IF labelled /\ l = "plain" THEN yes ELSE Off]]
          /\ yeses = IF labelled THEN {[at |-> 1, whole |-> FALSE]} ELSE {}
    /\ job = Idle
    /\ demoted = FALSE
    /\ turns = 0 /\ faults = 0
    /\ vetoed = "no"

Tip  == Len(heads)
Open == mr.merged = 0
Tick == now' = now + 1
Turn == Open /\ turns < MaxTurns /\ turns' = turns + 1

-----------------------------------------------------------------------------
(* The state as read, and what it says (theYes, takenOff, pushedAfter).    *)

On(labels) == {l \in Labels : labels[l].on}
Yeses(labels) == {l \in On(labels) : labels[l].writer}

\* A yes of date d covers tip: the tip is the head it was given on, or
\* workline's own commits alone came after it.
Covers(known, d, tip) ==
    \A h \in 1..tip : (h \in known /\ heads[h].at <= d) \/ heads[h].own

\* The pushes the forge named when the state was read; of a fork's, the
\* commits' own dates.
Known(st, tip) == IF kind.here THEN 1..st.pushed ELSE 1..tip

TakenOffBefore(st) == st.taken # 0 /\ st.auto.at # 0 /\ st.taken <= st.auto.at
\* A label taken off since auto-merge was turned on, none put since.
TakenOff(st) == st.taken # 0 /\ st.auto.at # 0 /\ st.auto.at <= st.taken

-----------------------------------------------------------------------------
(* What a run does of it: the calls weigh makes, in order.                 *)

Call(do) == [do |-> do]
Accept(ok) == [do |-> "accept", ok |-> ok]
Unlabel(labels) == [do |-> "unlabel", labels |-> labels]

TurnOff(st) == IF st.auto.on THEN <<Call("off")>> ELSE <<>>
TakeBack(st) == TurnOff(st) \o <<Accept(FALSE)>>

StalledLeft(st) == <<>>
\* Auto-merge on already: left to the forge, or merged now if it would.
Stalled(st) == IF st.mergeable THEN <<Call("on")>> ELSE <<>>
ArmedSaidAfter(st, record) ==
    <<Accept(TRUE)>> \o (IF st.auto.on THEN Stalled(st) ELSE <<Call("on")>> \o record)
Armed(st, record) ==
    <<Accept(TRUE)>> \o (IF st.auto.on THEN Stalled(st) ELSE record \o <<Call("on")>>)

Ours(st, yes) == st.auto.on /\ st.auto.by = "bot" /\ yes <= st.auto.at

\* Turned on since the yes, and off now: a person's veto.
VetoedUndated(st, yes) == ~st.auto.on /\ st.auto.at = yes
Vetoed(st, yes) == ~st.auto.on /\ st.auto.at > yes

\* One of the App's own, no person's yes: weighRoutine, admit.
WeighRoutine(st, tip, held) ==
    LET ours == st.auto.on /\ st.auto.by = "bot"
        waits == IF ours THEN TakeBack(st) ELSE <<>> IN
    IF st.draft THEN waits
    ELSE IF kind.barred \/ held \/ ~\A h \in 1..tip : heads[h].own THEN waits
    ELSE IF Vetoed(st, 0) THEN <<Accept(FALSE)>>
    ELSE IF st.checks = "failure" \/ heads[tip].class = "none" THEN <<>>
    ELSE IF heads[tip].class # "pass" THEN <<Accept(FALSE)>>
    ELSE Armed(st, <<Call("record")>>)

\* A fork's: its checks, no verdict of its run.
WeighFork(st, tip) ==
    IF kind.barred
    THEN (IF st.auto.by = "bot" THEN TurnOff(st) ELSE <<>>) \o <<Accept(FALSE)>>
    ELSE IF st.checks # "success" THEN <<>>
    ELSE Armed(st, <<>>)

\* By the line's verdict on its head.
WeighVerdict(st, tip, yes, whole) ==
    CASE heads[tip].class = "none" -> <<>>
      [] heads[tip].class = "pass" -> Armed(st, <<>>)
      [] heads[tip].class = "short" /\ whole -> Armed(st, <<>>)
      [] OTHER -> (IF Ours(st, yes) THEN TurnOff(st) ELSE <<>>) \o <<Accept(FALSE)>>

StaleLeft(st, stale) == <<>>
\* A yes that covers its head no more, while the other does, alone goes.
StaleOff(st, stale) == IF stale # {} THEN <<Unlabel(stale \cap st.listed)>> ELSE <<>>

\* Past the yes: what covers the head, vetoes, checks.  by is the date of
\* each yes.
WeighYes(st, tip, by) ==
    LET fresh == {l \in DOMAIN by : Covers(Known(st, tip), by[l], tip)}
        yes == Max({by[l] : l \in IF fresh # {} THEN fresh ELSE DOMAIN by})
        stale == DOMAIN by \ fresh IN
    IF st.draft THEN (IF st.auto.on THEN TakeBack(st) ELSE <<>>)
    ELSE IF fresh = {}
    THEN TakeBack(st) \o (IF st.listed # {} THEN <<Unlabel(st.listed)>> ELSE <<>>)
    ELSE StaleOff(st, stale)
         \o (IF Vetoed(st, yes) THEN <<Accept(FALSE)>>
             ELSE IF st.checks = "failure" THEN <<>>
             ELSE IF ~kind.here THEN WeighFork(st, tip)
             ELSE WeighVerdict(st, tip, yes, "whole" \in fresh))

Weigh(st, tip, held) ==
    IF st.listed = {}
    THEN IF TakenOff(st) THEN TakeBack(st)
         ELSE IF st.auto.by = "person" THEN WeighYes(st, tip, [l \in {"plain"} |-> st.auto.at])
         ELSE IF kind.own THEN WeighRoutine(st, tip, held) ELSE <<>>
    ELSE IF Yeses(st.labels) = {}
    THEN IF kind.own THEN WeighRoutine(st, tip, held) ELSE <<>>
    ELSE WeighYes(st, tip, [l \in Yeses(st.labels) |-> st.labels[l].at])

-----------------------------------------------------------------------------
(* A run of follow: listed, read, weighed, then its calls one by one.      *)

\* Its base requires the App's status (Guarded): a head that lacks it does
\* not merge.
MergeableUnguarded == heads[Tip].checks = "success" /\ ~mr.draft
Mergeable == heads[Tip].accepted = "yes" /\ heads[Tip].checks = "success" /\ ~mr.draft

Merge(h) == mr' = [mr EXCEPT !.merged = h, !.auto = AutoOff]
TurnsOn(by) == mr' = [mr EXCEPT !.auto = [on |-> TRUE, by |-> by, at |-> now]]
TurnsOff == mr' = [mr EXCEPT !.auto.on = FALSE, !.auto.by = "nobody"]
Unlabelled(labels) ==
    mr' = [mr EXCEPT !.labels = [l \in Labels |-> IF l \in labels THEN Off ELSE @[l]],
                     !.taken = IF labels \cap On(mr.labels) # {} THEN now ELSE @]

Others == <<kind, turns, yeses, vetoed, demoted>>

MergeState ==
    /\ Open /\ job = Idle
    /\ On(mr.labels) # {} \/ mr.auto.on \/ kind.own
    /\ job' = [at |-> "weigh", held |-> demoted,
               st |-> [draft |-> mr.draft, labels |-> mr.labels, taken |-> mr.taken,
                       auto |-> mr.auto, checks |-> heads[Tip].checks,
                       mergeable |-> Mergeable, pushed |-> Tip, listed |-> On(mr.labels)]]
    /\ UNCHANGED <<mr, heads, now, faults, Others>>

Doing(tip, calls) ==
    IF calls = <<>> THEN Idle ELSE [at |-> "act", tip |-> tip, calls |-> calls]

WeighIt ==
    /\ job.at = "weigh"
    /\ job' = Doing(Tip, Weigh(job.st, Tip, job.held))
    /\ UNCHANGED <<mr, heads, now, faults, Others>>

\* GitHub merges at once what it would merge, else turns auto-merge on, for
\* the head named alone.
AutoMergeOn ==
    IF job.tip # Tip THEN UNCHANGED mr
    ELSE IF Mergeable THEN Merge(Tip) ELSE TurnsOn("bot")

AcceptedOnTip(ok) == [heads EXCEPT ![Tip].accepted = IF ok THEN "yes" ELSE "no"]
\* The status is put on the head that was weighed.
Accepted(ok) == [heads EXCEPT ![job.tip].accepted = IF ok THEN "yes" ELSE "no"]

Done(call) ==
    /\ CASE call.do = "off" -> TurnsOff
         [] call.do = "unlabel" -> Unlabelled(call.labels)
         [] call.do = "record" -> mr' = [mr EXCEPT !.recorded = TRUE]
         [] call.do = "on" -> AutoMergeOn
         [] OTHER -> UNCHANGED mr
    /\ heads' = IF call.do = "accept" THEN Accepted(call.ok) ELSE heads
    /\ IF call.do \in {"on", "unlabel"} THEN Tick ELSE UNCHANGED now

Act ==
    /\ Open /\ job.at = "act"
    /\ Done(Head(job.calls))
    /\ job' = Doing(job.tip, Tail(job.calls))
    /\ UNCHANGED <<faults, Others>>

\* A call fails, or its answer is lost: the run ends there.
Fails ==
    /\ job # Idle /\ faults < MaxFaults
    /\ \/ UNCHANGED <<mr, heads, now>>
       \/ Open /\ job.at = "act" /\ Done(Head(job.calls))
    /\ faults' = faults + 1
    /\ job' = Idle
    /\ UNCHANGED Others

-----------------------------------------------------------------------------
(* The forge, people and the other jobs, at any moment.                    *)

Still == <<kind, job, faults>>

\* The forge merges when its rules are met, or misses the event.
ForgeMerges ==
    /\ Open /\ mr.auto.on /\ Mergeable
    /\ Merge(Tip)
    /\ UNCHANGED <<heads, now, Others, job, faults>>

Gives(whole) ==
    /\ yeses' = yeses \cup {[at |-> now, whole |-> whole]}
    /\ vetoed' = "no"

Puts(l, writer) ==
    /\ Turn /\ Tick /\ ~mr.labels[l].on
    /\ mr' = [mr EXCEPT !.labels[l] = [on |-> TRUE, at |-> now, writer |-> writer], !.taken = 0]
    /\ IF writer THEN Gives(l = "whole") ELSE vetoed' = "no" /\ UNCHANGED yeses
    /\ UNCHANGED <<heads, demoted, Still>>

\* Seen by no run under way.
Vetoes(how) == vetoed' = IF job = Idle THEN how ELSE vetoed

TakesOff(l) ==
    /\ Turn /\ Tick /\ mr.labels[l].on
    /\ Unlabelled({l})
    /\ IF mr.auto.on /\ On(mr.labels) = {l} THEN Vetoes("label") ELSE UNCHANGED vetoed
    /\ UNCHANGED <<heads, yeses, demoted, Still>>

PersonTurnsOn ==
    /\ Turn /\ Tick /\ ~mr.auto.on /\ ~mr.draft /\ ~Mergeable
    /\ TurnsOn("person") /\ Gives(FALSE)
    /\ UNCHANGED <<heads, demoted, Still>>

PersonTurnsOff ==
    /\ Turn /\ mr.auto.on
    /\ TurnsOff
    /\ Vetoes(IF \E l \in Yeses(mr.labels) : mr.labels[l].at > mr.auto.at THEN "late" ELSE "off")
    /\ UNCHANGED <<heads, now, yeses, demoted, Still>>

Drafts ==
    /\ Turn
    /\ mr' = [mr EXCEPT !.draft = ~@]
    /\ UNCHANGED <<heads, now, yeses, vetoed, demoted, Still>>

\* A push, a person's or workline's own: a rebuild on the base, a record.
Pushes(own) ==
    /\ Turn /\ Tick /\ Tip < MaxHeads /\ (own => kind.here)
    /\ heads' = Append(heads, NewHead(own, now))
    /\ UNCHANGED <<mr, yeses, vetoed, demoted, Still>>

\* A head passes by itself; a failure, and a run again, are a turn.
Anew(passes) == Open /\ IF passes THEN UNCHANGED turns ELSE Turn

CheckEnds(s) ==
    /\ heads[Tip].checks # s /\ Anew(heads[Tip].checks = "pending" /\ s = "success")
    /\ heads' = [heads EXCEPT ![Tip].checks = s,
                              ![Tip].was = @ \cup (IF s = "success" THEN {"green"} ELSE {})]
    /\ UNCHANGED <<mr, now, yeses, vetoed, demoted, Still>>

KeepVerdict(c) ==
    /\ kind.here /\ heads[Tip].class # c /\ Anew(heads[Tip].class = "none" /\ c = "pass")
    /\ heads' = [heads EXCEPT ![Tip].class = c, ![Tip].was = @ \cup {c}]
    /\ UNCHANGED <<mr, now, yeses, vetoed, demoted, Still>>

\* A revert of its kind read by another run, its issue closed by a person.
Demotes ==
    /\ Turn /\ kind.own
    /\ demoted' = ~demoted
    /\ UNCHANGED <<mr, heads, now, yeses, vetoed, Still>>

Follow == MergeState \/ WeighIt \/ Act
People ==
    \/ \E l \in Labels : TakesOff(l) \/ \E w \in BOOLEAN : Puts(l, w)
    \/ PersonTurnsOn \/ PersonTurnsOff \/ Drafts \/ Demotes
    \/ \E own \in BOOLEAN : Pushes(own)
    \/ \E s \in Checks \ {"pending"} : CheckEnds(s)
    \/ \E c \in Classes : KeepVerdict(c)

Next == Follow \/ Fails \/ ForgeMerges \/ People

\* follow runs hourly, and at each label, verdict and draft; each run ends.
Spec == Init /\ [][Next]_vars /\ WF_vars(Follow)

-----------------------------------------------------------------------------
\* Types; auto-merge on is on by someone's hand.
TypeOK ==
    /\ kind \in Kinds /\ demoted \in BOOLEAN /\ vetoed \in {"no", "label", "off", "late"}
    /\ mr \in [draft : BOOLEAN, taken : Nat, recorded : BOOLEAN, merged : 0..MaxHeads,
               labels : [Labels -> [on : BOOLEAN, at : Nat, writer : BOOLEAN]],
               auto : [on : BOOLEAN, by : {"nobody", "bot", "person"}, at : Nat]]
    /\ mr.auto.on <=> mr.auto.by # "nobody"
    /\ heads \in Seq([at : Nat, own : BOOLEAN, accepted : {"none", "yes", "no"}, checks : Checks,
                      class : Classes \cup {"none"}, was : SUBSET (Classes \cup {"green"})])
    /\ Len(heads) \in 1..MaxHeads
    /\ yeses \in SUBSET [at : Nat, whole : BOOLEAN]
    /\ job.at \in {"idle", "weigh", "act"}
    /\ {now, turns, faults} \subseteq Nat

CoveredBy(y, h) == \A i \in 1..h : heads[i].at <= y.at \/ heads[i].own

\* Of a head: a person's yes, who may push and merge, covers it, and the
\* line passed on it, or that person read it whole, or a fork's checks
\* passed; or it is the App's own through and through, and passed.
Earned(h) ==
    \/ /\ kind.own /\ ~kind.barred /\ "pass" \in heads[h].was
       /\ \A i \in 1..h : heads[i].own
    \/ \E y \in yeses :
          /\ CoveredBy(y, h)
          /\ IF kind.here
             THEN "pass" \in heads[h].was \/ (y.whole /\ "short" \in heads[h].was)
             ELSE "green" \in heads[h].was /\ ~kind.barred

\* The status workline/accepted, which the base requires, is put on no head
\* that has not earned it: whatever was pushed, labelled, unlabelled, judged
\* anew or turned off between the reading of a merge request and the call
\* (weigh, armed, Accept).
AcceptEarned == \A h \in DOMAIN heads : heads[h].accepted = "yes" => Earned(h)

\* What the forge merges, at the line's call, by its auto-merge the line or
\* a person turned on, or late, is a head that holds the status and earned
\* it: a push after the weighing, or after auto-merge was turned on, carries
\* none (AutoMerge names the head; Guarded).
MergedEarned == Open \/ (heads[mr.merged].accepted = "yes" /\ Earned(mr.merged))

\* A merge request workline merged with no person's yes on that head has its
\* record, which a later revert of it is read by: also when the run dies, or
\* the forge merges, between two of the calls (armed at "normal", admit).
RecordedAlone ==
    Open \/ mr.recorded \/ \E y \in yeses : CoveredBy(y, mr.merged)

StaleOn(l) == Open /\ ~mr.draft /\ mr.labels[l].on /\ mr.labels[l].writer
              /\ ~Covers(1..Tip, mr.labels[l].at, Tip)

\* A label whose head was pushed over by a person does not stay on: it goes,
\* alone when the other yes covers the head (#1107), or the merge request
\* merges, is made a draft, or is labelled anew (weigh, pushedAfter).
StaleGoes == \A l \in Labels : StaleOn(l) ~> ~StaleOn(l)

\* The last label taken off while auto-merge is on, no run under way: it
\* does not stay on by that (weigh, takenOff).
LabelVeto == Open /\ vetoed = "label" /\ mr.auto.on
LabelOffHeeded == LabelVeto ~> ~LabelVeto

Wanted ==
    /\ Open /\ kind.here /\ ~mr.draft
    /\ heads[Tip].checks = "success" /\ heads[Tip].class = "pass"
    /\ \E l \in Labels :
          /\ mr.labels[l].on /\ mr.labels[l].writer /\ Covers(1..Tip, mr.labels[l].at, Tip)
          /\ ~Vetoed(mr, mr.labels[l].at)

\* A head that a yes covers, passed and green, no veto, does not wait for
\* ever: also when the forge missed the event its auto-merge acts on (#993),
\* or a call failed (stalled).
AcceptedMerges == ~<>[]Wanted

NotOnAgain == ~mr.auto.on => ~mr'.auto.on /\ mr'.merged = mr.merged

\* Auto-merge a person turned off between two runs, no yes given since it
\* was on, is not turned on again, nor the head merged, until a label is put
\* or a person turns it on (weigh: "left off until the label is put again").
VetoStands == [][vetoed = "off" /\ vetoed' = "off" => NotOnAgain]_vars

-----------------------------------------------------------------------------
(* What the documents say, and the run of follow does not do.              *)

\* "Auto-merge turned off by a person stays off until labelled again"
\* (docs/merge-policy.md): a second yes put while it was on is newer than
\* that, the turning off after it is not seen, and it is turned on again.
VetoLasts == [][(vetoed \in {"off", "late"} /\ vetoed' \in {"off", "late"}) => NotOnAgain]_vars
=============================================================================
