---------------------------- MODULE BacklogLedger ----------------------------
(***************************************************************************)
(* What the product owner holds on each issue (internal/backlog: Decide,   *)
(* ReadLedger, Persist; builtin/productowner, Pre): one state comment an   *)
(* issue, the label workline:proposed while a proposal waits there, and a  *)
(* person's answers: the label accepted, a word, an edit, the label off.   *)
(* A run is judged in one job and applied in the next: its plan is read    *)
(* then, its acts and its record written later, a person moving between.   *)
(* The night's run is on every issue, an event's on its own.               *)
(*                                                                         *)
(* The act is a milestone, which the role does alone or proposes and a     *)
(* person may put back; no cap of acts a run is reached.  A body, and the  *)
(* words that count, are numbers.                                          *)
(***************************************************************************)
EXTENDS Integers, FiniteSets, FiniteSetsExt, Functions

CONSTANTS N,            \* the issues, 1..N
          Alone,        \* the setting acts.milestone: done alone, or proposed
          ProposalsMax, \* proposals-max
          UndoneMax,    \* undone-max
          RevisionsMax, \* acts.ask.rounds less the first draft
          Overlap,      \* whether a run starts while another has not ended
          MaxTurns      \* bound: what people, bots and the machine do

ASSUME LedgerAssumption ==
    /\ {N, ProposalsMax, UndoneMax, RevisionsMax, MaxTurns} \subseteq Nat
    /\ Alone \in BOOLEAN /\ Overlap \in BOOLEAN

Issues == 1..N
Jobs   == {"night", "event"}
Places == {"none", "role's", "person's"}  \* the milestone it is in
NoBody == -1                              \* State.Aside, State.Done: none
NoDone == "no"

VARIABLES issue, \* the issues on the forge
          held,  \* State, in each issue's state comment
          job,   \* each run: its phase, its plan, what is left to write
          turns,
          slack  \* history: labels a bot took off, or a run left half-way, and yeses taken back

vars == <<issue, held, job, turns, slack>>

NoOff == [by |-> "nobody", words |-> 0]
NewIssue == [in |-> "none", label |-> FALSE, accepted |-> FALSE, closed |-> FALSE,
             body |-> 0, words |-> 0, off |-> NoOff]
NewState == [label |-> FALSE, proposed |-> FALSE, done |-> NoDone, undone |-> 0,
             aside |-> NoBody, heard |-> 0, revisions |-> 0]
Idle == [at |-> "idle"]

Init ==
    /\ issue = [i \in Issues |-> NewIssue]
    /\ held = [i \in Issues |-> NewState]
    /\ job = [j \in Jobs |-> Idle]
    /\ turns = 0 /\ slack = 0

Turn == turns < MaxTurns /\ turns' = turns + 1

-----------------------------------------------------------------------------
(* The run judged: the ledger read, the plan decided (ReadLedger, Decide). *)

Unheard(i) == issue[i].words > held[i].heard

\* The role's label off since the last run, with no yes, not by a bot:
\* "not now".
SetAside(i) ==
    held[i].label /\ ~issue[i].label /\ ~issue[i].accepted /\ issue[i].off.by # "bot"

StillAside(i) == held[i].aside = issue[i].body /\ ~Unheard(i)
AsideNow(i) == SetAside(i)
Aside(i) == SetAside(i) \/ StillAside(i)

Undone(i) == held[i].done = issue[i].in
Standing(i) == IF issue[i].in = "role's" /\ ~Undone(i) THEN held[i].done ELSE NoDone
UndoneLast(i) == IF Undone(i) THEN 1 ELSE 0
UndoneOn(i) == held[i].undone + (IF Undone(i) THEN 1 ELSE 0)

\* A kind undone undone-max times, on the issues read, is proposed on each.
Demoted(scope) == MapThenSumSet(UndoneOn, scope) >= UndoneMax

\* A person's word on its proposal asks the role to revise it; one revised
\* as often as allowed is left to them.
Asked(i) == ~Aside(i) /\ ~issue[i].accepted /\ held[i].label /\ Unheard(i)
Answers(i) == Asked(i) /\ held[i].revisions < RevisionsMax

\* What the agent may be given to read for a person's word; reading another
\* changes nothing of what is kept here.
Readable(scope) ==
    {i \in scope : Unheard(i) /\ ~Aside(i) /\ ~issue[i].accepted /\ (Asked(i) => Answers(i))}

NotedBack(i, answered) ==
    [held[i] EXCEPT !.heard = issue[i].words, !.revisions = IF answered THEN @ + 1 ELSE @ - 1]

\* The state as pre read it, its words heard: written when the run is
\* applied, for an issue read or left to a person.
Noted(i, answered) ==
    [held[i] EXCEPT !.heard = issue[i].words, !.revisions = IF answered THEN @ + 1 ELSE @]

TickedLabelled(i) == issue[i].accepted /\ held[i].proposed /\ held[i].label

\* A person's yes to the proposal its state holds: done, whatever its mode.
Ticked(i) == issue[i].accepted /\ held[i].proposed
AloneOn(i, scope) == Alone /\ UndoneOn(i) = 0 /\ ~Demoted(scope)

\* The plan: the agent read Read and answered with an act on each of Acts.
PlanOf(scope, Read, Acts) ==
    LET told     == {i \in Acts : ~Ticked(i)}
        ticked   == {i \in scope : Ticked(i)}
        alone    == {i \in told : AloneOn(i, scope)}
        proposed == told \ alone
        left     == {i \in scope : Asked(i) /\ ~Answers(i)}
        kept(i)  == held[i].proposed /\ ~SetAside(i) /\ ~issue[i].accepted /\ i \notin told
    IN [scope    |-> scope,
        aside    |-> {i \in scope : SetAside(i)},
        note     |-> [i \in Read \cup left |-> Noted(i, i \in Read /\ Answers(i))],
        act      |-> ticked \cup alone,
        decided  |-> ticked \cup told,
        answered |-> {i \in Read : Answers(i)},
        record   |-> [i \in scope |->
                        [proposed |-> i \in proposed \/ kept(i),
                         done     |-> IF i \in alone THEN issue[i].in ELSE Standing(i),
                         undone   |-> UndoneOn(i)]],
        elsewhere |-> Cardinality({i \in Issues \ scope : ~issue[i].closed /\ issue[i].label})]

Open(scope) == {i \in scope : ~issue[i].closed}

AtRest == \A j \in Jobs : job[j].at = "idle"

\* Nothing is decided on an issue set aside.
Judge(j, scope) ==
    /\ job[j].at = "idle"
    /\ Overlap \/ AtRest
    /\ \E Read \in SUBSET Readable(Open(scope)) :
         \E Acts \in SUBSET {i \in Open(scope) : ~Aside(i)} :
            LET p == PlanOf(Open(scope), Read, Acts)
            IN job' = [job EXCEPT ![j] = [at |-> "apply", plan |-> p, write |-> <<>>]]
    /\ UNCHANGED <<issue, held, slack>>

JudgeNight == Judge("night", Issues) /\ UNCHANGED turns
JudgeEvent == Turn /\ \E i \in Issues : Judge("event", {i})

-----------------------------------------------------------------------------
(* The run applied: the states as read, the acts, then what each issue     *)
(* keeps (Persist).  The process may die between any two writes: resumed,  *)
(* it does the plan kept, what was not recorded as applied again.          *)

Plan(j) == job[j].plan
Applying(j) == job[j].at = "apply"

Note(j) ==
    /\ Applying(j)
    /\ \E i \in DOMAIN Plan(j).note :
         /\ \A k \in DOMAIN Plan(j).note : i =< k
         /\ held' = [held EXCEPT ![i] = Plan(j).note[i]]
         /\ job' = [job EXCEPT ![j].plan.note = Restrict(@, DOMAIN @ \ {i})]
    /\ UNCHANGED <<issue, turns, slack>>

\* The milestone set; recorded as applied, or made again once resumed.
Act(j) ==
    /\ Applying(j) /\ DOMAIN Plan(j).note = {}
    /\ \E i \in Plan(j).act :
         /\ \A k \in Plan(j).act : i =< k
         /\ issue' = [issue EXCEPT ![i].in = "role's"]
         /\ \/ job' = [job EXCEPT ![j].plan.act = @ \ {i}] /\ UNCHANGED turns
            \/ Turn /\ UNCHANGED job
    /\ UNCHANGED <<held, slack>>

\* As Kept, the label not looked at again.
KeptLabel(j, i) ==
    [held[i] EXCEPT !.proposed = Plan(j).record[i].proposed, !.done = Plan(j).record[i].done,
       !.undone = Plan(j).record[i].undone, !.aside = IF issue[i].body # @ THEN NoBody ELSE @]

\* One issue as Persist reads it, and the state it leaves there, before
\* the labels within proposals-max.
Kept(j, i) ==
    LET is == issue[i]
        r  == Plan(j).record[i]
        st == [held[i] EXCEPT !.proposed = r.proposed, !.done = r.done, !.undone = r.undone]
        changed == is.body # st.aside \/ i \in Plan(j).answered \cup Plan(j).decided
        aside == IF changed THEN NoBody ELSE st.aside
        waits == aside = NoBody /\ st.proposed
    IN CASE is.closed -> [st EXCEPT !.label = FALSE, !.proposed = FALSE]
         [] ~is.closed /\ ~is.accepted /\ st.label /\ ~is.label /\ i \in Plan(j).aside ->
              [st EXCEPT !.label = FALSE, !.proposed = FALSE, !.aside = is.body,
                         !.heard = IF is.off.words > @ THEN is.off.words ELSE @]
         [] ~is.closed /\ is.accepted -> [st EXCEPT !.label = FALSE]
         [] OTHER -> [st EXCEPT !.aside = aside, !.label = @ /\ waits]

Wants(j, i) ==
    /\ ~issue[i].closed /\ ~issue[i].accepted
    /\ LET st == Kept(j, i) IN st.proposed /\ st.aside = NoBody /\ ~st.label

\* Those that start waiting while fewer than proposals-max wait: those the
\* run decided on first, then by number.
Before(j, a, b) ==
    LET d == Plan(j).decided IN IF (a \in d) = (b \in d) THEN a < b ELSE a \in d
RoomHere(j) == ProposalsMax - Cardinality({i \in Plan(j).scope : Kept(j, i).label})
Room(j) ==
    ProposalsMax - Plan(j).elsewhere - Cardinality({i \in Plan(j).scope : Kept(j, i).label})
Labelled(j) ==
    LET wants == {i \in Plan(j).scope : Wants(j, i)}
    IN {i \in wants : Cardinality({k \in wants : Before(j, k, i)}) < Room(j)}

\* What Persist writes on an issue, from what it read of it: its state, and
\* the label put on or taken off.
Written(j, i) ==
    LET st == [Kept(j, i) EXCEPT !.label = @ \/ i \in Labelled(j)]
    IN [state  |-> st,
        add    |-> st.label /\ ~issue[i].label,
        remove |-> ~st.label /\ issue[i].label /\ (held[i].label \/ issue[i].accepted)]

Persist(j) ==
    /\ Applying(j) /\ DOMAIN Plan(j).note = {} /\ Plan(j).act = {}
    /\ job' = [job EXCEPT ![j].at = "persist",
                 ![j].write = [i \in Plan(j).scope |-> Written(j, i)]]
    /\ UNCHANGED <<issue, held, turns, slack>>

First(j, i) == i \in DOMAIN job[j].write /\ \A k \in DOMAIN job[j].write : i =< k

\* Each issue's state, then its label.
WriteState(j) ==
    /\ job[j].at = "persist"
    /\ \E i \in Issues :
         /\ First(j, i)
         /\ held' = [held EXCEPT ![i] = job[j].write[i].state]
         /\ job' = [job EXCEPT ![j].at = "label"]
    /\ UNCHANGED <<issue, turns, slack>>

\* The role's account is a bot's.
Removed(i, who) == [issue[i] EXCEPT !.label = FALSE, !.off = [by |-> who, words |-> issue[i].words]]

WriteLabel(j) ==
    /\ job[j].at = "label"
    /\ \E i \in Issues :
         /\ First(j, i)
         /\ LET w == job[j].write[i]
            IN issue' = [issue EXCEPT ![i] =
                 IF w.add THEN [@ EXCEPT !.label = TRUE]
                 ELSE IF w.remove /\ @.label THEN Removed(i, "bot") ELSE @]
         /\ job' = [job EXCEPT ![j].at = "persist", ![j].write = Restrict(@, DOMAIN @ \ {i})]
    /\ UNCHANGED <<held, turns, slack>>

End(j) ==
    /\ job[j].at = "persist" /\ DOMAIN job[j].write = {}
    /\ job' = [job EXCEPT ![j] = Idle]
    /\ UNCHANGED <<issue, held, turns, slack>>

\* It dies while it persists: resumed, it reads each issue again.
Dies(j) ==
    /\ job[j].at \in {"persist", "label"} /\ Turn
    /\ job' = [job EXCEPT ![j].at = "apply", ![j].write = <<>>]
    /\ UNCHANGED <<issue, held, slack>>

\* Held with the label, which the run had yet to take off, or to put on.
HalfWay(j) ==
    {i \in Plan(j).scope : held[i].label /\ (~Kept(j, i).label \/ ~issue[i].label)}

\* It dies and nobody resumes it: the next run is judged anew.
Abandoned(j) ==
    /\ job[j].at # "idle" /\ Turn
    /\ job' = [job EXCEPT ![j] = Idle]
    /\ slack' = slack + Cardinality(HalfWay(j)) /\ UNCHANGED <<issue, held>>

-----------------------------------------------------------------------------
(* People and bots, on an open issue.                                      *)

Said(i, is) == Turn /\ ~issue[i].closed /\ issue' = [issue EXCEPT ![i] = is] /\ UNCHANGED <<held, job>>

PersonTakesOff(i) ==
    issue[i].label /\ Said(i, Removed(i, "person")) /\ UNCHANGED slack

BotTakesOff(i) ==
    issue[i].label /\ Said(i, Removed(i, "bot")) /\ slack' = slack + 1

\* workline:accepted put on, or taken off again.
Accepts(i) == ~issue[i].accepted /\ Said(i, [issue[i] EXCEPT !.accepted = TRUE]) /\ UNCHANGED slack
TakesBack(i) ==
    /\ issue[i].accepted /\ Said(i, [issue[i] EXCEPT !.accepted = FALSE])
    /\ slack' = slack + 1
Edits(i)   == Said(i, [issue[i] EXCEPT !.body = @ + 1]) /\ UNCHANGED slack
Writes(i)  == Said(i, [issue[i] EXCEPT !.words = @ + 1]) /\ UNCHANGED slack
Closes(i)  == Said(i, [issue[i] EXCEPT !.closed = TRUE]) /\ UNCHANGED slack

MovesMilestone(i) ==
    \E m \in Places \ {issue[i].in} : Said(i, [issue[i] EXCEPT !.in = m]) /\ UNCHANGED slack

Step(j) == Note(j) \/ Act(j) \/ Persist(j) \/ WriteState(j) \/ WriteLabel(j) \/ End(j)
Person(i) ==
    \/ PersonTakesOff(i) \/ BotTakesOff(i) \/ Accepts(i) \/ TakesBack(i) \/ Edits(i) \/ Writes(i) \/ Closes(i)
    \/ MovesMilestone(i)

Next ==
    \/ JudgeNight \/ JudgeEvent
    \/ \E j \in Jobs : Step(j) \/ Dies(j) \/ Abandoned(j)
    \/ \E i \in Issues : Person(i)

\* The night's run starts every night; a run started ends, but it dies.
Fairness == WF_vars(JudgeNight) /\ WF_vars(\E j \in Jobs : Step(j))

Spec == Init /\ [][Next]_vars /\ Fairness

-----------------------------------------------------------------------------
States == [label : BOOLEAN, proposed : BOOLEAN, done : Places \cup {NoDone}, undone : Nat,
           aside : Nat \cup {NoBody}, heard : Nat, revisions : Nat]
Bodies == [in : Places, label : BOOLEAN, accepted : BOOLEAN, closed : BOOLEAN, body : Nat,
           words : Nat, off : [by : {"nobody", "person", "bot"}, words : Nat]]
Phases == {"idle", "apply", "persist", "label"}

TypeOK ==
    /\ issue \in [Issues -> Bodies] /\ held \in [Issues -> States]
    /\ \A j \in Jobs : job[j].at \in Phases
    /\ turns \in 0..MaxTurns /\ slack \in Nat

\* The role's label, in its state, is on a proposal alone, and never on an
\* issue set aside (Persist): whatever was judged of it before a person
\* took the label off, accepted it, wrote on it or edited it.
LabelWaits == \A i \in Issues : held[i].label => held[i].proposed /\ held[i].aside = NoBody

\* An act found undone counts from then on, once: never forgotten, and not
\* done alone there to be undone again (ADR-0038, amended; Decide), however
\* the runs that follow end.
UndoneStands ==
    [][\A i \in Issues : held[i].undone > 0 => held'[i].undone = held[i].undone]_held

\* Between two runs, never more than proposals-max issues wait on a person
\* (labelWithin), but for one whose label a bot took off, which is put
\* back, one whose yes is taken back, and those a run left half-way.
Waits == {i \in Issues : issue[i].label /\ held[i].label /\ ~issue[i].accepted /\ ~issue[i].closed}
ProposalsBounded ==
    AtRest => Cardinality(Waits) =< ProposalsMax + slack

\* An issue recorded set aside stays so, whatever a run reads and decides,
\* until its body changes or a person writes after they took the label off
\* (ADR-0038, "proposes nothing more on that issue until it changes").
AsideKept ==
    [][\A i \in Issues :
        held[i].aside = issue[i].body /\ issue[i].off.words = issue[i].words
            => held'[i].aside = held[i].aside]_held

\* A proposal a person accepted is done, at the night's run at the latest,
\* unless they take their yes back or close the issue (Decide, "Their yes:
\* done, whatever its mode"): a run that dies does not lose it.
YesIsDone ==
    \A i \in Issues :
        (AtRest /\ issue[i].accepted /\ held[i].proposed)
            ~> (issue[i].in = "role's" \/ ~issue[i].accepted \/ issue[i].closed)

-----------------------------------------------------------------------------
(* What the code's own words say, and a run does not do.                   *)

\* A label a person took off is put back by the role only once the issue
\* changed (ADR-0038, "not now").
NotNowHeard ==
    [][\A i \in Issues :
        issue[i].off = [by |-> "person", words |-> issue[i].words] /\ ~issue[i].accepted
          /\ ~issue[i].label /\ held[i].label
            => ~issue'[i].label]_vars

\* An issue is set aside by a person alone (setAside, ledger.go:464): the
\* last to take its label off.
AsideIsTheirs ==
    \A i \in Issues : held[i].aside # NoBody /\ ~issue[i].label => issue[i].off.by = "person"

\* An act found undone is not where the role put it (undo.go:14).
UndoneIsTheirs == \A i \in Issues : Undone(i) => issue[i].in # "role's"
=============================================================================
