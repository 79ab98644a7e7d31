---------------------------- MODULE LineOfStates ----------------------------
(***************************************************************************)
(* One issue on workline's line of states (internal/line, ADR-0059): the   *)
(* line reads the issue and its own record of it, decides whether a step   *)
(* is due (stateOf), runs the role its state wakes (runStateStep), and     *)
(* writes the record in one sticky comment (writeState).  People move the  *)
(* labels, edit the body and comment at any time, between any two of       *)
(* these; a job can die between any two of them too.                       *)
(*                                                                         *)
(* A definition whose name adds a word to that of the one after it is a    *)
(* bug that one could have had, for the check that a property would see it.*)
(*                                                                         *)
(* One run is on an issue at a time, as on a machine; CI's group of an     *)
(* issue is its judge job's alone, and LineRuns has runs that overlap.     *)
(* What the line reads of the repository, the merge requests and the       *)
(* comments (tests written, Scope stale, room in the next state, what the  *)
(* product owner left) is a free choice at each reading: the actions below *)
(* may be taken whenever what is modelled allows them.                     *)
(***************************************************************************)
EXTENDS RoutingTable, FiniteSets

CONSTANTS Blocked, Refine, Doing,       \* the states the code names
          Keeper, Reviewer, Tester, Developer, \* the roles it names
          Routed,       \* the roles the project routes on `issue`
          Limited,      \* the states with a WIP limit
          Ages,         \* the states with an age limit, routing.stale
          RevisitOn,    \* whether routing.revisit is above 0
          MaxHops,      \* routing max-hops
          ErrorBudget,  \* line.ErrorBudget
          Kinds,        \* the kinds of machine error that are retried
          MarkNames,    \* the marks a record spends on an input
          Lasting,      \* those spent for as long as the issue stays in its state
          Marks,        \* Marks[s]: what wakes s's role once more on an input
          Acts,         \* Acts[r]: the moves a run of role r makes
          Bodies,       \* the bodies of the issue
          Dates, Never, \* a label's dates, and that of one never put on
          PersonLabels, \* the labels a person leaves on the issue
          MaxOutside,   \* bound: what people, time and failures do
          MaxWrites,    \* bound: the bodies roles write, the files they ask for
          MaxReviews    \* bound: the reviewer's rounds (backlog.SpecHold)

ASSUME LineAssumption ==
    /\ {Blocked, Refine, Doing} \subseteq States
    /\ Role[Blocked] = None
    /\ None \notin {Keeper, Reviewer, Tester, Developer} /\ Tester # Developer
    /\ MaxHops \in Nat \ {0} /\ ErrorBudget \in Nat
    /\ None \notin Kinds /\ None \notin Bodies
    /\ Never \notin Dates /\ Dates # {}
    /\ Lasting \subseteq MarkNames /\ Marks \in [States -> SUBSET MarkNames]
    /\ Acts \in [Routed \cup {Developer} ->
                   SUBSET [to : States, off : SUBSET States, borne : BOOLEAN]]
    /\ PersonLabels \subseteq SUBSET States
    /\ RevisitOn \in BOOLEAN

VARIABLES labels,   \* the states' labels the issue bears
          labeled,  \* labeled[s]: the date s's label was last put on
          body,     \* the issue's body
          talk,     \* the comments the engine did not write, a count
          spec,     \* the reviewer's comment on its spec, a count
          aged,     \* whether its wait passed: the days to read it again
                    \* blocked, the claim-hours of a claim
          ended,    \* whether an issue held when the developer was woken ended
          rec,      \* the line's record in its sticky comment
          job,      \* the line's run on it
          outside,  \* how much people, time and failures did (bounded)
          ask,      \* whether the last word blocking it asks for files (ScopeAsked)
          writes    \* how many bodies and asks roles wrote (bounded)

issue == <<labels, labeled, body, talk, spec, aged, ended, ask>>
vars == <<issue, rec, job, outside, writes>>

AllDates == Dates \cup {Never}
ClaimKeys == {<<>>} \cup ({"hours"} \X AllDates) \cup ({"body"} \X Bodies)

\* Record (record.go:28), what every field but the once-marks' is.  Of the
\* marks that wake a role once more on an input it ran on (Asked, Revise,
\* Timeout, Retry, Given, Unread, ReviewAgain, Unheld), the set spent.
Records ==
    [state : States \cup {None}, body : Bodies \cup {None}, labeled : AllDates,
     spec : Nat, hops : Nat, reached : States \cup {None},
     marks : SUBSET MarkNames, waits : States \cup {None},
     stale : States \cup {None}, kept : AllDates,
     retest : States \cup {None}, retestKept : AllDates,
     from : States \cup {None}, talk : Nat,
     errors : [Kinds -> Nat], kind : Kinds \cup {None}, needs : 0..2,
     woke : AllDates, claim : ClaimKeys]

NoErrors == [k \in Kinds |-> 0]
NoRec ==
    [state |-> None, body |-> None, labeled |-> Never, spec |-> 0, hops |-> 0,
     reached |-> None, marks |-> {}, waits |-> None, stale |-> None, kept |-> Never,
     retest |-> None, retestKept |-> Never, from |-> None, talk |-> 0,
     errors |-> NoErrors, kind |-> None, needs |-> 0, woke |-> Never, claim |-> <<>>]

StepKinds  == {"step", "revisit", "claim"}
WriteKinds == StepKinds \cup
    {"blocked", "capped", "waits", "stale", "kept", "retest", "retestKept", "repro", "seen"}

Jobs == [phase : {"run", "write"}, kind : WriteKinds,
         role : Routed \cup {None, Developer, Keeper}, from : States \cup {None},
         saw : SUBSET States, given : BOOLEAN, rec : Records]
NoJob == [phase |-> "idle"]

Init ==
    /\ labels \in PersonLabels
    /\ labeled = [s \in States |-> IF s \in labels THEN CHOOSE d \in Dates : TRUE ELSE Never]
    /\ body \in Bodies
    /\ talk = 0 /\ spec = 0 /\ aged = FALSE /\ ended = FALSE /\ ask = FALSE
    /\ rec = NoRec /\ job = NoJob /\ outside = 0 /\ writes = 0

-----------------------------------------------------------------------------
(* What the line reads.                                                    *)

cur == StateOf(labels)
had == rec # NoRec

\* The role the state wakes on `issue` (Config.Wakes), None when it is not
\* routed there.
Wakes == IF cur # None /\ Role[cur] \in Routed THEN Role[cur] ELSE None

\* A review is read in refine alone.
SpecNow == IF cur = Refine THEN spec ELSE 0

DueUnlabeled == ~(rec.state = cur /\ rec.body = body /\ rec.spec = SpecNow)
Due == ~ /\ rec.state = cur /\ rec.body = body
         /\ rec.labeled = labeled[cur] /\ rec.spec = SpecNow

\* The furthest state reached, a record without one standing for it.
Reached ==
    IF rec.reached # None THEN rec.reached
    ELSE IF rec.state = Blocked THEN rec.from ELSE rec.state

Entered == rec.state # cur

ProgressFromLast == had /\ Entered /\ Ahead(rec.state, cur)

\* It entered a state further on the line than the furthest reached.
Progress == Reached \notin {None, Blocked} /\ had /\ Entered /\ Ahead(Reached, cur)

\* A hop more for a state entered, the count from 0 out of Blocked, from 1
\* on progress.
HopsNow ==
    IF Progress THEN 1
    ELSE (IF rec.state = Blocked THEN 0 ELSE rec.hops) + (IF Entered THEN 1 ELSE 0)

ReachedNow == IF Reached \in {None, Blocked} \/ Progress THEN cur ELSE Reached

\* The record of a step due on a new input.
NewRecord ==
    [NoRec EXCEPT
        !.state = cur, !.body = body, !.labeled = labeled[cur], !.spec = SpecNow,
        !.hops = HopsNow, !.reached = ReachedNow,
        !.marks = IF Entered THEN {} ELSE rec.marks \cap Lasting,
        !.stale = IF Entered THEN None ELSE rec.stale,
        !.kept = IF Entered THEN Never ELSE rec.kept,
        !.retest = rec.retest, !.retestKept = rec.retestKept]

LeftRecordNoReached ==
    [NoRec EXCEPT !.state = cur, !.body = body, !.labeled = labeled[cur], !.hops = rec.hops]
LeftRecordNoHops ==
    [NoRec EXCEPT !.state = cur, !.body = body, !.labeled = labeled[cur], !.reached = rec.reached]

\* The record of an issue the line moves out of its state with no role
\* (stale.go:208, wip.go:293, repro.go:34).
LeftRecord ==
    [NoRec EXCEPT !.state = cur, !.body = body, !.labeled = labeled[cur],
                  !.hops = rec.hops, !.reached = rec.reached]

\* The record of an issue the line blocks from state s, and why.
Blocking(r, s) == [r EXCEPT !.state = Blocked, !.from = s, !.talk = talk]

\* The state whose role, the tester, moves an issue into the present one.
TestsStates == {t \in States : NextOf[t] = cur /\ Role[t] = Tester /\ Tester \in Routed}

-----------------------------------------------------------------------------
(* What the line decides of the issue it read (stateOf).                   *)

Start(kind, role, from, r) ==
    /\ job' = [phase |-> "run", kind |-> kind, role |-> role, from |-> from,
               saw |-> labels, given |-> FALSE, rec |-> r]
    /\ UNCHANGED <<labels, labeled, body, talk, spec, aged, ask, rec, outside, writes>>

Leave(kind, r) ==
    /\ job' = [phase |-> "write", kind |-> kind, role |-> None, from |-> cur,
               saw |-> labels, given |-> FALSE, rec |-> r]
    /\ UNCHANGED <<issue, rec, outside, writes>>

Reading == job = NoJob /\ cur \in States

\* Stale in its state: back to refine, or once put back by a person, said
\* and left.
Stale ==
    /\ Reading /\ cur \in Ages /\ cur # Refine
    /\ rec.stale = cur => rec.kept # labeled[cur]
    /\ IF rec.stale = cur
         THEN Leave("kept", [rec EXCEPT !.kept = labeled[cur]])
         ELSE Leave("stale", [LeftRecord EXCEPT !.stale = cur])

\* Blocked, seen first: the record written, the base news is told against;
\* or the product owner at once, the developer having asked for more files.
SeenRecord ==
    [NoRec EXCEPT !.state = Blocked, !.body = body, !.hops = rec.hops,
                  !.reached = rec.reached, !.from = rec.state, !.talk = talk]

SeeBlockedKnown ==
    /\ Reading /\ cur = Blocked /\ RevisitOn /\ Keeper \in Routed
    /\ had /\ rec.state # Blocked
    /\ IF ask THEN Start("revisit", Keeper, None, SeenRecord) /\ UNCHANGED ended
              ELSE Leave("seen", SeenRecord)

SeeBlocked ==
    /\ Reading /\ cur = Blocked /\ RevisitOn /\ Keeper \in Routed
    /\ rec.state # Blocked
    /\ IF ask THEN Start("revisit", Keeper, None, SeenRecord) /\ UNCHANGED ended
              ELSE Leave("seen", SeenRecord)

\* Blocked, read again by the product owner on news, or when the days passed.
Revisit ==
    /\ Reading /\ cur = Blocked /\ RevisitOn /\ Keeper \in Routed
    /\ rec.state = Blocked
    /\ body # rec.body \/ talk # rec.talk \/ aged
    /\ Start("revisit", Keeper, None, [rec EXCEPT !.body = body, !.talk = talk])
    /\ UNCHANGED ended

\* A claim with no pull request: let go by the developer, past its hours or
\* on a new body, once for each; past its hours, blocked when its agent wrote
\* no code on the body it still has.
ClaimBase == IF had THEN rec ELSE [NoRec EXCEPT !.state = cur, !.body = body]

LetGo ==
    /\ Reading /\ cur # Blocked /\ Doing \in labels
    /\ LET key == IF aged THEN <<"hours", labeled[Doing]>> ELSE <<"body", body>>
       IN /\ aged \/ body # rec.body
          /\ rec.claim # key
          /\ Start("claim", Developer, cur, [ClaimBase EXCEPT !.claim = key])
    /\ UNCHANGED ended

SpendClaim ==
    /\ Reading /\ cur # Blocked /\ Doing \in labels /\ aged
    /\ Leave("blocked", Blocking(ClaimBase, cur))

\* Its state wakes a role; a claim on it has its pull request.
Waking == Reading /\ cur # Blocked /\ Wakes # None

\* A ready issue without its tests: to them, or once put back, left.
Retest ==
    /\ Waking /\ Wakes = Developer /\ TestsStates # {}
    /\ rec.retest = cur => rec.retestKept # labeled[cur]
    /\ IF rec.retest = cur
         THEN Leave("retestKept", [rec EXCEPT !.retestKept = labeled[cur]])
         ELSE Leave("retest", [LeftRecord EXCEPT !.retest = cur])

\* A bug its tests did not show: its reporter answered, or did not.
Repro ==
    /\ Waking /\ Wakes = Tester /\ Refine \in States
    /\ ~(rec.state = cur /\ rec.body # body)
    /\ \/ Leave("repro", LeftRecord)
       \/ Leave("blocked", Blocking(LeftRecord, cur))

\* A step due, on record r: past the cap, blocked; its next state full, it
\* waits, said once; else its role is woken.
Proceed(r) ==
    \/ /\ r.hops > MaxHops
       /\ Leave("capped", Blocking(r, cur))
    \/ /\ r.hops =< MaxHops
       /\ NextOf[cur] \in Limited /\ rec.waits # NextOf[cur]
       /\ Leave("waits", [rec EXCEPT !.waits = NextOf[cur]])
    \/ /\ r.hops =< MaxHops
       /\ IF Wakes = Developer /\ NextOf[cur] # None
            THEN /\ Start("step", Wakes, cur, [r EXCEPT !.woke = labeled[NextOf[cur]]])
                 /\ ended' = FALSE
            ELSE Start("step", Wakes, cur, r) /\ UNCHANGED ended

\* Due: a state, a labelling, a body or a review the record does not hold.
Wake == Waking /\ Due /\ Proceed(NewRecord)

Failed == rec.kind # None

RetryHop ==
    /\ Waking /\ ~Due /\ had /\ Failed
    /\ \/ rec.errors[rec.kind] =< ErrorBudget /\ Proceed([rec EXCEPT !.hops = @ + 1])
       \/ Leave("blocked", Blocking(rec, cur))

\* Its last run on this input a machine error: run again, or, its tries or
\* its window spent, blocked.
Retry ==
    /\ Waking /\ ~Due /\ had /\ Failed
    /\ \/ rec.errors[rec.kind] =< ErrorBudget /\ Proceed(rec)
       \/ Leave("blocked", Blocking(rec, cur))

\* Its last run short of code: given it, or, said again, blocked.
GiveNeeds ==
    /\ Waking /\ ~Due /\ had /\ ~Failed /\ rec.needs > 0
    /\ IF rec.needs > 1 THEN Leave("blocked", Blocking(rec, cur)) ELSE Proceed(rec)

Acted == Waking /\ ~Due /\ had /\ ~Failed /\ rec.needs = 0

WakeUnspent == Acted /\ \E m \in Marks[cur] \ rec.marks : Proceed(rec)

\* Woken once more on its input, for a mark not spent on it yet.
WakeOnce ==
    /\ Acted
    /\ \E m \in Marks[cur] \ rec.marks : Proceed([rec EXCEPT !.marks = @ \cup {m}])

\* Nothing its role does can settle it: left unrefined, its tests refused.
GiveUp ==
    /\ Acted
    /\ cur = Refine \/ Wakes = Tester
    /\ Leave("blocked", Blocking(rec, cur))

\* Left free by the developer: its claim put on since the wake and let go,
\* a hop more; or an issue it held then ended.
Freed ==
    /\ Acted /\ Wakes = Developer /\ NextOf[cur] # None
    /\ IF labeled[NextOf[cur]] \notin {rec.woke, Never}
         THEN Proceed([rec EXCEPT !.hops = @ + 1])
         ELSE ended /\ Proceed(rec)

Decide == \/ Stale \/ SeeBlocked \/ Revisit \/ LetGo \/ SpendClaim \/ Retest \/ Repro
          \/ Wake \/ Retry \/ GiveNeeds \/ WakeOnce \/ GiveUp \/ Freed

-----------------------------------------------------------------------------
(* The role's run (runStateStep).                                          *)

\* A label put on is dated anew.  Dates are compared for equality alone, so
\* a new one is one nothing holds; the date of a label taken off is read of
\* the developer's claim alone (freed.go:43).
Remembered == {Doing} \cup {NextOf[s] : s \in {t \in States : Role[t] = Developer}}
DatesOf(r) == {r.labeled, r.kept, r.retestKept, r.woke} \cup (IF r.claim # <<>> THEN {r.claim[2]} ELSE {})
DatesHeld == {labeled[s] : s \in States} \cup DatesOf(rec)
                \cup (IF job # NoJob THEN DatesOf(job.rec) ELSE {})

Relabel(L) ==
    /\ Dates \ DatesHeld # {}
    /\ labels' = L
    /\ LET date == CHOOSE d \in Dates \ DatesHeld : TRUE
       IN labeled' = [s \in States |->
                         IF s \in L \ labels THEN date
                         ELSE IF s \in L \cup Remembered THEN labeled[s] ELSE Never]

\* A move to state s with every other state's label off (Config.Move).
MoveTo(s) == [to |-> s, off |-> States \ {s}, borne |-> FALSE]

\* The moves of the role that runs: reading a blocked issue again, the
\* product owner moves it out alone, to where it came from or to refine.
RoleMoves ==
    IF job.kind = "revisit"
      THEN {MoveTo(s) : s \in {job.rec.from, Refine} \ {None, Blocked}}
      ELSE Acts[job.role]

LabelsAfterAll(m) == {m.to}

\* The labels a move leaves.  It adds one and takes off those it names, or
\* of them those the run saw at its start: what was put on meanwhile stays.
LabelsAfter(m) == (labels \ (IF m.borne THEN m.off \cap job.saw ELSE m.off)) \cup {m.to}

\* The role moves the issue, or not, and writes its body, or not.
RoleActs ==
    /\ \E L \in {labels} \cup {LabelsAfter(m) : m \in RoleMoves} : Relabel(L)
    /\ \/ UNCHANGED <<body, writes>> /\ ask' = (ask /\ Blocked \notin labels' \ labels)
       \/ /\ writes < MaxWrites /\ writes' = writes + 1
          /\ \/ body' \in Bodies /\ UNCHANGED ask
             \/ /\ job.role = Developer /\ Blocked \in labels' \ labels
                /\ ask' = TRUE /\ UNCHANGED body
    /\ aged' = (aged /\ labels' = labels)

Running == job.phase = "run"

\* A step's record is compared with the one it was read with; a revisit's
\* is not kept in its step (revisit.go:149, 196).
SameInput ==
    /\ job.kind # "revisit"
    /\ rec.state = job.rec.state /\ rec.body = job.rec.body /\ rec.labeled = job.rec.labeled

Done(r) == [r EXCEPT !.errors = NoErrors, !.kind = None, !.needs = 0]

Ends(kind, r) == job' = [job EXCEPT !.phase = "write", !.kind = kind, !.rec = r]

\* A run that passed, or asked a person: its errors start again.  In
\* refine, the reviewer reads the spec the product owner left.
RunEnds ==
    /\ Running /\ RoleActs
    /\ Ends(job.kind, Done(job.rec))
    /\ \/ UNCHANGED spec
       \/ /\ job.role = Keeper /\ job.rec.state = Refine /\ Reviewer \in Routed
          /\ spec < MaxReviews /\ spec' = spec + 1
    /\ UNCHANGED <<talk, ended, rec, outside>>

RunFailsAnew ==
    /\ Running
    /\ \E k \in Kinds :
         Ends(job.kind, [Done(job.rec) EXCEPT !.errors = [NoErrors EXCEPT ![k] = 1], !.kind = k])
    /\ UNCHANGED <<issue, rec, outside, writes>>

\* A machine error moves nothing: its count is kept, by kind.
RunFails ==
    /\ Running
    /\ \E k \in Kinds :
         LET prev == IF SameInput THEN rec.errors ELSE NoErrors
         IN Ends(job.kind, [Done(job.rec) EXCEPT !.errors = [prev EXCEPT ![k] = @ + 1],
                                                  !.kind = k])
    /\ UNCHANGED <<issue, rec, outside, writes>>

\* A task too big for the context: no try mends it.
RunTooBig ==
    /\ Running
    /\ Ends("blocked", Blocking(Done(job.rec), job.from))
    /\ UNCHANGED <<issue, rec, outside, writes>>

StillThere == job.from # None /\ StateOf(labels') = job.from

\* The code it lacked named: run again in the same step, given it, while
\* the issue reads as in its state; said again, blocked.
RunNeeds ==
    /\ Running /\ RoleActs
    /\ UNCHANGED <<talk, spec, ended, rec>>
    /\ \/ /\ ~job.given /\ StillThere
          /\ job' = [job EXCEPT !.given = TRUE]
          /\ UNCHANGED outside
       \/ /\ ~job.given
          /\ IF StillThere
               THEN outside < MaxOutside /\ outside' = outside + 1 \* it did not read
               ELSE UNCHANGED outside
          /\ Ends(job.kind, [Done(job.rec) EXCEPT
                               !.needs = IF SameInput /\ rec.needs > 0 THEN 2 ELSE 1])
       \/ /\ job.given
          /\ Ends("blocked", Blocking(Done(job.rec), job.from))
          /\ UNCHANGED outside

-----------------------------------------------------------------------------
(* The record, and the line's own moves (writeState).                      *)

Writing == job.phase = "write"

\* Where the line's own write moves the issue: one of these, or no move.
Moves ==
    CASE job.kind \in {"blocked", "capped"} -> {{Blocked}}
      [] job.kind \in {"stale", "repro"}    -> {{Refine}}
      [] job.kind = "retest" -> {{t} : t \in {u \in States : NextOf[u] = job.from /\ Role[u] = Tester}}
      [] OTHER -> {labels}

WriteLate ==
    /\ Writing
    /\ \E L \in Moves : Relabel(L)
    /\ rec' = [job.rec EXCEPT !.body = body] /\ job' = NoJob
    /\ aged' = (aged /\ labels' = labels /\ job.kind \notin {"seen", "revisit", "blocked", "capped"})
    /\ ask' = (ask /\ job.kind \notin {"blocked", "capped"})
    /\ UNCHANGED <<body, talk, spec, ended, outside, writes>>

Write ==
    /\ Writing
    /\ \E L \in Moves : Relabel(L)
    /\ rec' = job.rec /\ job' = NoJob
    /\ aged' = (aged /\ labels' = labels /\ job.kind \notin {"seen", "revisit", "blocked", "capped"})
    /\ ask' = (ask /\ job.kind \notin {"blocked", "capped"})
    /\ UNCHANGED <<body, talk, spec, ended, outside, writes>>

-----------------------------------------------------------------------------
(* What happens outside the line: people, time, failures.                  *)

Outside == outside < MaxOutside /\ outside' = outside + 1

\* A person sets the states' labels, over whatever the line is doing.
PersonMoves ==
    /\ Outside
    /\ \E L \in PersonLabels \ {labels} : Relabel(L)
    /\ aged' = FALSE
    /\ UNCHANGED <<body, talk, spec, ended, ask, rec, job, writes>>

PersonEdits ==
    /\ Outside /\ body' \in Bodies \ {body}
    /\ UNCHANGED <<labels, labeled, talk, spec, aged, ended, ask, rec, job, writes>>

\* A comment, or an issue it waits on closed: news on a blocked one.
PersonWrites ==
    /\ Outside /\ talk' = talk + 1
    /\ UNCHANGED <<labels, labeled, body, spec, aged, ended, ask, rec, job, writes>>

TimePasses ==
    /\ Outside /\ ~aged /\ aged' = TRUE
    /\ UNCHANGED <<labels, labeled, body, talk, spec, ended, ask, rec, job, writes>>

OtherEnds ==
    /\ Outside /\ ~ended /\ ended' = TRUE
    /\ UNCHANGED <<labels, labeled, body, talk, spec, aged, ask, rec, job, writes>>

\* The job dies, its agent is out of reach, the forge refuses the record:
\* nothing is written, the record as it was.
Lost ==
    /\ Outside /\ job # NoJob /\ job' = NoJob
    /\ UNCHANGED <<issue, rec, writes>>

\* The forge takes the labels, and not the comment after them.
Torn ==
    /\ Outside /\ Writing
    /\ \E L \in Moves : L # labels /\ Relabel(L)
    /\ aged' = FALSE /\ job' = NoJob
    /\ UNCHANGED <<body, talk, spec, ended, ask, rec, writes>>

Line == Decide \/ RunEnds \/ RunFails \/ RunTooBig \/ RunNeeds \/ Write
Environment == PersonMoves \/ PersonEdits \/ PersonWrites \/ TimePasses \/ OtherEnds \/ Lost \/ Torn

Next == Line \/ Environment
Spec == Init /\ [][Next]_vars

\* A run ends, in an answer, an error or its time spent, and the reconciler
\* comes back every hour: the line's steps are not put off for ever.
\* Nothing is asked of people, of time or of failures.
FairSpec == Spec /\ WF_vars(Line)

TypeOK ==
    /\ labels \subseteq States /\ labeled \in [States -> AllDates]
    /\ body \in Bodies /\ talk \in Nat /\ spec \in Nat
    /\ aged \in BOOLEAN /\ ended \in BOOLEAN /\ ask \in BOOLEAN
    /\ rec \in Records /\ job \in Jobs \cup {NoJob}
    /\ outside \in Nat /\ writes \in Nat

-----------------------------------------------------------------------------
\* `reached` only moves forward (ADR-0059, "Progress starts the hop count
\* again"): no record the line writes forgets the furthest state reached or
\* goes back on it, by whatever way the issue left its states.
ReachedForward ==
    [][rec'.reached # rec.reached =>
         rec.reached = None \/ Ahead(rec.reached, rec'.reached)]_rec

\* A hop is a state step (routing.md, max-hops; ADR-0063, I3): the count
\* goes up by one at most, and for a state entered, were it to leave it
\* Blocked at once, or a claim let go alone.
\* A retry, a labelling anew, an edit, a review, a mark spent add none.
HopEarned ==
    [][rec'.hops > rec.hops =>
         /\ rec'.hops = rec.hops + 1
         /\ rec'.state # rec.state \/ rec.state = Blocked \/ rec'.woke # rec.woke]_rec

\* The count goes down in two cases alone: out of Blocked, and on progress.
\* A move of the line's own, a wait or a crash between two writes loses none.
CountKept ==
    [][rec'.hops < rec.hops =>
         rec.state = Blocked \/ Ahead(rec.reached, rec'.reached)]_rec

\* A block put on while a role runs stands: neither the product owner's
\* nor the tester's moves, nor a claim, take it off, and with StateOf's
\* order the issue is Blocked whatever they add.  Three moves of every label
\* do: the reading of that very block, the developer sending an issue back
\* to refine, and the line's own moves by rule.
BlockStands ==
    [][(Blocked \in labels /\ Blocked \notin labels' /\ outside' = outside) =>
         \/ job.kind \in {"revisit", "stale", "repro", "retest"}
         \/ job.role = Developer /\ labels' = {Refine}]_labels

\* What that asks of the table and of the roles' moves: Blocked its first
\* row, as routing.default.yaml lists it; and of a role's moves, that one
\* alone takes Blocked off by its name.
BlockedFirst == \A s \in States : Pos[Blocked] =< Pos[s]
ActsSpare ==
    \A r \in DOMAIN Acts : \A m \in Acts[r] :
        Blocked \in m.off /\ ~m.borne => r = Developer /\ m = MoveTo(Refine)

\* A claim's state comes before those that wake a role, as the table listed:
\* no role of another state is woken on an issue the developer has claimed.
DoingFirst == \A s \in States : Role[s] # None => Pos[Doing] < Pos[s]

\* The issue is Blocked for the line too: an issue left there is seen so,
\* its record saying it, or people move it; a block torn between its labels
\* and its comment is mended by the next reading.
BlockedIsSeen == labels = {Blocked} ~> (rec.state = Blocked \/ labels # {Blocked})

\* The line comes to rest: people, time and failures quiet, no issue is
\* worked on for ever.  Its roles may send it back and forth, fail and be
\* run again, ask and be answered: the hops, the tries and the marks end it.
Settles == <>[](job = NoJob)
=============================================================================
