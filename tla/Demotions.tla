------------------------------ MODULE Demotions ------------------------------
(***************************************************************************)
(* A revert demotes (engine/demote.go): each run of follow, before it      *)
(* weighs workline's own merge requests, reads the reverts that landed on  *)
(* the base past the App's mark, opens an issue for each that undoes what  *)
(* it merged with no person's yes, reads which issues hold, and marks the  *)
(* base as read, with those.  A person who may push and merge lifts a      *)
(* demotion by closing its issue; a bot's close lifts nothing.             *)
(*                                                                         *)
(* The base is the sequence of what landed; a kind is a model value.  Runs *)
(* come one at a time, and may end after any call.                         *)
(***************************************************************************)
EXTENDS Integers, Sequences, FiniteSets, FiniteSetsExt, SequencesExt

CONSTANTS Kinds,     \* the kinds that merge with no person's yes
          Every,     \* kindAll: every kind
          MarkRoom,  \* the issues a mark's 140 characters name
          Window,    \* revertWindow: how far down the base a mark is looked for
          MaxBase,   \* bound: what lands on the base
          MaxTurns,  \* bound: what people and bots do to the issues
          MaxFaults  \* bound: calls that fail

ASSUME DemotionAssumption ==
    /\ Every \notin Kinds
    /\ {MarkRoom, Window, MaxBase, MaxTurns, MaxFaults} \subseteq Nat /\ Window > 0

Held == Kinds \cup {Every}
VARIABLES base,   \* what landed: [what, kind], a merge alone, a revert, else
          mark,   \* the App's mark on each commit of it: the issues held
          issues, \* the demotions' issues: [kind, of, lost, app, open, by]
          job,    \* the run of follow
          turns, faults,
          lifted  \* history: the issues closed by who may push and merge

vars == <<base, mark, issues, job, turns, faults, lifted>>

Landed == [what : {"merge", "revert", "other"}, kind : Held]
Idle == [at |-> "idle"]
Unmarked == {0}   \* no mark on this commit

\* A base with a merge made alone or none, read or not.
Init ==
    /\ \E k \in Held : base = <<[what |-> IF k = Every THEN "other" ELSE "merge", kind |-> k]>>
    /\ mark \in {<<Unmarked>>, <<{}>>}
    /\ issues = <<>>
    /\ job = Idle
    /\ turns = 0 /\ faults = 0
    /\ lifted = {}

\* What one call that is refused leaves unread.
OneAtMost(S) == {{}} \cup {{x} : x \in S}
Fault == faults < MaxFaults /\ faults' = faults + 1

-----------------------------------------------------------------------------
(* The reading of the base.                                                *)

Chain(tip) == {c \in 1..tip : c > tip - Window}
Marked(tip, unread) == {c \in Chain(tip) \ unread : mark[c] # Unmarked}

\* What is read past from: a revert, and the kind it demotes.  One of no
\* merge it finds, or whose merge's comments are refused, demotes every kind.
RevertsIn(commits, unread) ==
    {[kind |-> IF c \in unread THEN Every ELSE base[c].kind, of |-> c, lost |-> FALSE] :
        c \in {c \in commits : base[c].what = "revert"}}

MergedAlone(tip) == \E c \in 1..tip : base[c].what = "merge"
Lost(tip) == [kind |-> Every, of |-> tip, lost |-> TRUE]

\* No mark: which reverts were read is not known, unless none can undo a
\* merge of its own, a first install.
Fresh(tip, from, alone, unread) ==
    IF from # {} THEN RevertsIn((Max(from) + 1)..tip, unread)
    ELSE IF alone THEN {Lost(tip)} \cup RevertsIn(Chain(tip), unread)
    ELSE {}

Others == <<base, turns, lifted>>

Read ==
    /\ job = Idle
    /\ \E unread \in OneAtMost(Chain(Len(base))) :
          LET tip == Len(base)
              from == Marked(tip, unread)
              alone == MergedAlone(tip) \/ unread # {} IN
          /\ unread # {} => Fault
          /\ unread = {} => UNCHANGED faults
          /\ job' = [at |-> "demote", tip |-> tip, fresh |-> Fresh(tip, from, alone, unread),
                     ids |-> IF from # {} THEN mark[Max(from)] ELSE {},
                     held |-> {}, unrecorded |-> FALSE]
    /\ UNCHANGED <<mark, issues, Others>>

-----------------------------------------------------------------------------
(* Each demotion's issue opened, or found open by its title.               *)

Says(i, d) == issues[i].kind = d.kind /\ issues[i].of = d.of /\ issues[i].lost = d.lost
Titled(d) == {i \in DOMAIN issues : issues[i].open /\ Says(i, d)}
Opened(d, app) ==
    Append(issues, [kind |-> d.kind, of |-> d.of, lost |-> d.lost, app |-> app,
                    open |-> TRUE, by |-> "nobody"])

\* A mark lost first, then the newest.
First(fresh) ==
    {d \in fresh : \A e \in fresh : e = d \/ e.of < d.of \/ (e.of = d.of /\ d.lost)}
Left(d) == [job EXCEPT !.fresh = @ \ {d}]
RecordedNext(d, id) == [Left(d) EXCEPT !.ids = @ \cup {id + 1}]
Recorded(d, id) == [Left(d) EXCEPT !.ids = @ \cup {id}]
Unrecorded(d) == [Left(d) EXCEPT !.unrecorded = TRUE, !.held = @ \cup {d.kind}]

Demote ==
    /\ job.at = "demote"
    /\ \E d \in First(job.fresh) :
          \/ \E id \in Titled(d) :
                /\ job' = IF issues[id].app THEN Recorded(d, id) ELSE Unrecorded(d)
                /\ UNCHANGED <<issues, faults>>
          \/ /\ Titled(d) = {}
             /\ issues' = Opened(d, TRUE)
             /\ job' = Recorded(d, Len(issues) + 1)
             /\ UNCHANGED faults
          \* refused, or opened and not read back
          \/ /\ Fault /\ job' = Unrecorded(d)
             /\ issues' = issues \/ (Titled(d) = {} /\ issues' = Opened(d, TRUE))
    /\ UNCHANGED <<mark, Others>>

-----------------------------------------------------------------------------
(* What holds, then the base marked as read.                               *)

Own(i) == issues[i].app
\* Open, or closed by a hand that may not lift it.
HoldsOpen(i) == Own(i) /\ issues[i].open
HoldsForEver(i) == Own(i)
Holds(i) == Own(i) /\ (issues[i].open \/ issues[i].by # "writer")

Hold ==
    /\ job.at = "demote" /\ job.fresh = {}
    /\ \E unread \in OneAtMost(DOMAIN issues) :
          LET ids == job.ids \cup {i \in DOMAIN issues : issues[i].open /\ Own(i)}
              kept == {i \in ids : Holds(i) \/ i \in unread} IN
          /\ unread \subseteq ids
          /\ unread # {} => Fault
          /\ unread = {} => UNCHANGED faults
          /\ job' = [job EXCEPT !.at = "mark", !.ids = kept,
                        !.held = @ \cup {IF i \in unread THEN Every ELSE issues[i].kind : i \in kept}]
    /\ UNCHANGED <<mark, issues, Others>>

\* The mark's text is cut: the first issues alone.
Cut(ids) == {i \in ids : Cardinality({j \in ids : j < i}) < MarkRoom}

\* A demotion in no issue of its own: read again by the next run.
Mark ==
    /\ job.at = "mark"
    /\ \/ /\ mark' = IF job.unrecorded THEN mark ELSE [mark EXCEPT ![job.tip] = Cut(job.ids)]
          /\ UNCHANGED faults
       \/ Fault /\ UNCHANGED mark
    /\ job' = [job EXCEPT !.at = "weigh"]
    /\ UNCHANGED <<issues, Others>>

\* weigh goes by job.held, of each of workline's own.
Weigh ==
    /\ job.at = "weigh"
    /\ job' = Idle
    /\ UNCHANGED <<mark, issues, faults, Others>>

Dies ==
    /\ job # Idle /\ Fault
    /\ job' = Idle
    /\ UNCHANGED <<mark, issues, Others>>

-----------------------------------------------------------------------------
(* People, bots, and what lands on the base.                               *)

Turn == turns < MaxTurns /\ turns' = turns + 1

\* A merge made alone, a revert of one, or of nothing that can be told, or
\* another commit.
Lands(what, kind) ==
    /\ Len(base) < MaxBase
    /\ what = "merge" => kind \in Kinds
    /\ what = "other" => kind = Every
    /\ what = "revert" => kind = Every \/ \E c \in DOMAIN base : base[c] = [what |-> "merge", kind |-> kind]
    /\ base' = Append(base, [what |-> what, kind |-> kind])
    /\ mark' = Append(mark, Unmarked)
    /\ UNCHANGED <<issues, job, turns, faults, lifted>>

Closes(i, by) ==
    /\ Turn /\ issues[i].open
    /\ issues' = [issues EXCEPT ![i].open = FALSE, ![i].by = by]
    /\ lifted' = IF by = "writer" /\ Own(i) THEN lifted \cup {i} ELSE lifted
    /\ UNCHANGED <<base, mark, job, faults>>

Reopens(i) ==
    /\ Turn /\ ~issues[i].open
    /\ issues' = [issues EXCEPT ![i].open = TRUE]
    /\ UNCHANGED <<base, mark, job, faults, lifted>>

\* Someone else opens an issue of a demotion's title.
OpensTheirs(c) ==
    /\ Turn /\ base[c].what = "revert" /\ \A i \in DOMAIN issues : Own(i)
    /\ issues' = Opened([kind |-> base[c].kind, of |-> c, lost |-> FALSE], FALSE)
    /\ UNCHANGED <<base, mark, job, faults, lifted>>

Run == Read \/ Demote \/ Hold \/ Mark \/ Weigh
People ==
    \/ \E l \in Landed : Lands(l.what, l.kind)
    \/ \E i \in DOMAIN issues : Reopens(i) \/ \E by \in {"writer", "bot"} : Closes(i, by)
    \/ \E c \in DOMAIN base : OpensTheirs(c)

Next == Run \/ Dies \/ People

\* follow runs hourly, and at once when a demotion's issue is closed.
Spec == Init /\ [][Next]_vars /\ WF_vars(Run)

-----------------------------------------------------------------------------
\* Types; each record names issues there are, each issue what has landed.
TypeOK ==
    /\ base \in Seq(Landed) /\ mark \in Seq(SUBSET Nat) /\ Len(mark) = Len(base)
    /\ \A c \in DOMAIN mark : mark[c] = Unmarked \/ mark[c] \subseteq DOMAIN issues
    /\ issues \in Seq([kind : Held, of : DOMAIN base, lost : BOOLEAN, app : BOOLEAN,
                       open : BOOLEAN, by : {"nobody", "writer", "bot"}])
    /\ lifted \subseteq DOMAIN issues
    /\ job # Idle => job.held \subseteq Held /\ job.ids \subseteq DOMAIN issues

Undoes(c) == base[c].what = "revert" /\ \E m \in 1..c : base[m].what = "merge"
Of(i, c) == issues[i].of = c \/ (issues[i].lost /\ c <= issues[i].of)
Lifted(c) == \E i \in lifted : Of(i, c)

\* Whatever runs died, calls were refused, marks were lost and bots closed,
\* a run weighs workline's own merge requests with each revert on the base
\* it read held, its kind or every kind, until a person who may push and
\* merge closed the issue that says so (demotions, holds).
RevertHolds ==
    job.at = "weigh" =>
        \A c \in 1..job.tip :
            Undoes(c) /\ ~Lifted(c) => {base[c].kind, Every} \cap job.held # {}

Restored == \A i \in DOMAIN issues : ~issues[i].open /\ (Own(i) => issues[i].by = "writer")

\* Every issue closed for good by such a person, workline's own merge with
\* no person's yes again: no mark, and no reading anew, holds them for ever.
RestoredMerges == <>[]Restored => []<>(job.at = "weigh" /\ job.held = {})

SameRevert(i, j) == issues'[i].of = issues[j].of /\ issues'[i].lost = issues[j].lost

\* A revert is read once: no issue is opened for one a person lifted
\* already.  It fails: a run that ends between the issue and the mark, the
\* issue closed then, reads the revert anew.
ReadOnce == [][\A i \in DOMAIN issues' \ DOMAIN issues, j \in lifted : Own(i)' => ~SameRevert(i, j)]_vars
=============================================================================
