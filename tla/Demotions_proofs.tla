-------------------------- MODULE Demotions_proofs --------------------------
(***************************************************************************)
(* For any kinds, window, and number of commits, of issues and of runs     *)
(* that die: a revert demotes until a person lifts it.                     *)
(*                                                                         *)
(* The inductive invariant says where each revert read is kept: named by   *)
(* the mark a run starts from, in an issue the run found or opened, still  *)
(* to come, or with no issue of its own and held by the run.  A mark's     *)
(* text is cut at MarkRoom issues: that none was cut, or that bots close   *)
(* none of the App's issues, is what the theorem assumes of the runs.      *)
(***************************************************************************)
EXTENDS Demotions, WellFoundedInduction, TLAPS

-----------------------------------------------------------------------------
(* The newest mark.                                                        *)

LtRel == {ss \in Nat \X Nat : ss[1] < ss[2]}

LEMMA LtFounded == IsWellFoundedOn(LtRel, Nat)
  BY NatLessThanWellFounded, Zenon DEF OpToRel, LtRel

LEMMA LeastOf ==
    ASSUME NEW S \in SUBSET Nat, S # {}
    PROVE  \E m \in S : \A n \in S : m =< n
<1>1. PICK m \in S : \A n \in S : ~ (<<n, m>> \in LtRel)
  BY LtFounded, WFMin
<1>2. ASSUME NEW n \in S, n < m PROVE <<n, m>> \in LtRel
  <2>1. <<n, m>> \in Nat \X Nat
    OBVIOUS
  <2>2. <<n, m>>[1] = n /\ <<n, m>>[2] = m
    OBVIOUS
  <2> QED BY <1>2, <2>1, <2>2, Zenon DEF LtRel
<1>3. \A n \in S : ~ (n < m)
  BY <1>1, <1>2, Zenon
<1> QED BY <1>3

LEMMA MaxIsIn ==
    ASSUME NEW tip \in Nat, NEW S \in SUBSET (1..tip), S # {}
    PROVE  Max(S) \in S
<1>. DEFINE D == {n \in Nat : tip - n \in S}
<1>1. PICK x \in S : TRUE
  OBVIOUS
<1>2. x \in 1..tip /\ tip - x \in Nat /\ tip - (tip - x) = x
  OBVIOUS
<1>3. tip - x \in D /\ D \in SUBSET Nat
  BY <1>1, <1>2
<1>. HIDE DEF D
<1>4. PICK d \in D : \A n \in D : d =< n
  BY <1>3, LeastOf
<1>5. d \in Nat /\ tip - d \in S
  BY <1>4 DEF D
<1>6. \A y \in S : tip - d >= y
  <2>. TAKE y \in S
  <2>1. y \in 1..tip /\ tip - y \in Nat /\ tip - (tip - y) = y
    OBVIOUS
  <2>2. tip - y \in D
    BY <2>1 DEF D
  <2>. QED  BY <1>4, <1>5, <2>1, <2>2
<1>. QED  BY <1>5, <1>6 DEF Max

-----------------------------------------------------------------------------
(* Types.                                                                  *)

Demand == [kind : Held, of : DOMAIN base, lost : BOOLEAN]
Jobs == [at : {"demote", "mark", "weigh"}, tip : DOMAIN base, fresh : SUBSET Demand,
         ids : SUBSET DOMAIN issues, held : SUBSET Held, unrecorded : BOOLEAN]

Typed ==
    /\ TypeOK
    /\ base # <<>>
    /\ job = Idle \/ job \in Jobs

Issue == [kind : Held, of : DOMAIN base, lost : BOOLEAN, app : BOOLEAN,
          open : BOOLEAN, by : {"nobody", "writer", "bot"}]

LEMMA FreshTyped ==
    ASSUME Typed
    PROVE  \A tip \in DOMAIN base : \A from \in SUBSET (1..tip), alone \in BOOLEAN, unread \in SUBSET Nat :
               Fresh(tip, from, alone, unread) \subseteq Demand
<1>. TAKE tip \in DOMAIN base
<1>. TAKE from \in SUBSET (1..tip), alone \in BOOLEAN, unread \in SUBSET Nat
<1>1. base \in Seq(Landed) /\ DOMAIN base = 1..Len(base) /\ Len(base) \in Nat
  BY DEF Typed, TypeOK
<1>2. ASSUME NEW c \in 1..tip PROVE c \in DOMAIN base /\ base[c] \in Landed /\ base[c].kind \in Held
  <2>1. c \in 1..Len(base)
    BY <1>1
  <2>2. base[c] \in Landed
    BY <1>1, <2>1
  <2>. QED  BY <1>1, <2>1, <2>2 DEF Landed
<1>7. ASSUME NEW C, C \subseteq 1..tip, NEW d \in RevertsIn(C, unread) PROVE d \in Demand
  <2>1. PICK c \in C :
           d = [kind |-> IF c \in unread THEN Every ELSE base[c].kind, of |-> c, lost |-> FALSE]
    BY DEF RevertsIn
  <2>2. (IF c \in unread THEN Every ELSE base[c].kind) \in Held
    BY <1>2, <1>7 DEF Held
  <2>. QED  BY <1>2, <1>7, <2>1, <2>2 DEF Demand
<1>3. Chain(tip) \subseteq 1..tip
  BY DEF Chain
<1>4. Lost(tip) \in Demand
  BY DEF Lost, Demand, Held
<1>5. CASE from # {}
  <2>1. tip \in Nat
    BY <1>1
  <2>2. Max(from) \in 1..tip
    BY <1>5, <2>1, MaxIsIn
  <2>3. (Max(from) + 1)..tip \subseteq 1..tip
    BY <2>1, <2>2
  <2>. QED  BY <1>5, <1>7, <2>3 DEF Fresh
<1>6. CASE from = {}
  BY <1>3, <1>4, <1>6, <1>7 DEF Fresh
<1>. QED  BY <1>5, <1>6

\* The issues once one is opened for d: those there were, and it.
LEMMA OpenedDoes ==
    ASSUME Typed, NEW d, d \in Demand, NEW app \in BOOLEAN, issues' = Opened(d, app), base' = base
    PROVE  /\ issues' \in Seq(Issue)
           /\ DOMAIN issues' = DOMAIN issues \cup {Len(issues) + 1}
           /\ DOMAIN issues = 1..Len(issues) /\ Len(issues) \in Nat
           /\ \A i \in DOMAIN issues : issues'[i] = issues[i]
           /\ issues'[Len(issues) + 1] =
                [kind |-> d.kind, of |-> d.of, lost |-> d.lost, app |-> app, open |-> TRUE, by |-> "nobody"]
<1>1. issues \in Seq(Issue)
  BY DEF Typed, TypeOK, Issue
<1>2. [kind |-> d.kind, of |-> d.of, lost |-> d.lost, app |-> app, open |-> TRUE, by |-> "nobody"] \in Issue
  BY DEF Demand, Issue
<1>. QED  BY <1>1, <1>2 DEF Opened

\* A job with some of its fields set is a job.
LEMMA JobSet ==
    ASSUME NEW j, j \in Jobs, NEW d, NEW I, I \subseteq DOMAIN issues, NEW H \in SUBSET Held,
           NEW a \in {"demote", "mark", "weigh"}
    PROVE  /\ [j EXCEPT !.at = a] \in Jobs
           /\ [j EXCEPT !.fresh = @ \ {d}] \in Jobs
           /\ [j EXCEPT !.fresh = @ \ {d}, !.ids = I] \in Jobs
           /\ [j EXCEPT !.fresh = @ \ {d}, !.unrecorded = TRUE, !.held = H] \in Jobs
           /\ [j EXCEPT !.at = a, !.ids = I, !.held = H] \in Jobs
  BY DEF Jobs

\* A step of the run's own.
LEMMA RunTyped ==
    ASSUME Typed, Run
    PROVE  Typed'
<1>. USE DEF Others
<1>1. base \in Seq(Landed) /\ DOMAIN base = 1..Len(base) /\ Len(base) \in Nat /\ Len(base) \in DOMAIN base
  BY DEF Typed, TypeOK
<1>2. mark \in Seq(SUBSET Nat) /\ Len(mark) = Len(base) /\ DOMAIN mark = DOMAIN base
  BY <1>1 DEF Typed, TypeOK
<1>3. issues \in Seq(Issue) /\ DOMAIN issues = 1..Len(issues) /\ Len(issues) \in Nat
  BY DEF Typed, TypeOK, Issue
<1>4. CASE Read
  <2>. USE <1>4 DEF Read
  <2>1. UNCHANGED <<base, mark, issues, lifted>>
    OBVIOUS
  <2>2. job' \in Jobs
    <3>1. PICK unread \in OneAtMost(Chain(Len(base))) :
             job' = [at |-> "demote", tip |-> Len(base),
                     fresh |-> Fresh(Len(base), Marked(Len(base), unread),
                                     MergedAlone(Len(base)) \/ unread # {}, unread),
                     ids |-> IF Marked(Len(base), unread) # {} THEN mark[Max(Marked(Len(base), unread))] ELSE {},
                     held |-> {}, unrecorded |-> FALSE]
      BY Zenon
    <3>. DEFINE from == Marked(Len(base), unread)
    <3>2. from \in SUBSET (1..Len(base)) /\ \A m \in from : mark[m] # Unmarked
      BY DEF Marked, Chain
    <3>3. unread \in SUBSET Nat
      BY <1>1 DEF OneAtMost, Chain
    <3>4. (MergedAlone(Len(base)) \/ unread # {}) \in BOOLEAN
      BY DEF MergedAlone
    <3>5. ASSUME from # {} PROVE mark[Max(from)] \subseteq DOMAIN issues
      <4>1. Max(from) \in from
        BY <1>1, <3>2, <3>5, MaxIsIn
      <4>. QED  BY <1>1, <1>2, <3>2, <4>1 DEF Typed, TypeOK
    <3>6. Fresh(Len(base), from, MergedAlone(Len(base)) \/ unread # {}, unread) \subseteq Demand
      BY <1>1, <3>2, <3>3, <3>4, FreshTyped
    <3>. HIDE DEF from
    <3>. QED  BY <1>1, <3>1, <3>5, <3>6 DEF Jobs, from
  <2>. QED  BY <2>1, <2>2 DEF Typed, TypeOK, Jobs, Demand
<1>5. CASE Demote
  <2>. USE <1>5 DEF Demote
  <2>1. UNCHANGED <<base, mark, lifted>> /\ job \in Jobs
    BY DEF Typed, Idle
  <2>2. PICK d \in First(job.fresh) :
          \/ \E id \in Titled(d) :
                /\ job' = IF issues[id].app THEN Recorded(d, id) ELSE Unrecorded(d)
                /\ UNCHANGED issues
          \/ issues' = Opened(d, TRUE) /\ job' = Recorded(d, Len(issues) + 1)
          \/ /\ job' = Unrecorded(d)
             /\ issues' = issues \/ issues' = Opened(d, TRUE)
    BY Zenon
  <2>3. d \in Demand /\ d.kind \in Held
    BY <2>1 DEF First, Jobs, Demand
  <2>4. ASSUME issues' = Opened(d, TRUE)
        PROVE  /\ issues' \in Seq(Issue) /\ DOMAIN issues \subseteq DOMAIN issues'
               /\ Len(issues) + 1 \in DOMAIN issues'
    BY <2>1, <2>3, <2>4, OpenedDoes
  <2>5. issues' \in Seq(Issue) /\ DOMAIN issues \subseteq DOMAIN issues'
    BY <1>3, <2>2, <2>4
  <2>6. job' \in Jobs'
    <3>1. Unrecorded(d) \in Jobs'
      BY <2>1, <2>3, <2>5 DEF Unrecorded, Left, Jobs, Demand
    <3>2. ASSUME NEW id \in Nat, id \in DOMAIN issues' PROVE Recorded(d, id) \in Jobs'
      BY <2>1, <2>5, <3>2 DEF Recorded, Left, Jobs, Demand
    <3>3. \A id \in Titled(d) : id \in Nat /\ id \in DOMAIN issues'
      BY <1>3, <2>5 DEF Titled
    <3>4. CASE \E id \in Titled(d) : job' = IF issues[id].app THEN Recorded(d, id) ELSE Unrecorded(d)
      BY <3>1, <3>2, <3>3, <3>4
    <3>5. CASE issues' = Opened(d, TRUE) /\ job' = Recorded(d, Len(issues) + 1)
      <4>1. Len(issues) + 1 \in Nat /\ Len(issues) + 1 \in DOMAIN issues'
        <5>1. Len(issues) + 1 \in DOMAIN issues'
          BY <2>4, <3>5, Zenon
        <5>. QED  BY <1>3, <5>1
      <4>2. Recorded(d, Len(issues) + 1) \in Jobs'
        BY <3>2, <4>1, Zenon
      <4>. QED  BY <3>5, <4>2
    <3>. QED  BY <2>2, <3>1, <3>4, <3>5
  <2>. QED  BY <2>1, <2>5, <2>6 DEF Typed, TypeOK, Issue, Jobs, Demand
<1>6. CASE Hold
  <2>. USE <1>6 DEF Hold
  <2>1. UNCHANGED <<base, mark, issues, lifted>> /\ job \in Jobs
    BY DEF Typed, Idle
  <2>2. PICK I \in SUBSET DOMAIN issues, H \in SUBSET Held :
           job' = [job EXCEPT !.at = "mark", !.ids = I, !.held = H]
    <3>1. PICK unread \in OneAtMost(DOMAIN issues) :
            LET ids == job.ids \cup {i \in DOMAIN issues : issues[i].open /\ Own(i)}
                kept == {i \in ids : Holds(i) \/ i \in unread} IN
            job' = [job EXCEPT !.at = "mark", !.ids = kept,
                      !.held = @ \cup {IF i \in unread THEN Every ELSE issues[i].kind : i \in kept}]
      BY Zenon
    <3>. DEFINE ids == job.ids \cup {i \in DOMAIN issues : issues[i].open /\ Own(i)}
                kept == {i \in ids : Holds(i) \/ i \in unread}
                H == job.held \cup {IF i \in unread THEN Every ELSE issues[i].kind : i \in kept}
    <3>2. kept \in SUBSET DOMAIN issues
      BY <2>1 DEF Jobs
    <3>3. \A i \in DOMAIN issues : issues[i].kind \in Held
      <4>1. \A i \in DOMAIN issues : issues[i] \in Issue
        BY <1>3
      <4>. QED  BY <4>1 DEF Issue
    <3>4. H \in SUBSET Held
      BY <2>1, <3>2, <3>3 DEF Jobs, Held
    <3>5. job' = [job EXCEPT !.at = "mark", !.ids = kept, !.held = H]
      BY <3>1, <2>1 DEF Jobs
    <3>. QED  BY <3>2, <3>4, <3>5
  <2>3. job' \in Jobs
    BY <2>1, <2>2, JobSet
  <2>. QED  BY <2>1, <2>3 DEF Typed, TypeOK, Issue, Jobs, Demand
<1>7. CASE Mark
  <2>. USE <1>7 DEF Mark
  <2>1. UNCHANGED <<base, issues, lifted>> /\ job \in Jobs
    BY DEF Typed, Idle
  <2>2. job' \in Jobs
    BY <2>1 DEF Jobs
  <2>3. /\ mark' \in Seq(SUBSET Nat) /\ Len(mark') = Len(base)
        /\ \A c \in DOMAIN mark' : mark'[c] = Unmarked \/ mark'[c] \subseteq DOMAIN issues
    <3>1. CASE mark' = mark
      BY <1>2, <3>1 DEF Typed, TypeOK
    <3>2. CASE mark' = [mark EXCEPT ![job.tip] = Cut(job.ids)]
      <4>1. Cut(job.ids) \subseteq DOMAIN issues /\ Cut(job.ids) \in SUBSET Nat
        BY <1>3, <2>1 DEF Cut, Jobs
      <4>2. mark' \in Seq(SUBSET Nat) /\ Len(mark') = Len(base) /\ DOMAIN mark' = DOMAIN mark
        <5>1. mark' \in [1..Len(mark) -> SUBSET Nat]
          <6>1. mark \in [1..Len(mark) -> SUBSET Nat]
            BY <1>2
          <6>. QED  BY <3>2, <4>1, <6>1
        <5>. QED  BY <1>1, <1>2, <5>1
      <4>3. \A c \in DOMAIN mark : mark'[c] = mark[c] \/ mark'[c] = Cut(job.ids)
        BY <1>2, <3>2
      <4>. QED  BY <4>1, <4>2, <4>3 DEF Typed, TypeOK
    <3>. QED  BY <3>1, <3>2
  <2>. QED  BY <1>1, <2>1, <2>2, <2>3 DEF Typed, TypeOK, Issue, Jobs, Demand
<1>8. CASE Weigh
  BY <1>8 DEF Weigh, Typed, TypeOK, Jobs, Demand
<1>. QED  BY <1>4, <1>5, <1>6, <1>7, <1>8 DEF Run

\* What lands has a commit more on the base, not marked.
LEMMA LandsDoes ==
    ASSUME Typed, NEW l \in Landed, Lands(l.what, l.kind)
    PROVE  /\ base' \in Seq(Landed) /\ mark' \in Seq(SUBSET Nat) /\ Len(mark') = Len(base')
           /\ base' # <<>>
           /\ DOMAIN base = 1..Len(base) /\ Len(base) \in Nat /\ DOMAIN mark = DOMAIN base
           /\ DOMAIN base' = DOMAIN base \cup {Len(base) + 1} /\ DOMAIN mark' = DOMAIN base'
           /\ \A c \in DOMAIN base : base'[c] = base[c] /\ mark'[c] = mark[c]
           /\ mark'[Len(base) + 1] = Unmarked
<1>1. base \in Seq(Landed) /\ mark \in Seq(SUBSET Nat) /\ Len(mark) = Len(base)
  BY DEF Typed, TypeOK
<1>2. base' = Append(base, l) /\ mark' = Append(mark, Unmarked)
  BY DEF Lands, Landed
<1>3. Unmarked \in SUBSET Nat
  BY DEF Unmarked
<1>. QED  BY <1>1, <1>2, <1>3

LEMMA PeopleTyped ==
    ASSUME Typed, People
    PROVE  Typed'
<1>1. base \in Seq(Landed) /\ DOMAIN base = 1..Len(base) /\ Len(base) \in Nat
  BY DEF Typed, TypeOK
<1>2. issues \in Seq(Issue) /\ DOMAIN issues = 1..Len(issues) /\ Len(issues) \in Nat
  BY DEF Typed, TypeOK, Issue
<1>3. ASSUME NEW l \in Landed, Lands(l.what, l.kind) PROVE Typed'
  <2>1. UNCHANGED <<issues, job, lifted>>
    BY <1>3 DEF Lands
  <2>2. DOMAIN base \subseteq DOMAIN base'
    BY <1>3, LandsDoes
  <2>3. issues \in Seq(Issue') /\ (job = Idle \/ job \in Jobs')
    <3>1. Issue \subseteq Issue'
      BY <2>2 DEF Issue
    <3>2. issues \in [1..Len(issues) -> Issue']
      BY <1>2, <3>1
    <3>3. job \in Jobs => job \in Jobs'
      BY <2>1, <2>2 DEF Jobs, Demand
    <3>. QED  BY <1>2, <3>2, <3>3 DEF Typed
  <2>4. \A c \in DOMAIN mark' : mark'[c] = Unmarked \/ mark'[c] \subseteq DOMAIN issues
    BY <1>3, LandsDoes DEF Typed, TypeOK
  <2>. QED  BY <1>3, <2>1, <2>3, <2>4, LandsDoes DEF Typed, TypeOK, Issue
<1>4. ASSUME issues' \in Seq(Issue), DOMAIN issues \subseteq DOMAIN issues',
             lifted' \subseteq DOMAIN issues', UNCHANGED <<base, mark, job>>
      PROVE  Typed'
  BY <1>4 DEF Typed, TypeOK, Issue, Jobs, Demand
<1>5. ASSUME NEW i \in DOMAIN issues, NEW by \in {"writer", "bot"}, Closes(i, by) PROVE Typed'
  <2>1. issues' = [issues EXCEPT ![i].open = FALSE, ![i].by = by]
    BY <1>5 DEF Closes
  <2>2. issues' \in [1..Len(issues) -> Issue]
    <3>1. issues \in [1..Len(issues) -> Issue]
      BY <1>2
    <3>. QED  BY <2>1, <3>1 DEF Issue
  <2>3. issues' \in Seq(Issue) /\ DOMAIN issues' = DOMAIN issues
    BY <1>2, <2>2
  <2>. QED  BY <1>2, <1>4, <1>5, <2>3 DEF Closes, Typed, TypeOK
<1>6. ASSUME NEW i \in DOMAIN issues, Reopens(i) PROVE Typed'
  <2>1. issues' = [issues EXCEPT ![i].open = TRUE]
    BY <1>6 DEF Reopens
  <2>2. issues' \in [1..Len(issues) -> Issue]
    <3>1. issues \in [1..Len(issues) -> Issue]
      BY <1>2
    <3>. QED  BY <2>1, <3>1 DEF Issue
  <2>3. issues' \in Seq(Issue) /\ DOMAIN issues' = DOMAIN issues
    BY <1>2, <2>2
  <2>. QED  BY <1>2, <1>4, <1>6, <2>3 DEF Reopens, Typed, TypeOK
<1>7. ASSUME NEW c \in DOMAIN base, OpensTheirs(c) PROVE Typed'
  <2>1. base[c] \in Landed
    BY <1>1
  <2>2. PICK d : d = [kind |-> base[c].kind, of |-> c, lost |-> FALSE]
    OBVIOUS
  <2>3. d \in Demand
    BY <2>1, <2>2 DEF Demand, Landed
  <2>4. issues' = Opened(d, FALSE) /\ base' = base
    BY <1>7, <2>2 DEF OpensTheirs
  <2>. QED  BY <1>4, <1>7, <2>3, <2>4, OpenedDoes DEF OpensTheirs, Typed, TypeOK
<1>. QED  BY <1>3, <1>5, <1>6, <1>7 DEF People

LEMMA TypedCorrect == Spec => []Typed
<1>1. ASSUME Init PROVE Typed
  <2>1. PICK k \in Held : base = <<[what |-> IF k = Every THEN "other" ELSE "merge", kind |-> k]>>
    BY <1>1 DEF Init
  <2>2. base \in Seq(Landed) /\ base # <<>> /\ Len(base) = 1
    BY <2>1 DEF Landed
  <2>3. mark \in Seq(SUBSET Nat) /\ Len(mark) = 1 /\ mark[1] \in {Unmarked, {}} /\ DOMAIN mark = {1}
    BY <1>1 DEF Init, Unmarked
  <2>. QED  BY <1>1, <2>2, <2>3 DEF Init, Typed, TypeOK, Issue
<1>2. ASSUME Typed, [Next]_vars PROVE Typed'
  <2>1. CASE UNCHANGED vars
    BY <1>2, <2>1 DEF vars, Typed, TypeOK, Jobs, Demand
  <2>2. CASE Dies
    BY <1>2, <2>2 DEF Dies, Others, Typed, TypeOK
  <2>. QED  BY <1>2, <2>1, <2>2, RunTyped, PeopleTyped DEF Next
<1>. QED  BY <1>1, <1>2, PTL DEF Spec

\* The demotions' records keep their types, and name issues there are
\* (demotions, demote.go).
THEOREM TypeCorrect == Spec => []TypeOK
<1>1. Typed => TypeOK
  BY DEF Typed
<1>. QED  BY <1>1, TypedCorrect, PTL

-----------------------------------------------------------------------------
(* Where a revert is kept.                                                 *)

Covers(i, c) == Own(i) /\ Of(i, c) /\ issues[i].kind \in {base[c].kind, Every}

\* An issue says it: one of I, or, all issues holding, one there is.
Kept(all, I, c) == \E i \in DOMAIN issues : (all \/ i \in I) /\ Covers(i, c)
HeldFor(c) == {base[c].kind, Every} \cap job.held # {}
Coming(c) ==
    \E d \in job.fresh : d.kind \in {base[c].kind, Every} /\ (d.of = c \/ (d.lost /\ c <= d.of))

Signed ==
    \A i \in DOMAIN issues :
        /\ Own(i) /\ issues[i].by = "writer" => i \in lifted
        /\ ~issues[i].open => issues[i].by # "nobody"
MarksHold(all) ==
    \A m \in DOMAIN mark : mark[m] # Unmarked =>
        \A c \in 1..m : Undoes(c) => Lifted(c) \/ Kept(all, mark[m], c)
DemoteHolds(all) ==
    job.at = "demote" => \A c \in 1..job.tip :
        Undoes(c) => \/ Lifted(c) \/ Kept(all, job.ids, c) \/ Coming(c)
                     \/ job.unrecorded /\ HeldFor(c)
MarkHolds(all) ==
    job.at = "mark" => \A c \in 1..job.tip :
        Undoes(c) => Lifted(c) \/ (HeldFor(c) /\ (Kept(all, job.ids, c) \/ job.unrecorded))

Inv(all) == Signed /\ MarksHold(all) /\ DemoteHolds(all) /\ MarkHolds(all) /\ RevertHolds

\* No mark's text is cut: it names each issue the run holds.
NoneCut == job.at = "mark" => Cut(job.ids) = job.ids
\* No bot closed an issue of the App's.
BotsQuiet == \A i \in DOMAIN issues : Own(i) => issues[i].by # "bot"

-----------------------------------------------------------------------------
(* What every step leaves: what landed, and what each issue says.          *)

SaysSame(i) ==
    /\ issues'[i].kind = issues[i].kind /\ issues'[i].of = issues[i].of
    /\ issues'[i].lost = issues[i].lost /\ issues'[i].app = issues[i].app
Grows ==
    /\ DOMAIN issues \subseteq DOMAIN issues' /\ \A i \in DOMAIN issues : SaysSame(i)
    /\ lifted \subseteq lifted'
    /\ DOMAIN base \subseteq DOMAIN base' /\ \A c \in DOMAIN base : base'[c] = base[c]

LEMMA NextGrows ==
    ASSUME Typed, [Next]_vars
    PROVE  Grows
<1>1. issues \in Seq(Issue) /\ DOMAIN issues = 1..Len(issues) /\ Len(issues) \in Nat
  BY DEF Typed, TypeOK, Issue
<1>2. CASE UNCHANGED <<issues, base, lifted>>
  BY <1>2 DEF Grows, SaysSame
<1>3. CASE Demote
  <2>1. PICK d \in First(job.fresh) : issues' = issues \/ issues' = Opened(d, TRUE)
    BY <1>3 DEF Demote
  <2>2. d \in Demand /\ UNCHANGED <<base, lifted>>
    BY <1>3, <2>1 DEF Demote, Others, First, Typed, Jobs, Idle
  <2>. QED  BY <1>1, <1>2, <2>1, <2>2, OpenedDoes DEF Grows, SaysSame
<1>4. CASE \E l \in Landed : Lands(l.what, l.kind)
  <2>1. UNCHANGED <<issues, lifted>>
    BY <1>4 DEF Lands
  <2>. QED  BY <1>4, <2>1, LandsDoes DEF Grows, SaysSame
<1>5. ASSUME NEW i \in DOMAIN issues, Reopens(i) \/ \E by \in {"writer", "bot"} : Closes(i, by)
      PROVE  Grows
  <2>1. \A k \in DOMAIN issues : issues[k] \in Issue
    BY <1>1
  <2>2. UNCHANGED base /\ lifted \subseteq lifted' /\ DOMAIN issues' = DOMAIN issues
    BY <1>5 DEF Reopens, Closes
  <2>3. \A k \in DOMAIN issues : SaysSame(k)
    BY <1>5, <2>1 DEF Reopens, Closes, SaysSame, Issue
  <2>. QED  BY <2>2, <2>3 DEF Grows
<1>6. CASE \E c \in DOMAIN base : OpensTheirs(c)
  <2>1. PICK c \in DOMAIN base : OpensTheirs(c)
    BY <1>6
  <2>2. base[c] \in Landed
    BY DEF Typed, TypeOK
  <2>3. PICK d : d = [kind |-> base[c].kind, of |-> c, lost |-> FALSE]
    OBVIOUS
  <2>4. d \in Demand /\ issues' = Opened(d, FALSE) /\ UNCHANGED <<base, lifted>>
    BY <2>1, <2>2, <2>3 DEF Demand, Landed, OpensTheirs
  <2>. QED  BY <1>1, <2>4, OpenedDoes DEF Grows, SaysSame
<1>. QED  BY <1>2, <1>3, <1>4, <1>5, <1>6
          DEF Next, Run, People, Read, Hold, Mark, Weigh, Dies, Others, vars

LEMMA GrowsKeeps ==
    ASSUME Typed, Grows, NEW c \in DOMAIN base
    PROVE  /\ Undoes(c)' => Undoes(c)
           /\ Lifted(c) => Lifted(c)'
           /\ \A i \in DOMAIN issues : Covers(i, c) => Covers(i, c)'
<1>1. DOMAIN base = 1..Len(base) /\ Len(base) \in Nat
  BY DEF Typed, TypeOK
<1>2. \A m \in 1..c : m \in DOMAIN base /\ base'[m] = base[m]
  BY <1>1 DEF Grows
<1>3. Undoes(c)' => Undoes(c)
  BY <1>2 DEF Undoes, Grows
<1>4. lifted \subseteq DOMAIN issues
  BY DEF Typed, TypeOK
<1>5. Lifted(c) => Lifted(c)'
  BY <1>4 DEF Lifted, Of, Grows, SaysSame
<1>6. \A i \in DOMAIN issues : Covers(i, c) => Covers(i, c)'
  BY DEF Covers, Own, Of, Grows, SaysSame
<1>. QED  BY <1>3, <1>5, <1>6

LEMMA SignedStep ==
    ASSUME Typed, Signed, [Next]_vars
    PROVE  Signed'
<1>1. issues \in Seq(Issue) /\ DOMAIN issues = 1..Len(issues) /\ Len(issues) \in Nat
  BY DEF Typed, TypeOK, Issue
<1>2. CASE UNCHANGED <<issues, lifted>>
  BY <1>2 DEF Signed, Own
<1>3. ASSUME NEW d, d \in Demand, NEW app \in BOOLEAN, issues' = Opened(d, app), UNCHANGED <<base, lifted>>
      PROVE  Signed'
  <2>1. \A i \in DOMAIN issues' : i \in DOMAIN issues \/ (issues'[i].by = "nobody" /\ issues'[i].open)
    <3>1. DOMAIN issues' = DOMAIN issues \cup {Len(issues) + 1}
      BY <1>3, OpenedDoes
    <3>2. issues'[Len(issues) + 1].by = "nobody" /\ issues'[Len(issues) + 1].open
      <4>1. issues'[Len(issues) + 1] = [kind |-> d.kind, of |-> d.of, lost |-> d.lost, app |-> app,
                                        open |-> TRUE, by |-> "nobody"]
        BY <1>3, OpenedDoes
      <4>. QED  BY <4>1
    <3>. QED  BY <3>1, <3>2
  <2>2. \A i \in DOMAIN issues : issues'[i] = issues[i]
    BY <1>3, OpenedDoes
  <2>. QED  BY <1>3, <2>1, <2>2 DEF Signed, Own
<1>4. CASE Demote
  <2>1. PICK d \in First(job.fresh) : issues' = issues \/ issues' = Opened(d, TRUE)
    BY <1>4 DEF Demote
  <2>2. d \in Demand /\ UNCHANGED <<base, lifted>>
    BY <1>4, <2>1 DEF Demote, Others, First, Typed, Jobs, Idle
  <2>. QED  BY <1>2, <1>3, <2>1, <2>2
<1>5. ASSUME NEW i \in DOMAIN issues, Reopens(i) \/ \E by \in {"writer", "bot"} : Closes(i, by)
      PROVE  Signed'
  <2>1. \A k \in DOMAIN issues : issues[k] \in Issue
    BY <1>1
  <2>2. CASE Reopens(i)
    <3>1. /\ DOMAIN issues' = DOMAIN issues /\ lifted' = lifted
          /\ \A k \in DOMAIN issues : issues'[k].app = issues[k].app /\ issues'[k].by = issues[k].by
                                      /\ (issues'[k].open = issues[k].open \/ issues'[k].open)
      BY <2>1, <2>2 DEF Reopens, Issue
    <3>. QED  BY <3>1 DEF Signed, Own
  <2>3. ASSUME NEW by \in {"writer", "bot"}, Closes(i, by) PROVE Signed'
    <3>1. /\ DOMAIN issues' = DOMAIN issues /\ issues'[i].by = by /\ issues'[i].app = issues[i].app
          /\ \A k \in DOMAIN issues : k # i => issues'[k] = issues[k]
      BY <2>1, <2>3 DEF Closes, Issue
    <3>2. lifted \subseteq lifted' /\ (by = "writer" /\ Own(i) => i \in lifted')
      BY <2>3 DEF Closes
    <3>. QED  BY <3>1, <3>2 DEF Signed, Own
  <2>. QED  BY <1>5, <2>2, <2>3
<1>6. ASSUME NEW c \in DOMAIN base, OpensTheirs(c) PROVE Signed'
  <2>1. base[c] \in Landed
    BY DEF Typed, TypeOK
  <2>2. PICK d : d = [kind |-> base[c].kind, of |-> c, lost |-> FALSE]
    OBVIOUS
  <2>3. d \in Demand /\ issues' = Opened(d, FALSE) /\ UNCHANGED <<base, lifted>>
    BY <1>6, <2>1, <2>2 DEF Demand, Landed, OpensTheirs
  <2>. QED  BY <1>3, <2>3
<1>. QED  BY <1>2, <1>4, <1>5, <1>6
          DEF Next, Run, People, Read, Hold, Mark, Weigh, Dies, Lands, Others, vars

\* A mark there was, and a job that goes on, keep what they kept.
LEMMA KeptKept ==
    ASSUME Typed, Grows, NEW all \in BOOLEAN, NEW I, NEW c \in DOMAIN base, Kept(all, I, c)
    PROVE  Kept(all, I, c)'
  BY GrowsKeeps DEF Kept, Grows

LEMMA MarksStep ==
    ASSUME Typed, NEW all \in BOOLEAN, MarksHold(all), MarkHolds(all), all \/ NoneCut, [Next]_vars
    PROVE  MarksHold(all)'
<1>1. DOMAIN base = 1..Len(base) /\ Len(base) \in Nat /\ DOMAIN mark = DOMAIN base
      /\ mark \in Seq(SUBSET Nat)
  BY DEF Typed, TypeOK
<1>2. Grows
  BY NextGrows
<1>3. ASSUME NEW m \in DOMAIN mark, mark[m] # Unmarked, NEW c \in 1..m, Undoes(c)'
      PROVE  Lifted(c)' \/ \E I : I = mark[m] /\ Kept(all, I, c)'
  <2>1. c \in DOMAIN base
    BY <1>1
  <2>2. Undoes(c) /\ (Lifted(c) \/ Kept(all, mark[m], c))
    BY <1>2, <1>3, <2>1, GrowsKeeps DEF MarksHold
  <2>3. PICK I : I = mark[m]
    OBVIOUS
  <2>. QED  BY <1>2, <2>1, <2>2, <2>3, GrowsKeeps, KeptKept
<1>4. CASE mark' = mark
  BY <1>3, <1>4 DEF MarksHold, Kept
<1>5. CASE \E l \in Landed : Lands(l.what, l.kind)
  <2>1. \A m \in DOMAIN mark' : mark'[m] # Unmarked => m \in DOMAIN mark /\ mark'[m] = mark[m]
    BY <1>1, <1>5, LandsDoes
  <2>. QED  BY <1>3, <2>1 DEF MarksHold, Kept
<1>6. CASE Mark /\ ~job.unrecorded /\ mark' = [mark EXCEPT ![job.tip] = Cut(job.ids)]
  <2>1. job \in Jobs /\ job.at = "mark" /\ job.tip \in DOMAIN base
    BY <1>6 DEF Mark, Typed, Idle, Jobs
  <2>2. DOMAIN mark' = DOMAIN mark /\ mark'[job.tip] = Cut(job.ids)
        /\ \A m \in DOMAIN mark : m # job.tip => mark'[m] = mark[m]
    BY <1>1, <1>6, <2>1
  <2>3. ASSUME NEW c \in 1..job.tip, Undoes(c)' PROVE Lifted(c)' \/ \E I : I = Cut(job.ids) /\ Kept(all, I, c)'
    <3>1. c \in DOMAIN base
      BY <1>1, <2>1
    <3>2. Undoes(c) /\ (Lifted(c) \/ Kept(all, job.ids, c))
      BY <1>2, <1>6, <2>1, <2>3, <3>1, GrowsKeeps DEF MarkHolds
    <3>3. Lifted(c) \/ Kept(all, Cut(job.ids), c)
      BY <2>1, <3>2 DEF Kept, NoneCut
    <3>4. PICK I : I = Cut(job.ids)
      OBVIOUS
    <3>. QED  BY <1>2, <3>1, <3>3, <3>4, GrowsKeeps, KeptKept
  <2>. QED  BY <1>3, <2>1, <2>2, <2>3 DEF MarksHold, Kept
<1>. QED  BY <1>4, <1>5, <1>6
          DEF Next, Run, People, Read, Demote, Hold, Mark, Weigh, Dies, Closes, Reopens, OpensTheirs,
              Others, vars

\* Read: what the mark it starts from names, and what it reads past it.
LEMMA ReadHolds ==
    ASSUME Typed, NEW all \in BOOLEAN, MarksHold(all), Read
    PROVE  DemoteHolds(all)'
<1>1. base \in Seq(Landed) /\ DOMAIN base = 1..Len(base) /\ Len(base) \in Nat /\ DOMAIN mark = DOMAIN base
  BY DEF Typed, TypeOK
<1>2. UNCHANGED <<base, mark, issues, lifted>>
  BY DEF Read, Others
<1>. DEFINE tip == Len(base)
<1>3. PICK unread \in OneAtMost(Chain(tip)) :
         job' = [at |-> "demote", tip |-> tip,
                 fresh |-> Fresh(tip, Marked(tip, unread), MergedAlone(tip) \/ unread # {}, unread),
                 ids |-> IF Marked(tip, unread) # {} THEN mark[Max(Marked(tip, unread))] ELSE {},
                 held |-> {}, unrecorded |-> FALSE]
  BY Zenon DEF Read
<1>. DEFINE from == Marked(tip, unread)
            alone == MergedAlone(tip) \/ unread # {}
            fresh == Fresh(tip, from, alone, unread)
<1>4. from \in SUBSET (1..tip) /\ \A m \in from : mark[m] # Unmarked
  BY DEF Marked, Chain
<1>5. job'.tip = tip /\ job'.fresh = fresh
      /\ job'.ids = IF from # {} THEN mark[Max(from)] ELSE {}
  BY <1>3
<1>. HIDE DEF from, alone, fresh
<1>6. ASSUME NEW c \in 1..tip, Undoes(c), NEW C, c \in C, RevertsIn(C, unread) \subseteq fresh
      PROVE  \E d \in fresh : d.kind \in {base[c].kind, Every} /\ d.of = c
  <2>1. base[c].what = "revert"
    BY <1>6 DEF Undoes
  <2>. DEFINE d == [kind |-> IF c \in unread THEN Every ELSE base[c].kind, of |-> c, lost |-> FALSE]
  <2>2. d \in RevertsIn(C, unread)
    BY <1>6, <2>1 DEF RevertsIn
  <2>3. d.kind \in {base[c].kind, Every} /\ d.of = c
    OBVIOUS
  <2>. QED  BY <1>6, <2>2, <2>3
<1>7. ASSUME NEW c \in 1..tip, Undoes(c), from # {}
      PROVE  \/ Lifted(c) \/ Kept(all, mark[Max(from)], c)
             \/ \E d \in fresh : d.kind \in {base[c].kind, Every} /\ d.of = c
  <2>1. Max(from) \in from /\ Max(from) \in 1..tip
    BY <1>1, <1>4, <1>7, MaxIsIn
  <2>2. CASE c \in 1..Max(from)
    BY <1>1, <1>4, <1>7, <2>1, <2>2 DEF MarksHold
  <2>3. CASE c \notin 1..Max(from)
    <3>1. c \in (Max(from) + 1)..tip
      BY <1>1, <2>1, <2>3
    <3>2. RevertsIn((Max(from) + 1)..tip, unread) \subseteq fresh
      BY <1>7 DEF fresh, Fresh
    <3>. QED  BY <1>6, <1>7, <3>1, <3>2
  <2>. QED  BY <2>2, <2>3
<1>8. ASSUME NEW c \in 1..tip, Undoes(c), from = {}
      PROVE  \E d \in fresh : d.kind = Every /\ d.lost /\ c <= d.of
  <2>1. alone
    <3>1. PICK m \in 1..c : base[m].what = "merge"
      BY <1>8 DEF Undoes
    <3>2. m \in 1..tip
      BY <1>1
    <3>. QED  BY <3>1, <3>2 DEF alone, MergedAlone
  <2>2. Lost(tip) \in fresh
    BY <1>8, <2>1 DEF fresh, Fresh
  <2>. QED  BY <1>1, <2>2 DEF Lost
<1>9. ASSUME NEW c \in 1..tip, Undoes(c)' PROVE Lifted(c)' \/ Kept(all, job.ids, c)' \/ Coming(c)'
  <2>1. Undoes(c)
    BY <1>2, <1>9 DEF Undoes
  <2>2. Lifted(c) => Lifted(c)'
    BY <1>2 DEF Lifted, Of
  <2>3. CASE from # {}
    <3>1. PICK I : I = mark[Max(from)]
      OBVIOUS
    <3>2. Kept(all, I, c) => Kept(all, job.ids, c)'
      BY <1>2, <1>5, <2>3, <3>1 DEF Kept, Covers, Own, Of
    <3>3. (\E d \in fresh : d.kind \in {base[c].kind, Every} /\ d.of = c) => Coming(c)'
      BY <1>2, <1>5 DEF Coming
    <3>. QED  BY <1>7, <2>1, <2>2, <2>3, <3>1, <3>2, <3>3
  <2>4. CASE from = {}
    BY <1>2, <1>5, <1>8, <2>1, <2>4 DEF Coming
  <2>. QED  BY <2>3, <2>4
<1>. QED  BY <1>5, <1>9 DEF DemoteHolds, tip, Kept

\* Demote: a revert still to come is then in an issue, or held with none.
LEMMA DemoteDoes ==
    ASSUME Typed, Demote
    PROVE  /\ UNCHANGED <<base, mark, lifted>> /\ job \in Jobs
           /\ \E d \in job.fresh :
                \/ \E id \in DOMAIN issues' :
                      /\ issues'[id].app /\ issues'[id].kind = d.kind
                      /\ issues'[id].of = d.of /\ issues'[id].lost = d.lost
                      /\ job' = Recorded(d, id)
                \/ job' = Unrecorded(d)
<1>1. UNCHANGED <<base, mark, lifted>> /\ job \in Jobs
  BY DEF Demote, Others, Typed, Idle
<1>2. PICK d \in First(job.fresh) :
         \/ \E id \in Titled(d) :
                /\ job' = IF issues[id].app THEN Recorded(d, id) ELSE Unrecorded(d)
                /\ UNCHANGED issues
         \/ issues' = Opened(d, TRUE) /\ job' = Recorded(d, Len(issues) + 1)
         \/ job' = Unrecorded(d)
  BY Zenon DEF Demote
<1>3. d \in job.fresh /\ d \in Demand
  BY <1>1, <1>2 DEF First, Jobs
<1>4. CASE \E id \in Titled(d) :
                /\ job' = IF issues[id].app THEN Recorded(d, id) ELSE Unrecorded(d)
                /\ UNCHANGED issues
  <2>1. PICK id \in Titled(d) : /\ job' = IF issues[id].app THEN Recorded(d, id) ELSE Unrecorded(d)
                                /\ UNCHANGED issues
    BY <1>4
  <2>2. id \in DOMAIN issues' /\ issues'[id].kind = d.kind /\ issues'[id].of = d.of
        /\ issues'[id].lost = d.lost /\ issues'[id].app = issues[id].app
    BY <2>1 DEF Titled, Says
  <2>. QED  BY <1>1, <1>3, <2>1, <2>2
<1>5. CASE issues' = Opened(d, TRUE) /\ job' = Recorded(d, Len(issues) + 1)
  <2>1. Len(issues) + 1 \in DOMAIN issues'
    BY <1>1, <1>3, <1>5, OpenedDoes
  <2>2. issues'[Len(issues) + 1] = [kind |-> d.kind, of |-> d.of, lost |-> d.lost, app |-> TRUE,
                                    open |-> TRUE, by |-> "nobody"]
    BY <1>1, <1>3, <1>5, OpenedDoes
  <2>3. PICK id : id = Len(issues) + 1
    OBVIOUS
  <2>4. issues'[id].app /\ issues'[id].kind = d.kind /\ issues'[id].of = d.of /\ issues'[id].lost = d.lost
    BY <2>2, <2>3
  <2>5. id \in DOMAIN issues' /\ job' = Recorded(d, id)
    BY <1>5, <2>1, <2>3
  <2>. QED  BY <1>1, <1>3, <2>4, <2>5
<1>. QED  BY <1>1, <1>2, <1>3, <1>4, <1>5

LEMMA DemoteStep ==
    ASSUME Typed, NEW all \in BOOLEAN, DemoteHolds(all), Demote
    PROVE  DemoteHolds(all)' /\ job'.at = "demote"
<1>1. Grows
  BY NextGrows DEF Next, Run
<1>2. DOMAIN base = 1..Len(base) /\ Len(base) \in Nat
  BY DEF Typed, TypeOK
<1>3. UNCHANGED base /\ job \in Jobs /\ job.at = "demote"
  BY DemoteDoes DEF Demote
<1>4. PICK d \in job.fresh :
         \/ \E id \in DOMAIN issues' :
               /\ issues'[id].app /\ issues'[id].kind = d.kind
               /\ issues'[id].of = d.of /\ issues'[id].lost = d.lost
               /\ job' = Recorded(d, id)
         \/ job' = Unrecorded(d)
  BY DemoteDoes
<1>5. /\ job'.at = "demote" /\ job'.tip = job.tip /\ job'.fresh = job.fresh \ {d}
      /\ job.ids \subseteq job'.ids /\ job.held \subseteq job'.held
      /\ job.unrecorded => job'.unrecorded
  <2>1. CASE job' = Unrecorded(d)
    BY <1>3, <2>1 DEF Unrecorded, Left, Jobs
  <2>2. ASSUME NEW id, job' = Recorded(d, id)
        PROVE  /\ job'.at = "demote" /\ job'.tip = job.tip /\ job'.fresh = job.fresh \ {d}
               /\ job'.ids = job.ids \cup {id} /\ job'.held = job.held /\ job'.unrecorded = job.unrecorded
    BY <1>3, <2>2 DEF Recorded, Left, Jobs
  <2>. QED  BY <1>4, <2>1, <2>2
<1>6. ASSUME NEW c \in 1..job.tip, Undoes(c)'
      PROVE  \/ Lifted(c)' \/ Kept(all, job.ids, c)' \/ Coming(c)'
             \/ job'.unrecorded /\ HeldFor(c)'
  <2>1. c \in DOMAIN base
    BY <1>2, <1>3 DEF Jobs
  <2>2. Undoes(c) /\ (Lifted(c) => Lifted(c)')
    BY <1>1, <1>6, <2>1, GrowsKeeps
  <2>3. CASE Kept(all, job.ids, c)
    BY <1>1, <1>5, <2>1, <2>3, GrowsKeeps DEF Kept, Grows
  <2>4. CASE job.unrecorded /\ HeldFor(c)
    BY <1>3, <1>5, <2>4 DEF HeldFor
  <2>5. ASSUME NEW e \in job.fresh, e.kind \in {base[c].kind, Every}, e.of = c \/ (e.lost /\ c <= e.of)
        PROVE  Coming(c)' \/ Kept(all, job.ids, c)' \/ (job'.unrecorded /\ HeldFor(c)')
    <3>1. CASE e # d
      BY <1>3, <1>5, <2>5, <3>1 DEF Coming
    <3>2. CASE e = d /\ job' = Unrecorded(d)
      <4>1. job'.unrecorded /\ d.kind \in job'.held
        BY <1>3, <3>2 DEF Unrecorded, Left, Jobs
      <4>. QED  BY <1>3, <2>5, <3>2, <4>1 DEF HeldFor
    <3>3. ASSUME NEW id \in DOMAIN issues', e = d, issues'[id].app, issues'[id].kind = d.kind,
                 issues'[id].of = d.of, issues'[id].lost = d.lost, job' = Recorded(d, id)
          PROVE  Kept(all, job.ids, c)'
      <4>1. id \in job'.ids
        BY <1>3, <3>3 DEF Recorded, Left, Jobs
      <4>2. Covers(id, c)'
        BY <1>3, <2>5, <3>3 DEF Covers, Own, Of
      <4>. QED  BY <4>1, <4>2 DEF Kept
    <3>. QED  BY <1>4, <3>1, <3>2, <3>3
  <2>. QED  BY <1>3, <2>2, <2>3, <2>4, <2>5 DEF DemoteHolds, Coming
<1>. QED  BY <1>5, <1>6 DEF DemoteHolds

\* Hold: what an issue keeps is held, unless a person closed it.
LEMMA HoldStep ==
    ASSUME Typed, NEW all \in BOOLEAN, Signed, DemoteHolds(all), all => BotsQuiet, Hold
    PROVE  MarkHolds(all)' /\ job'.at = "mark"
<1>1. UNCHANGED <<base, issues, lifted>> /\ job \in Jobs /\ job.at = "demote" /\ job.fresh = {}
  BY DEF Hold, Others, Typed, Idle
<1>. DEFINE ids == job.ids \cup {i \in DOMAIN issues : issues[i].open /\ Own(i)}
<1>2. PICK unread \in OneAtMost(DOMAIN issues) :
        LET kept == {i \in ids : Holds(i) \/ i \in unread} IN
        job' = [job EXCEPT !.at = "mark", !.ids = kept,
                  !.held = @ \cup {IF i \in unread THEN Every ELSE issues[i].kind : i \in kept}]
  BY Zenon DEF Hold
<1>. DEFINE kept == {i \in ids : Holds(i) \/ i \in unread}
            more == {IF i \in unread THEN Every ELSE issues[i].kind : i \in kept}
<1>3. /\ job'.at = "mark" /\ job'.tip = job.tip /\ job'.ids = kept
      /\ job'.held = job.held \cup more /\ job'.unrecorded = job.unrecorded
  BY <1>1, <1>2 DEF Jobs
<1>4. ASSUME NEW i \in DOMAIN issues, NEW c, Covers(i, c), all \/ i \in job.ids
      PROVE  Lifted(c) \/ (i \in kept /\ {base[c].kind, Every} \cap more # {})
  <2>1. CASE i \in kept
    <3>1. (IF i \in unread THEN Every ELSE issues[i].kind) \in more
      BY <2>1
    <3>. QED  BY <1>4, <2>1, <3>1 DEF Covers
  <2>2. CASE i \notin kept
    <3>1. Own(i)
      BY <1>4 DEF Covers
    <3>2. ~issues[i].open /\ issues[i].by # "nobody"
      BY <2>2, <3>1 DEF Holds, Signed
    <3>3. issues[i].by \in {"nobody", "writer", "bot"}
      <4>1. issues[i] \in Issue
        <5>1. issues \in Seq(Issue)
          BY DEF Typed, TypeOK, Issue
        <5>. QED  BY <5>1
      <4>. QED  BY <4>1 DEF Issue
    <3>4. issues[i].by = "writer"
      BY <1>4, <2>2, <3>1, <3>2, <3>3 DEF Holds, BotsQuiet
    <3>5. i \in lifted
      BY <3>1, <3>4 DEF Signed
    <3>. QED  BY <1>4, <3>5 DEF Lifted, Covers
  <2>. QED  BY <2>1, <2>2
<1>. HIDE DEF kept, more
<1>5. ASSUME NEW c \in 1..job.tip, Undoes(c)'
      PROVE  Lifted(c)' \/ (HeldFor(c)' /\ (Kept(all, job.ids, c)' \/ job'.unrecorded))
  <2>1. Undoes(c)
    BY <1>1, <1>5 DEF Undoes
  <2>2. Lifted(c) => Lifted(c)'
    BY <1>1 DEF Lifted, Of
  <2>3. CASE job.unrecorded /\ HeldFor(c)
    BY <1>1, <1>3, <2>3 DEF HeldFor
  <2>4. ASSUME NEW i \in DOMAIN issues, Covers(i, c), all \/ i \in job.ids, ~Lifted(c)
        PROVE  HeldFor(c)' /\ Kept(all, job.ids, c)'
    <3>1. i \in kept /\ {base[c].kind, Every} \cap more # {}
      BY <1>4, <2>4
    <3>2. HeldFor(c)'
      BY <1>1, <1>3, <3>1 DEF HeldFor
    <3>3. Covers(i, c)'
      BY <1>1, <2>4 DEF Covers, Own, Of
    <3>. QED  BY <1>1, <1>3, <3>1, <3>2, <3>3 DEF Kept
  <2>5. ~Coming(c)
    BY <1>1 DEF Coming
  <2>. QED  BY <1>1, <2>1, <2>2, <2>3, <2>4, <2>5 DEF DemoteHolds, Kept
<1>. QED  BY <1>3, <1>5 DEF MarkHolds

LEMMA JobStep ==
    ASSUME Typed, NEW all \in BOOLEAN, Inv(all), all => BotsQuiet, [Next]_vars
    PROVE  DemoteHolds(all)' /\ MarkHolds(all)' /\ RevertHolds'
<1>1. Grows
  BY NextGrows
<1>2. DOMAIN base = 1..Len(base) /\ Len(base) \in Nat
  BY DEF Typed, TypeOK
<1>3. CASE job' = Idle
  BY <1>3 DEF Idle, DemoteHolds, MarkHolds, RevertHolds
<1>4. CASE Read
  <2>1. job'.at = "demote"
    BY <1>4 DEF Read
  <2>. QED  BY <1>4, <2>1, ReadHolds DEF Inv, MarkHolds, RevertHolds
<1>5. CASE Demote
  BY <1>5, DemoteStep DEF Inv, MarkHolds, RevertHolds
<1>6. CASE Hold
  BY <1>6, HoldStep DEF Inv, DemoteHolds, RevertHolds
<1>7. CASE Mark
  <2>1. UNCHANGED <<base, issues, lifted>> /\ job \in Jobs /\ job.at = "mark"
    BY <1>7 DEF Mark, Others, Typed, Idle
  <2>2. job'.at = "weigh" /\ job'.tip = job.tip /\ job'.held = job.held
    BY <1>7, <2>1 DEF Mark, Jobs
  <2>. QED  BY <2>1, <2>2 DEF Inv, MarkHolds, DemoteHolds, RevertHolds, Undoes, Lifted, Of, HeldFor
<1>8. CASE job' = job
  <2>1. ASSUME job # Idle, NEW c \in 1..job.tip, Undoes(c)'
        PROVE  /\ Undoes(c) /\ base'[c] = base[c]
               /\ Lifted(c) => Lifted(c)'
               /\ Kept(all, job.ids, c) => Kept(all, job.ids, c)'
               /\ Coming(c) => Coming(c)'
               /\ HeldFor(c) => HeldFor(c)'
    <3>1. c \in DOMAIN base
      BY <1>2, <2>1 DEF Typed, Jobs
    <3>2. base'[c] = base[c]
      BY <1>1, <3>1 DEF Grows
    <3>3. Kept(all, job.ids, c) => Kept(all, job.ids, c)'
      BY <1>1, <1>8, <3>1, GrowsKeeps DEF Kept, Grows
    <3>4. (Coming(c) => Coming(c)') /\ (HeldFor(c) => HeldFor(c)')
      BY <1>8, <3>2 DEF Coming, HeldFor
    <3>. QED  BY <1>1, <2>1, <3>1, <3>2, <3>3, <3>4, GrowsKeeps
  <2>2. CASE job = Idle
    BY <1>8, <2>2 DEF Idle, DemoteHolds, MarkHolds, RevertHolds
  <2>3. CASE job # Idle
    <3>1. DemoteHolds(all)'
      <4>1. SUFFICES ASSUME job'.at = "demote", NEW c \in 1..job'.tip, Undoes(c)'
                     PROVE  \/ Lifted(c)' \/ Kept(all, job.ids, c)' \/ Coming(c)'
                            \/ job'.unrecorded /\ HeldFor(c)'
        BY DEF DemoteHolds
      <4>2. c \in 1..job.tip /\ job.at = "demote" /\ job'.unrecorded = job.unrecorded
        BY <1>8, <4>1
      <4>3. Lifted(c) \/ Kept(all, job.ids, c) \/ Coming(c) \/ (job.unrecorded /\ HeldFor(c))
        BY <2>1, <2>3, <4>1, <4>2 DEF Inv, DemoteHolds
      <4>. QED  BY <2>1, <2>3, <4>1, <4>2, <4>3, Zenon
    <3>2. MarkHolds(all)'
      <4>1. SUFFICES ASSUME job'.at = "mark", NEW c \in 1..job'.tip, Undoes(c)'
                     PROVE  Lifted(c)' \/ (HeldFor(c)' /\ (Kept(all, job.ids, c)' \/ job'.unrecorded))
        BY DEF MarkHolds
      <4>2. c \in 1..job.tip /\ job.at = "mark" /\ job'.unrecorded = job.unrecorded
        BY <1>8, <4>1
      <4>3. Lifted(c) \/ (HeldFor(c) /\ (Kept(all, job.ids, c) \/ job.unrecorded))
        BY <2>1, <2>3, <4>1, <4>2 DEF Inv, MarkHolds
      <4>. QED  BY <2>1, <2>3, <4>1, <4>2, <4>3, Zenon
    <3>3. RevertHolds'
      BY <1>8, <2>1, <2>3 DEF Inv, RevertHolds
    <3>. QED  BY <3>1, <3>2, <3>3
  <2>. QED  BY <2>2, <2>3
<1>. QED  BY <1>3, <1>4, <1>5, <1>6, <1>7, <1>8
          DEF Next, Run, People, Weigh, Dies, Lands, Closes, Reopens, OpensTheirs, Others, vars

LEMMA InitHolds ==
    ASSUME Init, NEW all \in BOOLEAN
    PROVE  Inv(all)
<1>1. issues = <<>> /\ job = Idle /\ lifted = {}
  BY DEF Init
<1>2. Signed /\ DemoteHolds(all) /\ MarkHolds(all) /\ RevertHolds
  BY <1>1 DEF Signed, DemoteHolds, MarkHolds, RevertHolds, Idle
<1>3. ~Undoes(1) /\ DOMAIN mark = {1}
  BY DEF Init, Undoes
<1>4. MarksHold(all)
  BY <1>3 DEF MarksHold
<1>. QED  BY <1>2, <1>4 DEF Inv

\* A revert that landed holds back workline's own merge requests, of its
\* kind or every kind, until a person who may push and merge closes its
\* issue: whatever runs die, calls are refused and marks are lost, as long
\* as no mark's text is cut, whoever closes the issues.
THEOREM RevertHeld == Spec /\ []NoneCut => []RevertHolds
<1>1. Init => Inv(FALSE)
  BY InitHolds
<1>2. Typed /\ Inv(FALSE) /\ NoneCut /\ [Next]_vars => Inv(FALSE)'
  BY SignedStep, MarksStep, JobStep DEF Inv
<1>3. Inv(FALSE) => RevertHolds
  BY DEF Inv
<1>. QED  BY <1>1, <1>2, <1>3, TypedCorrect, PTL DEF Spec

\* And with marks cut, as long as no bot closes an issue of the App's.
THEOREM RevertHeldCut == Spec /\ []BotsQuiet => []RevertHolds
<1>1. Init => Inv(TRUE)
  BY InitHolds
<1>2. Typed /\ Inv(TRUE) /\ BotsQuiet /\ [Next]_vars => Inv(TRUE)'
  BY SignedStep, MarksStep, JobStep DEF Inv
<1>3. Inv(TRUE) => RevertHolds
  BY DEF Inv
<1>. QED  BY <1>1, <1>2, <1>3, TypedCorrect, PTL DEF Spec
=============================================================================
