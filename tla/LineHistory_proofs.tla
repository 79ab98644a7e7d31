------------------------- MODULE LineHistory_proofs -------------------------
(***************************************************************************)
(* What holds of the line on every table, for every set of roles, moves,   *)
(* bodies and dates: its variables keep their types, the record's          *)
(* `reached` and `hops` only go where they should, no silence is taken for *)
(* an act, a block stands, and runs on one input are bounded.              *)
(*                                                                         *)
(* Loops end (ADR-0059): on a table of any size with no ring of next,      *)
(* whatever its roles do, they enter states at most max-hops times for     *)
(* each state that wakes one.  The furthest state reached bounds it: hops  *)
(* add up to max-hops at one, and past it fewer waking states are ahead.   *)
(***************************************************************************)
EXTENDS LineHistory, FiniteSetTheorems, TLAPS

-----------------------------------------------------------------------------
(* Records: a record with a field set is a record.                         *)

LEMMA SetNames ==
  ASSUME NEW r \in Records, NEW s \in States \cup {None}
  PROVE  /\ [r EXCEPT !.state = s] \in Records /\ [r EXCEPT !.reached = s] \in Records
         /\ [r EXCEPT !.waits = s] \in Records /\ [r EXCEPT !.stale = s] \in Records
         /\ [r EXCEPT !.retest = s] \in Records /\ [r EXCEPT !.from = s] \in Records
<1>1. [r EXCEPT !.state = s] \in Records /\ [r EXCEPT !.reached = s] \in Records
  BY DEF Records
<1>2. [r EXCEPT !.waits = s] \in Records /\ [r EXCEPT !.stale = s] \in Records
  BY DEF Records
<1>3. [r EXCEPT !.retest = s] \in Records /\ [r EXCEPT !.from = s] \in Records
  BY DEF Records
<1>. QED  BY <1>1, <1>2, <1>3

LEMMA SetDates ==
  ASSUME NEW r \in Records, NEW d \in AllDates
  PROVE  /\ [r EXCEPT !.labeled = d] \in Records /\ [r EXCEPT !.kept = d] \in Records
         /\ [r EXCEPT !.retestKept = d] \in Records /\ [r EXCEPT !.woke = d] \in Records
  BY DEF Records

LEMMA SetCounts ==
  ASSUME NEW r \in Records, NEW n \in Nat
  PROVE  /\ [r EXCEPT !.spec = n] \in Records /\ [r EXCEPT !.hops = n] \in Records
         /\ [r EXCEPT !.talk = n] \in Records
  BY DEF Records

LEMMA SetOthers ==
  ASSUME NEW r \in Records
  PROVE  /\ \A b \in Bodies \cup {None} : [r EXCEPT !.body = b] \in Records
         /\ \A m \in SUBSET MarkNames : [r EXCEPT !.marks = m] \in Records
         /\ \A e \in [Kinds -> Nat] : [r EXCEPT !.errors = e] \in Records
         /\ \A k \in Kinds \cup {None} : [r EXCEPT !.kind = k] \in Records
         /\ \A n \in 0..2 : [r EXCEPT !.needs = n] \in Records
         /\ \A c \in ClaimKeys : [r EXCEPT !.claim = c] \in Records
  BY DEF Records

LEMMA NoRecType == NoRec \in Records
  BY TableAssumption, LineAssumption DEF NoRec, Records, NoErrors, AllDates, ClaimKeys

-----------------------------------------------------------------------------
(* The records the line makes of an issue it read.                         *)

\* A run is one of a role: the product owner's reading, or a role's acts.
RoleRuns ==
    job.phase = "run" =>
        /\ job.kind \in StepKinds
        /\ job.kind # "revisit" => job.role \in Routed \cup {Developer}

LEMMA ReadTypes ==
  ASSUME TypeOK
  PROVE  /\ cur \in States \cup {None} /\ SpecNow \in Nat /\ talk \in Nat
         /\ body \in Bodies /\ rec \in Records /\ rec.hops \in Nat
         /\ rec.state \in States \cup {None} /\ rec.reached \in States \cup {None}
         /\ rec.from \in States \cup {None} /\ Reached \in States \cup {None}
         /\ rec.stale \in States \cup {None} /\ rec.kept \in AllDates
         /\ rec.retest \in States \cup {None} /\ rec.retestKept \in AllDates
         /\ \A s \in States : labeled[s] \in AllDates
<1>1. cur \in States \cup {None} /\ SpecNow \in Nat
  BY DEF TypeOK, cur, StateOf, SpecNow
<1>2. /\ rec \in Records /\ rec.hops \in Nat
      /\ rec.state \in States \cup {None} /\ rec.reached \in States \cup {None}
      /\ rec.from \in States \cup {None}
      /\ rec.stale \in States \cup {None} /\ rec.kept \in AllDates
      /\ rec.retest \in States \cup {None} /\ rec.retestKept \in AllDates
  BY DEF TypeOK, Records
<1>. QED  BY <1>1, <1>2 DEF TypeOK, Reached

LEMMA MadeTypes ==
  ASSUME TypeOK, cur \in States
  PROVE  /\ NewRecord \in Records /\ LeftRecord \in Records
         /\ SeenRecord \in Records /\ ClaimBase \in Records
<1>1. NewRecord \in Records
  <2>1. HopsNow \in Nat /\ ReachedNow \in States \cup {None}
    BY ReadTypes DEF HopsNow, ReachedNow
  <2>2. /\ (IF Entered THEN None ELSE rec.stale) \in States \cup {None}
        /\ (IF Entered THEN Never ELSE rec.kept) \in AllDates
        /\ (IF Entered THEN {} ELSE rec.marks \cap Lasting) \in SUBSET MarkNames
    BY LineAssumption, ReadTypes DEF AllDates
  <2>3. [NoRec EXCEPT !.state = cur, !.body = body, !.labeled = labeled[cur], !.spec = SpecNow]
          \in Records
    BY ReadTypes, NoRecType, SetNames, SetDates, SetCounts, SetOthers
  <2>4. [NoRec EXCEPT !.state = cur, !.body = body, !.labeled = labeled[cur], !.spec = SpecNow,
            !.hops = HopsNow, !.reached = ReachedNow,
            !.marks = IF Entered THEN {} ELSE rec.marks \cap Lasting] \in Records
    BY <2>1, <2>2, <2>3, SetNames, SetCounts, SetOthers
  <2>. DEFINE Before == [NoRec EXCEPT
                !.state = cur, !.body = body, !.labeled = labeled[cur], !.spec = SpecNow,
                !.hops = HopsNow, !.reached = ReachedNow,
                !.marks = IF Entered THEN {} ELSE rec.marks \cap Lasting,
                !.stale = IF Entered THEN None ELSE rec.stale,
                !.kept = IF Entered THEN Never ELSE rec.kept]
  <2>5. Before \in Records
    BY <2>2, <2>4, SetNames, SetDates
  <2>6. [Before EXCEPT !.retest = rec.retest, !.retestKept = rec.retestKept] \in Records
    <3>. HIDE DEF Before
    <3>. QED  BY <2>5, ReadTypes, SetNames, SetDates
  <2>. QED  BY <2>6 DEF NewRecord
<1>2. LeftRecord \in Records
  BY ReadTypes, NoRecType, SetNames, SetDates, SetCounts, SetOthers DEF LeftRecord
<1>3. SeenRecord \in Records
  <2>1. [NoRec EXCEPT !.state = Blocked, !.body = body, !.hops = rec.hops] \in Records
    BY LineAssumption, ReadTypes, NoRecType, SetNames, SetCounts, SetOthers
  <2>. QED  BY <2>1, ReadTypes, SetNames, SetCounts DEF SeenRecord
<1>4. ClaimBase \in Records
  BY ReadTypes, NoRecType, SetNames, SetOthers DEF ClaimBase
<1>. QED  BY <1>1, <1>2, <1>3, <1>4

LEMMA BlockingType ==
  ASSUME TypeOK, NEW r \in Records, NEW s \in States \cup {None}
  PROVE  Blocking(r, s) \in Records
<1>1. [r EXCEPT !.state = Blocked] \in Records
  BY LineAssumption, SetNames
<1>2. [r EXCEPT !.state = Blocked, !.from = s] \in Records
  BY <1>1, SetNames
<1>3. talk \in Nat
  BY DEF TypeOK
<1>. QED  BY <1>2, <1>3, SetCounts DEF Blocking

LEMMA DoneType ==
  ASSUME NEW r \in Records
  PROVE  Done(r) \in Records
<1>1. NoErrors \in [Kinds -> Nat]
  BY DEF NoErrors
<1>2. [r EXCEPT !.errors = NoErrors] \in Records
  BY <1>1, SetOthers
<1>3. [r EXCEPT !.errors = NoErrors, !.kind = None] \in Records
  BY <1>2, SetOthers
<1>4. \A q \in Records : [q EXCEPT !.needs = 0] \in Records
  BY DEF Records
<1>. QED  BY <1>3, <1>4 DEF Done

-----------------------------------------------------------------------------
(* What a decision leaves to the run, or to the record.                    *)

Typed == TypeOK /\ RoleRuns

LEMMA StartTyped ==
  ASSUME Typed, NEW kind \in StepKinds, NEW role \in Routed \cup {Developer, Keeper},
         kind # "revisit" => role \in Routed \cup {Developer},
         NEW from \in States \cup {None}, NEW r \in Records,
         Start(kind, role, from, r), ended' \in BOOLEAN
  PROVE  Typed'
<1>1. job' \in Jobs
  BY DEF Start, Jobs, StepKinds, WriteKinds, Typed, TypeOK
<1>2. RoleRuns'
  BY DEF Start, RoleRuns
<1>. QED  BY <1>1, <1>2 DEF Start, Typed, TypeOK

LEMMA LeaveTyped ==
  ASSUME Typed, cur \in States, NEW kind \in WriteKinds, NEW r \in Records, Leave(kind, r)
  PROVE  Typed'
<1>1. job' \in Jobs
  BY DEF Leave, Jobs, Typed, TypeOK
<1>2. RoleRuns'
  BY DEF Leave, RoleRuns
<1>. QED  BY <1>1, <1>2 DEF Leave, Typed, TypeOK, issue

LEMMA ProceedTyped ==
  ASSUME Typed, Waking, NEW r \in Records, Proceed(r)
  PROVE  Typed'
<1>1. /\ cur \in States /\ Wakes \in Routed /\ rec \in Records
      /\ NextOf[cur] \in States \cup {None} /\ labeled \in [States -> AllDates]
  BY TableAssumption DEF Waking, Reading, Wakes, Typed, TypeOK
<1>2. CASE Leave("capped", Blocking(r, cur))
  <2>1. Blocking(r, cur) \in Records
    BY <1>1, BlockingType DEF Typed
  <2>. QED  BY <1>1, <1>2, <2>1, LeaveTyped DEF WriteKinds
<1>3. CASE NextOf[cur] \in Limited /\ Leave("waits", [rec EXCEPT !.waits = NextOf[cur]])
  <2>1. [rec EXCEPT !.waits = NextOf[cur]] \in Records
    BY <1>1, SetNames
  <2>. QED  BY <1>1, <1>3, <2>1, LeaveTyped DEF WriteKinds
<1>4. CASE NextOf[cur] # None /\ Start("step", Wakes, cur, [r EXCEPT !.woke = labeled[NextOf[cur]]])
           /\ ended' = FALSE
  <2>1. [r EXCEPT !.woke = labeled[NextOf[cur]]] \in Records
    BY <1>1, <1>4, SetDates
  <2>. QED  BY <1>1, <1>4, <2>1, StartTyped DEF StepKinds
<1>5. CASE Start("step", Wakes, cur, r) /\ UNCHANGED ended
  <2>1. ended' \in BOOLEAN
    BY <1>5 DEF Typed, TypeOK
  <2>. QED  BY <1>1, <1>5, <2>1, StartTyped DEF StepKinds
<1>. QED  BY <1>2, <1>3, <1>4, <1>5 DEF Proceed

LEMMA DecideTyped ==
  ASSUME Typed, Decide
  PROVE  Typed'
<1>1. TypeOK /\ cur \in States
  BY DEF Typed, Decide, Stale, SeeBlocked, Revisit, LetGo, SpendClaim, Retest, Repro, Wake,
         Retry, GiveNeeds, WakeOnce, GiveUp, Freed, Acted, Waking, Reading
<1>2. /\ rec \in Records /\ labeled[cur] \in AllDates /\ labeled[Doing] \in AllDates
      /\ rec.hops + 1 \in Nat /\ talk \in Nat /\ body \in Bodies /\ ended \in BOOLEAN
  BY <1>1, ReadTypes, LineAssumption DEF TypeOK
<1>3. /\ LeftRecord \in Records /\ SeenRecord \in Records /\ ClaimBase \in Records
      /\ NewRecord \in Records
  BY <1>1, MadeTypes
<1>4. \A r \in Records : Blocking(r, cur) \in Records
  BY <1>1, BlockingType
<1>5. CASE Stale
  <2>1. [rec EXCEPT !.kept = labeled[cur]] \in Records /\ [LeftRecord EXCEPT !.stale = cur] \in Records
    BY <1>1, <1>2, <1>3, SetNames, SetDates
  <2>. QED  BY <1>1, <1>5, <2>1, LeaveTyped DEF Stale, WriteKinds
<1>6. CASE SeeBlocked
  BY <1>1, <1>2, <1>3, <1>6, LeaveTyped, StartTyped DEF SeeBlocked, WriteKinds, StepKinds
<1>7. CASE Revisit
  <2>1. [rec EXCEPT !.body = body, !.talk = talk] \in Records
    BY <1>2, SetOthers, SetCounts
  <2>. QED  BY <1>2, <1>7, <2>1, StartTyped DEF Revisit, StepKinds
<1>8. CASE LetGo
  <2>. DEFINE key == IF aged THEN <<"hours", labeled[Doing]>> ELSE <<"body", body>>
  <2>1. key \in ClaimKeys
    BY <1>2 DEF ClaimKeys
  <2>2. [ClaimBase EXCEPT !.claim = key] \in Records
    BY <2>1, <1>3, SetOthers
  <2>. QED  BY <1>1, <1>2, <1>8, <2>2, StartTyped DEF LetGo, StepKinds
<1>9. CASE SpendClaim
  BY <1>1, <1>3, <1>4, <1>9, LeaveTyped DEF SpendClaim, WriteKinds
<1>10. CASE Retest
  <2>1. [rec EXCEPT !.retestKept = labeled[cur]] \in Records /\ [LeftRecord EXCEPT !.retest = cur] \in Records
    BY <1>1, <1>2, <1>3, SetNames, SetDates
  <2>. QED  BY <1>1, <1>10, <2>1, LeaveTyped DEF Retest, WriteKinds
<1>11. CASE Repro
  BY <1>1, <1>3, <1>4, <1>11, LeaveTyped DEF Repro, WriteKinds
<1>12. CASE Wake
  BY <1>3, <1>12, ProceedTyped DEF Wake
<1>13. CASE Retry
  BY <1>1, <1>2, <1>4, <1>13, ProceedTyped, LeaveTyped DEF Retry, WriteKinds
<1>14. CASE GiveNeeds
  BY <1>1, <1>2, <1>4, <1>14, ProceedTyped, LeaveTyped DEF GiveNeeds, WriteKinds
<1>15. CASE WakeOnce
  <2>1. PICK m \in Marks[cur] \ rec.marks : Waking /\ Proceed([rec EXCEPT !.marks = @ \cup {m}])
    BY <1>15 DEF WakeOnce, Acted
  <2>2. rec.marks \cup {m} \in SUBSET MarkNames
    BY <1>1, <1>2, <2>1, LineAssumption DEF Records
  <2>3. [rec EXCEPT !.marks = @ \cup {m}] \in Records
    BY <1>2, <2>2, SetOthers
  <2>. QED  BY <2>1, <2>3, ProceedTyped
<1>16. CASE GiveUp
  BY <1>1, <1>2, <1>4, <1>16, LeaveTyped DEF GiveUp, WriteKinds
<1>17. CASE Freed
  <2>1. [rec EXCEPT !.hops = @ + 1] \in Records
    BY <1>2, SetCounts
  <2>. QED  BY <1>2, <1>17, <2>1, ProceedTyped DEF Freed, Acted
<1>. QED  BY <1>5, <1>6, <1>7, <1>8, <1>9, <1>10, <1>11, <1>12, <1>13, <1>14, <1>15, <1>16, <1>17 DEF Decide

-----------------------------------------------------------------------------
(* The run, the write, and what happens outside the line.                  *)

LEMMA RelabelTyped ==
  ASSUME TypeOK, NEW L \in SUBSET States, Relabel(L)
  PROVE  labels' \in SUBSET States /\ labeled' \in [States -> AllDates]
<1>1. (CHOOSE d \in Dates \ DatesHeld : TRUE) \in AllDates
  BY DEF Relabel, AllDates
<1>. QED  BY <1>1 DEF Relabel, TypeOK, AllDates

\* What job holds while a role runs, or while its record is to be written.
LEMMA JobTypes ==
  ASSUME Typed, job.phase \in {"run", "write"}
  PROVE  /\ job \in Jobs /\ job.rec \in Records /\ job.from \in States \cup {None}
         /\ job.saw \in SUBSET States /\ job.kind \in WriteKinds
<1>1. job \in Jobs
  BY DEF Typed, TypeOK, NoJob
<1>. QED  BY <1>1 DEF Jobs

LEMMA RoleActsTyped ==
  ASSUME Typed, Running, RoleActs
  PROVE  /\ labels' \in SUBSET States /\ labeled' \in [States -> AllDates]
         /\ body' \in Bodies /\ writes' \in Nat /\ ask' \in BOOLEAN /\ aged' \in BOOLEAN
<1>1. TypeOK /\ job \in Jobs /\ job.rec \in Records /\ job.saw \in SUBSET States
  BY JobTypes DEF Running, Typed
<1>2. RoleMoves \in SUBSET [to : States, off : SUBSET States, borne : BOOLEAN]
  <2>1. CASE job.kind = "revisit"
    <3>1. {job.rec.from, Refine} \ {None, Blocked} \in SUBSET States
      BY <1>1, LineAssumption DEF Records
    <3>2. \A s \in States : MoveTo(s) \in [to : States, off : SUBSET States, borne : BOOLEAN]
      BY DEF MoveTo
    <3>. QED  BY <2>1, <3>1, <3>2 DEF RoleMoves
  <2>2. CASE job.kind # "revisit"
    BY <2>2, LineAssumption DEF RoleMoves, Typed, RoleRuns, Running
  <2>. QED  BY <2>1, <2>2
<1>3. \A m \in RoleMoves : LabelsAfter(m) \in SUBSET States
  BY <1>1, <1>2 DEF LabelsAfter, TypeOK
<1>4. labels' \in SUBSET States /\ labeled' \in [States -> AllDates]
  <2>1. PICK L \in {labels} \cup {LabelsAfter(m) : m \in RoleMoves} : Relabel(L)
    BY DEF RoleActs
  <2>2. L \in SUBSET States
    BY <1>1, <1>3 DEF TypeOK
  <2>. QED  BY <1>1, <2>1, <2>2, RelabelTyped
<1>5. body' \in Bodies /\ writes' \in Nat
  BY <1>1 DEF RoleActs, TypeOK
<1>6. ask' \in BOOLEAN /\ aged' \in BOOLEAN
  BY <1>1 DEF RoleActs, TypeOK
<1>. QED  BY <1>4, <1>5, <1>6

\* The record at the end of a run, written next.
LEMMA EndsTyped ==
  ASSUME Typed, Running, NEW kind \in WriteKinds, NEW r \in Records, Ends(kind, r)
  PROVE  job' \in Jobs /\ RoleRuns'
<1>1. job \in Jobs
  BY JobTypes DEF Running
<1>. QED  BY <1>1 DEF Ends, Jobs, RoleRuns

LEMMA RunTyped ==
  ASSUME Typed, RunEnds \/ RunFails \/ RunTooBig \/ RunNeeds
  PROVE  Typed'
<1>1. /\ Running /\ TypeOK /\ job \in Jobs /\ job.rec \in Records
      /\ job.from \in States \cup {None} /\ job.kind \in WriteKinds
  BY JobTypes DEF Typed, RunEnds, RunFails, RunTooBig, RunNeeds, Running
<1>2. Done(job.rec) \in Records
  BY <1>1, DoneType
<1>3. Blocking(Done(job.rec), job.from) \in Records
  BY <1>1, <1>2, BlockingType
<1>4. CASE RunEnds
  <2>1. job' \in Jobs /\ RoleRuns'
    BY <1>1, <1>2, <1>4, EndsTyped DEF RunEnds
  <2>2. spec' \in Nat
    BY <1>1, <1>4 DEF RunEnds, TypeOK
  <2>. QED  BY <1>1, <1>4, <2>1, <2>2, RoleActsTyped DEF RunEnds, Typed, TypeOK
<1>5. CASE RunFails
  <2>1. PICK k \in Kinds :
          LET prev == IF SameInput THEN rec.errors ELSE NoErrors
          IN Ends(job.kind, [Done(job.rec) EXCEPT !.errors = [prev EXCEPT ![k] = @ + 1], !.kind = k])
    BY <1>5 DEF RunFails
  <2>. DEFINE prev == IF SameInput THEN rec.errors ELSE NoErrors
              errs == [prev EXCEPT ![k] = @ + 1]
  <2>2. prev \in [Kinds -> Nat]
    BY <1>1 DEF TypeOK, Records, NoErrors
  <2>3. errs \in [Kinds -> Nat]
    BY <2>2
  <2>4. [Done(job.rec) EXCEPT !.errors = errs] \in Records
    BY <1>2, <2>3, SetOthers
  <2>5. [Done(job.rec) EXCEPT !.errors = errs, !.kind = k] \in Records
    BY <2>4, SetOthers
  <2>6. job' \in Jobs /\ RoleRuns'
    BY <1>1, <2>1, <2>5, EndsTyped
  <2>. QED  BY <1>1, <1>5, <2>6 DEF RunFails, Typed, TypeOK, issue
<1>6. CASE RunTooBig
  <2>1. job' \in Jobs /\ RoleRuns'
    BY <1>1, <1>3, <1>6, EndsTyped DEF RunTooBig, WriteKinds
  <2>. QED  BY <1>1, <1>6, <2>1 DEF RunTooBig, Typed, TypeOK, issue
<1>7. CASE RunNeeds
  <2>1. [Done(job.rec) EXCEPT !.needs = IF SameInput /\ rec.needs > 0 THEN 2 ELSE 1] \in Records
    BY <1>2 DEF Records
  <2>2. job' \in Jobs /\ RoleRuns'
    <3>1. CASE job' = [job EXCEPT !.given = TRUE]
      BY <1>1, <3>1 DEF Jobs, RoleRuns, Typed
    <3>2. CASE Ends(job.kind, [Done(job.rec) EXCEPT
                                 !.needs = IF SameInput /\ rec.needs > 0 THEN 2 ELSE 1])
      BY <1>1, <2>1, <3>2, EndsTyped
    <3>3. CASE Ends("blocked", Blocking(Done(job.rec), job.from))
      BY <1>1, <1>3, <3>3, EndsTyped DEF WriteKinds
    <3>. QED  BY <1>7, <3>1, <3>2, <3>3 DEF RunNeeds
  <2>3. outside' \in Nat
    BY <1>1, <1>7 DEF RunNeeds, TypeOK
  <2>. QED  BY <1>1, <1>7, <2>2, <2>3, RoleActsTyped DEF RunNeeds, Typed, TypeOK
<1>. QED  BY <1>4, <1>5, <1>6, <1>7

LEMMA MovesTyped ==
  ASSUME Typed, Writing
  PROVE  Moves \in SUBSET SUBSET States
  BY LineAssumption DEF Moves, Typed, TypeOK

LEMMA WriteTyped ==
  ASSUME Typed, Write
  PROVE  Typed'
<1>1. TypeOK /\ job.rec \in Records
  BY JobTypes DEF Typed, Write, Writing
<1>2. labels' \in SUBSET States /\ labeled' \in [States -> AllDates]
  BY <1>1, MovesTyped, RelabelTyped DEF Write
<1>3. aged' \in BOOLEAN /\ ask' \in BOOLEAN
  BY <1>1 DEF Write, TypeOK
<1>4. RoleRuns'
  BY DEF Write, RoleRuns, NoJob
<1>. QED  BY <1>1, <1>2, <1>3, <1>4 DEF Write, Typed, TypeOK

LEMMA EnvironmentTyped ==
  ASSUME Typed, Environment
  PROVE  Typed'
<1>1. TypeOK
  BY DEF Typed
<1>2. outside' \in Nat /\ talk' \in Nat
  BY <1>1 DEF Environment, PersonMoves, PersonEdits, PersonWrites, TimePasses, OtherEnds, Lost, Torn,
              Outside, TypeOK, issue
<1>3. labels' \in SUBSET States /\ labeled' \in [States -> AllDates]
  <2>1. CASE PersonMoves
    BY <1>1, <2>1, LineAssumption, RelabelTyped DEF PersonMoves
  <2>2. CASE Torn
    BY <1>1, <2>2, MovesTyped, RelabelTyped DEF Torn
  <2>3. CASE PersonEdits \/ PersonWrites \/ TimePasses \/ OtherEnds \/ Lost
    BY <1>1, <2>3 DEF PersonEdits, PersonWrites, TimePasses, OtherEnds, Lost, TypeOK, issue
  <2>. QED  BY <2>1, <2>2, <2>3 DEF Environment
<1>4. body' \in Bodies /\ spec' = spec /\ ask' = ask /\ rec' = rec /\ writes' = writes
  BY <1>1 DEF Environment, PersonMoves, PersonEdits, PersonWrites, TimePasses, OtherEnds, Lost, Torn,
              TypeOK, issue
<1>5. (aged' = aged \/ aged' = TRUE \/ aged' = FALSE) /\ (ended' = ended \/ ended' = TRUE)
  BY DEF Environment, PersonMoves, PersonEdits, PersonWrites, TimePasses, OtherEnds, Lost, Torn, issue
<1>6. job' = job \/ job' = NoJob
  BY DEF Environment, PersonMoves, PersonEdits, PersonWrites, TimePasses, OtherEnds, Lost, Torn
<1>7. TypeOK'
  BY <1>1, <1>2, <1>3, <1>4, <1>5, <1>6 DEF TypeOK
<1>8. RoleRuns'
  BY <1>6 DEF Typed, RoleRuns, NoJob
<1>. QED  BY <1>7, <1>8 DEF Typed

-----------------------------------------------------------------------------

\* Types hold, whatever the table, the roles and their moves: every record
\* the line makes, by any of its thirteen decisions and four ends of a run,
\* is a record, every move of labels a set of states.
THEOREM TypedCorrect == Spec => []Typed
<1>1. Init => Typed
  <2>. SUFFICES ASSUME Init PROVE Typed
    OBVIOUS
  <2>1. labels \in SUBSET States /\ labeled \in [States -> AllDates]
    BY LineAssumption DEF Init, AllDates
  <2>2. RoleRuns
    BY DEF Init, RoleRuns, NoJob
  <2>. QED  BY <2>1, <2>2, NoRecType DEF Init, Typed, TypeOK
<1>2. Typed /\ [Next]_vars => Typed'
  <2>1. ASSUME Typed, UNCHANGED vars PROVE Typed'
    BY <2>1 DEF vars, issue, Typed, TypeOK, RoleRuns
  <2>. QED
    BY <2>1, DecideTyped, RunTyped, WriteTyped, EnvironmentTyped DEF Next, Line
<1>. QED  BY <1>1, <1>2, PTL DEF Spec

\* The type invariant alone, as the runs check it.
THEOREM TypeCorrect == Spec => []TypeOK
<1>1. Typed => TypeOK
  BY DEF Typed
<1>. QED  BY <1>1, TypedCorrect, PTL

-----------------------------------------------------------------------------
(* A record that reads as of now: its state's label on, of its date.  Such *)
(* a record of a state that wakes a role was written by a run of it.       *)

In(r) == <<r.state, r.body, r.labeled, r.spec>>
Current(r) == r.state \in labels /\ r.labeled = labeled[r.state]

\* Its role ran before a record of it was left as it is: the tester's own
\* state is left for refine with no run, were they one.
Woken(s) == s # Blocked /\ Role[s] # None /\ ~(s = Refine /\ Role[s] = Tester)

Dated == \A s \in labels : labeled[s] \in Dates
Stepped(r) == Current(r) /\ Woken(r.state) => r.reached # None

\* A record for the issue the line moves out of its state.
Leaving ==
    /\ job.phase = "write" /\ job.rec.state = job.from
    /\ \/ job.kind = "stale" /\ job.from # Refine
       \/ job.kind = "retest" /\ Role[job.from] = Developer
       \/ job.kind = "repro" /\ Role[job.from] = Tester

Reads ==
    \/ job.kind = "step" /\ (Woken(job.rec.state) => job.rec.reached # None)
    \/ job.rec.state = Blocked
    \/ job.kind # "step" /\ In(job.rec) = In(rec) /\ job.rec.reached = rec.reached
    \/ job.kind # "step" /\ job.rec.labeled = Never
    \/ Leaving

ReadInv == Dated /\ Stepped(rec) /\ (job # NoJob => Reads)

LEMMA CurIsLabelled ==
  ASSUME Typed, cur \in States
  PROVE  cur \in labels
<1>1. \E s \in labels : \A t \in labels : Pos[s] =< Pos[t]
  BY TableAssumption DEF cur, StateOf
<1>. QED  BY <1>1 DEF cur, StateOf

\* A label put on is dated anew; those on, and left on, keep their dates.
LEMMA RelabelDates ==
  ASSUME Typed, Dated, NEW L \in SUBSET States, Relabel(L)
  PROVE  /\ Dated'
         /\ \A s \in labels' : \/ s \in labels /\ labeled'[s] = labeled[s]
                             \/ labeled'[s] \notin DatesHeld
<1>. DEFINE date == CHOOSE d \in Dates \ DatesHeld : TRUE
<1>1. date \in Dates \ DatesHeld
  BY DEF Relabel
<1>2. /\ labels' = L
      /\ labeled' = [s \in States |-> IF s \in L \ labels THEN date
                                     ELSE IF s \in L \cup Remembered THEN labeled[s] ELSE Never]
  BY DEF Relabel
<1>. HIDE DEF date
<1>3. \A s \in L : labeled'[s] = IF s \in labels THEN labeled[s] ELSE date
  BY <1>2
<1>. QED  BY <1>1, <1>2, <1>3 DEF Dated

LEMMA RelabelCurrent ==
  ASSUME Typed, Dated, NEW L \in SUBSET States, Relabel(L)
  PROVE  /\ \A s \in labels' : labeled'[s] = rec.labeled => s \in labels /\ labeled'[s] = labeled[s]
         /\ job # NoJob => \A s \in labels' : labeled'[s] = job.rec.labeled => s \in labels /\ labeled'[s] = labeled[s]
<1>1. rec.labeled \in DatesHeld /\ (job # NoJob => job.rec.labeled \in DatesHeld)
  BY DEF DatesHeld, DatesOf
<1>. QED  BY <1>1, RelabelDates

\* What a decision leaves to run or to write: on the input it read, or, its
\* role not woken, on none or on that of the record.
DecidedReads ==
    /\ job' # NoJob /\ Reads'
    /\ job'.kind = "step" => In(job'.rec) = Input /\ job'.phase = "run"

LEMMA StartReads ==
  ASSUME NEW kind, NEW role, NEW from, NEW r, Start(kind, role, from, r)
  PROVE  /\ job' # NoJob /\ UNCHANGED <<labels, labeled, body, spec, rec, outside>>
         /\ job'.rec = r /\ job'.kind = kind /\ job'.phase = "run"
  BY DEF Start, NoJob

LEMMA LeaveReads ==
  ASSUME NEW kind, NEW r, Leave(kind, r)
  PROVE  /\ job' # NoJob /\ UNCHANGED <<labels, labeled, body, spec, rec, outside>>
         /\ job'.rec = r /\ job'.kind = kind /\ job'.phase = "write" /\ job'.from = cur
  BY DEF Leave, NoJob, issue

LEMMA BlockingReads ==
  ASSUME NEW kind, kind # "step", NEW r \in Records, NEW s, Leave(kind, Blocking(r, s))
  PROVE  DecidedReads
<1>1. Blocking(r, s).state = Blocked
  BY DEF Blocking, Records
<1>. QED  BY <1>1, LeaveReads DEF DecidedReads, Reads

LEMMA SameReads ==
  ASSUME NEW kind, kind # "step", NEW r, In(r) = In(rec), r.reached = rec.reached,
         Leave(kind, r) \/ \E role, from : Start(kind, role, from, r)
  PROVE  DecidedReads
<1>1. job' # NoJob /\ rec' = rec /\ job'.rec = r /\ job'.kind = kind
  BY StartReads, LeaveReads
<1>. QED  BY <1>1 DEF DecidedReads, Reads, In

LEMMA ProceedReads ==
  ASSUME Typed, Waking, NEW r \in Records, Proceed(r), In(r) = Input, Woken(r.state) => r.reached # None
  PROVE  DecidedReads
<1>1. rec \in Records
  BY DEF Typed, TypeOK
<1>2. CASE Leave("capped", Blocking(r, cur))
  BY <1>2, BlockingReads
<1>3. CASE Leave("waits", [rec EXCEPT !.waits = NextOf[cur]])
  <2>1. In([rec EXCEPT !.waits = NextOf[cur]]) = In(rec)
        /\ [rec EXCEPT !.waits = NextOf[cur]].reached = rec.reached
    BY <1>1 DEF In, Records
  <2>. QED  BY <1>3, <2>1, SameReads
<1>4. ASSUME NEW q, Start("step", Wakes, cur, q), In(q) = In(r), q.reached = r.reached, q.state = r.state
      PROVE  DecidedReads
  <2>1. job' # NoJob /\ job'.rec = q /\ job'.kind = "step" /\ job'.phase = "run"
    BY <1>4, StartReads
  <2>. QED  BY <1>4, <2>1 DEF DecidedReads, Reads
<1>5. CASE Start("step", Wakes, cur, [r EXCEPT !.woke = labeled[NextOf[cur]]])
  <2>1. /\ In([r EXCEPT !.woke = labeled[NextOf[cur]]]) = In(r)
        /\ [r EXCEPT !.woke = labeled[NextOf[cur]]].reached = r.reached
        /\ [r EXCEPT !.woke = labeled[NextOf[cur]]].state = r.state
    BY DEF In, Records
  <2>. QED  BY <1>4, <1>5, <2>1
<1>6. CASE Start("step", Wakes, cur, r)
  BY <1>4, <1>6
<1>. QED  BY <1>2, <1>3, <1>5, <1>6 DEF Proceed

\* Not due: the record reads as the input, and its state's role ran.
LEMMA NotDueReads ==
  ASSUME Typed, Stepped(rec), Waking, ~Due
  PROVE  In(rec) = Input /\ rec.state = cur /\ (Woken(rec.state) => rec.reached # None)
<1>1. cur \in States /\ cur \in labels
  BY CurIsLabelled DEF Waking, Reading
<1>2. rec.state = cur /\ rec.body = body /\ rec.labeled = labeled[cur] /\ rec.spec = SpecNow
  BY DEF Due
<1>. QED  BY <1>1, <1>2 DEF In, Input, Stepped, Current

LEMMA DecideReads ==
  ASSUME Typed, Stepped(rec), Decide
  PROVE  DecidedReads
<1>1. /\ TypeOK /\ cur \in States /\ rec \in Records /\ None \notin States
      /\ LeftRecord \in Records /\ SeenRecord \in Records /\ ClaimBase \in Records
      /\ NewRecord \in Records
  <2>1. TypeOK /\ cur \in States
    BY DEF Typed, Decide, Stale, SeeBlocked, Revisit, LetGo, SpendClaim, Retest, Repro, Wake,
           Retry, GiveNeeds, WakeOnce, GiveUp, Freed, Acted, Waking, Reading
  <2>. QED  BY <2>1, MadeTypes, TableAssumption DEF TypeOK
<1>2. Wakes # None => Role[cur] = Wakes
  BY DEF Wakes
<1>3. LeftRecord.state = cur
  BY DEF LeftRecord, NoRec
<1>4. CASE Stale
  <2>1. CASE Leave("kept", [rec EXCEPT !.kept = labeled[cur]])
    <3>1. In([rec EXCEPT !.kept = labeled[cur]]) = In(rec)
          /\ [rec EXCEPT !.kept = labeled[cur]].reached = rec.reached
      BY <1>1 DEF In, Records
    <3>. QED  BY <2>1, <3>1, SameReads
  <2>2. CASE Leave("stale", [LeftRecord EXCEPT !.stale = cur])
    <3>1. [LeftRecord EXCEPT !.stale = cur].state = cur
      BY <1>1, <1>3 DEF Records
    <3>2. job' # NoJob /\ job'.kind = "stale" /\ job'.phase = "write" /\ job'.from = cur /\ job'.rec.state = cur
      BY <2>2, <3>1, LeaveReads
    <3>3. cur # Refine
      BY <1>4 DEF Stale
    <3>. QED  BY <3>2, <3>3 DEF DecidedReads, Reads, Leaving
  <2>. QED  BY <1>4, <2>1, <2>2 DEF Stale
<1>5. CASE SeeBlocked
  <2>1. SeenRecord.state = Blocked
    BY DEF SeenRecord, NoRec
  <2>. QED  BY <1>5, <2>1, LeaveReads, StartReads DEF SeeBlocked, DecidedReads, Reads
<1>6. CASE Revisit
  <2>1. [rec EXCEPT !.body = body, !.talk = talk].state = Blocked
    BY <1>1, <1>6 DEF Revisit, Records
  <2>2. job' # NoJob /\ job'.kind = "revisit" /\ job'.rec.state = Blocked
    BY <1>6, <2>1, StartReads DEF Revisit
  <2>. QED  BY <2>2 DEF DecidedReads, Reads
<1>7. CASE LetGo
  <2>1. PICK key : Start("claim", Developer, cur, [ClaimBase EXCEPT !.claim = key])
    BY <1>7 DEF LetGo
  <2>. DEFINE r == [ClaimBase EXCEPT !.claim = key]
  <2>2. In(r) = In(ClaimBase) /\ r.reached = ClaimBase.reached /\ r.labeled = ClaimBase.labeled
    BY <1>1 DEF In, Records
  <2>3. CASE had
    <3>1. In(r) = In(rec) /\ r.reached = rec.reached
      BY <2>2, <2>3 DEF ClaimBase
    <3>. QED  BY <2>1, <3>1, SameReads
  <2>4. CASE ~had
    <3>1. r.labeled = Never
      BY <2>2, <2>4 DEF ClaimBase, NoRec
    <3>2. job' # NoJob /\ job'.kind = "claim" /\ job'.rec = r
      BY <2>1, StartReads
    <3>. QED  BY <3>1, <3>2 DEF DecidedReads, Reads
  <2>. QED  BY <2>3, <2>4
<1>8. CASE SpendClaim
  BY <1>1, <1>8, BlockingReads DEF SpendClaim
<1>9. CASE Retest
  <2>1. CASE Leave("retestKept", [rec EXCEPT !.retestKept = labeled[cur]])
    <3>1. In([rec EXCEPT !.retestKept = labeled[cur]]) = In(rec)
          /\ [rec EXCEPT !.retestKept = labeled[cur]].reached = rec.reached
      BY <1>1 DEF In, Records
    <3>. QED  BY <2>1, <3>1, SameReads
  <2>2. CASE Leave("retest", [LeftRecord EXCEPT !.retest = cur])
    <3>1. [LeftRecord EXCEPT !.retest = cur].state = cur
      BY <1>1, <1>3 DEF Records
    <3>2. Role[cur] = Developer
      BY <1>2, <1>9 DEF Retest, Waking
    <3>. QED  BY <2>2, <3>1, <3>2, LeaveReads DEF DecidedReads, Reads, Leaving
  <2>. QED  BY <1>9, <2>1, <2>2 DEF Retest
<1>10. CASE Repro
  <2>1. Role[cur] = Tester
    BY <1>2, <1>10 DEF Repro, Waking
  <2>2. CASE Leave("repro", LeftRecord)
    BY <1>3, <2>1, <2>2, LeaveReads DEF DecidedReads, Reads, Leaving
  <2>3. CASE Leave("blocked", Blocking(LeftRecord, cur))
    BY <1>1, <2>3, BlockingReads
  <2>. QED  BY <1>10, <2>2, <2>3 DEF Repro
<1>11. CASE Wake
  <2>1. NewRecord.reached = ReachedNow /\ In(NewRecord) = Input
    BY DEF NewRecord, NoRec, In, Input
  <2>2. ReachedNow # None
    BY <1>1 DEF ReachedNow
  <2>. QED  BY <1>1, <1>11, <2>1, <2>2, ProceedReads DEF Wake
<1>12. ASSUME Leave("blocked", Blocking(rec, cur)) PROVE DecidedReads
  BY <1>1, <1>12, BlockingReads
<1>13. CASE Retry
  BY <1>1, <1>12, <1>13, NotDueReads, ProceedReads DEF Retry
<1>14. CASE GiveNeeds
  BY <1>1, <1>12, <1>14, NotDueReads, ProceedReads DEF GiveNeeds
<1>15. CASE WakeOnce
  <2>1. PICK m \in Marks[cur] \ rec.marks : Waking /\ Proceed([rec EXCEPT !.marks = @ \cup {m}])
    BY <1>15 DEF WakeOnce, Acted
  <2>. DEFINE r == [rec EXCEPT !.marks = @ \cup {m}]
  <2>2. rec.marks \cup {m} \in SUBSET MarkNames
    BY <1>1, <2>1, LineAssumption DEF Records
  <2>3. r \in Records
    BY <1>1, <2>2, SetOthers
  <2>4. In(r) = In(rec) /\ r.reached = rec.reached /\ r.state = rec.state
    BY <1>1 DEF In, Records
  <2>5. In(r) = Input /\ (Woken(r.state) => r.reached # None)
    BY <1>15, <2>4, NotDueReads DEF WakeOnce, Acted
  <2>. QED  BY <2>1, <2>3, <2>5, ProceedReads
<1>16. CASE GiveUp
  BY <1>12, <1>16 DEF GiveUp
<1>17. CASE Freed
  <2>. DEFINE r == [rec EXCEPT !.hops = @ + 1]
  <2>1. r \in Records /\ In(r) = In(rec) /\ r.reached = rec.reached /\ r.state = rec.state
    BY <1>1 DEF In, Records
  <2>2. Waking /\ In(rec) = Input /\ (Woken(rec.state) => rec.reached # None)
    BY <1>17, NotDueReads DEF Freed, Acted
  <2>3. In(r) = Input /\ (Woken(r.state) => r.reached # None)
    BY <2>1, <2>2
  <2>4. CASE Proceed(r)
    BY <2>1, <2>2, <2>3, <2>4, ProceedReads
  <2>5. CASE Proceed(rec)
    BY <1>1, <2>2, <2>5, ProceedReads
  <2>. QED  BY <1>17, <2>4, <2>5 DEF Freed
<1>. QED  BY <1>4, <1>5, <1>6, <1>7, <1>8, <1>9, <1>10, <1>11, <1>13, <1>14, <1>15, <1>16, <1>17
          DEF Decide

\* A run goes on, or ends, on the input it was woken on, or blocks.
LEMMA RunReads ==
  ASSUME Typed, RunEnds \/ RunFails \/ RunTooBig \/ RunNeeds
  PROVE  /\ job # NoJob /\ job.phase = "run" /\ job' # NoJob /\ rec' = rec
         /\ \/ job'.rec.state = Blocked /\ job'.kind = "blocked"
            \/ /\ job'.kind = job.kind /\ In(job'.rec) = In(job.rec)
               /\ job'.rec.reached = job.rec.reached /\ job'.rec.state = job.rec.state
               /\ job'.rec.labeled = job.rec.labeled
<1>1. Running /\ job \in Jobs /\ job.rec \in Records /\ job # NoJob
  <2>1. Running
    BY DEF RunEnds, RunFails, RunTooBig, RunNeeds
  <2>. QED  BY <2>1, JobTypes DEF Running, NoJob
<1>2. Done(job.rec) \in Records /\ rec' = rec
  BY <1>1, DoneType DEF RunEnds, RunFails, RunTooBig, RunNeeds
<1>3. ASSUME NEW kind, NEW r, Ends(kind, r)
      PROVE  job'.rec = r /\ job'.kind = kind /\ job' # NoJob
  BY <1>1, <1>3 DEF Ends, Jobs, NoJob
<1>4. Blocking(Done(job.rec), job.from).state = Blocked
  BY <1>2 DEF Blocking, Records
<1>5. ASSUME NEW r, Ends(job.kind, r), In(r) = In(job.rec), r.reached = job.rec.reached,
             r.state = job.rec.state, r.labeled = job.rec.labeled
      PROVE  /\ job' # NoJob /\ job'.kind = job.kind /\ In(job'.rec) = In(job.rec)
             /\ job'.rec.reached = job.rec.reached /\ job'.rec.state = job.rec.state
             /\ job'.rec.labeled = job.rec.labeled
  BY <1>3, <1>5
<1>6. ASSUME Ends("blocked", Blocking(Done(job.rec), job.from))
      PROVE  job' # NoJob /\ job'.rec.state = Blocked /\ job'.kind = "blocked"
  BY <1>3, <1>4, <1>6
<1>7. \A e, k, n :
        LET r == [Done(job.rec) EXCEPT !.errors = e, !.kind = k]
            q == [Done(job.rec) EXCEPT !.needs = n]
            d == Done(job.rec)
        IN  /\ In(r) = In(job.rec) /\ r.reached = job.rec.reached
            /\ r.state = job.rec.state /\ r.labeled = job.rec.labeled
            /\ In(q) = In(job.rec) /\ q.reached = job.rec.reached
            /\ q.state = job.rec.state /\ q.labeled = job.rec.labeled
            /\ In(d) = In(job.rec) /\ d.reached = job.rec.reached
            /\ d.state = job.rec.state /\ d.labeled = job.rec.labeled
  BY <1>1, <1>2 DEF In, Done, Records
<1>8. CASE RunEnds
  BY <1>1, <1>2, <1>5, <1>7, <1>8 DEF RunEnds, Running
<1>9. CASE RunFails
  <2>1. PICK k \in Kinds : \E e : Ends(job.kind, [Done(job.rec) EXCEPT !.errors = e, !.kind = k])
    BY <1>9 DEF RunFails
  <2>2. PICK e : Ends(job.kind, [Done(job.rec) EXCEPT !.errors = e, !.kind = k])
    BY <2>1
  <2>. DEFINE r == [Done(job.rec) EXCEPT !.errors = e, !.kind = k]
  <2>3. /\ In(r) = In(job.rec) /\ r.reached = job.rec.reached
        /\ r.state = job.rec.state /\ r.labeled = job.rec.labeled
    BY <1>7
  <2>4. Ends(job.kind, r)
    BY <2>2
  <2>. HIDE DEF r
  <2>. QED  BY <1>1, <1>2, <1>5, <2>3, <2>4 DEF Running
<1>10. CASE RunTooBig
  BY <1>1, <1>2, <1>6, <1>10 DEF RunTooBig, Running
<1>11. CASE RunNeeds
  <2>1. CASE job' = [job EXCEPT !.given = TRUE]
    <3>1. job'.rec = job.rec /\ job' # NoJob /\ job'.kind = job.kind
      BY <1>1, <2>1 DEF Jobs, NoJob, Running
    <3>. QED  BY <1>1, <1>2, <3>1 DEF Running
  <2>2. CASE Ends(job.kind, [Done(job.rec) EXCEPT
                               !.needs = IF SameInput /\ rec.needs > 0 THEN 2 ELSE 1])
    BY <1>1, <1>2, <1>5, <1>7, <2>2 DEF Running
  <2>3. CASE Ends("blocked", Blocking(Done(job.rec), job.from))
    BY <1>1, <1>2, <1>6, <2>3 DEF Running
  <2>. QED  BY <1>11, <2>1, <2>2, <2>3 DEF RunNeeds
<1>. QED  BY <1>8, <1>9, <1>10, <1>11

\* Every step relabels the issue, or leaves its labels and their dates.
LEMMA NextRelabels ==
  ASSUME Typed, [Next]_vars
  PROVE  UNCHANGED <<labels, labeled>> \/ \E L \in SUBSET States : Relabel(L)
<1>1. CASE Decide
  BY <1>1 DEF Decide, Stale, SeeBlocked, Revisit, LetGo, SpendClaim, Retest, Repro, Wake,
              Retry, GiveNeeds, WakeOnce, GiveUp, Freed, Proceed, Start, Leave, issue
<1>2. CASE RunEnds \/ RunNeeds
  <2>1. RoleActs /\ labels' \in SUBSET States
    BY <1>2, RoleActsTyped DEF RunEnds, RunNeeds
  <2>2. PICK L : Relabel(L)
    BY <2>1 DEF RoleActs
  <2>3. L = labels'
    BY <2>2 DEF Relabel
  <2>. QED  BY <2>1, <2>2, <2>3
<1>3. CASE RunFails \/ RunTooBig
  BY <1>3 DEF RunFails, RunTooBig, issue
<1>4. CASE Write
  BY <1>4, MovesTyped DEF Write
<1>5. CASE Environment
  <2>1. CASE Torn
    BY <2>1, MovesTyped DEF Torn
  <2>2. CASE PersonMoves
    BY <2>2, LineAssumption DEF PersonMoves
  <2>. QED  BY <1>5, <2>1, <2>2 DEF Environment, PersonEdits, PersonWrites, TimePasses, OtherEnds, Lost, issue
<1>. QED  BY <1>1, <1>2, <1>3, <1>4, <1>5 DEF Next, Line, vars, issue

\* No step makes a record there was read as of now again.
LEMMA NoneMadeCurrent ==
  ASSUME Typed, Dated, [Next]_vars
  PROVE  /\ Dated'
         /\ \A s \in labels' : labeled'[s] = rec.labeled => s \in labels /\ labeled'[s] = labeled[s]
         /\ job # NoJob => \A s \in labels' :
                labeled'[s] = job.rec.labeled => s \in labels /\ labeled'[s] = labeled[s]
<1>1. CASE UNCHANGED <<labels, labeled>>
  BY <1>1 DEF Dated
<1>2. ASSUME NEW L \in SUBSET States, Relabel(L)
      PROVE  /\ Dated'
             /\ \A s \in labels' : labeled'[s] = rec.labeled => s \in labels /\ labeled'[s] = labeled[s]
             /\ job # NoJob => \A s \in labels' :
                    labeled'[s] = job.rec.labeled => s \in labels /\ labeled'[s] = labeled[s]
  BY <1>2, RelabelDates, RelabelCurrent
<1>. QED  BY <1>1, <1>2, NextRelabels

\* A record written that reads as of now is of a step, or is the one read.
LEMMA WriteReads ==
  ASSUME Typed, ReadInv, Write, Current(rec)', Woken(rec'.state)
  PROVE  /\ rec' = job.rec /\ job' = NoJob
         /\ \/ job.kind = "step" /\ job.rec.reached # None
            \/ /\ job.kind # "step" /\ In(job.rec) = In(rec)
               /\ job.rec.reached = rec.reached /\ job.rec.state = rec.state /\ Current(rec)
<1>1. job # NoJob /\ rec' = job.rec /\ job' = NoJob /\ job \in Jobs /\ Writing
  BY JobTypes DEF Write, Writing, NoJob
<1>2. Reads /\ Dated' /\ Never \notin Dates /\ job.rec.state # Blocked
  BY <1>1, NoneMadeCurrent, LineAssumption DEF ReadInv, Next, Line, Woken
<1>3. job.rec.state \in labels' /\ labeled'[job.rec.state] = job.rec.labeled
  BY <1>1 DEF Current
<1>4. job.rec.state \in labels /\ labeled[job.rec.state] = job.rec.labeled
  BY <1>1, <1>3, NoneMadeCurrent DEF ReadInv, Next, Line
<1>5. job.rec.labeled # Never
  BY <1>2, <1>3 DEF Dated
<1>6. ~Leaving
  <2>. SUFFICES ASSUME Leaving PROVE FALSE
    OBVIOUS
  <2>1. PICK L \in Moves : labels' = L
    BY DEF Write, Relabel
  <2>2. CASE job.kind \in {"stale", "repro"}
    <3>1. Moves = {{Refine}}
      BY <2>2 DEF Moves
    <3>2. job.rec.state = Refine
      BY <1>3, <2>1, <3>1
    <3>. QED  BY <1>1, <2>2, <3>2 DEF Leaving, Woken
  <2>3. CASE job.kind = "retest"
    <3>1. \E t \in States : labels' = {t} /\ Role[t] = Tester
      BY <2>1, <2>3 DEF Moves
    <3>. QED  BY <1>3, <2>3, <3>1, LineAssumption DEF Leaving
  <2>. QED  BY <2>2, <2>3 DEF Leaving
<1>7. CASE job.kind = "step"
  BY <1>1, <1>2, <1>5, <1>6, <1>7 DEF Reads
<1>8. CASE job.kind # "step"
  <2>1. In(job.rec) = In(rec) /\ job.rec.reached = rec.reached
    BY <1>2, <1>5, <1>6, <1>8 DEF Reads
  <2>2. job.rec.state = rec.state /\ job.rec.labeled = rec.labeled
    BY <2>1 DEF In
  <2>. QED  BY <1>1, <1>4, <1>8, <2>1, <2>2 DEF Current
<1>. QED  BY <1>7, <1>8

LEMMA ReadStep ==
  ASSUME Typed, ReadInv, [Next]_vars
  PROVE  ReadInv'
<1>1. Dated'
  BY NoneMadeCurrent DEF ReadInv
<1>2. Stepped(rec)'
  <2>1. CASE rec' = rec
    BY <2>1, NoneMadeCurrent DEF ReadInv, Stepped, Current
  <2>2. CASE Write
    BY <2>2, WriteReads DEF ReadInv, Stepped
  <2>. QED  BY <2>1, <2>2, DecideReads, RunReads
            DEF ReadInv, Next, Line, Environment, PersonMoves, PersonEdits, PersonWrites, TimePasses,
                OtherEnds, Lost, Torn, vars, Decide, Stale, SeeBlocked, Revisit, LetGo, SpendClaim, Retest,
                Repro, Wake, Retry, GiveNeeds, WakeOnce, GiveUp, Freed, Proceed, Start, Leave
<1>3. job' # NoJob => Reads'
  <2>1. CASE UNCHANGED <<job, rec>>
    BY <2>1 DEF ReadInv, Reads, Leaving, In
  <2>2. CASE job' = NoJob
    BY <2>2
  <2>3. CASE Decide
    BY <2>3, DecideReads DEF ReadInv, DecidedReads
  <2>4. CASE RunEnds \/ RunFails \/ RunTooBig \/ RunNeeds
    <3>1. ~Leaving
      BY <2>4, RunReads DEF Leaving
    <3>. QED  BY <2>4, <3>1, RunReads DEF ReadInv, Reads, In
  <2>. QED  BY <2>1, <2>2, <2>3, <2>4
            DEF Next, Line, Write, Environment, PersonMoves, PersonEdits, PersonWrites, TimePasses,
                OtherEnds, Lost, Torn, vars
<1>. QED  BY <1>1, <1>2, <1>3 DEF ReadInv

LEMMA ReadCorrect == Spec => []ReadInv
<1>1. ASSUME Init PROVE ReadInv
  <2>1. Dated
    BY <1>1, LineAssumption DEF Init, Dated
  <2>2. Stepped(rec) /\ job = NoJob
    <3>1. labels \subseteq States /\ rec = NoRec /\ job = NoJob
      BY <1>1, LineAssumption DEF Init
    <3>2. rec.state \notin labels
      BY <3>1, TableAssumption DEF NoRec
    <3>. QED  BY <3>1, <3>2 DEF Stepped, Current
  <2>. QED  BY <2>1, <2>2 DEF ReadInv
<1>2. Typed /\ ReadInv /\ [Next]_vars => ReadInv'
  BY ReadStep
<1>. QED  BY <1>1, <1>2, TypedCorrect, PTL DEF Spec

-----------------------------------------------------------------------------
(* What a decision's record makes of the one it read: carried on, or made  *)
(* anew for a step due on a new input.                                     *)

CarriesOn ==
    /\ job'.rec.reached = rec.reached
    /\ job'.rec.state # None \/ job'.rec.state = rec.state
    /\ \/ job'.rec.hops = rec.hops
       \/ /\ job'.rec.hops = rec.hops + 1 /\ job'.rec.state # None /\ rec.reached # None
          /\ job'.rec.state # rec.state \/ rec.state = Blocked \/ job'.rec.woke # rec.woke
    /\ job'.phase = "run" /\ job'.kind = "step" => job'.rec.state = rec.state

BeginsAnew ==
    /\ cur \in States \ {Blocked} /\ Role[cur] # None
    /\ job'.rec.reached = ReachedNow /\ job'.rec.hops = HopsNow
    /\ \/ job'.phase = "run" /\ job'.kind = "step" /\ job'.rec.state = cur /\ HopsNow =< MaxHops
       \/ job'.phase = "write" /\ job'.rec.state = Blocked /\ HopsNow > MaxHops

\* A record of no state, or with none reached, counts nothing; none
\* reached Blocked.
Sound(r) ==
    /\ r.state = None => r.reached = None
    /\ r.reached = None => r.hops = 0
    /\ r.reached # Blocked

LEMMA BlockingFields ==
  ASSUME NEW r \in Records, NEW s
  PROVE  /\ Blocking(r, s).state = Blocked /\ Blocking(r, s).hops = r.hops
         /\ Blocking(r, s).reached = r.reached
  BY DEF Blocking, Records

LEMMA DoneFields ==
  ASSUME NEW r \in Records
  PROVE  /\ Done(r).state = r.state /\ Done(r).hops = r.hops
         /\ Done(r).reached = r.reached /\ Done(r).woke = r.woke
  BY DEF Done, Records

LEMMA MadeFields ==
  /\ NewRecord.state = cur /\ NewRecord.hops = HopsNow /\ NewRecord.reached = ReachedNow
  /\ LeftRecord.state = cur /\ LeftRecord.hops = rec.hops /\ LeftRecord.reached = rec.reached
  /\ SeenRecord.state = Blocked /\ SeenRecord.hops = rec.hops /\ SeenRecord.reached = rec.reached
<1>1. NewRecord.state = cur /\ NewRecord.hops = HopsNow /\ NewRecord.reached = ReachedNow
  BY DEF NewRecord, NoRec
<1>2. LeftRecord.state = cur /\ LeftRecord.hops = rec.hops /\ LeftRecord.reached = rec.reached
  BY DEF LeftRecord, NoRec
<1>3. SeenRecord.state = Blocked /\ SeenRecord.hops = rec.hops /\ SeenRecord.reached = rec.reached
  BY DEF SeenRecord, NoRec
<1>. QED  BY <1>1, <1>2, <1>3

LEMMA ProceedMakes ==
  ASSUME Typed, Waking, NEW r \in Records, Proceed(r),
         \/ /\ r.reached = rec.reached /\ r.state = rec.state
            /\ \/ r.hops = rec.hops
               \/ /\ r.hops = rec.hops + 1 /\ rec.state # None /\ rec.reached # None
                  /\ Wakes = Developer /\ NextOf[cur] # None /\ labeled[NextOf[cur]] # rec.woke
         \/ r = NewRecord
  PROVE  CarriesOn \/ BeginsAnew
<1>1. /\ rec \in Records /\ cur \in States \ {Blocked} /\ Role[cur] # None
      /\ r.hops \in Nat /\ MaxHops \in Nat /\ Blocked # None
  BY TableAssumption, LineAssumption DEF Waking, Reading, Wakes, Typed, TypeOK, Records
<1>2. CASE r.hops > MaxHops /\ Leave("capped", Blocking(r, cur))
  BY <1>1, <1>2, BlockingFields, MadeFields DEF Leave, CarriesOn, BeginsAnew
<1>3. CASE Leave("waits", [rec EXCEPT !.waits = NextOf[cur]])
  BY <1>1, <1>3 DEF Leave, CarriesOn, Records
<1>4. CASE r.hops =< MaxHops /\ Start("step", Wakes, cur, [r EXCEPT !.woke = labeled[NextOf[cur]]])
  <2>. DEFINE q == [r EXCEPT !.woke = labeled[NextOf[cur]]]
  <2>1. /\ q.reached = r.reached /\ q.state = r.state /\ q.hops = r.hops
        /\ q.woke = labeled[NextOf[cur]]
    BY DEF Records
  <2>2. job'.rec = q /\ job'.phase = "run" /\ job'.kind = "step"
    BY <1>4 DEF Start
  <2>. QED  BY <1>1, <1>4, <2>1, <2>2, MadeFields DEF CarriesOn, BeginsAnew
<1>5. CASE /\ r.hops =< MaxHops /\ Start("step", Wakes, cur, r)
           /\ ~(Wakes = Developer /\ NextOf[cur] # None)
  <2>1. job'.rec = r /\ job'.phase = "run" /\ job'.kind = "step"
    BY <1>5 DEF Start
  <2>. QED  BY <1>1, <1>5, <2>1, MadeFields DEF CarriesOn, BeginsAnew
<1>. QED  BY <1>2, <1>3, <1>4, <1>5 DEF Proceed

LEMMA DecideMakes ==
  ASSUME Typed, Stepped(rec), Sound(rec), Decide
  PROVE  /\ job = NoJob /\ job' # NoJob /\ rec' = rec /\ outside' = outside
         /\ CarriesOn \/ BeginsAnew
<1>1. /\ TypeOK /\ cur \in States /\ rec \in Records /\ None \notin States /\ Blocked \in States
      /\ LeftRecord \in Records /\ SeenRecord \in Records /\ ClaimBase \in Records
      /\ NewRecord \in Records
  <2>1. TypeOK /\ cur \in States
    BY DEF Typed, Decide, Stale, SeeBlocked, Revisit, LetGo, SpendClaim, Retest, Repro, Wake,
           Retry, GiveNeeds, WakeOnce, GiveUp, Freed, Acted, Waking, Reading
  <2>. QED  BY <2>1, MadeTypes, TableAssumption, LineAssumption DEF TypeOK
<1>2. job = NoJob
  BY DEF Decide, Stale, SeeBlocked, Revisit, LetGo, SpendClaim, Retest, Repro, Wake,
         Retry, GiveNeeds, WakeOnce, GiveUp, Freed, Acted, Waking, Reading
<1>3. ASSUME NEW kind, NEW role, NEW from, NEW r, Start(kind, role, from, r)
      PROVE  /\ job' # NoJob /\ rec' = rec /\ outside' = outside
             /\ job'.rec = r /\ job'.kind = kind /\ job'.phase = "run"
  BY <1>3 DEF Start, NoJob
<1>4. ASSUME NEW kind, NEW r, Leave(kind, r)
      PROVE  /\ job' # NoJob /\ rec' = rec /\ outside' = outside
             /\ job'.rec = r /\ job'.kind = kind /\ job'.phase = "write"
  BY <1>4 DEF Leave, NoJob
<1>5. job' # NoJob /\ rec' = rec /\ outside' = outside
  <2>1. ASSUME NEW r, Proceed(r) PROVE job' # NoJob /\ rec' = rec /\ outside' = outside
    BY <2>1, <1>3, <1>4 DEF Proceed
  <2>. QED
    BY <1>3, <1>4, <2>1
    DEF Decide, Stale, SeeBlocked, Revisit, LetGo, SpendClaim, Retest, Repro, Wake,
        Retry, GiveNeeds, WakeOnce, GiveUp, Freed
<1>6. CASE Stale
  <2>1. /\ [rec EXCEPT !.kept = labeled[cur]].reached = rec.reached
        /\ [rec EXCEPT !.kept = labeled[cur]].state = rec.state
        /\ [rec EXCEPT !.kept = labeled[cur]].hops = rec.hops
        /\ [LeftRecord EXCEPT !.stale = cur].reached = rec.reached
        /\ [LeftRecord EXCEPT !.stale = cur].state = cur
        /\ [LeftRecord EXCEPT !.stale = cur].hops = rec.hops
    BY <1>1, MadeFields DEF Records
  <2>. QED  BY <1>1, <1>2, <1>4, <1>5, <1>6, <2>1 DEF Stale, CarriesOn
<1>7. CASE SeeBlocked
  BY <1>1, <1>2, <1>3, <1>4, <1>5, <1>7, MadeFields DEF SeeBlocked, CarriesOn
<1>8. CASE Revisit
  <2>1. /\ [rec EXCEPT !.body = body, !.talk = talk].reached = rec.reached
        /\ [rec EXCEPT !.body = body, !.talk = talk].state = rec.state
        /\ [rec EXCEPT !.body = body, !.talk = talk].hops = rec.hops
    BY <1>1 DEF Records
  <2>. QED  BY <1>2, <1>3, <1>5, <1>8, <2>1 DEF Revisit, CarriesOn
<1>9. /\ ClaimBase.reached = rec.reached /\ ClaimBase.hops = rec.hops
      /\ ClaimBase.state # None \/ ClaimBase.state = rec.state
  BY <1>1 DEF ClaimBase, NoRec, had
<1>10. CASE LetGo
  <2>. DEFINE key == IF aged THEN <<"hours", labeled[Doing]>> ELSE <<"body", body>>
              r == [ClaimBase EXCEPT !.claim = key]
  <2>1. r.reached = ClaimBase.reached /\ r.hops = ClaimBase.hops /\ r.state = ClaimBase.state
    BY <1>1 DEF Records
  <2>2. Start("claim", Developer, cur, r)
    BY <1>10 DEF LetGo
  <2>3. job'.rec = r /\ job'.kind = "claim"
    BY <2>2 DEF Start
  <2>. HIDE DEF r
  <2>. QED  BY <1>2, <1>5, <1>9, <2>1, <2>3 DEF CarriesOn
<1>11. CASE SpendClaim
  BY <1>1, <1>2, <1>4, <1>5, <1>9, <1>11, BlockingFields DEF SpendClaim, CarriesOn
<1>12. CASE Retest
  <2>1. /\ [rec EXCEPT !.retestKept = labeled[cur]].reached = rec.reached
        /\ [rec EXCEPT !.retestKept = labeled[cur]].state = rec.state
        /\ [rec EXCEPT !.retestKept = labeled[cur]].hops = rec.hops
        /\ [LeftRecord EXCEPT !.retest = cur].reached = rec.reached
        /\ [LeftRecord EXCEPT !.retest = cur].state = cur
        /\ [LeftRecord EXCEPT !.retest = cur].hops = rec.hops
    BY <1>1, MadeFields DEF Records
  <2>. QED  BY <1>1, <1>2, <1>4, <1>5, <1>12, <2>1 DEF Retest, CarriesOn
<1>13. CASE Repro
  BY <1>1, <1>2, <1>4, <1>5, <1>13, MadeFields, BlockingFields DEF Repro, CarriesOn
<1>14. ASSUME Leave("blocked", Blocking(rec, cur)) PROVE CarriesOn
  BY <1>1, <1>4, <1>14, BlockingFields DEF CarriesOn
<1>15. CASE Wake
  BY <1>1, <1>2, <1>5, <1>15, ProceedMakes DEF Wake
<1>16. CASE Retry
  BY <1>1, <1>2, <1>5, <1>14, <1>16, ProceedMakes DEF Retry
<1>17. CASE GiveNeeds
  BY <1>1, <1>2, <1>5, <1>14, <1>17, ProceedMakes DEF GiveNeeds
<1>18. CASE WakeOnce
  <2>1. PICK m \in Marks[cur] \ rec.marks : Waking /\ Proceed([rec EXCEPT !.marks = @ \cup {m}])
    BY <1>18 DEF WakeOnce, Acted
  <2>. DEFINE r == [rec EXCEPT !.marks = @ \cup {m}]
  <2>2. r.reached = rec.reached /\ r.hops = rec.hops /\ r.state = rec.state
    BY <1>1 DEF Records
  <2>3. rec.marks \cup {m} \in SUBSET MarkNames
    BY <1>1, <2>1, LineAssumption DEF Records
  <2>4. r \in Records
    BY <1>1, <2>3, SetOthers
  <2>. QED  BY <1>2, <1>5, <2>1, <2>2, <2>4, ProceedMakes
<1>19. CASE GiveUp
  BY <1>2, <1>5, <1>14, <1>19 DEF GiveUp
<1>20. CASE Freed
  <2>. DEFINE r == [rec EXCEPT !.hops = @ + 1]
  <2>1. r.reached = rec.reached /\ r.hops = rec.hops + 1 /\ r.state = rec.state /\ r \in Records
    BY <1>1 DEF Records
  <2>2. Waking /\ Wakes = Developer /\ NextOf[cur] # None /\ rec.state # None
    BY <1>1, <1>20 DEF Freed, Acted, Due
  <2>5. rec.reached # None
    <3>1. rec.state = cur /\ (Woken(rec.state) => rec.reached # None)
      BY <1>20, NotDueReads DEF Freed, Acted
    <3>2. cur # Blocked /\ Role[cur] = Developer
      BY <2>2, LineAssumption DEF Waking, Wakes
    <3>. QED  BY <3>1, <3>2, LineAssumption DEF Woken
  <2>3. CASE labeled[NextOf[cur]] # rec.woke /\ Proceed(r)
    BY <1>2, <1>5, <2>1, <2>2, <2>3, <2>5, ProceedMakes
  <2>4. CASE Proceed(rec)
    BY <1>1, <1>2, <1>5, <2>2, <2>4, ProceedMakes
  <2>. QED  BY <1>20, <2>3, <2>4 DEF Freed
<1>. QED  BY <1>6, <1>7, <1>8, <1>10, <1>11, <1>12, <1>13, <1>15, <1>16, <1>17, <1>18, <1>19, <1>20
          DEF Decide

-----------------------------------------------------------------------------
(* The record from one writing to the next.                                *)

\* The run goes on, or its record is to be written.
RunsOn ==
    /\ job # NoJob /\ job' # NoJob /\ rec' = rec
    /\ job'.rec.reached = job.rec.reached /\ job'.rec.hops = job.rec.hops
    /\ job'.rec.woke = job.rec.woke
    /\ job'.rec.state \in {job.rec.state, Blocked}

Written == job # NoJob /\ job' = NoJob /\ rec' = job.rec /\ outside' = outside

Disturbed == rec' = rec /\ job' \in {job, NoJob} /\ outside' # outside

LEMMA RunMakes ==
  ASSUME Typed, RunEnds \/ RunFails \/ RunTooBig \/ RunNeeds
  PROVE  RunsOn
<1>1. Running /\ job \in Jobs /\ job.rec \in Records /\ job # NoJob
  <2>1. Running
    BY DEF RunEnds, RunFails, RunTooBig, RunNeeds
  <2>. QED  BY <2>1, JobTypes DEF Running, NoJob
<1>2. /\ Done(job.rec) \in Records
      /\ Done(job.rec).state = job.rec.state /\ Done(job.rec).hops = job.rec.hops
      /\ Done(job.rec).reached = job.rec.reached /\ Done(job.rec).woke = job.rec.woke
  BY <1>1, DoneType, DoneFields
<1>3. ASSUME NEW kind, NEW r, Ends(kind, r)
      PROVE  job'.rec = r /\ job'.phase = "write" /\ job' # NoJob
  BY <1>1, <1>3 DEF Ends, Jobs, NoJob
<1>4. LET b == Blocking(Done(job.rec), job.from)
      IN  /\ b.state = Blocked /\ b.hops = job.rec.hops /\ b.reached = job.rec.reached
          /\ b.woke = job.rec.woke
  BY <1>2 DEF Blocking, Records
<1>5. CASE RunEnds
  BY <1>1, <1>2, <1>3, <1>5 DEF RunEnds, RunsOn
<1>6. CASE RunFails
  <2>1. PICK k \in Kinds : \E e : Ends(job.kind, [Done(job.rec) EXCEPT !.errors = e, !.kind = k])
    BY <1>6 DEF RunFails
  <2>5. PICK e : Ends(job.kind, [Done(job.rec) EXCEPT !.errors = e, !.kind = k])
    BY <2>1
  <2>. DEFINE r == [Done(job.rec) EXCEPT !.errors = e, !.kind = k]
  <2>2. /\ r.state = job.rec.state /\ r.hops = job.rec.hops
        /\ r.reached = job.rec.reached /\ r.woke = job.rec.woke
    BY <1>2 DEF Records
  <2>3. job'.rec = r /\ job' # NoJob
    BY <1>3, <2>5
  <2>4. rec' = rec
    BY <1>6 DEF RunFails
  <2>. QED  BY <1>1, <2>2, <2>3, <2>4 DEF RunsOn
<1>7. CASE RunTooBig
  BY <1>1, <1>3, <1>4, <1>7 DEF RunTooBig, RunsOn
<1>8. CASE RunNeeds
  <2>1. CASE job' = [job EXCEPT !.given = TRUE]
    <3>1. job'.rec = job.rec /\ job' # NoJob
      BY <1>1, <2>1 DEF Jobs, NoJob, Running
    <3>. QED  BY <1>1, <1>8, <3>1 DEF RunNeeds, RunsOn
  <2>2. CASE Ends(job.kind, [Done(job.rec) EXCEPT
                               !.needs = IF SameInput /\ rec.needs > 0 THEN 2 ELSE 1])
    <3>. DEFINE r == [Done(job.rec) EXCEPT !.needs = IF SameInput /\ rec.needs > 0 THEN 2 ELSE 1]
    <3>1. /\ r.state = job.rec.state /\ r.hops = job.rec.hops
          /\ r.reached = job.rec.reached /\ r.woke = job.rec.woke
      BY <1>2 DEF Records
    <3>. QED  BY <1>1, <1>3, <1>8, <2>2, <3>1 DEF RunNeeds, RunsOn
  <2>3. CASE Ends("blocked", Blocking(Done(job.rec), job.from))
    BY <1>1, <1>3, <1>4, <1>8, <2>3 DEF RunNeeds, RunsOn
  <2>. QED  BY <1>8, <2>1, <2>2, <2>3 DEF RunNeeds
<1>. QED  BY <1>5, <1>6, <1>7, <1>8

\* Every step is one of four: a decision, a run going on, a record written,
\* or something outside the line, which writes none.
LEMMA StepMakes ==
  ASSUME Typed, Stepped(rec), Sound(rec), Next
  PROVE  \/ /\ job = NoJob /\ job' # NoJob /\ rec' = rec /\ outside' = outside
            /\ CarriesOn \/ BeginsAnew
         \/ RunsOn
         \/ Written
         \/ Disturbed
<1>1. CASE Decide
  BY <1>1, DecideMakes
<1>2. CASE RunEnds \/ RunFails \/ RunTooBig \/ RunNeeds
  BY <1>2, RunMakes
<1>3. CASE Write
  BY <1>3 DEF Write, Writing, Written, NoJob
<1>4. CASE Environment
  <2>1. outside' = outside + 1 /\ outside \in Nat
    BY <1>4 DEF Environment, PersonMoves, PersonEdits, PersonWrites, TimePasses, OtherEnds, Lost,
                Torn, Outside, Typed, TypeOK
  <2>2. rec' = rec /\ job' \in {job, NoJob}
    BY <1>4 DEF Environment, PersonMoves, PersonEdits, PersonWrites, TimePasses, OtherEnds, Lost,
                Torn
  <2>. QED  BY <2>1, <2>2 DEF Disturbed
<1>. QED  BY <1>1, <1>2, <1>3, <1>4 DEF Next, Line

\* What the record at hand makes of the one it will replace.
Onward(r) == r.reached = rec.reached \/ rec.reached = None \/ Ahead(rec.reached, r.reached)
Earned(r) ==
    r.hops > rec.hops =>
        /\ r.hops = rec.hops + 1
        /\ r.state # rec.state \/ rec.state = Blocked \/ r.woke # rec.woke
Counted(r) == r.hops < rec.hops => rec.state = Blocked \/ Ahead(rec.reached, r.reached)

RecordInv ==
    /\ Stepped(rec) /\ Sound(rec)
    /\ job # NoJob =>
         Sound(job.rec) /\ Onward(job.rec) /\ Earned(job.rec) /\ Counted(job.rec)

LEMMA RecordStep ==
  ASSUME Typed, ReadInv', RecordInv, [Next]_vars
  PROVE  RecordInv'
<1>0. Stepped(rec)'
  BY DEF ReadInv
<1>1. CASE UNCHANGED vars
  BY <1>0, <1>1 DEF vars, RecordInv, Sound, Onward, Earned, Counted
<1>2. /\ None \notin States /\ Blocked \in States /\ rec.hops \in Nat
      /\ rec.state \in States \cup {None} /\ rec.reached \in States \cup {None}
  BY TableAssumption, LineAssumption, ReadTypes DEF Typed
<1>3. CASE job = NoJob /\ job' # NoJob /\ rec' = rec /\ CarriesOn
  BY <1>0, <1>2, <1>3 DEF CarriesOn, RecordInv, Sound, Onward, Earned, Counted
<1>4. CASE job = NoJob /\ job' # NoJob /\ rec' = rec /\ BeginsAnew
  <2>1. Sound(job'.rec)
    BY <1>2, <1>4 DEF BeginsAnew, RecordInv, Sound, ReachedNow
  <2>2. rec.reached = ReachedNow \/ rec.reached = None \/ Ahead(rec.reached, ReachedNow)
    BY <1>2 DEF RecordInv, Sound, ReachedNow, Reached, Progress
  <2>3. HopsNow > rec.hops =>
            HopsNow = rec.hops + 1 /\ (cur # rec.state \/ rec.state = Blocked)
    BY <1>2 DEF HopsNow, Progress, Entered
  <2>4. HopsNow < rec.hops => rec.state = Blocked \/ Ahead(rec.reached, ReachedNow)
    <3>1. CASE Progress
      BY <1>2, <3>1 DEF RecordInv, Sound, HopsNow, ReachedNow, Reached, Progress
    <3>2. CASE ~Progress
      BY <1>2, <3>2 DEF HopsNow
    <3>. QED  BY <3>1, <3>2
  <2>. QED  BY <1>0, <1>4, <2>1, <2>2, <2>3, <2>4 DEF BeginsAnew, RecordInv, Sound, Onward, Earned, Counted
<1>5. CASE RunsOn
  BY <1>0, <1>2, <1>5 DEF RunsOn, RecordInv, Sound, Onward, Earned, Counted
<1>6. CASE Written
  BY <1>0, <1>6 DEF Written, RecordInv, Sound
<1>7. CASE Disturbed
  BY <1>0, <1>7 DEF Disturbed, RecordInv, Sound, Onward, Earned, Counted
<1>. QED  BY <1>1, <1>3, <1>4, <1>5, <1>6, <1>7, StepMakes DEF RecordInv

\* The record is sound, and the one at hand goes on from it.
THEOREM RecordCorrect == Spec => []RecordInv
<1>1. Init /\ ReadInv => RecordInv
  BY TableAssumption, LineAssumption DEF Init, NoRec, ReadInv, RecordInv, Sound
<1>2. Typed /\ ReadInv' /\ RecordInv /\ [Next]_vars => RecordInv'
  BY RecordStep
<1>. QED  BY <1>1, <1>2, TypedCorrect, ReadCorrect, PTL DEF Spec

\* No record the line writes forgets the furthest state reached, or goes
\* back on it: on every table, with rings or without.
THEOREM ReachedOnlyForward == Spec => ReachedForward
<1>1. Typed /\ RecordInv /\ [Next]_vars =>
        [rec'.reached # rec.reached => rec.reached = None \/ Ahead(rec.reached, rec'.reached)]_rec
  <2>. SUFFICES ASSUME Typed, RecordInv, [Next]_vars, rec' # rec
       PROVE  rec'.reached # rec.reached => rec.reached = None \/ Ahead(rec.reached, rec'.reached)
    OBVIOUS
  <2>1. Written
    BY StepMakes DEF vars, RecordInv, RunsOn, Disturbed
  <2>. QED  BY <2>1 DEF Written, RecordInv, Onward
<1>. QED  BY <1>1, TypedCorrect, RecordCorrect, PTL DEF Spec, ReachedForward

\* A hop is a state step: the count goes up by one at most, for a state
\* entered or a claim let go, whatever the roles do and however often they
\* fail and are run again.
THEOREM HopsEarned == Spec => HopEarned
<1>1. Typed /\ RecordInv /\ [Next]_vars =>
        [rec'.hops > rec.hops =>
           /\ rec'.hops = rec.hops + 1
           /\ rec'.state # rec.state \/ rec.state = Blocked \/ rec'.woke # rec.woke]_rec
  <2>. SUFFICES ASSUME Typed, RecordInv, [Next]_vars, rec' # rec
       PROVE  rec'.hops > rec.hops =>
                /\ rec'.hops = rec.hops + 1
                /\ rec'.state # rec.state \/ rec.state = Blocked \/ rec'.woke # rec.woke
    OBVIOUS
  <2>1. Written
    BY StepMakes DEF vars, RecordInv, RunsOn, Disturbed
  <2>. QED  BY <2>1 DEF Written, RecordInv, Earned
<1>. QED  BY <1>1, TypedCorrect, RecordCorrect, PTL DEF Spec, HopEarned

\* The count goes down out of Blocked and on progress alone: neither a move
\* of the line's own, nor a wait, a retry, a person's doing or a crash
\* between two writes loses a hop.
THEOREM CountsKept == Spec => CountKept
<1>1. Typed /\ RecordInv /\ [Next]_vars =>
        [rec'.hops < rec.hops => rec.state = Blocked \/ Ahead(rec.reached, rec'.reached)]_rec
  <2>. SUFFICES ASSUME Typed, RecordInv, [Next]_vars, rec' # rec
       PROVE  rec'.hops < rec.hops => rec.state = Blocked \/ Ahead(rec.reached, rec'.reached)
    OBVIOUS
  <2>1. Written
    BY StepMakes DEF vars, RecordInv, RunsOn, Disturbed
  <2>. QED  BY <2>1 DEF Written, RecordInv, Counted
<1>. QED  BY <1>1, TypedCorrect, RecordCorrect, PTL DEF Spec, CountKept

-----------------------------------------------------------------------------
(* No silence taken for an act.                                            *)

\* The history changes nothing of the line: its behaviours are the line's.
LEMMA HistoryIsLine == HSpec => Spec
<1>1. HInit => Init
  BY DEF HInit
<1>2. [HNext]_hvars => [Next]_vars
  BY DEF HNext, hvars
<1>. QED  BY <1>1, <1>2, PTL DEF HSpec, Spec

\* The record that reads as of now is of the last step heard of; the step at
\* hand is on what it was woken on.
HeardInv ==
    /\ Current(rec) /\ Woken(rec.state) => heard = In(rec)
    /\ job # NoJob /\ job.kind = "step" => reading = In(job.rec)

LEMMA HeardStep ==
  ASSUME Typed, ReadInv, HeardInv, [HNext]_hvars
  PROVE  HeardInv'
<1>1. CASE UNCHANGED hvars
  BY <1>1 DEF hvars, vars, issue, HeardInv, Current, In
<1>2. CASE HNext /\ Write
  <2>1. job' = NoJob /\ heard' = (IF job.kind = "step" THEN reading ELSE heard)
    BY <1>2 DEF HNext, Write
  <2>2. ASSUME Current(rec)', Woken(rec'.state) PROVE heard' = In(rec')
    BY <1>2, <2>1, <2>2, WriteReads DEF HeardInv, In, Write, Writing, NoJob
  <2>. QED  BY <2>1, <2>2 DEF HeardInv, In
<1>3. CASE HNext /\ ~Write
  <2>1. rec' = rec
    BY <1>3, DecideReads, RunReads
    DEF ReadInv, HNext, Next, Line, Environment, PersonMoves, PersonEdits, PersonWrites, TimePasses,
        OtherEnds, Lost, Torn, Decide, Stale, SeeBlocked, Revisit, LetGo, SpendClaim, Retest,
        Repro, Wake, Retry, GiveNeeds, WakeOnce, GiveUp, Freed, Proceed, Start, Leave
  <2>2. heard' = heard
    <3>1. CASE Decide
      BY <1>3, <3>1, DecideReads DEF ReadInv, HNext, DecidedReads
    <3>2. CASE RunEnds \/ RunFails \/ RunTooBig \/ RunNeeds
      BY <1>3, <3>2, RunReads DEF HNext
    <3>3. CASE Environment
      <4>1. outside' = outside + 1 /\ outside \in Nat
        BY <3>3 DEF Environment, PersonMoves, PersonEdits, PersonWrites, TimePasses, OtherEnds, Lost,
                    Torn, Outside, Typed, TypeOK
      <4>. QED  BY <1>3, <4>1 DEF HNext
    <3>. QED  BY <1>3, <3>1, <3>2, <3>3 DEF HNext, Next, Line
  <2>3. Current(rec)' /\ Woken(rec'.state) => heard' = In(rec')
    <3>1. [Next]_vars
      BY <1>3 DEF HNext
    <3>2. Current(rec)' => Current(rec)
      BY <2>1, <3>1, NoneMadeCurrent DEF ReadInv, Current
    <3>. QED  BY <2>1, <2>2, <3>2 DEF HeardInv, In
  <2>4. ASSUME job' # NoJob, job'.kind = "step" PROVE reading' = In(job'.rec)
    <3>1. CASE Decide
      <4>1. job = NoJob
        BY <3>1 DEF Decide, Stale, SeeBlocked, Revisit, LetGo, SpendClaim, Retest, Repro, Wake,
                    Retry, GiveNeeds, WakeOnce, GiveUp, Freed, Acted, Waking, Reading
      <4>2. In(job'.rec) = Input /\ job'.phase = "run"
        BY <2>4, <3>1, DecideReads DEF ReadInv, DecidedReads
      <4>. QED  BY <1>3, <2>4, <4>1, <4>2 DEF HNext, Starts
    <3>2. CASE RunEnds \/ RunFails \/ RunTooBig \/ RunNeeds
      BY <1>3, <2>4, <3>2, RunReads DEF HNext, Starts, HeardInv
    <3>3. CASE Environment
      <4>1. job' = job
        BY <2>4, <3>3 DEF Environment, PersonMoves, PersonEdits, PersonWrites, TimePasses, OtherEnds,
                    Lost, Torn
      <4>. QED  BY <1>3, <2>4, <4>1 DEF HNext, Starts, HeardInv
    <3>. QED  BY <1>3, <3>1, <3>2, <3>3 DEF HNext, Next, Line
  <2>. QED  BY <2>3, <2>4 DEF HeardInv
<1>. QED  BY <1>1, <1>2, <1>3

\* No silence is taken for an act: when nothing is due on an issue whose
\* state wakes a role, a role ran on this very labelling, body and review,
\* whatever a person, a crash or a move of the line's own did between.  On a
\* table whose refine wakes the tester, a bug its tests did not show would be
\* left in refine with no run of it.
THEOREM SilenceIsHeard ==
  ASSUME Role[Refine] # Tester
  PROVE  HSpec => []NeverSilent
<1>1. HInit /\ ReadInv => HeardInv
  <2>. SUFFICES ASSUME HInit, ReadInv PROVE HeardInv
    OBVIOUS
  <2>1. labels \subseteq States /\ rec = NoRec /\ job = NoJob
    BY LineAssumption DEF HInit, Init
  <2>2. rec.state \notin labels
    BY <2>1, TableAssumption DEF NoRec
  <2>. QED  BY <2>1, <2>2 DEF HeardInv, Current
<1>2. Typed /\ ReadInv /\ HeardInv /\ [HNext]_hvars => HeardInv'
  BY HeardStep
<1>3. Typed /\ ReadInv /\ HeardInv => NeverSilent
  <2>. SUFFICES ASSUME Typed, ReadInv, HeardInv, Waking, ~Due PROVE heard = Input
    BY DEF NeverSilent
  <2>1. cur \in labels /\ cur # Blocked /\ Role[cur] # None
    BY CurIsLabelled, TableAssumption DEF Waking, Reading, Wakes
  <2>2. In(rec) = Input /\ rec.state = cur /\ rec.labeled = labeled[cur]
    BY NotDueReads DEF ReadInv, Due
  <2>. QED  BY <2>1, <2>2 DEF HeardInv, Current, Woken
<1>. QED  BY <1>1, <1>2, <1>3, TypedCorrect, ReadCorrect, HistoryIsLine, PTL DEF HSpec

-----------------------------------------------------------------------------
(* A block put on while a role runs stands.                                *)

\* A role's run started on an issue that did not bear it.
SawInv ==
    job # NoJob /\ job.phase = "run" /\ job.kind # "revisit" => Blocked \notin job.saw

LEMMA NotBlocked ==
  ASSUME BlockedFirst, Typed, cur \in States, cur # Blocked
  PROVE  Blocked \notin labels
<1>. SUFFICES ASSUME Blocked \in labels PROVE FALSE
  OBVIOUS
<1>1. labels \subseteq States /\ Pos \in [States -> Nat]
  BY TableAssumption DEF Typed, TypeOK
<1>2. \A t \in labels : Pos[cur] =< Pos[t]
  BY TableAssumption DEF cur, StateOf
<1>3. Pos[cur] = Pos[Blocked]
  BY <1>1, <1>2, LineAssumption DEF BlockedFirst
<1>. QED  BY <1>3, TableAssumption, LineAssumption

LEMMA SawStep ==
  ASSUME BlockedFirst, Typed, SawInv, [Next]_vars
  PROVE  SawInv'
<1>1. ASSUME NEW kind, NEW role, NEW from, NEW r, Start(kind, role, from, r),
             kind = "revisit" \/ (cur \in States /\ cur # Blocked)
      PROVE  SawInv'
  <2>1. job'.kind = kind /\ job'.saw = labels
    BY <1>1 DEF Start
  <2>. QED  BY <1>1, <2>1, NotBlocked DEF SawInv
<1>2. ASSUME NEW kind, NEW r, Leave(kind, r) PROVE SawInv'
  BY <1>2 DEF Leave, SawInv
<1>3. ASSUME NEW r, Waking, Proceed(r) PROVE SawInv'
  BY <1>1, <1>2, <1>3 DEF Proceed, Waking, Reading
<1>4. CASE Decide
  BY <1>1, <1>2, <1>3, <1>4
  DEF Decide, Stale, SeeBlocked, Revisit, LetGo, SpendClaim, Retest, Repro, Wake,
      Retry, GiveNeeds, WakeOnce, GiveUp, Freed, Acted, Waking, Reading
<1>5. CASE RunEnds \/ RunFails \/ RunTooBig \/ RunNeeds
  <2>1. Running /\ job \in Jobs
    BY <1>5, JobTypes DEF RunEnds, RunFails, RunTooBig, RunNeeds, Running
  <2>2. ASSUME NEW kind, NEW r, Ends(kind, r) PROVE SawInv'
    BY <2>1, <2>2 DEF Ends, SawInv, Jobs
  <2>3. CASE job' = [job EXCEPT !.given = TRUE]
    BY <2>1, <2>3 DEF SawInv, Jobs, NoJob, Running
  <2>. QED  BY <1>5, <2>2, <2>3 DEF RunEnds, RunFails, RunTooBig, RunNeeds
<1>6. CASE job' \in {job, NoJob}
  BY <1>6 DEF SawInv
<1>. QED  BY <1>4, <1>5, <1>6
          DEF Next, Line, Write, Environment, PersonMoves, PersonEdits, PersonWrites, TimePasses,
              OtherEnds, Lost, Torn, vars

\* A block put on while a role runs stands, and nothing of the line's takes
\* Blocked off but the reading of that block, the line's moves by rule, and
\* the developer's word that the issue go back to refine.
THEOREM BlocksStand ==
  ASSUME BlockedFirst, ActsSpare
  PROVE  Spec => BlockStands
<1>1. Init => SawInv
  BY DEF Init, SawInv
<1>2. Typed /\ SawInv /\ [Next]_vars => SawInv'
  BY SawStep
<1>3. Typed /\ SawInv /\ [Next]_vars =>
        [(Blocked \in labels /\ Blocked \notin labels' /\ outside' = outside) =>
           \/ job.kind \in {"revisit", "stale", "repro", "retest"}
           \/ job.role = Developer /\ labels' = {Refine}]_labels
  <2>. SUFFICES ASSUME Typed, SawInv, [Next]_vars,
                       Blocked \in labels, Blocked \notin labels', outside' = outside,
                       job.kind \notin {"revisit", "stale", "repro", "retest"}
                PROVE  job.role = Developer /\ labels' = {Refine}
    OBVIOUS
  <2>1. CASE RoleActs /\ Running
    <3>1. /\ job \in Jobs /\ job # NoJob /\ Blocked \notin job.saw /\ labels \subseteq States
          /\ job.role \in Routed \cup {Developer}
      BY <2>1, JobTypes DEF Running, SawInv, NoJob, Typed, TypeOK, RoleRuns
    <3>2. PICK m \in Acts[job.role] : labels' = LabelsAfter(m)
      BY <2>1 DEF RoleActs, RoleMoves, Relabel
    <3>3. Blocked \in m.off /\ ~m.borne
      BY <3>1, <3>2 DEF LabelsAfter
    <3>4. job.role = Developer /\ m = MoveTo(Refine)
      BY <3>1, <3>2, <3>3, LineAssumption DEF ActsSpare
    <3>. QED  BY <3>1, <3>2, <3>4 DEF LabelsAfter, MoveTo
  <2>2. CASE Write
    <3>1. labels' \in Moves
      BY <2>2 DEF Write, Relabel
    <3>. QED  BY <3>1 DEF Moves
  <2>3. CASE Environment
    BY <2>3 DEF Environment, PersonMoves, PersonEdits, PersonWrites, TimePasses, OtherEnds, Lost,
                Torn, Outside, Typed, TypeOK
  <2>4. CASE UNCHANGED labels
    BY <2>4
  <2>. QED  BY <2>1, <2>2, <2>3, <2>4
            DEF Next, Line, vars, issue, RunEnds, RunFails, RunTooBig, RunNeeds,
                Decide, Stale, SeeBlocked, Revisit, LetGo, SpendClaim, Retest, Repro, Wake,
                Retry, GiveNeeds, WakeOnce, GiveUp, Freed, Proceed, Start, Leave
<1>. QED  BY <1>1, <1>2, <1>3, TypedCorrect, PTL DEF Spec, BlockStands

-----------------------------------------------------------------------------
(* The ends of loops.                                                      *)


Wakers == {s \in States : Role[s] # None}

\* The waking states no progress from s counts: those not ahead of it.
Past(s) == {w \in Wakers : ~Ahead(s, w)}

NoRing == \A s, t \in States : ~(Ahead(s, t) /\ Ahead(t, s))

LEMMA AheadType ==
  ASSUME NEW s, NEW t, Ahead(s, t)
  PROVE  s \in States /\ t \in States /\ s # t
<1>1. s \in States /\ s # t
  BY DEF Ahead
<1>2. ClosedFrom(s, States)
  BY <1>1, TableAssumption DEF ClosedFrom
<1>. QED  BY <1>1, <1>2 DEF Ahead

LEMMA AheadTransitive ==
  ASSUME NEW s, NEW t, NEW w, Ahead(s, t), Ahead(t, w), w # s
  PROVE  Ahead(s, w)
<1>1. s \in States /\ t \in States
  BY AheadType
<1>2. ASSUME NEW S \in SUBSET States, ClosedFrom(s, S) PROVE w \in S
  <2>1. t \in S
    BY <1>2 DEF Ahead
  <2>2. ClosedFrom(t, S)
    BY <1>2, <2>1 DEF ClosedFrom
  <2>. QED  BY <2>2 DEF Ahead
<1>. QED  BY <1>1, <1>2 DEF Ahead

LEMMA PastType ==
  ASSUME IsFiniteSet(States), NEW s
  PROVE  /\ IsFiniteSet(Past(s)) /\ Cardinality(Past(s)) \in Nat
         /\ Cardinality(Wakers) \in Nat
         /\ Cardinality(Past(s)) =< Cardinality(Wakers)
<1>1. Past(s) \subseteq Wakers /\ Wakers \subseteq States
  BY DEF Past, Wakers
<1>2. IsFiniteSet(Wakers)
  BY <1>1, FS_Subset
<1>. QED  BY <1>1, <1>2, FS_Subset, FS_CardinalityType

\* A waking state not ahead is one of them.
LEMMA PastCounts ==
  ASSUME IsFiniteSet(States), NEW s, NEW w \in Wakers, ~Ahead(s, w)
  PROVE  Cardinality(Past(s)) >= 1
<1>1. w \in Past(s)
  BY DEF Past
<1>2. Cardinality(Past(s)) # 0
  BY <1>1, PastType, FS_EmptySet
<1>. QED  BY <1>2, PastType

\* Progress to a waking state leaves one more of them behind.
LEMMA PastGrows ==
  ASSUME IsFiniteSet(States), NoRing, NEW s, NEW t \in Wakers, Ahead(s, t)
  PROVE  Cardinality(Past(t)) >= Cardinality(Past(s)) + 1
<1>1. t \notin Past(s) /\ IsFiniteSet(Past(s)) /\ IsFiniteSet(Past(t))
  BY PastType DEF Past
<1>2. Past(s) \cup {t} \subseteq Past(t)
  <2>1. t \in Past(t)
    BY DEF Past, Ahead
  <2>2. ASSUME NEW w \in Past(s), Ahead(t, w) PROVE FALSE
    <3>1. w # s
      BY <2>2, AheadType DEF NoRing
    <3>. QED  BY <2>2, <3>1, AheadTransitive DEF Past
  <2>. QED  BY <2>1, <2>2 DEF Past
<1>3. Cardinality(Past(s) \cup {t}) = Cardinality(Past(s)) + 1
  BY <1>1, FS_AddElement
<1>4. Cardinality(Past(s) \cup {t}) =< Cardinality(Past(t))
  BY <1>1, <1>2, FS_Subset
<1>. QED  BY <1>3, <1>4

-----------------------------------------------------------------------------
(* What the furthest state reached, and the hops at it, leave of entries.  *)

LEMMA Distributes ==
  ASSUME NEW m \in Nat, NEW a \in Nat, NEW b \in Nat, a >= 1
  PROVE  /\ m * a \in Nat /\ m * (a - 1) \in Nat
         /\ m * (a - 1) + m = m * a
         /\ b >= a + 1 => m * a =< m * (b - 1)
<1>1. m * a \in Nat /\ m * (a - 1) \in Nat /\ m * (a - 1) + m = m * a
  OBVIOUS
<1>2. ASSUME b >= a + 1 PROVE m * a =< m * (b - 1)
  <2>1. m * (b - 1) = m * a + m * (b - 1 - a) /\ m * (b - 1 - a) \in Nat
    BY <1>2
  <2>. QED  BY <1>1, <2>1
<1>. QED  BY <1>1, <1>2

\* n entries, for a record of hops h and state reached s.
Within(n, s, h) ==
    n > 0 => LET past == Cardinality(Past(s))
             IN  /\ s # None /\ past >= 1
                 /\ n =< MaxHops * (past - 1) + h
                 /\ n =< MaxHops * past

LEMMA WithinGrows ==
  ASSUME IsFiniteSet(States), NEW n \in Nat, NEW s, NEW h \in Nat, NEW k \in Nat, h =< k,
         Within(n, s, h)
  PROVE  Within(n, s, k)
<1>. DEFINE past == Cardinality(Past(s))
<1>1. past \in Nat /\ MaxHops \in Nat
  BY PastType, LineAssumption
<1>2. MaxHops * (past - 1) \in Int
  BY <1>1
<1>. QED  BY <1>2 DEF Within

LEMMA EntersWithin ==
  ASSUME IsFiniteSet(States), NoRing, Typed, RecordInv, entries \in Nat,
         Within(entries, rec.reached, rec.hops),
         cur \in Wakers \ {Blocked}, Entered
  PROVE  Within(IF HopsNow > MaxHops THEN entries ELSE IF rec.state = Blocked THEN 1 ELSE entries + 1,
                ReachedNow, HopsNow)
<1>. DEFINE n == IF HopsNow > MaxHops THEN entries
                 ELSE IF rec.state = Blocked THEN 1 ELSE entries + 1
            past == Cardinality(Past(ReachedNow))
<1>1. /\ MaxHops \in Nat /\ MaxHops >= 1 /\ rec.hops \in Nat /\ Blocked # None /\ None \notin States
      /\ rec.state \in States \cup {None} /\ rec.reached \in States \cup {None}
      /\ past \in Nat /\ cur \in States
  <2>1. MaxHops \in Nat /\ MaxHops >= 1 /\ Blocked # None /\ None \notin States
    BY TableAssumption, LineAssumption
  <2>2. past \in Nat /\ cur \in States
    BY PastType DEF Wakers
  <2>. QED  BY <2>1, <2>2, ReadTypes DEF Typed
<1>2. ReachedNow # None /\ past >= 1
  <2>1. CASE ReachedNow = cur
    <3>1. ~Ahead(cur, cur)
      BY DEF Ahead
    <3>. QED  BY <1>1, <2>1, <3>1, PastCounts
  <2>2. CASE ReachedNow # cur
    <3>1. ReachedNow = Reached /\ Reached \notin {None, Blocked} /\ ~Progress
      BY <2>2 DEF ReachedNow
    <3>2. had
      BY <3>1 DEF Reached, had, NoRec
    <3>3. ~Ahead(Reached, cur)
      BY <3>1, <3>2 DEF Progress
    <3>. QED  BY <3>1, <3>3, PastCounts
  <2>. QED  BY <2>1, <2>2
<1>3. HopsNow >= 1 /\ HopsNow \in Nat
  BY <1>1 DEF HopsNow
<1>4. /\ MaxHops * past \in Nat /\ MaxHops * (past - 1) \in Nat
      /\ MaxHops * (past - 1) + MaxHops = MaxHops * past
  BY <1>1, <1>2, Distributes
<1>5. CASE n =< 1
  <2>. HIDE DEF n, past
  <2>. QED  BY <1>1, <1>2, <1>3, <1>4, <1>5 DEF Within, n, past
<1>6. CASE entries > 0 /\ rec.state # Blocked
  <2>. DEFINE before == Cardinality(Past(rec.reached))
  <2>1. /\ rec.reached # None /\ before >= 1 /\ before \in Nat
        /\ entries =< MaxHops * (before - 1) + rec.hops /\ entries =< MaxHops * before
    BY <1>6, PastType DEF Within
  <2>2. Reached = rec.reached /\ Reached \notin {None, Blocked}
    BY <2>1 DEF Reached, RecordInv, Sound
  <2>3. MaxHops * (before - 1) + MaxHops = MaxHops * before /\ MaxHops * (before - 1) \in Nat
    BY <1>1, <2>1, Distributes
  <2>4. CASE Progress
    <3>1. HopsNow = 1 /\ ReachedNow = cur /\ Ahead(rec.reached, cur)
      BY <2>2, <2>4 DEF HopsNow, ReachedNow, Progress
    <3>2. past >= before + 1
      BY <3>1, PastGrows
    <3>3. MaxHops * before =< MaxHops * (past - 1)
      BY <1>1, <2>1, <3>2, Distributes
    <3>4. n = entries + 1
      BY <1>1, <1>6, <3>1
    <3>. HIDE DEF n, past, before
    <3>. QED  BY <1>1, <1>2, <1>4, <2>1, <3>1, <3>3, <3>4 DEF Within, n, past
  <2>5. CASE ~Progress
    <3>1. HopsNow = rec.hops + 1 /\ ReachedNow = rec.reached
      BY <1>6, <2>2, <2>5 DEF HopsNow, ReachedNow
    <3>2. past = before
      BY <3>1
    <3>3. n = entries \/ (n = entries + 1 /\ HopsNow =< MaxHops)
      <4>1. CASE HopsNow > MaxHops
        BY <4>1
      <4>2. CASE ~(HopsNow > MaxHops)
        BY <1>1, <1>3, <1>6, <4>2
      <4>. QED  BY <4>1, <4>2
    <3>. HIDE DEF n, past, before
    <3>. QED  BY <1>1, <1>2, <1>4, <2>1, <2>3, <3>1, <3>2, <3>3 DEF Within, n, past
  <2>. QED  BY <2>4, <2>5
<1>7. CASE rec.state = Blocked
  <2>1. HopsNow = 1
    BY <1>1, <1>7 DEF HopsNow, Entered
  <2>. QED  BY <1>1, <1>5, <1>7, <2>1
<1>. QED  BY <1>5, <1>6, <1>7

LoopInv ==
    /\ entries \in Nat
    /\ IF job = NoJob THEN Within(entries, rec.reached, rec.hops)
                      ELSE Within(entries, job.rec.reached, job.rec.hops)

LEMMA LoopStep ==
  ASSUME IsFiniteSet(States), NoRing, Typed, RecordInv, LoopInv, [HNext]_hvars
  PROVE  LoopInv'
<1>0. /\ rec.hops \in Nat /\ MaxHops \in Nat /\ entries \in Nat /\ None \notin States
      /\ Blocked \in States
  BY ReadTypes, TableAssumption, LineAssumption DEF Typed, LoopInv
<1>1. CASE UNCHANGED hvars
  BY <1>1 DEF hvars, vars, LoopInv, Within, Past, Wakers
<1>2. CASE HNext
  <2>1. Next /\ entries' = Entries
    BY <1>2 DEF HNext
  <2>3. CASE outside' # outside
    BY <2>1, <2>3 DEF Entries, LoopInv, Within
  <2>4. CASE outside' = outside /\ job = NoJob /\ job' # NoJob /\ rec' = rec /\ CarriesOn
    <3>1. entries' = entries
      BY <2>1, <2>4 DEF Entries, Enters, Starts, CarriesOn
    <3>2. Within(entries, job'.rec.reached, job'.rec.hops)
      <4>1. Within(entries, rec.reached, rec.hops) /\ job'.rec.reached = rec.reached
        BY <2>4 DEF LoopInv, CarriesOn
      <4>2. job'.rec.hops \in Nat /\ rec.hops =< job'.rec.hops
        BY <1>0, <2>4 DEF CarriesOn
      <4>. QED  BY <1>0, <4>1, <4>2, WithinGrows
    <3>. QED  BY <1>0, <2>4, <3>1, <3>2 DEF LoopInv, Within
  <2>5. CASE outside' = outside /\ job = NoJob /\ job' # NoJob /\ rec' = rec /\ BeginsAnew
    <3>1. cur \in Wakers \ {Blocked}
      BY <2>5 DEF BeginsAnew, Wakers
    <3>2. HopsNow \in Nat
      BY <1>0 DEF HopsNow
    <3>3. CASE Entered
      <4>1. entries' = IF HopsNow > MaxHops THEN entries
                       ELSE IF rec.state = Blocked THEN 1 ELSE entries + 1
        BY <1>0, <2>1, <2>5, <3>2, <3>3 DEF Entries, Enters, Starts, BeginsAnew, Entered
      <4>2. Within(entries', ReachedNow, HopsNow)
        BY <1>0, <2>5, <3>1, <3>3, <4>1, EntersWithin DEF LoopInv
      <4>. QED  BY <1>0, <2>5, <4>1, <4>2 DEF LoopInv, Within, BeginsAnew
    <3>4. CASE ~Entered
      <4>1. entries' = entries /\ HopsNow = rec.hops
        <5>1. rec.state = cur /\ cur # Blocked /\ cur # None
          BY <1>0, <3>1, <3>4 DEF Entered, Wakers
        <5>2. HopsNow = rec.hops
          BY <1>0, <3>4, <5>1 DEF HopsNow, Progress
        <5>3. ~Enters
          BY <2>5, <5>1 DEF Enters, Starts, BeginsAnew
        <5>. QED  BY <2>1, <2>5, <5>2, <5>3 DEF Entries
      <4>2. entries > 0 => ReachedNow = rec.reached
        BY <2>5, <3>4 DEF LoopInv, Within, ReachedNow, Reached, Progress, RecordInv, Sound
      <4>. QED  BY <1>0, <2>5, <4>1, <4>2 DEF LoopInv, Within, BeginsAnew
    <3>. QED  BY <3>3, <3>4
  <2>6. CASE outside' = outside /\ RunsOn
    <3>1. entries' = entries
      BY <2>1, <2>6 DEF Entries, Enters, Starts, RunsOn
    <3>. QED  BY <2>6, <3>1 DEF RunsOn, LoopInv, Within
  <2>7. CASE Written
    <3>1. entries' = entries
      BY <2>1, <2>7 DEF Entries, Enters, Starts, Written
    <3>. QED  BY <2>7, <3>1 DEF Written, LoopInv, Within
  <2>. QED  BY <2>1, <2>3, <2>4, <2>5, <2>6, <2>7, StepMakes DEF RecordInv, Disturbed
<1>. QED  BY <1>1, <1>2

\* On a finite table with no ring, however its roles send an issue back and
\* forth, with nobody's doing they enter its states at most max-hops times
\* for each state that wakes a role (routing.max-hops, ADR-0059).
THEOREM LoopsAreBounded ==
  ASSUME IsFiniteSet(States), NoRing
  PROVE  HSpec => []LoopsEnd
<1>1. HInit => LoopInv
  BY DEF HInit, LoopInv, Within, Init
<1>2. Typed /\ RecordInv /\ LoopInv /\ [HNext]_hvars => LoopInv'
  BY LoopStep
<1>3. Typed /\ LoopInv => LoopsEnd
  <2>1. ASSUME NEW s, NEW h, Within(entries, s, h), entries \in Nat
        PROVE  entries =< MaxHops * Cardinality(Wakers)
    <3>. DEFINE past == Cardinality(Past(s))
                all  == Cardinality(Wakers)
    <3>1. past \in Nat /\ all \in Nat /\ past =< all /\ MaxHops \in Nat
      BY PastType, LineAssumption
    <3>2. MaxHops * past =< MaxHops * all
      <4>1. MaxHops * all = MaxHops * past + MaxHops * (all - past) /\ MaxHops * (all - past) \in Nat
        BY <3>1
      <4>. QED  BY <3>1, <4>1
    <3>3. entries > 0 => entries =< MaxHops * past
      BY <2>1 DEF Within
    <3>4. MaxHops * past \in Nat /\ MaxHops * all \in Nat
      BY <3>1
    <3>. QED  BY <2>1, <3>2, <3>3, <3>4
  <2>. QED  BY <2>1 DEF LoopInv, LoopsEnd, Wakers
<1>. QED  BY <1>1, <1>2, <1>3, TypedCorrect, RecordCorrect, HistoryIsLine, PTL DEF HSpec

-----------------------------------------------------------------------------
(* Never the same input twice.  A role's chances on an input are its first *)
(* run and the marks spent; of each, the errors spent bound the runs.      *)

Finite == IsFiniteSet(Kinds) /\ IsFiniteSet(MarkNames)
PerChance == 1 + ErrorBudget * Cardinality(Kinds)

\* The retries counts of errors stand for, within the budget.
Spent(e) == {p \in Kinds \X (1..ErrorBudget) : p[2] =< e[p[1]]}

LEMMA SpentCounts ==
  ASSUME Finite, NEW e
  PROVE  /\ IsFiniteSet(Spent(e)) /\ Cardinality(Spent(e)) \in Nat
         /\ 1 + Cardinality(Spent(e)) =< PerChance /\ PerChance \in Nat
<1>1. ErrorBudget \in Nat /\ IsFiniteSet(Kinds)
  BY LineAssumption DEF Finite
<1>2. IsFiniteSet(1..ErrorBudget) /\ Cardinality(1..ErrorBudget) = ErrorBudget
  BY <1>1, FS_Interval
<1>3. /\ IsFiniteSet(Kinds \X (1..ErrorBudget))
      /\ Cardinality(Kinds \X (1..ErrorBudget)) = Cardinality(Kinds) * ErrorBudget
  BY <1>1, <1>2, FS_Product
<1>4. Spent(e) \subseteq Kinds \X (1..ErrorBudget)
  BY DEF Spent
<1>5. IsFiniteSet(Spent(e)) /\ Cardinality(Spent(e)) =< Cardinality(Kinds) * ErrorBudget
  BY <1>3, <1>4, FS_Subset
<1>6. Cardinality(Kinds) \in Nat /\ Cardinality(Spent(e)) \in Nat
  BY <1>1, <1>5, FS_CardinalityType
<1>7. Cardinality(Kinds) * ErrorBudget = ErrorBudget * Cardinality(Kinds)
      /\ ErrorBudget * Cardinality(Kinds) \in Nat
  BY <1>1, <1>6
<1>. QED  BY <1>5, <1>6, <1>7 DEF PerChance

\* One error more within the budget is one retry more.
LEMMA SpentGrows ==
  ASSUME Finite, NEW e \in [Kinds -> Nat], NEW k \in Kinds, e[k] >= 1, e[k] =< ErrorBudget
  PROVE  Cardinality(Spent(e)) = Cardinality(Spent([e EXCEPT ![k] = @ - 1])) + 1
<1>. DEFINE b == [e EXCEPT ![k] = @ - 1]
<1>1. ErrorBudget \in Nat /\ e[k] \in 1..ErrorBudget
  BY LineAssumption
<1>2. \A j \in Kinds : b[j] = IF j = k THEN e[k] - 1 ELSE e[j]
  OBVIOUS
<1>3. <<k, e[k]>> \in Spent(e) /\ <<k, e[k]>> \notin Spent(b)
  BY <1>1, <1>2 DEF Spent
<1>. HIDE DEF b
<1>4. ASSUME NEW j \in Kinds, NEW i \in 1..ErrorBudget
      PROVE  <<j, i>> \in Spent(e) <=> <<j, i>> \in Spent(b) \/ <<j, i>> = <<k, e[k]>>
  BY <1>1, <1>2 DEF Spent
<1>5. Spent(e) = Spent(b) \cup {<<k, e[k]>>}
  <2>1. \A p \in Spent(e) : p \in Kinds \X (1..ErrorBudget) /\ p = <<p[1], p[2]>>
    BY DEF Spent
  <2>2. \A p \in Spent(b) : p \in Kinds \X (1..ErrorBudget) /\ p = <<p[1], p[2]>>
    BY DEF Spent
  <2>3. \A p \in Kinds \X (1..ErrorBudget) : p[1] \in Kinds /\ p[2] \in 1..ErrorBudget
    OBVIOUS
  <2>. QED  BY <1>3, <1>4, <2>1, <2>2, <2>3
<1>6. IsFiniteSet(Spent(b))
  BY SpentCounts
<1>7. Cardinality(Spent(e)) = Cardinality(Spent(b)) + 1
  BY <1>3, <1>5, <1>6, FS_AddElement
<1>. QED  BY <1>7 DEF b

\* n whole chances and the runs of another are not more than n + 1 chances.
LEMMA ChancesAdd ==
  ASSUME Finite, NEW n \in Nat
  PROVE  /\ n * PerChance \in Nat /\ (n + 1) * PerChance = n * PerChance + PerChance
         /\ \A m \in Nat : n =< m => n * PerChance =< m * PerChance
<1>1. PerChance \in Nat
  BY SpentCounts
<1>2. ASSUME NEW m \in Nat, n =< m PROVE n * PerChance =< m * PerChance
  <2>1. m * PerChance = n * PerChance + (m - n) * PerChance /\ (m - n) * PerChance \in Nat
    BY <1>1, <1>2
  <2>. QED  BY <1>1, <2>1
<1>. QED  BY <1>1, <1>2

LEMMA MarksCount ==
  ASSUME Finite, NEW s \in States, NEW M \in SUBSET MarkNames
  PROVE  /\ Cardinality(M \cap Marks[s]) \in Nat /\ Cardinality(Marks[s]) \in Nat
         /\ Cardinality(M \cap Marks[s]) =< Cardinality(Marks[s])
         /\ \A m \in Marks[s] \ M :
              Cardinality((M \cup {m}) \cap Marks[s]) = Cardinality(M \cap Marks[s]) + 1
<1>1. IsFiniteSet(Marks[s])
  BY LineAssumption, FS_Subset DEF Finite
<1>2. IsFiniteSet(M \cap Marks[s]) /\ Cardinality(M \cap Marks[s]) =< Cardinality(Marks[s])
  BY <1>1, FS_Subset
<1>3. ASSUME NEW m \in Marks[s] \ M
      PROVE  Cardinality((M \cup {m}) \cap Marks[s]) = Cardinality(M \cap Marks[s]) + 1
  <2>1. (M \cup {m}) \cap Marks[s] = (M \cap Marks[s]) \cup {m}
    OBVIOUS
  <2>. QED  BY <1>2, <2>1, FS_AddElement
<1>. QED  BY <1>1, <1>2, <1>3, FS_CardinalityType

\* Its state wakes a role; the chances an input had before the present one;
\* the runs of n chances and of the present one after these errors; the
\* errors before the last; what a claim is let go for; no claim of it let go
\* and no issue ended since the developer was woken.
Waked == cur # Blocked /\ Wakes # None
Begun(r) == Cardinality(r.marks \cap Marks[cur])
Tried(n, e) == tries =< n * PerChance + 1 + Cardinality(Spent(e))
Before(r) == [r.errors EXCEPT ![r.kind] = @ - 1]
ClaimKey == IF aged THEN <<"hours", labeled[Doing]>> ELSE <<"body", body>>
Free(r) == Wakes = Developer /\ NextOf[cur] # None => r.woke = labeled[NextOf[cur]] /\ ~ended

\* A record of what was tried on an input that reads as it did.
Settled(r) ==
    /\ Waked => /\ In(r) = Input /\ r.needs = 0 /\ Free(r)
                /\ r.kind = None => tries =< (Begun(r) + 1) * PerChance
                /\ r.kind # None => r.errors[r.kind] >= 1 /\ Tried(Begun(r), Before(r))
    /\ ~Waked /\ cur # Blocked => tries = 1 /\ r.claim = ClaimKey
    /\ cur = Blocked => tries = 1 /\ r.state = Blocked /\ r.body = body /\ r.talk = talk

ErrorsFrom == IF SameInput THEN rec.errors ELSE NoErrors

\* The run at hand, on such an input.
RunSettled(r) ==
    /\ Waked => /\ job.kind = "step" /\ In(r) = Input /\ Free(r)
                /\ Tried(Begun(r), ErrorsFrom)
    /\ ~Waked /\ cur # Blocked => job.kind = "claim" /\ tries = 1 /\ r.claim = ClaimKey
    /\ cur # Blocked => job.from = cur
    /\ cur = Blocked => /\ job.kind = "revisit" /\ tries = 1
                        /\ r.state = Blocked /\ r.body = body /\ r.talk = talk

\* The write at hand moves the issue.
Turns ==
    \/ job.kind \in {"blocked", "capped"} /\ cur # Blocked
    \/ job.kind \in {"stale", "repro"} /\ cur # Refine
    \/ job.kind = "retest" /\ Role[cur] # Tester

WriteSettled(r) ==
    /\ Settled(r)
    /\ cur = Blocked => ~aged \/ job.kind \in {"revisit", "blocked"}
    /\ cur # Blocked => job.kind \notin {"seen", "revisit", "blocked", "capped"}

TriesInv ==
    /\ tries \in Nat
    /\ tries > 0 =>
         /\ cur \in States
         /\ job = NoJob => Settled(rec) /\ (cur = Blocked => ~aged)
         /\ job # NoJob /\ job.phase = "run" => RunSettled(job.rec)
         /\ job # NoJob /\ job.phase = "write" => Turns \/ WriteSettled(job.rec)
         /\ tries =< (1 + Cardinality(Marks[cur])) * PerChance

\* A step that changes nothing the tries are counted on.
Quiet == outside' = outside /\ UNCHANGED <<labels, labeled, body, spec>>

LEMMA QuietReads ==
  ASSUME Quiet
  PROVE  /\ cur' = cur /\ SpecNow' = SpecNow /\ Input' = Input /\ Wakes' = Wakes
         /\ labels' = labels /\ labeled' = labeled /\ body' = body /\ (Waked' <=> Waked)
<1>1. cur' = cur /\ labels' = labels /\ labeled' = labeled /\ body' = body /\ spec' = spec
  BY DEF Quiet, cur
<1>2. SpecNow' = SpecNow /\ Wakes' = Wakes
  BY <1>1 DEF SpecNow, Wakes
<1>. QED  BY <1>1, <1>2 DEF Input, Waked

LEMMA TriedBounded ==
  ASSUME Finite, NEW s \in States, NEW M \in SUBSET MarkNames, NEW t \in Nat, NEW e,
         t =< Cardinality(M \cap Marks[s]) * PerChance + 1 + Cardinality(Spent(e))
  PROVE  /\ t =< (Cardinality(M \cap Marks[s]) + 1) * PerChance
         /\ t =< (1 + Cardinality(Marks[s])) * PerChance
<1>. DEFINE n == Cardinality(M \cap Marks[s])
            c == Cardinality(Marks[s])
            d == Cardinality(Spent(e))
<1>1. n \in Nat /\ c \in Nat /\ n =< c /\ n + 1 \in Nat /\ c + 1 \in Nat /\ c + 1 = 1 + c
  BY MarksCount
<1>2. d \in Nat /\ 1 + d =< PerChance /\ PerChance \in Nat
  BY SpentCounts
<1>3. n * PerChance \in Nat /\ (n + 1) * PerChance = n * PerChance + PerChance
  BY <1>1, ChancesAdd
<1>4. (n + 1) * PerChance \in Nat /\ (n + 1) * PerChance =< (1 + c) * PerChance
      /\ (1 + c) * PerChance \in Nat
  BY <1>1, ChancesAdd
<1>5. t =< n * PerChance + 1 + d
  OBVIOUS
<1>. HIDE DEF n, c, d
<1>6. t =< (n + 1) * PerChance
  BY <1>2, <1>3, <1>5
<1>7. t =< (1 + c) * PerChance
  BY <1>3, <1>4, <1>6
<1>. QED  BY <1>6, <1>7 DEF n, c

\* One run of a claim, or of a reading, is within a chance.
LEMMA OneTry ==
  ASSUME Finite, NEW s \in States
  PROVE  1 =< (1 + Cardinality(Marks[s])) * PerChance
<1>1. Cardinality({} \cap Marks[s]) = 0
  BY FS_EmptySet
<1>2. 0 * PerChance = 0 /\ Cardinality(Spent(NoErrors)) \in Nat
  BY SpentCounts
<1>3. 1 =< Cardinality({} \cap Marks[s]) * PerChance + 1 + Cardinality(Spent(NoErrors))
  BY <1>1, <1>2
<1>. QED  BY <1>3, TriedBounded

\* Left without a run: the record says what it said of its tries, or its
\* write moves the issue.
SameTries(r) ==
    /\ In(r) = In(rec) /\ r.needs = rec.needs /\ r.woke = rec.woke /\ r.kind = rec.kind
    /\ r.errors = rec.errors /\ r.marks = rec.marks /\ r.claim = rec.claim /\ r.talk = rec.talk

LEMMA LeaveTries ==
  ASSUME Typed, TriesInv, tries' = Tries, Reading, NEW kind, NEW r \in Records, Leave(kind, r),
         \/ tries = 0
         \/ kind \in {"blocked", "capped"} /\ cur # Blocked
         \/ kind \in {"stale", "repro"} /\ cur # Refine
         \/ kind = "retest" /\ Role[cur] # Tester
         \/ kind \in {"kept", "waits", "retestKept"} /\ SameTries(r)
  PROVE  TriesInv'
<1>1. /\ job' # NoJob /\ job'.rec = r /\ job'.kind = kind /\ job'.phase = "write"
      /\ Quiet /\ UNCHANGED <<rec, talk, aged, ended>> /\ job = NoJob
  BY LeaveReads DEF Leave, issue, Quiet, Reading
<1>2. tries' = tries /\ tries \in Nat
  BY <1>1 DEF Tries, Starts, Quiet, TriesInv
<1>3. /\ cur' = cur /\ SpecNow' = SpecNow /\ Input' = Input /\ Wakes' = Wakes
      /\ labels' = labels /\ labeled' = labeled /\ body' = body /\ (Waked' <=> Waked)
  BY <1>1, QuietReads
<1>. SUFFICES ASSUME tries > 0
              PROVE  Turns' \/ WriteSettled(job.rec)'
  BY <1>1, <1>2, <1>3 DEF TriesInv
<1>4. CASE \/ kind \in {"blocked", "capped"} /\ cur # Blocked
           \/ kind \in {"stale", "repro"} /\ cur # Refine
           \/ kind = "retest" /\ Role[cur] # Tester
  BY <1>1, <1>3, <1>4 DEF Turns
<1>5. CASE kind \in {"kept", "waits", "retestKept"} /\ SameTries(r)
  <2>1. Settled(rec) /\ (cur = Blocked => ~aged)
    BY <1>1 DEF TriesInv
  <2>2. /\ Begun(job.rec)' = Begun(rec) /\ Before(job.rec)' = Before(rec) /\ ClaimKey' = ClaimKey
        /\ In(job.rec)' = In(rec) /\ (Free(job.rec)' <=> Free(rec))
    BY <1>1, <1>3, <1>5 DEF SameTries, Begun, Before, ClaimKey, In, Free
  <2>3. job'.rec.state = rec.state /\ job'.rec.body = rec.body
    BY <1>1, <1>5 DEF SameTries, In
  <2>4. Settled(job.rec)'
    BY <1>1, <1>2, <1>3, <1>5, <2>1, <2>2, <2>3 DEF SameTries, Settled, Tried
  <2>. QED  BY <1>1, <1>3, <1>5, <2>1, <2>4 DEF WriteSettled
<1>. QED  BY <1>4, <1>5

\* A step due is run once more on its input, its record saying it.
LEMMA ProceedTries ==
  ASSUME Finite, Typed, TriesInv, tries' = Tries, Waking, NEW r \in Records, Proceed(r), In(r) = Input,
         tries = 0 \/ (In(rec) = Input /\ tries =< Begun(r) * PerChance + Cardinality(Spent(rec.errors)))
  PROVE  TriesInv'
<1>1. /\ cur \in States /\ rec \in Records /\ job = NoJob /\ Waked /\ tries \in Nat
      /\ r.marks \in SUBSET MarkNames /\ Wakes # None /\ Reading
  BY DEF Waking, Reading, Typed, TypeOK, Waked, Records, TriesInv
<1>2. CASE Leave("capped", Blocking(r, cur))
  <2>1. Blocking(r, cur) \in Records
    BY <1>1, BlockingType DEF Typed
  <2>. QED  BY <1>1, <1>2, <2>1, LeaveTries DEF Waked
<1>3. CASE NextOf[cur] \in Limited /\ Leave("waits", [rec EXCEPT !.waits = NextOf[cur]])
  <2>1. NextOf[cur] \in States \cup {None}
    BY <1>1, TableAssumption
  <2>2. [rec EXCEPT !.waits = NextOf[cur]] \in Records
    BY <1>1, <2>1, SetNames
  <2>3. SameTries([rec EXCEPT !.waits = NextOf[cur]])
    BY <1>1 DEF SameTries, In, Records
  <2>. QED  BY <1>1, <1>3, <2>2, <2>3, LeaveTries
<1>4. ASSUME NEW q, Start("step", Wakes, cur, q), In(q) = In(r), q.marks = r.marks,
             Wakes = Developer /\ NextOf[cur] # None => q.woke = labeled[NextOf[cur]] /\ ended' = FALSE
      PROVE  TriesInv'
  <2>1. /\ job' # NoJob /\ job'.rec = q /\ job'.kind = "step" /\ job'.phase = "run"
        /\ job'.from = cur /\ Quiet /\ rec' = rec
    BY <1>4, StartReads DEF Start, Quiet
  <2>2. /\ cur' = cur /\ Input' = Input /\ Wakes' = Wakes
        /\ labels' = labels /\ labeled' = labeled /\ body' = body /\ Waked'
    BY <1>1, <2>1, QuietReads
  <2>3. tries' = tries + 1
    BY <1>1, <2>1 DEF Tries, Starts, Quiet
  <2>4. In(job.rec)' = Input /\ Begun(job.rec)' = Begun(r) /\ Free(job.rec)'
    BY <1>4, <2>1, <2>2 DEF In, Begun, Free
  <2>5. tries' =< Begun(r) * PerChance + 1 + Cardinality(Spent(ErrorsFrom'))
    <3>1. Begun(r) \in Nat
      BY <1>1, MarksCount DEF Begun
    <3>2. Begun(r) * PerChance \in Nat /\ Cardinality(Spent(ErrorsFrom')) \in Nat
      BY <3>1, ChancesAdd, SpentCounts
    <3>3. CASE tries = 0
      BY <2>3, <3>2, <3>3
    <3>4. CASE In(rec) = Input /\ tries =< Begun(r) * PerChance + Cardinality(Spent(rec.errors))
      <4>1. SameInput'
        BY <1>4, <2>1, <3>4 DEF SameInput, In
      <4>2. ErrorsFrom' = rec.errors
        BY <2>1, <4>1 DEF ErrorsFrom
      <4>. QED  BY <1>1, <2>3, <3>2, <3>4, <4>2
    <3>. QED  BY <3>3, <3>4
  <2>6. RunSettled(job.rec)'
    BY <2>1, <2>2, <2>4, <2>5 DEF RunSettled, Tried, Waked
  <2>7. tries' =< (1 + Cardinality(Marks[cur])) * PerChance
    <3>1. tries' \in Nat
      BY <1>1, <2>3
    <3>2. \A t \in Nat : \A e : t =< Begun(r) * PerChance + 1 + Cardinality(Spent(e)) =>
                              t =< (1 + Cardinality(Marks[cur])) * PerChance
      BY <1>1, TriedBounded DEF Begun
    <3>. QED  BY <2>5, <3>1, <3>2
  <2>. QED  BY <1>1, <2>1, <2>2, <2>3, <2>6, <2>7 DEF TriesInv
<1>5. CASE /\ Wakes = Developer /\ NextOf[cur] # None /\ ended' = FALSE
           /\ Start("step", Wakes, cur, [r EXCEPT !.woke = labeled[NextOf[cur]]])
  <2>1. /\ In([r EXCEPT !.woke = labeled[NextOf[cur]]]) = In(r)
        /\ [r EXCEPT !.woke = labeled[NextOf[cur]]].marks = r.marks
        /\ [r EXCEPT !.woke = labeled[NextOf[cur]]].woke = labeled[NextOf[cur]]
    BY DEF In, Records
  <2>. QED  BY <1>4, <1>5, <2>1
<1>6. CASE ~(Wakes = Developer /\ NextOf[cur] # None) /\ Start("step", Wakes, cur, r)
  BY <1>4, <1>6
<1>. QED  BY <1>2, <1>3, <1>5, <1>6 DEF Proceed

\* A claim let go, or a blocked issue read again, is so once.
LEMMA StartTries ==
  ASSUME Finite, TriesInv, tries' = Tries, Reading, tries = 0,
         NEW kind, NEW role, NEW from, NEW r, Start(kind, role, from, r),
         \/ /\ kind = "claim" /\ ~Waked /\ cur # Blocked /\ from = cur
            /\ r.claim = ClaimKey
         \/ /\ kind = "revisit" /\ cur = Blocked
            /\ r.state = Blocked /\ r.body = body /\ r.talk = talk
  PROVE  TriesInv'
<1>1. /\ job' # NoJob /\ job'.rec = r /\ job'.kind = kind /\ job'.phase = "run" /\ job = NoJob
      /\ job'.from = from /\ Quiet /\ UNCHANGED <<rec, talk, aged>> /\ cur \in States
  BY StartReads DEF Start, Quiet, Reading
<1>2. /\ cur' = cur /\ labels' = labels /\ labeled' = labeled /\ body' = body /\ (Waked' <=> Waked)
  BY <1>1, QuietReads
<1>3. tries' = 1
  BY <1>1 DEF Tries, Starts, Quiet
<1>4. ClaimKey' = ClaimKey
  BY <1>1, <1>2 DEF ClaimKey
<1>5. RunSettled(job.rec)'
  BY <1>1, <1>2, <1>3, <1>4 DEF RunSettled, Waked
<1>6. tries' =< (1 + Cardinality(Marks[cur])) * PerChance
  BY <1>1, <1>3, OneTry
<1>. QED  BY <1>1, <1>2, <1>3, <1>5, <1>6 DEF TriesInv

\* A claim's state is not one that wakes a role.
LEMMA ClaimNotWaked ==
  ASSUME DoingFirst, Typed, Reading, Doing \in labels
  PROVE  ~Waked
<1>. SUFFICES ASSUME Waked PROVE FALSE
  OBVIOUS
<1>1. cur \in States /\ Role[cur] # None /\ Pos \in [States -> Nat] /\ Doing \in States
  BY TableAssumption, LineAssumption DEF Reading, Waked, Wakes
<1>2. \A t \in labels : Pos[cur] =< Pos[t]
  BY <1>1, TableAssumption DEF cur, StateOf
<1>. QED  BY <1>1, <1>2 DEF DoingFirst

LEMMA DecideTries ==
  ASSUME Finite, DoingFirst, Role[Refine] # Tester, Typed, TriesInv, tries' = Tries, Decide
  PROVE  TriesInv'
<1>1. /\ TypeOK /\ Reading /\ cur \in States /\ job = NoJob /\ rec \in Records
      /\ labeled[cur] \in AllDates /\ tries \in Nat
      /\ LeftRecord \in Records /\ SeenRecord \in Records /\ ClaimBase \in Records
      /\ NewRecord \in Records /\ Blocking(rec, cur) \in Records
  <2>1. TypeOK /\ Reading
    BY DEF Typed, Decide, Stale, SeeBlocked, Revisit, LetGo, SpendClaim, Retest, Repro, Wake,
           Retry, GiveNeeds, WakeOnce, GiveUp, Freed, Acted, Waking
  <2>. QED  BY <2>1, MadeTypes, BlockingType, ReadTypes DEF TypeOK, Reading, TriesInv
<1>2. tries > 0 => Settled(rec) /\ (cur = Blocked => ~aged)
  BY <1>1 DEF TriesInv
<1>3. Wakes # None => Role[cur] = Wakes
  BY DEF Wakes
<1>4. ASSUME Waking, ~Due PROVE In(rec) = Input
  BY <1>4 DEF Due, In, Input
<1>5. ASSUME Waking, tries > 0
      PROVE  /\ In(rec) = Input /\ rec.needs = 0 /\ Free(rec)
             /\ rec.kind = None => tries =< (Begun(rec) + 1) * PerChance
             /\ rec.kind # None => rec.errors[rec.kind] >= 1 /\ Tried(Begun(rec), Before(rec))
  BY <1>2, <1>5 DEF Settled, Waked, Waking
<1>6. ASSUME cur # Blocked, Leave("blocked", Blocking(rec, cur)) PROVE TriesInv'
  BY <1>1, <1>6, LeaveTries
<1>7. CASE Stale
  <2>1. CASE Leave("kept", [rec EXCEPT !.kept = labeled[cur]])
    <3>1. [rec EXCEPT !.kept = labeled[cur]] \in Records
      BY <1>1, SetDates
    <3>2. SameTries([rec EXCEPT !.kept = labeled[cur]])
      BY <1>1 DEF SameTries, In, Records
    <3>. QED  BY <1>1, <2>1, <3>1, <3>2, LeaveTries
  <2>2. CASE cur # Refine /\ Leave("stale", [LeftRecord EXCEPT !.stale = cur])
    <3>1. [LeftRecord EXCEPT !.stale = cur] \in Records
      BY <1>1, SetNames
    <3>. QED  BY <1>1, <2>2, <3>1, LeaveTries
  <2>. QED  BY <1>7, <2>1, <2>2 DEF Stale
<1>8. CASE SeeBlocked
  <2>1. tries = 0
    BY <1>1, <1>2, <1>8 DEF SeeBlocked, Settled
  <2>2. SeenRecord.state = Blocked /\ SeenRecord.body = body /\ SeenRecord.talk = talk
    BY DEF SeenRecord, NoRec
  <2>. QED  BY <1>1, <1>8, <2>1, <2>2, LeaveTries, StartTries DEF SeeBlocked
<1>9. CASE Revisit
  <2>1. tries = 0
    BY <1>1, <1>2, <1>9 DEF Revisit, Settled
  <2>2. /\ [rec EXCEPT !.body = body, !.talk = talk].state = Blocked
        /\ [rec EXCEPT !.body = body, !.talk = talk].body = body
        /\ [rec EXCEPT !.body = body, !.talk = talk].talk = talk
    BY <1>1, <1>9 DEF Revisit, Records
  <2>. QED  BY <1>1, <1>9, <2>1, <2>2, StartTries DEF Revisit
<1>10. CASE LetGo
  <2>1. cur # Blocked /\ ~Waked
    BY <1>1, <1>10, ClaimNotWaked DEF LetGo
  <2>2. rec.claim # ClaimKey /\ Start("claim", Developer, cur, [ClaimBase EXCEPT !.claim = ClaimKey])
    BY <1>10 DEF LetGo, ClaimKey
  <2>3. tries = 0
    BY <1>1, <1>2, <2>1, <2>2 DEF Settled
  <2>4. [ClaimBase EXCEPT !.claim = ClaimKey].claim = ClaimKey
    BY <1>1 DEF Records
  <2>. QED  BY <1>1, <2>1, <2>2, <2>3, <2>4, StartTries
<1>11. CASE SpendClaim
  <2>1. Blocking(ClaimBase, cur) \in Records
    BY <1>1, BlockingType
  <2>. QED  BY <1>1, <1>11, <2>1, LeaveTries DEF SpendClaim
<1>12. CASE Retest
  <2>1. CASE Leave("retestKept", [rec EXCEPT !.retestKept = labeled[cur]])
    <3>1. [rec EXCEPT !.retestKept = labeled[cur]] \in Records
      BY <1>1, SetDates
    <3>2. SameTries([rec EXCEPT !.retestKept = labeled[cur]])
      BY <1>1 DEF SameTries, In, Records
    <3>. QED  BY <1>1, <2>1, <3>1, <3>2, LeaveTries
  <2>2. CASE Leave("retest", [LeftRecord EXCEPT !.retest = cur])
    <3>1. [LeftRecord EXCEPT !.retest = cur] \in Records
      BY <1>1, SetNames
    <3>2. Role[cur] # Tester
      BY <1>3, <1>12, LineAssumption DEF Retest, Waking
    <3>. QED  BY <1>1, <2>2, <3>1, <3>2, LeaveTries
  <2>. QED  BY <1>12, <2>1, <2>2 DEF Retest
<1>13. CASE Repro
  <2>1. Blocking(LeftRecord, cur) \in Records /\ cur # Refine /\ cur # Blocked
    BY <1>1, <1>3, <1>13, BlockingType, LineAssumption DEF Repro, Waking
  <2>. QED  BY <1>1, <1>13, <2>1, LeaveTries DEF Repro
<1>14. CASE Wake
  <2>1. In(rec) # Input
    BY <1>14 DEF Wake, Due, In, Input
  <2>2. In(NewRecord) = Input
    BY DEF NewRecord, NoRec, In, Input
  <2>. QED  BY <1>1, <1>5, <1>14, <2>1, <2>2, ProceedTries DEF Wake
<1>15. CASE Retry
  <2>1. Waking /\ cur # Blocked /\ rec.kind # None /\ In(rec) = Input
    BY <1>4, <1>15 DEF Retry, Waking, Failed
  <2>2. CASE rec.errors[rec.kind] =< ErrorBudget /\ Proceed(rec)
    <3>1. ASSUME tries > 0
          PROVE  tries =< Begun(rec) * PerChance + Cardinality(Spent(rec.errors))
      <4>1. rec.errors \in [Kinds -> Nat] /\ rec.kind \in Kinds /\ rec.marks \in SUBSET MarkNames
        BY <1>1, <2>1 DEF Records
      <4>2. Cardinality(Spent(rec.errors)) = Cardinality(Spent(Before(rec))) + 1
        BY <1>5, <2>1, <2>2, <3>1, <4>1, SpentGrows DEF Before
      <4>3. Begun(rec) * PerChance \in Nat
        BY <1>1, <4>1, MarksCount, ChancesAdd DEF Begun
      <4>4. Cardinality(Spent(Before(rec))) \in Nat
        BY SpentCounts
      <4>5. tries =< Begun(rec) * PerChance + 1 + Cardinality(Spent(Before(rec)))
        BY <1>5, <2>1, <3>1 DEF Tried
      <4>. QED  BY <1>1, <4>2, <4>3, <4>4, <4>5
    <3>. QED  BY <1>1, <2>1, <2>2, <3>1, ProceedTries
  <2>. QED  BY <1>6, <1>15, <2>1, <2>2 DEF Retry
<1>16. CASE GiveNeeds
  <2>1. Waking /\ cur # Blocked /\ In(rec) = Input /\ tries = 0
    BY <1>1, <1>4, <1>5, <1>16 DEF GiveNeeds, Waking
  <2>. QED  BY <1>1, <1>6, <1>16, <2>1, ProceedTries DEF GiveNeeds
<1>17. CASE WakeOnce
  <2>1. PICK m \in Marks[cur] \ rec.marks : Proceed([rec EXCEPT !.marks = @ \cup {m}])
    BY <1>17 DEF WakeOnce
  <2>. DEFINE r == [rec EXCEPT !.marks = @ \cup {m}]
  <2>2. Waking /\ rec.kind = None /\ In(rec) = Input
    BY <1>4, <1>17 DEF WakeOnce, Acted, Failed
  <2>3. rec.marks \in SUBSET MarkNames /\ rec.marks \cup {m} \in SUBSET MarkNames
    BY <1>1, <2>1, LineAssumption DEF Records
  <2>4. r \in Records
    BY <1>1, <2>3, SetOthers
  <2>5. In(r) = Input /\ r.marks = rec.marks \cup {m}
    BY <1>1, <2>2 DEF In, Records
  <2>6. Begun(r) = Begun(rec) + 1 /\ Begun(rec) \in Nat
    BY <1>1, <2>1, <2>3, <2>5, MarksCount DEF Begun
  <2>7. ASSUME tries > 0 PROVE tries =< Begun(r) * PerChance + Cardinality(Spent(rec.errors))
    <3>1. tries =< Begun(r) * PerChance
      BY <1>5, <2>2, <2>6, <2>7
    <3>2. Begun(r) * PerChance \in Nat /\ Cardinality(Spent(rec.errors)) \in Nat
      BY <2>6, ChancesAdd, SpentCounts
    <3>. QED  BY <1>1, <3>1, <3>2
  <2>. QED  BY <1>1, <2>1, <2>2, <2>4, <2>5, <2>7, ProceedTries
<1>18. CASE GiveUp
  BY <1>6, <1>18 DEF GiveUp, Acted, Waking
<1>19. CASE Freed
  <2>. DEFINE r == [rec EXCEPT !.hops = @ + 1]
  <2>1. Waking /\ In(rec) = Input /\ Wakes = Developer /\ NextOf[cur] # None
    BY <1>4, <1>19 DEF Freed, Acted
  <2>2. tries = 0
    BY <1>1, <1>5, <1>19, <2>1 DEF Freed, Free
  <2>3. r \in Records /\ In(r) = Input
    BY <1>1, <2>1 DEF In, Records
  <2>4. CASE Proceed(r)
    BY <2>1, <2>2, <2>3, <2>4, ProceedTries
  <2>5. CASE Proceed(rec)
    BY <1>1, <2>1, <2>2, <2>5, ProceedTries
  <2>. QED  BY <1>19, <2>4, <2>5 DEF Freed
<1>. QED  BY <1>7, <1>8, <1>9, <1>10, <1>11, <1>12, <1>13, <1>14, <1>15, <1>16, <1>17, <1>18, <1>19
          DEF Decide

LEMMA OneErrorMore ==
  ASSUME NEW f \in [Kinds -> Nat], NEW k \in Kinds
  PROVE  LET e == [f EXCEPT ![k] = @ + 1]
         IN  e[k] >= 1 /\ [e EXCEPT ![k] = @ - 1] = f
<1>. DEFINE e == [f EXCEPT ![k] = @ + 1]
            b == [e EXCEPT ![k] = @ - 1]
<1>1. \A j \in Kinds : e[j] = IF j = k THEN f[k] + 1 ELSE f[j]
  OBVIOUS
<1>2. e \in [Kinds -> Nat] /\ DOMAIN b = Kinds
  OBVIOUS
<1>. HIDE DEF e
<1>3. \A j \in Kinds : b[j] = f[j]
  BY <1>1, <1>2
<1>4. b = f
  BY <1>2, <1>3
<1>. QED  BY <1>1, <1>4 DEF e

\* A run's end says what was tried; too big, or short of code twice, it blocks.
LEMMA RunTries ==
  ASSUME Finite, Typed, TriesInv, tries' = Tries, RunEnds \/ RunFails \/ RunTooBig \/ RunNeeds
  PROVE  TriesInv'
<1>1. /\ Running /\ job \in Jobs /\ job.rec \in Records /\ job # NoJob /\ job.phase = "run"
      /\ tries \in Nat /\ rec \in Records
  <2>1. Running
    BY DEF RunEnds, RunFails, RunTooBig, RunNeeds
  <2>. QED  BY <2>1, JobTypes DEF Running, NoJob, TriesInv, Typed, TypeOK
<1>2. tries' \in Nat /\ (tries' > 0 => Quiet /\ tries' = tries)
  BY <1>1 DEF Tries, Starts, Quiet
<1>. SUFFICES ASSUME tries > 0, tries' = tries, Quiet PROVE TriesInv'
  BY <1>2 DEF TriesInv
<1>3. /\ cur' = cur /\ SpecNow' = SpecNow /\ Input' = Input /\ Wakes' = Wakes
      /\ labels' = labels /\ labeled' = labeled /\ body' = body /\ (Waked' <=> Waked)
  BY QuietReads
<1>4. UNCHANGED <<rec, talk, aged, ended>>
  <2>1. aged \in BOOLEAN
    BY DEF Typed, TypeOK
  <2>2. RunEnds \/ RunNeeds => UNCHANGED <<rec, talk, aged, ended>>
    BY <1>3, <2>1 DEF RunEnds, RunNeeds, RoleActs
  <2>. QED  BY <2>2 DEF RunFails, RunTooBig, issue
<1>5. cur \in States /\ RunSettled(job.rec) /\ tries =< (1 + Cardinality(Marks[cur])) * PerChance
  BY <1>1 DEF TriesInv
<1>6. ClaimKey' = ClaimKey
  BY <1>3, <1>4 DEF ClaimKey
<1>. DEFINE d == Done(job.rec)
<1>7. /\ d \in Records /\ In(d) = In(job.rec) /\ d.needs = 0 /\ d.kind = None
      /\ d.marks = job.rec.marks /\ d.claim = job.rec.claim /\ d.woke = job.rec.woke
      /\ d.state = job.rec.state /\ d.body = job.rec.body /\ d.talk = job.rec.talk
  <2>1. d \in Records
    BY <1>1, DoneType
  <2>2. /\ d.needs = 0 /\ d.kind = None /\ d.marks = job.rec.marks /\ d.claim = job.rec.claim
        /\ d.woke = job.rec.woke /\ d.talk = job.rec.talk
    BY <1>1 DEF Done, Records
  <2>3. /\ d.state = job.rec.state /\ d.body = job.rec.body /\ d.labeled = job.rec.labeled
        /\ d.spec = job.rec.spec
    BY <1>1 DEF Done, Records
  <2>. QED  BY <2>1, <2>2, <2>3 DEF In
<1>8. Waked => tries =< (Begun(job.rec) + 1) * PerChance
  <2>1. job.rec.marks \in SUBSET MarkNames
    BY <1>1 DEF Records
  <2>2. \A e : tries =< Begun(job.rec) * PerChance + 1 + Cardinality(Spent(e)) =>
                   tries =< (Begun(job.rec) + 1) * PerChance
    BY <1>1, <1>5, <2>1, TriedBounded DEF Begun
  <2>. QED  BY <1>5, <2>2 DEF RunSettled, Tried
<1>. HIDE DEF d
<1>9. ASSUME NEW kind, NEW r, Ends(kind, r)
      PROVE  job'.rec = r /\ job'.kind = kind /\ job' # NoJob /\ job'.phase = "write"
  BY <1>1, <1>9 DEF Ends, Jobs, NoJob
<1>10. ASSUME NEW r, Ends(job.kind, r), In(r) = In(d), r.needs = 0, r.marks = d.marks,
              r.claim = d.claim, r.woke = d.woke, r.state = d.state, r.body = d.body, r.talk = d.talk,
              \/ r.kind = None
              \/ r.errors[r.kind] >= 1 /\ Before(r) = ErrorsFrom
       PROVE  TriesInv'
  <2>1. job'.rec = r /\ job'.kind = job.kind /\ job' # NoJob /\ job'.phase = "write"
    BY <1>9, <1>10
  <2>2. /\ Begun(job.rec)' = Begun(job.rec) /\ Before(job.rec)' = Before(r)
        /\ In(job.rec)' = In(job.rec) /\ (Free(job.rec)' <=> Free(job.rec))
    BY <1>3, <1>4, <1>7, <1>10, <2>1 DEF Begun, Before, In, Free
  <2>3. Waked => /\ In(job.rec)' = Input' /\ job'.rec.needs = 0 /\ Free(job.rec)'
                 /\ job'.rec.kind = None => tries' =< (Begun(job.rec)' + 1) * PerChance
                 /\ job'.rec.kind # None => job'.rec.errors[job'.rec.kind] >= 1
                                            /\ Tried(Begun(job.rec), Before(job.rec))'
    BY <1>3, <1>5, <1>8, <1>10, <2>1, <2>2 DEF RunSettled, Tried
  <2>4. Settled(job.rec)'
    BY <1>3, <1>4, <1>5, <1>6, <1>7, <1>10, <2>1, <2>3 DEF RunSettled, Settled
  <2>5. WriteSettled(job.rec)'
    BY <1>3, <1>5, <2>1, <2>4 DEF RunSettled, WriteSettled, Waked
  <2>. QED  BY <1>1, <1>3, <1>5, <2>1, <2>5 DEF TriesInv
<1>11. ASSUME Ends("blocked", Blocking(d, job.from)) PROVE TriesInv'
  <2>1. /\ job'.rec = Blocking(d, job.from) /\ job'.kind = "blocked" /\ job' # NoJob
        /\ job'.phase = "write"
    BY <1>9, <1>11
  <2>2. CASE cur # Blocked
    <3>1. Turns'
      BY <1>3, <2>1, <2>2 DEF Turns
    <3>. QED  BY <1>1, <1>3, <1>5, <2>1, <3>1 DEF TriesInv
  <2>3. CASE cur = Blocked
    <3>1. job'.rec.state = Blocked /\ job'.rec.body = body /\ job'.rec.talk = talk
      BY <1>5, <1>7, <2>1, <2>3 DEF RunSettled, Blocking, Records
    <3>2. WriteSettled(job.rec)'
      BY <1>3, <1>4, <1>5, <2>1, <2>3, <3>1 DEF RunSettled, WriteSettled, Settled, Waked
    <3>. QED  BY <1>1, <1>3, <1>5, <2>1, <3>2 DEF TriesInv
  <2>. QED  BY <2>2, <2>3
<1>12. CASE RunEnds
  BY <1>7, <1>10, <1>12 DEF RunEnds, d
<1>13. CASE RunFails
  <2>1. PICK k \in Kinds :
          Ends(job.kind, [d EXCEPT !.errors = [ErrorsFrom EXCEPT ![k] = @ + 1], !.kind = k])
    BY <1>13 DEF RunFails, ErrorsFrom, d
  <2>. DEFINE e == [ErrorsFrom EXCEPT ![k] = @ + 1]
              r == [d EXCEPT !.errors = e, !.kind = k]
  <2>2. ErrorsFrom \in [Kinds -> Nat]
    BY <1>1 DEF ErrorsFrom, Records, NoErrors
  <2>3. e[k] >= 1 /\ [e EXCEPT ![k] = @ - 1] = ErrorsFrom
    BY <2>2, OneErrorMore
  <2>. HIDE DEF e
  <2>4. /\ r.errors = e /\ r.kind = k /\ In(r) = In(d) /\ r.needs = 0 /\ r.marks = d.marks
        /\ r.claim = d.claim /\ r.woke = d.woke /\ r.state = d.state /\ r.body = d.body
        /\ r.talk = d.talk
    BY <1>7 DEF In, Records
  <2>5. Ends(job.kind, r)
    BY <2>1 DEF e
  <2>. HIDE DEF r
  <2>6. r.errors[r.kind] >= 1 /\ Before(r) = ErrorsFrom
    BY <2>3, <2>4 DEF Before
  <2>. QED  BY <1>10, <2>4, <2>5, <2>6
<1>14. CASE RunTooBig
  BY <1>11, <1>14 DEF RunTooBig, d
<1>15. CASE RunNeeds
  <2>1. CASE job' = [job EXCEPT !.given = TRUE]
    <3>1. /\ job'.rec = job.rec /\ job'.kind = job.kind /\ job'.from = job.from
          /\ job'.phase = "run" /\ job' # NoJob
      BY <1>1, <2>1 DEF Jobs, NoJob
    <3>2. (SameInput' <=> SameInput) /\ ErrorsFrom' = ErrorsFrom
      BY <1>4, <3>1 DEF SameInput, ErrorsFrom
    <3>3. /\ Begun(job.rec)' = Begun(job.rec) /\ In(job.rec)' = In(job.rec)
          /\ (Free(job.rec)' <=> Free(job.rec))
      BY <1>3, <1>4, <3>1 DEF Begun, In, Free
    <3>4. RunSettled(job.rec)'
      BY <1>3, <1>4, <1>5, <1>6, <3>1, <3>2, <3>3 DEF RunSettled, Tried
    <3>. QED  BY <1>1, <1>3, <1>5, <3>1, <3>4 DEF TriesInv
  <2>2. CASE /\ Ends(job.kind, [d EXCEPT !.needs = IF SameInput /\ rec.needs > 0 THEN 2 ELSE 1])
             /\ outside' = outside
             /\ ~StillThere
    <3>1. cur = Blocked /\ job.kind = "revisit"
      BY <1>3, <1>5, <2>2, TableAssumption DEF StillThere, cur, RunSettled
    <3>. DEFINE r == [d EXCEPT !.needs = IF SameInput /\ rec.needs > 0 THEN 2 ELSE 1]
    <3>2. r.state = d.state /\ r.body = d.body /\ r.talk = d.talk
      BY <1>7 DEF Records
    <3>3. job'.rec = r /\ job'.kind = job.kind /\ job' # NoJob /\ job'.phase = "write"
      BY <1>9, <2>2
    <3>. HIDE DEF r
    <3>4. WriteSettled(job.rec)'
      BY <1>3, <1>4, <1>5, <1>7, <3>1, <3>2, <3>3 DEF RunSettled, WriteSettled, Settled, Waked
    <3>. QED  BY <1>1, <1>3, <1>5, <3>3, <3>4 DEF TriesInv
  <2>3. CASE Ends("blocked", Blocking(d, job.from))
    BY <1>11, <2>3
  <2>4. outside' = outside /\ (StillThere /\ outside' = outside + 1 => FALSE)
    BY DEF Quiet, Typed, TypeOK
  <2>. QED  BY <1>15, <2>1, <2>2, <2>3, <2>4 DEF RunNeeds, d
<1>. QED  BY <1>12, <1>13, <1>14, <1>15

LEMMA WriteTries ==
  ASSUME Typed, TriesInv, tries' = Tries, Write
  PROVE  TriesInv'
<1>1. /\ job \in Jobs /\ job # NoJob /\ job.phase = "write" /\ tries \in Nat
      /\ job' = NoJob /\ rec' = job.rec /\ UNCHANGED <<talk, ended>>
  BY JobTypes DEF Write, Writing, NoJob, TriesInv
<1>2. tries' \in Nat /\ (tries' > 0 => Quiet /\ tries' = tries)
  BY <1>1 DEF Tries, Starts, Quiet
<1>. SUFFICES ASSUME tries > 0, tries' = tries, Quiet PROVE TriesInv'
  BY <1>2 DEF TriesInv
<1>3. /\ cur' = cur /\ SpecNow' = SpecNow /\ Input' = Input /\ Wakes' = Wakes
      /\ labels' = labels /\ labeled' = labeled /\ body' = body /\ (Waked' <=> Waked)
  BY QuietReads
<1>4. /\ cur \in States
      /\ (Turns \/ WriteSettled(job.rec))
      /\ tries =< (1 + Cardinality(Marks[cur])) * PerChance
  BY <1>1 DEF TriesInv
<1>5. ~Turns
  <2>1. cur \in labels
    BY <1>4, CurIsLabelled
  <2>5. PICK L \in Moves : Relabel(L)
    BY DEF Write
  <2>6. labels \in Moves
    BY <1>3, <2>5 DEF Relabel
  <2>2. CASE job.kind \in {"blocked", "capped"}
    BY <2>1, <2>6, <2>2 DEF Turns, Moves
  <2>3. CASE job.kind \in {"stale", "repro"}
    BY <2>1, <2>6, <2>3 DEF Turns, Moves
  <2>4. CASE job.kind = "retest"
    BY <2>1, <2>6, <2>4 DEF Turns, Moves
  <2>. QED  BY <2>2, <2>3, <2>4 DEF Turns
<1>6. WriteSettled(job.rec)
  BY <1>4, <1>5
<1>7. cur = Blocked => ~aged'
  BY <1>6 DEF WriteSettled, Write
<1>8. cur # Blocked => ClaimKey' = ClaimKey
  BY <1>3, <1>6 DEF WriteSettled, Write, ClaimKey
<1>9. /\ Begun(rec)' = Begun(job.rec) /\ Before(rec)' = Before(job.rec)
      /\ In(rec)' = In(job.rec) /\ (Free(rec)' <=> Free(job.rec))
  BY <1>1, <1>3 DEF Begun, Before, In, Free
<1>10. Settled(rec)'
  BY <1>1, <1>3, <1>6, <1>8, <1>9 DEF WriteSettled, Settled, Tried
<1>. QED  BY <1>1, <1>3, <1>4, <1>7, <1>10 DEF TriesInv

LEMMA TriesStep ==
  ASSUME Finite, DoingFirst, Role[Refine] # Tester, Typed, TriesInv, [HNext]_hvars
  PROVE  TriesInv'
<1>1. CASE UNCHANGED hvars
  <2>1. UNCHANGED <<labels, labeled, body, talk, spec, aged, ended, rec, job, outside, tries>>
    BY <1>1 DEF hvars, vars, issue
  <2>2. Quiet
    BY <2>1 DEF Quiet
  <2>3. /\ cur' = cur /\ Input' = Input /\ Wakes' = Wakes /\ (Waked' <=> Waked)
        /\ labels' = labels /\ labeled' = labeled /\ body' = body
    BY <2>2, QuietReads
  <2>4. ClaimKey' = ClaimKey /\ (SameInput' <=> SameInput) /\ ErrorsFrom' = ErrorsFrom
    BY <2>1 DEF ClaimKey, SameInput, ErrorsFrom
  <2>5. /\ (Settled(rec)' <=> Settled(rec)) /\ (Settled(job.rec)' <=> Settled(job.rec))
        /\ (RunSettled(job.rec)' <=> RunSettled(job.rec))
    BY <2>1, <2>3, <2>4 DEF Settled, RunSettled, In, Free, Tried, Begun, Before
  <2>6. (Turns' <=> Turns) /\ (WriteSettled(job.rec)' <=> WriteSettled(job.rec))
    BY <2>1, <2>3, <2>5 DEF Turns, WriteSettled
  <2>. QED  BY <2>1, <2>3, <2>5, <2>6 DEF TriesInv
<1>2. CASE HNext
  <2>1. tries' = Tries /\ Next
    BY <1>2 DEF HNext
  <2>2. CASE Environment
    <3>1. outside' # outside
      BY <2>2 DEF Environment, PersonMoves, PersonEdits, PersonWrites, TimePasses, OtherEnds, Lost,
                  Torn, Outside, Typed, TypeOK
    <3>. QED  BY <2>1, <3>1 DEF Tries, TriesInv
  <2>. QED  BY <2>1, <2>2, DecideTries, RunTries, WriteTries DEF Next, Line
<1>. QED  BY <1>1, <1>2

\* Never the same input twice: on an issue nothing changed, a role is woken
\* for its state, and for each mark of it, each time with as many retries as
\* the budget of each kind of error, and no more; a claim is let go once,
\* and a blocked issue read again once.
THEOREM TriesAreBounded ==
  ASSUME Finite, DoingFirst, Role[Refine] # Tester
  PROVE  HSpec => []TriesBounded
<1>1. HInit => TriesInv
  BY DEF HInit, TriesInv
<1>2. Typed /\ TriesInv /\ [HNext]_hvars => TriesInv'
  BY TriesStep
<1>3. Typed /\ TriesInv => TriesBounded
  <2>. SUFFICES ASSUME TriesInv, cur \in States
                PROVE  tries =< (1 + Cardinality(Marks[cur])) * PerChance
    BY DEF TriesBounded, Chances, PerChance
  <2>1. 1 =< (1 + Cardinality(Marks[cur])) * PerChance
    BY OneTry
  <2>2. (1 + Cardinality(Marks[cur])) * PerChance \in Nat
    <3>1. Cardinality({} \cap Marks[cur]) \in Nat /\ Cardinality(Marks[cur]) \in Nat
      BY MarksCount
    <3>. QED  BY <3>1, ChancesAdd
  <2>. QED  BY <2>1, <2>2 DEF TriesInv
<1>. QED  BY <1>1, <1>2, <1>3, TypedCorrect, HistoryIsLine, PTL DEF HSpec
=============================================================================
