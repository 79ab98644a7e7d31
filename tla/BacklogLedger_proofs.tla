------------------------ MODULE BacklogLedger_proofs ------------------------
(***************************************************************************)
(* What the product owner holds, for any number of issues, settings and    *)
(* turns: its types, that its label waits on a proposal alone; and where   *)
(* runs do not overlap, that an act found undone stays so, that an issue   *)
(* set aside stays so, and that no more wait than the setting allows.      *)
(***************************************************************************)
EXTENDS BacklogLedger, FiniteSetTheorems, TLAPS

-----------------------------------------------------------------------------
(* Types: of a plan, of what is left to write.                             *)

Records == [proposed : BOOLEAN, done : Places \cup {NoDone}, undone : Nat]
Posts   == [state : States, add : BOOLEAN, remove : BOOLEAN]
Over(S) == UNION {[D -> S] : D \in SUBSET Issues}
Plans ==
    [scope : SUBSET Issues, aside : SUBSET Issues, note : Over(States), act : SUBSET Issues,
     decided : SUBSET Issues, answered : SUBSET Issues, record : Over(Records), elsewhere : Nat]
Works == [at : Phases \ {"idle"}, plan : Plans, write : Over(Posts)]

Typed ==
    /\ issue \in [Issues -> Bodies] /\ held \in [Issues -> States]
    /\ job \in [Jobs -> {Idle} \cup Works]
    /\ \A j \in Jobs : job[j] # Idle =>
          /\ DOMAIN job[j].plan.record = job[j].plan.scope
          /\ DOMAIN job[j].write \subseteq job[j].plan.scope
    /\ turns \in 0..MaxTurns /\ slack \in Nat

LEMMA Empty == ASSUME NEW S PROVE <<>> \in Over(S) /\ DOMAIN <<>> = {}
<1>1. <<>> \in [{} -> S]
  OBVIOUS
<1>. QED  BY <1>1 DEF Over

LEMMA Less ==
  ASSUME NEW S, NEW f \in Over(S), NEW i
  PROVE  /\ Restrict(f, DOMAIN f \ {i}) \in Over(S)
         /\ DOMAIN Restrict(f, DOMAIN f \ {i}) = DOMAIN f \ {i}
         /\ \A k \in DOMAIN f \ {i} : Restrict(f, DOMAIN f \ {i})[k] = f[k]
<1>1. PICK D \in SUBSET Issues : f \in [D -> S]
  BY DEF Over
<1>2. Restrict(f, DOMAIN f \ {i}) \in [D \ {i} -> S]
  BY <1>1 DEF Restrict
<1>3. D \ {i} \in SUBSET Issues
  OBVIOUS
<1>. QED  BY <1>1, <1>2, <1>3 DEF Over, Restrict

LEMMA Mapped ==
  ASSUME NEW S, NEW f \in Over(S)
  PROVE  /\ DOMAIN f \subseteq Issues /\ \A k \in DOMAIN f : f[k] \in S
  BY DEF Over

LEMMA Maps ==
  ASSUME NEW S, NEW D \in SUBSET Issues, NEW f \in [D -> S]
  PROVE  f \in Over(S) /\ DOMAIN f = D
  BY DEF Over

LEMMA IdleNotWork == Idle.at = "idle" /\ \A w \in Works : w.at # "idle" /\ w # Idle
  BY DEF Idle, Works

LEMMA Working ==
  ASSUME Typed, NEW j \in Jobs, job[j].at # "idle"
  PROVE  job[j] \in Works /\ job[j] # Idle
  BY IdleNotWork DEF Typed

\* What pre wrote of an issue it read.
LEMMA NotedTyped ==
  ASSUME Typed, NEW i \in Issues, NEW a \in BOOLEAN
  PROVE  /\ Noted(i, a) \in States
         /\ Noted(i, a).label = held[i].label /\ Noted(i, a).proposed = held[i].proposed
         /\ Noted(i, a).aside = held[i].aside
         /\ Noted(i, a).done = held[i].done /\ Noted(i, a).undone = held[i].undone
<1>1. held[i] \in States /\ issue[i].words \in Nat
  BY DEF Typed, Bodies
<1>. DEFINE n == IF a THEN held[i].revisions + 1 ELSE held[i].revisions
<1>2. n \in Nat
  BY <1>1 DEF States
<1>3. Noted(i, a) = [held[i] EXCEPT !.heard = issue[i].words, !.revisions = n]
  BY <1>1 DEF Noted, States
<1>. HIDE DEF n
<1>. QED  BY <1>1, <1>2, <1>3 DEF States

\* What Persist keeps of an issue.
LEMMA KeptTyped ==
  ASSUME Typed, NEW j \in Jobs, job[j].at # "idle", NEW i \in Plan(j).scope
  PROVE  /\ Kept(j, i) \in States
         /\ Kept(j, i).label => Kept(j, i).proposed /\ Kept(j, i).aside = NoBody
         /\ Kept(j, i).done = Plan(j).record[i].done
         /\ Kept(j, i).undone = Plan(j).record[i].undone
<1>. DEFINE r == Plan(j).record[i]
            st == [held[i] EXCEPT !.proposed = r.proposed, !.done = r.done, !.undone = r.undone]
<1>1. i \in Issues /\ r \in Records
  BY Working, Mapped DEF Works, Plans, Plan, Typed
<1>2. held[i] \in States /\ issue[i] \in Bodies
  BY <1>1 DEF Typed
<1>3. /\ st \in States /\ st.done = r.done /\ st.undone = r.undone
      /\ st.heard = held[i].heard /\ st.label = held[i].label /\ st.aside = held[i].aside
      /\ st.proposed = r.proposed
  BY <1>1, <1>2 DEF States, Records
<1>4. issue[i].body \in Nat /\ issue[i].off.words \in Nat
  BY <1>2 DEF Bodies
<1>. DEFINE As(x, l) == x \in States /\ x.label = l /\ x.done = r.done /\ x.undone = r.undone
<1>5. As([st EXCEPT !.label = FALSE], FALSE)
  BY <1>3 DEF States
<1>8. As([st EXCEPT !.label = FALSE, !.proposed = FALSE], FALSE)
  BY <1>3 DEF States
<1>. DEFINE changed == issue[i].body # st.aside \/ i \in Plan(j).answered \cup Plan(j).decided
            aside == IF changed THEN NoBody ELSE st.aside
            theirs == ~issue[i].accepted /\ st.label /\ ~issue[i].label /\ i \in Plan(j).aside
            words == IF issue[i].off.words > st.heard THEN issue[i].off.words ELSE st.heard
<1>6. Kept(j, i) =
        CASE issue[i].closed -> [st EXCEPT !.label = FALSE, !.proposed = FALSE]
          [] ~issue[i].closed /\ theirs ->
               [st EXCEPT !.label = FALSE, !.proposed = FALSE, !.aside = issue[i].body, !.heard = words]
          [] ~issue[i].closed /\ issue[i].accepted -> [st EXCEPT !.label = FALSE]
          [] OTHER -> [st EXCEPT !.aside = aside, !.label = st.label /\ aside = NoBody /\ st.proposed]
  BY <1>2, <1>3 DEF Kept
<1>7. aside \in Nat \cup {NoBody} /\ words \in Nat /\ st.label \in BOOLEAN
  BY <1>2, <1>3, <1>4 DEF States
<1>. HIDE DEF st, aside, words, changed
<1>. QED
  <2>1. CASE issue[i].closed
    <3>1. Kept(j, i) = [st EXCEPT !.label = FALSE, !.proposed = FALSE]
      BY <1>6, <2>1
    <3>. QED  BY <1>8, <3>1
  <2>2. CASE ~issue[i].closed /\ theirs
    <3>1. Kept(j, i) = [st EXCEPT !.label = FALSE, !.proposed = FALSE, !.aside = issue[i].body, !.heard = words]
      BY <1>6, <2>2
    <3>. QED  BY <1>3, <1>4, <1>7, <3>1 DEF States
  <2>3. CASE ~issue[i].closed /\ issue[i].accepted
    <3>1. Kept(j, i) = [st EXCEPT !.label = FALSE]
      BY <1>6, <2>3
    <3>. QED  BY <1>5, <3>1
  <2>4. CASE ~issue[i].closed /\ ~issue[i].accepted /\ ~theirs
    <3>1. Kept(j, i) = [st EXCEPT !.aside = aside, !.label = st.label /\ aside = NoBody /\ st.proposed]
      BY <1>6, <2>4
    <3>. QED  BY <1>3, <1>7, <3>1 DEF States
  <2>. QED  BY <2>1, <2>2, <2>3, <2>4

\* What Persist writes: the label is put on what it wants to label alone.
LEMMA WrittenTyped ==
  ASSUME Typed, NEW j \in Jobs, job[j].at # "idle", NEW i \in Plan(j).scope
  PROVE  /\ Written(j, i) \in Posts
         /\ Written(j, i).state.label =>
               Written(j, i).state.proposed /\ Written(j, i).state.aside = NoBody
         /\ Written(j, i).state.done = Plan(j).record[i].done
         /\ Written(j, i).state.undone = Plan(j).record[i].undone
<1>. DEFINE k == Kept(j, i)
            st == [k EXCEPT !.label = k.label \/ i \in Labelled(j)]
<1>1. /\ k \in States /\ (k.label => k.proposed /\ k.aside = NoBody)
      /\ k.done = Plan(j).record[i].done /\ k.undone = Plan(j).record[i].undone
  BY KeptTyped
<1>2. i \in Labelled(j) => k.proposed /\ k.aside = NoBody
  BY DEF Labelled, Wants
<1>3. /\ Written(j, i).state = st
      /\ Written(j, i) = [state |-> Written(j, i).state, add |-> Written(j, i).add,
                          remove |-> Written(j, i).remove]
      /\ Written(j, i).add \in BOOLEAN /\ Written(j, i).remove \in BOOLEAN
  <2>. HIDE DEF k
  <2>1. i \in Issues
    BY Working DEF Works, Plans, Plan
  <2>2. held[i] \in States /\ issue[i] \in Bodies /\ st.label \in BOOLEAN
    BY <1>1, <2>1 DEF Typed, States
  <2>3. Written(j, i) = [state |-> st, add |-> st.label /\ ~issue[i].label,
             remove |-> ~st.label /\ issue[i].label /\ (held[i].label \/ issue[i].accepted)]
    BY DEF Written, k
  <2>. QED  BY <2>2, <2>3 DEF Bodies, States
<1>. HIDE DEF k
<1>4. /\ st \in States /\ st.label = (k.label \/ i \in Labelled(j))
      /\ st.proposed = k.proposed /\ st.aside = k.aside /\ st.done = k.done /\ st.undone = k.undone
  BY <1>1 DEF States
<1>. QED  BY <1>1, <1>2, <1>3, <1>4 DEF Posts

\* The plan of a run on S, from what was read.
Planned(p, S) ==
    /\ p \in Plans /\ p.scope = S /\ DOMAIN p.record = S
    /\ \A i \in DOMAIN p.note : \E a \in BOOLEAN : p.note[i] = Noted(i, a)
    /\ \A i \in S :
          /\ p.record[i].undone = UndoneOn(i)
          /\ \/ p.record[i].done = Standing(i)
             \/ p.record[i].done \in Places /\ UndoneOn(i) = 0

LEMMA PlanTyped ==
  ASSUME Typed, NEW S \in SUBSET Issues, NEW Read \in SUBSET S, NEW Acts \in SUBSET S
  PROVE  Planned(PlanOf(S, Read, Acts), S)
<1>. DEFINE told     == {i \in Acts : ~Ticked(i)}
            ticked   == {i \in S : Ticked(i)}
            alone    == {i \in told : AloneOn(i, S)}
            left     == {i \in S : Asked(i) /\ ~Answers(i)}
            kept(i)  == held[i].proposed /\ ~SetAside(i) /\ ~issue[i].accepted /\ i \notin told
            note     == [i \in Read \cup left |-> Noted(i, i \in Read /\ Answers(i))]
            record   == [i \in S |->
                           [proposed |-> i \in (told \ alone) \/ kept(i),
                            done     |-> IF i \in alone THEN issue[i].in ELSE Standing(i),
                            undone   |-> UndoneOn(i)]]
            others   == {i \in Issues \ S : ~issue[i].closed /\ issue[i].label}
<1>1. PlanOf(S, Read, Acts) =
        [scope |-> S, aside |-> {i \in S : SetAside(i)}, note |-> note, act |-> ticked \cup alone,
         decided |-> ticked \cup told, answered |-> {i \in Read : Answers(i)},
         record |-> record, elsewhere |-> Cardinality(others)]
  BY DEF PlanOf
<1>2. \A i \in S : issue[i] \in Bodies /\ held[i] \in States
  BY DEF Typed
<1>3. note \in [Read \cup left -> States] /\ Read \cup left \in SUBSET Issues
  <2>1. \A i \in Read \cup left : (i \in Read /\ Answers(i)) \in BOOLEAN /\ i \in Issues
    OBVIOUS
  <2>. QED  BY <2>1, NotedTyped
<1>4. record \in [S -> Records]
  <2>. SUFFICES ASSUME NEW i \in S PROVE record[i] \in Records
    OBVIOUS
  <2>1. issue[i] \in Bodies /\ held[i] \in States
    BY <1>2
  <2>2. issue[i].in \in Places /\ Standing(i) \in Places \cup {NoDone}
    BY <2>1 DEF Bodies, States, Standing
  <2>3. UndoneOn(i) \in Nat
    BY <2>1 DEF States, UndoneOn
  <2>. HIDE DEF kept, alone, told
  <2>4. record[i] = [proposed |-> record[i].proposed, done |-> record[i].done, undone |-> UndoneOn(i)]
    OBVIOUS
  <2>5. record[i].proposed \in BOOLEAN
    OBVIOUS
  <2>6. record[i].done \in Places \cup {NoDone}
    BY <2>2
  <2>. QED  BY <2>3, <2>4, <2>5, <2>6 DEF Records
<1>5. Cardinality(others) \in Nat
  <2>1. IsFiniteSet(Issues)
    BY LedgerAssumption, FS_Interval DEF Issues
  <2>. QED  BY <2>1, FS_Subset, FS_CardinalityType
<1>6. \A i \in S : record[i].done = Standing(i) \/ (record[i].done \in Places /\ UndoneOn(i) = 0)
  BY <1>2 DEF AloneOn, Bodies
<1>7. \A i \in Read \cup left : note[i] = Noted(i, i \in Read /\ Answers(i)) /\ (i \in Read /\ Answers(i)) \in BOOLEAN
  OBVIOUS
<1>8. /\ note \in Over(States) /\ DOMAIN note = Read \cup left
      /\ record \in Over(Records) /\ DOMAIN record = S
  BY <1>3, <1>4, Maps
<1>9. \A i \in S : record[i].undone = UndoneOn(i)
  OBVIOUS
<1>10. /\ {i \in S : SetAside(i)} \in SUBSET Issues /\ ticked \cup alone \in SUBSET Issues
       /\ ticked \cup told \in SUBSET Issues /\ {i \in Read : Answers(i)} \in SUBSET Issues
  OBVIOUS
<1>. HIDE DEF note, record, others, ticked, told, alone
<1>. DEFINE p == PlanOf(S, Read, Acts)
<1>11. p \in Plans /\ p.scope = S /\ p.note = note /\ p.record = record
  BY <1>1, <1>5, <1>8, <1>10 DEF Plans
<1>12. \A i \in DOMAIN note : \E a \in BOOLEAN : note[i] = Noted(i, a)
  BY <1>7, <1>8
<1>. HIDE DEF p
<1>13. Planned(p, S)
  BY <1>6, <1>8, <1>9, <1>11, <1>12 DEF Planned
<1>. QED  BY <1>13 DEF p

-----------------------------------------------------------------------------
(* What each step does to a run, and the types it keeps.                   *)

\* Run j goes on as w, the others as they were.
Goes(j, w) == job' = [job EXCEPT ![j] = w]

LEMMA GoesTyped ==
  ASSUME Typed, NEW j \in Jobs, NEW w \in {Idle} \cup Works, Goes(j, w),
         issue' \in [Issues -> Bodies], held' \in [Issues -> States],
         turns' \in 0..MaxTurns, slack' \in Nat,
         w # Idle => DOMAIN w.plan.record = w.plan.scope /\ DOMAIN w.write \subseteq w.plan.scope
  PROVE  Typed'
<1>1. job' \in [Jobs -> {Idle} \cup Works] /\ \A k \in Jobs : job'[k] = IF k = j THEN w ELSE job[k]
  BY DEF Typed, Goes
<1>. QED  BY <1>1 DEF Typed

LEMMA TurnTyped == ASSUME Typed, Turn \/ UNCHANGED turns PROVE turns' \in 0..MaxTurns
  BY LedgerAssumption DEF Typed, Turn

\* What applying a plan leaves of it as it was.
SamePlan(p, q) ==
    /\ p.scope = q.scope /\ p.aside = q.aside /\ p.record = q.record /\ p.decided = q.decided
    /\ p.answered = q.answered /\ p.elsewhere = q.elsewhere

LEMMA NoteDoes ==
  ASSUME Typed, NEW j \in Jobs, Note(j)
  PROVE  /\ Typed'
         /\ \E i \in DOMAIN Plan(j).note, w \in Works :
               /\ held' = [held EXCEPT ![i] = Plan(j).note[i]] /\ Goes(j, w)
               /\ w.at = "apply" /\ w.write = job[j].write /\ w.plan.record = Plan(j).record
               /\ w.plan.scope = Plan(j).scope /\ SamePlan(w.plan, Plan(j))
               /\ DOMAIN w.plan.note = DOMAIN Plan(j).note \ {i}
               /\ \A k \in DOMAIN w.plan.note : w.plan.note[k] = Plan(j).note[k]
<1>1. job[j] \in Works /\ job[j].at = "apply" /\ job[j] # Idle
  BY Working DEF Note, Applying
<1>2. PICK i \in DOMAIN Plan(j).note :
         /\ held' = [held EXCEPT ![i] = Plan(j).note[i]]
         /\ job' = [job EXCEPT ![j].plan.note = Restrict(@, DOMAIN @ \ {i})]
  BY DEF Note
<1>. DEFINE f == Plan(j).note
            g == Restrict(f, DOMAIN f \ {i})
            w == [job[j] EXCEPT !.plan = [job[j].plan EXCEPT !.note = g]]
<1>3. Plan(j) \in Plans /\ Plan(j) = job[j].plan /\ f \in Over(States)
  BY <1>1 DEF Works, Plan, Plans
<1>4. g \in Over(States) /\ DOMAIN g = DOMAIN f \ {i} /\ \A k \in DOMAIN g : g[k] = f[k]
  BY <1>3, Less
<1>5. Goes(j, w)
  BY <1>2, <1>1 DEF Goes, Plan, Typed, Works, Plans
<1>. HIDE DEF g
<1>6. /\ w \in Works /\ w.at = "apply" /\ w.write = job[j].write /\ w.plan.record = Plan(j).record
      /\ w.plan.scope = Plan(j).scope /\ w.plan.note = g /\ SamePlan(w.plan, Plan(j))
  BY <1>1, <1>3, <1>4 DEF Works, Plans, SamePlan
<1>. HIDE DEF w
<1>7. i \in Issues /\ f[i] \in States
  BY <1>3, Mapped
<1>8. Typed'
  <2>1. held' \in [Issues -> States] /\ issue' = issue /\ turns' = turns /\ slack' = slack
    BY <1>2, <1>7 DEF Note, Typed
  <2>2. DOMAIN w.plan.record = w.plan.scope /\ DOMAIN w.write \subseteq w.plan.scope
    BY <1>1, <1>3, <1>6 DEF Typed
  <2>. QED  BY <1>5, <1>6, <2>1, <2>2, GoesTyped DEF Typed
<1>. QED  BY <1>2, <1>4, <1>5, <1>6, <1>8

LEMMA ActDoes ==
  ASSUME Typed, NEW j \in Jobs, Act(j)
  PROVE  /\ Typed' /\ held' = held
         /\ \E w \in Works :
               /\ Goes(j, w) /\ w.at = "apply" /\ w.write = job[j].write
               /\ w.plan.record = Plan(j).record /\ w.plan.note = Plan(j).note
               /\ w.plan.scope = Plan(j).scope /\ SamePlan(w.plan, Plan(j))
<1>1. job[j] \in Works /\ job[j].at = "apply" /\ job[j] # Idle
  BY Working DEF Act, Applying
<1>2. PICK i \in Plan(j).act :
         /\ issue' = [issue EXCEPT ![i].in = "role's"]
         /\ \/ job' = [job EXCEPT ![j].plan.act = @ \ {i}] /\ UNCHANGED turns
            \/ Turn /\ UNCHANGED job
  BY DEF Act
<1>3. Plan(j) \in Plans /\ Plan(j) = job[j].plan /\ i \in Issues
  BY <1>1, <1>2 DEF Works, Plan, Plans
<1>4. issue' \in [Issues -> Bodies]
  BY <1>2, <1>3 DEF Typed, Bodies, Places
<1>5. held' = held /\ slack' = slack /\ turns' \in 0..MaxTurns
  BY <1>2, TurnTyped DEF Act
<1>. DEFINE w(a) == [job[j] EXCEPT !.plan = [job[j].plan EXCEPT !.act = a]]
<1>6. \E a \in SUBSET Issues : Goes(j, w(a))
  <2>1. CASE job' = [job EXCEPT ![j].plan.act = @ \ {i}]
    <3>1. Plan(j).act \ {i} \in SUBSET Issues
      BY <1>3 DEF Plans
    <3>2. Goes(j, w(Plan(j).act \ {i}))
      BY <1>1, <1>3, <2>1 DEF Goes, Plan, Typed, Works, Plans
    <3>. QED  BY <3>1, <3>2
  <2>2. CASE job' = job
    <3>1. Plan(j).act \in SUBSET Issues
      BY <1>3 DEF Plans
    <3>2. w(Plan(j).act) = job[j]
      BY <1>1, <1>3 DEF Works, Plans
    <3>3. Goes(j, w(Plan(j).act))
      BY <2>2, <3>2 DEF Goes, Typed
    <3>. QED  BY <3>1, <3>3
  <2>. QED  BY <1>2, <2>1, <2>2
<1>7. PICK a \in SUBSET Issues : Goes(j, w(a))
  BY <1>6
<1>8. /\ w(a) \in Works /\ w(a).at = "apply" /\ w(a).write = job[j].write
      /\ w(a).plan.record = Plan(j).record /\ w(a).plan.scope = Plan(j).scope
      /\ w(a).plan.note = Plan(j).note /\ SamePlan(w(a).plan, Plan(j))
  BY <1>1, <1>3 DEF Works, Plans, SamePlan
<1>. HIDE DEF w
<1>9. DOMAIN w(a).plan.record = w(a).plan.scope /\ DOMAIN w(a).write \subseteq w(a).plan.scope
  BY <1>1, <1>3, <1>8 DEF Typed
<1>10. Typed'
  BY <1>4, <1>5, <1>7, <1>8, <1>9, GoesTyped DEF Typed
<1>. QED  BY <1>5, <1>7, <1>8, <1>10

LEMMA PersistDoes ==
  ASSUME Typed, NEW j \in Jobs, Persist(j)
  PROVE  /\ Typed' /\ held' = held /\ DOMAIN Plan(j).note = {}
         /\ \E w \in Works :
               /\ Goes(j, w) /\ w.at = "persist" /\ w.plan = Plan(j)
               /\ DOMAIN w.write = Plan(j).scope
               /\ \A i \in Plan(j).scope : w.write[i] = Written(j, i)
<1>1. job[j] \in Works /\ job[j].at = "apply" /\ job[j] # Idle
  BY Working DEF Persist, Applying
<1>. DEFINE g == [i \in Plan(j).scope |-> Written(j, i)]
            w == [job[j] EXCEPT !.at = "persist", !.write = g]
<1>2. Plan(j) \in Plans /\ Plan(j) = job[j].plan /\ Plan(j).scope \in SUBSET Issues
  BY <1>1 DEF Works, Plan, Plans
<1>3. \A i \in Plan(j).scope : Written(j, i) \in Posts
  BY <1>1, WrittenTyped
<1>4. /\ g \in Over(Posts) /\ DOMAIN g = Plan(j).scope
      /\ \A i \in Plan(j).scope : g[i] = Written(j, i)
  BY <1>2, <1>3, Maps
<1>5. Goes(j, w)
  BY <1>1 DEF Persist, Goes, Typed, Works
<1>. HIDE DEF g
<1>6. w \in Works /\ w.at = "persist" /\ w.plan = Plan(j) /\ w.write = g
  BY <1>1, <1>2, <1>4 DEF Works, Phases
<1>. HIDE DEF w
<1>7. DOMAIN w.plan.record = w.plan.scope /\ DOMAIN w.write \subseteq w.plan.scope
  BY <1>1, <1>2, <1>4, <1>6 DEF Typed
<1>8. UNCHANGED <<issue, held, turns, slack>> /\ DOMAIN Plan(j).note = {}
  BY DEF Persist
<1>9. Typed'
  BY <1>5, <1>6, <1>7, <1>8, GoesTyped DEF Typed
<1>. QED  BY <1>4, <1>5, <1>6, <1>8, <1>9

LEMMA WriteStateDoes ==
  ASSUME Typed, NEW j \in Jobs, WriteState(j)
  PROVE  /\ Typed'
         /\ \E i \in DOMAIN job[j].write, w \in Works :
               /\ held' = [held EXCEPT ![i] = job[j].write[i].state] /\ Goes(j, w)
               /\ job[j].at = "persist" /\ w.at = "label" /\ w.plan = Plan(j)
               /\ w.write = job[j].write /\ First(j, i)
<1>1. job[j] \in Works /\ job[j].at = "persist" /\ job[j] # Idle
  BY Working DEF WriteState
<1>2. PICK i \in Issues :
         /\ First(j, i) /\ held' = [held EXCEPT ![i] = job[j].write[i].state]
         /\ job' = [job EXCEPT ![j].at = "label"]
  BY DEF WriteState
<1>. DEFINE w == [job[j] EXCEPT !.at = "label"]
<1>3. w \in Works /\ w.at = "label" /\ w.plan = Plan(j) /\ w.write = job[j].write
  BY <1>1 DEF Works, Phases, Plan
<1>4. Goes(j, w)
  BY <1>1, <1>2 DEF Goes, Typed
<1>5. i \in DOMAIN job[j].write /\ job[j].write[i] \in Posts
  BY <1>1, <1>2, Mapped DEF First, Works
<1>6. held' \in [Issues -> States]
  BY <1>2, <1>5 DEF Typed, Posts
<1>. HIDE DEF w
<1>7. DOMAIN w.plan.record = w.plan.scope /\ DOMAIN w.write \subseteq w.plan.scope
  BY <1>1, <1>3 DEF Typed, Plan
<1>8. UNCHANGED <<issue, turns, slack>>
  BY DEF WriteState
<1>9. Typed'
  BY <1>3, <1>4, <1>6, <1>7, <1>8, GoesTyped DEF Typed
<1>. QED  BY <1>1, <1>2, <1>3, <1>4, <1>5, <1>9

LEMMA WriteLabelDoes ==
  ASSUME Typed, NEW j \in Jobs, WriteLabel(j)
  PROVE  /\ Typed' /\ held' = held /\ job[j].at = "label"
         /\ \E w \in Works :
               /\ Goes(j, w) /\ w.at = "persist" /\ w.plan = Plan(j)
               /\ DOMAIN w.write \subseteq DOMAIN job[j].write
               /\ \A k \in DOMAIN w.write : w.write[k] = job[j].write[k]
<1>1. job[j] \in Works /\ job[j].at = "label" /\ job[j] # Idle
  BY Working DEF WriteLabel
<1>2. PICK i \in Issues :
         /\ First(j, i)
         /\ LET o == job[j].write[i]
            IN issue' = [issue EXCEPT ![i] =
                 IF o.add THEN [@ EXCEPT !.label = TRUE]
                 ELSE IF o.remove /\ @.label THEN Removed(i, "bot") ELSE @]
         /\ job' = [job EXCEPT ![j].at = "persist", ![j].write = Restrict(@, DOMAIN @ \ {i})]
  BY DEF WriteLabel
<1>. DEFINE f == job[j].write
            g == Restrict(f, DOMAIN f \ {i})
            w == [job[j] EXCEPT !.at = "persist", !.write = g]
<1>3. f \in Over(Posts)
  BY <1>1 DEF Works
<1>4. g \in Over(Posts) /\ DOMAIN g = DOMAIN f \ {i} /\ \A k \in DOMAIN g : g[k] = f[k]
  BY <1>3, Less
<1>5. Goes(j, w)
  BY <1>1, <1>2 DEF Goes, Typed, Works
<1>. HIDE DEF g
<1>6. w \in Works /\ w.at = "persist" /\ w.plan = Plan(j) /\ w.write = g
  BY <1>1, <1>4 DEF Works, Phases, Plan
<1>. HIDE DEF w
<1>7. DOMAIN w.plan.record = w.plan.scope /\ DOMAIN w.write \subseteq w.plan.scope
  BY <1>1, <1>4, <1>6 DEF Typed, Plan
<1>8. issue' \in [Issues -> Bodies]
  <2>1. /\ issue[i] \in Bodies /\ [issue[i] EXCEPT !.label = TRUE] \in Bodies
        /\ Removed(i, "bot") \in Bodies
    BY <1>2 DEF Typed, Bodies, Removed
  <2>. QED  BY <1>2, <2>1 DEF Typed
<1>9. UNCHANGED <<held, turns, slack>>
  BY DEF WriteLabel
<1>10. Typed'
  BY <1>5, <1>6, <1>7, <1>8, <1>9, GoesTyped DEF Typed
<1>. QED  BY <1>1, <1>4, <1>5, <1>6, <1>9, <1>10

LEMMA DiesDoes ==
  ASSUME Typed, NEW j \in Jobs, Dies(j)
  PROVE  /\ Typed' /\ held' = held
         /\ \E w \in Works :
               /\ Goes(j, w) /\ w.at = "apply" /\ w.plan = Plan(j) /\ w.write = <<>>
<1>1. job[j] \in Works /\ job[j] # Idle
  BY Working DEF Dies
<1>. DEFINE w == [job[j] EXCEPT !.at = "apply", !.write = <<>>]
<1>2. <<>> \in Over(Posts) /\ DOMAIN <<>> = {}
  BY Empty
<1>3. w \in Works /\ w.at = "apply" /\ w.plan = Plan(j) /\ w.write = <<>>
  BY <1>1, <1>2 DEF Works, Phases, Plan
<1>4. Goes(j, w)
  BY <1>1 DEF Dies, Goes, Typed, Works
<1>. HIDE DEF w
<1>5. DOMAIN w.plan.record = w.plan.scope /\ DOMAIN w.write \subseteq w.plan.scope
  BY <1>1, <1>2, <1>3 DEF Typed, Plan
<1>6. UNCHANGED <<issue, held, slack>> /\ turns' \in 0..MaxTurns
  BY TurnTyped DEF Dies
<1>7. Typed'
  BY <1>3, <1>4, <1>5, <1>6, GoesTyped DEF Typed
<1>. QED  BY <1>3, <1>4, <1>6, <1>7

LEMMA EndsDoes ==
  ASSUME Typed, NEW j \in Jobs, End(j) \/ Abandoned(j)
  PROVE  Typed' /\ held' = held /\ Goes(j, Idle)
<1>1. Goes(j, Idle) /\ UNCHANGED <<issue, held>>
  BY DEF End, Abandoned, Goes
<1>2. slack' \in Nat /\ turns' \in 0..MaxTurns
  <2>1. job[j].at # "idle" => Cardinality(HalfWay(j)) \in Nat
    <3>. SUFFICES ASSUME job[j].at # "idle" PROVE Cardinality(HalfWay(j)) \in Nat
      OBVIOUS
    <3>1. HalfWay(j) \subseteq Issues
      BY Working DEF HalfWay, Works, Plans, Plan
    <3>2. IsFiniteSet(Issues)
      BY LedgerAssumption, FS_Interval DEF Issues
    <3>. QED  BY <3>1, <3>2, FS_Subset, FS_CardinalityType
  <2>. QED  BY <2>1, TurnTyped DEF End, Abandoned, Typed
<1>3. Typed'
  BY <1>1, <1>2, GoesTyped DEF Typed
<1>. QED  BY <1>1, <1>3

LEMMA JudgeDoes ==
  ASSUME Typed, NEW j \in Jobs, NEW T \in SUBSET Issues, Judge(j, T), Turn \/ UNCHANGED turns
  PROVE  /\ Typed' /\ held' = held /\ (Overlap \/ AtRest)
         /\ \E w \in Works :
               /\ Goes(j, w) /\ w.at = "apply" /\ w.write = <<>>
               /\ DOMAIN w.plan.note \subseteq Issues
               /\ \A i \in DOMAIN w.plan.note : \E a \in BOOLEAN : w.plan.note[i] = Noted(i, a)
               /\ w.plan.scope \subseteq Issues
               /\ \A i \in w.plan.scope :
                     /\ w.plan.record[i].undone = UndoneOn(i)
                     /\ \/ w.plan.record[i].done = Standing(i)
                        \/ w.plan.record[i].done \in Places /\ UndoneOn(i) = 0
<1>. DEFINE w(p) == [at |-> "apply", plan |-> p, write |-> <<>>]
<1>1. PICK S \in SUBSET Issues : S = Open(T) /\ Readable(S) \subseteq S
  BY DEF Open, Readable
<1>2. PICK Read \in SUBSET S, Acts \in SUBSET S :
         job' = [job EXCEPT ![j] = w(PlanOf(S, Read, Acts))]
  BY <1>1 DEF Judge
<1>. DEFINE p == PlanOf(S, Read, Acts)
<1>. HIDE DEF w
<1>3. Planned(p, S)
  BY PlanTyped
<1>. HIDE DEF p
<1>4. <<>> \in Over(Posts) /\ DOMAIN <<>> = {}
  BY Empty
<1>5. w(p) \in Works /\ w(p).at = "apply" /\ w(p).write = <<>> /\ w(p).plan = p
  BY <1>3, <1>4 DEF Works, Phases, w, Planned
<1>6. Goes(j, w(p))
  BY <1>2 DEF Goes, p
<1>7. p.note \in Over(States)
  BY <1>3 DEF Plans, Planned
<1>8. DOMAIN p.note \subseteq Issues
  BY <1>7, Mapped
<1>9. UNCHANGED <<issue, held, slack>> /\ turns' \in 0..MaxTurns /\ (Overlap \/ AtRest)
  BY TurnTyped DEF Judge
<1>10. DOMAIN w(p).plan.record = w(p).plan.scope /\ DOMAIN w(p).write \subseteq w(p).plan.scope
  BY <1>3, <1>4, <1>5 DEF Planned
<1>. HIDE DEF w
<1>11. Typed'
  BY <1>5, <1>6, <1>9, <1>10, GoesTyped DEF Typed
<1>. QED  BY <1>1, <1>3, <1>5, <1>6, <1>8, <1>9, <1>11 DEF Planned

LEMMA PersonDoes ==
  ASSUME Typed, NEW i \in Issues, Person(i)
  PROVE  Typed' /\ held' = held /\ job' = job
<1>1. issue[i] \in Bodies
  BY DEF Typed
<1>2. /\ Removed(i, "person") \in Bodies /\ Removed(i, "bot") \in Bodies
      /\ [issue[i] EXCEPT !.accepted = TRUE] \in Bodies
      /\ [issue[i] EXCEPT !.accepted = FALSE] \in Bodies
      /\ [issue[i] EXCEPT !.body = @ + 1] \in Bodies
      /\ [issue[i] EXCEPT !.words = @ + 1] \in Bodies
      /\ [issue[i] EXCEPT !.closed = TRUE] \in Bodies
      /\ \A m \in Places : [issue[i] EXCEPT !.in = m] \in Bodies
  <2>1. Removed(i, "person") \in Bodies /\ Removed(i, "bot") \in Bodies
    BY <1>1 DEF Removed, Bodies
  <2>2. /\ [issue[i] EXCEPT !.accepted = TRUE] \in Bodies
        /\ [issue[i] EXCEPT !.accepted = FALSE] \in Bodies
    BY <1>1 DEF Bodies
  <2>3. [issue[i] EXCEPT !.body = @ + 1] \in Bodies /\ [issue[i] EXCEPT !.words = @ + 1] \in Bodies
    BY <1>1 DEF Bodies
  <2>4. [issue[i] EXCEPT !.closed = TRUE] \in Bodies
    BY <1>1 DEF Bodies
  <2>5. \A m \in Places : [issue[i] EXCEPT !.in = m] \in Bodies
    BY <1>1 DEF Bodies
  <2>. QED  BY <2>1, <2>2, <2>3, <2>4, <2>5
<1>3. PICK is \in Bodies : Said(i, is)
  BY <1>2 DEF Person, PersonTakesOff, BotTakesOff, Accepts, TakesBack, Edits, Writes, Closes,
              MovesMilestone
<1>4. slack' \in Nat
  <2>1. slack' = slack \/ slack' = slack + 1
    BY DEF Person, PersonTakesOff, BotTakesOff, Accepts, TakesBack, Edits, Writes, Closes,
           MovesMilestone
  <2>. QED  BY <2>1 DEF Typed
<1>5. turns' \in 0..MaxTurns /\ held' = held /\ job' = job /\ issue' \in [Issues -> Bodies]
  BY <1>3, TurnTyped DEF Said, Typed
<1>. QED  BY <1>4, <1>5 DEF Typed

\* The run, or the person, that steps.
LEMMA StepCases ==
  ASSUME Next
  PROVE  \/ \E j \in Jobs :
              \/ Note(j) \/ Act(j) \/ Persist(j) \/ WriteState(j) \/ WriteLabel(j) \/ Dies(j)
              \/ End(j) \/ Abandoned(j)
              \/ \E T \in SUBSET Issues : Judge(j, T) /\ (Turn \/ UNCHANGED turns)
         \/ \E i \in Issues : Person(i)
<1>1. ASSUME JudgeNight PROVE \E j \in Jobs, T \in SUBSET Issues : Judge(j, T) /\ UNCHANGED turns
  BY <1>1 DEF JudgeNight, Jobs
<1>2. ASSUME JudgeEvent PROVE \E j \in Jobs, T \in SUBSET Issues : Judge(j, T) /\ Turn
  <2>1. PICK i \in Issues : Judge("event", {i}) /\ Turn
    BY <1>2 DEF JudgeEvent
  <2>2. {i} \in SUBSET Issues /\ "event" \in Jobs
    BY DEF Jobs
  <2>. QED  BY <2>1, <2>2
<1>3. CASE \E j \in Jobs : Step(j) \/ Dies(j) \/ Abandoned(j)
  BY <1>3 DEF Step
<1>. QED  BY <1>1, <1>2, <1>3 DEF Next

LEMMA InitTyped == ASSUME Init PROVE Typed
<1>1. NewIssue \in Bodies /\ NewState \in States
  BY DEF NewIssue, NewState, NoOff, Bodies, States, Places
<1>. QED  BY <1>1, LedgerAssumption DEF Init, Typed

LEMMA NextTyped == ASSUME Typed, [Next]_vars PROVE Typed'
<1>1. CASE UNCHANGED vars
  BY <1>1 DEF vars, Typed
<1>2. ASSUME NEW j \in Jobs,
             \/ Note(j) \/ Act(j) \/ Persist(j) \/ WriteState(j) \/ WriteLabel(j) \/ Dies(j)
             \/ End(j) \/ Abandoned(j)
      PROVE  Typed'
  BY <1>2, NoteDoes, ActDoes, PersistDoes, WriteStateDoes, WriteLabelDoes, DiesDoes, EndsDoes
<1>3. ASSUME NEW j \in Jobs, NEW T \in SUBSET Issues, Judge(j, T), Turn \/ UNCHANGED turns
      PROVE  Typed'
  BY <1>3, JudgeDoes
<1>4. ASSUME NEW i \in Issues, Person(i) PROVE Typed'
  BY <1>4, PersonDoes
<1>. QED  BY <1>1, <1>2, <1>3, <1>4, StepCases

\* The types of the ledger, of the issues and of what people did, for any
\* number of issues and any settings: a run's plan included.
THEOREM TypeCorrect == Spec => []TypeOK
<1>1. Init => Typed
  BY InitTyped
<1>2. Typed /\ [Next]_vars => Typed'
  BY NextTyped
<1>3. Typed => TypeOK
  <2>. SUFFICES ASSUME Typed PROVE TypeOK
    OBVIOUS
  <2>1. \A j \in Jobs : job[j].at \in Phases
    BY IdleNotWork DEF Typed, Works, Phases, Idle
  <2>. QED  BY <2>1 DEF Typed, TypeOK
<1>. QED  BY <1>1, <1>2, <1>3, PTL DEF Spec

-----------------------------------------------------------------------------
(* The label waits on a proposal alone: so it is in each state held, noted *)
(* for one read, or left to write.                                         *)

Well(st) == st.label => st.proposed /\ st.aside = NoBody
AllWell(w) ==
    /\ \A i \in DOMAIN w.plan.note : Well(w.plan.note[i])
    /\ \A i \in DOMAIN w.write : Well(w.write[i].state)
Waiting ==
    /\ \A i \in Issues : Well(held[i])
    /\ \A j \in Jobs : job[j] # Idle => AllWell(job[j])

LEMMA WaitingGoes ==
  ASSUME Typed, Waiting, NEW j \in Jobs, NEW w, Goes(j, w), w # Idle => AllWell(w),
         \/ held' = held
         \/ \E i \in Issues : \E st : Well(st) /\ held' = [held EXCEPT ![i] = st]
  PROVE  Waiting'
<1>1. \A k \in Jobs : job'[k] = IF k = j THEN w ELSE job[k]
  BY DEF Typed, Goes
<1>2. \A i \in Issues : Well(held'[i])
  BY DEF Typed, Waiting
<1>. QED  BY <1>1, <1>2 DEF Waiting

LEMMA WaitingNext == ASSUME Typed, Waiting, [Next]_vars PROVE Waiting'
<1>1. CASE UNCHANGED vars
  BY <1>1 DEF vars, Waiting
<1>2. ASSUME NEW j \in Jobs, Note(j) PROVE Waiting'
  <2>1. PICK i \in DOMAIN Plan(j).note, w \in Works :
           /\ held' = [held EXCEPT ![i] = Plan(j).note[i]] /\ Goes(j, w)
           /\ w.write = job[j].write /\ DOMAIN w.plan.note = DOMAIN Plan(j).note \ {i}
           /\ \A k \in DOMAIN w.plan.note : w.plan.note[k] = Plan(j).note[k]
    BY <1>2, NoteDoes
  <2>2. job[j] \in Works /\ job[j] # Idle
    BY <1>2, Working DEF Note, Applying
  <2>3. AllWell(job[j]) /\ i \in Issues
    BY <2>1, <2>2, Mapped DEF Waiting, Works, Plans, Plan
  <2>4. Well(Plan(j).note[i]) /\ AllWell(w)
    BY <2>1, <2>3 DEF AllWell, Plan
  <2>. QED  BY <2>1, <2>3, <2>4, WaitingGoes
<1>3. ASSUME NEW j \in Jobs, Act(j) PROVE Waiting'
  <2>1. PICK w \in Works :
           Goes(j, w) /\ w.write = job[j].write /\ w.plan.note = Plan(j).note /\ held' = held
    BY <1>3, ActDoes
  <2>2. job[j] # Idle
    BY <1>3, Working DEF Act, Applying
  <2>3. AllWell(w)
    BY <2>1, <2>2 DEF Waiting, AllWell, Plan
  <2>. QED  BY <2>1, <2>3, WaitingGoes
<1>4. ASSUME NEW j \in Jobs, Persist(j) PROVE Waiting'
  <2>1. PICK w \in Works :
           /\ Goes(j, w) /\ w.plan = Plan(j) /\ DOMAIN w.write = Plan(j).scope
           /\ \A i \in Plan(j).scope : w.write[i] = Written(j, i)
    BY <1>4, PersistDoes
  <2>2. job[j] # Idle /\ job[j].at # "idle" /\ held' = held
    BY <1>4, Working, PersistDoes DEF Persist, Applying
  <2>3. \A i \in Plan(j).scope : Well(Written(j, i).state)
    BY <2>2, WrittenTyped DEF Well
  <2>4. AllWell(w)
    BY <2>1, <2>2, <2>3 DEF Waiting, AllWell, Plan
  <2>. QED  BY <2>1, <2>2, <2>4, WaitingGoes
<1>5. ASSUME NEW j \in Jobs, WriteState(j) PROVE Waiting'
  <2>1. PICK i \in DOMAIN job[j].write, w \in Works :
           /\ held' = [held EXCEPT ![i] = job[j].write[i].state] /\ Goes(j, w)
           /\ w.plan = Plan(j) /\ w.write = job[j].write
    BY <1>5, WriteStateDoes
  <2>2. job[j] \in Works /\ job[j] # Idle
    BY <1>5, Working DEF WriteState
  <2>3. AllWell(job[j]) /\ i \in Issues
    BY <2>1, <2>2, Mapped DEF Waiting, Works
  <2>4. Well(job[j].write[i].state) /\ AllWell(w)
    BY <2>1, <2>3 DEF AllWell, Plan
  <2>. QED  BY <2>1, <2>3, <2>4, WaitingGoes
<1>6. ASSUME NEW j \in Jobs, WriteLabel(j) PROVE Waiting'
  <2>1. PICK w \in Works :
           /\ Goes(j, w) /\ w.plan = Plan(j) /\ DOMAIN w.write \subseteq DOMAIN job[j].write
           /\ \A k \in DOMAIN w.write : w.write[k] = job[j].write[k]
    BY <1>6, WriteLabelDoes
  <2>2. job[j] # Idle /\ held' = held
    BY <1>6, Working, WriteLabelDoes DEF WriteLabel
  <2>3. AllWell(w)
    BY <2>1, <2>2 DEF Waiting, AllWell, Plan
  <2>. QED  BY <2>1, <2>2, <2>3, WaitingGoes
<1>7. ASSUME NEW j \in Jobs, Dies(j) PROVE Waiting'
  <2>1. PICK w \in Works : Goes(j, w) /\ w.plan = Plan(j) /\ w.write = <<>> /\ held' = held
    BY <1>7, DiesDoes
  <2>2. job[j] # Idle
    BY <1>7, Working DEF Dies
  <2>3. AllWell(w)
    BY <2>1, <2>2, Empty DEF Waiting, AllWell, Plan
  <2>. QED  BY <2>1, <2>3, WaitingGoes
<1>8. ASSUME NEW j \in Jobs, End(j) \/ Abandoned(j) PROVE Waiting'
  BY <1>8, EndsDoes, WaitingGoes
<1>9. ASSUME NEW j \in Jobs, NEW T \in SUBSET Issues, Judge(j, T), Turn \/ UNCHANGED turns
      PROVE  Waiting'
  <2>1. PICK w \in Works :
           /\ Goes(j, w) /\ w.write = <<>> /\ DOMAIN w.plan.note \subseteq Issues
           /\ \A i \in DOMAIN w.plan.note : \E a \in BOOLEAN : w.plan.note[i] = Noted(i, a)
    BY <1>9, JudgeDoes
  <2>2. \A i \in Issues : \A a \in BOOLEAN : Well(Noted(i, a))
    BY NotedTyped DEF Waiting, Well
  <2>3. AllWell(w)
    BY <2>1, <2>2, Empty DEF AllWell
  <2>4. held' = held
    BY <1>9, JudgeDoes
  <2>. QED  BY <2>1, <2>3, <2>4, WaitingGoes
<1>10. ASSUME NEW i \in Issues, Person(i) PROVE Waiting'
  BY <1>10, PersonDoes DEF Waiting
<1>. QED  BY <1>1, <1>2, <1>3, <1>4, <1>5, <1>6, <1>7, <1>8, <1>9, <1>10, StepCases

\* The role's label is held on a proposal that waits alone, whatever people
\* do meanwhile, however many runs are judged and applied at once, and
\* wherever one dies.
THEOREM LabelOnProposal == Spec => []LabelWaits
<1>1. Init => Typed /\ Waiting
  <2>. SUFFICES ASSUME Init PROVE Waiting
    BY InitTyped
  <2>1. Well(NewState)
    BY DEF Well, NewState
  <2>. QED  BY <2>1 DEF Init, Waiting
<1>2. Typed /\ Waiting /\ [Next]_vars => Typed' /\ Waiting'
  BY NextTyped, WaitingNext
<1>3. Waiting => LabelWaits
  BY DEF Waiting, Well, LabelWaits
<1>. QED  BY <1>1, <1>2, <1>3, PTL DEF Spec

-----------------------------------------------------------------------------
(* An act found undone stays so, one run at a time: from the judgement to  *)
(* the last write, what a run read of an issue is what is held there.      *)

\* As it was read: nothing undone is done again, nothing undone is lost.
AsRead(w) ==
    /\ \A i \in w.plan.scope :
          /\ w.plan.record[i].undone > 0 => w.plan.record[i].done = NoDone
          /\ held[i].undone > 0 => w.plan.record[i].undone = held[i].undone
    /\ \A i \in DOMAIN w.plan.note :
          w.plan.note[i].undone = held[i].undone /\ w.plan.note[i].done = held[i].done
    /\ w.at # "apply" => DOMAIN w.plan.note = {}
    /\ \A i \in DOMAIN w.write :
          /\ w.write[i].state.undone = w.plan.record[i].undone
          /\ w.write[i].state.done = w.plan.record[i].done

Quiet == \A i \in Issues : held[i].undone > 0 => held[i].done = NoDone
OneRun == \A j \in Jobs, k \in Jobs : job[j] # Idle /\ job[k] # Idle => j = k
Steady == Quiet /\ OneRun /\ \A j \in Jobs : job[j] # Idle => AsRead(job[j])

UndoneStep == \A i \in Issues : held[i].undone > 0 => held'[i].undone = held[i].undone

LEMMA SteadyGoes ==
  ASSUME Typed, Steady, NEW j \in Jobs, NEW w, Goes(j, w),
         job[j] # Idle \/ AtRest, w # Idle => AsRead(w)', Quiet'
  PROVE  Steady'
<1>1. \A k \in Jobs : job'[k] = IF k = j THEN w ELSE job[k]
  BY DEF Typed, Goes
<1>2. \A k \in Jobs \ {j} : job[k] = Idle
  BY IdleNotWork DEF Steady, OneRun, AtRest, Typed
<1>3. \A k \in Jobs \ {j} : job'[k] = Idle
  BY <1>1, <1>2
<1>4. OneRun'
  BY <1>3 DEF OneRun
<1>5. \A k \in Jobs : job'[k] # Idle => k = j /\ job'[k] = w
  BY <1>1, <1>3
<1>6. \A k \in Jobs : (job[k] # Idle => AsRead(job[k]))'
  BY <1>5 DEF AsRead
<1>. QED  BY <1>4, <1>6 DEF Steady

LEMMA SteadyNext ==
  ASSUME Overlap = FALSE, Typed, Steady, [Next]_vars PROVE Steady' /\ UndoneStep
<1>1. CASE UNCHANGED vars
  BY <1>1 DEF vars, Steady, Quiet, OneRun, AsRead, UndoneStep
<1>2. ASSUME NEW j \in Jobs, Note(j) PROVE Steady' /\ UndoneStep
  <2>1. PICK i \in DOMAIN Plan(j).note, w \in Works :
           /\ held' = [held EXCEPT ![i] = Plan(j).note[i]] /\ Goes(j, w) /\ w.at = "apply"
           /\ w.write = job[j].write /\ DOMAIN w.plan.note = DOMAIN Plan(j).note \ {i}
           /\ w.plan.record = Plan(j).record /\ w.plan.scope = Plan(j).scope
           /\ \A k \in DOMAIN w.plan.note : w.plan.note[k] = Plan(j).note[k]
    BY <1>2, NoteDoes
  <2>2. job[j] \in Works /\ job[j] # Idle
    BY <1>2, Working DEF Note, Applying
  <2>3. AsRead(job[j]) /\ i \in Issues /\ job[j].plan.scope \subseteq Issues
        /\ DOMAIN Plan(j).note \subseteq Issues
    BY <2>1, <2>2, Mapped DEF Steady, Works, Plans, Plan
  <2>4. \A k \in Issues : held'[k].undone = held[k].undone /\ held'[k].done = held[k].done
    BY <2>1, <2>3 DEF Typed, AsRead, Plan
  <2>5. AsRead(w)'
    BY <2>1, <2>3, <2>4 DEF AsRead, Plan
  <2>6. Quiet' /\ UndoneStep
    BY <2>4 DEF Steady, Quiet, UndoneStep
  <2>. QED  BY <2>1, <2>2, <2>5, <2>6, SteadyGoes
<1>3. ASSUME NEW j \in Jobs, Act(j) PROVE Steady' /\ UndoneStep
  <2>1. PICK w \in Works :
           /\ Goes(j, w) /\ w.at = "apply" /\ w.write = job[j].write /\ held' = held
           /\ w.plan.note = Plan(j).note /\ w.plan.record = Plan(j).record
           /\ w.plan.scope = Plan(j).scope
    BY <1>3, ActDoes
  <2>2. job[j] # Idle
    BY <1>3, Working DEF Act, Applying
  <2>3. AsRead(w)'
    BY <2>1, <2>2 DEF Steady, AsRead, Plan
  <2>4. Quiet' /\ UndoneStep
    BY <2>1 DEF Steady, Quiet, UndoneStep
  <2>. QED  BY <2>1, <2>2, <2>3, <2>4, SteadyGoes
<1>4. ASSUME NEW j \in Jobs, Persist(j) PROVE Steady' /\ UndoneStep
  <2>1. PICK w \in Works :
           /\ Goes(j, w) /\ w.plan = Plan(j) /\ DOMAIN w.write = Plan(j).scope
           /\ \A i \in Plan(j).scope : w.write[i] = Written(j, i)
    BY <1>4, PersistDoes
  <2>2. /\ job[j] # Idle /\ job[j].at # "idle" /\ held' = held /\ DOMAIN Plan(j).note = {}
    BY <1>4, Working, PersistDoes DEF Persist, Applying
  <2>3. \A i \in Plan(j).scope :
           /\ Written(j, i).state.done = Plan(j).record[i].done
           /\ Written(j, i).state.undone = Plan(j).record[i].undone
    BY <2>2, WrittenTyped
  <2>4. AsRead(w)'
    BY <2>1, <2>2, <2>3 DEF Steady, AsRead, Plan
  <2>5. Quiet' /\ UndoneStep
    BY <2>2 DEF Steady, Quiet, UndoneStep
  <2>. QED  BY <2>1, <2>2, <2>4, <2>5, SteadyGoes
<1>5. ASSUME NEW j \in Jobs, WriteState(j) PROVE Steady' /\ UndoneStep
  <2>1. PICK i \in DOMAIN job[j].write, w \in Works :
           /\ held' = [held EXCEPT ![i] = job[j].write[i].state] /\ Goes(j, w)
           /\ job[j].at = "persist" /\ w.at = "label" /\ w.plan = Plan(j) /\ w.write = job[j].write
    BY <1>5, WriteStateDoes
  <2>2. job[j] \in Works /\ job[j] # Idle
    BY <1>5, Working DEF WriteState
  <2>3. /\ AsRead(job[j]) /\ i \in job[j].plan.scope /\ job[j].plan.scope \subseteq Issues
        /\ DOMAIN job[j].plan.note = {}
    BY <2>1, <2>2 DEF Steady, Works, Plans, Typed, AsRead
  <2>. DEFINE r == job[j].plan.record[i]
  <2>4. \A k \in Issues : held'[k] = IF k = i THEN job[j].write[i].state ELSE held[k]
    BY <2>1, <2>3 DEF Typed
  <2>5. held'[i].undone = r.undone /\ held'[i].done = r.done
    BY <2>1, <2>3, <2>4 DEF AsRead
  <2>6. (r.undone > 0 => r.done = NoDone) /\ (held[i].undone > 0 => r.undone = held[i].undone)
    BY <2>3 DEF AsRead
  <2>7. Quiet' /\ UndoneStep
    BY <2>3, <2>4, <2>5, <2>6 DEF Steady, Quiet, UndoneStep
  <2>8. AsRead(w)'
    BY <2>1, <2>3, <2>4, <2>5 DEF AsRead, Plan
  <2>. QED  BY <2>1, <2>2, <2>7, <2>8, SteadyGoes
<1>6. ASSUME NEW j \in Jobs, WriteLabel(j) PROVE Steady' /\ UndoneStep
  <2>1. PICK w \in Works :
           /\ Goes(j, w) /\ w.plan = Plan(j) /\ DOMAIN w.write \subseteq DOMAIN job[j].write
           /\ \A k \in DOMAIN w.write : w.write[k] = job[j].write[k]
    BY <1>6, WriteLabelDoes
  <2>2. job[j] # Idle /\ held' = held /\ job[j].at = "label"
    BY <1>6, Working, WriteLabelDoes DEF WriteLabel
  <2>3. AsRead(w)'
    BY <2>1, <2>2 DEF Steady, AsRead, Plan
  <2>4. Quiet' /\ UndoneStep
    BY <2>2 DEF Steady, Quiet, UndoneStep
  <2>. QED  BY <2>1, <2>2, <2>3, <2>4, SteadyGoes
<1>7. ASSUME NEW j \in Jobs, Dies(j) PROVE Steady' /\ UndoneStep
  <2>1. PICK w \in Works : Goes(j, w) /\ w.plan = Plan(j) /\ w.write = <<>> /\ held' = held
    BY <1>7, DiesDoes
  <2>2. job[j] # Idle /\ job[j].at # "apply"
    BY <1>7, Working DEF Dies
  <2>3. AsRead(w)'
    BY <2>1, <2>2, Empty DEF Steady, AsRead, Plan
  <2>4. Quiet' /\ UndoneStep
    BY <2>1 DEF Steady, Quiet, UndoneStep
  <2>. QED  BY <2>1, <2>2, <2>3, <2>4, SteadyGoes
<1>8. ASSUME NEW j \in Jobs, End(j) \/ Abandoned(j) PROVE Steady' /\ UndoneStep
  <2>1. Goes(j, Idle) /\ held' = held
    BY <1>8, EndsDoes
  <2>2. job[j] # Idle
    BY <1>8, Working DEF End, Abandoned
  <2>3. Quiet' /\ UndoneStep
    BY <2>1 DEF Steady, Quiet, UndoneStep
  <2>. QED  BY <2>1, <2>2, <2>3, SteadyGoes
<1>9. ASSUME NEW j \in Jobs, NEW T \in SUBSET Issues, Judge(j, T), Turn \/ UNCHANGED turns
      PROVE  Steady' /\ UndoneStep
  <2>1. PICK w \in Works :
           /\ Goes(j, w) /\ w.at = "apply" /\ w.write = <<>> /\ DOMAIN w.plan.note \subseteq Issues
           /\ \A i \in DOMAIN w.plan.note : \E a \in BOOLEAN : w.plan.note[i] = Noted(i, a)
           /\ w.plan.scope \subseteq Issues
           /\ \A i \in w.plan.scope :
                 /\ w.plan.record[i].undone = UndoneOn(i)
                 /\ \/ w.plan.record[i].done = Standing(i)
                    \/ w.plan.record[i].done \in Places /\ UndoneOn(i) = 0
    BY <1>9, JudgeDoes
  <2>2. held' = held /\ AtRest
    BY <1>9, JudgeDoes
  <2>3. \A i \in DOMAIN w.plan.note :
           w.plan.note[i].undone = held[i].undone /\ w.plan.note[i].done = held[i].done
    BY <2>1, NotedTyped
  <2>4. ASSUME NEW i \in w.plan.scope
        PROVE  /\ w.plan.record[i].undone > 0 => w.plan.record[i].done = NoDone
               /\ held[i].undone > 0 => w.plan.record[i].undone = held[i].undone
    <3>1. /\ held[i].undone \in Nat /\ issue[i].in \in Places /\ i \in Issues
      BY <2>1 DEF Typed, States, Bodies
    <3>2. held[i].undone > 0 => held[i].done = NoDone
      BY <3>1 DEF Steady, Quiet
    <3>3. NoDone \notin Places
      BY DEF NoDone, Places
    <3>4. UndoneOn(i) > 0 => Standing(i) = NoDone
      BY <3>1, <3>2 DEF UndoneOn, Standing
    <3>5. held[i].undone > 0 => UndoneOn(i) = held[i].undone
      BY <3>1, <3>2, <3>3 DEF UndoneOn, Undone
    <3>. QED  BY <2>1, <3>4, <3>5
  <2>5. AsRead(w)'
    BY <2>1, <2>2, <2>3, <2>4, Empty DEF AsRead
  <2>6. Quiet' /\ UndoneStep
    BY <2>2 DEF Steady, Quiet, UndoneStep
  <2>. QED  BY <2>1, <2>2, <2>5, <2>6, SteadyGoes
<1>10. ASSUME NEW i \in Issues, Person(i) PROVE Steady' /\ UndoneStep
  BY <1>10, PersonDoes DEF Steady, Quiet, OneRun, AsRead, UndoneStep
<1>. QED  BY <1>1, <1>2, <1>3, <1>4, <1>5, <1>6, <1>7, <1>8, <1>9, <1>10, StepCases

\* An act found undone counts as undone for ever, once (Decide, Persist),
\* where runs do not overlap: whatever people move, wherever a run dies, is
\* resumed, or is left and judged anew.
THEOREM UndoneKept == ASSUME Overlap = FALSE PROVE Spec => UndoneStands
<1>1. Init => Typed /\ Steady
  <2>. SUFFICES ASSUME Init PROVE Steady
    BY InitTyped
  <2>1. NewState.undone = 0
    BY DEF NewState
  <2>2. Quiet
    BY <2>1 DEF Init, Quiet
  <2>. QED  BY <2>2 DEF Init, Steady, OneRun
<1>2. Typed /\ Steady /\ [Next]_vars => Typed' /\ Steady' /\ UndoneStep
  BY NextTyped, SteadyNext
<1>3. UndoneStep => [UndoneStep]_held
  OBVIOUS
<1>4. Spec => [][UndoneStep]_held
  BY <1>1, <1>2, <1>3, PTL DEF Spec
<1>. QED  BY <1>4 DEF UndoneStands, UndoneStep

-----------------------------------------------------------------------------
(* What people and runs do to an issue, and what Persist keeps of one.     *)

\* A person's step: a label off, or the label and who took it off as before.
LEMMA PersonMoves ==
  ASSUME Typed, NEW i \in Issues, Person(i)
  PROVE  /\ \A k \in Issues \ {i} : issue'[k] = issue[k]
         /\ issue[i].body =< issue'[i].body /\ issue[i].words =< issue'[i].words
         /\ issue[i].closed => issue'[i].closed
         /\ \/ /\ issue'[i].label = issue[i].label /\ issue'[i].off = issue[i].off
               /\ \/ slack' = slack /\ (issue[i].accepted => issue'[i].accepted)
                  \/ slack' = slack + 1
            \/ /\ issue[i].label /\ ~issue'[i].label /\ issue'[i].off.words = issue'[i].words
               /\ issue'[i].accepted = issue[i].accepted
               /\ \/ slack' = slack /\ issue'[i].off.by = "person"
                  \/ slack' = slack + 1
<1>1. issue[i] \in Bodies /\ issue \in [Issues -> Bodies]
  BY DEF Typed
<1>. DEFINE Others == \A k \in Issues \ {i} : issue'[k] = issue[k]
<1>2. \A is : Said(i, is) => Others /\ issue'[i] = is
  BY <1>1 DEF Said
<1>3. CASE PersonTakesOff(i)
  <2>1. issue'[i] = Removed(i, "person") /\ Others /\ slack' = slack /\ issue[i].label
    BY <1>2, <1>3 DEF PersonTakesOff
  <2>. QED  BY <1>1, <2>1 DEF Removed, Bodies
<1>4. CASE BotTakesOff(i)
  <2>1. issue'[i] = Removed(i, "bot") /\ Others /\ slack' = slack + 1 /\ issue[i].label
    BY <1>2, <1>4 DEF BotTakesOff
  <2>. QED  BY <1>1, <2>1 DEF Removed, Bodies
<1>5. CASE Accepts(i)
  <2>1. issue'[i] = [issue[i] EXCEPT !.accepted = TRUE] /\ Others /\ slack' = slack
    BY <1>2, <1>5 DEF Accepts
  <2>. QED  BY <1>1, <2>1 DEF Bodies
<1>6. CASE TakesBack(i)
  <2>1. issue'[i] = [issue[i] EXCEPT !.accepted = FALSE] /\ Others /\ slack' = slack + 1
    BY <1>2, <1>6 DEF TakesBack
  <2>. QED  BY <1>1, <2>1 DEF Bodies
<1>7. CASE Edits(i)
  <2>1. issue'[i] = [issue[i] EXCEPT !.body = @ + 1] /\ Others /\ slack' = slack
    BY <1>2, <1>7 DEF Edits
  <2>. QED  BY <1>1, <2>1 DEF Bodies
<1>8. CASE Writes(i)
  <2>1. issue'[i] = [issue[i] EXCEPT !.words = @ + 1] /\ Others /\ slack' = slack
    BY <1>2, <1>8 DEF Writes
  <2>. QED  BY <1>1, <2>1 DEF Bodies
<1>9. CASE Closes(i)
  <2>1. issue'[i] = [issue[i] EXCEPT !.closed = TRUE] /\ Others /\ slack' = slack
    BY <1>2, <1>9 DEF Closes
  <2>. QED  BY <1>1, <2>1 DEF Bodies
<1>10. CASE MovesMilestone(i)
  <2>1. PICK m : issue'[i] = [issue[i] EXCEPT !.in = m] /\ Others /\ slack' = slack
    BY <1>2, <1>10 DEF MovesMilestone
  <2>. QED  BY <1>1, <2>1 DEF Bodies
<1>. QED  BY <1>3, <1>4, <1>5, <1>6, <1>7, <1>8, <1>9, <1>10 DEF Person

\* The label written on the first issue left, as its state says.
LEMMA WriteLabelMoves ==
  ASSUME Typed, NEW j \in Jobs, WriteLabel(j)
  PROVE  /\ held' = held /\ slack' = slack /\ job[j] \in Works /\ job[j].at = "label"
         /\ \E i \in DOMAIN job[j].write, w \in Works :
               /\ First(j, i)
               /\ Goes(j, w) /\ w.at = "persist" /\ w.plan = Plan(j)
               /\ DOMAIN w.write = DOMAIN job[j].write \ {i}
               /\ \A k \in DOMAIN w.write : w.write[k] = job[j].write[k]
               /\ \A k \in Issues \ {i} : issue'[k] = issue[k]
               /\ issue'[i].body = issue[i].body /\ issue'[i].words = issue[i].words
               /\ issue'[i].closed = issue[i].closed /\ issue'[i].accepted = issue[i].accepted
               /\ \/ job[j].write[i].add /\ issue'[i].label /\ issue'[i].off = issue[i].off
                  \/ ~job[j].write[i].add /\ issue'[i] = issue[i]
                  \/ /\ job[j].write[i].remove /\ issue[i].label /\ ~issue'[i].label
                     /\ issue'[i].off.words = issue'[i].words
<1>1. job[j] \in Works /\ job[j].at = "label" /\ job[j] # Idle
  BY Working DEF WriteLabel
<1>2. PICK i \in Issues :
         /\ First(j, i)
         /\ LET o == job[j].write[i]
            IN issue' = [issue EXCEPT ![i] =
                 IF o.add THEN [@ EXCEPT !.label = TRUE]
                 ELSE IF o.remove /\ @.label THEN Removed(i, "bot") ELSE @]
         /\ job' = [job EXCEPT ![j].at = "persist", ![j].write = Restrict(@, DOMAIN @ \ {i})]
  BY DEF WriteLabel
<1>. DEFINE f == job[j].write
            g == Restrict(f, DOMAIN f \ {i})
            w == [job[j] EXCEPT !.at = "persist", !.write = g]
<1>3. f \in Over(Posts) /\ i \in DOMAIN f
  BY <1>1, <1>2 DEF Works, First
<1>4. g \in Over(Posts) /\ DOMAIN g = DOMAIN f \ {i} /\ \A k \in DOMAIN g : g[k] = f[k]
  BY <1>3, Less
<1>5. Goes(j, w)
  BY <1>1, <1>2 DEF Goes, Typed, Works
<1>. HIDE DEF g
<1>6. w \in Works /\ w.at = "persist" /\ w.plan = Plan(j) /\ w.write = g
  BY <1>1, <1>4 DEF Works, Phases, Plan
<1>. HIDE DEF w
<1>7. issue[i] \in Bodies /\ \A k \in Issues \ {i} : issue'[k] = issue[k]
  BY <1>2 DEF Typed
<1>8. issue'[i] = IF f[i].add THEN [issue[i] EXCEPT !.label = TRUE]
                  ELSE IF f[i].remove /\ issue[i].label THEN Removed(i, "bot") ELSE issue[i]
  BY <1>2 DEF Typed
<1>9. f[i].add \in BOOLEAN
  <2>1. f[i] \in Posts
    BY <1>3, Mapped
  <2>. QED  BY <2>1 DEF Posts
<1>10. /\ issue'[i].body = issue[i].body /\ issue'[i].words = issue[i].words
       /\ issue'[i].closed = issue[i].closed /\ issue'[i].accepted = issue[i].accepted
       /\ \/ f[i].add /\ issue'[i].label /\ issue'[i].off = issue[i].off
          \/ ~f[i].add /\ issue'[i] = issue[i]
          \/ /\ f[i].remove /\ issue[i].label /\ ~issue'[i].label
             /\ issue'[i].off.words = issue'[i].words
  BY <1>7, <1>8, <1>9 DEF Removed, Bodies
<1>11. held' = held /\ slack' = slack
  BY DEF WriteLabel
<1>12. DOMAIN w.write = DOMAIN f \ {i} /\ \A k \in DOMAIN w.write : w.write[k] = f[k]
  BY <1>4, <1>6
<1>. QED  BY <1>1, <1>2, <1>3, <1>5, <1>6, <1>7, <1>10, <1>11, <1>12

\* Persist's cases: closed, set aside by a person, accepted, and the others.
LEMMA KeptIs ==
  ASSUME Typed, NEW j \in Jobs, job[j].at # "idle", NEW i \in Plan(j).scope
  PROVE  LET k      == Kept(j, i)
             r      == Plan(j).record[i]
             theirs == /\ ~issue[i].accepted /\ held[i].label /\ ~issue[i].label
                       /\ i \in Plan(j).aside
             changed == issue[i].body # held[i].aside \/ i \in Plan(j).answered \cup Plan(j).decided
         IN /\ issue[i].closed =>
                 ~k.label /\ ~k.proposed /\ k.aside = held[i].aside /\ k.heard = held[i].heard
            /\ ~issue[i].closed /\ theirs =>
                 /\ ~k.label /\ ~k.proposed /\ k.aside = issue[i].body
                 /\ issue[i].off.words =< k.heard
            /\ ~issue[i].closed /\ issue[i].accepted =>
                 /\ ~k.label /\ k.proposed = r.proposed
                 /\ k.aside = held[i].aside /\ k.heard = held[i].heard
            /\ ~issue[i].closed /\ ~issue[i].accepted /\ ~theirs =>
                 /\ k.proposed = r.proposed /\ k.heard = held[i].heard
                 /\ k.aside = (IF changed THEN NoBody ELSE held[i].aside)
                 /\ k.label <=> held[i].label /\ k.aside = NoBody /\ r.proposed
<1>. DEFINE r == Plan(j).record[i]
            st == [held[i] EXCEPT !.proposed = r.proposed, !.done = r.done, !.undone = r.undone]
            changed == issue[i].body # held[i].aside \/ i \in Plan(j).answered \cup Plan(j).decided
            aside == IF changed THEN NoBody ELSE held[i].aside
            theirs == ~issue[i].accepted /\ held[i].label /\ ~issue[i].label /\ i \in Plan(j).aside
            words == IF issue[i].off.words > held[i].heard THEN issue[i].off.words ELSE held[i].heard
<1>1. i \in Issues /\ r \in Records
  BY Working, Mapped DEF Works, Plans, Plan, Typed
<1>2. held[i] \in States /\ issue[i] \in Bodies
  BY <1>1 DEF Typed
<1>3. /\ st \in States /\ st.heard = held[i].heard /\ st.label = held[i].label
      /\ st.aside = held[i].aside /\ st.proposed = r.proposed
  BY <1>1, <1>2 DEF States, Records
<1>4. issue[i].body \in Nat /\ issue[i].off.words \in Nat /\ held[i].heard \in Nat
      /\ held[i].label \in BOOLEAN /\ r.proposed \in BOOLEAN
  BY <1>1, <1>2 DEF Bodies, States, Records
<1>5. Kept(j, i) =
        CASE issue[i].closed -> [st EXCEPT !.label = FALSE, !.proposed = FALSE]
          [] ~issue[i].closed /\ theirs ->
               [st EXCEPT !.label = FALSE, !.proposed = FALSE, !.aside = issue[i].body, !.heard = words]
          [] ~issue[i].closed /\ issue[i].accepted -> [st EXCEPT !.label = FALSE]
          [] OTHER -> [st EXCEPT !.aside = aside, !.label = st.label /\ aside = NoBody /\ st.proposed]
  BY <1>2, <1>3 DEF Kept
<1>6. issue[i].off.words =< words
  BY <1>4
<1>. HIDE DEF st, aside, words, theirs, changed
<1>7. issue[i].closed =>
        /\ ~Kept(j, i).label /\ ~Kept(j, i).proposed
        /\ Kept(j, i).aside = held[i].aside /\ Kept(j, i).heard = held[i].heard
  BY <1>3, <1>5 DEF States
<1>8. ~issue[i].closed /\ theirs =>
        /\ ~Kept(j, i).label /\ ~Kept(j, i).proposed /\ Kept(j, i).aside = issue[i].body
        /\ issue[i].off.words =< Kept(j, i).heard
  <2>. SUFFICES ASSUME ~issue[i].closed, theirs
                PROVE  /\ ~Kept(j, i).label /\ ~Kept(j, i).proposed
                       /\ Kept(j, i).aside = issue[i].body /\ Kept(j, i).heard = words
    BY <1>6
  <2>0. ~issue[i].accepted
    BY DEF theirs
  <2>1. Kept(j, i) = [st EXCEPT !.label = FALSE, !.proposed = FALSE, !.aside = issue[i].body, !.heard = words]
    BY <1>5, <2>0
  <2>. QED  BY <1>3, <2>1 DEF States
<1>9. ~issue[i].closed /\ issue[i].accepted =>
        /\ ~Kept(j, i).label /\ Kept(j, i).proposed = r.proposed
        /\ Kept(j, i).aside = held[i].aside /\ Kept(j, i).heard = held[i].heard
  <2>. SUFFICES ASSUME ~issue[i].closed, issue[i].accepted
                PROVE  /\ ~Kept(j, i).label /\ Kept(j, i).proposed = r.proposed
                       /\ Kept(j, i).aside = held[i].aside /\ Kept(j, i).heard = held[i].heard
    OBVIOUS
  <2>1. ~theirs
    BY DEF theirs
  <2>2. Kept(j, i) = [st EXCEPT !.label = FALSE]
    BY <1>5, <2>1
  <2>. QED  BY <1>3, <2>2 DEF States
<1>10. ~issue[i].closed /\ ~issue[i].accepted /\ ~theirs =>
        /\ Kept(j, i).proposed = r.proposed /\ Kept(j, i).heard = held[i].heard
        /\ Kept(j, i).aside = aside
        /\ Kept(j, i).label = (held[i].label /\ aside = NoBody /\ r.proposed)
  <2>. SUFFICES ASSUME ~issue[i].closed, ~issue[i].accepted, ~theirs
                PROVE  /\ Kept(j, i).proposed = r.proposed /\ Kept(j, i).heard = held[i].heard
                       /\ Kept(j, i).aside = aside
                       /\ Kept(j, i).label = (held[i].label /\ aside = NoBody /\ r.proposed)
    OBVIOUS
  <2>1. Kept(j, i) = [st EXCEPT !.aside = aside, !.label = st.label /\ aside = NoBody /\ st.proposed]
    BY <1>5
  <2>. QED  BY <1>3, <2>1 DEF States
<1>11. /\ theirs = (~issue[i].accepted /\ held[i].label /\ ~issue[i].label /\ i \in Plan(j).aside)
       /\ aside = (IF changed THEN NoBody ELSE held[i].aside)
       /\ changed = (issue[i].body # held[i].aside \/ i \in Plan(j).answered \cup Plan(j).decided)
  BY DEF theirs, aside, changed
<1>. QED  BY <1>7, <1>8, <1>9, <1>10, <1>11

\* What Persist writes is what it keeps, with the label where it wants it.
LEMMA WrittenIs ==
  ASSUME Typed, NEW j \in Jobs, job[j].at # "idle", NEW i \in Plan(j).scope
  PROVE  LET p == Written(j, i)
             k == Kept(j, i)
         IN /\ p.state.label <=> k.label \/ i \in Labelled(j)
            /\ p.state.proposed = k.proposed /\ p.state.aside = k.aside /\ p.state.heard = k.heard
            /\ p.add <=> p.state.label /\ ~issue[i].label
            /\ p.remove => ~p.state.label
<1>. DEFINE k == Kept(j, i)
            st == [k EXCEPT !.label = k.label \/ i \in Labelled(j)]
<1>1. k \in States
  BY KeptTyped
<1>. HIDE DEF k
<1>2. /\ st.label = (k.label \/ i \in Labelled(j))
      /\ st.proposed = k.proposed /\ st.aside = k.aside /\ st.heard = k.heard
  BY <1>1 DEF States
<1>3. Written(j, i) = [state |-> st, add |-> st.label /\ ~issue[i].label,
           remove |-> ~st.label /\ issue[i].label /\ (held[i].label \/ issue[i].accepted)]
  BY DEF Written, k
<1>. HIDE DEF st
<1>4. /\ Written(j, i).state = st /\ Written(j, i).add = (st.label /\ ~issue[i].label)
      /\ Written(j, i).remove = (~st.label /\ issue[i].label /\ (held[i].label \/ issue[i].accepted))
  BY <1>3
<1>5. k = Kept(j, i)
  BY DEF k
<1>. QED  BY <1>2, <1>4, <1>5

-----------------------------------------------------------------------------
(* An issue set aside stays so, one run at a time.  While nothing changed  *)
(* there, the run does not decide on it, and what it is about to write     *)
(* holds it aside: an issue held aside bears no label, so nobody takes one *)
(* off, and its words and its body only grow past what was heard.          *)

\* Nothing changed on it since a person set it aside.
NotNow(i) == held[i].aside = issue[i].body /\ issue[i].off.words = issue[i].words

SetDown(i) ==
    /\ issue[i].off.words =< issue[i].words
    /\ held[i].aside # NoBody =>
          held[i].aside =< issue[i].body /\ ~issue[i].label /\ issue[i].off.words =< held[i].heard
    /\ NotNow(i) => ~held[i].proposed

NotesRight(w) ==
    \A i \in DOMAIN w.plan.note :
        /\ w.plan.note[i].label = held[i].label /\ w.plan.note[i].proposed = held[i].proposed
        /\ w.plan.note[i].aside = held[i].aside
        /\ held[i].aside # NoBody => issue[i].off.words =< w.plan.note[i].heard

PlanRight(w) ==
    \A i \in w.plan.scope :
        /\ i \in w.plan.aside => ~w.plan.record[i].proposed
        /\ (NotNow(i) \/ i \in w.plan.aside) =>
              i \notin w.plan.decided \cup w.plan.answered /\ ~w.plan.record[i].proposed

\* What is left to write on an issue, by what is held and shown there.
PostRight(w, i) ==
    LET st == w.write[i].state IN
    /\ NotNow(i) => st.aside = held[i].aside
    /\ st.aside # NoBody =>
          /\ st.aside = held[i].aside \/ i \in w.plan.aside
          /\ st.aside =< issue[i].body /\ ~issue[i].label /\ issue[i].off.words =< st.heard
    /\ st.aside = issue[i].body /\ issue[i].off.words = issue[i].words => ~st.proposed

PostsRight(w) ==
    \A i \in DOMAIN w.write :
        /\ PostRight(w, i)
        /\ w.write[i].add => w.write[i].state.label
        /\ w.write[i].remove => ~w.write[i].state.label
        /\ w.at = "label" /\ (\A k \in DOMAIN w.write : i =< k) => held[i] = w.write[i].state

RunRight(w) == NotesRight(w) /\ PlanRight(w) /\ PostsRight(w)
AsideInv == (\A i \in Issues : SetDown(i)) /\ \A j \in Jobs : job[j] # Idle => RunRight(job[j])

AsideStep == \A i \in Issues : NotNow(i) => held'[i].aside = held[i].aside

\* Only one run goes on.
LEMMA OnlyOne ==
  ASSUME Typed, OneRun, NEW j \in Jobs, NEW w, Goes(j, w), job[j] # Idle \/ AtRest
  PROVE  /\ \A k \in Jobs : job'[k] # Idle => k = j /\ job'[k] = w
         /\ job'[j] = w
<1>1. \A k \in Jobs : job'[k] = IF k = j THEN w ELSE job[k]
  BY DEF Typed, Goes
<1>2. \A k \in Jobs \ {j} : job[k] = Idle
  BY IdleNotWork DEF OneRun, AtRest, Typed
<1>. QED  BY <1>1, <1>2

LEMMA AsideGoes ==
  ASSUME Typed, OneRun, NEW j \in Jobs, NEW w, Goes(j, w), job[j] # Idle \/ AtRest,
         w # Idle => RunRight(w)', \A i \in Issues : SetDown(i)'
  PROVE  AsideInv'
<1>1. \A k \in Jobs : job'[k] # Idle => job'[k] = w
  BY OnlyOne
<1>2. \A k \in Jobs : (job[k] # Idle => NotesRight(job[k]))'
  BY <1>1 DEF RunRight, NotesRight
<1>3. \A k \in Jobs : (job[k] # Idle => PlanRight(job[k]))'
  BY <1>1 DEF RunRight, PlanRight, NotNow
<1>4. \A k \in Jobs : (job[k] # Idle => PostsRight(job[k]))'
  BY <1>1 DEF RunRight, PostsRight, PostRight, NotNow
<1>. QED  BY <1>2, <1>3, <1>4 DEF AsideInv, RunRight

\* What is known of an issue stays known as it grows: its body, its words,
\* the label taken off, or put on where nothing is set aside.
Grew(i, w) ==
    /\ held[i].aside \in Nat \cup {NoBody} /\ {issue[i].body, issue'[i].body} \subseteq Nat
    /\ {issue[i].words, issue'[i].words, issue[i].off.words, issue'[i].off.words} \subseteq Nat
    /\ issue[i].body =< issue'[i].body /\ issue[i].words =< issue'[i].words
    /\ \/ issue'[i].label = issue[i].label /\ issue'[i].off = issue[i].off
       \/ issue[i].label /\ ~issue'[i].label /\ issue'[i].off.words = issue'[i].words
       \/ issue'[i].off = issue[i].off /\ held[i].aside = NoBody /\ i \notin DOMAIN w.write

LEMMA DownGrew ==
  ASSUME Typed, \A i \in Issues : SetDown(i), held' = held, NEW w, \A i \in Issues : Grew(i, w)
  PROVE  \A i \in Issues :
            /\ held[i].aside # NoBody =>
                  ~issue[i].label /\ issue'[i].label = issue[i].label /\ issue'[i].off = issue[i].off
            /\ NotNow(i)' => NotNow(i)
            /\ SetDown(i)'
<1>1. ASSUME NEW i \in Issues, held[i].aside # NoBody
      PROVE  ~issue[i].label /\ issue'[i].label = issue[i].label /\ issue'[i].off = issue[i].off
  BY <1>1 DEF SetDown, Grew
<1>2. ASSUME NEW i \in Issues, NotNow(i)'
      PROVE  NotNow(i)
  <2>1. held[i].aside = issue'[i].body /\ issue'[i].off.words = issue'[i].words
    BY <1>2 DEF NotNow
  <2>2. held[i].aside # NoBody
    BY <2>1 DEF Grew, NoBody
  <2>3. /\ held[i].aside =< issue[i].body /\ issue[i].off.words =< issue[i].words
        /\ issue'[i].off = issue[i].off
    BY <1>1, <2>2 DEF SetDown
  <2>. QED  BY <2>1, <2>3 DEF Grew, NotNow
<1>3. ASSUME NEW i \in Issues PROVE SetDown(i)'
  <2>1. issue'[i].off.words =< issue'[i].words
    BY DEF Grew, SetDown
  <2>2. held[i].aside # NoBody =>
          held[i].aside =< issue'[i].body /\ ~issue'[i].label /\ issue'[i].off.words =< held[i].heard
    BY <1>1 DEF Grew, SetDown, NoBody
  <2>. QED  BY <1>2, <2>1, <2>2 DEF SetDown
<1>. QED  BY <1>1, <1>2, <1>3

LEMMA AsideGrew ==
  ASSUME Typed, \A i \in Issues : SetDown(i), NEW w \in Works, RunRight(w), held' = held,
         w.plan.scope \subseteq Issues, DOMAIN w.write \subseteq Issues,
         \A i \in Issues : Grew(i, w)
  PROVE  RunRight(w)' /\ \A i \in Issues : SetDown(i)'
<1>0. DOMAIN w.plan.note \subseteq Issues
  BY Mapped DEF Works, Plans
<1>1. ASSUME NEW i \in Issues, held[i].aside # NoBody
      PROVE  ~issue[i].label /\ issue'[i].label = issue[i].label /\ issue'[i].off = issue[i].off
  BY <1>1, DownGrew
<1>2. \A i \in Issues : NotNow(i)' => NotNow(i)
  BY DownGrew
<1>3. \A i \in Issues : SetDown(i)'
  BY DownGrew
<1>4. NotesRight(w)'
  BY <1>0, <1>1 DEF RunRight, NotesRight
<1>5. PlanRight(w)'
  BY <1>2 DEF RunRight, PlanRight
<1>6. ASSUME NEW i \in DOMAIN w.write PROVE PostRight(w, i)'
  <2>. DEFINE st == w.write[i].state
  <2>0. i \in Issues /\ PostRight(w, i) /\ st \in States
    <3>1. w.write[i] \in Posts
      BY Mapped DEF Works
    <3>. QED  BY <3>1 DEF RunRight, PostsRight, Posts
  <2>1. ASSUME st.aside # NoBody
        PROVE  /\ ~issue'[i].label /\ issue'[i].off = issue[i].off
               /\ st.aside =< issue[i].body /\ st.aside \in Nat
    BY <2>0, <2>1 DEF PostRight, Grew, States
  <2>2. NotNow(i)' => st.aside = held[i].aside
    BY <1>2, <2>0 DEF PostRight
  <2>3. st.aside # NoBody =>
          /\ st.aside = held[i].aside \/ i \in w.plan.aside
          /\ st.aside =< issue'[i].body /\ ~issue'[i].label /\ issue'[i].off.words =< st.heard
    BY <2>0, <2>1 DEF PostRight, Grew
  <2>4. st.aside = issue'[i].body /\ issue'[i].off.words = issue'[i].words => ~st.proposed
    <3>. SUFFICES ASSUME st.aside = issue'[i].body, issue'[i].off.words = issue'[i].words
                  PROVE  ~st.proposed
      OBVIOUS
    <3>1. st.aside # NoBody
      BY <2>0 DEF Grew, NoBody
    <3>2. st.aside = issue[i].body /\ issue[i].off.words = issue[i].words
      BY <2>0, <2>1, <3>1 DEF Grew, SetDown
    <3>. QED  BY <2>0, <3>2 DEF PostRight
  <2>. QED  BY <2>2, <2>3, <2>4 DEF PostRight
<1>7. PostsRight(w)'
  BY <1>6 DEF RunRight, PostsRight
<1>. QED  BY <1>3, <1>4, <1>5, <1>7 DEF RunRight

\* What Persist writes of an issue as it reads it.
LEMMA WrittenRight ==
  ASSUME Typed, NEW j \in Jobs, job[j].at # "idle", NEW i \in Plan(j).scope,
         Well(held[i]), SetDown(i), PlanRight(job[j])
  PROVE  LET st == Written(j, i).state IN
         /\ NotNow(i) => st.aside = held[i].aside
         /\ st.aside # NoBody =>
               /\ st.aside = held[i].aside \/ i \in Plan(j).aside
               /\ st.aside =< issue[i].body /\ ~issue[i].label /\ issue[i].off.words =< st.heard
         /\ st.aside = issue[i].body /\ issue[i].off.words = issue[i].words => ~st.proposed
<1>. DEFINE k == Kept(j, i)
            r == Plan(j).record[i]
            theirs == ~issue[i].accepted /\ held[i].label /\ ~issue[i].label /\ i \in Plan(j).aside
            changed == issue[i].body # held[i].aside \/ i \in Plan(j).answered \cup Plan(j).decided
<1>1. i \in Issues /\ issue[i].body \in Nat
  BY Working DEF Works, Plans, Plan, Typed, Bodies
<1>2. NotNow(i) => i \notin Plan(j).decided \cup Plan(j).answered /\ ~r.proposed
  BY DEF PlanRight, Plan
<1>3. NotNow(i) => ~held[i].label /\ held[i].aside # NoBody /\ ~changed
  BY <1>1, <1>2 DEF NotNow, Well, NoBody
<1>. DEFINE Right(st) ==
        /\ NotNow(i) => st.aside = held[i].aside
        /\ st.aside # NoBody =>
              /\ st.aside = held[i].aside \/ i \in Plan(j).aside
              /\ st.aside =< issue[i].body /\ ~issue[i].label /\ issue[i].off.words =< st.heard
        /\ st.aside = issue[i].body /\ issue[i].off.words = issue[i].words => ~st.proposed
<1>4. CASE issue[i].closed
  <2>1. ~k.proposed /\ k.aside = held[i].aside /\ k.heard = held[i].heard
    BY <1>4, KeptIs
  <2>. QED  BY <2>1, WrittenIs DEF SetDown
<1>5. CASE ~issue[i].closed /\ theirs
  <2>1. ~k.proposed /\ k.aside = issue[i].body /\ issue[i].off.words =< k.heard
    BY <1>5, KeptIs
  <2>2. issue[i].body =< issue[i].body
    BY <1>1
  <2>. QED  BY <1>3, <1>5, <2>1, <2>2, WrittenIs
<1>6. CASE ~issue[i].closed /\ issue[i].accepted
  <2>1. k.proposed = r.proposed /\ k.aside = held[i].aside /\ k.heard = held[i].heard
    BY <1>6, KeptIs
  <2>. QED  BY <1>2, <2>1, WrittenIs DEF SetDown, NotNow
<1>7. CASE ~issue[i].closed /\ ~issue[i].accepted /\ ~theirs
  <2>1. /\ k.proposed = r.proposed /\ k.heard = held[i].heard
        /\ k.aside = (IF changed THEN NoBody ELSE held[i].aside)
    BY <1>7, KeptIs
  <2>2. k.aside = issue[i].body => k.aside = held[i].aside
    BY <1>1, <2>1 DEF NoBody
  <2>. QED  BY <1>2, <1>3, <2>1, <2>2, WrittenIs DEF SetDown, NotNow
<1>. QED  BY <1>4, <1>5, <1>6, <1>7

\* What a run judged of each issue it read.
LEMMA JudgePlan ==
  ASSUME Typed, NEW j \in Jobs, NEW T \in SUBSET Issues, Judge(j, T), Turn \/ UNCHANGED turns
  PROVE  /\ UNCHANGED <<issue, held, slack>> /\ (Overlap \/ AtRest)
         /\ \E w \in Works :
               /\ Goes(j, w) /\ w.at = "apply" /\ w.write = <<>> /\ w.plan.scope \subseteq Issues
               /\ w.plan.elsewhere =
                     Cardinality({i \in Issues \ w.plan.scope : ~issue[i].closed /\ issue[i].label})
               /\ DOMAIN w.plan.note \subseteq Issues
               /\ \A i \in DOMAIN w.plan.note : \E a \in BOOLEAN : w.plan.note[i] = Noted(i, a)
               /\ \A i \in w.plan.scope :
                     /\ i \in w.plan.aside <=> SetAside(i)
                     /\ i \in w.plan.decided => Ticked(i) \/ ~Aside(i)
                     /\ i \in w.plan.answered => Answers(i)
                     /\ w.plan.record[i].proposed =>
                           ~Aside(i) \/ (held[i].proposed /\ ~SetAside(i) /\ ~issue[i].accepted)
<1>. DEFINE w(p) == [at |-> "apply", plan |-> p, write |-> <<>>]
<1>1. PICK S \in SUBSET Issues : S = Open(T) /\ Readable(S) \subseteq S
  BY DEF Open, Readable
<1>2. PICK Read \in SUBSET S, Acts \in SUBSET {i \in S : ~Aside(i)} :
         job' = [job EXCEPT ![j] = w(PlanOf(S, Read, Acts))]
  BY <1>1 DEF Judge
<1>. DEFINE p == PlanOf(S, Read, Acts)
<1>. HIDE DEF w
<1>3. Acts \in SUBSET S /\ \A i \in Acts : ~Aside(i)
  OBVIOUS
<1>4. Planned(p, S)
  BY <1>3, PlanTyped
<1>5. <<>> \in Over(Posts)
  BY Empty
<1>. DEFINE told == {i \in Acts : ~Ticked(i)}
            kept(i) == held[i].proposed /\ ~SetAside(i) /\ ~issue[i].accepted /\ i \notin told
<1>6. /\ p.aside = {i \in S : SetAside(i)}
      /\ p.decided = {i \in S : Ticked(i)} \cup told
      /\ p.answered = {i \in Read : Answers(i)}
      /\ p.elsewhere = Cardinality({i \in Issues \ S : ~issue[i].closed /\ issue[i].label})
  BY DEF PlanOf
<1>7. \A i \in S : p.record[i].proposed = (i \in told \ {k \in told : AloneOn(k, S)} \/ kept(i))
  BY DEF PlanOf
<1>. HIDE DEF p
<1>8. w(p) \in Works /\ w(p).at = "apply" /\ w(p).write = <<>> /\ w(p).plan = p
  BY <1>4, <1>5 DEF Works, Phases, w, Planned
<1>9. Goes(j, w(p))
  BY <1>2 DEF Goes, p
<1>10. p.note \in Over(States) /\ p.scope = S
  BY <1>4 DEF Plans, Planned
<1>11. DOMAIN p.note \subseteq Issues /\ \A i \in DOMAIN p.note : \E a \in BOOLEAN : p.note[i] = Noted(i, a)
  BY <1>4, <1>10, Mapped DEF Planned
<1>12. UNCHANGED <<issue, held, slack>> /\ (Overlap \/ AtRest)
  BY DEF Judge
<1>13. ASSUME NEW i \in S
       PROVE  /\ i \in p.aside <=> SetAside(i)
              /\ i \in p.decided => Ticked(i) \/ ~Aside(i)
              /\ i \in p.answered => Answers(i)
              /\ p.record[i].proposed =>
                    ~Aside(i) \/ (held[i].proposed /\ ~SetAside(i) /\ ~issue[i].accepted)
  BY <1>3, <1>6, <1>7
<1>. HIDE DEF w
<1>. QED  BY <1>6, <1>8, <1>9, <1>10, <1>11, <1>12, <1>13

\* What pre heard of an issue it read: all its words.
LEMMA NotedHeard ==
  ASSUME Typed, NEW i \in Issues, NEW a \in BOOLEAN
  PROVE  Noted(i, a).heard = issue[i].words
<1>1. held[i] \in States /\ issue[i].words \in Nat
  BY DEF Typed, Bodies
<1>. DEFINE n == IF a THEN held[i].revisions + 1 ELSE held[i].revisions
<1>2. Noted(i, a) = [held[i] EXCEPT !.heard = issue[i].words, !.revisions = n]
  BY <1>1 DEF Noted, States
<1>. HIDE DEF n
<1>. QED  BY <1>1, <1>2 DEF States

LEMMA AsideNext ==
  ASSUME Overlap = FALSE, Typed, Waiting, Steady, AsideInv, [Next]_vars
  PROVE  AsideInv' /\ AsideStep
<1>0. OneRun /\ \A i \in Issues : SetDown(i) /\ Well(held[i])
  BY DEF Steady, Waiting, AsideInv
<1>1. CASE UNCHANGED vars
  BY <1>1 DEF vars, AsideInv, SetDown, RunRight, NotesRight, PlanRight, PostsRight, PostRight,
              NotNow, AsideStep
<1>2. ASSUME NEW j \in Jobs, Note(j) PROVE AsideInv' /\ AsideStep
  <2>1. PICK i \in DOMAIN Plan(j).note, w \in Works :
           /\ held' = [held EXCEPT ![i] = Plan(j).note[i]] /\ Goes(j, w) /\ w.at = "apply"
           /\ w.write = job[j].write /\ DOMAIN w.plan.note = DOMAIN Plan(j).note \ {i}
           /\ SamePlan(w.plan, Plan(j))
           /\ \A k \in DOMAIN w.plan.note : w.plan.note[k] = Plan(j).note[k]
    BY <1>2, NoteDoes
  <2>2. job[j] \in Works /\ job[j] # Idle /\ issue' = issue
    BY <1>2, Working DEF Note, Applying
  <2>3. RunRight(job[j]) /\ i \in Issues /\ job[j].plan.scope \subseteq Issues
        /\ DOMAIN Plan(j).note \subseteq Issues /\ DOMAIN job[j].write \subseteq Issues
    BY <2>1, <2>2, Mapped DEF AsideInv, Works, Plans, Plan
  <2>4. \A k \in Issues : /\ held'[k].aside = held[k].aside /\ held'[k].proposed = held[k].proposed
                          /\ held'[k].label = held[k].label
    BY <2>1, <2>3 DEF Typed, RunRight, NotesRight, Plan
  <2>5. \A k \in Issues : held'[k].aside # NoBody => issue[k].off.words =< held'[k].heard
    <3>1. \A k \in Issues : held'[k] = IF k = i THEN Plan(j).note[i] ELSE held[k]
      BY <2>1, <2>3 DEF Typed
    <3>. QED  BY <1>0, <2>1, <2>3, <2>4, <3>1 DEF RunRight, NotesRight, Plan, SetDown
  <2>6. \A k \in Issues : SetDown(k)' /\ NotNow(k)' = NotNow(k)
    BY <1>0, <2>2, <2>4, <2>5 DEF SetDown, NotNow
  <2>7. NotesRight(w)'
    BY <2>1, <2>2, <2>3, <2>4 DEF RunRight, NotesRight, Plan
  <2>8. PlanRight(w)'
    BY <2>1, <2>3, <2>6 DEF RunRight, PlanRight, SamePlan, Plan
  <2>9. PostsRight(w)'
    BY <2>1, <2>2, <2>3, <2>4, <2>6 DEF RunRight, PostsRight, PostRight, SamePlan, Plan
  <2>10. AsideInv'
    BY <1>0, <2>1, <2>2, <2>6, <2>7, <2>8, <2>9, AsideGoes DEF RunRight
  <2>. QED  BY <2>4, <2>10 DEF AsideStep
<1>3. ASSUME NEW j \in Jobs, Act(j) PROVE AsideInv' /\ AsideStep
  <2>1. PICK w \in Works :
           /\ Goes(j, w) /\ w.at = "apply" /\ w.write = job[j].write /\ held' = held
           /\ w.plan.note = Plan(j).note /\ SamePlan(w.plan, Plan(j))
    BY <1>3, ActDoes
  <2>2. job[j] \in Works /\ job[j] # Idle
    BY <1>3, Working DEF Act, Applying
  <2>3. /\ RunRight(job[j]) /\ w.plan.scope \subseteq Issues /\ DOMAIN w.write \subseteq Issues
    BY <2>1, <2>2, Mapped DEF AsideInv, Works, Plans, Plan
  <2>4. RunRight(w)
    BY <2>1, <2>3 DEF RunRight, NotesRight, PlanRight, PostsRight, PostRight, SamePlan, Plan
  <2>5. \A i \in Issues : Grew(i, w)
    <3>1. \A i \in Issues : /\ issue'[i].body = issue[i].body /\ issue'[i].words = issue[i].words
                            /\ issue'[i].label = issue[i].label /\ issue'[i].off = issue[i].off
      <4>1. PICK i : issue' = [issue EXCEPT ![i].in = "role's"]
        BY <1>3 DEF Act
      <4>. QED  BY <4>1 DEF Typed, Bodies
    <3>2. \A i \in Issues : issue[i] \in Bodies /\ held[i] \in States
      BY DEF Typed
    <3>. QED  BY <3>1, <3>2 DEF Grew, Bodies, States
  <2>6. RunRight(w)' /\ \A i \in Issues : SetDown(i)'
    BY <1>0, <2>1, <2>3, <2>4, <2>5, AsideGrew
  <2>7. AsideInv'
    BY <1>0, <2>1, <2>2, <2>6, AsideGoes
  <2>. QED  BY <2>1, <2>7 DEF AsideStep
<1>4. ASSUME NEW j \in Jobs, Persist(j) PROVE AsideInv' /\ AsideStep
  <2>1. PICK w \in Works :
           /\ Goes(j, w) /\ w.at = "persist" /\ w.plan = Plan(j) /\ DOMAIN w.write = Plan(j).scope
           /\ \A i \in Plan(j).scope : w.write[i] = Written(j, i)
    BY <1>4, PersistDoes
  <2>2. /\ job[j] \in Works /\ job[j] # Idle /\ job[j].at # "idle" /\ held' = held
        /\ issue' = issue /\ DOMAIN Plan(j).note = {}
    BY <1>4, Working, PersistDoes DEF Persist, Applying
  <2>3. RunRight(job[j]) /\ Plan(j).scope \subseteq Issues
    BY <2>2 DEF AsideInv, Works, Plans, Plan
  <2>4. \A i \in Plan(j).scope : PostRight(w, i)
    BY <1>0, <2>1, <2>2, <2>3, WrittenRight DEF PostRight, RunRight
  <2>5. \A i \in Plan(j).scope : /\ w.write[i].add => w.write[i].state.label
                                 /\ w.write[i].remove => ~w.write[i].state.label
    BY <2>1, <2>2, WrittenIs
  <2>6. RunRight(w)
    BY <2>1, <2>2, <2>3, <2>4, <2>5 DEF RunRight, NotesRight, PlanRight, PostsRight, Plan
  <2>7. RunRight(w)' /\ \A i \in Issues : SetDown(i)'
    BY <1>0, <2>2, <2>6 DEF RunRight, NotesRight, PlanRight, PostsRight, PostRight, SetDown, NotNow
  <2>8. AsideInv'
    BY <1>0, <2>1, <2>2, <2>7, AsideGoes
  <2>. QED  BY <2>2, <2>8 DEF AsideStep
<1>5. ASSUME NEW j \in Jobs, WriteState(j) PROVE AsideInv' /\ AsideStep
  <2>1. PICK i \in DOMAIN job[j].write, w \in Works :
           /\ held' = [held EXCEPT ![i] = job[j].write[i].state] /\ Goes(j, w)
           /\ job[j].at = "persist" /\ w.at = "label" /\ w.plan = Plan(j) /\ w.write = job[j].write
           /\ First(j, i)
    BY <1>5, WriteStateDoes
  <2>2. job[j] \in Works /\ job[j] # Idle /\ issue' = issue
    BY <1>5, Working DEF WriteState
  <2>3. /\ RunRight(job[j]) /\ i \in job[j].plan.scope /\ job[j].plan.scope \subseteq Issues
        /\ DOMAIN job[j].plan.note = {} /\ DOMAIN job[j].write \subseteq Issues
    BY <2>1, <2>2, Mapped DEF Steady, AsRead, AsideInv, Works, Plans, Typed
  <2>. DEFINE st == job[j].write[i].state
  <2>4. \A k \in Issues : held'[k] = IF k = i THEN st ELSE held[k]
    BY <2>1, <2>3 DEF Typed
  <2>5. PostRight(job[j], i)
    BY <2>3 DEF RunRight, PostsRight
  <2>6. AsideStep
    BY <2>4, <2>5 DEF AsideStep, PostRight
  <2>7. \A k \in Issues : SetDown(k)'
    BY <1>0, <2>2, <2>4, <2>5 DEF SetDown, NotNow, PostRight
  <2>8. \A k \in Issues : NotNow(k)' => NotNow(k) \/ (k = i /\ i \in Plan(j).aside)
    <3>1. \A k \in Issues \ {i} : NotNow(k)' = NotNow(k)
      BY <2>2, <2>4 DEF NotNow
    <3>2. ASSUME NotNow(i)' PROVE NotNow(i) \/ i \in Plan(j).aside
      <4>1. st.aside = issue[i].body /\ issue[i].off.words = issue[i].words /\ i \in Issues
        BY <2>2, <2>3, <2>4, <3>2 DEF NotNow
      <4>2. issue[i].body # NoBody
        BY <4>1 DEF Typed, Bodies, NoBody
      <4>3. st.aside = held[i].aside \/ i \in job[j].plan.aside
        BY <2>5, <4>1, <4>2 DEF PostRight
      <4>. QED  BY <4>1, <4>3 DEF NotNow, Plan
    <3>. QED  BY <3>1, <3>2
  <2>9. NotesRight(w)'
    BY <2>1, <2>3 DEF NotesRight, Plan
  <2>10. PlanRight(w)'
    BY <2>1, <2>3, <2>8 DEF RunRight, PlanRight, Plan
  <2>11. ASSUME NEW k \in DOMAIN w.write
         PROVE  /\ PostRight(w, k)'
                /\ w.write[k].add => w.write[k].state.label
                /\ w.write[k].remove => ~w.write[k].state.label
                /\ (\A l \in DOMAIN w.write : k =< l) => held'[k] = w.write[k].state
    <3>1. k \in Issues /\ PostRight(job[j], k)
      BY <2>1, <2>3 DEF RunRight, PostsRight
    <3>2. PostRight(w, k)'
      BY <2>1, <2>2, <2>4, <3>1 DEF PostRight, NotNow, Plan
    <3>3. (\A l \in DOMAIN w.write : k =< l) => k = i
      BY <2>1, <2>3, <3>1 DEF First, Issues
    <3>. QED  BY <2>1, <2>3, <2>4, <3>1, <3>2, <3>3 DEF RunRight, PostsRight
  <2>12. PostsRight(w)'
    BY <2>11 DEF PostsRight
  <2>. QED  BY <1>0, <2>1, <2>2, <2>6, <2>7, <2>9, <2>10, <2>12, AsideGoes DEF RunRight
<1>6. ASSUME NEW j \in Jobs, WriteLabel(j) PROVE AsideInv' /\ AsideStep
  <2>1. PICK i \in DOMAIN job[j].write, w \in Works :
               /\ First(j, i)
               /\ Goes(j, w) /\ w.at = "persist" /\ w.plan = Plan(j)
               /\ DOMAIN w.write = DOMAIN job[j].write \ {i}
               /\ \A k \in DOMAIN w.write : w.write[k] = job[j].write[k]
               /\ \A k \in Issues \ {i} : issue'[k] = issue[k]
               /\ issue'[i].body = issue[i].body /\ issue'[i].words = issue[i].words
               /\ \/ job[j].write[i].add /\ issue'[i].label /\ issue'[i].off = issue[i].off
                  \/ ~job[j].write[i].add /\ issue'[i] = issue[i]
                  \/ /\ job[j].write[i].remove /\ issue[i].label /\ ~issue'[i].label
                     /\ issue'[i].off.words = issue'[i].words
    BY <1>6, WriteLabelMoves
  <2>2. job[j] \in Works /\ job[j] # Idle /\ held' = held /\ job[j].at = "label" /\ Typed'
    BY <1>6, Working, WriteLabelDoes, WriteLabelMoves DEF WriteLabel
  <2>3. /\ RunRight(job[j]) /\ w.plan.scope \subseteq Issues /\ DOMAIN job[j].write \subseteq Issues
        /\ AllWell(job[j])
    BY <2>1, <2>2, Mapped DEF AsideInv, Waiting, Works, Plans, Plan
  <2>4. RunRight(w)
    BY <2>1, <2>3 DEF RunRight, NotesRight, PlanRight, PostsRight, PostRight, Plan
  <2>5. job[j].write[i].add => held[i].aside = NoBody
    BY <2>1, <2>2, <2>3 DEF RunRight, PostsRight, AllWell, Well, First
  <2>6. \A k \in Issues : Grew(k, w)
    <3>1. \A k \in Issues : issue[k] \in Bodies /\ issue'[k] \in Bodies /\ held[k] \in States
      BY <2>2 DEF Typed
    <3>. QED  BY <2>1, <2>5, <3>1 DEF Grew, Bodies, States
  <2>7. RunRight(w)' /\ \A k \in Issues : SetDown(k)'
    BY <1>0, <2>1, <2>2, <2>3, <2>4, <2>6, AsideGrew
  <2>8. AsideInv'
    BY <1>0, <2>1, <2>2, <2>7, AsideGoes
  <2>. QED  BY <2>2, <2>8 DEF AsideStep
<1>7. ASSUME NEW j \in Jobs, Dies(j) PROVE AsideInv' /\ AsideStep
  <2>1. PICK w \in Works : Goes(j, w) /\ w.at = "apply" /\ w.plan = Plan(j) /\ w.write = <<>>
    BY <1>7, DiesDoes
  <2>2. job[j] # Idle /\ UNCHANGED <<issue, held>>
    BY <1>7, Working DEF Dies
  <2>3. RunRight(w)' /\ \A i \in Issues : SetDown(i)'
    BY <1>0, <2>1, <2>2, Empty
    DEF AsideInv, RunRight, NotesRight, PlanRight, PostsRight, SetDown, NotNow, Plan
  <2>4. AsideInv'
    BY <1>0, <2>1, <2>2, <2>3, AsideGoes
  <2>. QED  BY <2>2, <2>4 DEF AsideStep
<1>8. ASSUME NEW j \in Jobs, End(j) \/ Abandoned(j) PROVE AsideInv' /\ AsideStep
  <2>1. Goes(j, Idle) /\ UNCHANGED <<issue, held>> /\ job[j] # Idle
    BY <1>8, EndsDoes, Working DEF End, Abandoned
  <2>2. \A i \in Issues : SetDown(i)'
    BY <1>0, <2>1 DEF SetDown, NotNow
  <2>3. AsideInv'
    BY <1>0, <2>1, <2>2, AsideGoes
  <2>. QED  BY <2>1, <2>3 DEF AsideStep
<1>9. ASSUME NEW j \in Jobs, NEW T \in SUBSET Issues, Judge(j, T), Turn \/ UNCHANGED turns
      PROVE  AsideInv' /\ AsideStep
  <2>1. PICK w \in Works :
               /\ Goes(j, w) /\ w.at = "apply" /\ w.write = <<>> /\ w.plan.scope \subseteq Issues
               /\ DOMAIN w.plan.note \subseteq Issues
               /\ \A i \in DOMAIN w.plan.note : \E a \in BOOLEAN : w.plan.note[i] = Noted(i, a)
               /\ \A i \in w.plan.scope :
                     /\ i \in w.plan.aside <=> SetAside(i)
                     /\ i \in w.plan.decided => Ticked(i) \/ ~Aside(i)
                     /\ i \in w.plan.answered => Answers(i)
                     /\ w.plan.record[i].proposed =>
                           ~Aside(i) \/ (held[i].proposed /\ ~SetAside(i) /\ ~issue[i].accepted)
    BY <1>9, JudgePlan
  <2>2. UNCHANGED <<issue, held>> /\ AtRest
    BY <1>9, JudgePlan
  <2>3. NotesRight(w)
    BY <1>0, <2>1, NotedTyped, NotedHeard DEF NotesRight, SetDown
  <2>4. ASSUME NEW i \in w.plan.scope, NotNow(i)
        PROVE  Aside(i) /\ ~held[i].proposed
    <3>1. held[i] \in States /\ issue[i] \in Bodies /\ i \in Issues
      BY <2>1 DEF Typed
    <3>2. held[i].aside # NoBody
      BY <2>4, <3>1 DEF NotNow, Bodies, NoBody
    <3>3. ~Unheard(i)
      BY <1>0, <2>4, <3>1, <3>2 DEF NotNow, SetDown, Unheard, Bodies, States
    <3>. QED  BY <1>0, <2>4, <3>1, <3>3 DEF Aside, StillAside, NotNow, SetDown
  <2>5. PlanRight(w)
    <3>1. ASSUME NEW i \in w.plan.scope, NotNow(i) \/ i \in w.plan.aside
          PROVE  i \notin w.plan.decided \cup w.plan.answered /\ ~w.plan.record[i].proposed
      <4>1. Aside(i) /\ (held[i].proposed => SetAside(i))
        BY <2>1, <2>4, <3>1 DEF Aside
      <4>2. ~Ticked(i) /\ ~Answers(i)
        BY <4>1 DEF Ticked, Answers, Asked, SetAside
      <4>. QED  BY <2>1, <4>1, <4>2
    <3>. QED  BY <3>1 DEF PlanRight
  <2>6. RunRight(w)' /\ \A i \in Issues : SetDown(i)'
    BY <1>0, <2>1, <2>2, <2>3, <2>5, Empty
    DEF RunRight, NotesRight, PlanRight, PostsRight, SetDown, NotNow
  <2>7. AsideInv'
    BY <1>0, <2>1, <2>2, <2>6, AsideGoes
  <2>. QED  BY <2>2, <2>7 DEF AsideStep
<1>10. ASSUME NEW i \in Issues, Person(i) PROVE AsideInv' /\ AsideStep
  <2>1. Typed' /\ held' = held /\ job' = job
    BY <1>10, PersonDoes
  <2>2. \A k \in Issues : issue[k] \in Bodies /\ issue'[k] \in Bodies /\ held[k] \in States
    BY <2>1 DEF Typed
  <2>3. \A w : \A k \in Issues : Grew(k, w)
    BY <1>10, <2>2, PersonMoves DEF Grew, Bodies, States
  <2>4. ASSUME NEW w \in Works, NEW j \in Jobs, job[j] = w PROVE RunRight(w)'
    <3>1. job[j] # Idle
      BY <2>4, IdleNotWork
    <3>2. RunRight(w) /\ w.plan.scope \subseteq Issues /\ DOMAIN w.write \subseteq Issues
      BY <2>4, <3>1, Mapped DEF AsideInv, Works, Plans
    <3>. QED  BY <1>0, <2>1, <2>3, <3>2, AsideGrew
  <2>5. \A k \in Issues : SetDown(k)'
    BY <1>0, <2>1, <2>3, DownGrew
  <2>6. \A j \in Jobs : (job[j] # Idle => RunRight(job[j]))'
    BY <2>1, <2>4 DEF Typed, RunRight, NotesRight, PlanRight, PostsRight, PostRight, NotNow
  <2>7. AsideInv'
    BY <2>5, <2>6 DEF AsideInv
  <2>. QED  BY <2>1, <2>7 DEF AsideStep
<1>. QED  BY <1>1, <1>2, <1>3, <1>4, <1>5, <1>6, <1>7, <1>8, <1>9, <1>10, StepCases

\* An issue a person set aside stays so until it changes (Persist, stillAside;
\* ADR-0038), where runs do not overlap: whatever a run reads and decides,
\* wherever one dies or is left, and whatever people do meanwhile.
THEOREM SetAsideKept == ASSUME Overlap = FALSE PROVE Spec => AsideKept
<1>1. Init => Typed /\ Waiting /\ Steady /\ AsideInv
  <2>. SUFFICES ASSUME Init PROVE Waiting /\ Steady /\ AsideInv
    BY InitTyped
  <2>1. /\ ~NewState.label /\ NewState.undone = 0 /\ NewState.aside = NoBody /\ ~NewState.proposed
        /\ NewIssue.off.words = 0 /\ NewIssue.words = 0
    BY DEF NewState, NewIssue, NoOff
  <2>2. Waiting /\ Steady
    BY <2>1 DEF Init, Waiting, Well, Steady, OneRun, Quiet
  <2>3. AsideInv
    BY <2>1 DEF Init, AsideInv, SetDown
  <2>. QED  BY <2>2, <2>3
<1>2. Typed /\ Waiting /\ Steady /\ AsideInv /\ [Next]_vars
      => Typed' /\ Waiting' /\ Steady' /\ AsideInv' /\ AsideStep
  BY NextTyped, WaitingNext, SteadyNext, AsideNext
<1>3. AsideStep => [AsideStep]_held
  OBVIOUS
<1>4. Spec => [][AsideStep]_held
  BY <1>1, <1>2, <1>3, PTL DEF Spec
<1>. QED  BY <1>4 DEF AsideKept, AsideStep, NotNow

-----------------------------------------------------------------------------
(* No more than proposals-max wait, one run at a time.  What a run counts  *)
(* against the bound: what its record proposes and is labelled, or about   *)
(* to be; when none runs, what is held labelled and shows it, or lost it   *)
(* to a bot.  Each label a bot took off, unseen by the run that counted,   *)
(* is one more at most.                                                    *)

Judged(w, i) == w # Idle /\ i \in w.plan.scope
Claim(w, i) ==
    IF Judged(w, i)
    THEN /\ w.plan.record[i].proposed
         /\ held[i].label \/ (i \in DOMAIN w.write /\ w.write[i].state.label)
    ELSE held[i].label /\ (issue[i].label \/ issue[i].off.by = "bot")
Claimed(w) == {i \in Issues : ~issue[i].closed /\ ~issue[i].accepted /\ Claim(w, i)}

\* To be labelled with no label put on: a bot took it off.
Drifts(w, i) ==
    IF Judged(w, i)
    THEN /\ w.at # "apply"
         /\ IF i \in DOMAIN w.write THEN w.write[i].state.label /\ ~w.write[i].add
            ELSE held[i].label
    ELSE held[i].label
Adrift(w) == {i \in Issues : ~issue[i].label /\ issue[i].off.by = "bot" /\ Drifts(w, i)}

Outside(w) == {i \in Issues \ w.plan.scope : ~issue[i].closed /\ issue[i].label}

Few(w) == Cardinality(Claimed(w)) =< ProposalsMax + slack /\ Cardinality(Adrift(w)) =< slack
Carried(w) ==
    /\ Cardinality(Outside(w)) =< w.plan.elsewhere
    /\ w.at # "apply" => \A i \in w.plan.scope :
          /\ i \in DOMAIN w.write => (w.write[i].state.label => w.plan.record[i].proposed)
          /\ i \notin DOMAIN w.write => (held[i].label => w.plan.record[i].proposed)
Within(w) == Few(w) /\ (w # Idle => Carried(w))

\* The run that goes on, if one does.
Only(w) == \E j \in Jobs : job[j] = w /\ \A k \in Jobs \ {j} : job[k] = Idle
Bounded == \E w \in {Idle} \cup Works : Only(w) /\ Within(w)

LEMMA IssuesFinite ==
  ASSUME NEW A \in SUBSET Issues
  PROVE  IsFiniteSet(A) /\ Cardinality(A) \in Nat
<1>1. IsFiniteSet(Issues)
  <2>1. 1 \in Int /\ N \in Int
    BY LedgerAssumption
  <2>. QED  BY <2>1, FS_Interval DEF Issues
<1>2. IsFiniteSet(A)
  BY <1>1, FS_Subset
<1>. QED  BY <1>2, FS_CardinalityType

LEMMA AtMost ==
  ASSUME NEW A \in SUBSET Issues, NEW B \in SUBSET Issues, NEW X \in SUBSET Issues,
         A \subseteq B \cup X
  PROVE  Cardinality(A) =< Cardinality(B) + Cardinality(X)
<1>1. /\ IsFiniteSet(B) /\ IsFiniteSet(X) /\ IsFiniteSet(B \cup X)
      /\ Cardinality(A) \in Nat /\ Cardinality(B) \in Nat /\ Cardinality(X) \in Nat
      /\ Cardinality(B \cup X) \in Nat /\ Cardinality(B \cap X) \in Nat
  <2>1. B \cup X \in SUBSET Issues /\ B \cap X \in SUBSET Issues
    OBVIOUS
  <2>. QED  BY <2>1, IssuesFinite
<1>2. Cardinality(B \cup X) = Cardinality(B) + Cardinality(X) - Cardinality(B \cap X)
  BY <1>1, FS_Union
<1>3. Cardinality(A) =< Cardinality(B \cup X)
  BY <1>1, FS_Subset
<1>. QED  BY <1>1, <1>2, <1>3

LEMMA FewGrows ==
  ASSUME Typed, NEW v, NEW w, NEW X \in SUBSET Issues, Few(v),
         Claimed(w)' \subseteq Claimed(v) \cup X, Adrift(w)' \subseteq Adrift(v) \cup X,
         slack' = slack + Cardinality(X)
  PROVE  Few(w)'
<1>1. /\ Claimed(v) \in SUBSET Issues /\ Adrift(v) \in SUBSET Issues
      /\ Claimed(w)' \in SUBSET Issues /\ Adrift(w)' \in SUBSET Issues
  BY DEF Claimed, Adrift
<1>2. /\ Cardinality(Claimed(w)') =< Cardinality(Claimed(v)) + Cardinality(X)
      /\ Cardinality(Adrift(w)') =< Cardinality(Adrift(v)) + Cardinality(X)
  BY <1>1, AtMost
<1>3. /\ Cardinality(Claimed(v)) \in Nat /\ Cardinality(Adrift(v)) \in Nat
      /\ Cardinality(Claimed(w)') \in Nat /\ Cardinality(Adrift(w)') \in Nat
      /\ Cardinality(X) \in Nat
  BY <1>1, IssuesFinite
<1>4. slack \in Nat /\ ProposalsMax \in Nat
  BY LedgerAssumption DEF Typed
<1>. QED  BY <1>2, <1>3, <1>4 DEF Few

LEMMA FewKept ==
  ASSUME Typed, NEW v, NEW w, Few(v), slack' = slack,
         Claimed(w)' \subseteq Claimed(v), Adrift(w)' \subseteq Adrift(v)
  PROVE  Few(w)'
<1>1. Cardinality({}) = 0 /\ slack \in Nat
  BY FS_EmptySet DEF Typed
<1>2. slack' = slack + Cardinality({})
  BY <1>1
<1>. QED  BY <1>2, FewGrows

LEMMA OnlyGoes ==
  ASSUME Typed, NEW v, Only(v), NEW j \in Jobs, NEW w, Goes(j, w), job[j] # Idle \/ AtRest
  PROVE  Only(w)' /\ (job[j] # Idle => job[j] = v) /\ (AtRest => v = Idle)
<1>1. \A k \in Jobs : job'[k] = IF k = j THEN w ELSE job[k]
  BY DEF Typed, Goes
<1>2. \A k \in Jobs : job[k].at = "idle" => job[k] = Idle
  BY IdleNotWork DEF Typed
<1>. QED  BY <1>1, <1>2 DEF Only, AtRest

\* The label, where Persist keeps it.
LEMMA KeptLabelled ==
  ASSUME Typed, NEW j \in Jobs, job[j].at # "idle", NEW i \in Plan(j).scope,
         Well(held[i]), PlanRight(job[j])
  PROVE  Kept(j, i).label <=>
            /\ ~issue[i].closed /\ ~issue[i].accepted
            /\ held[i].label /\ Plan(j).record[i].proposed
<1>. DEFINE r == Plan(j).record[i]
            theirs == ~issue[i].accepted /\ held[i].label /\ ~issue[i].label /\ i \in Plan(j).aside
            changed == issue[i].body # held[i].aside \/ i \in Plan(j).answered \cup Plan(j).decided
<1>1. theirs => ~r.proposed
  BY DEF PlanRight, Plan
<1>2. held[i].label => held[i].aside = NoBody
  BY DEF Well
<1>3. CASE issue[i].closed
  BY <1>3, KeptIs
<1>4. CASE ~issue[i].closed /\ theirs
  BY <1>1, <1>4, KeptIs
<1>5. CASE ~issue[i].closed /\ issue[i].accepted
  BY <1>5, KeptIs
<1>6. CASE ~issue[i].closed /\ ~issue[i].accepted /\ ~theirs
  <2>1. /\ Kept(j, i).aside = (IF changed THEN NoBody ELSE held[i].aside)
        /\ Kept(j, i).label <=> held[i].label /\ Kept(j, i).aside = NoBody /\ r.proposed
    BY <1>6, KeptIs
  <2>. QED  BY <1>2, <1>6, <2>1
<1>. QED  BY <1>3, <1>4, <1>5, <1>6

\* Those that have fewer than R before them are R at most: each has a place
\* of its own among them.
LEMMA Ranked ==
  ASSUME NEW j \in Jobs, NEW W \in SUBSET Issues, NEW R \in Int
  PROVE  LET L == {i \in W : Cardinality({k \in W : Before(j, k, i)}) < R}
         IN  /\ R =< 0 => L = {}
             /\ R > 0 => Cardinality(L) =< R
<1>. DEFINE ahead(i) == {k \in W : Before(j, k, i)}
            L == {i \in W : Cardinality(ahead(i)) < R}
            place == [i \in L |-> Cardinality(ahead(i))]
<1>1. \A i \in W : IsFiniteSet(ahead(i)) /\ Cardinality(ahead(i)) \in Nat
  BY IssuesFinite
<1>2. R =< 0 => L = {}
  BY <1>1
<1>3. ASSUME NEW a \in W, NEW b \in W, Before(j, a, b)
      PROVE  Cardinality(ahead(a)) < Cardinality(ahead(b))
  <2>1. a \in Int /\ b \in Int /\ W \subseteq Int
    BY LedgerAssumption DEF Issues
  <2>2. ahead(a) \subseteq ahead(b)
    <3>1. ASSUME NEW c \in W, Before(j, c, a) PROVE Before(j, c, b)
      <4>1. c \in Int
        BY <2>1
      <4>. QED  BY <1>3, <2>1, <3>1, <4>1 DEF Before
    <3>. QED  BY <3>1
  <2>3. a \in ahead(b) /\ a \notin ahead(a)
    BY <1>3, <2>1 DEF Before
  <2>4. Cardinality(ahead(a)) =< Cardinality(ahead(b)) /\ Cardinality(ahead(a)) # Cardinality(ahead(b))
    BY <1>1, <2>2, <2>3, FS_Subset
  <2>. QED  BY <1>1, <2>4
<1>4. \A a \in W, b \in W : a # b => Before(j, a, b) \/ Before(j, b, a)
  BY LedgerAssumption DEF Issues, Before
<1>5. ASSUME R > 0 PROVE Cardinality(L) =< R
  <2>1. place \in [L -> 0..(R - 1)]
    BY <1>1
  <2>2. \A a \in L, b \in L : place[a] = place[b] => a = b
    <3>. SUFFICES ASSUME NEW a \in L, NEW b \in L, place[a] = place[b], a # b PROVE FALSE
      OBVIOUS
    <3>1. /\ Cardinality(ahead(a)) = Cardinality(ahead(b)) /\ a \in W /\ b \in W
          /\ Cardinality(ahead(a)) \in Nat
      BY <1>1
    <3>2. Before(j, a, b) \/ Before(j, b, a)
      BY <1>4, <3>1
    <3>3. Cardinality(ahead(a)) < Cardinality(ahead(b)) \/ Cardinality(ahead(b)) < Cardinality(ahead(a))
      BY <1>3, <3>1, <3>2
    <3>. QED  BY <3>1, <3>3
  <2>3. place \in Injection(L, 0..(R - 1))
    BY <2>1, <2>2 DEF Injection, IsInjective
  <2>4. IsFiniteSet(0..(R - 1)) /\ Cardinality(0..(R - 1)) = R
    BY <1>5, FS_Interval
  <2>. QED  BY <2>3, <2>4, FS_Injection
<1>. QED  BY <1>2, <1>5

\* The labels put on leave room.
LEMMA LabelledFit ==
  ASSUME Typed, NEW j \in Jobs, job[j].at # "idle"
  PROVE  LET k == {i \in Plan(j).scope : Kept(j, i).label} IN
         /\ Labelled(j) \subseteq Plan(j).scope /\ Plan(j).scope \subseteq Issues
         /\ Plan(j).elsewhere \in Nat /\ Cardinality(k) \in Nat
         /\ Room(j) = ProposalsMax - Plan(j).elsewhere - Cardinality(k)
         /\ Room(j) =< 0 => Labelled(j) = {}
         /\ Room(j) > 0 => Cardinality(Labelled(j)) =< Room(j)
<1>1. Plan(j).scope \subseteq Issues /\ Plan(j).elsewhere \in Nat
  BY Working DEF Works, Plans, Plan
<1>. DEFINE k == {i \in Plan(j).scope : Kept(j, i).label}
            W == {i \in Plan(j).scope : Wants(j, i)}
<1>2. k \in SUBSET Issues /\ W \in SUBSET Issues
  BY <1>1
<1>3. Cardinality(k) \in Nat
  BY <1>2, IssuesFinite
<1>4. Room(j) = ProposalsMax - Plan(j).elsewhere - Cardinality(k)
  BY DEF Room
<1>5. Room(j) \in Int
  BY <1>1, <1>3, <1>4, LedgerAssumption
<1>6. Labelled(j) = {i \in W : Cardinality({l \in W : Before(j, l, i)}) < Room(j)}
  BY DEF Labelled
<1>. HIDE DEF W, k
<1>7. /\ Room(j) =< 0 => Labelled(j) = {}
      /\ Room(j) > 0 => Cardinality(Labelled(j)) =< Room(j)
  BY <1>2, <1>5, <1>6, Ranked
<1>8. Labelled(j) \subseteq Plan(j).scope
  BY <1>6 DEF W
<1>. QED  BY <1>1, <1>3, <1>4, <1>7, <1>8 DEF k

LEMMA BoundedGoes ==
  ASSUME Typed, NEW v, Only(v), NEW j \in Jobs, NEW w \in {Idle} \cup Works, Goes(j, w),
         job[j] # Idle \/ AtRest, Within(w)'
  PROVE  Bounded'
  BY OnlyGoes DEF Bounded

\* A run's step that changes no issue's label, and takes no more on itself.
LEMMA RunsOn ==
  ASSUME Typed, NEW v \in Works, NEW w \in Works, Within(v), slack' = slack,
         w.plan.scope = v.plan.scope, w.plan.record = v.plan.record,
         w.plan.elsewhere = v.plan.elsewhere,
         \A i \in Issues : /\ issue'[i].label = issue[i].label /\ issue'[i].off = issue[i].off
                           /\ issue'[i].closed = issue[i].closed
                           /\ issue'[i].accepted = issue[i].accepted
                           /\ i \notin v.plan.scope => held'[i].label = held[i].label
                           /\ i \in v.plan.scope => (Claim(w, i)' => Claim(v, i))
                                                    /\ (Drifts(w, i)' => Drifts(v, i)),
         w.at # "apply" => \A i \in w.plan.scope :
            /\ i \in DOMAIN w.write => (w.write[i].state.label => w.plan.record[i].proposed)
            /\ i \notin DOMAIN w.write => (held'[i].label => w.plan.record[i].proposed)
  PROVE  Within(w)'
<1>1. v # Idle /\ w # Idle
  BY IdleNotWork
<1>2. \A i \in Issues : (Claim(w, i)' => Claim(v, i)) /\ (Drifts(w, i)' => Drifts(v, i))
  BY <1>1 DEF Claim, Drifts, Judged
<1>3. Claimed(w)' \subseteq Claimed(v) /\ Adrift(w)' \subseteq Adrift(v)
  BY <1>2 DEF Claimed, Adrift
<1>4. Few(w)'
  BY <1>3, FewKept DEF Within
<1>5. Outside(w)' = Outside(v)
  BY DEF Outside
<1>6. Carried(w)'
  BY <1>1, <1>5 DEF Within, Carried
<1>. QED  BY <1>4, <1>6 DEF Within

LEMMA BoundedNote ==
  ASSUME Typed, AsideInv, Bounded, NEW j \in Jobs, Note(j)
  PROVE  Bounded'
<1>1. PICK i \in DOMAIN Plan(j).note, w \in Works :
         /\ held' = [held EXCEPT ![i] = Plan(j).note[i]] /\ Goes(j, w) /\ w.at = "apply"
         /\ w.write = job[j].write /\ SamePlan(w.plan, Plan(j))
  BY NoteDoes
<1>2. PICK v \in {Idle} \cup Works : Only(v) /\ Within(v)
  BY DEF Bounded
<1>3. job[j] \in Works /\ job[j] # Idle /\ issue' = issue /\ slack' = slack
  BY Working DEF Note, Applying
<1>4. v = job[j] /\ v \in Works
  BY <1>1, <1>2, <1>3, OnlyGoes
<1>5. \A k \in Issues : held'[k].label = held[k].label
  BY <1>1, <1>3 DEF Typed, AsideInv, RunRight, NotesRight, Plan
<1>6. \A k \in Issues : k \in v.plan.scope => (Claim(w, k)' => Claim(v, k)) /\ ~Drifts(w, k)'
  BY <1>1, <1>3, <1>4, <1>5, IdleNotWork DEF Claim, Drifts, Judged, SamePlan, Plan
<1>7. Within(w)'
  <2>1. /\ w.plan.scope = v.plan.scope /\ w.plan.record = v.plan.record
        /\ w.plan.elsewhere = v.plan.elsewhere
    BY <1>1, <1>4 DEF SamePlan, Plan
  <2>. QED  BY <1>1, <1>2, <1>3, <1>4, <1>5, <1>6, <2>1, RunsOn
<1>. QED  BY <1>1, <1>2, <1>3, <1>7, BoundedGoes

LEMMA BoundedAct ==
  ASSUME Typed, Bounded, NEW j \in Jobs, Act(j)
  PROVE  Bounded'
<1>1. PICK w \in Works :
         /\ Goes(j, w) /\ w.at = "apply" /\ w.write = job[j].write /\ held' = held
         /\ SamePlan(w.plan, Plan(j))
  BY ActDoes
<1>2. PICK v \in {Idle} \cup Works : Only(v) /\ Within(v)
  BY DEF Bounded
<1>3. job[j] \in Works /\ job[j] # Idle /\ slack' = slack
  BY Working DEF Act, Applying
<1>4. v = job[j] /\ v \in Works
  BY <1>1, <1>2, <1>3, OnlyGoes
<1>5. \A k \in Issues : /\ issue'[k].label = issue[k].label /\ issue'[k].off = issue[k].off
                        /\ issue'[k].closed = issue[k].closed
                        /\ issue'[k].accepted = issue[k].accepted
  <2>1. PICK i : issue' = [issue EXCEPT ![i].in = "role's"]
    BY DEF Act
  <2>. QED  BY <2>1 DEF Typed, Bodies
<1>6. \A k \in Issues : k \in v.plan.scope => (Claim(w, k)' => Claim(v, k)) /\ ~Drifts(w, k)'
  BY <1>1, <1>3, <1>4, IdleNotWork DEF Claim, Drifts, Judged, SamePlan, Plan
<1>7. Within(w)'
  <2>1. /\ w.plan.scope = v.plan.scope /\ w.plan.record = v.plan.record
        /\ w.plan.elsewhere = v.plan.elsewhere
    BY <1>1, <1>4 DEF SamePlan, Plan
  <2>. QED  BY <1>1, <1>2, <1>3, <1>4, <1>5, <1>6, <2>1, RunsOn
<1>. QED  BY <1>1, <1>2, <1>3, <1>7, BoundedGoes

LEMMA BoundedState ==
  ASSUME Typed, Bounded, NEW j \in Jobs, WriteState(j)
  PROVE  Bounded'
<1>1. PICK i \in DOMAIN job[j].write, w \in Works :
         /\ held' = [held EXCEPT ![i] = job[j].write[i].state] /\ Goes(j, w)
         /\ job[j].at = "persist" /\ w.at = "label" /\ w.plan = Plan(j) /\ w.write = job[j].write
  BY WriteStateDoes
<1>2. PICK v \in {Idle} \cup Works : Only(v) /\ Within(v)
  BY DEF Bounded
<1>3. job[j] \in Works /\ job[j] # Idle /\ issue' = issue /\ slack' = slack
  BY Working DEF WriteState
<1>4. v = job[j] /\ v \in Works /\ v # Idle /\ w # Idle
  BY <1>1, <1>2, <1>3, OnlyGoes, IdleNotWork
<1>5. /\ i \in v.plan.scope /\ v.plan.scope \subseteq Issues
      /\ \A k \in Issues \ {i} : held'[k] = held[k]
      /\ held'[i] = v.write[i].state
  BY <1>1, <1>3, <1>4 DEF Typed, Works, Plans
<1>6. \A k \in v.plan.scope : (Claim(w, k)' => Claim(v, k)) /\ (Drifts(w, k)' => Drifts(v, k))
  BY <1>1, <1>4, <1>5 DEF Claim, Drifts, Judged, Plan
<1>7. \A k \in w.plan.scope :
         /\ k \in DOMAIN w.write => (w.write[k].state.label => w.plan.record[k].proposed)
         /\ k \notin DOMAIN w.write => (held'[k].label => w.plan.record[k].proposed)
  BY <1>1, <1>2, <1>4, <1>5 DEF Within, Carried, Plan
<1>8. Within(w)'
  <2>1. w.plan = v.plan
    BY <1>1, <1>4 DEF Plan
  <2>. QED  BY <1>2, <1>3, <1>4, <1>5, <1>6, <1>7, <2>1, RunsOn
<1>. QED  BY <1>1, <1>2, <1>3, <1>8, BoundedGoes

LEMMA BoundedDies ==
  ASSUME Typed, Bounded, NEW j \in Jobs, Dies(j)
  PROVE  Bounded'
<1>1. PICK w \in Works : Goes(j, w) /\ w.at = "apply" /\ w.plan = Plan(j) /\ w.write = <<>>
  BY DiesDoes
<1>2. PICK v \in {Idle} \cup Works : Only(v) /\ Within(v)
  BY DEF Bounded
<1>3. job[j] \in Works /\ job[j] # Idle /\ UNCHANGED <<issue, held, slack>>
  BY Working DEF Dies
<1>4. v = job[j] /\ v \in Works /\ v # Idle /\ w # Idle
  BY <1>1, <1>2, <1>3, OnlyGoes, IdleNotWork
<1>5. w.plan = v.plan
  BY <1>1, <1>4 DEF Plan
<1>6. \A k \in v.plan.scope : (Claim(w, k)' => Claim(v, k)) /\ ~Drifts(w, k)'
  BY <1>1, <1>3, <1>4, <1>5, Empty DEF Claim, Drifts, Judged
<1>7. Within(w)'
  BY <1>1, <1>2, <1>3, <1>4, <1>5, <1>6, RunsOn
<1>. QED  BY <1>1, <1>2, <1>3, <1>7, BoundedGoes

\* Persist counts again: those it keeps labelled, and the room that leaves
\* beside those shown elsewhere; but nothing is added to those kept where
\* there is no room.
LEMMA BoundedPersist ==
  ASSUME Typed, Waiting, AsideInv, Bounded, NEW j \in Jobs, Persist(j)
  PROVE  Bounded'
<1>1. PICK w \in Works :
         /\ Goes(j, w) /\ w.at = "persist" /\ w.plan = Plan(j) /\ DOMAIN w.write = Plan(j).scope
         /\ \A i \in Plan(j).scope : w.write[i] = Written(j, i)
  BY PersistDoes
<1>2. PICK v \in {Idle} \cup Works : Only(v) /\ Within(v)
  BY DEF Bounded
<1>3. /\ job[j] \in Works /\ job[j] # Idle /\ job[j].at = "apply"
      /\ UNCHANGED <<issue, held, slack>>
  BY Working DEF Persist, Applying
<1>4. v = job[j] /\ v \in Works /\ v # Idle /\ w # Idle /\ w.plan = v.plan /\ Plan(j) = v.plan
  BY <1>1, <1>2, <1>3, OnlyGoes, IdleNotWork DEF Plan
<1>5. /\ v.plan.scope \subseteq Issues /\ PlanRight(job[j])
      /\ \A i \in Issues : Well(held[i])
  BY <1>3, <1>4 DEF Works, Plans, AsideInv, RunRight, Waiting
<1>. DEFINE kept == {i \in Plan(j).scope : Kept(j, i).label}
<1>6. \A i \in v.plan.scope :
         /\ Kept(j, i).label <=> /\ ~issue[i].closed /\ ~issue[i].accepted
                                 /\ held[i].label /\ Plan(j).record[i].proposed
         /\ w.write[i].state.label <=> Kept(j, i).label \/ i \in Labelled(j)
         /\ w.write[i].add <=> w.write[i].state.label /\ ~issue[i].label
         /\ w.write[i].state.proposed = Kept(j, i).proposed
  BY <1>1, <1>3, <1>4, <1>5, KeptLabelled, WrittenIs
<1>7. kept \subseteq Claimed(v)
  BY <1>4, <1>5, <1>6 DEF Claimed, Claim, Judged
<1>8. \A i \in v.plan.scope : i \in Claimed(w)' => i \in kept \cup Labelled(j)
  BY <1>1, <1>3, <1>4, <1>6 DEF Claimed, Claim, Judged
<1>9. \A i \in Issues \ v.plan.scope : i \in Claimed(w)' => i \in Claimed(v) /\ i \in Outside(v) \cup Adrift(v)
  BY <1>3, <1>4 DEF Claimed, Claim, Judged, Outside, Adrift, Drifts, Typed, Bodies
<1>10. Adrift(w)' \subseteq Adrift(v)
  BY <1>1, <1>3, <1>4, <1>6 DEF Adrift, Drifts, Judged
<1>11. Few(w)'
  <2>. HIDE DEF kept
  <2>1. /\ Claimed(w)' \in SUBSET Issues /\ Adrift(v) \in SUBSET Issues /\ Outside(v) \in SUBSET Issues
        /\ kept \in SUBSET Issues /\ Labelled(j) \in SUBSET Issues
    BY <1>3, <1>4, <1>5, LabelledFit DEF Claimed, Adrift, Outside, kept
  <2>2. CASE Labelled(j) = {}
    BY <1>2, <1>3, <1>7, <1>8, <1>9, <1>10, <2>1, <2>2, FewKept DEF Within
  <2>3. CASE Labelled(j) # {}
    <3>1. /\ Cardinality(Labelled(j)) =< ProposalsMax - v.plan.elsewhere - Cardinality(kept)
          /\ v.plan.elsewhere \in Nat
      <4>1. /\ Plan(j).elsewhere \in Nat /\ Cardinality(kept) \in Nat
            /\ Room(j) = ProposalsMax - Plan(j).elsewhere - Cardinality(kept)
            /\ Room(j) =< 0 => Labelled(j) = {}
            /\ Room(j) > 0 => Cardinality(Labelled(j)) =< Room(j)
        <5>1. job[j].at # "idle"
          BY <1>3
        <5>. QED  BY <5>1, LabelledFit DEF kept
      <4>2. Room(j) \in Int
        BY <4>1, LedgerAssumption
      <4>3. Cardinality(Labelled(j)) =< Room(j)
        BY <2>3, <4>1, <4>2
      <4>. QED  BY <1>4, <4>1, <4>3
    <3>. DEFINE A == kept \cup Labelled(j)
                B == Outside(v) \cup Adrift(v)
    <3>2. A \in SUBSET Issues /\ B \in SUBSET Issues
      BY <2>1
    <3>3. Claimed(w)' \subseteq A \cup B
      BY <1>8, <1>9, <2>1
    <3>4. /\ Cardinality(A) =< Cardinality(kept) + Cardinality(Labelled(j))
          /\ Cardinality(B) =< Cardinality(Outside(v)) + Cardinality(Adrift(v))
          /\ Cardinality(Claimed(w)') =< Cardinality(A) + Cardinality(B)
          /\ Cardinality(Adrift(w)') =< Cardinality(Adrift(v))
      <4>1. Adrift(w)' \in SUBSET Adrift(v)
        BY <1>10
      <4>2. IsFiniteSet(Adrift(v))
        BY <2>1, IssuesFinite
      <4>. QED  BY <2>1, <3>2, <3>3, <4>1, <4>2, AtMost, FS_Subset
    <3>5. /\ Cardinality(A) \in Nat /\ Cardinality(B) \in Nat /\ Cardinality(kept) \in Nat
          /\ Cardinality(Labelled(j)) \in Nat /\ Cardinality(Outside(v)) \in Nat
          /\ Cardinality(Adrift(v)) \in Nat /\ Cardinality(Claimed(w)') \in Nat
          /\ Cardinality(Adrift(w)') \in Nat
      <4>1. Adrift(w)' \in SUBSET Issues
        BY <1>10, <2>1
      <4>. QED  BY <2>1, <3>2, <4>1, IssuesFinite
    <3>6. /\ Cardinality(Outside(v)) =< v.plan.elsewhere /\ Cardinality(Adrift(v)) =< slack
          /\ slack \in Nat /\ slack' = slack /\ ProposalsMax \in Nat
      BY <1>2, <1>3, <1>4, LedgerAssumption DEF Within, Few, Carried, Typed
    <3>. HIDE DEF A, B
    <3>7. Cardinality(Claimed(w)') =< ProposalsMax + slack'
      BY <3>1, <3>4, <3>5, <3>6
    <3>8. Cardinality(Adrift(w)') =< slack'
      BY <3>4, <3>5, <3>6
    <3>. QED  BY <3>7, <3>8 DEF Few
  <2>. QED  BY <2>2, <2>3
<1>12. Carried(w)'
  <2>1. Outside(w)' = Outside(v)
    BY <1>3, <1>4 DEF Outside
  <2>2. ASSUME NEW i \in v.plan.scope, w.write[i].state.label PROVE w.plan.record[i].proposed
    <3>1. Kept(j, i).label \/ Wants(j, i)
      BY <1>6, <2>2 DEF Labelled
    <3>2. Wants(j, i) => /\ Kept(j, i).proposed /\ ~issue[i].closed /\ ~issue[i].accepted
      BY DEF Wants
    <3>3. Wants(j, i) => Plan(j).record[i].proposed
      BY <1>3, <1>4, <3>2, KeptIs
    <3>. QED  BY <1>4, <1>6, <3>1, <3>3
  <2>. QED  BY <1>1, <1>2, <1>4, <2>1, <2>2 DEF Within, Carried
<1>13. Within(w)'
  BY <1>11, <1>12 DEF Within
<1>. QED  BY <1>1, <1>2, <1>3, <1>13, BoundedGoes

\* The label written on the first issue left: it is put on where its state
\* says so, taken off where it does not.
LEMMA BoundedLabel ==
  ASSUME Typed, AsideInv, Bounded, NEW j \in Jobs, WriteLabel(j)
  PROVE  Bounded'
<1>1. PICK i \in DOMAIN job[j].write, w \in Works :
         /\ First(j, i) /\ Goes(j, w) /\ w.at = "persist" /\ w.plan = Plan(j)
         /\ DOMAIN w.write = DOMAIN job[j].write \ {i}
         /\ \A k \in DOMAIN w.write : w.write[k] = job[j].write[k]
         /\ \A k \in Issues \ {i} : issue'[k] = issue[k]
         /\ issue'[i].closed = issue[i].closed /\ issue'[i].accepted = issue[i].accepted
         /\ \/ job[j].write[i].add /\ issue'[i].label /\ issue'[i].off = issue[i].off
            \/ ~job[j].write[i].add /\ issue'[i] = issue[i]
            \/ job[j].write[i].remove /\ issue[i].label /\ ~issue'[i].label
  BY WriteLabelMoves
<1>2. PICK v \in {Idle} \cup Works : Only(v) /\ Within(v)
  BY DEF Bounded
<1>3. job[j] \in Works /\ job[j] # Idle /\ job[j].at = "label" /\ held' = held /\ slack' = slack
  BY Working, WriteLabelMoves DEF WriteLabel
<1>4. v = job[j] /\ v \in Works /\ v # Idle /\ w # Idle /\ w.plan = v.plan
  BY <1>1, <1>2, <1>3, OnlyGoes, IdleNotWork DEF Plan
<1>5. i \in v.plan.scope /\ v.plan.scope \subseteq Issues
  BY <1>1, <1>3, <1>4 DEF Typed, Works, Plans
<1>6. held[i] = v.write[i].state /\ (v.write[i].remove => ~v.write[i].state.label)
  BY <1>1, <1>3, <1>4 DEF AsideInv, RunRight, PostsRight, First
<1>7. \A k \in Issues : Claim(w, k)' => Claim(v, k)
  <2>1. Claim(w, i)' => Claim(v, i)
    BY <1>1, <1>3, <1>4, <1>5 DEF Claim, Judged
  <2>2. \A k \in Issues \ {i} : Claim(w, k)' => Claim(v, k)
    BY <1>1, <1>3, <1>4 DEF Claim, Judged
  <2>. QED  BY <2>1, <2>2
<1>8. Claimed(w)' \subseteq Claimed(v)
  BY <1>1, <1>7 DEF Claimed
<1>9. Adrift(w)' \subseteq Adrift(v)
  <2>1. i \in Adrift(w)' => i \in Adrift(v)
    BY <1>1, <1>3, <1>4, <1>5, <1>6 DEF Adrift, Drifts, Judged
  <2>2. \A k \in Issues \ {i} : k \in Adrift(w)' => k \in Adrift(v)
    BY <1>1, <1>3, <1>4 DEF Adrift, Drifts, Judged
  <2>. QED  BY <2>1, <2>2 DEF Adrift
<1>10. Few(w)'
  BY <1>2, <1>3, <1>8, <1>9, FewKept DEF Within
<1>11. Carried(w)'
  <2>1. Outside(w)' = Outside(v)
    BY <1>1, <1>4, <1>5 DEF Outside
  <2>. QED  BY <1>1, <1>2, <1>3, <1>4, <1>6, <2>1 DEF Within, Carried
<1>12. Within(w)'
  BY <1>10, <1>11 DEF Within
<1>. QED  BY <1>1, <1>2, <1>3, <1>12, BoundedGoes

\* The run ends, all written.
LEMMA BoundedEnd ==
  ASSUME Typed, Bounded, NEW j \in Jobs, End(j)
  PROVE  Bounded'
<1>1. Goes(j, Idle)
  BY EndsDoes
<1>2. PICK v \in {Idle} \cup Works : Only(v) /\ Within(v)
  BY DEF Bounded
<1>3. /\ job[j] \in Works /\ job[j] # Idle /\ job[j].at = "persist" /\ DOMAIN job[j].write = {}
      /\ UNCHANGED <<issue, held, slack>>
  BY Working DEF End
<1>4. v = job[j] /\ v \in Works /\ v # Idle
  BY <1>1, <1>2, <1>3, OnlyGoes
<1>5. \A i \in v.plan.scope : held[i].label => v.plan.record[i].proposed
  BY <1>2, <1>3, <1>4 DEF Within, Carried
<1>6. Claimed(Idle)' \subseteq Claimed(v)
  BY <1>3, <1>4, <1>5 DEF Claimed, Claim, Judged
<1>7. Adrift(Idle)' \subseteq Adrift(v)
  BY <1>3, <1>4 DEF Adrift, Drifts, Judged
<1>8. Within(Idle)'
  BY <1>2, <1>3, <1>6, <1>7, FewKept DEF Within
<1>. QED  BY <1>1, <1>2, <1>3, <1>8, BoundedGoes

\* Left half-way: what it had yet to take off or to put on counts as one
\* more each.
LEMMA BoundedAbandoned ==
  ASSUME Typed, Waiting, AsideInv, Bounded, NEW j \in Jobs, Abandoned(j)
  PROVE  Bounded'
<1>1. Goes(j, Idle)
  BY EndsDoes
<1>2. PICK v \in {Idle} \cup Works : Only(v) /\ Within(v)
  BY DEF Bounded
<1>3. /\ job[j] \in Works /\ job[j] # Idle /\ job[j].at # "idle" /\ UNCHANGED <<issue, held>>
      /\ slack' = slack + Cardinality(HalfWay(j))
  BY Working DEF Abandoned
<1>4. v = job[j] /\ v \in Works /\ v # Idle /\ Plan(j) = v.plan
  BY <1>1, <1>2, <1>3, OnlyGoes DEF Plan
<1>5. /\ v.plan.scope \subseteq Issues /\ PlanRight(job[j]) /\ \A i \in Issues : Well(held[i])
  BY <1>3, <1>4 DEF Works, Plans, AsideInv, RunRight, Waiting
<1>6. HalfWay(j) \in SUBSET Issues
  BY <1>4, <1>5 DEF HalfWay
<1>7. \A i \in v.plan.scope : Kept(j, i).label => v.plan.record[i].proposed
  BY <1>3, <1>4, <1>5, KeptLabelled
<1>8. Claimed(Idle)' \subseteq Claimed(v) \cup HalfWay(j)
  BY <1>3, <1>4, <1>7 DEF Claimed, Claim, Judged, HalfWay
<1>9. Adrift(Idle)' \subseteq Adrift(v) \cup HalfWay(j)
  BY <1>3, <1>4 DEF Adrift, Drifts, Judged, HalfWay
<1>10. Within(Idle)'
  BY <1>2, <1>3, <1>6, <1>8, <1>9, FewGrows DEF Within
<1>. QED  BY <1>1, <1>2, <1>3, <1>10, BoundedGoes

\* A run judged: what it reads set aside is none of its proposals.
LEMMA BoundedJudge ==
  ASSUME Overlap = FALSE, Typed, Bounded, NEW j \in Jobs, NEW T \in SUBSET Issues,
         Judge(j, T), Turn \/ UNCHANGED turns
  PROVE  Bounded'
<1>1. PICK w \in Works :
         /\ Goes(j, w) /\ w.at = "apply" /\ w.write = <<>> /\ w.plan.scope \subseteq Issues
         /\ w.plan.elsewhere =
               Cardinality({i \in Issues \ w.plan.scope : ~issue[i].closed /\ issue[i].label})
         /\ \A i \in w.plan.scope :
               w.plan.record[i].proposed =>
                     ~Aside(i) \/ (held[i].proposed /\ ~SetAside(i) /\ ~issue[i].accepted)
  BY JudgePlan
<1>2. PICK v \in {Idle} \cup Works : Only(v) /\ Within(v)
  BY DEF Bounded
<1>3. UNCHANGED <<issue, held, slack>> /\ AtRest
  BY JudgePlan
<1>4. v = Idle /\ w # Idle /\ DOMAIN w.write = {}
  BY <1>1, <1>2, <1>3, OnlyGoes, IdleNotWork, Empty
<1>5. \A i \in w.plan.scope : w.plan.record[i].proposed => ~SetAside(i)
  BY <1>1 DEF Aside
<1>6. Claimed(w)' \subseteq Claimed(v)
  BY <1>1, <1>3, <1>4, <1>5 DEF Claimed, Claim, Judged, SetAside
<1>7. Adrift(w)' \subseteq Adrift(v)
  BY <1>1, <1>3, <1>4 DEF Adrift, Drifts, Judged
<1>8. Few(w)'
  BY <1>2, <1>3, <1>6, <1>7, FewKept DEF Within
<1>9. Carried(w)'
  <2>1. Outside(w)' \in SUBSET Issues /\ Outside(w)' = {i \in Issues \ w.plan.scope : ~issue[i].closed /\ issue[i].label}
    BY <1>3 DEF Outside
  <2>2. Cardinality(Outside(w)') = w.plan.elsewhere /\ Cardinality(Outside(w)') \in Nat
    BY <1>1, <2>1, IssuesFinite
  <2>. QED  BY <1>1, <2>2 DEF Carried
<1>10. Within(w)'
  BY <1>8, <1>9 DEF Within
<1>. QED  BY <1>1, <1>2, <1>3, <1>10, BoundedGoes

LEMMA BoundedPerson ==
  ASSUME Typed, Bounded, NEW i \in Issues, Person(i)
  PROVE  Bounded'
<1>1. PICK v \in {Idle} \cup Works : Only(v) /\ Within(v)
  BY DEF Bounded
<1>2. Typed' /\ held' = held /\ job' = job
  BY PersonDoes
<1>3. /\ \A k \in Issues \ {i} : issue'[k] = issue[k]
      /\ issue[i].closed => issue'[i].closed
      /\ \/ /\ issue'[i].label = issue[i].label /\ issue'[i].off = issue[i].off
            /\ \/ slack' = slack /\ (issue[i].accepted => issue'[i].accepted)
               \/ slack' = slack + 1
         \/ /\ issue[i].label /\ ~issue'[i].label
            /\ issue'[i].accepted = issue[i].accepted
            /\ \/ slack' = slack /\ issue'[i].off.by = "person"
               \/ slack' = slack + 1
  BY PersonMoves
<1>4. \A k \in Issues : Drifts(v, k)' = Drifts(v, k)
  BY <1>2 DEF Drifts, Judged
<1>5. \A k \in Issues \ {i} : Claim(v, k)' = Claim(v, k)
  BY <1>2, <1>3 DEF Claim, Judged
<1>6. Few(v)'
  <2>1. CASE slack' = slack + 1
    <3>1. Claimed(v)' \subseteq Claimed(v) \cup {i} /\ Adrift(v)' \subseteq Adrift(v) \cup {i}
      BY <1>3, <1>4, <1>5 DEF Claimed, Adrift
    <3>2. Cardinality({i}) = 1 /\ {i} \in SUBSET Issues
      BY FS_Singleton
    <3>. QED  BY <1>1, <2>1, <3>1, <3>2, FewGrows DEF Within
  <2>2. CASE slack' = slack
    <3>0. slack \in Nat /\ slack' # slack + 1
      BY <2>2 DEF Typed
    <3>1. ~issue'[i].closed /\ ~issue'[i].accepted /\ Claim(v, i)'
             => ~issue[i].closed /\ ~issue[i].accepted /\ Claim(v, i)
      BY <1>2, <1>3, <3>0 DEF Claim, Judged
    <3>2. ~issue'[i].label /\ issue'[i].off.by = "bot" => ~issue[i].label /\ issue[i].off.by = "bot"
      BY <1>3, <3>0
    <3>3. Claimed(v)' \subseteq Claimed(v)
      BY <1>3, <1>5, <3>1 DEF Claimed
    <3>4. Adrift(v)' \subseteq Adrift(v)
      BY <1>3, <1>4, <3>2 DEF Adrift
    <3>. QED  BY <1>1, <2>2, <3>3, <3>4, FewKept DEF Within
  <2>. QED  BY <1>3, <2>1, <2>2
<1>7. ASSUME v # Idle PROVE Carried(v)'
  <2>1. Carried(v) /\ v.plan.elsewhere \in Nat
    BY <1>1, <1>7 DEF Within, Works, Plans
  <2>2. Outside(v)' \subseteq Outside(v)
    BY <1>3 DEF Outside
  <2>3. Outside(v) \in SUBSET Issues /\ Outside(v)' \in SUBSET Issues
    BY <2>2 DEF Outside
  <2>4. IsFiniteSet(Outside(v)) /\ Cardinality(Outside(v)) \in Nat /\ Cardinality(Outside(v)') \in Nat
    BY <2>3, IssuesFinite
  <2>5. Cardinality(Outside(v)') =< Cardinality(Outside(v))
    BY <2>2, <2>4, FS_Subset
  <2>6. Cardinality(Outside(v)') =< v.plan.elsewhere
    BY <2>1, <2>4, <2>5 DEF Carried
  <2>. QED  BY <1>2, <2>1, <2>6 DEF Carried
<1>8. Within(v)'
  BY <1>6, <1>7 DEF Within
<1>9. Only(v)'
  BY <1>1, <1>2 DEF Only
<1>. QED  BY <1>8, <1>9 DEF Bounded

LEMMA BoundedNext ==
  ASSUME Overlap = FALSE, Typed, Waiting, AsideInv, Bounded, [Next]_vars
  PROVE  Bounded'
<1>1. CASE UNCHANGED vars
  BY <1>1 DEF vars, Bounded, Only, Within, Few, Claimed, Claim, Judged, Adrift, Drifts, Carried, Outside
<1>2. ASSUME NEW j \in Jobs,
             \/ Note(j) \/ Act(j) \/ Persist(j) \/ WriteState(j) \/ WriteLabel(j) \/ Dies(j)
             \/ End(j) \/ Abandoned(j)
      PROVE  Bounded'
  BY <1>2, BoundedNote, BoundedAct, BoundedPersist, BoundedState, BoundedLabel, BoundedDies,
     BoundedEnd, BoundedAbandoned
<1>3. ASSUME NEW j \in Jobs, NEW T \in SUBSET Issues, Judge(j, T), Turn \/ UNCHANGED turns
      PROVE  Bounded'
  BY <1>3, BoundedJudge
<1>4. ASSUME NEW i \in Issues, Person(i) PROVE Bounded'
  BY <1>4, BoundedPerson
<1>. QED  BY <1>1, <1>2, <1>3, <1>4, StepCases

\* Between two runs, no more than proposals-max issues wait on a person
\* (labelWithin), where runs do not overlap: but one for each label a bot
\* took off, each yes taken back, and each issue a run left half-way.
THEOREM FewWait == ASSUME Overlap = FALSE PROVE Spec => []ProposalsBounded
<1>1. Init => Typed /\ Waiting /\ Steady /\ AsideInv /\ Bounded
  <2>. SUFFICES ASSUME Init PROVE Waiting /\ Steady /\ AsideInv /\ Bounded
    BY InitTyped
  <2>1. /\ ~NewState.label /\ NewState.undone = 0 /\ NewState.aside = NoBody /\ ~NewState.proposed
        /\ NewIssue.off.words = 0 /\ NewIssue.words = 0
    BY DEF NewState, NewIssue, NoOff
  <2>2. Waiting /\ Steady
    BY <2>1 DEF Init, Waiting, Well, Steady, OneRun, Quiet
  <2>3. AsideInv
    BY <2>1 DEF Init, AsideInv, SetDown
  <2>4. Only(Idle)
    BY DEF Init, Only, Jobs
  <2>5. Claimed(Idle) = {} /\ Adrift(Idle) = {}
    BY <2>1 DEF Init, Claimed, Claim, Adrift, Drifts, Judged
  <2>6. Within(Idle)
    BY <2>5, FS_EmptySet, LedgerAssumption DEF Within, Few, Init
  <2>. QED  BY <2>2, <2>3, <2>4, <2>6 DEF Bounded
<1>2. Typed /\ Waiting /\ Steady /\ AsideInv /\ Bounded /\ [Next]_vars
      => Typed' /\ Waiting' /\ Steady' /\ AsideInv' /\ Bounded'
  BY NextTyped, WaitingNext, SteadyNext, AsideNext, BoundedNext
<1>3. Typed /\ Bounded => ProposalsBounded
  <2>. SUFFICES ASSUME Typed, Bounded, AtRest PROVE Cardinality(Waits) =< ProposalsMax + slack
    BY DEF ProposalsBounded
  <2>1. PICK v \in {Idle} \cup Works : Only(v) /\ Within(v)
    BY DEF Bounded
  <2>2. v = Idle
    BY <2>1, IdleNotWork DEF Only, AtRest
  <2>3. Waits \subseteq Claimed(v)
    BY <2>2 DEF Waits, Claimed, Claim, Judged
  <2>4. /\ Claimed(v) \in SUBSET Issues /\ Waits \in SUBSET Issues
    BY DEF Claimed, Waits
  <2>5. /\ IsFiniteSet(Claimed(v)) /\ Cardinality(Claimed(v)) \in Nat /\ Cardinality(Waits) \in Nat
        /\ slack \in Nat /\ ProposalsMax \in Nat
    BY <2>4, IssuesFinite, LedgerAssumption DEF Typed
  <2>6. Cardinality(Waits) =< Cardinality(Claimed(v))
    BY <2>3, <2>5, FS_Subset
  <2>. QED  BY <2>1, <2>5, <2>6 DEF Within, Few
<1>. QED  BY <1>1, <1>2, <1>3, PTL DEF Spec
=============================================================================
