-------------------------- MODULE Reconciler_proofs --------------------------
(***************************************************************************)
(* For any issues, limit, reconcile-max and whatever is lost or refused:   *)
(* one reconcile is on its way at a time; and with no event missed, room   *)
(* that frees up wakes those that wait for it.                             *)
(***************************************************************************)
EXTENDS Reconciler, FiniteSetTheorems, WellFoundedInduction, TLAPS

\* A reconcile that goes on came from the one thing on its way, and leaves
\* one behind at most.
OneWay ==
    /\ job.at \in {"idle", "listed"}
    /\ coming \in {{}, {"beat"}, {"queued"}}
    /\ job.at = "listed" => coming = {}

LEMMA OneWayIsOne == OneWay => OneComing
<1>. SUFFICES ASSUME OneWay PROVE OneComing
  OBVIOUS
<1>1. Cardinality({}) = 0 /\ Cardinality({"beat"}) = 1 /\ Cardinality({"queued"}) = 1
  BY FS_EmptySet, FS_Singleton
<1>2. CASE coming = {}
  BY <1>1, <1>2 DEF OneComing
<1>3. CASE coming # {}
  BY <1>1, <1>3 DEF OneComing, OneWay
<1>. QED  BY <1>2, <1>3

LEMMA OneWayKept == OneWay /\ [Next]_vars => OneWay'
<1>. SUFFICES ASSUME OneWay, [Next]_vars PROVE OneWay'
  OBVIOUS
<1>1. CASE \E i \in Issues : Run(i) \/ Lost(i) \/ People(i)
  <2>. SUFFICES UNCHANGED <<job, coming>>
    BY DEF OneWay
  <2>1. PICK i \in Issues : Run(i) \/ Lost(i) \/ People(i)
    BY <1>1
  <2>2. CASE Run(i)
    BY <2>2 DEF Run, Judge, JudgeNothing, Apply, NextStep, Room
  <2>3. CASE Lost(i) \/ People(i)
    BY <2>3 DEF Lost, People, PersonLabels, PersonTakesOff, PersonEdits, LetGo
  <2>. QED  BY <2>1, <2>2, <2>3
<1>2. CASE List
  BY <1>2 DEF List, OneWay
<1>3. CASE StartListed
  BY <1>3 DEF StartListed, OneWay, NoJob
<1>4. CASE ReconcileDies
  BY <1>4 DEF ReconcileDies, OneWay, NoJob
<1>5. CASE ReconcileDue
  BY <1>5 DEF ReconcileDue, Going, OneWay
<1>6. CASE Heartbeat
  BY <1>6 DEF Heartbeat, OneWay
<1>7. CASE UNCHANGED vars
  BY <1>7 DEF vars, OneWay
<1>. QED
  BY <1>1, <1>2, <1>3, <1>4, <1>5, <1>6, <1>7 DEF Next, Reconcile

\* Whichever of the schedule, the labels and the heartbeats starts it, and
\* whatever dies or is not started, one reconcile is on its way at a time
\* (reconcile-due, heartbeat, reconcile).
THEOREM OneReconcile == Spec => []OneComing
<1>1. Init => OneWay
  BY DEF Init, OneWay, NoJob
<1>. QED  BY <1>1, OneWayKept, OneWayIsOne, PTL DEF Spec
-----------------------------------------------------------------------------
(* Recursion over the dates: a function so defined is there, by a least    *)
(* counterexample, and what it keeps from one date to the next it keeps.   *)

LEMMA Least ==
  ASSUME NEW T \in SUBSET Nat, T # {}
  PROVE  \E x \in T : \A y \in T : x =< y
<1>. DEFINE R == {p \in Nat \X Nat : p[1] < p[2]}
<1>1. OpToRel(<, Nat) = R
  BY DEF OpToRel
<1>2. IsWellFoundedOn(R, Nat)
  BY <1>1, NatLessThanWellFounded
<1>. HIDE DEF R
<1>3. \E x \in T : \A y \in T : <<y, x>> \notin R
  BY <1>2, WFMin
<1>4. PICK x \in T : \A y \in T : <<y, x>> \notin R
  BY <1>3
<1>5. ASSUME NEW y \in T PROVE x =< y
  <2>1. x \in Nat /\ y \in Nat /\ <<y, x>> \in Nat \X Nat /\ <<y, x>> \notin R
    BY <1>4
  <2>2. ~(<<y, x>>[1] < <<y, x>>[2])
    BY <2>1 DEF R
  <2>. QED  BY <2>1, <2>2
<1>. QED  BY <1>5

LEMMA ByCount ==
  ASSUME NEW N \in Nat, NEW G, 0 \in G, \A n \in 1..N : n - 1 \in G => n \in G
  PROVE  \A n \in 0..N : n \in G
<1>. SUFFICES ASSUME (0..N) \ G # {} PROVE FALSE
  OBVIOUS
<1>1. PICK x \in (0..N) \ G : \A y \in (0..N) \ G : x =< y
  <2>1. (0..N) \ G \in SUBSET Nat
    OBVIOUS
  <2>. QED  BY <2>1, Least
<1>2. x \in 1..N /\ x - 1 \in 0..N /\ ~(x =< x - 1)
  BY <1>1
<1>. QED  BY <1>1, <1>2

\* The steps F[1] to F[N] on V taken from b, and each in turn.
Steps(V, N, b, F) == N \in Nat /\ b \in V /\ F \in [1..N -> [V -> V]]
Follows(h, V, N, b, F) ==
    h \in [0..N -> V] /\ h[0] = b /\ \A n \in 1..N : h[n] = F[n][h[n - 1]]

LEMMA Iterates ==
  ASSUME NEW V, NEW N, NEW b, NEW F, Steps(V, N, b, F)
  PROVE  \E h : Follows(h, V, N, b, F)
<1>. N \in Nat /\ b \in V /\ F \in [1..N -> [V -> V]]
  BY DEF Steps
<1>. DEFINE Is(h, m) == \A n \in 1..m : h[n] = F[n][h[n - 1]]
            G == {m \in 0..N : \E h \in [0..m -> V] : h[0] = b /\ Is(h, m)}
<1>1. 0 \in G
  <2>. DEFINE h == [k \in 0..0 |-> b]
  <2>1. h \in [0..0 -> V] /\ h[0] = b /\ Is(h, 0)
    OBVIOUS
  <2>. HIDE DEF h, Is
  <2>2. 0 \in 0..N /\ \E g \in [0..0 -> V] : g[0] = b /\ Is(g, 0)
    BY <2>1
  <2>. QED  BY <2>2
<1>2. ASSUME NEW m \in 1..N, m - 1 \in G PROVE m \in G
  <2>1. PICK h \in [0..(m - 1) -> V] : h[0] = b /\ Is(h, m - 1)
    BY <1>2
  <2>. DEFINE v == F[m][h[m - 1]]
              g == [k \in 0..m |-> IF k = m THEN v ELSE h[k]]
  <2>2. h[m - 1] \in V
    BY <2>1
  <2>3. v \in V
    BY <2>2
  <2>4. \A k \in 0..m : k # m => k \in 0..(m - 1)
    OBVIOUS
  <2>5. g \in [0..m -> V]
    BY <2>1, <2>3, <2>4
  <2>6. g[0] = b /\ g[m] = v /\ \A k \in 0..(m - 1) : g[k] = h[k]
    BY <2>1
  <2>. HIDE DEF g
  <2>7. Is(g, m)
    <3>. SUFFICES ASSUME NEW n \in 1..m PROVE g[n] = F[n][g[n - 1]]
      OBVIOUS
    <3>1. n - 1 \in 0..(m - 1)
      OBVIOUS
    <3>2. CASE n = m
      BY <2>6, <3>1, <3>2
    <3>3. CASE n # m
      <4>1. n \in 1..(m - 1) /\ n \in 0..(m - 1)
        BY <3>3
      <4>. QED  BY <2>1, <2>6, <3>1, <4>1
    <3>. QED  BY <3>2, <3>3
  <2>8. m \in 0..N /\ g \in [0..m -> V] /\ g[0] = b /\ Is(g, m)
    BY <2>5, <2>6, <2>7
  <2>. HIDE DEF Is
  <2>. QED  BY <2>8
<1>3. N \in G
  <2>. HIDE DEF G
  <2>1. \A n \in 0..N : n \in G
    BY <1>1, <1>2, ByCount
  <2>. QED  BY <2>1
<1>4. \E h : Follows(h, V, N, b, F)
  BY <1>3 DEF Follows
<1>. QED  BY <1>4

-----------------------------------------------------------------------------
(* What is left of the dates, and what startDue lists.                     *)

Tokens == Issues \X {"labeled", "ran", "now"}

LEMMA AppendRange ==
  ASSUME NEW S, NEW q \in Seq(S), NEW e \in S
  PROVE  Append(q, e) \in Seq(S) /\ Range(Append(q, e)) = Range(q) \cup {e}
<1>. DEFINE a == Append(q, e)
<1>1. /\ a \in Seq(S) /\ DOMAIN a = 1..(Len(q) + 1) /\ DOMAIN q = 1..Len(q) /\ Len(q) \in Nat
      /\ \A k \in 1..Len(q) : a[k] = q[k]
      /\ a[Len(q) + 1] = e
  OBVIOUS
<1>. HIDE DEF a
<1>2. Range(a) \subseteq Range(q) \cup {e}
  <2>. SUFFICES ASSUME NEW k \in DOMAIN a PROVE a[k] \in Range(q) \cup {e}
    BY DEF Range
  <2>1. k \in 1..Len(q) \/ k = Len(q) + 1
    BY <1>1
  <2>. QED  BY <1>1, <2>1 DEF Range
<1>3. Range(q) \subseteq Range(a) /\ e \in Range(a)
  <2>1. \A k \in DOMAIN q : k \in DOMAIN a /\ q[k] = a[k]
    BY <1>1
  <2>2. Len(q) + 1 \in DOMAIN a
    BY <1>1
  <2>. QED  BY <1>1, <2>1, <2>2 DEF Range
<1>. QED  BY <1>1, <1>2, <1>3 DEF a

LEMMA WithoutIs ==
  ASSUME dates \in Seq(Tokens), NEW D
  PROVE  Without(D) \in Seq(Tokens) /\ Range(Without(D)) = Range(dates) \ D
<1>. DEFINE N == Len(dates)
            V == Seq(Tokens)
            One(v, d) == IF d \in D THEN v ELSE Append(v, d)
            F == [n \in 1..N |-> [v \in V |-> One(v, dates[n])]]
            Is(g) == g = [n \in 0..Len(dates) |->
                            IF n = 0 THEN <<>>
                            ELSE IF dates[n] \in D THEN g[n - 1]
                            ELSE Append(g[n - 1], dates[n])]
            f == CHOOSE g : Is(g)
            To(n) == {dates[k] : k \in 1..n}
            G == {n \in 0..N : f[n] \in V /\ Range(f[n]) = To(n) \ D}
<1>1. Without(D) = f[N]
  BY DEF Without
<1>2. N \in Nat /\ DOMAIN dates = 1..N /\ \A n \in 1..N : dates[n] \in Tokens
  OBVIOUS
<1>3. \E g : Is(g)
  <2>1. F \in [1..N -> [V -> V]]
    BY <1>2
  <2>2. <<>> \in V
    OBVIOUS
  <2>. HIDE DEF F
  <2>3. PICK h : Follows(h, V, N, <<>>, F)
    <3>1. Steps(V, N, <<>>, F)
      BY <1>2, <2>1, <2>2 DEF Steps
    <3>. HIDE DEF V, N
    <3>. QED  BY <3>1, Iterates
  <2>. h \in [0..N -> V] /\ h[0] = <<>> /\ \A n \in 1..N : h[n] = F[n][h[n - 1]]
    BY <2>3 DEF Follows
  <2>4. ASSUME NEW n \in 1..N PROVE h[n] = One(h[n - 1], dates[n])
    <3>1. h[n - 1] \in V
      BY <1>2
    <3>2. F[n][h[n - 1]] = One(h[n - 1], dates[n])
      <4>. HIDE DEF V, N, One
      <4>. QED  BY <3>1 DEF F
    <3>. QED  BY <2>3, <3>2
  <2>5. ASSUME NEW n \in 0..N
        PROVE  h[n] = IF n = 0 THEN <<>>
                      ELSE IF dates[n] \in D THEN h[n - 1]
                      ELSE Append(h[n - 1], dates[n])
    <3>1. CASE n = 0
      BY <2>3, <3>1
    <3>2. CASE n # 0
      <4>1. n \in 1..N
        BY <1>2, <3>2
      <4>. QED  BY <2>4, <3>2, <4>1
    <3>. QED  BY <3>1, <3>2
  <2>6. Is(h)
    <3>. HIDE DEF V
    <3>. QED  BY <2>5
  <2>. QED  BY <2>6
<1>4. Is(f)
  <2>. HIDE DEF Is
  <2>. QED  BY <1>3
<1>. HIDE DEF f
<1>5. f[0] = <<>> /\ \A n \in 1..N : f[n] = One(f[n - 1], dates[n])
  <2>1. \A n \in 0..N : f[n] = IF n = 0 THEN <<>>
                              ELSE IF dates[n] \in D THEN f[n - 1]
                              ELSE Append(f[n - 1], dates[n])
    BY <1>4
  <2>2. 0 \in 0..N /\ \A n \in 1..N : n \in 0..N /\ n # 0
    BY <1>2
  <2>. HIDE DEF N
  <2>. QED  BY <2>1, <2>2
<1>6. 0 \in G
  <2>1. Range(<<>>) = {} /\ To(0) = {} /\ <<>> \in V
    BY DEF Range
  <2>. HIDE DEF V, To, N
  <2>. QED  BY <1>2, <1>5, <2>1
<1>7. ASSUME NEW n \in 1..N, n - 1 \in G PROVE n \in G
  <2>. DEFINE v == f[n - 1]  d == dates[n]
  <2>1. v \in V /\ Range(v) = To(n - 1) \ D /\ d \in Tokens /\ f[n] = One(v, d)
    BY <1>2, <1>5, <1>7
  <2>2. To(n) = To(n - 1) \cup {d}
    <3>1. 1..n = 1..(n - 1) \cup {n}
      OBVIOUS
    <3>. QED  BY <3>1
  <2>. HIDE DEF v, d, V, To
  <2>3. CASE d \in D
    BY <2>1, <2>2, <2>3
  <2>4. CASE d \notin D
    <3>1. Append(v, d) \in V /\ Range(Append(v, d)) = Range(v) \cup {d}
      BY <2>1, AppendRange DEF V
    <3>2. f[n] = Append(v, d)
      BY <2>1, <2>4
    <3>3. Range(f[n]) = To(n) \ D
      BY <2>1, <2>2, <2>4, <3>1, <3>2
    <3>4. n \in 0..N
      BY <1>2
    <3>. HIDE DEF N
    <3>. QED  BY <3>1, <3>2, <3>3, <3>4
  <2>. QED  BY <2>3, <2>4
<1>8. N \in G
  <2>. HIDE DEF G, N
  <2>1. \A n \in 0..N : n \in G
    BY <1>2, <1>6, <1>7, ByCount
  <2>. QED  BY <1>2, <2>1
<1>9. To(N) = Range(dates)
  BY <1>2 DEF Range
<1>. QED  BY <1>1, <1>8, <1>9

Counts == [listed : SUBSET Issues, holds : Int]

LEMMA HoldsTyped == Holds \in Nat
  BY ReconcilerAssumption, FS_Subset, FS_CardinalityType DEF Holds

LEMMA StartTyped ==
  ASSUME NEW v \in Counts, NEW d \in Tokens
  PROVE  /\ Start(v, d) \in Counts
         /\ Start(v, d) = v \/ Start(v, d).listed = v.listed \cup {d[1]}
         /\ v.listed = {} /\ v.holds < Limit => Start(v, d).listed # {}
<1>1. d[1] \in Issues
  BY DEF Tokens
<1>2. /\ Counted(v, d[1]) \in Counts /\ Counted(v, d[1]).listed = v.listed \cup {d[1]}
  <2>. DEFINE h == v.holds + IF at[d[1]] = "tests" THEN 1 ELSE -1
  <2>1. v.holds \in Int /\ v.listed \in SUBSET Issues
    BY DEF Counts
  <2>2. h \in Int
    BY <2>1
  <2>. HIDE DEF h
  <2>3. Counted(v, d[1]) = [v EXCEPT !.listed = v.listed \cup {d[1]}, !.holds = h]
    BY DEF Counted, h
  <2>. QED  BY <1>1, <2>1, <2>2, <2>3 DEF Counts
<1>3. Start(v, d) = v \/ Start(v, d) = Counted(v, d[1])
  BY DEF Start
<1>4. ASSUME v.listed = {}, v.holds < Limit PROVE Start(v, d) = Counted(v, d[1])
  <2>1. ~(Cardinality(v.listed) >= ReconcileMax)
    BY <1>4, FS_EmptySet, ReconcilerAssumption
  <2>2. ~(v.holds >= Limit)
    BY <1>4, ReconcilerAssumption DEF Counts
  <2>. QED  BY <2>1, <2>2 DEF Start
<1>. QED  BY <1>2, <1>3, <1>4

\* What startDue lists is due; and it lists something of what is due, where
\* there is room when it begins.
LEMMA StartDueIs ==
  ASSUME dates \in Seq(Tokens), NEW S \in SUBSET Issues
  PROVE  /\ StartDue(S).listed \subseteq S
         /\ S # {} /\ ~Full /\ (\A i \in S : Date(i) \in Range(dates)) => StartDue(S).listed # {}
<1>. DEFINE D == {Date(i) : i \in S}
            N == Len(dates)
            b == [listed |-> {}, holds |-> Holds]
            One(v, d) == IF d \in D THEN Start(v, d) ELSE v
            F == [n \in 1..N |-> [v \in Counts |-> One(v, dates[n])]]
            Is(g) == g = [n \in 0..Len(dates) |->
                            IF n = 0 THEN [listed |-> {}, holds |-> Holds]
                            ELSE IF dates[n] \in D THEN Start(g[n - 1], dates[n])
                            ELSE g[n - 1]]
            f == CHOOSE g : Is(g)
            G == {n \in 0..N :
                    /\ f[n] \in Counts /\ f[n].listed \subseteq S
                    /\ ~Full /\ f[n].listed = {} =>
                         f[n].holds = Holds /\ \A k \in 1..n : dates[k] \notin D}
<1>1. StartDue(S) = f[N]
  BY DEF StartDue
<1>2. N \in Nat /\ DOMAIN dates = 1..N /\ \A n \in 1..N : dates[n] \in Tokens
  OBVIOUS
<1>3. b \in Counts /\ b.listed = {} /\ b.holds = Holds
  BY HoldsTyped DEF Counts
<1>4. \A n \in 1..N : \A v \in Counts : One(v, dates[n]) \in Counts
  BY <1>2, StartTyped
<1>. HIDE DEF One, b
<1>5. \E g : Is(g)
  <2>1. F \in [1..N -> [Counts -> Counts]]
    <3>. HIDE DEF N
    <3>. QED  BY <1>4
  <2>. HIDE DEF F
  <2>2. PICK h : Follows(h, Counts, N, b, F)
    <3>1. Steps(Counts, N, b, F)
      BY <1>2, <1>3, <2>1 DEF Steps
    <3>. HIDE DEF N
    <3>. QED  BY <3>1, Iterates
  <2>. h \in [0..N -> Counts] /\ h[0] = b /\ \A n \in 1..N : h[n] = F[n][h[n - 1]]
    BY <2>2 DEF Follows
  <2>3. ASSUME NEW n \in 1..N PROVE h[n] = One(h[n - 1], dates[n])
    <3>1. h[n - 1] \in Counts
      BY <1>2
    <3>2. F[n][h[n - 1]] = One(h[n - 1], dates[n])
      <4>. HIDE DEF N
      <4>. QED  BY <3>1 DEF F
    <3>. QED  BY <3>2
  <2>4. ASSUME NEW n \in 0..N
        PROVE  h[n] = IF n = 0 THEN [listed |-> {}, holds |-> Holds]
                      ELSE IF dates[n] \in D THEN Start(h[n - 1], dates[n])
                      ELSE h[n - 1]
    <3>1. CASE n = 0
      BY <3>1 DEF b
    <3>2. CASE n # 0
      <4>1. n \in 1..N
        BY <1>2, <3>2
      <4>. HIDE DEF D
      <4>. QED  BY <2>3, <3>2, <4>1 DEF One
    <3>. QED  BY <3>1, <3>2
  <2>5. Is(h)
    <3>. HIDE DEF D
    <3>. QED  BY <2>4
  <2>. QED  BY <2>5
<1>6. Is(f)
  <2>. HIDE DEF Is
  <2>. QED  BY <1>5
<1>. HIDE DEF f
<1>7. f[0] = b /\ \A n \in 1..N : f[n] = One(f[n - 1], dates[n])
  <2>1. \A n \in 0..N : f[n] = IF n = 0 THEN [listed |-> {}, holds |-> Holds]
                              ELSE IF dates[n] \in D THEN Start(f[n - 1], dates[n])
                              ELSE f[n - 1]
    <3>. HIDE DEF D
    <3>. QED  BY <1>6
  <2>2. 0 \in 0..N /\ \A n \in 1..N : n \in 0..N /\ n # 0
    BY <1>2
  <2>. HIDE DEF N, D
  <2>. QED  BY <2>1, <2>2 DEF b, One
<1>8. 0 \in G
  <2>. HIDE DEF D, N
  <2>. QED  BY <1>2, <1>3, <1>7
<1>9. ASSUME NEW n \in 1..N, n - 1 \in G PROVE n \in G
  <2>. DEFINE v == f[n - 1]  d == dates[n]
  <2>1. /\ v \in Counts /\ v.listed \subseteq S /\ d \in Tokens /\ f[n] = One(v, d)
        /\ ~Full /\ v.listed = {} => v.holds = Holds /\ \A k \in 1..(n - 1) : dates[k] \notin D
    BY <1>2, <1>7, <1>9
  <2>2. n \in 0..N /\ 1..n = 1..(n - 1) \cup {n}
    BY <1>2
  <2>3. CASE d \notin D
    <3>. HIDE DEF D, N
    <3>1. f[n] = v
      BY <2>1, <2>3 DEF One
    <3>. QED  BY <2>1, <2>2, <2>3, <3>1
  <2>4. CASE d \in D
    <3>1. d[1] \in S
      BY <2>4 DEF Date
    <3>. HIDE DEF v, d, D, N
    <3>2. f[n] = Start(v, d)
      BY <2>1, <2>4 DEF One
    <3>3. f[n] \in Counts /\ f[n].listed \subseteq S
      <4>1. Start(v, d) \in Counts
        BY <2>1, StartTyped
      <4>2. Start(v, d) = v \/ Start(v, d).listed = v.listed \cup {d[1]}
        BY <2>1, StartTyped
      <4>. QED  BY <2>1, <3>1, <3>2, <4>1, <4>2
    <3>4. ~Full => f[n].listed # {}
      <4>1. CASE v.listed = {}
        <5>1. ~Full => v.holds < Limit
          BY <2>1, <4>1, HoldsTyped, ReconcilerAssumption DEF Full
        <5>. QED  BY <2>1, <3>2, <4>1, <5>1, StartTyped
      <4>2. CASE v.listed # {}
        <5>1. v.listed \subseteq f[n].listed
          BY <2>1, <3>2, StartTyped
        <5>. QED  BY <4>2, <5>1
      <4>. QED  BY <4>1, <4>2
    <3>. HIDE DEF D, N
    <3>. QED  BY <2>2, <3>3, <3>4
  <2>. QED  BY <2>3, <2>4
<1>10. N \in G
  <2>. HIDE DEF G, N
  <2>1. \A n \in 0..N : n \in G
    BY <1>2, <1>8, <1>9, ByCount
  <2>. QED  BY <1>2, <2>1
<1>11. ASSUME S # {}, ~Full, \A i \in S : Date(i) \in Range(dates) PROVE StartDue(S).listed # {}
  <2>1. PICK i \in S : TRUE
    BY <1>11
  <2>2. PICK k \in 1..N : dates[k] = Date(i)
    BY <1>2, <1>11 DEF Range
  <2>3. dates[k] \in D
    BY <2>2
  <2>. HIDE DEF D, N
  <2>. QED  BY <1>1, <1>10, <1>11, <2>3
<1>. QED  BY <1>1, <1>10, <1>11

LEMMA RanIs ==
  ASSUME dates \in Seq(Tokens), NEW i \in Issues
  PROVE  /\ Ran(i) \in Seq(Tokens)
         /\ Range(dates) \ {<<i, "labeled">>, <<i, "ran">>, <<i, "now">>} \subseteq Range(Ran(i))
         /\ <<i, "now">> \in Range(dates) => <<i, "ran">> \in Range(Ran(i))
<1>. DEFINE kept == Without({<<i, "labeled">>, <<i, "ran">>})
            g == [k \in DOMAIN kept |-> IF kept[k] = <<i, "now">> THEN <<i, "ran">> ELSE kept[k]]
<1>1. kept \in Seq(Tokens) /\ Range(kept) = Range(dates) \ {<<i, "labeled">>, <<i, "ran">>}
  BY WithoutIs
<1>2. Ran(i) = g
  BY DEF Ran
<1>. HIDE DEF kept
<1>3. Len(kept) \in Nat /\ DOMAIN kept = 1..Len(kept) /\ \A k \in DOMAIN kept : kept[k] \in Tokens
  BY <1>1
<1>4. <<i, "ran">> \in Tokens
  BY DEF Tokens
<1>5. g \in [1..Len(kept) -> Tokens]
  BY <1>3, <1>4
<1>6. g \in Seq(Tokens)
  <2>. HIDE DEF g
  <2>. QED  BY <1>3, <1>5
<1>7. ASSUME NEW t \in Range(kept)
      PROVE  (IF t = <<i, "now">> THEN <<i, "ran">> ELSE t) \in Range(g)
  <2>1. PICK k \in DOMAIN kept : kept[k] = t
    BY DEF Range
  <2>2. k \in DOMAIN g /\ g[k] = IF t = <<i, "now">> THEN <<i, "ran">> ELSE t
    BY <2>1
  <2>. HIDE DEF g
  <2>. QED  BY <2>2 DEF Range
<1>. HIDE DEF g
<1>8. <<i, "now">> # <<i, "labeled">> /\ <<i, "now">> # <<i, "ran">>
  OBVIOUS
<1>. QED  BY <1>1, <1>2, <1>6, <1>7, <1>8

\* A label put on or taken off changes no other date, and one of a waking
\* state its record does not name has its own.
LEMMA LabeledIs ==
  ASSUME dates \in Seq(Tokens), NEW i \in Issues, NEW s
  PROVE  /\ Labeled(i, s) \in Seq(Tokens)
         /\ Range(dates) \ {<<i, "labeled">>} \subseteq Range(Labeled(i, s))
         /\ s \in Waking \ {rec[i]} => <<i, "labeled">> \in Range(Labeled(i, s))
<1>1. <<i, "labeled">> \in Tokens
  BY DEF Tokens
<1>. DEFINE kept == Without({<<i, "labeled">>})
<1>2. kept \in Seq(Tokens) /\ Range(kept) = Range(dates) \ {<<i, "labeled">>}
  BY WithoutIs
<1>3. Labeled(i, s) = IF s \in Waking \ {rec[i]} THEN Append(kept, <<i, "labeled">>) ELSE kept
  BY DEF Labeled
<1>. HIDE DEF kept
<1>4. /\ Append(kept, <<i, "labeled">>) \in Seq(Tokens)
      /\ Range(Append(kept, <<i, "labeled">>)) = Range(kept) \cup {<<i, "labeled">>}
  BY <1>1, <1>2, AppendRange
<1>. QED  BY <1>2, <1>3, <1>4

-----------------------------------------------------------------------------
(* Types, and the dates there are: of a run under way, of a step that      *)
(* waits, of a record's last run.                                          *)

Dated ==
    \A i \in Issues :
        /\ run[i] = "judges" => at[i] \in Waking /\ <<i, "now">> \in Range(dates)
        /\ at[i] \in Waking => Date(i) \in Range(dates)
        /\ rec[i] \in Waking => <<i, "ran">> \in Range(dates)

Typed == TypeOK /\ Dated

LEMMA InitDated == ASSUME Init PROVE Typed
<1>. DEFINE q == SetToSeq(Issues)  n == Cardinality(Issues)
            Is(f) == f \in [1..n -> Issues] /\ IsInjective(f)
<1>1. IsFiniteSet(Issues) /\ n \in Nat
  BY ReconcilerAssumption, FS_CardinalityType
<1>2. \E f : Is(f)
  <2>1. ExistsBijection(1..n, Issues)
    BY <1>1, FS_CountingElements, FS_NatBijection
  <2>. QED  BY <2>1 DEF ExistsBijection, Bijection, Injection, IsInjective
<1>3. q \in [1..n -> Issues] /\ IsInjective(q)
  <2>1. q = CHOOSE f \in [1..n -> Issues] : IsInjective(f)
    BY DEF SetToSeq
  <2>. HIDE DEF q
  <2>. QED  BY <1>2, <2>1
<1>. HIDE DEF q, n
<1>4. \A i \in Issues : \E k \in DOMAIN q : q[k] = i
  <2>1. IsFiniteSet(1..n) /\ Cardinality(1..n) = n
    BY <1>1, FS_Interval
  <2>2. q \in Injection(1..n, Issues) /\ Cardinality(1..n) = Cardinality(Issues)
    BY <1>3, <2>1 DEF Injection, n
  <2>3. q \in Surjection(1..n, Issues)
    BY <1>1, <2>2, FS_Injection
  <2>. QED  BY <1>3, <2>3 DEF Surjection
<1>5. dates = [k \in DOMAIN q |-> <<q[k], "labeled">>]
  BY DEF Init, q
<1>6. dates \in Seq(Tokens)
  <2>1. dates \in [1..n -> Tokens]
    BY <1>3, <1>5 DEF Tokens
  <2>. QED  BY <1>1, <2>1
<1>7. \A i \in Issues : <<i, "labeled">> \in Range(dates)
  BY <1>4, <1>5 DEF Range
<1>8. TypeOK
  BY <1>6, ReconcilerAssumption DEF Init, TypeOK, Tokens, Places, Waking, NoJob
<1>. QED  BY <1>7, <1>8 DEF Init, Typed, Dated, Date, Waking

\* A run started is queued; none other changes.
LEMMA StartedIs ==
  ASSUME TypeOK, NEW S
  PROVE  /\ Started(S) \in [Issues -> {"none", "queued", "judges"}]
         /\ \A i \in Issues :
               /\ run[i] # "none" => Started(S)[i] = run[i]
               /\ run[i] = "none" => Started(S)[i] = IF i \in S THEN "queued" ELSE "none"
  BY DEF TypeOK, Started

LEMMA RunTyped ==
  ASSUME Typed, NEW i \in Issues, Run(i)
  PROVE  Typed'
<1>1. CASE JudgeNothing(i)
  BY <1>1 DEF JudgeNothing, Typed, TypeOK, Dated, Date, Calm
<1>2. CASE Judge(i)
  <2>1. <<i, "now">> \in Tokens /\ dates \in Seq(Tokens)
    BY DEF Typed, TypeOK, Tokens
  <2>2. dates' \in Seq(Tokens) /\ Range(dates)' = Range(dates) \cup {<<i, "now">>}
    BY <1>2, <2>1, AppendRange DEF Judge
  <2>3. TypeOK'
    BY <1>2, <2>2 DEF Judge, Typed, TypeOK, Calm, Tokens
  <2>4. Dated'
    BY <1>2, <2>2 DEF Judge, Typed, TypeOK, Dated, Date, CanRun
  <2>. QED  BY <2>3, <2>4 DEF Typed
<1>3. CASE Apply(i)
  <2>1. PICK s \in Places, again \in BOOLEAN :
          /\ at' = [at EXCEPT ![i] = s] /\ due' = [due EXCEPT ![i] = again]
          /\ dates' = IF s \in Waking \ {at[i]} THEN Append(Ran(i), <<i, "labeled">>) ELSE Ran(i)
    BY <1>3 DEF Apply
  <2>2. <<i, "labeled">> \in Tokens /\ dates \in Seq(Tokens)
    BY DEF Typed, TypeOK, Tokens
  <2>3. /\ Ran(i) \in Seq(Tokens)
        /\ Range(dates) \ {<<i, "labeled">>, <<i, "ran">>, <<i, "now">>} \subseteq Range(Ran(i))
        /\ <<i, "ran">> \in Range(Ran(i))
    BY <1>3, <2>2, RanIs DEF Apply, Typed, Dated
  <2>4. /\ dates' \in Seq(Tokens) /\ Range(Ran(i)) \subseteq Range(dates)'
        /\ s \in Waking \ {at[i]} => <<i, "labeled">> \in Range(dates)'
    BY <2>1, <2>2, <2>3, AppendRange
  <2>5. at[i] \in Waking
    BY <1>3 DEF Apply, Typed, Dated
  <2>6. TypeOK'
    BY <1>3, <2>1, <2>4, <2>5 DEF Apply, Typed, TypeOK, Calm, Tokens
  <2>7. Dated'
    <3>. SUFFICES ASSUME NEW j \in Issues
         PROVE /\ run'[j] = "judges" => at'[j] \in Waking /\ <<j, "now">> \in Range(dates)'
               /\ at'[j] \in Waking => Date(j)' \in Range(dates)'
               /\ rec'[j] \in Waking => <<j, "ran">> \in Range(dates)'
      BY DEF Dated
    <3>1. CASE j = i
      BY <1>3, <2>1, <2>3, <2>4, <3>1 DEF Apply, Typed, TypeOK, Date
    <3>2. CASE j # i
      BY <1>3, <2>1, <2>3, <2>4, <3>2 DEF Apply, Typed, TypeOK, Dated, Date
    <3>. QED  BY <3>1, <3>2
  <2>. QED  BY <2>6, <2>7 DEF Typed
<1>4. CASE NextStep(i)
  <2>0. run' \in [Issues -> {"none", "queued", "judges"}] /\ outside' \in Nat
    BY <1>4, StartedIs DEF NextStep, Typed, TypeOK, Calm, Outside
  <2>1. TypeOK'
    BY <1>4, <2>0 DEF NextStep, Typed, TypeOK, issueVars
  <2>2. \A j \in Issues : run'[j] = "judges" => run[j] = "judges"
    BY <1>4, StartedIs DEF NextStep, Typed, TypeOK
  <2>. QED  BY <1>4, <2>1, <2>2 DEF NextStep, Typed, Dated, Date, issueVars
<1>5. CASE Room(i)
  <2>0. run' \in [Issues -> {"none", "queued", "judges"}] /\ outside' \in Nat
    BY <1>5, StartedIs DEF Room, Typed, TypeOK, Calm, Outside
  <2>1. TypeOK'
    BY <1>5, <2>0 DEF Room, Typed, TypeOK, issueVars
  <2>2. \A j \in Issues : run'[j] = "judges" => run[j] = "judges"
    BY <1>5, StartedIs DEF Room, Typed, TypeOK
  <2>. QED  BY <1>5, <2>1, <2>2 DEF Room, Typed, Dated, Date, issueVars
<1>. QED  BY <1>1, <1>2, <1>3, <1>4, <1>5 DEF Run

LEMMA OutsideTyped ==
  ASSUME Typed, NEW i \in Issues, Lost(i) \/ People(i)
  PROVE  Typed'
<1>. dates \in Seq(Tokens)
  BY DEF Typed, TypeOK, Tokens
<1>1. CASE Lost(i)
  <2>1. dates' \in Seq(Tokens) /\ Range(dates)' = Range(dates) \ {<<i, "now">>}
    BY <1>1, WithoutIs DEF Lost
  <2>2. TypeOK'
    BY <1>1, <2>1 DEF Lost, Outside, Typed, TypeOK, Tokens
  <2>3. Dated'
    <3>1. \A j \in Issues : Date(j)' = Date(j) /\ Date(j) # <<i, "now">>
      BY <1>1 DEF Lost, Date
    <3>. QED  BY <1>1, <2>1, <3>1 DEF Lost, Typed, TypeOK, Dated
  <2>. QED  BY <2>2, <2>3 DEF Typed
<1>2. ASSUME NEW s \in Places, at' = [at EXCEPT ![i] = s], dates' = Labeled(i, s),
             rec' = rec, TypeOK', \A j \in Issues : run'[j] = "judges" => j # i /\ run[j] = "judges"
      PROVE  Typed'
  <2>1. /\ Range(dates) \ {<<i, "labeled">>} \subseteq Range(dates)'
        /\ s \in Waking \ {rec[i]} => <<i, "labeled">> \in Range(dates)'
    BY <1>2, LabeledIs
  <2>. SUFFICES ASSUME NEW j \in Issues
       PROVE /\ run'[j] = "judges" => at'[j] \in Waking /\ <<j, "now">> \in Range(dates)'
             /\ at'[j] \in Waking => Date(j)' \in Range(dates)'
             /\ rec'[j] \in Waking => <<j, "ran">> \in Range(dates)'
    BY <1>2 DEF Typed, Dated
  <2>2. CASE j = i
    BY <1>2, <2>1, <2>2 DEF Typed, TypeOK, Dated, Date
  <2>3. CASE j # i
    BY <1>2, <2>1, <2>3 DEF Typed, TypeOK, Dated, Date
  <2>. QED  BY <2>2, <2>3
<1>3. CASE PersonLabels(i)
  <2>1. PICK s \in Waking :
          /\ at' = [at EXCEPT ![i] = s] /\ due' = [due EXCEPT ![i] = TRUE]
          /\ told' = [told EXCEPT ![i] = FALSE]
          /\ dates' = Labeled(i, s)
    BY <1>3 DEF PersonLabels
  <2>2. /\ run' \in [Issues -> {"none", "queued", "judges"}]
        /\ \A j \in Issues : run'[j] = "judges" => j # i /\ run[j] = "judges"
    BY <1>3, StartedIs DEF PersonLabels, Typed, TypeOK
  <2>3. s \in Places /\ dates' \in Seq(Tokens)
    BY <2>1, LabeledIs DEF Places
  <2>4. TypeOK'
    <3>1. missed' \in BOOLEAN /\ outside' \in Nat
      <4>1. missed' = missed \/ missed' = TRUE
        BY <1>3 DEF PersonLabels
      <4>2. outside' = outside + 1
        BY <1>3 DEF PersonLabels, Outside
      <4>3. missed \in BOOLEAN /\ outside \in Nat
        BY DEF Typed, TypeOK
      <4>4. missed' \in BOOLEAN
        BY <4>1, <4>3, Zenon
      <4>. QED  BY <4>2, <4>3, <4>4
    <3>2. /\ at' \in [Issues -> Places] /\ due' \in [Issues -> BOOLEAN]
          /\ told' \in [Issues -> BOOLEAN]
      BY <2>1, <2>3 DEF Typed, TypeOK
    <3>. QED  BY <1>3, <2>2, <2>3, <3>1, <3>2 DEF PersonLabels, Typed, TypeOK, Tokens
  <2>. QED  BY <1>2, <1>3, <2>1, <2>2, <2>3, <2>4 DEF PersonLabels
<1>4. CASE PersonTakesOff(i)
  <2>1. "off" \in Places /\ dates' \in Seq(Tokens)
    BY <1>4, LabeledIs DEF PersonTakesOff, Places
  <2>2. TypeOK'
    BY <1>4, <2>1 DEF PersonTakesOff, Outside, Typed, TypeOK, Tokens
  <2>3. \A j \in Issues : run'[j] = "judges" => j # i /\ run[j] = "judges"
    BY <1>4 DEF PersonTakesOff
  <2>. QED  BY <1>2, <1>4, <2>1, <2>2, <2>3 DEF PersonTakesOff
<1>5. CASE PersonEdits(i)
  <2>1. TypeOK'
    BY <1>5 DEF PersonEdits, Outside, Typed, TypeOK
  <2>. QED  BY <1>5, <2>1 DEF PersonEdits, Typed, Dated, Date
<1>6. CASE LetGo(i)
  <2>1. "ready" \in Places /\ dates' \in Seq(Tokens)
    BY <1>6, LabeledIs DEF LetGo, Places, Waking
  <2>2. TypeOK'
    BY <1>6, <2>1 DEF LetGo, Calm, Typed, TypeOK, Tokens
  <2>3. \A j \in Issues : run'[j] = "judges" => j # i /\ run[j] = "judges"
    BY <1>6 DEF LetGo
  <2>. QED  BY <1>2, <1>6, <2>1, <2>2, <2>3 DEF LetGo
<1>. QED  BY <1>1, <1>3, <1>4, <1>5, <1>6 DEF People

LEMMA ReconcileTyped ==
  ASSUME Typed, OneWay, Reconcile \/ ReconcileDies \/ ReconcileDue \/ Heartbeat
  PROVE  Typed'
<1>. dates \in Seq(Tokens)
  BY DEF Typed, TypeOK, Tokens
<1>1. UNCHANGED issueVars /\ outside' \in Nat
  BY DEF Reconcile, List, StartListed, ReconcileDies, ReconcileDue, Heartbeat, issueVars, Calm,
         Outside, Typed, TypeOK
<1>2. /\ run' \in [Issues -> {"none", "queued", "judges"}]
      /\ \A j \in Issues : run'[j] = "judges" => run[j] = "judges"
  <2>1. CASE StartListed
    <3>1. PICK S : run' = Started(S)
      BY <2>1 DEF StartListed
    <3>. QED  BY <3>1, StartedIs DEF Typed
  <2>2. CASE run' = run
    BY <2>2 DEF Typed, TypeOK
  <2>. QED  BY <2>1, <2>2 DEF Reconcile, List, ReconcileDies, ReconcileDue, Heartbeat
<1>3. job'.at \in {"idle", "listed"} /\ job'.listed \subseteq Issues /\ UNCHANGED <<after, missed>>
  <2>1. CASE List
    <3>1. Dues \subseteq Issues /\ Untold \subseteq Issues
      BY DEF Dues, Untold
    <3>2. StartDue(Dues).listed \subseteq Issues
      BY <3>1, StartDueIs
    <3>. HIDE DEF Untold
    <3>. QED  BY <2>1, <3>1, <3>2 DEF List
  <2>2. CASE ~List
    BY <2>2 DEF Reconcile, StartListed, ReconcileDies, ReconcileDue, Heartbeat, NoJob, issueVars,
                Typed, TypeOK
  <2>. QED  BY <2>1, <2>2
<1>4. coming' \subseteq {"beat", "queued"}
  BY DEF Reconcile, List, StartListed, ReconcileDies, ReconcileDue, Heartbeat, Typed, TypeOK
<1>5. TypeOK'
  BY <1>1, <1>2, <1>3, <1>4 DEF issueVars, Typed, TypeOK
<1>. QED  BY <1>1, <1>2, <1>5 DEF issueVars, Typed, Dated, Date

LEMMA TypedKept == Typed /\ OneWay /\ [Next]_vars => Typed'
<1>1. CASE UNCHANGED vars
  BY <1>1 DEF vars, issueVars, Typed, TypeOK, Dated, Date
<1>. QED  BY <1>1, RunTyped, OutsideTyped, ReconcileTyped DEF Next

\* The issues, their dates and runs, and the reconciler's list keep their
\* types: what is listed are issues.
THEOREM TypeCorrect == Spec => []TypeOK
<1>1. Init => OneWay
  BY DEF Init, OneWay, NoJob
<1>2. Typed => TypeOK
  BY DEF Typed
<1>. QED  BY <1>1, <1>2, InitDated, TypedKept, OneWayKept, PTL DEF Spec

-----------------------------------------------------------------------------
(* Room that frees up wakes those that wait.  While no event was missed,   *)
(* an issue due in ready with no run has one whose own next step comes;    *)
(* and for one due in tests, with room, another's run will look at the     *)
(* room when it ends, or frees what that one holds.                        *)

WillLook(k) ==
    \/ after[k] = "next" \/ run[k] = "judges"
    \/ run[k] = "queued" /\ CanRun(k)
    \/ after[k] = "room" /\ ~(at[k] = "tests" /\ CanRun(k))

ReadyComes == \A j \in Issues : at[j] = "ready" /\ due[j] /\ run[j] = "none" => after[j] = "next"
TestsCome ==
    \A j \in Issues :
        at[j] = "tests" /\ CanRun(j) /\ run[j] = "none" /\ after[j] # "next" =>
            \E k \in Issues \ {j} : WillLook(k)

RoomInv == ~missed => ReadyComes /\ TestsCome

LEMMA SameRoom ==
  ASSUME UNCHANGED <<at, due>>
  PROVE  Full' = Full /\ \A k : CanRun(k)' = CanRun(k)
  BY DEF Full, Holds, CanRun

\* Runs started are more who will look.
LEMMA MoreRuns ==
  ASSUME Typed, ReadyComes, TestsCome, UNCHANGED <<at, due, after>>, NEW S, run' = Started(S)
  PROVE  ReadyComes' /\ TestsCome'
<1>1. \A j \in Issues : /\ run'[j] = "none" => run[j] = "none"
                        /\ run[j] # "none" => run'[j] = run[j]
  BY StartedIs DEF Typed
<1>2. \A k \in Issues : WillLook(k) => WillLook(k)'
  BY <1>1, SameRoom DEF WillLook
<1>. QED  BY <1>1, <1>2, SameRoom DEF ReadyComes, TestsCome

LEMMA ApplyWakes ==
  ASSUME Typed, ReadyComes, TestsCome, NEW i \in Issues, Apply(i)
  PROVE  ReadyComes' /\ TestsCome'
<1>1. /\ after'[i] = "next" /\ run'[i] = "none"
      /\ \A j \in Issues : j # i => /\ at'[j] = at[j] /\ due'[j] = due[j]
                                    /\ run'[j] = run[j] /\ after'[j] = after[j]
  BY DEF Apply, Typed, TypeOK
<1>2. WillLook(i)'
  BY <1>1 DEF WillLook
<1>. QED  BY <1>1, <1>2 DEF ReadyComes, TestsCome

LEMMA JudgeWakes ==
  ASSUME Typed, ReadyComes, TestsCome, NEW i \in Issues, Judge(i) \/ JudgeNothing(i)
  PROVE  ReadyComes' /\ TestsCome'
<1>. UNCHANGED <<at, due>>
  BY DEF Judge, JudgeNothing
<1>1. \A j \in Issues : j # i => run'[j] = run[j] /\ after'[j] = after[j]
  BY DEF Judge, JudgeNothing, Typed, TypeOK
<1>2. CASE Judge(i)
  <2>1. run'[i] = "judges" /\ run[i] = "queued" /\ after' = after
    BY <1>2 DEF Judge, Typed, TypeOK
  <2>2. \A k \in Issues : WillLook(k) => WillLook(k)'
    BY <1>1, <2>1, SameRoom DEF WillLook
  <2>. QED  BY <1>1, <2>1, <2>2, SameRoom DEF ReadyComes, TestsCome
<1>3. CASE JudgeNothing(i)
  <2>1. /\ run'[i] = "none" /\ run[i] = "queued" /\ ~CanRun(i)
        /\ after'[i] = after[i] \/ (after[i] = "none" /\ after'[i] = "next")
    BY <1>3 DEF JudgeNothing, Typed, TypeOK
  <2>2. \A k \in Issues : WillLook(k) => WillLook(k)'
    BY <1>1, <2>1, SameRoom DEF WillLook
  <2>3. at[i] = "ready" => ~due[i]
    BY <2>1 DEF CanRun, Waking
  <2>. QED  BY <1>1, <2>1, <2>2, <2>3, SameRoom DEF ReadyComes, TestsCome
<1>. QED  BY <1>2, <1>3

LEMMA NextStepWakes ==
  ASSUME Typed, ReadyComes, TestsCome, NEW i \in Issues, NextStep(i), ~missed'
  PROVE  ReadyComes' /\ TestsCome'
<1>. UNCHANGED <<at, due>>
  BY DEF NextStep, issueVars
<1>1. PICK S : run' = Started(S) /\ (CanRun(i) => i \in S)
  BY DEF NextStep
<1>2. /\ \A j \in Issues : /\ run'[j] = "none" => run[j] = "none"
                           /\ run[j] # "none" => run'[j] = run[j]
      /\ CanRun(i) => run'[i] # "none"
      /\ run'[i] \in {"none", "queued", "judges"}
  BY <1>1, StartedIs DEF Typed
<1>3. /\ after[i] = "next" /\ after'[i] = "room"
      /\ \A j \in Issues : j # i => after'[j] = after[j]
  BY DEF NextStep, Typed, TypeOK
<1>4. WillLook(i)'
  BY <1>2, <1>3, SameRoom DEF WillLook
<1>5. \A k \in Issues : WillLook(k) => WillLook(k)'
  BY <1>2, <1>3, <1>4, SameRoom DEF WillLook
<1>6. at[i] = "ready" /\ due[i] => CanRun(i)
  BY DEF CanRun, Waking
<1>. QED  BY <1>2, <1>3, <1>5, <1>4, <1>6, SameRoom DEF ReadyComes, TestsCome

\* The step room of a run: it starts one that waits, which will look in its
\* turn, or nothing waits with room.
LEMMA RoomStepWakes ==
  ASSUME Typed, ReadyComes, TestsCome, NEW i \in Issues, Room(i), ~missed'
  PROVE  ReadyComes' /\ TestsCome'
<1>. UNCHANGED <<at, due>>
  BY DEF Room, issueVars
<1>1. run' = Started(RoomDue \ {i})
  BY DEF Room
<1>2. \A j \in Issues : /\ run'[j] = "none" => run[j] = "none"
                        /\ run[j] # "none" => run'[j] = run[j]
                        /\ j \in RoomDue \ {i} => run'[j] # "none"
                        /\ run'[j] \in {"none", "queued", "judges"}
  BY <1>1, StartedIs DEF Typed
<1>3. /\ after[i] = "room" /\ after'[i] = "none"
      /\ \A j \in Issues : j # i => after'[j] = after[j]
  BY DEF Room, Typed, TypeOK
<1>4. \A k \in Issues : k # i \/ run[i] = "judges" \/ (run[i] = "queued" /\ CanRun(i)) =>
                            (WillLook(k) => WillLook(k)')
  BY <1>2, <1>3, SameRoom DEF WillLook
<1>5. ReadyComes'
  BY <1>2, <1>3 DEF ReadyComes
<1>6. ASSUME NEW j \in Issues, at[j] = "tests", CanRun(j), run'[j] = "none", after'[j] # "next"
      PROVE  \E k \in Issues \ {j} : WillLook(k)'
  <2>1. PICK k \in Issues \ {j} : WillLook(k)
    BY <1>2, <1>3, <1>6 DEF TestsCome
  <2>2. CASE WillLook(k)'
    BY <2>2
  <2>3. CASE ~WillLook(k)'
    <3>1. k = i /\ ~(at[i] = "tests" /\ CanRun(i))
      BY <1>3, <1>4, <2>1, <2>3 DEF WillLook
    <3>. DEFINE S == {l \in Issues : at[l] = "tests" /\ CanRun(l)}
    <3>2. S \in SUBSET Issues /\ S # {} /\ ~Full /\ \A l \in S : Date(l) \in Range(dates)
      BY <1>6 DEF CanRun, Typed, Dated, Waking
    <3>3. RoomDue \subseteq S /\ RoomDue # {}
      <4>1. RoomDue = StartDue(S).listed
        BY DEF RoomDue
      <4>2. dates \in Seq(Tokens)
        BY DEF Typed, TypeOK, Tokens
      <4>. HIDE DEF S
      <4>. QED  BY <3>2, <4>1, <4>2, StartDueIs
    <3>4. PICK l \in S : l \in RoomDue \ {i}
      BY <3>1, <3>3
    <3>5. run'[l] # "none" /\ CanRun(l)
      BY <1>2, <3>4
    <3>6. l # j /\ WillLook(l)'
      BY <1>2, <1>6, <3>5, SameRoom DEF WillLook
    <3>. QED  BY <3>6
  <2>. QED  BY <2>2, <2>3
<1>7. TestsCome'
  BY <1>6, SameRoom DEF TestsCome
<1>. QED  BY <1>5, <1>7

LEMMA LabelWakes ==
  ASSUME Typed, ReadyComes, TestsCome, NEW i \in Issues, PersonLabels(i), ~missed'
  PROVE  ReadyComes' /\ TestsCome'
<1>1. /\ run' = Started({i}) /\ run[i] # "judges" /\ after' = after
      /\ at'[i] \in Waking /\ due'[i] = TRUE
      /\ \A j \in Issues : j # i => at'[j] = at[j] /\ due'[j] = due[j]
  BY DEF PersonLabels, Typed, TypeOK
<1>2. /\ run'[i] = "queued"
      /\ \A j \in Issues : j # i => run'[j] = run[j]
  BY <1>1, StartedIs DEF Typed, TypeOK
<1>3. ReadyComes'
  BY <1>1, <1>2 DEF ReadyComes
<1>4. ASSUME NEW j \in Issues, at'[j] = "tests", CanRun(j)', run'[j] = "none"
      PROVE  j # i /\ WillLook(i)'
  <2>1. ~Full'
    BY <1>4 DEF CanRun
  <2>2. CanRun(i)'
    BY <1>1, <2>1 DEF CanRun
  <2>. QED  BY <1>2, <1>4, <2>2 DEF WillLook
<1>5. TestsCome'
  BY <1>4 DEF TestsCome
<1>. QED  BY <1>3, <1>5

LEMMA RoomKept == Typed /\ RoomInv /\ [Next]_vars => RoomInv'
<1>. SUFFICES ASSUME Typed, RoomInv, [Next]_vars, ~missed' PROVE ReadyComes' /\ TestsCome'
  BY DEF RoomInv
<1>1. ~missed
  BY DEF Next, Run, Judge, JudgeNothing, Apply, NextStep, Room, Lost, People, PersonLabels,
         PersonTakesOff, PersonEdits, LetGo, Reconcile, List, StartListed, ReconcileDies,
         ReconcileDue, Heartbeat, vars
<1>2. ReadyComes /\ TestsCome
  BY <1>1 DEF RoomInv
<1>3. CASE UNCHANGED <<at, due, after, run>>
  BY <1>2, <1>3, SameRoom DEF ReadyComes, TestsCome, WillLook
<1>4. CASE StartListed
  <2>1. PICK S : run' = Started(S)
    BY <1>4 DEF StartListed
  <2>. QED  BY <1>2, <1>4, <2>1, MoreRuns DEF StartListed, issueVars
<1>5. ASSUME NEW i \in Issues, Run(i) \/ Lost(i) \/ People(i) PROVE ReadyComes' /\ TestsCome'
  BY <1>2, <1>5, ApplyWakes, JudgeWakes, NextStepWakes, RoomStepWakes, LabelWakes
     DEF Run, Lost, People, PersonTakesOff, PersonEdits, LetGo
<1>. QED
  BY <1>3, <1>4, <1>5
     DEF Next, Reconcile, List, ReconcileDies, ReconcileDue, Heartbeat, vars, issueVars

\* With no event missed and nothing failed, once no run goes on no issue
\* waits for room that is there: the run that freed it started the one that
\* waited longest, and that one's run the next.
THEOREM RoomIsUsed == Spec => []RoomWakes
<1>1. Init => RoomInv
  BY DEF Init, RoomInv, ReadyComes, TestsCome
<1>2. Init => OneWay
  BY DEF Init, OneWay, NoJob
<1>3. RoomInv => RoomWakes
  <2>. SUFFICES ASSUME RoomInv, Quiet, ~missed, NEW i \in Issues, CanRun(i) PROVE FALSE
    BY DEF RoomWakes
  <2>1. \A k \in Issues : ~WillLook(k)
    BY DEF Quiet, WillLook
  <2>. QED  BY <2>1 DEF RoomInv, ReadyComes, TestsCome, Quiet, CanRun, Waking
<1>. QED  BY <1>1, <1>2, <1>3, InitDated, TypedKept, OneWayKept, RoomKept, PTL DEF Spec
=============================================================================
