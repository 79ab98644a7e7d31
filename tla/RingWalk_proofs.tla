-------------------------- MODULE RingWalk_proofs --------------------------
(***************************************************************************)
(* The two walks along `next` of internal/routing answer right on every    *)
(* table: checkWIPCycle's, that refuses limited rings alone, so that a     *)
(* table accepted never stops the line; and Config.Ahead's (AheadWalk).    *)
(***************************************************************************)
EXTENDS RingWalk, AheadWalk, FiniteSetTheorems, WellFoundedInduction, TLAPS

-----------------------------------------------------------------------------
(* checkWIPCycle.  A least set of limited states closed under next is a    *)
(* ring: the walk from any of its rows comes back to it, having passed     *)
(* limited states alone.  A row walked and left is on none.                *)

Closed(S) == \A r \in S : next[r] \in S
Cycle(M) ==
    /\ M \in (SUBSET States) \ {{}} /\ Limited(M) /\ Closed(M)
    /\ \A P \in (SUBSET M) \ {{}} : Closed(P) => P = M

Typed ==
    /\ Table /\ wip \in [States -> 0..MaxLimit]
    /\ rows \in SUBSET States /\ start \in States \cup {None} /\ n \in States \cup {None}
    /\ ring \in SUBSET States /\ verdict \in {"reading", "accepted", "refused"}
    /\ at \in [Issues -> States \cup {None}]

\* The states passed: each leads to the next one passed, the start to none.
Passed ==
    start # None =>
        /\ start \in ring
        /\ \A t \in ring : next[t] = n \/ next[t] \in ring \ {start}
        /\ \A M \in SUBSET States : Closed(M) /\ start \in M => ring \subseteq M /\ n \in M

Refused == verdict = "refused" => LimitedRing
Left ==
    /\ verdict # "refused" => \A M : Cycle(M) => M \subseteq rows \cup {start}
    /\ verdict = "accepted" => rows = {} /\ start = None

WalkInv == Typed /\ Passed /\ Refused /\ Left

LEMMA Least ==
  ASSUME NEW T \in SUBSET Nat, T # {}
  PROVE  \E x \in T : \A y \in T : x =< y
<1>. DEFINE R == {p \in Nat \X Nat : p[1] < p[2]}
<1>1. OpToRel(<, Nat) = R
  BY DEF OpToRel
<1>2. IsWellFoundedOn(R, Nat)
  BY <1>1, NatLessThanWellFounded
<1>. HIDE DEF R
<1>3. \E x \in T : \A y \in T : <<y, x>> \notin R
  BY <1>2, WFMin
<1>4. PICK x \in T : \A y \in T : <<y, x>> \notin R
  BY <1>3
<1>5. ASSUME NEW y \in T PROVE x =< y
  <2>1. x \in Nat /\ y \in Nat /\ <<y, x>> \in Nat \X Nat /\ <<y, x>> \notin R
    BY <1>4
  <2>2. ~(<<y, x>>[1] < <<y, x>>[2])
    BY <2>1 DEF R
  <2>. QED  BY <2>1, <2>2
<1>. QED  BY <1>5

\* A limited ring holds a least one.
LEMMA LeastRing ==
  ASSUME Typed, LimitedRing
  PROVE  \E M : Cycle(M)
<1>. DEFINE Rings == {S \in (SUBSET States) \ {{}} : Limited(S) /\ Closed(S)}
            T == {Cardinality(S) : S \in Rings}
<1>1. \A S \in SUBSET States : IsFiniteSet(S) /\ Cardinality(S) \in Nat
  BY RingAssumption, NoneAssumption, FS_Subset, FS_CardinalityType
<1>2. T \in SUBSET Nat /\ T # {}
  BY <1>1 DEF LimitedRing, Closed
<1>3. PICK x \in T : \A y \in T : x =< y
  BY <1>2, Least
<1>4. PICK M \in Rings : Cardinality(M) = x
  OBVIOUS
<1>5. ASSUME NEW P \in (SUBSET M) \ {{}}, Closed(P) PROVE P = M
  <2>1. P \in Rings
    BY <1>5 DEF Limited
  <2>2. x =< Cardinality(P)
    BY <1>3, <2>1
  <2>3. Cardinality(P) =< Cardinality(M) /\ (Cardinality(M) = Cardinality(P) => P = M)
    BY <1>1, FS_Subset
  <2>4. Cardinality(P) \in Nat /\ Cardinality(M) \in Nat
    BY <1>1
  <2>. QED  BY <1>4, <2>2, <2>3, <2>4
<1>6. Cycle(M)
  BY <1>5 DEF Cycle
<1>. QED  BY <1>6

LEMMA InitWalk == ASSUME RInit PROVE WalkInv
<1>1. Typed /\ Passed /\ Refused
  BY RingAssumption, NoneAssumption DEF RInit, Typed, Passed, Refused, Table
<1>2. Left
  BY DEF RInit, Left, Cycle
<1>. QED  BY <1>1, <1>2 DEF WalkInv

\* The table and its limits stay what they are.
LEMMA SameTable ==
  ASSUME UNCHANGED <<next, wip>>
  PROVE  /\ LimitedRing' = LimitedRing
         /\ \A S : Closed(S)' = Closed(S)
         /\ \A M : Cycle(M)' = Cycle(M)
  BY DEF LimitedRing, Limited, Closed, Cycle

LEMMA NextWalk == ASSUME WalkInv, [RNext]_rvars PROVE WalkInv'
<1>1. CASE UNCHANGED rvars
  <2>1. UNCHANGED <<next, wip, rows, start, n, ring, verdict, at>>
    BY <1>1 DEF rvars
  <2>. QED  BY <2>1, SameTable DEF WalkInv, Typed, Passed, Refused, Left, Table
<1>2. CASE Begin
  <2>1. PICK r \in rows : start' = r /\ rows' = rows \ {r} /\ n' = next[r] /\ ring' = {r}
    BY <1>2 DEF Begin
  <2>2. UNCHANGED <<next, wip, verdict, at>> /\ verdict = "reading" /\ start = None
    BY <1>2 DEF Begin
  <2>3. Typed'
    BY <2>1, <2>2 DEF WalkInv, Typed, Table
  <2>4. Passed'
    BY <2>1, <2>2, SameTable DEF WalkInv, Typed, Passed, Closed, Table
  <2>5. Refused' /\ Left'
    <3>1. None \notin rows
      BY RingAssumption, NoneAssumption DEF WalkInv, Typed, Table
    <3>2. \A M : Cycle(M) => M \subseteq rows
      BY <2>2, RingAssumption, NoneAssumption DEF WalkInv, Left, Cycle
    <3>. QED  BY <2>1, <2>2, <3>2, SameTable DEF Refused, Left
  <2>. QED  BY <2>3, <2>4, <2>5 DEF WalkInv
<1>3. CASE Walk
  <2>1. /\ UNCHANGED <<next, wip, rows, at>> /\ verdict = "reading" /\ start # None
        /\ start \in States /\ Passed /\ start \in ring
    BY <1>3 DEF Walk, WalkInv, Typed, Passed, Table
  <2>2. CASE n = start /\ Limited(ring)
    <3>1. verdict' = "refused" /\ UNCHANGED <<start, n, ring>>
      BY <1>3, <2>2 DEF Walk
    <3>2. LimitedRing
      <4>1. ring \in (SUBSET States) \ {{}} /\ Limited(ring)
        BY <2>1, <2>2 DEF WalkInv, Typed, Table
      <4>2. \A t \in ring : next[t] \in ring
        BY <2>1, <2>2 DEF Passed
      <4>. QED  BY <4>1, <4>2 DEF LimitedRing
    <3>. QED  BY <2>1, <3>1, <3>2, SameTable DEF WalkInv, Typed, Passed, Refused, Left, Table
  <2>3. CASE ~(n = start /\ Limited(ring)) /\ (n = None \/ n \in ring)
    <3>1. start' = None /\ UNCHANGED <<n, ring, verdict>>
      BY <1>3, <2>3 DEF Walk
    <3>2. ASSUME NEW M, Cycle(M), start \in M PROVE FALSE
      <4>1. M \in SUBSET States /\ Limited(M) /\ Closed(M)
        BY <3>2 DEF Cycle
      <4>2. ring \subseteq M /\ n \in M
        BY <2>1, <3>2, <4>1 DEF Passed
      <4>3. n \in ring /\ n # start
        BY <2>3, <4>1, <4>2, RingAssumption, NoneAssumption DEF Limited
      <4>4. ring \ {start} \in (SUBSET M) \ {{}} /\ Closed(ring \ {start})
        <5>1. n \in ring \ {start} /\ ring \ {start} \subseteq M
          BY <4>2, <4>3
        <5>2. \A t \in ring \ {start} : next[t] \in ring \ {start}
          BY <2>1, <4>3 DEF Passed
        <5>. QED  BY <5>1, <5>2 DEF Closed
      <4>5. ring \ {start} = M
        BY <3>2, <4>4 DEF Cycle
      <4>. QED  BY <3>2, <4>5
    <3>3. \A M : Cycle(M) => M \subseteq rows
      BY <2>1, <3>2 DEF WalkInv, Left
    <3>. QED  BY <2>1, <3>1, <3>3, SameTable DEF WalkInv, Typed, Passed, Refused, Left, Table
  <2>4. CASE n # None /\ n \notin ring
    <3>1. n' = next[n] /\ ring' = ring \cup {n} /\ UNCHANGED <<start, verdict>>
      BY <1>3, <2>1, <2>4 DEF Walk
    <3>2. Typed'
      BY <2>1, <2>4, <3>1 DEF WalkInv, Typed, Table
    <3>3. \A t \in ring' : next[t] = n' \/ next[t] \in ring' \ {start}
      BY <2>1, <2>4, <3>1 DEF Passed
    <3>4. ASSUME NEW M \in SUBSET States, Closed(M), start \in M
          PROVE  ring' \subseteq M /\ n' \in M
      BY <2>1, <3>1, <3>4 DEF Passed, Closed
    <3>5. Passed'
      BY <2>1, <3>1, <3>3, <3>4, SameTable DEF Passed
    <3>6. Refused' /\ Left'
      BY <2>1, <3>1, SameTable DEF WalkInv, Refused, Left
    <3>. QED  BY <3>2, <3>5, <3>6 DEF WalkInv
  <2>. QED  BY <2>2, <2>3, <2>4
<1>4. CASE Accept
  <2>1. /\ UNCHANGED <<next, wip, rows, start, n, ring, at>> /\ verdict' = "accepted"
        /\ verdict = "reading" /\ rows = {} /\ start = None
    BY <1>4 DEF Accept
  <2>. QED  BY <2>1, SameTable DEF WalkInv, Typed, Passed, Refused, Left, Table
<1>5. ASSUME NEW i \in Issues, Move(i) PROVE WalkInv'
  <2>1. UNCHANGED <<next, wip, rows, start, n, ring, verdict>>
    BY <1>5 DEF Move
  <2>2. at' \in [Issues -> States \cup {None}]
    BY <1>5 DEF Move, WalkInv, Typed, Table
  <2>. QED  BY <2>1, <2>2, SameTable DEF WalkInv, Typed, Passed, Refused, Left, Table
<1>. QED  BY <1>1, <1>2, <1>3, <1>4, <1>5 DEF RNext, Check

\* The walk refuses the tables where limited states make a ring, and no
\* other (checkWIPCycle), whatever table and from whichever row it begins.
THEOREM RingsFound == RSpec => []WalkFindsRing
<1>1. WalkInv => WalkFindsRing
  <2>. SUFFICES ASSUME WalkInv, verdict # "reading", verdict # "refused" PROVE ~LimitedRing
    BY DEF WalkFindsRing, WalkInv, Refused
  <2>1. verdict = "accepted" /\ rows = {} /\ start = None
    BY DEF WalkInv, Typed, Left, Table
  <2>2. ASSUME NEW M, Cycle(M) PROVE FALSE
    <3>1. M \in SUBSET States /\ M # {}
      BY <2>2 DEF Cycle
    <3>2. M \subseteq {None}
      BY <2>1, <2>2 DEF WalkInv, Left
    <3>. QED  BY <3>1, <3>2, RingAssumption, NoneAssumption
  <2>. QED  BY <2>2, LeastRing DEF WalkInv
<1>. QED  BY <1>1, InitWalk, NextWalk, PTL DEF RSpec

\* A table accepted never stops the line for good, however many issues its
\* states hold: were every issue on the line to wait, the states they wait
\* for would make a limited ring.
THEOREM SomeoneMoves == RSpec => []NeverStuck
<1>1. WalkInv /\ WalkFindsRing => NeverStuck
  <2>. SUFFICES ASSUME WalkInv, WalkFindsRing, verdict = "accepted",
                       NEW k \in Issues, at[k] # None,
                       \A i \in Issues : at[i] # None => ~Room(next[at[i]])
                PROVE  FALSE
    BY DEF NeverStuck
  <2>. DEFINE S == {next[at[i]] : i \in {l \in Issues : at[l] # None}}
  <2>1. \A i \in Issues : at[i] # None => at[i] \in States
    BY DEF WalkInv, Typed, Table
  <2>2. ASSUME NEW r \in S
        PROVE  r \in States /\ wip[r] > 0 /\ \E i \in Issues : at[i] = r
    <3>1. ~Room(r) /\ r \in States \cup {None}
      BY <2>1 DEF WalkInv, Typed, Table
    <3>2. r \in States /\ wip[r] \in Nat /\ wip[r] > 0 /\ ~(Holds(r) < wip[r])
      BY <3>1, RingAssumption, NoneAssumption DEF Room, WalkInv, Typed, Table
    <3>3. ASSUME {i \in Issues : at[i] = r} = {} PROVE FALSE
      <4>1. Holds(r) = 0
        BY <3>3, FS_EmptySet DEF Holds
      <4>. QED  BY <3>2, <4>1
    <3>. QED  BY <3>2, <3>3
  <2>3. S \in (SUBSET States) \ {{}} /\ Limited(S)
    <3>1. next[at[k]] \in S
      OBVIOUS
    <3>. HIDE DEF S
    <3>. QED  BY <2>2, <3>1 DEF Limited
  <2>4. \A r \in S : next[r] \in S
    BY <2>2, RingAssumption, NoneAssumption
  <2>5. LimitedRing
    BY <2>3, <2>4 DEF LimitedRing
  <2>. QED  BY <2>5 DEF WalkFindsRing
<1>. QED  BY <1>1, InitWalk, NextWalk, RingsFound, PTL DEF RSpec

-----------------------------------------------------------------------------
(* Config.Ahead.  The states it saw lie in every set closed from the       *)
(* first, and are one, their nexts among them, when it ends without the    *)
(* state it looked for.                                                    *)

AheadInv ==
    /\ s \in seen /\ from \in seen
    /\ from \in States => seen \subseteq States
    /\ from \notin States => s = from /\ answer # "ahead"
    /\ answer # "ahead" => to \notin seen \ {from}
    /\ \A t \in seen \ {s} : t \in States => next[t] = None \/ next[t] \in seen
    /\ \A S \in SUBSET States :
          from \in States /\ ClosedFrom(from, S) => seen \ {from} \subseteq S
    /\ answer = "ahead" => next[s] = to /\ next[s] # None /\ next[s] \notin seen
    /\ answer = "not" => Over

\* The walk's variables stay what they are (Config.Ahead).
THEOREM AheadTypes == Spec => []TypeOK
<1>1. Init => TypeOK
  BY DEF Init, TypeOK, Table
<1>2. TypeOK /\ [Next]_avars => TypeOK'
  BY DEF TypeOK, Next, Step, Over, avars, Table
<1>. QED  BY <1>1, <1>2, PTL DEF Spec

\* What the walk saw, and why it ended.
THEOREM AheadSeen == Spec => []AheadInv
<1>1. Init => AheadInv
  BY NoneAssumption DEF Init, AheadInv, ClosedFrom, Table
<1>2. TypeOK /\ AheadInv /\ [Next]_avars => AheadInv'
  <2>. SUFFICES ASSUME TypeOK, AheadInv, [Next]_avars PROVE AheadInv'
    OBVIOUS
  <2>1. CASE UNCHANGED avars
    BY <2>1 DEF avars, AheadInv, Over, ClosedFrom
  <2>2. CASE Step
    <3>. USE <2>2 DEF Step
    <3>1. CASE Over
      BY <3>1 DEF AheadInv, Over, ClosedFrom
    <3>2. CASE ~Over /\ next[s] = to
      BY <3>2 DEF AheadInv, Over, ClosedFrom, TypeOK, Table
    <3>3. CASE ~Over /\ next[s] # to
      <4>1. /\ s' = next[s] /\ seen' = seen \cup {next[s]} /\ answer' = "walking"
            /\ next' = next /\ from' = from /\ to' = to
            /\ next[s] \in States /\ s \in States /\ from \in States
        BY <3>3 DEF Over, TypeOK, AheadInv, Table
      <4>2. ASSUME NEW S \in SUBSET States, ClosedFrom(from, S)
            PROVE  (seen \cup {next[s]}) \ {from} \subseteq S
        <5>1. s = from \/ s \in S
          BY <4>1, <4>2 DEF AheadInv
        <5>2. next[s] \in S
          BY <3>3, <4>2, <5>1 DEF ClosedFrom, Over
        <5>. QED  BY <4>1, <4>2, <5>2 DEF AheadInv
      <4>3. \A S \in SUBSET States : from \in States /\ ClosedFrom(from, S)'
                 => seen' \ {from} \subseteq S
        BY <4>1, <4>2 DEF ClosedFrom
      <4>. QED  BY <3>3, <4>1, <4>3 DEF AheadInv, Over, ClosedFrom
    <3>. QED  BY <3>1, <3>2, <3>3
  <2>. QED  BY <2>1, <2>2 DEF Next
<1>. QED  BY <1>1, <1>2, AheadTypes, PTL DEF Spec

\* The answer is whether `to` lies further on the line than `from`, on any
\* table: Config.Ahead is RoutingTable's Ahead.
THEOREM AheadIsRight == Spec => []WalkIsAhead
<1>1. TypeOK /\ AheadInv => WalkIsAhead
  <2>. SUFFICES ASSUME TypeOK, AheadInv, answer # "walking"
       PROVE  answer = "ahead" <=> IsAhead(from, to)
    BY DEF WalkIsAhead
  <2>1. CASE answer = "ahead"
    <3>1. to # from /\ from \in States /\ s \in States
      BY <2>1 DEF AheadInv, TypeOK, Table
    <3>2. ASSUME NEW S \in SUBSET States, ClosedFrom(from, S) PROVE to \in S
      <4>1. s = from \/ s \in S
        BY <3>1, <3>2 DEF AheadInv
      <4>. QED  BY <2>1, <4>1, <3>2 DEF AheadInv, ClosedFrom
    <3>. QED  BY <2>1, <3>1, <3>2 DEF IsAhead
  <2>2. CASE answer = "not" /\ from \in States /\ to # from
    <3>1. seen \in SUBSET States /\ ClosedFrom(from, seen) /\ to \notin seen
      BY <2>2 DEF AheadInv, Over, ClosedFrom, TypeOK, Table
    <3>. QED  BY <2>2, <3>1 DEF IsAhead
  <2>3. CASE answer = "not" /\ (from \notin States \/ to = from)
    BY <2>3 DEF IsAhead
  <2>. QED  BY <2>1, <2>2, <2>3 DEF TypeOK, Table
<1>. QED  BY <1>1, AheadTypes, AheadSeen, PTL
=============================================================================
