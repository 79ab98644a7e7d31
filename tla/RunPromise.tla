----------------------------- MODULE RunPromise -----------------------------
(***************************************************************************)
(* What the apply of a role's run promises (docs/spec/role-contract.md,    *)
(* "When apply stops half-way"), whatever stops it and however often it is *)
(* applied: each thing the run asks for is done and stays done, what must  *)
(* come first is there before the rest, and a run says it passed only when *)
(* all of it is there, but for what may be given up.                       *)
(***************************************************************************)
VARIABLES asked,  \* what the run asks for
          first,  \* what of it must come before all the rest
          may,    \* what of it may be given up
          done,   \* what is there
          left,   \* what is given up
          passed  \* whether the run says it passed

pvars == <<asked, first, may, done, left, passed>>

Init ==
    /\ first \subseteq asked /\ may \subseteq asked
    /\ done = {} /\ left = {} /\ passed = FALSE

\* One thing more, once what comes first is there.
Effect ==
    /\ \E i \in asked \ done : (i \notin first => first \subseteq done) /\ done' = done \cup {i}
    /\ UNCHANGED <<asked, first, may, left, passed>>

GiveUp ==
    /\ left' \in SUBSET may
    /\ passed => asked \subseteq done \cup left'
    /\ UNCHANGED <<asked, first, may, done, passed>>

Pass ==
    /\ ~passed /\ asked \subseteq done \cup left /\ passed' = TRUE
    /\ UNCHANGED <<asked, first, may, done, left>>

\* Applied again: it may stop before its end this time.
Again ==
    /\ passed /\ passed' = FALSE /\ left' \in SUBSET may
    /\ UNCHANGED <<asked, first, may, done>>

Next == Effect \/ GiveUp \/ Pass \/ Again
Spec == Init /\ [][Next]_pvars
=============================================================================
