--------------------------- MODULE MCLineOfStates ---------------------------
(***************************************************************************)
(* The line of states on the table as shipped (routing.default.yaml):      *)
(* blocked, doing, ready, tests, refine, in that order.                    *)
(***************************************************************************)
EXTENDS LineOfStates

MCStates == {"blocked", "doing", "ready", "tests", "refine"}
MCPos  == [blocked |-> 1, doing |-> 2, ready |-> 3, tests |-> 4, refine |-> 5]
MCRole == [blocked |-> "none", doing |-> "none", ready |-> "developer",
           tests |-> "tester", refine |-> "product-owner"]
MCNext == [blocked |-> "none", doing |-> "none", ready |-> "doing",
           tests |-> "ready", refine |-> "tests"]
MCRouted == {"product-owner", "reviewer", "tester", "developer"}
MCMarks == [s \in MCStates |-> IF s = "refine" THEN MarkNames ELSE {}]
\* The moves a run of each role makes: the product owner readies an issue,
\* its refine label off, or takes it back (engine/backlog.go:655,
\* engine/engine.go:2923); the tester sends it on, or back, the labels it
\* saw off (tester/write.go:555, proof.go:116); the developer claims it,
\* lets it go, sends it back or blocks it (developer.go:668, said.go:258,
\* widen.go:303).
MCActs == [r \in MCRouted |->
    CASE r = "product-owner" ->
           {[to |-> "tests", off |-> {"refine", "ready"}, borne |-> FALSE],
            [to |-> "ready", off |-> {"refine"}, borne |-> FALSE],
            [to |-> "refine", off |-> {"ready", "tests", "doing"}, borne |-> FALSE]}
      [] r = "tester" ->
           {[to |-> s, off |-> MCStates \ {s}, borne |-> TRUE] : s \in {"ready", "refine"}}
      [] r = "developer" ->
           {[to |-> "doing", off |-> {"ready"}, borne |-> FALSE],
            [to |-> "ready", off |-> {"doing"}, borne |-> FALSE]}
           \cup {MoveTo(s) : s \in {"blocked", "refine"}}
      [] OTHER -> {}]
MCPersonLabels == {{"refine"}, {"ready"}, {"blocked"}}

\* What the theorems ask of a table and of its roles holds of this one:
\* its first row is Blocked, a claim's state before those that wake a role,
\* refine does not wake the tester, and next has no ring.
ASSUME ShippedTable ==
    /\ BlockedFirst /\ DoingFirst /\ ActsSpare
    /\ Role[Refine] # Tester
    /\ \A s, t \in States : ~(Ahead(s, t) /\ Ahead(t, s))
=============================================================================
