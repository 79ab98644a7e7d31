----------------------------- MODULE MCApplyRun -----------------------------
(***************************************************************************)
(* Runs as the shipped roles leave them, in intent.SortForApply's order: a *)
(* reviewer's or a product owner's words, a documentalist's diff, a        *)
(* tester's answer to an objection, a developer's green Draft, its claim   *)
(* and its merge request.                                                  *)
(***************************************************************************)
EXTENDS ApplyRun

MCRuns ==
    {[mode |-> "said",  intents |-> <<"label", "comment", "issue", "issue">>],
     [mode |-> "patch", intents |-> <<"diff", "comment">>],
     [mode |-> "push",  intents |-> <<"whole", "reply", "comment">>],
     [mode |-> "ready", intents |-> <<"comment">>],
     [mode |-> "open",  intents |-> <<"diff", "whole", "label", "comment">>]}
=============================================================================
