---------------------------- MODULE MCMergePolicy ----------------------------
EXTENDS MergePolicy
MCKinds ==
    {[here |-> TRUE, own |-> FALSE, barred |-> FALSE],
     [here |-> TRUE, own |-> TRUE, barred |-> FALSE],
     [here |-> TRUE, own |-> TRUE, barred |-> TRUE],
     [here |-> FALSE, own |-> FALSE, barred |-> FALSE],
     [here |-> FALSE, own |-> FALSE, barred |-> TRUE]}
=============================================================================
