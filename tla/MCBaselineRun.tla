--------------------------- MODULE MCBaselineRun ---------------------------
(***************************************************************************)
(* Two invocations over a dataset of two tasks: one task or all of them.   *)
(***************************************************************************)
EXTENDS BaselineRun, TLC

CONSTANTS first, second, empty, part

MCRequests == {[all |-> TRUE, fixtures |-> {}], [all |-> FALSE, fixtures |-> {first}]}

\* A candidate that passed, one that did not, and no usable one.
MCOutcomes ==
    {[dir |-> OneCandidate(part), valid |-> TRUE], [dir |-> OneCandidate(part), valid |-> FALSE],
     [dir |-> OneCandidate(empty), valid |-> TRUE]}

Symmetry == Permutations(Invocations)
=============================================================================
