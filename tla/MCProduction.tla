--------------------------- MODULE MCProduction ----------------------------
(***************************************************************************)
(* A dataset of five tasks, one of them done: two batches of two.  A file  *)
(* of the dataset may change its size.                                     *)
(***************************************************************************)
EXTENDS Production

CONSTANTS good, bad, none

Task(family, score, sizes) == [family |-> family, score |-> score, sizes |-> sizes]

MCPublished ==
    <<Task("generation", 1, 1), Task("editing", 1, 1), Task("editing", 2, 1),
      Task("generation", 2, 1), Task("editing", 3, 1)>>

MCDatasets ==
    {[MCPublished EXCEPT ![5].sizes = 2]}

\* The verified run with one cohort or with both, in which tasks may be missing.
MCSources == {{"base", "batch-01"}, {"base", "batch-01", "batch-02"}}

\* Not drafts, for which nothing is promised.
MCPackageOptions == [incomplete : {FALSE}, given : BOOLEAN, checked : BOOLEAN]
=============================================================================
