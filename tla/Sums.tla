-------------------------------- MODULE Sums --------------------------------
(***************************************************************************)
(* Sums over the tasks of a cohort and the cells of a matrix: what the     *)
(* loops of _recalculate_usage (scheduler.py) and _recalculate (matrix.py) *)
(* add up, as recursive functions on the positions of a sequence, which    *)
(* SumTheorems proves about.                                               *)
(***************************************************************************)
EXTENDS Naturals, Sequences

\* f[1] + ... + f[n]
SumTo(f, n) ==
    LET upto[k \in 0 .. n] == IF k = 0 THEN 0 ELSE upto[k - 1] + f[k]
    IN  upto[n]

SumSeq(seq) == SumTo(seq, Len(seq))

\* All numbers in the sequences that `of' gives for the members of `order'.
SumAll(of, order) == SumSeq([i \in 1 .. Len(order) |-> SumSeq(of[order[i]])])
=============================================================================
