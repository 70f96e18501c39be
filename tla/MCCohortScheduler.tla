------------------------- MODULE MCCohortScheduler -------------------------
(***************************************************************************)
(* Two fixtures; an attempt may use two tokens, two dollars' worth at the  *)
(* higher rate, and report one more; the budget admits two whole           *)
(* reservations and a bit.  The contents of candidates are only compared,  *)
(* so any two of them may change places.                                   *)
(***************************************************************************)
EXTENDS CohortScheduler, TLC

CONSTANTS t1, t2

MCFixtures == <<t1, t2>>

Of(tokens, cost) == [token |-> tokens, cost |-> cost]

MCReservation == Of(2, 4)
MCBudget      == Of(5, 8)

\* tokens at the lower or at the higher rate
MCCharges == {Of(1, 1), Of(2, 4)}

\* up to the cap, and up to one token more
MCWithinCap == {Of(tokens, cost) : tokens \in 1 .. 2, cost \in 1 .. 4}
MCPastCap   == {Of(tokens, cost) : tokens \in 1 .. 3, cost \in 1 .. 8}

HashSymmetry == Permutations(Hashes)
=============================================================================
