------------------------ MODULE MCMatrixCoordinator ------------------------
(***************************************************************************)
(* Two cells of two tasks; the budget of a cell admits two attempts at the *)
(* cap, or a third one after two cheap ones, or no second one after an     *)
(* attempt that was found to have used more than its cap.                  *)
(***************************************************************************)
EXTENDS MatrixCoordinator

CONSTANTS c1, c2

MCCells == <<c1, c2>>

Of(tokens, cost) == [token |-> tokens, cost |-> cost]

MCReservation == Of(2, 2)
MCBudget      == Of(4, 5)
MCReports     == {NoReport, Of(1, 1), Of(3, 2)}
=============================================================================
