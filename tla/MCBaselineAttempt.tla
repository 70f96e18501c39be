------------------------- MODULE MCBaselineAttempt -------------------------
(***************************************************************************)
(* Four turns of up to two programs.  A call takes three to twelve of the  *)
(* fourteen tokens: the cap is met at the second to fourth call, or never. *)
(***************************************************************************)
EXTENDS BaselineAttempt, TLC

Codes == Permutations(Programs)
=============================================================================
