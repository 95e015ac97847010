------------------------- MODULE MCWinnerSelection -------------------------
(* Small instances of WinnerSelection. *)
EXTENDS WinnerSelection, TLC

CONSTANTS a1, a2, c1, c2, c3

OneScore == a1 :> 1

\* The first agent to bid need not be the best.
RisingScore == a1 :> 1 @@ a2 :> 2

CallSymmetry == Permutations(Calls)
=============================================================================
