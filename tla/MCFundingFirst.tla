--------------------------- MODULE MCFundingFirst ---------------------------
(***************************************************************************)
(* Small instance: three receipts, caps in the code's ratio (soft cap =    *)
(* 100 * receipts, hard cap one percent above), so that three commitments  *)
(* over the hard cap leave a rounding dust of up to two lamports.  Terms   *)
(* that the validation must refuse are offered as well.                    *)
(***************************************************************************)
EXTENDS FundingFirst, TLC

CONSTANTS o1, o2, o3

Terms(s, h) == [soft |-> s, hard |-> h, opensAt |-> 1, funding |-> 1, window |-> 1]

MCOwners == {o1, o2, o3}
MCAmounts == {100, 203}
MCTerms == {Terms(300, 303), Terms(300, 300), Terms(100, 101)}
MCSymmetry == Permutations(MCOwners)
=============================================================================
