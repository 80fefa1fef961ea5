--------------------------- MODULE MCCreditLedger ---------------------------
(***************************************************************************)
(* CreditLedger for TLC: one ordinary and one allowance-managed account    *)
(* (so accounts are not interchangeable), two or three hold ids, amounts   *)
(* that are exact, half a tick and above the half.                         *)
(***************************************************************************)
EXTENDS CreditLedger, TLC

CONSTANTS plain, user, h1, h2

MCAccounts         == {plain, user}
MCManaged          == {user}
MCHoldIds          == {h1, h2}
MCCosts            == {2, 7}
MCGrantAmounts     == {8, -2}
MCAllowanceAmounts == {0, 8}
MCSymmetry         == Permutations(MCHoldIds)
=============================================================================
