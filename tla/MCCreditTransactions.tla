------------------------ MODULE MCCreditTransactions ------------------------
(***************************************************************************)
(* CreditTransactions for TLC: two concurrent sessions, so that every pair *)
(* of operations meets on the row of the same account or hold.             *)
(***************************************************************************)
EXTENDS CreditTransactions

CONSTANTS user, h1, h2, s1, s2

MCAccounts         == {user}
MCHoldIds          == {h1, h2}
MCSessions         == {s1, s2}
MCCosts            == {2, 7}
MCGrantAmounts     == {8}
MCAllowanceAmounts == {12}
=============================================================================
