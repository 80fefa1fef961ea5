--------------------------- MODULE MCChatRequests ---------------------------
(***************************************************************************)
(* ChatRequests for TLC: two requests of one account, an end user's or a   *)
(* service's.                                                              *)
(***************************************************************************)
EXTENDS ChatRequests, TLC

CONSTANTS acct, r1, r2, h1, h2

MCAccounts         == {acct}
MCRequests         == {r1, r2}
MCHoldIds          == {h1, h2}
MCSymmetry         == Permutations(MCRequests) \cup Permutations(MCHoldIds)
MCCosts            == {2, 7}
MCOneCost          == {7}
MCFarApartCosts    == {2, 20}
MCGrantAmounts     == {16}
MCAllowanceAmounts == {12}
MCNone             == {}
=============================================================================
