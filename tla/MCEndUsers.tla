----------------------------- MODULE MCEndUsers -----------------------------
(***************************************************************************)
(* EndUsers for TLC.                                                       *)
(***************************************************************************)
EXTENDS EndUsers, TLC

CONSTANTS i1, i2, c1, c2, c3

MCIdentities == {i1, i2}
MCCalls      == {c1, c2, c3}
MCSymmetry   == Permutations(MCIdentities) \cup Permutations(MCCalls)
=============================================================================
