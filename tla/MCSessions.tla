----------------------------- MODULE MCSessions -----------------------------
(***************************************************************************)
(* Sessions for TLC: two users, two sessions, three concurrent requests.   *)
(***************************************************************************)
EXTENDS Sessions, TLC

CONSTANTS u1, u2, t1, t2, c1, c2, c3

MCUsers    == {u1, u2}
MCTokens   == {t1, t2}
MCCalls    == {c1, c2, c3}
MCSymmetry == Permutations(MCUsers) \cup Permutations(MCTokens)
                                   \cup Permutations(MCCalls)
=============================================================================
