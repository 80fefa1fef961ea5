---------------------------- MODULE MCRateLimits ----------------------------
(***************************************************************************)
(* An instance of RateLimits: an end user whose requests come through a    *)
(* key that is shared with requests that have no account.                  *)
(***************************************************************************)
EXTENDS RateLimits, TLC

CONSTANTS r1, r2, r3, user, k1

MCRequests == {r1, r2, r3}
MCAccounts == {user}
MCKeys == {k1}
MCKeyLimits == {1}
MCOverrides == {2}
MCSymmetry == Permutations(MCRequests)
=============================================================================
