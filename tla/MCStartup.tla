----------------------------- MODULE MCStartup ------------------------------
(***************************************************************************)
(* Startup for TLC.                                                        *)
(***************************************************************************)
EXTENDS Startup, TLC

CONSTANTS u1, u2, n1, n2, p1, p2, c1, c2, t1

MCUsers  == {u1, u2}
MCNames  == {n1, n2}
MCFiles  == {{n1}, {n1, n2}}
MCPods   == {p1, p2}
MCCalls  == {c1, c2}
MCTokens == {t1}
MCSymmetry == Permutations(MCUsers) \cup Permutations(MCPods)
              \cup Permutations(MCCalls)
=============================================================================
