---------------------------- MODULE MCFpContext ----------------------------
(* Three threads under each kernel. *)
EXTENDS FpContext, TLC

CONSTANTS t1, t2, t3
MCThreads == {t1, t2, t3}
Symmetric == Permutations(MCThreads)
MCPolicies == {"eager", "trap", "lazy"}
=============================================================================
