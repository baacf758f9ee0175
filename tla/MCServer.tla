------------------------------ MODULE MCServer ------------------------------
(* Two handlers and one tenant; both APIs are enabled, or neither is.       *)
EXTENDS Server, TLC

CONSTANTS r1, r2, t1

MCRequests == {r1, r2}
MCTenants == {t1}
MCConfigurations ==
    {[adminApi |-> TRUE, adminToken |-> TRUE, internalApi |-> TRUE, internalToken |-> TRUE],
     [adminApi |-> FALSE, adminToken |-> TRUE, internalApi |-> FALSE, internalToken |-> FALSE]}
MCSymmetry == Permutations(MCRequests)
=============================================================================
