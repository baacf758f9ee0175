---------------------------- MODULE MCEnrollment ----------------------------
(* Two handlers, two instances and two codes: both codes may be for one    *)
(* instance, and both handlers may present the same code.                  *)
EXTENDS Enrollment, TLC

CONSTANTS r1, r2, i1, i2, code1, code2, cli1, cli2

MCRequests == {r1, r2}
MCInstances == {i1, i2}
MCCodes == {code1, code2}
MCClientIds == {cli1, cli2}
MCTtls == {1}

MCSymmetry == Permutations(Requests) \cup Permutations(Instances)
                \cup Permutations(Codes) \cup Permutations(ClientIds)
=============================================================================
