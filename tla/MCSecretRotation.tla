-------------------------- MODULE MCSecretRotation --------------------------
(* A small instance of SecretRotation for TLC.                             *)
EXTENDS SecretRotation, TLC

CONSTANTS r1, r2, r3

MCTwoRequests == {r1, r2}
MCThreeRequests == {r1, r2, r3}
MCOverlaps == {1}

\* Requests are interchangeable in every definition.
MCSymmetry == Permutations(Requests)
=============================================================================
