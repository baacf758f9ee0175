---------------------------- MODULE MCOnboarding ----------------------------
(* Three reports of two instances; metadata with a key and an instance of   *)
(* its own, and without.                                                    *)
EXTENDS Onboarding, TLC

CONSTANTS r1, r2, r3, i1, i2, k1, k2

MCRequests == {r1, r2, r3}
MCInstances == {i1, i2}
MCKeys == {k1, k2}
MCNoField == {Absent}
MCMetadataKeys == {Absent, k2}
MCMetadataInstances == {Absent, i2}

MCSymmetry == Permutations(Requests)
=============================================================================
