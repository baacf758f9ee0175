--------------------------- MODULE SecretLifecycle ---------------------------
(***************************************************************************)
(* What an administrator and a client are promised of the secrets of one   *)
(* instance: versions are issued one after the other, one is on trial at a *)
(* time, the client shows that it holds it before it becomes the current   *)
(* one, the one before is revoked in that instant, and revocation is for   *)
(* good.                                                                   *)
(*                                                                         *)
(* Handlers, audit records and the clock (an overlap that has run out only *)
(* denies mints) are not part of the promise.                              *)
(***************************************************************************)
EXTENDS Integers

CONSTANT Versions     \* sv_1, sv_2, ... as 1, 2, ...

VARIABLES
    life,             \* where each version is in its life
    known             \* versions whose secret the client has received

vars == <<life, known>>

OnTrial == {"pending", "adopted"}

\* Enrolment issued the first version.
Init == /\ life = [v \in Versions |-> IF v = 1 THEN "current" ELSE "unissued"]
        /\ known \in {{}, {1}}

Issue(v) == /\ life[v] = "unissued"
            /\ v - 1 \in Versions /\ life[v - 1] # "unissued"
            /\ \A w \in Versions : life[w] \notin OnTrial
            /\ life' = [life EXCEPT ![v] = "pending"]
            /\ UNCHANGED known

Deliver(v) == /\ life[v] # "unissued"
              /\ known' = known \cup {v}
              /\ UNCHANGED life

Adopt(v) == /\ life[v] = "pending"
            /\ v \in known
            /\ life' = [life EXCEPT ![v] = "adopted"]
            /\ UNCHANGED known

Promote(v) == /\ life[v] = "adopted"
              /\ life' = [w \in Versions |-> IF w = v THEN "current"
                                             ELSE IF life[w] = "current" THEN "revoked"
                                             ELSE life[w]]
              /\ UNCHANGED known

\* Of any version, the current one included: the client is then locked out.
Revoke(v) == /\ life[v] # "unissued"
             /\ life' = [life EXCEPT ![v] = "revoked"]
             /\ UNCHANGED known

Next == \E v \in Versions : Issue(v) \/ Deliver(v) \/ Adopt(v) \/ Promote(v) \/ Revoke(v)

Spec == Init /\ [][Next]_vars
=============================================================================
