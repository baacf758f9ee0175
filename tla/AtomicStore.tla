----------------------------- MODULE AtomicStore -----------------------------
(***************************************************************************)
(* What every service of the control plane relies on when it calls         *)
(* ControlPlaneStateStore.mutate: the mutator is applied to the state in   *)
(* one instant, at most once, on top of everything applied before; a call  *)
(* that returned was applied before it did; a call that threw may have     *)
(* been, or may yet be (its commit was under way).                         *)
(*                                                                         *)
(* The state is the sequence of the callers whose mutator it contains.     *)
(***************************************************************************)
EXTENDS Sequences

CONSTANT Callers      \* calls of mutate, each made once

VARIABLES
    state,            \* callers applied, in order
    outcome           \* what each call has returned

vars == <<state, outcome>>

Outcomes == {"pending", "ok", "failed"}

Applied(c) == \E i \in DOMAIN state : state[i] = c

Init == /\ state = <<>>
        /\ outcome = [c \in Callers |-> "pending"]

Apply(c) == /\ outcome[c] # "ok"
            /\ ~Applied(c)
            /\ state' = Append(state, c)
            /\ UNCHANGED outcome

Return(c) == /\ outcome[c] = "pending"
             /\ Applied(c)
             /\ outcome' = [outcome EXCEPT ![c] = "ok"]
             /\ UNCHANGED state

Fail(c) == /\ outcome[c] = "pending"
           /\ outcome' = [outcome EXCEPT ![c] = "failed"]
           /\ UNCHANGED state

Next == \E c \in Callers : Apply(c) \/ Return(c) \/ Fail(c)

Spec == Init /\ [][Next]_vars

-----------------------------------------------------------------------------
(* Properties                                                              *)

\* No call is applied twice, and one that has returned is applied.
Promise ==
    /\ \A i, j \in DOMAIN state : state[i] = state[j] => i = j
    /\ \A c \in Callers : outcome[c] = "ok" => Applied(c)

\* A step: what is applied stays so, in the order in which it was.
Grows == /\ DOMAIN state \subseteq DOMAIN state'
         /\ \A i \in DOMAIN state : state'[i] = state[i]
=============================================================================
