------------------------- MODULE InMemoryStateStore -------------------------
(***************************************************************************)
(* InMemoryControlPlaneStateStore: mutate clones the state, runs the       *)
(* mutator on the clone, awaits its result and assigns the clone.  The     *)
(* await gives up the event loop also when the mutator is synchronous, so  *)
(* two calls made in one turn of the loop both clone the same state.       *)
(*                                                                         *)
(* As in AtomicStore the state is the sequence of callers it contains.     *)
(* No name is one of PostgresStateStore: StateStoreProofs extends both.    *)
(***************************************************************************)
EXTENDS Sequences, SequencesExt

CONSTANT Calls         \* calls of mutate, each made once

VARIABLES
    state,            \* this.state
    copy,             \* workingState of each call, with its mutator applied
    turn,             \* idle, awaiting its mutator, assigned, or done
    answer,           \* what each call has returned
    met               \* history: calls that awaited while another one did

memoryVars == <<state, copy, turn, answer, met>>

MemoryInit == /\ state = <<>>
              /\ copy = [c \in Calls |-> <<>>]
              /\ turn = [c \in Calls |-> "idle"]
              /\ answer = [c \in Calls |-> "pending"]
              /\ met = {}

Awaiting == {c \in Calls : turn[c] = "awaiting"}

\* Clone and mutator, up to the await.
Clone(c) == /\ turn[c] = "idle"
            /\ copy' = [copy EXCEPT ![c] = Append(state, c)]
            /\ turn' = [turn EXCEPT ![c] = "awaiting"]
            /\ met' = IF Awaiting = {} THEN met ELSE met \cup Awaiting \cup {c}
            /\ UNCHANGED <<state, answer>>

\* Mutant: what is assigned is the clone without the mutator's changes.
AssignUnchanged(c) == /\ turn[c] = "awaiting"
                      /\ state' = Front(copy[c])
                      /\ turn' = [turn EXCEPT ![c] = "assigned"]
                      /\ UNCHANGED <<copy, answer, met>>

Assign(c) == /\ turn[c] = "awaiting"
             /\ state' = copy[c]
             /\ turn' = [turn EXCEPT ![c] = "assigned"]
             /\ UNCHANGED <<copy, answer, met>>

\* The caller resumes from its await of mutate.
Resolve(c) == /\ turn[c] = "assigned"
              /\ turn' = [turn EXCEPT ![c] = "done"]
              /\ answer' = [answer EXCEPT ![c] = "ok"]
              /\ UNCHANGED <<state, copy, met>>

\* Mutant: the assignment happens before the mutator's failure is known.
ThrowAfterAssign(c) == /\ turn[c] = "awaiting"
                       /\ state' = copy[c]
                       /\ turn' = [turn EXCEPT ![c] = "done"]
                       /\ answer' = [answer EXCEPT ![c] = "failed"]
                       /\ UNCHANGED <<copy, met>>

\* The mutator throws, or its promise rejects: the clone is dropped.
Throw(c) == /\ turn[c] = "awaiting"
            /\ turn' = [turn EXCEPT ![c] = "done"]
            /\ answer' = [answer EXCEPT ![c] = "failed"]
            /\ UNCHANGED <<state, copy, met>>

MemoryNext == \E c \in Calls : Clone(c) \/ Assign(c) \/ Resolve(c) \/ Throw(c)

MemorySpec == MemoryInit /\ [][MemoryNext]_memoryVars

-----------------------------------------------------------------------------
(* Properties                                                              *)

Promised == INSTANCE AtomicStore WITH Callers <- Calls, outcome <- answer

\* As long as no two calls of mutate have overlapped, the store keeps the
\* promise of AtomicStore, and one that throws leaves nothing of its clone
\* behind.
AtomicWhileAlone == Promised!Init /\ [][met' = {} => Promised!Next]_(Promised!vars)

\* "append-only auth audit stream" (CODE_SUMMARY.md), for what it is worth here:
\* a record whose call returned is missing only if that call was awaiting its
\* mutator while another one was.
LossNeedsOverlap ==
    \A c \in Calls : answer[c] = "ok" /\ ~Promised!Applied(c) => c \in met
=============================================================================
