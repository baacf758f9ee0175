------------------------- MODULE PostgresStateStore -------------------------
(***************************************************************************)
(* PostgresControlPlaneStateStore: the whole state is one row, a mutation  *)
(* is one transaction that locks the row, and every call takes one         *)
(* connection of a bounded pool.  Calls of several server processes that   *)
(* share the row differ in nothing but the pool they wait for.             *)
(*                                                                         *)
(* Any query may fail.  When ROLLBACK itself fails the session is dead and *)
(* the database ends it, with its lock, some time later.                   *)
(***************************************************************************)
EXTENDS Integers, Sequences, FiniteSets

CONSTANTS
    Callers,      \* calls of mutate, each made once
    Readers,      \* calls of read, each made once
    PoolSize,     \* connections of the pool (max: 5)
    NoOne         \* the row is not locked

ASSUME CallersAssumption == NoOne \notin Callers
ASSUME ReadersAssumption == Readers \cap Callers = {}
ASSUME PoolSizeAssumption == PoolSize \in Nat \ {0}

VARIABLES
    row,          \* the committed row; the state is the callers it contains
    lock,         \* the session that locked the row or inserted it uncommitted
    clients,      \* the calls that hold a connection of the pool
    pc,           \* where each call is
    work,         \* version and state a transaction read, then what it writes
    inDoubt,      \* sessions whose COMMIT is sent and not yet processed,
                  \* while the call has given up waiting for the answer
    outcome,      \* what each call of mutate has returned
    acked,        \* for a read: the calls that had returned when it began
    view          \* for a read: the callers in the state it returned

vars == <<row, lock, clients, pc, work, outcome, acked, view,
          inDoubt>>

\* The version and the state_json of a row: all that the SQL reads and writes.
Snapshot == [version: Nat, state: Seq(Callers)]
Empty == [version |-> 0, state |-> <<>>]

CallerSteps == {"connect", "begin", "select", "insert", "mutate", "update",
                "commit", "rollback", "releaseOk", "releaseFailed", "done"}
ReaderSteps == {"idle", "connect", "query", "done", "failed"}

\* What parseState finds in a row: the calls whose mutation it contains.
In(snapshot) == {snapshot.state[i] : i \in DOMAIN snapshot.state}

Goto(c, step) == pc' = [pc EXCEPT ![c] = step]

\* ensureBootstrapReady has inserted the row, unless somebody deleted it since.
Init ==
    /\ \E p \in BOOLEAN : row = [present |-> p, version |-> 0, state |-> <<>>]
    /\ lock = NoOne
    /\ clients = {}
    /\ pc = [c \in Callers \cup Readers |-> IF c \in Callers THEN "connect" ELSE "idle"]
    /\ work = [c \in Callers |-> Empty]
    /\ inDoubt = {}
    /\ outcome = [c \in Callers |-> "pending"]
    /\ acked = [d \in Readers |-> {}]
    /\ view = [d \in Readers |-> {}]

-----------------------------------------------------------------------------
(* mutate                                                                  *)

Connect(c) ==
    /\ pc[c] = "connect"
    /\ Cardinality(clients) < PoolSize
    /\ clients' = clients \cup {c}
    /\ Goto(c, "begin")
    /\ UNCHANGED <<row, lock, work, outcome, acked, view, inDoubt>>

\* pool.connect() is outside the try: nothing to roll back or release.
ConnectFails(c) ==
    /\ pc[c] = "connect"
    /\ outcome' = [outcome EXCEPT ![c] = "failed"]
    /\ Goto(c, "done")
    /\ UNCHANGED <<row, lock, clients, work, acked, view, inDoubt>>

Begin(c) ==
    /\ pc[c] = "begin"
    /\ Goto(c, "select")
    /\ UNCHANGED <<row, lock, clients, work, outcome, acked, view, inDoubt>>

\* Mutant: SELECT without FOR UPDATE.
SelectUnlocked(c) ==
    /\ pc[c] = "select"
    /\ row.present
    /\ work' = [work EXCEPT ![c] = [version |-> row.version, state |-> row.state]]
    /\ Goto(c, "mutate")
    /\ UNCHANGED <<row, lock, clients, outcome, acked, view, inDoubt>>

\* SELECT ... FOR UPDATE waits for the lock, then reads the committed row.
SelectForUpdate(c) ==
    /\ pc[c] = "select"
    /\ row.present
    /\ lock = NoOne
    /\ lock' = c
    /\ work' = [work EXCEPT ![c] = [version |-> row.version, state |-> row.state]]
    /\ Goto(c, "mutate")
    /\ UNCHANGED <<row, clients, outcome, acked, view, inDoubt>>

SelectNothing(c) ==
    /\ pc[c] = "select"
    /\ ~row.present
    /\ Goto(c, "insert")
    /\ UNCHANGED <<row, lock, clients, work, outcome, acked, view, inDoubt>>

\* INSERT waits for another uncommitted insert of the key; the second
\* SELECT ... FOR UPDATE then finds the row of this transaction.
InsertRow(c) ==
    /\ pc[c] = "insert"
    /\ ~row.present
    /\ lock = NoOne
    /\ lock' = c
    /\ work' = [work EXCEPT ![c] = Empty]
    /\ Goto(c, "mutate")
    /\ UNCHANGED <<row, clients, outcome, acked, view, inDoubt>>

\* Mutant: the insert overwrites a row that appeared meanwhile.
InsertOverwrites(c) ==
    /\ pc[c] = "insert"
    /\ row.present
    /\ lock = NoOne
    /\ lock' = c
    /\ work' = [work EXCEPT ![c] = Empty]
    /\ Goto(c, "mutate")
    /\ UNCHANGED <<row, clients, outcome, acked, view, inDoubt>>

\* The key exists by now: a unique violation, and the call fails.
InsertConflict(c) ==
    /\ pc[c] = "insert"
    /\ row.present
    /\ Goto(c, "rollback")
    /\ UNCHANGED <<row, lock, clients, work, outcome, acked, view, inDoubt>>

Mutate(c) ==
    /\ pc[c] = "mutate"
    /\ work' = [work EXCEPT ![c].state = Append(@, c)]
    /\ Goto(c, "update")
    /\ UNCHANGED <<row, lock, clients, outcome, acked, view, inDoubt>>

Update(c) ==
    /\ pc[c] = "update"
    /\ work' = [work EXCEPT ![c].version = @ + 1]
    /\ Goto(c, "commit")
    /\ UNCHANGED <<row, lock, clients, outcome, acked, view, inDoubt>>

\* Mutant: the call returns although COMMIT has not taken effect.
CommitNotAwaited(c) ==
    /\ pc[c] = "commit"
    /\ lock' = NoOne
    /\ Goto(c, "releaseOk")
    /\ UNCHANGED <<row, clients, work, outcome, acked, view, inDoubt>>

\* COMMIT takes effect.
Committed(c) ==
    /\ row' = [present |-> TRUE, version |-> work[c].version, state |-> work[c].state]
    /\ lock' = NoOne

Commit(c) ==
    /\ pc[c] = "commit"
    /\ Committed(c)
    /\ Goto(c, "releaseOk")
    /\ UNCHANGED <<clients, work, outcome, acked, view, inDoubt>>

\* The connection fails while COMMIT is under way: the call will throw, and the
\* database processes the COMMIT or not, perhaps after that.
CommitUnanswered(c) ==
    /\ pc[c] = "commit"
    /\ inDoubt' = inDoubt \cup {c}
    /\ Goto(c, "rollback")
    /\ UNCHANGED <<row, lock, clients, work, outcome, acked, view>>

LateCommit(c) ==
    /\ c \in inDoubt
    /\ Committed(c)
    /\ inDoubt' = inDoubt \ {c}
    /\ UNCHANGED <<clients, pc, work, outcome, acked, view>>

\* A query fails, or parseState or the mutator throws.
QueryFails(c) ==
    /\ pc[c] \in {"begin", "select", "insert", "mutate", "update"}
    /\ Goto(c, "rollback")
    /\ UNCHANGED <<row, lock, clients, work, outcome, acked, view, inDoubt>>

\* A ROLLBACK that is answered comes after the COMMIT before it, if any.
Rollback(c) ==
    /\ pc[c] = "rollback"
    /\ lock' = IF lock = c THEN NoOne ELSE lock
    /\ inDoubt' = inDoubt \ {c}
    /\ Goto(c, "releaseFailed")
    /\ UNCHANGED <<row, clients, work, outcome, acked, view>>

RollbackFails(c) ==
    /\ pc[c] = "rollback"
    /\ Goto(c, "releaseFailed")
    /\ UNCHANGED <<row, lock, clients, work, outcome, acked, view, inDoubt>>

\* The database notices that the session is gone.
SessionEnds(c) ==
    /\ pc[c] \in {"rollback", "releaseFailed", "done"}
    /\ lock = c
    /\ lock' = NoOne
    /\ inDoubt' = inDoubt \ {c}
    /\ UNCHANGED <<row, clients, pc, work, outcome, acked, view>>

\* Mutant: the connection is released on the success path only.
ReleaseOnSuccess(c) ==
    /\ pc[c] \in {"releaseOk", "releaseFailed"}
    /\ clients' = IF pc[c] = "releaseOk" THEN clients \ {c} ELSE clients
    /\ outcome' = [outcome EXCEPT ![c] = IF pc[c] = "releaseOk" THEN "ok" ELSE "failed"]
    /\ Goto(c, "done")
    /\ UNCHANGED <<row, lock, work, acked, view, inDoubt>>

\* finally: release, and return or throw.
Release(c) ==
    /\ pc[c] \in {"releaseOk", "releaseFailed"}
    /\ clients' = clients \ {c}
    /\ outcome' = [outcome EXCEPT ![c] = IF pc[c] = "releaseOk" THEN "ok" ELSE "failed"]
    /\ Goto(c, "done")
    /\ UNCHANGED <<row, lock, work, acked, view, inDoubt>>

-----------------------------------------------------------------------------
(* read: one query on a pooled connection, which never waits for the lock. *)

ReadBegin(d) ==
    /\ pc[d] = "idle"
    /\ acked' = [acked EXCEPT ![d] = {c \in Callers : outcome[c] = "ok"}]
    /\ Goto(d, "connect")
    /\ UNCHANGED <<row, lock, clients, work, outcome, view, inDoubt>>

ReadConnect(d) ==
    /\ pc[d] = "connect"
    /\ Cardinality(clients) < PoolSize
    /\ clients' = clients \cup {d}
    /\ Goto(d, "query")
    /\ UNCHANGED <<row, lock, work, outcome, acked, view, inDoubt>>

ReadQuery(d) ==
    /\ pc[d] = "query"
    /\ view' = [view EXCEPT ![d] = In(row)]
    /\ clients' = clients \ {d}
    /\ Goto(d, "done")
    /\ UNCHANGED <<row, lock, work, outcome, acked, inDoubt>>

\* The pool gives no connection, the query fails, or parseState throws; the pool
\* takes its connection back.
ReadFails(d) ==
    /\ pc[d] \in {"connect", "query"}
    /\ clients' = clients \ {d}
    /\ Goto(d, "failed")
    /\ UNCHANGED <<row, lock, work, outcome, acked, view, inDoubt>>

-----------------------------------------------------------------------------
\* The steps that a working database takes; the failures are not among them.
Progress(c) ==
    \/ Connect(c) \/ Begin(c)
    \/ SelectForUpdate(c) \/ SelectNothing(c) \/ InsertRow(c) \/ InsertConflict(c)
    \/ Mutate(c) \/ Update(c) \/ Commit(c)
    \/ Rollback(c) \/ Release(c)

Failure(c) == \/ ConnectFails(c) \/ QueryFails(c) \/ CommitUnanswered(c)
              \/ RollbackFails(c)

\* What the database does with the session of a call that failed.
Aftermath(c) == LateCommit(c) \/ SessionEnds(c)

Read(d) == ReadBegin(d) \/ ReadConnect(d) \/ ReadQuery(d)

\* A call has returned or thrown.
Settled(c) == pc[c] \in {"done", "failed"}

AllDone == \A c \in Callers \cup Readers : Settled(c)

Next ==
    \/ \E c \in Callers : Progress(c) \/ Failure(c) \/ Aftermath(c)
    \/ \E d \in Readers : Read(d) \/ ReadFails(d)

Spec == Init /\ [][Next]_vars

\* Queries are answered, or fail, and dead sessions are noticed.  Nothing is
\* assumed of who gets a free connection or the lock next: each call is made
\* once, so whoever waits is left alone with it in the end.
Fairness ==
    /\ \A c \in Callers : WF_vars(Progress(c)) /\ WF_vars(Aftermath(c))
    /\ \A d \in Readers : WF_vars(Read(d))

FairSpec == Spec /\ Fairness

-----------------------------------------------------------------------------
(* Properties                                                              *)

\* Every variable has its type, and the pool never exceeds its limit.
TypeOK ==
    /\ row \in [present: BOOLEAN, version: Nat, state: Seq(Callers)]
    /\ lock \in Callers \cup {NoOne}
    /\ clients \subseteq Callers \cup Readers
    /\ Cardinality(clients) <= PoolSize
    /\ pc \in [Callers \cup Readers -> CallerSteps \cup ReaderSteps]
    /\ work \in [Callers -> Snapshot]
    /\ inDoubt \subseteq Callers
    /\ outcome \in [Callers -> {"pending", "ok", "failed"}]
    /\ acked \in [Readers -> SUBSET Callers]
    /\ view \in [Readers -> SUBSET Callers]

\* The state a mutator and its UPDATE work on is the committed one plus that
\* mutator, up to COMMIT: nobody commits between a transaction's read and its
\* write, also when rows are created on the fly, rollbacks fail, or a COMMIT
\* is processed after its call has thrown.
CopyIsFresh ==
    \A c \in Callers :
        /\ pc[c] \in {"mutate", "update", "commit"} => lock = c
        /\ pc[c] = "mutate" => work[c] = [version |-> row.version, state |-> row.state]
        /\ pc[c] \in {"update", "commit"} => work[c].state = Append(row.state, c)
        /\ c \in inDoubt => lock = c /\ work[c].state = Append(row.state, c)

\* A read that begins after a mutate has returned sees its effect, and a read
\* never sees an effect that is not committed.
ReadYourWrites ==
    \A d \in Readers :
        pc[d] = "done" => acked[d] \subseteq view[d] /\ view[d] \subseteq In(row)

\* The store keeps the promise of AtomicStore: no update is lost, applied
\* twice, or reported before it is durable.
Atomic == INSTANCE AtomicStore WITH state <- row.state
AtomicSpec == Atomic!Spec

\* A call waits for a connection of the pool, or for the lock of the row, also
\* while it holds a connection.
Waits(c) ==
    \/ pc[c] = "connect" /\ Cardinality(clients) >= PoolSize
    \/ pc[c] = "select" /\ row.present /\ lock # NoOne
    \/ pc[c] = "insert" /\ ~row.present /\ lock # NoOne

\* Never does everyone wait for everyone, even if calls that wait for the lock
\* have taken the last connections: somebody who does not wait holds what the
\* others wait for, or the database still has to end a session that does.
NobodyIsStuck ==
    \/ AllDone
    \/ \E c \in Callers \cup Readers : ~Settled(c) /\ ~Waits(c)
    \/ \E c \in Callers : lock = c /\ pc[c] \in {"rollback", "releaseFailed", "done"}

\* With the failures the code handles, every mutate and every read returns or
\* throws: a lock or a connection that a failed call leaves behind
\* never starves the others.
EveryCallSettles ==
    \A c \in Callers \cup Readers : <>Settled(c)
=============================================================================
