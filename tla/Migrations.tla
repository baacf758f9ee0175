----------------------------- MODULE Migrations -----------------------------
(***************************************************************************)
(* runPostgresPersistenceMigrations: runs of the migration program, started *)
(* at any time and from any release, against one database; and servers that *)
(* start, use the state and restart meanwhile.                              *)
(*                                                                         *)
(* A run works on one connection.  The connection may break and the program *)
(* may die at any step: the database still finishes the query it was sent,  *)
(* and ends the session, with its transaction and its lock, later.          *)
(***************************************************************************)
EXTENDS Integers, Sequences, FiniteSets, SequencesExt

CONSTANTS
    Runs,         \* runs of the program
    Servers,      \* servers that share the database
    Ids,          \* migration ids, in the order of their file names
    Baseline,     \* 0001: creates acp_state_snapshots and its row
    Checksums,
    None,         \* a migration that is not recorded
    NoOne,        \* the advisory lock is free
    Releases      \* what a migrations directory may hold: id -> checksum

ASSUME IdsAssumption == Ids \subseteq Nat /\ IsFiniteSet(Ids) /\ Baseline \in Ids
ASSUME NoneAssumption == None \notin Checksums /\ NoOne \notin Runs
ASSUME ReleasesAssumption ==
    \A f \in Releases : DOMAIN f \in (SUBSET Ids) \ {{}} /\ f \in [DOMAIN f -> Checksums]

VARIABLES
    table,        \* acp_schema_migrations exists
    recorded,     \* its rows: id -> checksum
    schema,       \* the migrations whose SQL is committed, in that order
    lock,         \* the session that holds the advisory lock
    session,      \* the database's session of each run
    sent,         \* the query that a broken session still processes
    tx,           \* what the open transaction of each session has done
    pc,           \* the next query of each run
    files,        \* the release of each run
    todo,         \* files that the loop has not reached, this one included
    known,        \* appliedById
    failed,       \* an error is on its way out of the run
    outcome,      \* how each run ended
    row,          \* the state row that servers share
    server        \* what each server is doing

database == <<table, recorded, schema, lock, session, sent, tx, row>>
program == <<pc, files, todo, known, failed, outcome>>
vars == <<database, program, server>>

Queries == {"create", "creating", "lock", "list", "next", "sql", "insert",
            "commit", "rollback", "unlock", "end"}

Goto(r, step) == pc' = [pc EXCEPT ![r] = step]

\* The first file that the loop has not finished.
Current(r) == CHOOSE m \in todo[r] : \A k \in todo[r] : m <= k

Init ==
    /\ table = FALSE
    /\ recorded = [m \in Ids |-> None]
    /\ schema = <<>>
    /\ lock = NoOne
    /\ session = [r \in Runs |-> "none"]
    /\ sent = [r \in Runs |-> "nothing"]
    /\ tx = [r \in Runs |-> "none"]
    /\ pc = [r \in Runs |-> "load"]
    /\ files \in [Runs -> Releases]
    /\ todo = [r \in Runs |-> {}]
    /\ known = [r \in Runs |-> recorded]
    /\ failed = [r \in Runs |-> FALSE]
    /\ outcome = [r \in Runs |-> "pending"]
    /\ row = "absent"
    /\ server = [s \in Servers |-> "start"]

-----------------------------------------------------------------------------
(* A run, one action per query                                             *)

\* loadMigrationFiles, and a connection.
Connect(r) ==
    /\ pc[r] = "load"
    /\ session' = [session EXCEPT ![r] = "open"]
    /\ Goto(r, "create")
    /\ UNCHANGED <<table, recorded, schema, lock, sent, tx, row, files, todo, known, failed, outcome, server>>

\* An unreadable file or name, or no connection: nothing to clean up.
ConnectFails(r) ==
    /\ pc[r] = "load"
    /\ outcome' = [outcome EXCEPT ![r] = "failed"]
    /\ Goto(r, "done")
    /\ UNCHANGED <<database, files, todo, known, failed, server>>

\* CREATE TABLE IF NOT EXISTS looks for the table first ...
LookForTable(r) ==
    /\ pc[r] = "create"
    /\ session[r] = "open"
    /\ Goto(r, IF table THEN "lock" ELSE "creating")
    /\ UNCHANGED <<database, files, todo, known, failed, outcome, server>>

\* ... and then creates it, unless another session has done so meanwhile.
CreateTable(r) ==
    /\ pc[r] = "creating"
    /\ session[r] = "open"
    /\ ~table
    /\ table' = TRUE
    /\ Goto(r, "lock")
    /\ UNCHANGED <<recorded, schema, lock, session, sent, tx, row, files, todo, known, failed, outcome, server>>

CreationCollides(r) ==
    /\ pc[r] = "creating"
    /\ session[r] = "open"
    /\ table
    /\ failed' = [failed EXCEPT ![r] = TRUE]
    /\ Goto(r, "unlock")
    /\ UNCHANGED <<database, files, todo, known, outcome, server>>

\* Mutant: the lock is asked for and not waited for.
LockNotAwaited(r) ==
    /\ pc[r] = "lock"
    /\ session[r] = "open"
    /\ lock' = IF lock = NoOne THEN r ELSE lock
    /\ Goto(r, "list")
    /\ UNCHANGED <<table, recorded, schema, session, sent, tx, row, files, todo, known, failed, outcome, server>>

AdvisoryLock(r) ==
    /\ pc[r] = "lock"
    /\ session[r] = "open"
    /\ lock = NoOne
    /\ lock' = r
    /\ Goto(r, "list")
    /\ UNCHANGED <<table, recorded, schema, session, sent, tx, row, files, todo, known, failed, outcome, server>>

ListApplied(r) ==
    /\ pc[r] = "list"
    /\ session[r] = "open"
    /\ known' = [known EXCEPT ![r] = recorded]
    /\ todo' = [todo EXCEPT ![r] = DOMAIN files[r]]
    /\ Goto(r, "next")
    /\ UNCHANGED <<database, files, failed, outcome, server>>

\* Mutant: only the id of an applied migration is compared.
IsAppliedById(r) == known[r][Current(r)] # None

\* The loop's first test: this file is recorded, with this checksum.
IsApplied(r) == known[r][Current(r)] = files[r][Current(r)]

Skip(r) ==
    /\ pc[r] = "next"
    /\ todo[r] # {}
    /\ IsApplied(r)
    /\ todo' = [todo EXCEPT ![r] = @ \ {Current(r)}]
    /\ UNCHANGED <<database, pc, files, known, failed, outcome, server>>

ChecksumMismatch(r) ==
    /\ pc[r] = "next"
    /\ todo[r] # {}
    /\ known[r][Current(r)] # None
    /\ ~IsApplied(r)
    /\ failed' = [failed EXCEPT ![r] = TRUE]
    /\ Goto(r, "unlock")
    /\ UNCHANGED <<database, files, todo, known, outcome, server>>

Begin(r) ==
    /\ pc[r] = "next"
    /\ session[r] = "open"
    /\ todo[r] # {}
    /\ known[r][Current(r)] = None
    /\ tx' = [tx EXCEPT ![r] = "open"]
    /\ Goto(r, "sql")
    /\ UNCHANGED <<table, recorded, schema, lock, session, sent, row, files, todo, known, failed, outcome, server>>

\* Mutant: the SQL is not part of the transaction.
RunSqlAtOnce(r) ==
    /\ pc[r] = "sql"
    /\ session[r] = "open"
    /\ schema' = Append(schema, Current(r))
    /\ tx' = [tx EXCEPT ![r] = "sql"]
    /\ Goto(r, "insert")
    /\ UNCHANGED <<table, recorded, lock, session, sent, row, files, todo, known, failed, outcome, server>>

RunSql(r) ==
    /\ pc[r] = "sql"
    /\ session[r] = "open"
    /\ tx' = [tx EXCEPT ![r] = "sql"]
    /\ Goto(r, "insert")
    /\ UNCHANGED <<table, recorded, schema, lock, session, sent, row, files, todo, known, failed, outcome, server>>

\* An insert of the same key that is not committed yet is waited for.
InsertRow(r) ==
    /\ pc[r] = "insert"
    /\ session[r] = "open"
    /\ recorded[Current(r)] = None
    /\ ~\E o \in Runs \ {r} : tx[o] = "row" /\ Current(o) = Current(r)
    /\ tx' = [tx EXCEPT ![r] = "row"]
    /\ Goto(r, "commit")
    /\ UNCHANGED <<table, recorded, schema, lock, session, sent, row, files, todo, known, failed, outcome, server>>

\* COMMIT takes effect.
Committed(r) ==
    /\ recorded' = [recorded EXCEPT ![Current(r)] = files[r][Current(r)]]
    /\ schema' = Append(schema, Current(r))
    /\ tx' = [tx EXCEPT ![r] = "none"]
    /\ row' = IF Current(r) = Baseline /\ row = "absent" THEN "empty" ELSE row

Commit(r) ==
    /\ pc[r] = "commit"
    /\ session[r] = "open"
    /\ Committed(r)
    /\ todo' = [todo EXCEPT ![r] = @ \ {Current(r)}]
    /\ Goto(r, "next")
    /\ UNCHANGED <<table, lock, session, sent, files, known, failed, outcome, server>>

\* The loop is over.
AllApplied(r) ==
    /\ pc[r] = "next"
    /\ todo[r] = {}
    /\ Goto(r, "unlock")
    /\ UNCHANGED <<database, files, todo, known, failed, outcome, server>>

\* Mutant: a migration that fails is rolled back and the loop goes on.
RollbackAndContinue(r) ==
    /\ pc[r] = "rollback"
    /\ session[r] = "open"
    /\ tx' = [tx EXCEPT ![r] = "none"]
    /\ todo' = [todo EXCEPT ![r] = @ \ {Current(r)}]
    /\ Goto(r, "next")
    /\ UNCHANGED <<table, recorded, schema, lock, session, sent, row, files, known, failed, outcome, server>>

Rollback(r) ==
    /\ pc[r] = "rollback"
    /\ session[r] = "open"
    /\ tx' = [tx EXCEPT ![r] = "none"]
    /\ Goto(r, "unlock")
    /\ UNCHANGED <<table, recorded, schema, lock, session, sent, row, files, todo, known, failed, outcome, server>>

RollbackFails(r) ==
    /\ pc[r] = "rollback"
    /\ session[r] # "open"
    /\ Goto(r, "unlock")
    /\ UNCHANGED <<database, files, todo, known, failed, outcome, server>>

\* Mutant: only a run that succeeded cleans up (no finally).
EndOnSuccess(r) ==
    /\ pc[r] = "unlock"
    /\ IF failed[r] THEN UNCHANGED lock
                    ELSE lock' = IF session[r] = "open" /\ lock = r THEN NoOne ELSE lock
    /\ Goto(r, IF failed[r] THEN "done" ELSE "end")
    /\ outcome' = [outcome EXCEPT ![r] = IF failed[r] THEN "failed" ELSE @]
    /\ UNCHANGED <<table, recorded, schema, session, sent, tx, row, files, todo, known, failed, server>>

\* A lock that is not held is not released, and a failure is swallowed.
Unlock(r) ==
    /\ pc[r] = "unlock"
    /\ \/ lock' = IF session[r] = "open" /\ lock = r THEN NoOne ELSE lock
       \/ UNCHANGED lock
    /\ Goto(r, "end")
    /\ UNCHANGED <<table, recorded, schema, session, sent, tx, row, files, todo, known, failed, outcome, server>>

\* pool.end(): the session is closed from this side.
End(r) ==
    /\ pc[r] = "end"
    /\ session' = [session EXCEPT ![r] = IF @ = "open" THEN "broken" ELSE @]
    /\ outcome' = [outcome EXCEPT ![r] = IF failed[r] THEN "failed" ELSE "applied"]
    /\ Goto(r, "done")
    /\ UNCHANGED <<table, recorded, schema, lock, sent, tx, row, files, todo, known, failed, server>>

-----------------------------------------------------------------------------
(* Failures                                                                *)

InTransaction(r) == pc[r] \in {"sql", "insert", "commit", "rollback"}

\* The next thing the run does is a query inside its try block.
AtQuery(r) ==
    \/ pc[r] \in {"create", "creating", "lock", "list", "sql", "insert", "commit"}
    \/ pc[r] = "next" /\ todo[r] # {} /\ known[r][Current(r)] = None

\* It is answered with an error: the SQL is wrong, the key exists.
QueryFails(r) ==
    /\ AtQuery(r)
    /\ session[r] = "open"
    /\ failed' = [failed EXCEPT ![r] = TRUE]
    /\ Goto(r, IF InTransaction(r) THEN "rollback" ELSE "unlock")
    /\ UNCHANGED <<database, files, todo, known, outcome, server>>

\* The database keeps working on the query it has.
Breaks(r) ==
    /\ session[r] = "open"
    /\ session' = [session EXCEPT ![r] = "broken"]
    /\ sent' = [sent EXCEPT ![r] = IF pc[r] \in {"creating", "lock", "commit"} THEN pc[r] ELSE "nothing"]

ConnectionLost(r) ==
    /\ AtQuery(r) \/ pc[r] = "rollback"
    /\ Breaks(r)
    /\ failed' = [failed EXCEPT ![r] = TRUE]
    /\ Goto(r, IF InTransaction(r) THEN "rollback" ELSE "unlock")
    /\ UNCHANGED <<table, recorded, schema, lock, tx, row, files, todo, known, outcome, server>>

\* The program is killed.
Crash(r) ==
    /\ pc[r] \in Queries
    /\ Breaks(r)
    /\ outcome' = [outcome EXCEPT ![r] = "crashed"]
    /\ Goto(r, "done")
    /\ UNCHANGED <<table, recorded, schema, lock, tx, row, files, todo, known, failed, server>>

\* The database, for a session whose program is gone.
LateCreate(r) ==
    /\ sent[r] = "creating"
    /\ table' = TRUE
    /\ sent' = [sent EXCEPT ![r] = "nothing"]
    /\ UNCHANGED <<recorded, schema, lock, session, tx, row, program, server>>

LateLock(r) ==
    /\ sent[r] = "lock"
    /\ lock = NoOne
    /\ lock' = r
    /\ sent' = [sent EXCEPT ![r] = "nothing"]
    /\ UNCHANGED <<table, recorded, schema, session, tx, row, program, server>>

LateCommit(r) ==
    /\ sent[r] = "commit"
    /\ Committed(r)
    /\ sent' = [sent EXCEPT ![r] = "nothing"]
    /\ UNCHANGED <<table, lock, session, program, server>>

SessionEnds(r) ==
    /\ session[r] = "broken"
    /\ session' = [session EXCEPT ![r] = "ended"]
    /\ sent' = [sent EXCEPT ![r] = "nothing"]
    /\ tx' = [tx EXCEPT ![r] = "none"]
    /\ lock' = IF lock = r THEN NoOne ELSE lock
    /\ UNCHANGED <<table, recorded, schema, row, program, server>>

-----------------------------------------------------------------------------
(* Servers: PostgresControlPlaneStateStore.connect, then mutations         *)

CheckTable(s) ==
    /\ server[s] = "start"
    /\ server' = [server EXCEPT ![s] = IF Baseline \in ToSet(schema) THEN "upsert" ELSE "refused"]
    /\ UNCHANGED <<database, program>>

\* Mutant: the row is overwritten (DO UPDATE).
UpsertOverwrites(s) ==
    /\ server[s] = "upsert"
    /\ row' = "empty"
    /\ server' = [server EXCEPT ![s] = "ready"]
    /\ UNCHANGED <<table, recorded, schema, lock, session, sent, tx, program>>

UpsertRow(s) ==
    /\ server[s] = "upsert"
    /\ row' = IF row = "absent" THEN "empty" ELSE row
    /\ server' = [server EXCEPT ![s] = "ready"]
    /\ UNCHANGED <<table, recorded, schema, lock, session, sent, tx, program>>

Use(s) ==
    /\ server[s] = "ready"
    /\ row' = "used"
    /\ UNCHANGED <<table, recorded, schema, lock, session, sent, tx, program, server>>

Restart(s) ==
    /\ server[s] # "start"
    /\ server' = [server EXCEPT ![s] = "start"]
    /\ UNCHANGED <<database, program>>

-----------------------------------------------------------------------------
Progress(r) ==
    \/ Connect(r) \/ LookForTable(r) \/ CreateTable(r) \/ CreationCollides(r)
    \/ AdvisoryLock(r) \/ ListApplied(r)
    \/ Skip(r) \/ ChecksumMismatch(r) \/ AllApplied(r)
    \/ Begin(r) \/ RunSql(r) \/ InsertRow(r) \/ Commit(r)
    \/ Rollback(r) \/ RollbackFails(r) \/ Unlock(r) \/ End(r)

Failure(r) == ConnectFails(r) \/ QueryFails(r) \/ ConnectionLost(r) \/ Crash(r)

Aftermath(r) == LateCreate(r) \/ LateLock(r) \/ LateCommit(r) \/ SessionEnds(r)

Serve(s) == CheckTable(s) \/ UpsertRow(s) \/ Use(s) \/ Restart(s)

Next ==
    \/ \E r \in Runs : Progress(r) \/ Failure(r) \/ Aftermath(r)
    \/ \E s \in Servers : Serve(s)

Spec == Init /\ [][Next]_vars

\* Queries are answered or fail, and dead sessions are noticed; nothing is
\* assumed of who gets the lock next, since each run ends once it has it.
Fairness == \A r \in Runs : WF_vars(Progress(r)) /\ WF_vars(Aftermath(r))

FairSpec == Spec /\ Fairness

-----------------------------------------------------------------------------
(* Properties                                                              *)

\* Every variable has its type, and a transaction is open only in a session
\* that works on a file, or did when its program went away.
TypeOK ==
    /\ table \in BOOLEAN
    /\ recorded \in [Ids -> Checksums \cup {None}]
    /\ schema \in Seq(Ids)
    /\ lock \in Runs \cup {NoOne}
    /\ session \in [Runs -> {"none", "open", "broken", "ended"}]
    /\ sent \in [Runs -> {"nothing", "creating", "lock", "commit"}]
    /\ tx \in [Runs -> {"none", "open", "sql", "row"}]
    /\ \A r \in Runs : tx[r] # "none" => session[r] \in {"open", "broken"} /\ todo[r] # {}
    /\ pc \in [Runs -> Queries \cup {"load", "done"}]
    /\ files \in [Runs -> Releases]
    /\ todo \in [Runs -> SUBSET Ids]
    /\ known \in [Runs -> [Ids -> Checksums \cup {None}]]
    /\ failed \in [Runs -> BOOLEAN]
    /\ outcome \in [Runs -> {"pending", "applied", "failed", "crashed"}]
    /\ row \in {"absent", "empty", "used"}
    /\ server \in [Servers -> {"start", "refused", "upsert", "ready"}]

\* A migration's SQL is in the schema if and only if it is recorded, and once:
\* failed, killed and overlapping runs and commits nobody hears of included.
AppliedOnceAndRecorded ==
    /\ IsInjective(schema)
    /\ ToSet(schema) = {m \in Ids : recorded[m] # None}

\* From its list to its end a run knows what is recorded of the files it has
\* yet to reach, so its INSERT never conflicts: no session works at the same
\* time, not even one whose program is gone and whose COMMIT is under way.
KnownIsCurrent ==
    \A r \in Runs :
        pc[r] \in {"next", "sql", "insert", "commit"} /\ session[r] = "open"
            => \A m \in todo[r] : known[r][m] = recorded[m]

\* A migration runs on the schema that its release wrote it for: every earlier
\* file of the release is applied, with the release's own text.
EarlierFilesApplied ==
    \A r \in Runs : tx[r] # "none" =>
        \A m \in DOMAIN files[r] : m < Current(r) => recorded[m] = files[r][m]

\* A run that reports success leaves its whole release applied, for good.
SuccessIsComplete ==
    \A r \in Runs : outcome[r] = "applied" =>
        \A m \in DOMAIN files[r] : recorded[m] = files[r][m]

\* What is stored in the state row survives every start of a server and every
\* run of the migrations.
StateSurvives == [][row = "used" => row' = "used"]_row

\* Every run ends: a lock left behind by a failed or killed run never blocks
\* the others.
EveryRunEnds == \A r \in Runs : <>(pc[r] = "done")
=============================================================================
