-------------------------- MODULE MigrationsProofs --------------------------
(***************************************************************************)
(* What Migrations keeps true for every number of runs and servers, every  *)
(* set of migrations and every choice of releases.                         *)
(*                                                                         *)
(* None of the four invariants is inductive: each rests on there being one *)
(* session at a time that works on files.  ExclusiveInv says so, of living *)
(* runs and of the sessions that dead ones left behind, whose COMMIT may   *)
(* still take effect; WorkInv says what such a session knows.              *)
(***************************************************************************)
EXTENDS Migrations, TLAPS, WellFoundedInduction, FiniteSetTheorems

\* The loop over the files, and what comes before it.
Looping == {"next", "sql", "insert", "commit"}
Alive == {"create", "creating", "lock", "list"} \cup Looping

\* What the transaction of a session that is open has done at each step.
TransactionInv ==
    \A r \in Runs :
        /\ pc[r] = "load" => session[r] = "none"
        /\ pc[r] \in Alive => session[r] = "open"
        /\ session[r] = "open" =>
               /\ pc[r] = "sql" => tx[r] = "open"
               /\ pc[r] = "insert" => tx[r] = "sql"
               /\ pc[r] = "commit" => tx[r] = "row"
               /\ ~InTransaction(r) => tx[r] = "none"
        /\ session[r] \in {"none", "ended"} => tx[r] = "none"
        /\ sent[r] # "nothing" => session[r] = "broken"
        /\ sent[r] = "lock" => tx[r] = "none"
        /\ sent[r] = "commit" => tx[r] = "row"
        /\ pc[r] = "rollback" => failed[r]

\* A run that lists or applies files holds the lock, and so does a session
\* with an open transaction.
ExclusiveInv ==
    \A r \in Runs :
        pc[r] = "list" \/ pc[r] \in Looping \/ tx[r] # "none" => lock = r

\* The files that the loop has passed are applied; the one that a transaction
\* works on is not recorded yet.
Work(r) ==
    /\ todo[r] \subseteq DOMAIN files[r]
    /\ pc[r] \in {"sql", "insert", "commit"} \/ tx[r] # "none" => todo[r] # {}
    /\ pc[r] \in Looping =>
           \A m \in todo[r] : known[r][m] = recorded[m]
    /\ pc[r] \in Looping \/ tx[r] # "none" =>
           \A m \in DOMAIN files[r] \ todo[r] : recorded[m] = files[r][m]
    /\ tx[r] # "none" => recorded[Current(r)] = None
    /\ pc[r] \in {"unlock", "end"} /\ ~failed[r] =>
           \A m \in DOMAIN files[r] : recorded[m] = files[r][m]

WorkInv == \A r \in Runs : Work(r)

InductiveInv ==
    /\ TypeOK
    /\ TransactionInv
    /\ ExclusiveInv
    /\ WorkInv
    /\ AppliedOnceAndRecorded
    /\ SuccessIsComplete
-----------------------------------------------------------------------------
\* A set of natural numbers that is not empty has a least element.
LEMMA LeastElement ==
    ASSUME NEW S \in SUBSET Nat, S # {}
    PROVE  \E m \in S : \A k \in S : m <= k
  <1> DEFINE Less == {p \in Nat \X Nat : p[1] < p[2]}
  <1>1. IsWellFoundedOn(Less, Nat)
    BY NatLessThanWellFounded DEF OpToRel
  <1> HIDE DEF Less
  <1>2. \E m \in S : \A k \in S : ~ (<<k, m>> \in Less)
    BY <1>1, WFMin
  <1>3. \A k, m \in Nat : <<k, m>> \notin Less => m <= k
    BY DEF Less
  <1> QED
    BY <1>2, <1>3

\* Current is the least of the files that the loop has not finished.
LEMMA CurrentIsLeast ==
    ASSUME TypeOK, NEW r \in Runs, todo[r] # {}
    PROVE  /\ Current(r) \in todo[r] /\ Current(r) \in Ids
           /\ \A m \in todo[r] : Current(r) <= m
  <1>1. todo[r] \subseteq Ids
    BY DEF TypeOK
  <1>2. \E m \in todo[r] : \A k \in todo[r] : m <= k
    BY <1>1, IdsAssumption, LeastElement
  <1> QED
    BY <1>1, <1>2 DEF Current

\* The text of a file of a release is never taken for a missing record.
LEMMA TextIsNotNone ==
    ASSUME TypeOK, NEW r \in Runs, NEW m \in DOMAIN files[r]
    PROVE  m \in Ids /\ files[r][m] \in Checksums /\ files[r][m] # None
  BY ReleasesAssumption, NoneAssumption DEF TypeOK

\* The initial state satisfies the invariant.
LEMMA InitInductive == Init => InductiveInv
  <1> SUFFICES ASSUME Init PROVE InductiveInv
    OBVIOUS
  <1>1. TypeOK
    <2>1. recorded \in [Ids -> Checksums \cup {None}] /\ schema \in Seq(Ids)
      BY DEF Init
    <2>2. todo \in [Runs -> SUBSET Ids]
      BY DEF Init
    <2> QED
      BY <2>1, <2>2 DEF Init, TypeOK, Queries
  <1>2. TransactionInv /\ ExclusiveInv /\ WorkInv
    BY DEF Init, TransactionInv, ExclusiveInv, WorkInv, Work, Alive, Looping, InTransaction
  <1>3. AppliedOnceAndRecorded /\ SuccessIsComplete
    BY DEF Init, AppliedOnceAndRecorded, SuccessIsComplete, IsInjective, ToSet
  <1> QED
    BY <1>1, <1>2, <1>3 DEF InductiveInv

\* What COMMIT does, of a living run or of a session whose program is gone: it
\* records the file, once, and leaves what is recorded as it is.
LEMMA CommitRecords ==
    ASSUME InductiveInv, NEW r \in Runs, tx[r] = "row", Committed(r)
    PROVE  /\ Current(r) \in todo[r] /\ Current(r) \in DOMAIN files[r]
           /\ recorded[Current(r)] = None
           /\ recorded' \in [Ids -> Checksums \cup {None}]
           /\ recorded'[Current(r)] = files[r][Current(r)]
           /\ \A m \in Ids \ {Current(r)} : recorded'[m] = recorded[m]
           /\ \A m \in Ids : recorded[m] # None => recorded'[m] = recorded[m]
           /\ schema' \in Seq(Ids)
           /\ row' \in {"absent", "empty", "used"}
           /\ AppliedOnceAndRecorded'
  <1> DEFINE c == Current(r)
  <1>1. c \in todo[r] /\ c \in Ids /\ c \in DOMAIN files[r] /\ recorded[c] = None
    BY CurrentIsLeast DEF InductiveInv, WorkInv, Work
  <1>2. files[r][c] \in Checksums /\ files[r][c] # None
    BY <1>1, TextIsNotNone DEF InductiveInv
  <1>3. /\ recorded' = [recorded EXCEPT ![c] = files[r][c]]
        /\ schema' = Append(schema, c)
    BY DEF Committed
  <1>4. recorded \in [Ids -> Checksums \cup {None}] /\ schema \in Seq(Ids)
    BY DEF InductiveInv, TypeOK
  <1> HIDE DEF c
  <1>5. row' \in {"absent", "empty", "used"}
    BY DEF Committed, InductiveInv, TypeOK
  <1>6. AppliedOnceAndRecorded'
    <2>1. c \notin ToSet(schema)
      BY <1>1 DEF InductiveInv, AppliedOnceAndRecorded
    <2>2. \A i \in DOMAIN schema : schema[i] # c
      BY <2>1 DEF ToSet
    <2>3. IsInjective(schema')
      BY <1>3, <1>4, <1>1, <2>2 DEF InductiveInv, AppliedOnceAndRecorded, IsInjective
    <2>4. ToSet(schema') = ToSet(schema) \cup {c}
      BY <1>3, <1>4, <1>1 DEF ToSet
    <2> QED
      BY <1>1, <1>2, <1>3, <1>4, <2>3, <2>4 DEF InductiveInv, AppliedOnceAndRecorded
  <1> QED
    BY <1>1, <1>2, <1>3, <1>4, <1>5, <1>6 DEF c

\* A step of r leaves the program of every other run where it is, and changes
\* what is recorded only by a COMMIT.
LEMMA OtherRuns ==
    ASSUME InductiveInv, NEW r \in Runs, Progress(r) \/ Failure(r) \/ Aftermath(r)
    PROVE  /\ files' = files
           /\ \A o \in Runs \ {r} :
                  /\ pc'[o] = pc[o] /\ tx'[o] = tx[o] /\ todo'[o] = todo[o]
                  /\ known'[o] = known[o] /\ failed'[o] = failed[o]
                  /\ outcome'[o] = outcome[o]
           /\ \/ recorded' = recorded /\ schema' = schema
              \/ tx[r] = "row" /\ Committed(r)
  <1> USE DEF Goto, Breaks, database, program
  <1>0. TypeOK /\ TransactionInv
    BY DEF InductiveInv
  <1>1. CASE Aftermath(r)
    <2>1. CASE LateCreate(r) \/ LateLock(r)
      BY <2>1 DEF LateCreate, LateLock
    <2>2. CASE LateCommit(r)
      BY <1>0, <2>2 DEF TypeOK, TransactionInv, LateCommit, Committed
    <2>3. CASE SessionEnds(r)
      BY <1>0, <2>3 DEF TypeOK, SessionEnds
    <2> QED
      BY <1>1, <2>1, <2>2, <2>3 DEF Aftermath
  <1>2. CASE Failure(r)
    <2>1. CASE ConnectFails(r) \/ QueryFails(r)
      BY <1>0, <2>1 DEF TypeOK, ConnectFails, QueryFails
    <2>2. CASE ConnectionLost(r) \/ Crash(r)
      BY <1>0, <2>2 DEF TypeOK, ConnectionLost, Crash
    <2> QED
      BY <1>2, <2>1, <2>2 DEF Failure
  <1>3. CASE Commit(r)
    BY <1>0, <1>3 DEF TypeOK, TransactionInv, Alive, Looping, Commit, Committed
  <1>4. CASE Progress(r) /\ ~Commit(r)
    <2>1. CASE Connect(r) \/ LookForTable(r) \/ CreateTable(r) \/ CreationCollides(r)
      BY <1>0, <2>1 DEF TypeOK, Connect, LookForTable, CreateTable, CreationCollides
    <2>2. CASE AdvisoryLock(r) \/ ListApplied(r) \/ Skip(r)
      BY <1>0, <2>2 DEF TypeOK, AdvisoryLock, ListApplied, Skip
    <2>3. CASE ChecksumMismatch(r) \/ AllApplied(r)
      BY <1>0, <2>3 DEF TypeOK, ChecksumMismatch, AllApplied
    <2>4. CASE Begin(r) \/ RunSql(r) \/ InsertRow(r)
      BY <1>0, <2>4 DEF TypeOK, Begin, RunSql, InsertRow
    <2>5. CASE Rollback(r) \/ RollbackFails(r) \/ Unlock(r) \/ End(r)
      BY <1>0, <2>5 DEF TypeOK, Rollback, RollbackFails, Unlock, End
    <2> QED
      BY <1>4, <2>1, <2>2, <2>3, <2>4, <2>5 DEF Progress
  <1> QED
    BY <1>1, <1>2, <1>3, <1>4

\* What is recorded stays as it is.
LEMMA RecordedStays ==
    ASSUME InductiveInv, [Next]_vars
    PROVE  /\ \A m \in Ids : recorded[m] # None => recorded'[m] = recorded[m]
           /\ AppliedOnceAndRecorded'
  <1> DEFINE Stays == /\ \A m \in Ids : recorded[m] # None => recorded'[m] = recorded[m]
                      /\ AppliedOnceAndRecorded'
  <1>1. CASE recorded' = recorded /\ schema' = schema
    BY <1>1 DEF InductiveInv, AppliedOnceAndRecorded
  <1>2. ASSUME NEW r \in Runs, Progress(r) \/ Failure(r) \/ Aftermath(r)
        PROVE  Stays
    BY <1>1, <1>2, OtherRuns, CommitRecords
  <1>3. ASSUME NEW s \in Servers, Serve(s)
        PROVE  recorded' = recorded /\ schema' = schema
    BY <1>3 DEF Serve, CheckTable, UpsertRow, Use, Restart, database
  <1>4. CASE UNCHANGED vars
    BY <1>1, <1>4 DEF vars, database
  <1> QED
    BY <1>1, <1>2, <1>3, <1>4 DEF Next

\* Every step keeps the types.
LEMMA TypeStep == InductiveInv /\ [Next]_vars => TypeOK'
  <1> SUFFICES ASSUME InductiveInv, [Next]_vars PROVE TypeOK'
    OBVIOUS
  <1> USE DEF TypeOK, Queries, Goto, database, program
  <1>0. TypeOK /\ TransactionInv /\ WorkInv
    BY DEF InductiveInv
  <1>1. CASE UNCHANGED vars
    BY <1>0, <1>1 DEF vars
  <1>2. ASSUME NEW r \in Runs, Progress(r)
        PROVE  TypeOK'
    <2>1. CASE Connect(r)
      <3>1. tx[r] = "none"
        BY <1>0, <2>1 DEF Connect, TransactionInv, Alive, Looping, InTransaction
      <3> QED
        BY <1>0, <2>1, <3>1 DEF Connect
    <2>2. CASE LookForTable(r)
      BY <1>0, <2>2 DEF LookForTable
    <2>3. CASE CreateTable(r)
      BY <1>0, <2>3 DEF CreateTable
    <2>4. CASE CreationCollides(r)
      BY <1>0, <2>4 DEF CreationCollides
    <2>5. CASE AdvisoryLock(r)
      BY <1>0, <2>5 DEF AdvisoryLock
    <2>6. CASE ListApplied(r)
      <3>1. DOMAIN files[r] \subseteq Ids
        BY <1>0, ReleasesAssumption
      <3>2. tx[r] = "none"
        BY <1>0, <2>6 DEF ListApplied, TransactionInv, Alive, Looping, InTransaction
      <3> QED
        BY <1>0, <2>6, <3>1, <3>2 DEF ListApplied
    <2>7. CASE Skip(r)
      <3>1. tx[r] = "none"
        BY <1>0, <2>7 DEF Skip, TransactionInv, Alive, Looping, InTransaction
      <3> QED
        BY <1>0, <2>7, <3>1 DEF Skip
    <2>8. CASE ChecksumMismatch(r)
      BY <1>0, <2>8 DEF ChecksumMismatch
    <2>9. CASE AllApplied(r)
      BY <1>0, <2>9 DEF AllApplied
    <2>10. CASE Begin(r)
      BY <1>0, <2>10 DEF Begin
    <2>11. CASE RunSql(r)
      <3>1. session[r] = "open" /\ todo[r] # {}
        BY <1>0, <2>11 DEF RunSql, WorkInv, Work
      <3> QED
        BY <1>0, <2>11, <3>1 DEF RunSql
    <2>12. CASE InsertRow(r)
      <3>1. session[r] = "open" /\ todo[r] # {}
        BY <1>0, <2>12 DEF InsertRow, WorkInv, Work
      <3> QED
        BY <1>0, <2>12, <3>1 DEF InsertRow
    <2>13. CASE Commit(r)
      <3>1. tx[r] = "row" /\ Committed(r)
        BY <1>0, <2>13 DEF Commit, TransactionInv, Alive, Looping, InTransaction
      <3>2. tx' = [tx EXCEPT ![r] = "none"]
        BY <3>1 DEF Committed
      <3> QED
        BY <1>0, <2>13, <3>1, <3>2, CommitRecords DEF Commit
    <2>14. CASE Rollback(r)
      BY <1>0, <2>14 DEF Rollback
    <2>15. CASE RollbackFails(r)
      BY <1>0, <2>15 DEF RollbackFails
    <2>16. CASE Unlock(r)
      BY <1>0, <2>16 DEF Unlock
    <2>17. CASE End(r)
      BY <1>0, <2>17 DEF End
    <2> QED
      BY <1>2, <2>1, <2>2, <2>3, <2>4, <2>5, <2>6, <2>7, <2>8, <2>9, <2>10, <2>11, <2>12, <2>13, <2>14, <2>15, <2>16, <2>17 DEF Progress
  <1>3. ASSUME NEW r \in Runs, Failure(r)
        PROVE  TypeOK'
    <2>1. CASE ConnectFails(r)
      BY <1>0, <2>1 DEF ConnectFails
    <2>2. CASE QueryFails(r)
      BY <1>0, <2>2 DEF QueryFails
    <2>3. CASE ConnectionLost(r)
      BY <1>0, <2>3 DEF ConnectionLost, Breaks
    <2>4. CASE Crash(r)
      BY <1>0, <2>4 DEF Crash, Breaks
    <2> QED
      BY <1>3, <2>1, <2>2, <2>3, <2>4 DEF Failure
  <1>4. ASSUME NEW r \in Runs, Aftermath(r)
        PROVE  TypeOK'
    <2>1. CASE LateCreate(r)
      BY <1>0, <2>1 DEF LateCreate
    <2>2. CASE LateLock(r)
      BY <1>0, <2>2 DEF LateLock
    <2>3. CASE LateCommit(r)
      <3>1. tx[r] = "row" /\ Committed(r)
        BY <1>0, <2>3 DEF LateCommit, TransactionInv, Alive, Looping, InTransaction
      <3>2. tx' = [tx EXCEPT ![r] = "none"]
        BY <3>1 DEF Committed
      <3> QED
        BY <1>0, <2>3, <3>1, <3>2, CommitRecords DEF LateCommit
    <2>4. CASE SessionEnds(r)
      BY <1>0, <2>4 DEF SessionEnds
    <2> QED
      BY <1>4, <2>1, <2>2, <2>3, <2>4 DEF Aftermath
  <1>5. ASSUME NEW s \in Servers, Serve(s)
        PROVE  TypeOK'
    <2>1. CASE CheckTable(s)
      BY <1>0, <2>1 DEF CheckTable
    <2>2. CASE UpsertRow(s) \/ Use(s)
      BY <1>0, <2>2 DEF UpsertRow, Use
    <2>3. CASE Restart(s)
      BY <1>0, <2>3 DEF Restart
    <2> QED
      BY <1>5, <2>1, <2>2, <2>3 DEF Serve
  <1> QED
    BY <1>1, <1>2, <1>3, <1>4, <1>5 DEF Next

\* Every step keeps what is known of open transactions and dead sessions.
LEMMA TransactionStep == InductiveInv /\ [Next]_vars => TransactionInv'
  <1> SUFFICES ASSUME InductiveInv, [Next]_vars PROVE TransactionInv'
    OBVIOUS
  <1> USE DEF TypeOK, TransactionInv, Alive, Looping, Queries, Goto, InTransaction,
              database, program
  <1>0. TypeOK /\ TransactionInv
    BY DEF InductiveInv
  <1>1. CASE UNCHANGED vars
    BY <1>0, <1>1 DEF vars
  <1>2. ASSUME NEW r \in Runs, Progress(r)
        PROVE  TransactionInv'
    <2>1. CASE Connect(r) \/ LookForTable(r) \/ CreateTable(r) \/ CreationCollides(r)
      BY <1>0, <2>1 DEF Connect, LookForTable, CreateTable, CreationCollides
    <2>2. CASE AdvisoryLock(r) \/ ListApplied(r)
      BY <1>0, <2>2 DEF AdvisoryLock, ListApplied
    <2>3. CASE Skip(r) \/ ChecksumMismatch(r) \/ AllApplied(r)
      BY <1>0, <2>3 DEF Skip, ChecksumMismatch, AllApplied
    <2>4. CASE Begin(r) \/ RunSql(r) \/ InsertRow(r)
      BY <1>0, <2>4 DEF Begin, RunSql, InsertRow
    <2>5. CASE Commit(r)
      BY <1>0, <2>5 DEF Commit, Committed
    <2>6. CASE Rollback(r) \/ RollbackFails(r) \/ Unlock(r)
      BY <1>0, <2>6 DEF Rollback, RollbackFails, Unlock
    <2>7. CASE End(r)
      BY <1>0, <2>7 DEF End
    <2> QED
      BY <1>2, <2>1, <2>2, <2>3, <2>4, <2>5, <2>6, <2>7 DEF Progress
  <1>3. ASSUME NEW r \in Runs, Failure(r)
        PROVE  TransactionInv'
    <2>1. CASE ConnectFails(r)
      BY <1>0, <2>1 DEF ConnectFails
    <2>2. CASE QueryFails(r)
      BY <1>0, <2>2 DEF QueryFails, AtQuery
    <2>3. CASE ConnectionLost(r)
      BY <1>0, <2>3 DEF ConnectionLost, Breaks, AtQuery
    <2>4. CASE Crash(r)
      BY <1>0, <2>4 DEF Crash, Breaks
    <2> QED
      BY <1>3, <2>1, <2>2, <2>3, <2>4 DEF Failure
  <1>4. ASSUME NEW r \in Runs, Aftermath(r)
        PROVE  TransactionInv'
    BY <1>0, <1>4 DEF Aftermath, LateCreate, LateLock, LateCommit, SessionEnds, Committed
  <1>5. ASSUME NEW s \in Servers, Serve(s)
        PROVE  TransactionInv'
    BY <1>0, <1>5 DEF Serve, CheckTable, UpsertRow, Use, Restart
  <1> QED
    BY <1>1, <1>2, <1>3, <1>4, <1>5 DEF Next

\* Every step leaves at most one session at work: the lock is given up by a
\* session only when its transaction is over, and by a dead one with it.
LEMMA ExclusiveStep == InductiveInv /\ [Next]_vars => ExclusiveInv'
  <1> SUFFICES ASSUME InductiveInv, [Next]_vars PROVE ExclusiveInv'
    OBVIOUS
  <1> USE DEF TypeOK, TransactionInv, ExclusiveInv, Alive, Looping, Queries, Goto,
              InTransaction, database, program
  <1>0. TypeOK /\ TransactionInv /\ ExclusiveInv
    BY DEF InductiveInv
  <1>1. CASE UNCHANGED vars
    BY <1>0, <1>1 DEF vars
  <1>2. ASSUME NEW r \in Runs, Progress(r)
        PROVE  ExclusiveInv'
    <2>1. CASE Connect(r) \/ LookForTable(r) \/ CreateTable(r) \/ CreationCollides(r)
      BY <1>0, <2>1 DEF Connect, LookForTable, CreateTable, CreationCollides
    <2>2. CASE AdvisoryLock(r) \/ ListApplied(r)
      BY <1>0, <2>2, NoneAssumption DEF AdvisoryLock, ListApplied
    <2>3. CASE Skip(r) \/ ChecksumMismatch(r) \/ AllApplied(r)
      BY <1>0, <2>3 DEF Skip, ChecksumMismatch, AllApplied
    <2>4. CASE Begin(r) \/ RunSql(r) \/ InsertRow(r)
      BY <1>0, <2>4 DEF Begin, RunSql, InsertRow
    <2>5. CASE Commit(r)
      BY <1>0, <2>5 DEF Commit, Committed
    <2>6. CASE Rollback(r) \/ RollbackFails(r)
      BY <1>0, <2>6 DEF Rollback, RollbackFails
    <2>7. CASE Unlock(r)
      BY <1>0, <2>7 DEF Unlock
    <2>8. CASE End(r)
      BY <1>0, <2>8 DEF End
    <2> QED
      BY <1>2, <2>1, <2>2, <2>3, <2>4, <2>5, <2>6, <2>7, <2>8 DEF Progress
  <1>3. ASSUME NEW r \in Runs, Failure(r)
        PROVE  ExclusiveInv'
    BY <1>0, <1>3 DEF Failure, ConnectFails, QueryFails, ConnectionLost, Crash, Breaks
  <1>4. ASSUME NEW r \in Runs, Aftermath(r)
        PROVE  ExclusiveInv'
    <2>1. CASE LateCreate(r) \/ LateCommit(r)
      BY <1>0, <2>1 DEF LateCreate, LateCommit, Committed
    <2>2. CASE LateLock(r)
      BY <1>0, <2>2, NoneAssumption DEF LateLock
    <2>3. CASE SessionEnds(r)
      BY <1>0, <2>3 DEF SessionEnds
    <2> QED
      BY <1>4, <2>1, <2>2, <2>3 DEF Aftermath
  <1>5. ASSUME NEW s \in Servers, Serve(s)
        PROVE  ExclusiveInv'
    BY <1>0, <1>5 DEF Serve, CheckTable, UpsertRow, Use, Restart
  <1> QED
    BY <1>1, <1>2, <1>3, <1>4, <1>5 DEF Next

\* What a run has done and knows is not disturbed by the steps of another run:
\* the only one that writes is the one that holds the lock.
LEMMA WorkOfOthers ==
    ASSUME InductiveInv, NEW r \in Runs, Progress(r) \/ Failure(r) \/ Aftermath(r),
           NEW o \in Runs \ {r}
    PROVE  Work(o)'
  <1>1. /\ files' = files
        /\ pc'[o] = pc[o] /\ tx'[o] = tx[o] /\ todo'[o] = todo[o]
        /\ known'[o] = known[o] /\ failed'[o] = failed[o]
    BY OtherRuns
  <1>2. Current(o)' = Current(o)
    BY <1>1 DEF Current
  <1>3. Work(o)
    BY DEF InductiveInv, WorkInv
  <1>4. CASE recorded' = recorded
    BY <1>1, <1>2, <1>3, <1>4 DEF Work
  <1>5. CASE tx[r] = "row" /\ Committed(r)
    <2>1. pc[o] \notin Looping /\ tx[o] = "none"
      BY <1>5 DEF InductiveInv, ExclusiveInv
    <2>2. \A m \in DOMAIN files[o] :
              recorded[m] = files[o][m] => recorded'[m] = files[o][m]
      BY <1>5, CommitRecords, TextIsNotNone DEF InductiveInv
    <2> QED
      BY <1>1, <1>3, <2>1, <2>2 DEF Work, Looping
  <1> QED
    BY <1>4, <1>5, OtherRuns

\* Every step of a run keeps what holds of its own work.
LEMMA OwnWork ==
    ASSUME InductiveInv, NEW r \in Runs, Progress(r) \/ Failure(r) \/ Aftermath(r)
    PROVE  Work(r)'
  <1> USE DEF Goto, database, program
  <1>0. /\ Work(r) /\ files' = files
        /\ todo'[r] = todo[r] => Current(r)' = Current(r)
    BY OtherRuns DEF InductiveInv, WorkInv, Current
  <1>1. TypeOK /\ TransactionInv
    BY DEF InductiveInv
  <1>2. CASE Aftermath(r) /\ ~LateCommit(r)
    BY <1>0, <1>1, <1>2 DEF Work, TypeOK, Aftermath, LateCreate, LateLock, SessionEnds
  <1>3. CASE LateCommit(r)
    <2>1. tx[r] = "row" /\ Committed(r) /\ pc[r] \notin Looping
      BY <1>1, <1>3 DEF LateCommit, TransactionInv, Alive
    <2>2. tx'[r] = "none" /\ todo' = todo /\ pc' = pc /\ failed' = failed
      BY <1>1, <1>3 DEF LateCommit, Committed, TypeOK
    <2>3. \A m \in DOMAIN files[r] :
              recorded[m] = files[r][m] => recorded'[m] = files[r][m]
      BY <1>1, <2>1, CommitRecords, TextIsNotNone
    <2> QED
      BY <1>0, <2>1, <2>2, <2>3 DEF Work, Looping
  <1>4. CASE Failure(r)
    BY <1>0, <1>1, <1>4 DEF Work, TypeOK, Looping, Failure, ConnectFails, QueryFails,
       ConnectionLost, Crash, Breaks
  <1>5. CASE Connect(r) \/ LookForTable(r) \/ CreateTable(r) \/ CreationCollides(r)
                \/ AdvisoryLock(r)
    BY <1>0, <1>1, <1>5 DEF Work, TypeOK, Looping, Connect, LookForTable, CreateTable,
       CreationCollides, AdvisoryLock
  <1>6. CASE ListApplied(r)
    <2>1. /\ pc'[r] = "next" /\ todo'[r] = DOMAIN files[r]
          /\ known'[r] = recorded /\ recorded' = recorded
      BY <1>1, <1>6 DEF TypeOK, ListApplied
    <2>2. tx'[r] = "none"
      BY <1>1, <1>6 DEF TransactionInv, Alive, InTransaction, ListApplied
    <2> QED
      BY <1>0, <2>1, <2>2 DEF Work
  <1>7. CASE Skip(r)
    <2>1. /\ tx'[r] = "none" /\ pc'[r] = "next" /\ todo'[r] = todo[r] \ {Current(r)}
          /\ pc[r] = "next" /\ known' = known /\ recorded' = recorded
      BY <1>1, <1>7 DEF TypeOK, TransactionInv, Alive, Looping, InTransaction, Skip
    <2>2. recorded[Current(r)] = files[r][Current(r)]
      BY <1>0, <1>1, <1>7, <2>1, CurrentIsLeast DEF Skip, IsApplied, Work, Looping
    <2> QED
      BY <1>0, <2>1, <2>2 DEF Work, Looping
  <1>8. CASE ChecksumMismatch(r) \/ AllApplied(r)
    BY <1>0, <1>1, <1>8 DEF Work, TypeOK, Looping, ChecksumMismatch, AllApplied
  <1>9. CASE Begin(r)
    BY <1>0, <1>1, <1>9, CurrentIsLeast DEF Work, TypeOK, Looping, Begin
  <1>10. CASE RunSql(r) \/ InsertRow(r)
    BY <1>0, <1>1, <1>10 DEF Work, TypeOK, Looping, TransactionInv, Alive, RunSql, InsertRow
  <1>11. CASE Commit(r)
    <2>1. tx[r] = "row" /\ Committed(r) /\ pc[r] = "commit"
      BY <1>1, <1>11 DEF Commit, TransactionInv, Alive, Looping
    <2>2. /\ tx'[r] = "none" /\ pc'[r] = "next" /\ known' = known
          /\ todo'[r] = todo[r] \ {Current(r)}
      BY <1>1, <1>11, <2>1 DEF Commit, Committed, TypeOK
    <2>3. \A m \in DOMAIN files[r] :
              recorded[m] = files[r][m] => recorded'[m] = files[r][m]
      BY <1>1, <2>1, CommitRecords, TextIsNotNone
    <2>4. /\ recorded'[Current(r)] = files[r][Current(r)]
          /\ \A m \in todo'[r] : recorded'[m] = recorded[m]
      BY <1>1, <2>1, <2>2, CommitRecords DEF TypeOK
    <2> QED
      BY <1>0, <2>1, <2>2, <2>3, <2>4 DEF Work, Looping
  <1>12. CASE Rollback(r) \/ RollbackFails(r) \/ Unlock(r) \/ End(r)
    BY <1>0, <1>1, <1>12 DEF Work, TypeOK, TransactionInv, Looping, Rollback, RollbackFails,
       Unlock, End
  <1> QED
    BY <1>2, <1>3, <1>4, <1>5, <1>6, <1>7, <1>8, <1>9, <1>10, <1>11, <1>12 DEF Progress

\* Every step keeps what each run has done and knows.
LEMMA WorkStep == InductiveInv /\ [Next]_vars => WorkInv'
  <1> SUFFICES ASSUME InductiveInv, [Next]_vars, NEW o \in Runs PROVE Work(o)'
    BY DEF WorkInv
  <1>1. ASSUME NEW r \in Runs, Progress(r) \/ Failure(r) \/ Aftermath(r)
        PROVE  Work(o)'
    BY <1>1, OwnWork, WorkOfOthers
  <1>2. CASE UNCHANGED <<recorded, tx, program>>
    BY <1>2 DEF InductiveInv, WorkInv, Work, Current, program
  <1>3. ASSUME NEW s \in Servers, Serve(s)
        PROVE  UNCHANGED <<recorded, tx, program>>
    BY <1>3 DEF Serve, CheckTable, UpsertRow, Use, Restart, database, program
  <1>4. CASE UNCHANGED vars
    BY <1>2, <1>4 DEF vars, database
  <1> QED
    BY <1>1, <1>2, <1>3, <1>4 DEF Next

\* Every step keeps what runs that succeeded have applied.
LEMMA SuccessStep == InductiveInv /\ [Next]_vars => SuccessIsComplete'
  <1> SUFFICES ASSUME InductiveInv, [Next]_vars,
                      NEW r \in Runs, outcome'[r] = "applied",
                      NEW m \in DOMAIN files'[r]
               PROVE  recorded'[m] = files'[r][m]
    BY DEF SuccessIsComplete
  <1>1. files' = files
    <2>1. ASSUME NEW s \in Servers, Serve(s)
          PROVE  files' = files
      BY <2>1 DEF Serve, CheckTable, UpsertRow, Use, Restart, program
    <2> QED
      BY <2>1, OtherRuns DEF Next, vars, program
  <1>2. recorded[m] = files[r][m] => recorded'[m] = files[r][m]
    BY <1>1, RecordedStays, TextIsNotNone DEF InductiveInv
  <1>3. CASE outcome[r] = "applied"
    BY <1>1, <1>2, <1>3 DEF InductiveInv, SuccessIsComplete
  <1>4. CASE outcome[r] # "applied"
    <2>1. End(r) /\ ~failed[r]
      <3> USE DEF InductiveInv, TypeOK, database, program
      <3>1. ASSUME NEW o \in Runs, Failure(o) \/ Aftermath(o)
            PROVE  FALSE
        BY <1>4, <3>1 DEF Failure, ConnectFails, QueryFails, ConnectionLost, Crash,
           Aftermath, LateCreate, LateLock, LateCommit, SessionEnds
      <3>2. ASSUME NEW o \in Runs, Progress(o), ~End(o)
            PROVE  FALSE
        BY <1>4, <3>2 DEF Progress, Connect, LookForTable, CreateTable, CreationCollides,
           AdvisoryLock, ListApplied, Skip, ChecksumMismatch, AllApplied, Begin, RunSql,
           InsertRow, Commit, Rollback, RollbackFails, Unlock
      <3>3. ASSUME NEW s \in Servers, Serve(s)
            PROVE  FALSE
        BY <1>4, <3>3 DEF Serve, CheckTable, UpsertRow, Use, Restart
      <3>4. PICK o \in Runs : End(o)
        BY <1>4, <3>1, <3>2, <3>3 DEF Next, vars
      <3>5. \A q \in Runs \ {o} : outcome'[q] = outcome[q]
        BY <3>4 DEF End
      <3>6. o = r
        BY <1>4, <3>5
      <3>7. failed[r] => outcome'[r] = "failed"
        BY <3>4, <3>6 DEF End
      <3> QED
        BY <3>4, <3>6, <3>7
    <2>2. recorded[m] = files[r][m]
      BY <1>1, <2>1 DEF End, InductiveInv, WorkInv, Work
    <2> QED
      BY <1>1, <1>2, <2>2
  <1> QED
    BY <1>3, <1>4

\* InductiveInv holds in every reachable state.
THEOREM Invariance == Spec => []InductiveInv
  <1>1. InductiveInv /\ [Next]_vars => InductiveInv'
    BY TypeStep, TransactionStep, ExclusiveStep, WorkStep, RecordedStays, SuccessStep
       DEF InductiveInv
  <1> QED
    BY <1>1, InitInductive, PTL DEF Spec

-----------------------------------------------------------------------------
\* Types, and open transactions where they belong, whatever breaks or is killed.
THEOREM TypeCorrect == Spec => []TypeOK
  <1>1. InductiveInv => TypeOK
    BY DEF InductiveInv
  <1> QED
    BY <1>1, Invariance, PTL

\* A migration's SQL is committed if and only if it is recorded, and once, over
\* failed, killed and overlapping runs and commits that nobody hears of.
THEOREM AppliedOnce == Spec => []AppliedOnceAndRecorded
  <1>1. InductiveInv => AppliedOnceAndRecorded
    BY DEF InductiveInv
  <1> QED
    BY <1>1, Invariance, PTL

\* From its list to its end a run knows what is recorded of the files it has
\* yet to reach, so its INSERT never meets a row.
THEOREM KnowledgeIsCurrent == Spec => []KnownIsCurrent
  <1>1. InductiveInv => KnownIsCurrent
    BY DEF InductiveInv, WorkInv, Work, Looping, KnownIsCurrent
  <1> QED
    BY <1>1, Invariance, PTL

\* A migration runs on the schema that its release wrote it for.
THEOREM FilesInOrder == Spec => []EarlierFilesApplied
  <1>1. InductiveInv => EarlierFilesApplied
    <2> SUFFICES ASSUME InductiveInv, NEW r \in Runs, tx[r] # "none",
                        NEW m \in DOMAIN files[r], m < Current(r)
                 PROVE  recorded[m] = files[r][m]
      BY DEF EarlierFilesApplied
    <2>1. Work(r) /\ TypeOK /\ todo[r] # {}
      BY DEF InductiveInv, WorkInv, Work
    <2>2. m \notin todo[r]
      BY <2>1, CurrentIsLeast, TextIsNotNone, IdsAssumption
    <2> QED
      BY <2>1, <2>2 DEF Work
  <1> QED
    BY <1>1, Invariance, PTL

\* A run that reports success leaves its whole release applied, for good.
THEOREM SuccessMeansComplete == Spec => []SuccessIsComplete
  <1>1. InductiveInv => SuccessIsComplete
    BY DEF InductiveInv
  <1> QED
    BY <1>1, Invariance, PTL

\* What is stored in the state row survives every run and every start.
THEOREM StateIsKept == Spec => StateSurvives
  <1>1. [Next]_vars => [row = "used" => row' = "used"]_row
    <2> SUFFICES ASSUME [Next]_vars, row = "used" PROVE row' = "used"
      OBVIOUS
    <2> USE DEF Committed, database
    <2>1. ASSUME NEW r \in Runs, Progress(r)
          PROVE  row' = "used"
      BY <2>1 DEF Progress, Connect, LookForTable, CreateTable, CreationCollides,
         AdvisoryLock, ListApplied, Skip, ChecksumMismatch, AllApplied, Begin, RunSql,
         InsertRow, Commit, Rollback, RollbackFails, Unlock, End
    <2>2. ASSUME NEW r \in Runs, Failure(r) \/ Aftermath(r)
          PROVE  row' = "used"
      BY <2>2 DEF Failure, ConnectFails, QueryFails, ConnectionLost, Crash, Aftermath,
         LateCreate, LateLock, LateCommit, SessionEnds
    <2>3. ASSUME NEW s \in Servers, Serve(s)
          PROVE  row' = "used"
      BY <2>3 DEF Serve, CheckTable, UpsertRow, Use, Restart
    <2> QED
      BY <2>1, <2>2, <2>3 DEF Next, vars
  <1> QED
    BY <1>1, PTL DEF Spec, StateSurvives

-----------------------------------------------------------------------------
(* Waiting, and how long a run can take                                    *)

\* An INSERT meets no row of its file, not even one that is not committed, so
\* that it neither fails nor waits: the lock, once held, is all a run needs.
InsertNeverWaits ==
    \A r \in Runs : pc[r] = "insert" =>
        recorded[Current(r)] = None /\ \A o \in Runs \ {r} : tx[o] # "row"

\* Never does every run wait for another: somebody moves, or the database still
\* has to end the session that holds the lock.
NobodyIsStuck ==
    \/ \A r \in Runs : pc[r] = "done"
    \/ \E r \in Runs : pc[r] # "done" /\ ~(pc[r] = "lock" /\ lock # NoOne)
    \/ \E r \in Runs : lock = r /\ session[r] = "broken"

\* Who has the lock is past the query that waits for it, and it is gone only
\* if its session still has to end.
HolderInv ==
    lock # NoOne =>
        /\ session[lock] \in {"open", "broken"}
        /\ pc[lock] \notin {"load", "create", "creating", "lock"}
        /\ pc[lock] = "done" => session[lock] = "broken"

\* The lock is taken past the query for it and given up with the session.
LEMMA HolderStep == InductiveInv /\ HolderInv /\ [Next]_vars => HolderInv'
  <1> SUFFICES ASSUME InductiveInv, HolderInv, [Next]_vars PROVE HolderInv'
    OBVIOUS
  <1> USE DEF TypeOK, TransactionInv, HolderInv, Alive, Looping, Queries, Goto,
              database, program
  <1>0. TypeOK /\ TransactionInv
    BY DEF InductiveInv
  <1>1. CASE UNCHANGED vars
    BY <1>0, <1>1 DEF vars
  <1>2. ASSUME NEW r \in Runs, Progress(r)
        PROVE  HolderInv'
    <2>1. CASE Connect(r)
      BY <1>0, <2>1 DEF Connect
    <2>2. CASE LookForTable(r) \/ CreateTable(r) \/ CreationCollides(r)
      BY <1>0, <2>2 DEF LookForTable, CreateTable, CreationCollides
    <2>3. CASE AdvisoryLock(r) \/ ListApplied(r)
      BY <1>0, <2>3 DEF AdvisoryLock, ListApplied
    <2>4. CASE Skip(r) \/ ChecksumMismatch(r) \/ AllApplied(r)
      BY <1>0, <2>4 DEF Skip, ChecksumMismatch, AllApplied
    <2>5. CASE Begin(r) \/ RunSql(r) \/ InsertRow(r) \/ Commit(r)
      BY <1>0, <2>5 DEF Begin, RunSql, InsertRow, Commit, Committed
    <2>6. CASE Rollback(r) \/ RollbackFails(r)
      BY <1>0, <2>6 DEF Rollback, RollbackFails
    <2>7. CASE Unlock(r)
      BY <1>0, <2>7 DEF Unlock
    <2>8. CASE End(r)
      BY <1>0, <2>8 DEF End
    <2> QED
      BY <1>2, <2>1, <2>2, <2>3, <2>4, <2>5, <2>6, <2>7, <2>8 DEF Progress
  <1>3. ASSUME NEW r \in Runs, Failure(r)
        PROVE  HolderInv'
    <2>1. CASE ConnectFails(r)
      BY <1>0, <2>1 DEF ConnectFails
    <2>2. CASE QueryFails(r)
      BY <1>0, <2>2 DEF QueryFails, AtQuery, InTransaction
    <2>3. CASE ConnectionLost(r)
      BY <1>0, <2>3 DEF ConnectionLost, AtQuery, InTransaction, Breaks
    <2>4. CASE Crash(r)
      BY <1>0, <2>4 DEF Crash, Breaks
    <2> QED
      BY <1>3, <2>1, <2>2, <2>3, <2>4 DEF Failure
  <1>4. ASSUME NEW r \in Runs, Aftermath(r)
        PROVE  HolderInv'
    BY <1>0, <1>4 DEF Aftermath, LateCreate, LateLock, LateCommit, SessionEnds, Committed
  <1>5. ASSUME NEW s \in Servers, Serve(s)
        PROVE  HolderInv'
    BY <1>5 DEF Serve, CheckTable, UpsertRow, Use, Restart
  <1> QED
    BY <1>1, <1>2, <1>3, <1>4, <1>5 DEF Next

\* What is known of who has the lock.
LEMMA HolderInvariant == Spec => []HolderInv
  <1>1. Init => HolderInv
    BY DEF Init, HolderInv
  <1> QED
    BY <1>1, HolderStep, Invariance, PTL DEF Spec

\* No run ever waits for another run's row, or fails on it: whatever died while
\* it wrote one has lost the lock only with its transaction.
THEOREM InsertIsFree == Spec => []InsertNeverWaits
  <1>1. InductiveInv => InsertNeverWaits
    <2> SUFFICES ASSUME InductiveInv, NEW r \in Runs, pc[r] = "insert"
                 PROVE  recorded[Current(r)] = None /\ \A o \in Runs \ {r} : tx[o] # "row"
      BY DEF InsertNeverWaits
    <2>1. lock = r /\ tx[r] = "sql"
      BY DEF InductiveInv, TransactionInv, ExclusiveInv, Alive, Looping
    <2>2. recorded[Current(r)] = None
      BY <2>1 DEF InductiveInv, WorkInv, Work
    <2>3. \A o \in Runs \ {r} : tx[o] # "row"
      BY <2>1 DEF InductiveInv, ExclusiveInv
    <2> QED
      BY <2>2, <2>3
  <1> QED
    BY <1>1, Invariance, PTL

\* However many runs overlap, fail or die, they never wait for one another in a
\* circle, nor for a session that nothing will end.
THEOREM NobodyStuck == Spec => []NobodyIsStuck
  <1>1. InductiveInv /\ HolderInv => NobodyIsStuck
    BY DEF InductiveInv, TypeOK, HolderInv, NobodyIsStuck
  <1> QED
    BY <1>1, Invariance, HolderInvariant, PTL

\* How far a run is from its end, whichever way it takes through one file.
Rank == [load |-> 10, create |-> 9, creating |-> 8, lock |-> 7, list |-> 6,
         next |-> 5, sql |-> 4, insert |-> 3, commit |-> 2,
         rollback |-> 3, unlock |-> 2, end |-> 1, done |-> 0]

\* The files that the run may still have to apply.
Ahead(r) == IF pc[r] \in {"load", "create", "creating", "lock", "list"} THEN DOMAIN files[r]
            ELSE IF pc[r] \in Looping THEN todo[r] ELSE {}

\* What the database may still have to do for the run's session.
Unfinished(r) == (IF sent[r] # "nothing" THEN 1 ELSE 0)
                 + (IF session[r] = "broken" THEN 1 ELSE IF session[r] = "ended" THEN 0 ELSE 2)

\* A bound of the steps that a run, and the database for it, can still take.
StepsLeft(r) == 2 * (Rank[pc[r]] + 4 * Cardinality(Ahead(r))) + Unfinished(r)

\* One run comes closer to its end and no other is set back, or a server does
\* something, which concerns no run.
OneIsCloser ==
    \/ \E r \in Runs : /\ StepsLeft(r)' < StepsLeft(r)
                       /\ \A o \in Runs \ {r} : StepsLeft(o)' = StepsLeft(o)
    \/ /\ \E s \in Servers : Serve(s)
       /\ \A o \in Runs : StepsLeft(o)' = StepsLeft(o)

\* What StepsLeft is made of.
LEMMA StepsTypes ==
    ASSUME TypeOK, NEW r \in Runs
    PROVE  /\ Rank[pc[r]] \in Nat /\ Unfinished(r) \in 0..3
           /\ IsFiniteSet(Ahead(r)) /\ Cardinality(Ahead(r)) \in Nat
           /\ IsFiniteSet(todo[r]) /\ Cardinality(todo[r]) \in Nat
           /\ IsFiniteSet(DOMAIN files[r]) /\ Cardinality(DOMAIN files[r]) \in Nat
  <1>1. Rank[pc[r]] \in Nat /\ Unfinished(r) \in 0..3
    BY DEF TypeOK, Queries, Rank, Unfinished
  <1>2. todo[r] \in SUBSET Ids /\ DOMAIN files[r] \in SUBSET Ids /\ Ahead(r) \in SUBSET Ids
    BY ReleasesAssumption DEF TypeOK, Ahead
  <1>3. \A S \in SUBSET Ids : IsFiniteSet(S) /\ Cardinality(S) \in Nat
    BY IdsAssumption, FS_Subset, FS_CardinalityType
  <1> QED
    BY <1>1, <1>2, <1>3

\* A file that the loop has finished is one file less.
LEMMA OneFileLess ==
    ASSUME TypeOK, NEW r \in Runs, todo[r] # {}
    PROVE  /\ Cardinality(todo[r]) >= 1
           /\ Cardinality(todo[r] \ {Current(r)}) = Cardinality(todo[r]) - 1
  <1>1. Current(r) \in todo[r] /\ IsFiniteSet(todo[r])
    BY CurrentIsLeast, StepsTypes
  <1>2. Cardinality(todo[r] \ {Current(r)}) = Cardinality(todo[r]) - 1
    BY <1>1, FS_RemoveElement
  <1>3. Cardinality(todo[r] \ {Current(r)}) \in Nat /\ Cardinality(todo[r]) \in Nat
    BY <1>1, FS_RemoveElement, FS_CardinalityType, StepsTypes
  <1> QED
    BY <1>2, <1>3

\* A step of r leaves what the database has to do for other runs.
LEMMA OtherSessions ==
    ASSUME InductiveInv, NEW r \in Runs, Progress(r) \/ Failure(r) \/ Aftermath(r),
           NEW o \in Runs \ {r}
    PROVE  StepsLeft(o)' = StepsLeft(o)
  <1> USE DEF Goto, Breaks, database, program
  <1>0. TypeOK
    BY DEF InductiveInv
  <1>1. session'[o] = session[o] /\ sent'[o] = sent[o]
    <2>1. CASE Aftermath(r)
      BY <1>0, <2>1 DEF TypeOK, Aftermath, LateCreate, LateLock, LateCommit, SessionEnds
    <2>2. CASE Failure(r)
      BY <1>0, <2>2 DEF TypeOK, Failure, ConnectFails, QueryFails, ConnectionLost, Crash
    <2>3. CASE Progress(r)
      BY <1>0, <2>3 DEF TypeOK, Progress, Connect, LookForTable, CreateTable,
         CreationCollides, AdvisoryLock, ListApplied, Skip, ChecksumMismatch, AllApplied,
         Begin, RunSql, InsertRow, Commit, Rollback, RollbackFails, Unlock, End
    <2> QED
      BY <2>1, <2>2, <2>3
  <1>2. pc'[o] = pc[o] /\ todo'[o] = todo[o] /\ files'[o] = files[o]
    BY OtherRuns
  <1>3. Ahead(o)' = Ahead(o)
    BY <1>2 DEF Ahead
  <1> QED
    BY <1>1, <1>2, <1>3 DEF StepsLeft, Unfinished

\* A step of r brings it closer to its end: its program goes on, by a query or
\* by a file, or the database does what is left for its session.
LEMMA OwnStep ==
    ASSUME InductiveInv, TypeOK', NEW r \in Runs, Progress(r) \/ Failure(r) \/ Aftermath(r)
    PROVE  StepsLeft(r)' < StepsLeft(r)
  <1> DEFINE p == Rank[pc[r]]
             q == Rank[pc'[r]]
             a == Cardinality(Ahead(r))
             b == Cardinality(Ahead(r)')
             u == Unfinished(r)
             v == Unfinished(r)'
  <1> USE DEF Goto, database, program
  <1>0. /\ TypeOK /\ TransactionInv
        /\ p \in Nat /\ u \in 0..3 /\ a \in Nat /\ q \in Nat /\ v \in 0..3 /\ b \in Nat
    <2>1. TypeOK /\ TransactionInv
      BY DEF InductiveInv
    <2>2. p \in Nat /\ u \in 0..3 /\ a \in Nat
      BY <2>1, StepsTypes
    <2>3. Rank[pc'[r]] \in Nat /\ Unfinished(r)' \in 0..3
      BY DEF TypeOK, Queries, Rank, Unfinished
    <2>4. Ahead(r)' \in SUBSET Ids
      BY ReleasesAssumption DEF TypeOK, Ahead
    <2>5. b \in Nat
      BY <2>4, IdsAssumption, FS_Subset, FS_CardinalityType
    <2> QED
      BY <2>1, <2>2, <2>3, <2>5
  <1>1. files' = files
    BY OtherRuns
  <1>2. \/ q + 4 * b < p + 4 * a /\ v <= u + 1
        \/ q + 4 * b = p + 4 * a /\ v < u
    <2>1. CASE Connect(r) \/ LookForTable(r) \/ CreateTable(r) \/ AdvisoryLock(r)
      <3>1. q < p /\ Ahead(r)' = Ahead(r) /\ v = u
        BY <1>0, <1>1, <2>1 DEF TypeOK, TransactionInv, Alive, Connect, LookForTable,
           CreateTable, AdvisoryLock, Rank, Ahead, Unfinished
      <3> HIDE DEF p, q, u, v
      <3> QED
        BY <1>0, <3>1
    <2>2. CASE CreationCollides(r) \/ ChecksumMismatch(r) \/ AllApplied(r)
      <3>1. q < p /\ Ahead(r)' = {} /\ v = u
        BY <1>0, <2>2 DEF TypeOK, CreationCollides, ChecksumMismatch, AllApplied, Rank,
           Ahead, Looping, Unfinished
      <3> HIDE DEF p, q, u, v
      <3> QED
        BY <1>0, <3>1, FS_EmptySet
    <2>3. CASE ListApplied(r)
      <3>1. q < p /\ Ahead(r)' = Ahead(r) /\ v = u
        BY <1>0, <1>1, <2>3 DEF TypeOK, ListApplied, Rank, Ahead, Looping, Unfinished
      <3> HIDE DEF p, q, u, v
      <3> QED
        BY <1>0, <3>1
    <2>4. CASE Skip(r)
      <3>1. /\ q = p /\ v = u
            /\ Ahead(r) = todo[r] /\ Ahead(r)' = todo[r] \ {Current(r)} /\ todo[r] # {}
        BY <1>0, <2>4 DEF TypeOK, Skip, Rank, Ahead, Looping, Unfinished
      <3>2. b = a - 1
        BY <1>0, <3>1, OneFileLess
      <3> HIDE DEF p, q, a, b, u, v
      <3> QED
        BY <1>0, <3>1, <3>2
    <2>5. CASE Begin(r) \/ RunSql(r) \/ InsertRow(r)
      <3>1. q < p /\ Ahead(r)' = Ahead(r) /\ v = u
        BY <1>0, <2>5 DEF TypeOK, Begin, RunSql, InsertRow, Rank, Ahead, Looping, Unfinished
      <3> HIDE DEF p, q, u, v
      <3> QED
        BY <1>0, <3>1
    <2>6. CASE Commit(r)
      <3>1. todo[r] # {}
        BY <2>6 DEF InductiveInv, WorkInv, Work, Commit
      <3>2. /\ q = p + 3 /\ v = u
            /\ Ahead(r) = todo[r] /\ Ahead(r)' = todo[r] \ {Current(r)}
        BY <1>0, <2>6 DEF TypeOK, Commit, Rank, Ahead, Looping, Unfinished
      <3>3. b = a - 1
        BY <1>0, <3>1, <3>2, OneFileLess
      <3> HIDE DEF p, q, a, b, u, v
      <3> QED
        BY <1>0, <3>2, <3>3
    <2>7. CASE Rollback(r) \/ RollbackFails(r) \/ Unlock(r)
      <3>1. q < p /\ Ahead(r)' = Ahead(r) /\ v = u
        BY <1>0, <2>7 DEF TypeOK, Rollback, RollbackFails, Unlock, Rank, Ahead, Looping,
           Unfinished
      <3> HIDE DEF p, q, u, v
      <3> QED
        BY <1>0, <3>1
    <2>8. CASE End(r)
      <3>1. q < p /\ Ahead(r)' = Ahead(r) /\ v <= u
        BY <1>0, <2>8 DEF TypeOK, End, Rank, Ahead, Looping, Unfinished
      <3> HIDE DEF p, q, u, v
      <3> QED
        BY <1>0, <3>1
    <2>9. CASE ConnectFails(r)
      <3>1. q < p /\ Ahead(r)' = {} /\ v = u
        BY <1>0, <2>9 DEF TypeOK, ConnectFails, Rank, Ahead, Looping, Unfinished
      <3> HIDE DEF p, q, u, v
      <3> QED
        BY <1>0, <3>1, FS_EmptySet
    <2>10. CASE QueryFails(r) \/ (ConnectionLost(r) /\ AtQuery(r))
      <3>1. /\ Ahead(r)' = {} /\ v <= u
            /\ \/ q < p
               \/ pc[r] = "commit" /\ q = 3 /\ p = 2
               \/ pc[r] = "insert" /\ q = 3 /\ p = 3
        BY <1>0, <2>10 DEF TypeOK, TransactionInv, QueryFails, ConnectionLost, Breaks, AtQuery,
           InTransaction, Rank, Ahead, Looping, Unfinished
      <3>2. pc[r] \in {"insert", "commit"} => a >= 1
        <4>1. pc[r] \in {"insert", "commit"} => Ahead(r) = todo[r] /\ todo[r] # {}
          BY DEF InductiveInv, WorkInv, Work, Ahead, Looping
        <4> QED
          BY <1>0, <4>1, OneFileLess
      <3>3. b = 0
        BY <3>1, FS_EmptySet
      <3> HIDE DEF p, q, a, b, u, v
      <3> QED
        BY <1>0, <3>1, <3>2, <3>3
    <2>11. CASE ConnectionLost(r) /\ pc[r] = "rollback"
      <3>1. q = p /\ Ahead(r)' = Ahead(r) /\ v < u
        BY <1>0, <2>11 DEF TypeOK, TransactionInv, ConnectionLost, Breaks, InTransaction, Rank,
           Ahead, Looping, Unfinished
      <3> HIDE DEF p, q, u, v
      <3> QED
        BY <1>0, <3>1
    <2>12. CASE Crash(r)
      <3>1. q < p /\ Ahead(r)' = {} /\ v <= u
        BY <1>0, <2>12 DEF TypeOK, TransactionInv, Crash, Breaks, Queries, Rank, Ahead, Looping,
           Unfinished
      <3> HIDE DEF p, q, u, v
      <3> QED
        BY <1>0, <3>1, FS_EmptySet
    <2>13. CASE Aftermath(r)
      <3>1. pc' = pc /\ Ahead(r)' = Ahead(r) /\ v < u
        BY <1>0, <1>1, <2>13 DEF TypeOK, Aftermath, LateCreate, LateLock, LateCommit,
           SessionEnds, Ahead, Unfinished
      <3> HIDE DEF u, v
      <3> QED
        BY <1>0, <3>1
    <2> QED
      BY <2>1, <2>2, <2>3, <2>4, <2>5, <2>6, <2>7, <2>8, <2>9, <2>10, <2>11, <2>12, <2>13
         DEF Progress, Failure, ConnectionLost
  <1>3. StepsLeft(r) = 2 * (p + 4 * a) + u /\ StepsLeft(r)' = 2 * (q + 4 * b) + v
    BY DEF StepsLeft
  <1> HIDE DEF p, q, a, b, u, v
  <1> QED
    BY <1>0, <1>2, <1>3

\* Every step of a run counts: with n files it and the database for it take at
\* most 22 + 8 * n steps, whatever fails, breaks or is killed and whatever the
\* other runs and the servers do.  A run does not go on for ever; whether it
\* gets to go on is the other half of EveryRunEnds.
THEOREM EveryStepCounts == Spec => [][OneIsCloser]_vars
  <1>1. InductiveInv /\ TypeOK' /\ [Next]_vars => [OneIsCloser]_vars
    <2> SUFFICES ASSUME InductiveInv, TypeOK', Next PROVE OneIsCloser
      OBVIOUS
    <2>1. CASE \E r \in Runs : Progress(r) \/ Failure(r) \/ Aftermath(r)
      BY <2>1, OwnStep, OtherSessions DEF OneIsCloser
    <2>2. CASE \E s \in Servers : Serve(s)
      <3>1. UNCHANGED <<sent, session, program>>
        BY <2>2 DEF Serve, CheckTable, UpsertRow, Use, Restart, database
      <3>2. \A o \in Runs : Ahead(o)' = Ahead(o)
        BY <3>1 DEF Ahead, program
      <3>3. \A o \in Runs : StepsLeft(o)' = StepsLeft(o)
        BY <3>1, <3>2 DEF StepsLeft, Unfinished, program
      <3> QED
        BY <2>2, <3>3 DEF OneIsCloser
    <2> QED
      BY <2>1, <2>2 DEF Next
  <1>2. InductiveInv => TypeOK
    BY DEF InductiveInv
  <1> QED
    BY <1>1, <1>2, Invariance, PTL DEF Spec
=============================================================================
