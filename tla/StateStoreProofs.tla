-------------------------- MODULE StateStoreProofs --------------------------
(***************************************************************************)
(* The two stores and AtomicStore.                                         *)
(*                                                                         *)
(* The Postgres store implements AtomicStore for every set of calls and    *)
(* every pool.  The refinement holds step by step because of one fact that *)
(* is invariant: a transaction that is past its SELECT ... FOR UPDATE and  *)
(* not yet ended is alone in holding the lock, so the row it read is still *)
(* the committed row when it commits.  The in-memory store, at the end,    *)
(* has no lock: it does the same until two of its calls overlap.           *)
(***************************************************************************)
EXTENDS PostgresStateStore, InMemoryStateStore, FiniteSetTheorems, TLAPS

AfterFailure == {"rollback", "releaseFailed", "done"}

BeforeCommit == {"connect", "begin", "select", "insert", "mutate", "update",
                 "commit"}

\* The types the argument needs (the bound of the pool plays no part in it).
StoreTypes ==
    /\ row \in [present: BOOLEAN, version: Nat, state: Seq(Callers)]
    /\ pc \in [Callers \cup Readers -> CallerSteps \cup ReaderSteps]
    /\ work \in [Callers -> Snapshot]
    /\ inDoubt \subseteq Callers
    /\ outcome \in [Callers -> {"pending", "ok", "failed"}]

\* Where a call is says whether the row contains it and whether it returned.
CallInv ==
    \A c \in Callers :
        /\ pc[c] \in BeforeCommit => ~Atomic!Applied(c)
        /\ pc[c] = "releaseOk" => Atomic!Applied(c)
        /\ pc[c] # "done" => outcome[c] = "pending"
        /\ c \in inDoubt => /\ pc[c] \in AfterFailure
                            /\ outcome[c] # "ok"
                            /\ ~Atomic!Applied(c)

MissingRowIsEmpty == ~row.present => row.version = 0 /\ row.state = <<>>

StoreInv == StoreTypes /\ CopyIsFresh /\ CallInv /\ MissingRowIsEmpty

-----------------------------------------------------------------------------
\* The invariant holds before any call is made.
LEMMA InitStore == Init => StoreInv
  <1> SUFFICES ASSUME Init PROVE StoreInv
    OBVIOUS
  <1>1. inDoubt = {} /\ \A c \in Callers : c \notin Readers /\ pc[c] = "connect"
    BY ReadersAssumption DEF Init
  <1>2. StoreTypes
    <2>1. <<>> \in Seq(Callers)
      OBVIOUS
    <2>2. row \in [present: BOOLEAN, version: Nat, state: Seq(Callers)]
      <3>1. PICK p \in BOOLEAN : row = [present |-> p, version |-> 0, state |-> <<>>]
        BY DEF Init
      <3>2. [present |-> p, version |-> 0, state |-> <<>>]
              \in [present: BOOLEAN, version: Nat, state: Seq(Callers)]
        BY <2>1
      <3> QED
        BY <3>1, <3>2
    <2>3. Empty \in Snapshot
      BY <2>1 DEF Empty, Snapshot
    <2>4. pc \in [Callers \cup Readers -> CallerSteps \cup ReaderSteps]
      BY DEF Init, CallerSteps, ReaderSteps
    <2> QED
      BY <2>2, <2>3, <2>4 DEF Init, StoreTypes
  <1>3. CopyIsFresh
    BY <1>1 DEF CopyIsFresh
  <1>4. CallInv
    BY <1>1 DEF Init, CallInv, BeforeCommit, Atomic!Applied
  <1>5. MissingRowIsEmpty
    BY DEF Init, MissingRowIsEmpty
  <1> QED
    BY <1>2, <1>3, <1>4, <1>5 DEF StoreInv

\* What a transaction makes of its copy of the row is such a copy again.
LEMMA CopyTypes ==
    ASSUME NEW w \in Snapshot, NEW c \in Callers
    PROVE  /\ [w EXCEPT !.state = Append(w.state, c)] \in Snapshot
           /\ [w EXCEPT !.version = w.version + 1] \in Snapshot
  <1>1. w.version + 1 \in Nat /\ Append(w.state, c) \in Seq(Callers)
    BY DEF Snapshot
  <1> QED
    BY <1>1 DEF Snapshot

\* The typing of the row, of the copies and of where calls are.
LEMMA TypesStep == StoreTypes /\ [Next]_vars => StoreTypes'
  <1> SUFFICES ASSUME StoreTypes, [Next]_vars PROVE StoreTypes'
    OBVIOUS
  <1> USE DEF StoreTypes, Goto, CallerSteps, ReaderSteps
  <1>1. CASE UNCHANGED vars
    BY <1>1 DEF vars
  <1>2. ASSUME NEW d \in Readers, Read(d) \/ ReadFails(d) PROVE StoreTypes'
    BY <1>2 DEF Read, ReadBegin, ReadConnect, ReadQuery, ReadFails
  <1>3. ASSUME NEW c \in Callers, Failure(c) \/ Aftermath(c) PROVE StoreTypes'
    <2>1. CASE Failure(c) \/ SessionEnds(c)
      BY <2>1 DEF Failure, ConnectFails, QueryFails, CommitUnanswered,
         RollbackFails, SessionEnds
    <2>2. CASE LateCommit(c)
      BY <2>2 DEF LateCommit, Committed, Snapshot
    <2> QED
      BY <1>3, <2>1, <2>2 DEF Aftermath
  <1>4. ASSUME NEW c \in Callers, Progress(c) PROVE StoreTypes'
    <2>1. CASE Connect(c) \/ Begin(c) \/ SelectNothing(c) \/ InsertConflict(c)
               \/ Rollback(c) \/ Release(c)
      BY <2>1 DEF Connect, Begin, SelectNothing, InsertConflict, Rollback, Release
    <2>2. CASE SelectForUpdate(c)
      BY <2>2 DEF SelectForUpdate, Snapshot
    <2>3. CASE InsertRow(c)
      BY <2>3 DEF InsertRow, Empty, Snapshot
    <2>4. CASE Mutate(c) \/ Update(c)
      <3>1. \E w \in Snapshot : work' = [work EXCEPT ![c] = w]
        BY <2>4, CopyTypes DEF Mutate, Update
      <3> QED
        BY <2>4, <3>1 DEF Mutate, Update
    <2>5. CASE Commit(c)
      BY <2>5 DEF Commit, Committed, Snapshot
    <2> QED
      BY <1>4, <2>1, <2>2, <2>3, <2>4, <2>5 DEF Progress
  <1> QED
    BY <1>1, <1>2, <1>3, <1>4 DEF Next

-----------------------------------------------------------------------------
\* Only COMMIT changes the row, and only its own caller's step moves a caller:
\* what CopyIsFresh says of the others is not touched because the lock excludes
\* them from the steps between SELECT ... FOR UPDATE and COMMIT.
LEMMA FreshStep == StoreInv /\ [Next]_vars => CopyIsFresh'
  <1> SUFFICES ASSUME StoreInv, [Next]_vars PROVE CopyIsFresh'
    OBVIOUS
  <1> USE DEF StoreInv, CopyIsFresh
  <1>0. \A c \in Callers : c # NoOne /\ c \notin Readers
    BY CallersAssumption, ReadersAssumption
  <1>1. CASE UNCHANGED vars
    BY <1>1 DEF vars
  <1>2. ASSUME NEW d \in Readers, Read(d) \/ ReadFails(d) PROVE CopyIsFresh'
    BY <1>0, <1>2 DEF Read, ReadBegin, ReadConnect, ReadQuery, ReadFails, Goto, StoreTypes
  <1>3. ASSUME NEW c \in Callers, Failure(c) PROVE CopyIsFresh'
    BY <1>3 DEF Failure, ConnectFails, QueryFails, CommitUnanswered,
       RollbackFails, Goto, StoreTypes
  <1>4. ASSUME NEW c \in Callers, Aftermath(c) PROVE CopyIsFresh'
    BY <1>0, <1>4 DEF Aftermath, SessionEnds, LateCommit, Committed, CallInv,
       AfterFailure
  <1>5. ASSUME NEW c \in Callers, Progress(c) PROVE CopyIsFresh'
    <2> USE DEF Goto, StoreTypes
    <2>1. CASE Connect(c) \/ Begin(c) \/ SelectNothing(c) \/ InsertConflict(c)
               \/ Release(c)
      BY <2>1 DEF Connect, Begin, SelectNothing, InsertConflict, Release
    <2>2. CASE Rollback(c)
      BY <2>2 DEF Rollback
    <2>3. CASE SelectForUpdate(c)
      BY <1>0, <2>3 DEF SelectForUpdate
    <2>4. CASE InsertRow(c)
      BY <1>0, <2>4 DEF InsertRow, Empty, MissingRowIsEmpty
    <2>5. CASE Mutate(c)
      BY <2>5 DEF Mutate, Snapshot
    <2>6. CASE Update(c)
      BY <2>6 DEF Update, Snapshot
    <2>7. CASE Commit(c)
      BY <1>0, <2>7 DEF Commit, Committed, CallInv, AfterFailure
    <2> QED
      BY <1>5, <2>1, <2>2, <2>3, <2>4, <2>5, <2>6, <2>7 DEF Progress
  <1> QED
    BY <1>1, <1>2, <1>3, <1>4, <1>5 DEF Next

\* The committed row changes by a COMMIT and in no other way.
LEMMA RowUnchanged ==
    ASSUME [Next]_vars, \A c \in Callers : ~Committed(c)
    PROVE  UNCHANGED row
  BY DEF Next, vars, Progress, Failure, Aftermath, Read, ConnectFails,
     QueryFails, CommitUnanswered, RollbackFails, SessionEnds, LateCommit, Commit,
     Connect, Begin, SelectForUpdate, SelectNothing, InsertRow, InsertConflict,
     Mutate, Update, Rollback, Release, ReadBegin, ReadConnect, ReadQuery, ReadFails

\* A row that a mutation has created is not missing any more.
LEMMA MissingStep == StoreInv /\ [Next]_vars => MissingRowIsEmpty'
  <1> SUFFICES ASSUME StoreInv, [Next]_vars PROVE MissingRowIsEmpty'
    OBVIOUS
  <1>1. CASE UNCHANGED row
    BY <1>1 DEF StoreInv, MissingRowIsEmpty
  <1>2. ASSUME NEW c \in Callers, Committed(c) PROVE MissingRowIsEmpty'
    BY <1>2 DEF Committed, MissingRowIsEmpty
  <1> QED
    BY <1>1, <1>2, RowUnchanged

\* A sequence after Append contains what it contained and the new element.
LEMMA AppendMembers ==
    ASSUME NEW S, NEW s \in Seq(S), NEW c \in S, NEW d \in S
    PROVE  (\E i \in DOMAIN Append(s, c) : Append(s, c)[i] = d)
             <=> d = c \/ \E i \in DOMAIN s : s[i] = d
  <1>1. /\ DOMAIN s = 1..Len(s) /\ Len(s) \in Nat
        /\ DOMAIN Append(s, c) = 1..Len(s) + 1
        /\ Append(s, c)[Len(s) + 1] = c
        /\ \A i \in 1..Len(s) : Append(s, c)[i] = s[i]
    OBVIOUS
  <1>2. ASSUME NEW i \in 1..Len(s) + 1 PROVE i \in 1..Len(s) \/ i = Len(s) + 1
    BY <1>1
  <1>3. Len(s) + 1 \in 1..Len(s) + 1 /\ 1..Len(s) \subseteq 1..Len(s) + 1
    BY <1>1
  <1> QED
    BY <1>1, <1>2, <1>3

\* COMMIT, answered or late, adds exactly its caller to the committed state.
LEMMA CommitAppends ==
    ASSUME StoreInv, NEW c \in Callers, Commit(c) \/ LateCommit(c)
    PROVE  /\ row'.state = Append(row.state, c)
           /\ ~Atomic!Applied(c) /\ outcome[c] # "ok"
           /\ \A d \in Callers : Atomic!Applied(d)' <=> d = c \/ Atomic!Applied(d)
  <1>1. row'.state = Append(row.state, c)
    BY DEF Commit, LateCommit, Committed, StoreInv, CopyIsFresh
  <1>2. ~Atomic!Applied(c) /\ outcome[c] # "ok"
    BY DEF Commit, LateCommit, StoreInv, CallInv, BeforeCommit
  <1>3. row.state \in Seq(Callers)
    BY DEF StoreInv, StoreTypes
  <1>4. ASSUME NEW d \in Callers
        PROVE  Atomic!Applied(d)' <=> d = c \/ Atomic!Applied(d)
    <2> DEFINE old == row.state
    <2>1. (\E i \in DOMAIN Append(old, c) : Append(old, c)[i] = d)
            <=> d = c \/ \E i \in DOMAIN old : old[i] = d
      <3> HIDE DEF old
      <3>1. old \in Seq(Callers)
        BY <1>3 DEF old
      <3> QED
        BY <3>1, <1>4, AppendMembers
    <2>2. Atomic!Applied(d) <=> \E i \in DOMAIN old : old[i] = d
      BY DEF Atomic!Applied
    <2>3. Atomic!Applied(d)' <=> \E i \in DOMAIN Append(old, c) : Append(old, c)[i] = d
      BY <1>1 DEF Atomic!Applied
    <2> QED
      BY <2>1, <2>2, <2>3
  <1> QED
    BY <1>1, <1>2, <1>4

\* A call is in the row from its COMMIT on and not before, and returns once.
LEMMA CallStep == StoreInv /\ [Next]_vars => CallInv'
  <1> DEFINE Fact(d) ==
        /\ pc[d] \in BeforeCommit => ~Atomic!Applied(d)
        /\ pc[d] = "releaseOk" => Atomic!Applied(d)
        /\ pc[d] # "done" => outcome[d] = "pending"
        /\ d \in inDoubt => /\ pc[d] \in AfterFailure
                            /\ outcome[d] # "ok"
                            /\ ~Atomic!Applied(d)
  <1> SUFFICES ASSUME StoreInv, [Next]_vars, NEW d \in Callers PROVE Fact(d)'
    BY DEF CallInv
  <1> USE DEF BeforeCommit, AfterFailure, Goto
  <1>0. /\ pc \in [Callers \cup Readers -> CallerSteps \cup ReaderSteps]
        /\ outcome \in [Callers -> {"pending", "ok", "failed"}]
        /\ Fact(d)
        /\ d \notin Readers
    BY ReadersAssumption DEF StoreInv, StoreTypes, CallInv
  <1>1. ASSUME NEW c \in Callers, Commit(c) \/ LateCommit(c) PROVE Fact(d)'
    <2>1. Atomic!Applied(d)' <=> d = c \/ Atomic!Applied(d)
      BY <1>1, CommitAppends
    <2>2. pc[c] = "commit" \/ (c \in inDoubt /\ pc[c] \in AfterFailure)
      BY <1>1 DEF Commit, LateCommit, StoreInv, CallInv
    <2>3. d \in inDoubt => lock = d
      BY DEF StoreInv, CopyIsFresh
    <2>4. lock = c
      BY <1>1 DEF Commit, LateCommit, StoreInv, CopyIsFresh
    <2>5. CASE Commit(c)
      BY <1>0, <2>1, <2>3, <2>4, <2>5 DEF Commit
    <2>6. CASE LateCommit(c)
      BY <1>0, <2>1, <2>2, <2>3, <2>4, <2>6 DEF LateCommit
    <2> QED
      BY <1>1, <2>5, <2>6
  <1>2. CASE \A c \in Callers : ~(Commit(c) \/ LateCommit(c))
    <2>0. UNCHANGED row
      BY <1>2 DEF Next, vars, Progress, Failure, Aftermath, Read, ConnectFails,
         QueryFails, CommitUnanswered, RollbackFails, SessionEnds, Connect, Begin,
         SelectForUpdate, SelectNothing, InsertRow, InsertConflict, Mutate, Update,
         Rollback, Release, ReadBegin, ReadConnect, ReadQuery, ReadFails
    <2>1. Atomic!Applied(d)' <=> Atomic!Applied(d)
      BY <2>0 DEF Atomic!Applied
    <2>2. CASE UNCHANGED vars
      BY <1>0, <2>1, <2>2 DEF vars
    <2>3. ASSUME NEW e \in Readers, Read(e) \/ ReadFails(e)
          PROVE  pc'[d] = pc[d] /\ outcome' = outcome /\ inDoubt' = inDoubt
      BY <1>0, <2>3 DEF Read, ReadBegin, ReadConnect, ReadQuery, ReadFails
    <2>4. ASSUME NEW c \in Callers, Progress(c) \/ Failure(c) \/ Aftermath(c)
          PROVE  /\ pc'[d] \in BeforeCommit => pc[d] \in BeforeCommit
                 /\ pc'[d] = "releaseOk" => pc[d] = "releaseOk"
                 /\ pc'[d] # "done" => pc[d] # "done" /\ outcome'[d] = outcome[d]
                 /\ d \in inDoubt' =>
                      /\ pc'[d] \in AfterFailure /\ outcome'[d] # "ok"
                      /\ d \in inDoubt \/ pc[d] = "commit"
      <3>1. CASE Aftermath(c) \/ Failure(c)
        BY <1>0, <1>2, <3>1 DEF Aftermath, SessionEnds, Failure, ConnectFails,
           QueryFails, CommitUnanswered, RollbackFails
      <3>2. CASE Progress(c)
        BY <1>0, <1>2, <3>2 DEF Progress, Connect, Begin, SelectForUpdate,
           SelectNothing, InsertRow, InsertConflict, Mutate, Update, Rollback,
           Release
      <3> QED
        BY <2>4, <3>1, <3>2
    <2> QED
      BY <1>0, <2>1, <2>2, <2>3, <2>4 DEF Next
  <1> QED
    BY <1>1, <1>2

-----------------------------------------------------------------------------
\* The invariant of the store.
THEOREM StoreInvariant == Spec => []StoreInv
  <1>1. StoreInv /\ [Next]_vars => StoreInv'
    BY TypesStep, FreshStep, CallStep, MissingStep DEF StoreInv
  <1> QED
    BY InitStore, <1>1, PTL DEF Spec

\* Between SELECT ... FOR UPDATE and COMMIT a transaction works on the
\* committed state: mutate cannot lose an update.
THEOREM NoLostUpdate == Spec => []CopyIsFresh
  <1>1. StoreInv => CopyIsFresh
    BY DEF StoreInv
  <1> QED
    BY StoreInvariant, <1>1, PTL

\* Every step of the store is a step of AtomicStore or leaves it unchanged:
\* COMMIT, answered or late, is Apply, and Release and a failed connect are the return.
LEMMA StepRefines == StoreInv /\ [Next]_vars => [Atomic!Next]_(Atomic!vars)
  <1> SUFFICES ASSUME StoreInv, [Next]_vars
               PROVE  Atomic!Next \/ UNCHANGED <<row.state, outcome>>
    BY DEF Atomic!vars
  <1>1. ASSUME NEW c \in Callers, Commit(c) \/ LateCommit(c)
        PROVE  Atomic!Apply(c)
    BY <1>1, CommitAppends DEF Atomic!Apply, Commit, LateCommit
  <1>2. ASSUME NEW c \in Callers, Release(c) \/ ConnectFails(c)
        PROVE  Atomic!Return(c) \/ Atomic!Fail(c)
    BY <1>2 DEF Release, ConnectFails, StoreInv, CallInv, Atomic!Return, Atomic!Fail
  <1>3. CASE UNCHANGED <<row, outcome>>
    BY <1>3
  <1> QED
    BY <1>1, <1>2, <1>3 DEF Atomic!Next, Next, vars, Progress, Failure, Aftermath,
       Read, QueryFails, CommitUnanswered, RollbackFails, SessionEnds, Connect,
       Begin, SelectForUpdate, SelectNothing, InsertRow, InsertConflict, Mutate,
       Update, Rollback, ReadBegin, ReadConnect, ReadQuery, ReadFails

\* PostgresControlPlaneStateStore.mutate keeps the promise of
\* ControlPlaneStateStore.mutate.
THEOREM PostgresImplementsAtomicStore == Spec => AtomicSpec
  <1>1. Init => Atomic!Init
    BY DEF Init, Atomic!Init
  <1> QED
    BY <1>1, StoreInvariant, StepRefines, PTL DEF Spec, AtomicSpec, Atomic!Spec

-----------------------------------------------------------------------------
(* What follows from AtomicStore alone, and so holds of the Postgres store *)

AtomicInv ==
    /\ row.state \in Seq(Callers)
    /\ outcome \in [Callers -> {"pending", "ok", "failed"}]
    /\ Atomic!Promise

\* Apply, Return and Fail keep the promise; only Apply, which has not happened
\* to its call before, changes the state.
LEMMA AtomicStep ==
    ASSUME AtomicInv, [Atomic!Next]_(Atomic!vars)
    PROVE  AtomicInv' /\ [Atomic!Grows]_(Atomic!vars)
  <1> USE DEF AtomicInv, Atomic!Promise
  <1>1. CASE UNCHANGED Atomic!vars
    BY <1>1 DEF Atomic!vars, Atomic!Applied
  <1>2. ASSUME NEW c \in Callers, Atomic!Apply(c)
        PROVE  AtomicInv' /\ Atomic!Grows
    <2> DEFINE old == row.state
               new == row'.state
    <2>1. /\ old \in Seq(Callers) /\ new = Append(old, c) /\ outcome' = outcome
          /\ \A i \in DOMAIN old : old[i] # c
      BY <1>2 DEF Atomic!Apply, Atomic!Applied
    <2>2. /\ DOMAIN old = 1..Len(old) /\ Len(old) \in Nat
          /\ DOMAIN new = 1..Len(old) + 1 /\ new[Len(old) + 1] = c
          /\ \A i \in DOMAIN old : new[i] = old[i]
          /\ new \in Seq(Callers)
      <3> HIDE DEF old, new
      <3> QED
        BY <2>1
    <2>3. Atomic!Grows
      BY <2>2 DEF Atomic!Grows
    <2>4. \A i, j \in DOMAIN new : new[i] = new[j] => i = j
      <3>1. \A i, j \in DOMAIN old : old[i] = old[j] => i = j
        OBVIOUS
      <3> HIDE DEF old, new
      <3> QED
        BY <2>1, <2>2, <3>1
    <2>5. \A d \in Callers : outcome'[d] = "ok" => \E i \in DOMAIN new : new[i] = d
      <3>1. \A d \in Callers : outcome[d] = "ok" => \E i \in DOMAIN old : old[i] = d
        BY DEF Atomic!Applied
      <3> HIDE DEF old, new
      <3> QED
        BY <2>1, <2>2, <3>1
    <2> QED
      BY <2>1, <2>2, <2>3, <2>4, <2>5 DEF Atomic!Applied
  <1>3. ASSUME NEW c \in Callers, Atomic!Return(c) \/ Atomic!Fail(c)
        PROVE  AtomicInv' /\ Atomic!Grows
    <2>1. row'.state = row.state
      BY <1>3 DEF Atomic!Return, Atomic!Fail
    <2>2. outcome' \in [Callers -> {"pending", "ok", "failed"}]
      BY <1>3 DEF Atomic!Return, Atomic!Fail
    <2>3. \A d \in Callers : outcome'[d] = "ok" => Atomic!Applied(d)
      BY <1>3 DEF Atomic!Return, Atomic!Fail
    <2> QED
      BY <2>1, <2>2, <2>3 DEF Atomic!Applied, Atomic!Grows
  <1> QED
    BY <1>1, <1>2, <1>3 DEF Atomic!Next

\* The promise is kept by every store that implements AtomicStore.
LEMMA AtomicInvariant == AtomicSpec => []AtomicInv /\ [][Atomic!Grows]_(Atomic!vars)
  <1>1. Atomic!Init => AtomicInv
    <2> SUFFICES ASSUME Atomic!Init PROVE AtomicInv
      OBVIOUS
    <2>1. <<>> \in Seq(Callers) /\ DOMAIN <<>> = {}
      OBVIOUS
    <2> QED
      BY <2>1 DEF Atomic!Init, AtomicInv, Atomic!Promise
  <1>2. AtomicInv /\ [Atomic!Next]_(Atomic!vars)
          => AtomicInv' /\ [Atomic!Grows]_(Atomic!vars)
    BY AtomicStep
  <1> QED
    BY <1>1, <1>2, PTL DEF AtomicSpec, Atomic!Spec

\* No mutation is applied twice, and one whose call has returned is applied,
\* whichever queries fail and however late a COMMIT is processed.
THEOREM AppliedOnceIfReported == Spec => []Atomic!Promise
  <1>1. AtomicInv => Atomic!Promise
    BY DEF AtomicInv
  <1> QED
    BY <1>1, PostgresImplementsAtomicStore, AtomicInvariant, PTL

\* What is committed is never undone nor reordered.
THEOREM CommittedStays == Spec => [][Atomic!Grows]_(Atomic!vars)
  BY PostgresImplementsAtomicStore, AtomicInvariant, PTL

-----------------------------------------------------------------------------
(* Reads: what has returned "ok" is in the row, and stays there.           *)

ReadInv ==
    /\ acked \in [Readers -> SUBSET Callers]
    /\ view \in [Readers -> SUBSET Callers]
    /\ \A c \in Callers : outcome[c] = "ok" => c \in In(row)
    /\ \A d \in Readers : acked[d] \subseteq In(row)
    /\ ReadYourWrites

\* The row keeps what it contains, and contains calls only.
LEMMA RowGrows ==
    ASSUME StoreInv, StoreInv', [Next]_vars
    PROVE  In(row) \subseteq In(row') /\ In(row) \subseteq Callers
  <1>1. \A c \in Callers : c \in In(row) <=> Atomic!Applied(c)
    BY DEF In, Atomic!Applied
  <1>2. \A c \in Callers : c \in In(row') <=> Atomic!Applied(c)'
    BY DEF In, Atomic!Applied
  <1>3. In(row) \subseteq Callers
    <2>1. row.state \in Seq(Callers)
      BY DEF StoreInv, StoreTypes
    <2> QED
      BY <2>1 DEF In
  <1>4. CASE \E c \in Callers : Commit(c) \/ LateCommit(c)
    <2>1. \A d \in Callers : Atomic!Applied(d) => Atomic!Applied(d)'
      BY <1>4, CommitAppends
    <2> QED
      BY <1>1, <1>2, <1>3, <2>1
  <1>5. CASE ~\E c \in Callers : Commit(c) \/ LateCommit(c)
    <2>1. UNCHANGED row
      BY <1>5 DEF Next, vars, Progress, Failure, Aftermath, Read, ConnectFails,
         QueryFails, CommitUnanswered, RollbackFails, SessionEnds, Connect, Begin,
         SelectForUpdate, SelectNothing, InsertRow, InsertConflict, Mutate, Update,
         Rollback, Release, ReadBegin, ReadConnect, ReadQuery, ReadFails
    <2> QED
      BY <1>3, <2>1
  <1> QED
    BY <1>4, <1>5

\* A read that has begun knows only calls that are in the row for good.
LEMMA ReadStep == StoreInv /\ StoreInv' /\ ReadInv /\ [Next]_vars => ReadInv'
  <1> SUFFICES ASSUME StoreInv, StoreInv', ReadInv, [Next]_vars PROVE ReadInv'
    OBVIOUS
  <1>0. /\ In(row) \subseteq In(row') /\ In(row) \subseteq Callers
        /\ pc \in [Callers \cup Readers -> CallerSteps \cup ReaderSteps]
        /\ outcome \in [Callers -> {"pending", "ok", "failed"}]
        /\ acked \in [Readers -> SUBSET Callers] /\ view \in [Readers -> SUBSET Callers]
        /\ \A c \in Callers : c \notin Readers
    BY RowGrows, ReadersAssumption DEF StoreInv, StoreTypes, ReadInv
  <1>1. \A c \in Callers : outcome'[c] = "ok" => c \in In(row')
    <2> SUFFICES ASSUME NEW c \in Callers, outcome'[c] = "ok", outcome[c] # "ok"
                 PROVE  c \in In(row)
      BY <1>0 DEF ReadInv
    <2>1. Release(c) /\ pc[c] = "releaseOk"
      BY <1>0 DEF Next, vars, Progress, Failure, Aftermath, Read, ConnectFails,
         QueryFails, CommitUnanswered, RollbackFails, SessionEnds, LateCommit, Commit,
         Connect, Begin, SelectForUpdate, SelectNothing, InsertRow, InsertConflict,
         Mutate, Update, Rollback, Release, ReadBegin, ReadConnect, ReadQuery, ReadFails
    <2> QED
      BY <2>1 DEF StoreInv, CallInv, Atomic!Applied, In
  <1>2. CASE UNCHANGED vars
    BY <1>0, <1>1, <1>2 DEF ReadInv, ReadYourWrites, vars
  <1>3. ASSUME NEW c \in Callers, Progress(c) \/ Failure(c) \/ Aftermath(c)
        PROVE  ReadInv'
    <2>1. acked' = acked /\ view' = view /\ \A d \in Readers : pc'[d] = pc[d]
      <3>1. CASE Progress(c)
        BY <1>0, <3>1 DEF Progress, Connect, Begin, SelectForUpdate, SelectNothing,
           InsertRow, InsertConflict, Mutate, Update, Commit, Rollback, Release, Goto
      <3>2. CASE Failure(c) \/ Aftermath(c)
        BY <1>0, <3>2 DEF Failure, ConnectFails, QueryFails, CommitUnanswered,
           RollbackFails, Aftermath, LateCommit, SessionEnds, Goto
      <3> QED
        BY <1>3, <3>1, <3>2
    <2> QED
      BY <1>0, <1>1, <2>1 DEF ReadInv, ReadYourWrites
  <1>4. ASSUME NEW d \in Readers, ReadBegin(d)
        PROVE  ReadInv'
    <2>1. {c \in Callers : outcome[c] = "ok"} \subseteq In(row)
      BY DEF ReadInv
    <2>2. /\ acked' \in [Readers -> SUBSET Callers] /\ view' = view /\ row' = row
          /\ \A e \in Readers : acked'[e] \subseteq In(row)
          /\ \A e \in Readers : pc'[e] = "done" => pc[e] = "done" /\ acked'[e] = acked[e]
      BY <1>0, <1>4, <2>1 DEF ReadBegin, Goto, ReadInv
    <2> QED
      BY <1>0, <1>1, <2>2 DEF ReadInv, ReadYourWrites
  <1>5. ASSUME NEW d \in Readers, ReadConnect(d) \/ ReadQuery(d) \/ ReadFails(d)
        PROVE  ReadInv'
    <2>1. /\ acked' = acked /\ row' = row
          /\ view' \in [Readers -> SUBSET Callers]
          /\ \A e \in Readers : pc'[e] = "done" =>
                 \/ pc[e] = "done" /\ view'[e] = view[e]
                 \/ view'[e] = In(row)
      BY <1>0, <1>5 DEF ReadConnect, ReadQuery, ReadFails, Goto
    <2> QED
      BY <1>0, <1>1, <2>1 DEF ReadInv, ReadYourWrites
  <1> QED
    BY <1>2, <1>3, <1>4, <1>5 DEF Next, Read

\* The invariant of reads.
LEMMA ReadInvariant == Spec => []ReadInv
  <1>1. Init => ReadInv
    <2> SUFFICES ASSUME Init PROVE ReadInv
      OBVIOUS
    <2>1. \A d \in Readers : pc[d] = "idle" /\ d \notin Callers
      BY ReadersAssumption DEF Init
    <2> QED
      BY <2>1 DEF Init, ReadInv, ReadYourWrites
  <1>2. StoreInv /\ StoreInv' /\ ReadInv /\ [Next]_vars => ReadInv'
    BY ReadStep
  <1> QED
    BY <1>1, <1>2, StoreInvariant, PTL DEF Spec

\* A read sees what had returned before it began, and nothing uncommitted.
THEOREM ReadsSeeWrites == Spec => []ReadYourWrites
  <1>1. ReadInv => ReadYourWrites
    BY DEF ReadInv
  <1> QED
    BY <1>1, ReadInvariant, PTL

-----------------------------------------------------------------------------
(* The pool                                                                *)

PoolInv == /\ clients \subseteq Callers \cup Readers
           /\ IsFiniteSet(clients)
           /\ Cardinality(clients) <= PoolSize

LockInv == lock \in Callers \cup {NoOne}

\* A connection is taken while one is free, and given back by who has it.
LEMMA PoolStep == PoolInv /\ [Next]_vars => PoolInv'
  <1> SUFFICES ASSUME PoolInv, [Next]_vars PROVE PoolInv'
    OBVIOUS
  <1>0. Cardinality(clients) \in Nat /\ PoolSize \in Nat
    BY FS_CardinalityType, PoolSizeAssumption DEF PoolInv
  <1>1. ASSUME NEW c \in Callers \cup Readers, clients' = clients \cup {c},
               Cardinality(clients) < PoolSize
        PROVE  PoolInv'
    <2>1. /\ IsFiniteSet(clients \cup {c})
          /\ \/ Cardinality(clients \cup {c}) = Cardinality(clients)
             \/ Cardinality(clients \cup {c}) = Cardinality(clients) + 1
      BY FS_AddElement DEF PoolInv
    <2> QED
      BY <1>0, <1>1, <2>1 DEF PoolInv
  <1>2. ASSUME NEW c, clients' = clients \ {c}
        PROVE  PoolInv'
    <2>1. clients \ {c} \in SUBSET clients
      OBVIOUS
    <2>2. /\ IsFiniteSet(clients \ {c})
          /\ Cardinality(clients \ {c}) <= Cardinality(clients)
      BY <2>1, FS_Subset DEF PoolInv
    <2>3. Cardinality(clients \ {c}) \in Nat
      BY <2>2, FS_CardinalityType
    <2> QED
      BY <1>0, <1>2, <2>2, <2>3 DEF PoolInv
  <1>3. CASE UNCHANGED clients
    BY <1>3 DEF PoolInv
  <1>4. \/ UNCHANGED clients
        \/ \E c \in Callers \cup Readers :
               \/ clients' = clients \cup {c} /\ Cardinality(clients) < PoolSize
               \/ clients' = clients \ {c}
    BY DEF Next, vars, Progress, Failure, Aftermath, Read, ConnectFails,
       QueryFails, CommitUnanswered, RollbackFails, SessionEnds, LateCommit, Commit,
       Connect, Begin, SelectForUpdate, SelectNothing, InsertRow, InsertConflict,
       Mutate, Update, Rollback, Release, ReadBegin, ReadConnect, ReadQuery, ReadFails
  <1> QED
    BY <1>1, <1>2, <1>3, <1>4

\* The pool never exceeds its limit.
LEMMA PoolInvariant == Spec => []PoolInv
  <1>1. Init => PoolInv
    <2> SUFFICES ASSUME Init PROVE PoolInv
      OBVIOUS
    <2>1. IsFiniteSet({}) /\ Cardinality({}) = 0
      BY FS_EmptySet
    <2> QED
      BY <2>1, PoolSizeAssumption DEF Init, PoolInv
  <1> QED
    BY <1>1, PoolStep, PTL DEF Spec

\* Every variable has its type, the number of connections included.
THEOREM TypeCorrect == Spec => []TypeOK
  <1>1. Init => LockInv
    BY DEF Init, LockInv
  <1>2. LockInv /\ [Next]_vars => LockInv'
    BY DEF LockInv, Next, vars, Progress, Failure, Aftermath, Read, ConnectFails,
       QueryFails, CommitUnanswered, RollbackFails, SessionEnds, LateCommit, Commit,
       Committed, Connect, Begin, SelectForUpdate, SelectNothing, InsertRow,
       InsertConflict, Mutate, Update, Rollback, Release, ReadBegin, ReadConnect,
       ReadQuery, ReadFails
  <1>3. StoreInv /\ ReadInv /\ PoolInv /\ LockInv => TypeOK
    BY DEF StoreInv, StoreTypes, ReadInv, PoolInv, LockInv, TypeOK
  <1> QED
    BY <1>1, <1>2, <1>3, PoolInvariant, StoreInvariant, ReadInvariant, PTL DEF Spec

-----------------------------------------------------------------------------
(* Waiting, and how long a call can take                                   *)

Holding == {"begin", "select", "insert", "mutate", "update", "commit", "rollback",
            "releaseOk", "releaseFailed", "query"}

\* Who has a connection has yet to give it back, and who has the lock is past
\* the queries that wait for it.
HolderInv ==
    /\ LockInv
    /\ clients \subseteq Callers \cup Readers
    /\ \A c \in clients : pc[c] \in Holding
    /\ lock # NoOne => pc[lock] \in {"mutate", "update", "commit"} \cup AfterFailure

\* A step of a call changes neither what another one holds nor where it is.
LEMMA HolderStep == StoreTypes /\ HolderInv /\ [Next]_vars => HolderInv'
  <1> SUFFICES ASSUME StoreTypes, HolderInv, [Next]_vars PROVE HolderInv'
    OBVIOUS
  <1> USE DEF HolderInv, LockInv, Holding, AfterFailure
  <1>0. /\ pc \in [Callers \cup Readers -> CallerSteps \cup ReaderSteps]
        /\ \A c \in Callers : c \notin Readers /\ c # NoOne
    BY CallersAssumption, ReadersAssumption DEF StoreTypes
  <1>1. CASE UNCHANGED vars
    BY <1>1 DEF vars
  <1>2. ASSUME NEW d \in Readers, Read(d) \/ ReadFails(d) PROVE HolderInv'
    BY <1>0, <1>2 DEF Read, ReadBegin, ReadConnect, ReadQuery, ReadFails, Goto
  <1>3. ASSUME NEW c \in Callers, Failure(c) \/ Aftermath(c) PROVE HolderInv'
    BY <1>0, <1>3 DEF Failure, ConnectFails, QueryFails, CommitUnanswered, RollbackFails,
       Aftermath, LateCommit, SessionEnds, Committed, Goto
  <1>4. ASSUME NEW c \in Callers, Progress(c) PROVE HolderInv'
    <2> USE DEF Goto
    <2>1. CASE Connect(c) \/ Begin(c) \/ SelectNothing(c) \/ InsertConflict(c)
      BY <1>0, <2>1 DEF Connect, Begin, SelectNothing, InsertConflict
    <2>2. CASE SelectForUpdate(c) \/ InsertRow(c)
      BY <1>0, <2>2 DEF SelectForUpdate, InsertRow
    <2>3. CASE Mutate(c) \/ Update(c)
      BY <1>0, <2>3 DEF Mutate, Update
    <2>4. CASE Commit(c) \/ Rollback(c) \/ Release(c)
      BY <1>0, <2>4 DEF Commit, Committed, Rollback, Release
    <2> QED
      BY <1>4, <2>1, <2>2, <2>3, <2>4 DEF Progress
  <1> QED
    BY <1>1, <1>2, <1>3, <1>4 DEF Next

\* Who holds the lock does not wait, who holds a connection waits for the lock
\* at most, and a pool that is full is held by somebody.
LEMMA SomebodyMoves == StoreTypes /\ PoolInv /\ HolderInv => NobodyIsStuck
  <1> SUFFICES ASSUME StoreTypes, PoolInv, HolderInv, ~AllDone,
                      \A c \in Callers \cup Readers : ~Settled(c) => Waits(c)
               PROVE  \E c \in Callers :
                          lock = c /\ pc[c] \in {"rollback", "releaseFailed", "done"}
    BY DEF NobodyIsStuck
  <1>1. lock # NoOne
    <2> SUFFICES ASSUME lock = NoOne PROVE FALSE
      OBVIOUS
    <2>1. PICK c \in Callers \cup Readers : ~Settled(c)
      BY DEF AllDone
    <2>2. Cardinality(clients) >= PoolSize
      BY <2>1 DEF Waits
    <2>3. clients # {}
      BY <2>2, FS_EmptySet, PoolSizeAssumption
    <2>4. PICK e \in clients : TRUE
      BY <2>3
    <2>5. e \in Callers \cup Readers /\ pc[e] \in Holding
      BY <2>4 DEF PoolInv, HolderInv
    <2> QED
      BY <2>5 DEF Holding, Waits, Settled
  <1>2. lock \in Callers /\ pc[lock] \in {"mutate", "update", "commit"} \cup AfterFailure
    BY <1>1 DEF HolderInv, LockInv
  <1>3. pc[lock] \in {"connect", "select", "insert", "done", "failed"}
    BY <1>2 DEF Waits, Settled
  <1> QED
    BY <1>2, <1>3 DEF AfterFailure

\* For every pool, also one of a single connection, the calls of a process never
\* wait for one another in a circle, whatever fails.
THEOREM NobodyStuck == Spec => []NobodyIsStuck
  <1>1. Init => HolderInv
    BY DEF Init, HolderInv, LockInv
  <1>2. StoreInv => StoreTypes
    BY DEF StoreInv
  <1> QED
    BY <1>1, <1>2, HolderStep, SomebodyMoves, PoolInvariant, StoreInvariant, PTL DEF Spec

\* How far a call is from its end, whichever way it takes.
Rank == [idle |-> 10, connect |-> 9, query |-> 8, begin |-> 8, select |-> 7, insert |-> 6,
         mutate |-> 5, update |-> 4, commit |-> 3, rollback |-> 2, releaseOk |-> 1,
         releaseFailed |-> 1, done |-> 0, failed |-> 0]

\* A bound of the steps that a call, and the database for its session, can
\* still take.
StepsLeft(c) == 2 * Rank[pc[c]]
                  + (IF c \in Callers /\ lock = c THEN 1 ELSE 0)
                  + (IF c \in inDoubt THEN 1 ELSE 0)

\* One call comes closer to its end, and no other one is set back.
OneIsCloser ==
    \E c \in Callers \cup Readers :
        /\ StepsLeft(c)' < StepsLeft(c)
        /\ \A d \in (Callers \cup Readers) \ {c} : StepsLeft(d)' = StepsLeft(d)

\* What StepsLeft is made of.
LEMMA RankTypes ==
    ASSUME StoreTypes, NEW c \in Callers \cup Readers
    PROVE  Rank[pc[c]] \in 0..10 /\ StepsLeft(c) \in 0..22
  <1>1. Rank[pc[c]] \in 0..10
    BY DEF StoreTypes, CallerSteps, ReaderSteps, Rank
  <1> QED
    BY <1>1 DEF StepsLeft

\* The same after a step.
LEMMA RankTypesNext ==
    ASSUME StoreTypes', NEW c \in Callers \cup Readers
    PROVE  Rank[pc'[c]] \in 0..10 /\ StepsLeft(c)' \in 0..22
  <1>1. Rank[pc'[c]] \in 0..10
    BY DEF StoreTypes, CallerSteps, ReaderSteps, Rank
  <1> QED
    BY <1>1 DEF StepsLeft

\* Each step brings one call closer, by the way its pc goes, or by what the
\* database does about its lock and its COMMIT.
LEMMA StepIsCloser == StoreInv /\ StoreTypes' /\ Next => OneIsCloser
  <1> SUFFICES ASSUME StoreInv, StoreTypes', Next PROVE OneIsCloser
    OBVIOUS
  <1>0. /\ pc \in [Callers \cup Readers -> CallerSteps \cup ReaderSteps]
        /\ inDoubt \subseteq Callers /\ inDoubt' \subseteq Callers
        /\ \A c \in Callers : c \notin Readers /\ c # NoOne
        /\ \A c \in Callers \cup Readers : /\ Rank[pc[c]] \in Nat /\ Rank[pc'[c]] \in Nat
                                           /\ StepsLeft(c) \in Nat /\ StepsLeft(c)' \in Nat
    <2>1. StoreTypes
      BY DEF StoreInv
    <2>2. \A c \in Callers \cup Readers : /\ Rank[pc[c]] \in 0..10 /\ Rank[pc'[c]] \in 0..10
                                          /\ StepsLeft(c) \in 0..22 /\ StepsLeft(c)' \in 0..22
      BY <2>1, RankTypes, RankTypesNext
    <2>3. inDoubt \subseteq Callers /\ inDoubt' \subseteq Callers
      BY <2>1 DEF StoreTypes
    <2>4. pc \in [Callers \cup Readers -> CallerSteps \cup ReaderSteps]
      BY <2>1 DEF StoreTypes
    <2>5. \A c \in Callers : c \notin Readers /\ c # NoOne
      BY CallersAssumption, ReadersAssumption
    <2> QED
      BY <2>2, <2>3, <2>4, <2>5
  \* A call that goes on, and takes the lock or leaves a COMMIT behind.
  <1>1. ASSUME NEW c \in Callers,
               \A d \in Callers \cup Readers : d # c => pc'[d] = pc[d],
               Rank[pc'[c]] < Rank[pc[c]],
               lock' = lock \/ {lock, lock'} = {c, NoOne},
               \A d \in Callers : d # c => (d \in inDoubt' <=> d \in inDoubt),
               lock' # c \/ lock' = lock \/ c \notin inDoubt'
        PROVE  OneIsCloser
    <2>1. \A d \in (Callers \cup Readers) \ {c} : StepsLeft(d)' = StepsLeft(d)
      BY <1>0, <1>1 DEF StepsLeft
    <2>2. 2 * Rank[pc'[c]] + 2 <= 2 * Rank[pc[c]]
      BY <1>0, <1>1
    <2>3. StepsLeft(c)' < StepsLeft(c)
      BY <1>0, <1>1, <2>2 DEF StepsLeft
    <2> QED
      BY <2>1, <2>3 DEF OneIsCloser
  \* A session that loses its lock while its call stays where it is.
  <1>2. ASSUME NEW c \in Callers, pc' = pc, lock = c, lock' = NoOne,
               inDoubt' = inDoubt \ {c}
        PROVE  OneIsCloser
    <2>1. \A d \in (Callers \cup Readers) \ {c} : StepsLeft(d)' = StepsLeft(d)
      BY <1>0, <1>2 DEF StepsLeft
    <2>2. StepsLeft(c)' < StepsLeft(c)
      BY <1>0, <1>2 DEF StepsLeft
    <2> QED
      BY <2>1, <2>2 DEF OneIsCloser
  <1>3. ASSUME NEW d \in Readers, Read(d) \/ ReadFails(d) PROVE OneIsCloser
    <2>1. /\ Rank[pc'[d]] < Rank[pc[d]]
          /\ \A e \in (Callers \cup Readers) \ {d} : pc'[e] = pc[e]
          /\ lock' = lock /\ inDoubt' = inDoubt
      BY <1>0, <1>3 DEF Read, ReadBegin, ReadConnect, ReadQuery, ReadFails, Goto, Rank
    <2>2. d \notin Callers /\ d \notin inDoubt
      BY <1>0
    <2>3. StepsLeft(d)' < StepsLeft(d)
      BY <1>0, <2>1, <2>2 DEF StepsLeft
    <2>4. \A e \in (Callers \cup Readers) \ {d} : StepsLeft(e)' = StepsLeft(e)
      BY <2>1 DEF StepsLeft
    <2> QED
      BY <2>3, <2>4 DEF OneIsCloser
  <1>4. ASSUME NEW c \in Callers, LateCommit(c) \/ SessionEnds(c)
        PROVE  OneIsCloser
    <2>1. lock = c
      BY <1>4 DEF LateCommit, SessionEnds, StoreInv, CopyIsFresh
    <2> QED
      BY <1>2, <1>4, <2>1 DEF LateCommit, SessionEnds, Committed
  <1>5. ASSUME NEW c \in Callers, Failure(c) PROVE OneIsCloser
    <2>1. /\ Rank[pc'[c]] < Rank[pc[c]]
          /\ \A d \in Callers \cup Readers : d # c => pc'[d] = pc[d]
      BY <1>0, <1>5 DEF Failure, ConnectFails, QueryFails, CommitUnanswered, RollbackFails,
         Goto, Rank
    <2>2. /\ lock' = lock
          /\ \A d \in Callers : d # c => (d \in inDoubt' <=> d \in inDoubt)
      BY <1>5 DEF Failure, ConnectFails, QueryFails, CommitUnanswered, RollbackFails
    <2> QED
      BY <1>1, <2>1, <2>2
  <1>6. ASSUME NEW c \in Callers, Progress(c) PROVE OneIsCloser
    <2>1. /\ Rank[pc'[c]] < Rank[pc[c]]
          /\ \A d \in Callers \cup Readers : d # c => pc'[d] = pc[d]
      <3>1. CASE Connect(c) \/ Begin(c) \/ SelectForUpdate(c) \/ SelectNothing(c)
                 \/ InsertRow(c) \/ InsertConflict(c)
        BY <1>0, <3>1 DEF Connect, Begin, SelectForUpdate, SelectNothing, InsertRow,
           InsertConflict, Goto, Rank
      <3>2. CASE Mutate(c) \/ Update(c) \/ Commit(c) \/ Rollback(c) \/ Release(c)
        BY <1>0, <3>2 DEF Mutate, Update, Commit, Rollback, Release, Goto, Rank
      <3> QED
        BY <1>6, <3>1, <3>2 DEF Progress
    <2>2. CASE Commit(c)
      <3>1. lock = c /\ lock' = NoOne /\ inDoubt' = inDoubt
        BY <2>2 DEF Commit, Committed, StoreInv, CopyIsFresh
      <3> QED
        BY <1>0, <1>1, <2>1, <3>1
    <2>3. CASE SelectForUpdate(c) \/ InsertRow(c)
      <3>1. lock = NoOne /\ lock' = c /\ inDoubt' = inDoubt
        BY <2>3 DEF SelectForUpdate, InsertRow
      <3>2. c \notin inDoubt
        BY <1>0, <3>1 DEF StoreInv, CopyIsFresh
      <3> QED
        BY <1>0, <1>1, <2>1, <3>1, <3>2
    <2>4. CASE Rollback(c)
      <3>1. \/ lock' = lock
            \/ {lock, lock'} = {c, NoOne} /\ lock' # c
        BY <1>0, <2>4 DEF Rollback
      <3>2. \A d \in Callers : d # c => (d \in inDoubt' <=> d \in inDoubt)
        BY <2>4 DEF Rollback
      <3> QED
        BY <1>1, <2>1, <3>1, <3>2
    <2>5. CASE Connect(c) \/ Begin(c) \/ SelectNothing(c) \/ InsertConflict(c)
               \/ Mutate(c) \/ Update(c) \/ Release(c)
      <3>1. lock' = lock /\ inDoubt' = inDoubt
        BY <2>5 DEF Connect, Begin, SelectNothing, InsertConflict, Mutate, Update, Release
      <3> QED
        BY <1>1, <2>1, <3>1
    <2> QED
      BY <1>6, <2>2, <2>3, <2>4, <2>5 DEF Progress
  <1> QED
    BY <1>3, <1>4, <1>5, <1>6 DEF Next, Aftermath

\* A call, with what the database does for its session afterwards, is over
\* after at most 22 steps: with NobodyIsStuck, if queries are answered and
\* broken sessions noticed, every call of mutate and of read comes to its end.
THEOREM EveryStepCounts == Spec => [][OneIsCloser]_vars
  <1>1. StoreInv => StoreTypes
    BY DEF StoreInv
  <1>2. StoreInv /\ StoreInv' /\ [Next]_vars => [OneIsCloser]_vars
    BY StepIsCloser DEF StoreInv
  <1> QED
    BY <1>2, StoreInvariant, PTL DEF Spec

-----------------------------------------------------------------------------
(* InMemoryControlPlaneStateStore                                          *)

Has(s, c) == \E i \in DOMAIN s : s[i] = c

MemoryTypes ==
    /\ state \in Seq(Calls)
    /\ copy \in [Calls -> Seq(Calls)]
    /\ turn \in [Calls -> {"idle", "awaiting", "assigned", "done"}]
    /\ answer \in [Calls -> {"pending", "ok", "failed"}]
    /\ met \subseteq Calls

\* A clone has its own call, and as long as nobody else awaits it is up to date.
CloneInv ==
    \A c \in Calls : turn[c] = "awaiting" =>
        /\ Has(copy[c], c)
        /\ c \notin met => /\ copy[c] = Append(state, c)
                           /\ \A d \in Calls \ {c} : turn[d] # "awaiting"

\* A call that is not assigned is nowhere but in its own clone.
EarlyInv ==
    \A c \in Calls :
        /\ turn[c] # "done" => answer[c] = "pending"
        /\ turn[c] \in {"idle", "awaiting"} =>
               /\ ~Has(state, c)
               /\ \A d \in Calls \ {c} : turn[d] = "awaiting" => ~Has(copy[d], c)

\* A call that was assigned without having met another one is in the state and
\* in every clone of it.
KeptInv ==
    \A c \in Calls : c \notin met /\ (turn[c] = "assigned" \/ answer[c] = "ok") =>
        /\ Has(state, c)
        /\ \A d \in Calls : turn[d] = "awaiting" => Has(copy[d], c)

MemoryInv == MemoryTypes /\ CloneInv /\ EarlyInv /\ KeptInv

\* The invariant holds before any call is made.
LEMMA MemoryInvInit == MemoryInit => MemoryInv
  <1> SUFFICES ASSUME MemoryInit PROVE MemoryInv
    OBVIOUS
  <1> USE DEF MemoryInit
  <1>1. <<>> \in Seq(Calls) /\ DOMAIN <<>> = {}
    OBVIOUS
  <1>2. \A c \in Calls : turn[c] = "idle" /\ answer[c] = "pending" /\ ~Has(state, c)
    BY <1>1 DEF Has
  <1> QED
    BY <1>1, <1>2 DEF MemoryInv, MemoryTypes, CloneInv, EarlyInv, KeptInv

\* The typing of the state and of the clones.
LEMMA MemoryTypesStep == MemoryTypes /\ [MemoryNext]_memoryVars => MemoryTypes'
  <1> SUFFICES ASSUME MemoryTypes, [MemoryNext]_memoryVars PROVE MemoryTypes'
    OBVIOUS
  <1> USE DEF MemoryTypes
  <1>1. CASE UNCHANGED memoryVars
    BY <1>1 DEF memoryVars
  <1>2. ASSUME NEW c \in Calls, Clone(c) PROVE MemoryTypes'
    <2>1. Append(state, c) \in Seq(Calls)
      OBVIOUS
    <2>2. Awaiting \subseteq Calls
      BY DEF Awaiting
    <2> QED
      BY <1>2, <2>1, <2>2 DEF Clone
  <1>3. ASSUME NEW c \in Calls, Assign(c)
        PROVE  MemoryTypes'
    BY <1>3 DEF Assign
  <1>4. ASSUME NEW c \in Calls, Resolve(c) \/ Throw(c)
        PROVE  MemoryTypes'
    BY <1>4 DEF Resolve, Throw
  <1> QED
    BY <1>1, <1>2, <1>3, <1>4 DEF MemoryNext

\* A clone is the state and its own call.
LEMMA CloneHas ==
    ASSUME MemoryTypes, NEW c \in Calls
    PROVE  \A d \in Calls : Has(Append(state, c), d) <=> d = c \/ Has(state, d)
  <1> TAKE d \in Calls
  <1>1. state \in Seq(Calls)
    BY DEF MemoryTypes
  <1>2. (\E i \in DOMAIN Append(state, c) : Append(state, c)[i] = d)
          <=> d = c \/ \E i \in DOMAIN state : state[i] = d
    BY <1>1, AppendMembers
  <1> QED
    BY <1>2 DEF Has

\* A call that clones meets those that await, and they meet it.
LEMMA CloneStep ==
    ASSUME MemoryInv, NEW c \in Calls, Clone(c)
    PROVE  CloneInv' /\ EarlyInv' /\ KeptInv'
  <1> USE DEF MemoryInv, MemoryTypes
  <1>1. /\ turn[c] = "idle" /\ turn' = [turn EXCEPT ![c] = "awaiting"]
        /\ copy' = [copy EXCEPT ![c] = Append(state, c)]
        /\ UNCHANGED <<state, answer>>
        /\ met \subseteq met'
        /\ \A d \in Calls : turn[d] = "awaiting" => d \in met' /\ c \in met'
        /\ \A d \in Calls \ {c} : turn[d] # "awaiting" => (d \in met' <=> d \in met)
    BY DEF Clone, Awaiting
  <1>2. \A d \in Calls : Has(copy'[c], d) <=> d = c \/ Has(state, d)
    BY <1>1, CloneHas
  <1>3. CloneInv'
    BY <1>1, <1>2 DEF CloneInv
  <1>4. EarlyInv'
    BY <1>1, <1>2 DEF EarlyInv
  <1>5. KeptInv'
    BY <1>1, <1>2 DEF KeptInv, EarlyInv
  <1> QED
    BY <1>3, <1>4, <1>5

\* An assignment overwrites what others have assigned since its clone was made;
\* they have met.
LEMMA AssignStep ==
    ASSUME MemoryInv, NEW c \in Calls, Assign(c)
    PROVE  CloneInv' /\ EarlyInv' /\ KeptInv'
  <1> USE DEF MemoryInv, MemoryTypes
  <1>1. /\ turn[c] = "awaiting" /\ turn' = [turn EXCEPT ![c] = "assigned"]
        /\ state' = copy[c]
        /\ UNCHANGED <<copy, answer, met>>
    BY DEF Assign
  <1>2. CloneInv'
    BY <1>1 DEF CloneInv
  <1>3. EarlyInv'
    BY <1>1 DEF EarlyInv
  <1>4. KeptInv'
    BY <1>1 DEF KeptInv, CloneInv, EarlyInv
  <1> QED
    BY <1>2, <1>3, <1>4

\* MemoryInv holds in every reachable state.
THEOREM MemoryInvariant == MemorySpec => []MemoryInv
  <1>1. MemoryInv /\ [MemoryNext]_memoryVars => MemoryInv'
    <2> SUFFICES ASSUME MemoryInv, [MemoryNext]_memoryVars PROVE MemoryInv'
      OBVIOUS
    <2>1. MemoryTypes'
      BY MemoryTypesStep DEF MemoryInv
    <2>2. ASSUME NEW c \in Calls, Resolve(c) \/ Throw(c)
          PROVE  CloneInv' /\ EarlyInv' /\ KeptInv'
      BY ZenonT(30), <2>2 DEF Resolve, Throw, MemoryInv, MemoryTypes, CloneInv,
         EarlyInv, KeptInv
    <2>3. CASE UNCHANGED memoryVars
      <3>1. state' = state /\ copy' = copy /\ turn' = turn /\ answer' = answer /\ met' = met
        BY <2>3 DEF memoryVars
      <3> QED
        BY <2>1, <3>1 DEF MemoryInv, CloneInv, EarlyInv, KeptInv
    <2> QED
      BY <2>1, <2>2, <2>3, CloneStep, AssignStep DEF MemoryInv, MemoryNext
  <1> QED
    BY <1>1, MemoryInvInit, PTL DEF MemorySpec

\* Of the calls that returned only those are lost that awaited their mutator
\* while another call did.
THEOREM LossAfterOverlap == MemorySpec => []LossNeedsOverlap
  <1>1. MemoryInv => LossNeedsOverlap
    BY DEF MemoryInv, KeptInv, Has, LossNeedsOverlap, Promised!Applied
  <1> QED
    BY <1>1, MemoryInvariant, PTL

\* Until two calls overlap each step is one of AtomicStore: the assignment is
\* Apply, the caller's turn is Return, and a mutator that throws is Fail.
THEOREM AtomicUntilOverlap == MemorySpec => AtomicWhileAlone
  <1>1. MemoryInit => Promised!Init
    BY DEF MemoryInit, Promised!Init
  <1>2. ASSUME MemoryInv, [MemoryNext]_memoryVars, met' = {}
        PROVE  Promised!Next \/ UNCHANGED Promised!vars
    <2> USE DEF MemoryInv, MemoryTypes, Has, Promised!Applied, Promised!Next
    <2>1. ASSUME NEW c \in Calls, Clone(c)
          PROVE  UNCHANGED Promised!vars
      BY <2>1 DEF Clone, Promised!vars
    <2>2. ASSUME NEW c \in Calls, Assign(c)
          PROVE  Promised!Apply(c)
      BY <1>2, <2>2 DEF Assign, CloneInv, EarlyInv, Promised!Apply
    <2>3. ASSUME NEW c \in Calls, Resolve(c)
          PROVE  Promised!Return(c)
      BY <1>2, <2>3 DEF Resolve, KeptInv, EarlyInv, Promised!Return
    <2>4. ASSUME NEW c \in Calls, Throw(c)
          PROVE  Promised!Fail(c)
      <3>1. answer[c] = "pending" /\ state' = state
        BY <1>2, <2>4 DEF Throw, EarlyInv
      <3> QED
        BY <2>4, <3>1 DEF Throw, Promised!Fail
    <2>5. CASE UNCHANGED memoryVars
      BY <2>5 DEF memoryVars, Promised!vars
    <2> QED
      BY <1>2, <2>1, <2>2, <2>3, <2>4, <2>5 DEF MemoryNext
  <1>3. MemoryInv /\ [MemoryNext]_memoryVars
          => [met' = {} => Promised!Next]_(Promised!vars)
    BY <1>2
  <1> QED
    BY <1>1, <1>3, MemoryInvariant, PTL DEF MemorySpec, AtomicWhileAlone
=============================================================================
