# A verification project for the Rezilient auth control plane

The auth control plane registers tenants and instances, enrols an instance with
a one-time code, mints and validates service-scoped tokens for it, rotates its
client secret, and keeps an audit trail. Everything it knows is one JSON
document, kept in one row of a Postgres table (or in memory, in tests). This
directory holds TLA+ models of its services and of its store, TLC configurations
that check them on small instances, and TLAPS proofs of what matters most.

Paths below are those of the repository (`src/...`); a line such as `token:263`
is `src/token/token.service.ts:263`, and so on for the other services.

## The system

| component | state it keeps | operations | correct when |
|---|---|---|---|
| `RegistryService` | `tenants`, `instances`, `client_credentials` | create and switch tenants and instances; add, adopt, promote, revoke a secret version | sources unique; a pending secret usable; at most two live secrets |
| `EnrollmentService` | `enrollment_records`, `code_hash_to_id`, `client_id_to_instance` | issue a code, exchange it | one grant per code and per instance; index agrees with credentials |
| `RotationService` | none (registry) | start, record adoption, complete, revoke | cutover only to a secret the client has |
| `TokenService` | `outage_active` | switch outage mode, mint, validate, two decisions for work in flight | decisions justified by what was true while they were made; a disable bites in bounded time |
| `OnboardingService` | none (audit trail) | report a launch, register interest | a retry is answered with the first record; only overlapping reports record a launch twice |
| `AuditService` | `audit_events`, `cross_service_audit_events` | record, list | a listing ends with the newest events and shows no effect before its cause |
| state store (`persistence/`) | the document | `read`, `mutate` | a mutation happens in one instant, once, and stays |
| `server.ts` | none | guards, bodies, routes, source mappings, overview, error mapping | only admitted requests act; a refusal leaves nothing; replies agree with states of the store |
| `migrate.ts` | `acp_schema_migrations`, the schema | apply migrations under an advisory lock | each applied once, in order, recorded if and only if applied |
| `index.ts`, `utils/` | configuration | bootstrap | starts with a token for each API it enables, on a migrated database; never replaces the state row |

How they interact. Every HTTP request is an async handler. A handler calls one
service; a service reads the whole document (`read`) or changes it (`mutate`),
and nothing else is shared. Each `await` of the store lets other requests run,
so **a handler is a sequence of atomic steps, one per store access**, and any
other handler may come between two of them. Almost every operation is a
mutation followed by `audit.record`, which is a mutation of its own. A handler
that throws (a query failed, the process died) keeps what it has committed.

What is hard, then: decisions made on copies that other handlers have outdated;
checks in one transaction and effects in another; an effect that is stored while
its evidence or its reply is lost; expiry by a clock that moves between the
steps; inside the Postgres store, locks, lost answers to COMMIT, failing
rollbacks and a pool of five connections; and, in the migrations, programs that
die while the database still works on what they sent. `PROJECT.json` lists each hazard with
its line and the properties that would catch it going wrong.

## Modules

| module | models | notes |
|---|---|---|
| `AtomicStore` | what the services rely on in `ControlPlaneStateStore.mutate` | abstract: Apply, Return, Fail |
| `PostgresStateStore` | `postgres-state-store.ts`: the queries of `mutate` and `read` | implements `AtomicStore` |
| `InMemoryStateStore` | `in-memory-state-store.ts`: clone, await, assign | implements it until two calls overlap |
| `SecretLifecycle` | what is promised of the versions of one client secret | abstract: Issue, Deliver, Adopt, Promote, Revoke |
| `SecretRotation` | `rotation.service.ts`, the credential operations of the registry, the secret check and adoption in `mintToken` | one enrolled instance; implements `SecretLifecycle` |
| `Enrollment` | `enrollment.service.ts` | |
| `Onboarding` | `reportInstanceLaunch`, `registerInstanceInterest` | |
| `Registry` | tenants and instances of `registry.service.ts` | extended by the next three |
| `SourceMappings` | listing and lookup in `server.ts` | reads `Registry` |
| `TokenService` | outage switch, `mintToken`, `evaluateInFlightEntitlement`, `evaluateRefreshDuringOutage`, `validateToken` | reads `Registry` |
| `TokenDecisions` | nothing further: the history variables and properties of `TokenService` | |
| `AuditTrail` | `record` and `list` of `audit.service.ts` | extended by `Server` |
| `Server` | a request from arrival to reply: guards, body, an operation with its record, error mapping | two operations stand for all |
| `Migrations` | `migrate.ts` query by query, and the start of servers on the same database | |
| `XProofs`, for `X` in `SecretRotation`, `Enrollment`, `StateStore`, `Migrations`, `TokenDecisions`, `SourceMappings`, `Onboarding`, `Server` | the theorems about `X` | `StateStoreProofs` extends both stores, whose names therefore differ, `ServerProofs` has the theorems of `AuditTrail` too |
| `MC*` | instances for TLC | |

Two layers meet at `AtomicStore`. Below it, `PostgresStateStore` shows that the
row, its lock and the pool deliver atomic mutations; above it, the service
modules take one mutation, and one read, as one step. The service modules do not
instantiate the store, they rely on exactly what the refinement shows. A call
that throws may still take effect later (its COMMIT was under way, with the row
locked until then); the service modules have that case as a mutation whose
handler is cut right after it.

`SecretLifecycle` is the same for the core of the services: it leaves out handlers,
stale copies, the audit trail and the clock, and says how a version of a secret may go
from issue to revocation. `Life`, the refinement mapping, reads that off what is stored.

Above the services, `Server` has what every request goes through: it composes the
guards, the body and the error mapping with `AuditTrail` and with two operations,
the outage switch (whose record contains a flag that is read back) and
`createTenant` (which can be refused). Beside all of them, `Migrations` has the
database before and while servers use it.

### Correspondence with the code

* **Handlers.** `req[r]` is the handler of request `r`: `pc` is the next store
  access, the other fields are the local variables it still needs. Actions carry
  the names of the functions whose step they are (`StartRotation`, the read;
  `AddNextSecretVersion`, the mutation; `RotationStarted`, the audit record and
  the reply). `Abandon` cuts a handler between any two steps. A handler is
  reused after its request, so the number of requests is not bounded, only the
  number in flight.
* **Values.** A secret version `sv_n` is `n`; `NoVersion` and `NoExpiry` stand
  for undefined fields; hashes, random tokens and signatures are the values
  they are made from. A code or client id is drawn from a finite set: codes never
  repeat, client ids may, because the code has a check for them.
* **Statuses.** Tenants, entitlements and instances are active or not; the code
  tells `suspended` from `disabled` in the reason it gives and nowhere else.
* **Replies.** `known`, `held`, `enrolled` and `tokens` are what has reached a
  client: replies may be lost, at the step that sends them.
* **Audit trail.** `AuditTrail` has it in full: an event is stamped when `record`
  is called and stored in a later step, and the listing sorts by that time. The
  service modules keep what their properties read: a set of events in
  `SecretRotation` and `Enrollment`, a sequence in `Onboarding`. Where no property
  reads it (`Registry`, `TokenService`) the record is a step without an effect.
* **Time.** Clocks count ticks. `TokenService` has `Second` ticks in a second,
  because tokens hold whole seconds (`token:243`) and the refresh grace is
  compared in milliseconds (`token:453`).
* **Launch reports.** What `eventInstanceId` and `eventIdempotencyKey` find in a
  stored event is `StoredInstance` and `StoredKey`: without a tenant the event has no
  instance of its own and the one in its metadata counts, which the request's metadata
  overrides, as it does the key. `NoKey` and `NoInstance` in metadata are values of
  another type, which erase what they replace. `Plain` reports are those whose metadata
  changes neither.
* **Requests at the server.** `size` is the length of the body that the client
  sends, `total` what `readJsonBody` has counted; chunks are of any size. A body
  that does not parse, lacks a field or never completes is `BadBody`; the parsers
  themselves are left out, and so are the patterns by which `mapLifecycleError` tells
  an error (`Mapped` is what they give). An export may have a limit, `NoLimit`, or one
  that is no positive integer (`BadLimit`), which is refused after the guards. `owed` is
  the events whose success was answered before a read of the trail was asked for, `shown`
  what that read returned.
* **Source mappings.** Each of the six query parameters is a field of `Filter`, `None`
  when it is not given; `InstancePasses` and `TenantPasses` test them one by one, as the
  loop over the instances does. `Filters` is those that requests may use.
* **Expiry dates.** `evaluateRefreshDuringOutage` takes its date from the caller.
  `Dates` are those up to the last expiry of any token; `NoDate` is a date that does not
  parse, whose comparison is false like that of NaN, and so pauses at once.
* **Postgres.** The state is the sequence of mutations it contains, so a lost or
  repeated update shows. `FOR UPDATE` waits for `lock`; any query can fail, the one of
  `read` included (`ReadFails`, which also is `parseState` throwing); an
  unanswered COMMIT leaves the session in `inDoubt`, and the database then
  commits or aborts it, also after the call has thrown. A missing row (somebody
  deleted it after start-up) takes the insert path.
* **Migrations.** A release is a function from migration ids to checksums; `pc` is
  the next query of a run. A query that was sent may finish after its program has
  gone (`LateCreate`, `LateLock`, `LateCommit`), until the session ends and with it
  its transaction and its lock.

## Runs

All runs finish on two workers in about three minutes at most. "States" are distinct.

| run | instance | states | shows |
|---|---|---|---|
| `rotation` | 2 handlers, 3 versions, clock 0..2, overlap 1 | 2,069,376 | seven properties of the credential record, below; implements `SecretLifecycle` |
| `runbook_mint` | the same | violated | divergence 1 |
| `enrollment` | 2 handlers, 2 instances, 2 codes, 2 client ids, clock 0..3 | 57,986 | one grant; index; expiry; evidence; stranded credentials stay stranded |
| `onboarding` | 3 overlapping reports and registrations, with and without a tenant, a key, a key or an instance in the metadata; lost replies | 13,033,768 | a duplicate reply names the first record of what it repeats; only a report that read too early is recorded again |
| `launch_race`, `launch_metadata` | two requests | violated | divergences 2 and 3 |
| `postgres` | 3 mutations, 1 read, pool of 2; every query may fail | 146,806 | no stale copy; read your writes; never all calls wait; implements `AtomicStore`; every call settles |
| `memory` | 4 calls, throwing ones included | 28,292 | implements `AtomicStore` until calls overlap; only overlapping calls are lost |
| `source_mappings` | 2 tenants, 2 instances, 2 sources, 1 scope, 5 kinds of filters, 1 reader, 1 administrator | 552,261 | sources unique; listing complete and sound; lookup exact |
| `tokens` | 1 tenant, 1 instance, 1 token, clock 0..7 with 2 ticks a second, Ttl = Skew = 1, Grace = 2, any date or an invalid one | 4,858,230 | grants, refusals and pauses are justified; how long a disabled instance's token lives |
| `server` | 2 handlers, 1 tenant, 2 configurations, 2 events, clock 0..1, bodies up to one over the limit, exports with a limit of 1, without, or with a bad one | 3,981,343 | admission; refusals leave nothing; an export is complete up to its limit, no effect before its cause; the last switch's own event, once stored, tells the flag |
| `migrations` | 2 runs, each of any of 4 releases of 2 files, and 1 server | 647,501 | once, in order, recorded; the state row survives; every run ends |

Why the bounds are enough. *Rotation*: two handlers give every pair of a stale
read and a write; three versions give the enrolment secret, a rotation, and a
second rotation after a cutover or a revocation, with the first one's handlers
still running; the clock passes the overlap. *Enrollment*: one code presented
twice, two codes for one instance, an expired code, a client id drawn twice.
*Postgres*: with three callers and two connections one holds the lock, one waits
for it and one waits for the pool, and a read competes for the connection.
*Memory*: a lost update needs two calls, a third and a fourth give an update before
and after it. *Onboarding*: two reports overlap, the third follows both or lies between them; metadata
holds no key or `k2`, no instance or `i2`, so a replaced key or instance is that of
another report, or the report's own. *Source mappings and tokens*: mutations are atomic, so one
administrator produces every order of them; readers do not affect one another, so
one suffices. The filters are none, three pairs that have each of the six once, and the four on
scope and state together; states are asked for with the active value, and one scope
is all there is, an instance having it or not. Time passes Ttl + Skew after a disable and Ttl + Grace after an issue,
in half seconds, so that the rounding to seconds shows; Grace is above Skew, as
`PausedTokenIsDead` presumes. *Server*: with two handlers a switch overtakes
another one between any two of its steps, and an export is read between a change
and its record; two events are a cause and an effect, at one instant or two, and an export
with a limit of one leaves one of them out; a body
is as long as the limit or one byte longer, in one chunk or in two. *Migrations*:
releases that are extended, changed or not a prefix of each other; two runs make
one wait for the lock, which a dead session of the other may hold. The theorems
below remove the bounds from every safety property.

Mutation testing: each property of a passing run has a mutant, a definition with
a plausible bug, kept beside the definition it replaces and marked `Mutant`.

Each module of a component says in `TypeOK` what its variables hold. No run spends
a property on it: the theorems `TypeCorrect` prove it (`MemoryInvariant` for the
in-memory store), and each mutant that breaks a type breaks a property too.

### Properties worth knowing

* `NextIsUsable`: a rotation started from a stale read never makes a revoked or
  current version pending. `addNextSecretVersion` re-checks, and ids only grow.
* `CutoverOnlyToHeldSecret`: delivery of a secret is recorded nowhere, and yet a
  cutover is only to a secret the client has, because adoption needs a mint with it.
* `LifecycleSpec`: an adoption that is stored late, after its version was promoted
  or revoked, is not an event in any life, and a rotation that started from a stale
  read is one only if no other came between. `revokeSecret` accepts the current
  version as well (`registry:448`); the instance then has no secret until the one on
  trial is promoted.
* `DoomedUntilRevoked`: a rotation whose overlap ran out unadopted can be neither
  completed nor restarted; only `revokeSecret` of its version unblocks it. This
  is how the code behaves; operators have to know it.
* `RevivedOnlyByPromotion`: promotion clears `valid_until`, so an adopted version that
  is promoted late works again after a gap. Nothing else revives one. Adopted
  means marked as adopted: a mint that matched the secret in time may store its mark
  after the overlap ended (`token:263`), and that counts.
* `LostCredentialsStayLost`: an exchange whose reply is lost strands the
  instance: later codes for it are denied as used, and no operation undoes it.
* `GrantJustified`, `DenialJustified`: each gate (outage, tenant, instance) was
  open at some moment of a granted mint. Not all at the same moment: with an
  instance disabled and then its tenant enabled between the two reads, a mint is
  granted that no single state of the store allows.
* `ListingSound`: what a listing shows passed the filters on the instance at one moment
  of the request, and those on its tenant at one moment; not both at the same one, since
  instances and tenants are read one after the other. `ListingComplete`: whatever passed all of
  them throughout is listed.
* `DisableBitesInTime`: after a disable tokens are accepted for Ttl + Skew at
  most, plus the duration of the mint that was under way.
* `PausedTokenIsDead`: work that gives the expiry of its token is paused
  (`evaluateRefreshDuringOutage`) only when `validateToken` refuses that token as well. The
  date is the caller's: any other one decides about itself, and an invalid one pauses at
  once, grace or not (`token:450`). The property needs a grace above the skew:
  validation drops the milliseconds and accepts to the end of the last second, so
  with an equal grace the pause comes up to a second early. `index.ts` accepts any
  two positive values.
* `RefusedLeavesNothing`: 403, 404, 409 and 413 say that the request changed
  nothing. A 400 does not: when the audit record of a stored change fails, its error
  matches no pattern and is answered with the same `invalid_admin_request`.
* `ExportHasEvidence`: an export shows every change that was answered before it was
  asked for. With `?limit=` it may leave some out, but then it is full, and shows nothing that
  was stored before one it leaves out was recorded.
* `LastSwitcherReports`: the event that the last switch of the outage flag stores
  tells the flag as it is. The trail alone does not: a switch that was overtaken reports
  its own value or the other one's, by when it reads back, and may be stored
  last; and the event of the last switch may never be stored.
* `DuplicatesNameFirst`, `RepeatsOverlap`: a retry gets the reference of the first record of
  its launch, and whatever is recorded again read the trail before that record. Both are
  about reports that are stored under the key and the instance they name (`Plain`). A report
  without a tenant whose metadata has an `instance_id` is stored under that one
  (`onboarding:65-79`, `onboarding:119-128`), so its retries find nothing, and somebody
  else's report may find it.
* `PageHasNewest`: events of overlapping requests may be listed in another order
  than they were stored in, since the time is read before the transaction; events
  where one was stored before the other was recorded may not.
* `NobodyIsStuck`: a call takes its connection before it asks for the row's lock, so
  calls that wait for the lock can use up the pool. It is never a deadlock, even with
  one connection: the call that has the lock has its connection too, and asks for
  nothing more, or it is gone and its session has yet to be ended.
* `KnownIsCurrent`: from the list to the end a run of the migrations is alone, also
  with respect to sessions whose program is gone: the database frees the lock only
  with the session, when its last COMMIT is decided. The table of migrations,
  though, is created before the lock is taken (`migrate:155`), so one of two first
  runs may fail there; it leaves nothing and can be repeated.
* `EarlierFilesApplied`, `SuccessIsComplete`: a changed checksum is met in its turn,
  so new files before it have been applied when the run fails, and the failed run
  leaves a database that some release does not describe; success is never false.
* `LossNeedsOverlap`: the in-memory store loses an acknowledged mutation only if
  its call awaited while another one did. It does happen, for example to one of two
  `audit.record` calls in one `Promise.all`: "append-only auth audit stream"
  (`CODE_SUMMARY.md:18`) is a promise of the Postgres store. The in-memory one is
  used by tests and `createInMemoryControlPlane`.

### Divergences found

1. `doc/runbooks.md:33` says `complete-rotation` fails "until mint succeeds with
   the next secret version". `mintToken` stores the adoption before it records
   and answers the mint (`token:263`), so completion can follow a mint that
   failed, or that has not finished (`PromotionAfterSuccessfulMint`).
2. `server.test.ts:130`: "records launch telemetry once per idempotency key". Two
   overlapping reports with one key are both recorded (`onboarding:91`,
   `OncePerKey`).
3. The same sentence: a `metadata.idempotency_key` of the request replaces the
   key that is stored (`onboarding:128`), and every retry is recorded again (`RetryNotRecorded`).
   An `instance_id` in the metadata of a report without a tenant does the same. What remains
   of the sentence, for reports whose metadata replaces neither, is `RepeatsOverlap`, which holds.

## Fairness

Two properties need it. `EveryCallSettles` (`PostgresStateStore`) and `EveryRunEnds`
(`Migrations`) assume weak fairness of each call's, or run's, steps together and
of the database's handling of dead sessions: queries are answered or fail, which
the driver does, and a server notices a broken connection. Nothing is assumed of
who gets the lock or a connection next: each call and each run is made once, so a
waiting one is left alone with them in the end. Failures are never fair. No service
has a background task, and a handler only ever waits for the store, so none has a
liveness property of its own.

## Proofs

| module | theorems | what they state |
|---|---|---|
| `SecretRotationProofs` | `PendingVersionIsUsable`, `TwoLiveSecrets`, `CutoverSafe`, `RevocationHolds`, `TrailOrder`, `CurrentHasNoExpiry` | the invariants of the `rotation` run, that at most two secrets work, and that the current one has no `valid_until` |
| | `RevivalOnlyByPromotion`, `LapsedRotationIsStuck` | its two action properties |
| | `RotationImplementsLifecycle` | `Spec => LifecycleSpec` |
| `EnrollmentProofs` | `EnrolledOnce`, `IndexCorrect`, `ExpiryHolds`, `EvidenceOrdered`, `StrandedIsForGood` | the properties of the `enrollment` run |
| `StateStoreProofs` | `NoLostUpdate`, `ReadsSeeWrites`, `NobodyStuck` | the invariants of the `postgres` run |
| | `PostgresImplementsAtomicStore` | `Spec => AtomicSpec` |
| | `AppliedOnceIfReported`, `CommittedStays` | `Promise` and `Grows` of `AtomicStore`, of the Postgres store |
| | `EveryStepCounts` | a call takes at most 22 steps |
| | `LossAfterOverlap`, `AtomicUntilOverlap` | the properties of the `memory` run |
| `MigrationsProofs` | `AppliedOnce`, `KnowledgeIsCurrent`, `FilesInOrder`, `SuccessMeansComplete`, `StateIsKept` | the safety properties of the `migrations` run |
| | `InsertIsFree`, `NobodyStuck`, `EveryStepCounts` | an INSERT never waits or meets a row; runs never all wait; a run of n files takes at most 22 + 8n steps |
| `TokenDecisionsProofs` | `Grants`, `Denials`, `Pauses`, `DisableBites` | the properties of the `tokens` run |
| `SourceMappingsProofs` | `OneInstancePerSource`, `ListingsComplete`, `ListingsSound`, `LookupsExact` | those of `source_mappings` |
| `OnboardingProofs` | `FirstRecordNamed`, `RepeatsNeedOverlap` | those of `onboarding` |
| | `RepliesAgree` | reports of one instance and one key that are answered as duplicates are given the same reference |
| `ServerProofs` | `OnlyAdmitted`, `Refusal`, `Evidence`, `LastSwitch`, `PagesEndWithNewest` | those of `server` |
| each of them | `TypeCorrect` | `[]TypeOK`; for the Postgres store this includes the limit of its pool |

They hold for sets of any size (requests, handlers, calls, runs, tenants, instances,
codes, keys, releases), any number of versions, any clock, and any limits,
lifetimes and overlaps, and any filters and metadata. What they assume is the named ASSUMEs
of the modules, which TLC evaluates on every run: constants have their types; `None`,
`NoOne`, `NoKey`, `NoInstance`, `Absent` and `NoHandler` are distinct from what they stand
beside; readers are not callers; a release names at least one file. `PausedTokenIsDead` states its own
condition on the configuration.

*SecretRotation.* The properties are not inductive. `CutoverOnlyToHeldSecret`
says nothing of handlers about to mark a version as adopted; the strengthening
`InductiveInv` adds what each `pc` implies: a handler past its mint lookup
presents a version some client holds, a version is known, adopted or current only
if it was issued and, beyond the first, only after its `started` record. From
there each of the properties follows. `Inductive` is proved by one lemma per part
(types, store, evidence, handlers), each with one step per action that can
disturb the part. The action properties follow from the invariant; stuckness
needs that a handler cannot be at `mark` for a lapsed version unless it passed
the check before.

The refinement maps the four mutations and the delivery to the five actions of
`SecretLifecycle`, and every other step to a stutter. That nothing is on trial when a
version is issued is `AtMostTwoLive`; that its id is the next one, although it was chosen
from an older read, is a fact about the handler in `LocalInv`: the version before it exists.

*Enrollment.* `OneGrant` is not inductive: that a code is not granted again rests
on its record being marked, that an instance is not on its credentials, and both on
no handler writing an old record back. `InductiveInv` adds that a code about to be
stored was generated by that handler alone and is not stored yet, that a handler
presenting a code has one recorded as issued, and that each grant left its mark in
the store. `NothingLost` (codes, records and credentials never go away) carries
every other part, and gives `StrandedIsForGood`.

*StateStore.* `StoreInv` adds to `CopyIsFresh` where each call is relative
to the row: not applied before its COMMIT, applied at `releaseOk`, neither applied
nor returned while in doubt; and that a missing row is the empty one. COMMIT, on
time or late, is `Apply`; `Release` and a failed connect are `Return` or `Fail`;
every other step leaves the abstract state alone. `ReadYourWrites` needs two facts
more (`ReadInv`): a call that returned is in the row, and the row loses nothing
(`RowGrows`, from the refinement); so what was acknowledged before a read is
contained in whatever row the read is given. `AppliedOnceIfReported` and `CommittedStays`
are proved of `AtomicStore` and carried down by the refinement.

`EveryCallSettles` itself needs fairness, but what can go wrong in the code is in its
two halves that do not, and these are proved. `NobodyStuck`: in every state in which a
call is not done, some call does not wait, or the database has a session to end
(`HolderInv`: who has a connection will give it back, who has the lock is past every
query that waits). `EveryStepCounts`: each step lowers `StepsLeft` of one call and
raises that of none. So the store always can go on, and cannot go on for ever; that a
step which can be taken is taken is the fairness, and stays with TLC.

For the in-memory store the invariant relates clones to the state: the clone of a
call that has met no other is the state with its own mutation (`CloneInv`), a mutation
that is not assigned is in no other clone (`EarlyInv`), and one that was assigned by a
call which met nobody is in the state and in every clone of it (`KeptInv`), so no later
assignment can drop it.

*Migrations.* Everything rests on there being one session at a time that works on
files. `ExclusiveInv`: a run that lists or applies files holds the lock, and so
does a session with an open transaction, its program alive or not.
`TransactionInv` is what the transaction of an open session has done at each query,
`WorkInv` what the holder of the lock knows: its list agrees with the table on the files
still to come, those behind it are recorded with the checksums of its release, and the
one in the transaction is not recorded yet. A late COMMIT is the case to watch, because its session works with nobody
there to read its answer; the lock is still its own, so the same lemma covers it. The two halves of
`EveryRunEnds` that need no fairness are proved as for the store: only the advisory lock is
ever waited for (`InsertIsFree`), its holder moves or its session is to end
(`NobodyStuck`), and every step of a run or of the database for it counts
(`EveryStepCounts`), by the files that are left and the position in the loop.

*TokenDecisions.* A decision combines gates read at different times. `ReadInv` ties
each read to the history: a gate found open is not in `shut`, one found closed
has set `disturbed`. `KnownInv` (the tenant of an instance is there) and the registry
never removing a record nor moving an instance make the second read one of the
right tenant. `DisableBitesInTime` follows from `WatchInv`: a token for what is
watched, and a mint that the watched gate has not been shut to, began no later than
the gate was last open. The rounding to
seconds is confined to `WholeSeconds`.

*SourceMappings.* The same with two reads of a listing or a lookup: `ReadInv` says
that the tenants of the first read which pass the filters are in `fitTenants`, and which
instances must be listed. `RegistryMoves` says
once, for every operation of an administrator, what it keeps (records, the tenant of
an instance, distinct sources); nothing else of the registry is used.

*Onboarding.* `RepeatsOverlap` is about what was read before an event was recorded, and
so has to be known while the record is still to come: `ReportInv` says that a report
at its record found nothing like it in what it read, `TrailInv` that an event tells
the input of the request that recorded it, and that this request has ended.
`DuplicatesNameFirst` and `RepliesAgree` rest on the trail only growing at its end: the
first event like a report stays the first one, whatever overlapping reports record later.

*Server.* `StepsInv` says what the request of a handler at each of its steps is and has
done: past the guards it is admitted, before its mutation it has left nothing, and
the status it is about to send is one its effects allow. `SwitchInv` is `LastSwitcherReports`
one step earlier: a flag read back is the flag, as long as its handler switched last.
`EvidenceInv` says from the read of the trail on what a listing shows of what was owed to
its request. Without a limit that is all of the trail; with one it is a page, and
that such a page is full and has nothing stored before what it leaves out was recorded is the
same argument about the sort as `PageHasNewest`.
`StampInv` says that events stored before one was stamped are not younger.
`PageHasNewest` is about the sort: the position of an event in the listing is
`Rank`, the number of events listed after it, shown to be a bijection onto the positions, so
that a page has as many events as were asked for; and by `StampInv` no effect is
listed before its cause.

Induction over data is avoided in two places: "the first file that is not
recorded" is a least element (`LeastElement`, by well-foundedness of `<`), and sorting is counting.

Only model-checked: the liveness properties `EveryCallSettles` and `EveryRunEnds`,
which need fairness and ENABLED (what of them needs neither is proved), and the three
divergences, which are counterexamples.

## Not modelled

The routes that `Server` leaves out (they differ in the service they call, whose
steps are in the module of that service); which fields a route asks for (a body that
lacks one is `BadBody`); the parsing of
configuration values and the wiring of the services; hashing, signing and random
values; of `parseState` and `serializeState` all but the mutations in a state; redaction of audit metadata (a pure
function of one value); the cross-service form of an event (a library outside the
repository) and its listing; the numbers in the overview; `setInitialCredentials`
(no caller in the server). A crash of a server is every handler in flight being
cut; nothing in memory survives one or is needed.

Of `validateToken` only the check that depends on the clock is modelled, the expiry
(`token:373-375`); signature, issuer and scope are functions of the token,
and the catch around them, which answers `denied_token_malformed` also when the
audit record of an accepted token fails (`token:431`), changes no state.

## Plan

Done: the stores and their refinement, rotation and the life of a secret, enrollment,
onboarding, registry, source mappings, tokens, the audit trail, the server and the
migrations; every invariant, action property and refinement that a run checks is proved.

Left: `ControlPlane`, enrollment, rotation and the gates of a mint for one instance
together, with a mint that passes all of them. The parts share only the registry, by
atomic mutations that touch different fields, so it would say nothing of one part that
its own module does not; it would tie a grant to the enrolment of its instance.
