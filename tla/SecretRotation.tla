--------------------------- MODULE SecretRotation ---------------------------
(***************************************************************************)
(* The client secret of one enrolled instance, from enrolment on: dual-    *)
(* secret rotation, adoption by a token mint, cutover and revocation.      *)
(*                                                                         *)
(* Every request of the HTTP server is an async handler.  Between two of   *)
(* its reads and mutations of the state store any other request may run,   *)
(* so a handler is a sequence of steps, one per read or mutation, and a    *)
(* step is atomic because the store serialises mutations.  A handler may   *)
(* be cut between any two steps (crash, failed query): Abandon.            *)
(*                                                                         *)
(* A secret version sv_n is the number n; hashes and tokens are left out.  *)
(***************************************************************************)
EXTENDS Integers

CONSTANTS
    Requests,     \* handlers that may be in flight at the same time
    MaxVersion,   \* bound: secret versions ever created
    MaxTime,      \* bound: the clock
    Overlaps      \* overlap_seconds values an administrator asks for

ASSUME RequestsAssumption == Requests # {}
ASSUME MaxVersionAssumption == MaxVersion \in Nat \ {0}
ASSUME MaxTimeAssumption == MaxTime \in Nat
ASSUME OverlapsAssumption == Overlaps \subseteq Nat \ {0}

Versions == 1..MaxVersion
NoVersion == 0      \* next_secret_version_id is undefined
NoExpiry == -1      \* valid_until is undefined

VARIABLES
    now,          \* the clock every service reads
    issued,       \* version ids in secret_versions
    adopted,      \* versions with adopted_at
    revoked,      \* versions with revoked_at
    validUntil,   \* valid_until of a version
    current,      \* current_secret_version_id
    next,         \* next_secret_version_id
    known,        \* versions whose secret was returned in a delivered reply
    trail,        \* audit events recorded: <<event, version>> (no property
                  \* reads secret_revoked and token_mint_denied: left out)
    req           \* the handler each request is in, and its local variables

credentials == <<issued, adopted, revoked, validUntil, current, next>>
vars == <<now, issued, adopted, revoked, validUntil, current, next, known,
          trail, req>>

Events == {"started", "adopted", "minted", "completed"}

Steps == {"idle", "add", "startAudit", "lookup", "match", "adoptRead", "mark",
          "adoptAudit", "mintAudit", "completeAudit", "revokeAudit"}

\* until and isNext are what a handler read or computed and still holds;
\* wasRevoked remembers that the secret was revoked before the mint began.
RequestState ==
    [pc: Steps, version: Versions \cup {NoVersion}, until: Nat \cup {NoExpiry},
     isNext: BOOLEAN, wasRevoked: BOOLEAN]

Idle == [pc |-> "idle", version |-> NoVersion, until |-> NoExpiry,
         isNext |-> FALSE, wasRevoked |-> FALSE]

At(r, step) == req[r].pc = step
Goto(r, step) == req' = [req EXCEPT ![r].pc = step]
Finish(r) == req' = [req EXCEPT ![r] = Idle]
Audit(event, v) == trail' = trail \cup {<<event, v>>}

-----------------------------------------------------------------------------
\* nextSecretVersion: one more than the highest id in use.
IsNextId(ids, v) == /\ v - 1 \in ids \cup {0}
                    /\ \A w \in ids : w < v

Lapsed(until, t) == until # NoExpiry /\ t > until

\* isSecretActive
Active(v) == v \notin revoked /\ ~Lapsed(validUntil[v], now)

\* The instance has just exchanged its enrollment code; the reply that carried
\* the first secret may have been lost.
Init ==
    /\ now = 0
    /\ issued = {1}
    /\ adopted = {}
    /\ revoked = {}
    /\ validUntil = [v \in Versions |-> NoExpiry]
    /\ current = 1
    /\ next = NoVersion
    /\ known \in {{}, {1}}
    /\ trail = {}
    /\ req = [r \in Requests |-> Idle]

Tick == /\ now < MaxTime
        /\ now' = now + 1
        /\ UNCHANGED <<credentials, known, trail, req>>

-----------------------------------------------------------------------------
(* RotationService.startRotation                                           *)

\* Reads the instance; the version id and the expiry are computed from this
\* read, before the mutation.  A rotation in progress ends the request.
StartRotation(r, v, overlap) ==
    /\ At(r, "idle")
    /\ next = NoVersion
    /\ IsNextId(issued, v)
    /\ req' = [req EXCEPT ![r] = [Idle EXCEPT !.pc = "add", !.version = v,
                                              !.until = now + overlap]]
    /\ UNCHANGED <<now, credentials, known, trail>>

\* Mutant: the duplicate check of addNextSecretVersion dropped.
CanAddWithoutDuplicateCheck(v) == next = NoVersion

CanAdd(v) == next = NoVersion /\ v \notin issued

\* RegistryService.addNextSecretVersion, on the state as it is by then.
AddNextSecretVersion(r) ==
    LET v == req[r].version IN
    /\ At(r, "add")
    /\ CanAdd(v)
    /\ issued' = issued \cup {v}
    /\ validUntil' = [validUntil EXCEPT ![v] = req[r].until]
    /\ next' = v
    /\ Goto(r, "startAudit")
    /\ UNCHANGED <<now, adopted, revoked, current, known, trail>>

AddNextRejected(r) ==
    /\ At(r, "add")
    /\ ~CanAdd(req[r].version)
    /\ Finish(r)
    /\ UNCHANGED <<now, credentials, known, trail>>

\* Mutant: the reply does not wait for the audit record.
RotationStartedUnaudited(r) ==
    /\ At(r, "startAudit")
    /\ known' \in {known, known \cup {req[r].version}}
    /\ Finish(r)
    /\ UNCHANGED <<now, credentials, trail>>

\* The secret leaves the server only in the reply that follows the audit
\* record; the reply may be lost on its way.
RotationStarted(r) ==
    /\ At(r, "startAudit")
    /\ Audit("started", req[r].version)
    /\ known' \in {known, known \cup {req[r].version}}
    /\ Finish(r)
    /\ UNCHANGED <<now, credentials>>

-----------------------------------------------------------------------------
(* TokenService.mintToken                                                  *)

\* A client presents a secret it holds.  The outage check is a read of its own.
MintStart(r, v) ==
    /\ At(r, "idle")
    /\ req' = [req EXCEPT ![r] = [Idle EXCEPT !.pc = "lookup", !.version = v,
                                              !.wasRevoked = v \in revoked]]
    /\ UNCHANGED <<now, credentials, known, trail>>

\* Mutant: revoked_at not looked at.
MintLookupAnyVersion(r) ==
    LET v == req[r].version IN
    /\ At(r, "lookup")
    /\ req' = [req EXCEPT ![r].pc = "match", ![r].until = validUntil[v],
                          ![r].isNext = (next = v)]
    /\ UNCHANGED <<now, credentials, known, trail>>

\* getInstanceByClientId: the credentials the rest of the mint works on.
MintLookup(r) ==
    LET v == req[r].version IN
    /\ At(r, "lookup")
    /\ v \notin revoked
    /\ req' = [req EXCEPT ![r].pc = "match", ![r].until = validUntil[v],
                          ![r].isNext = (next = v)]
    /\ UNCHANGED <<now, credentials, known, trail>>

\* Mutant: valid_until not looked at.
MintMatchIgnoringExpiry(r) ==
    /\ At(r, "match")
    /\ Goto(r, IF req[r].isNext THEN "adoptRead" ELSE "mintAudit")
    /\ UNCHANGED <<now, credentials, known, trail>>

\* After the tenant is read: matchSecret, against that copy and the clock now.
MintMatch(r) ==
    /\ At(r, "match")
    /\ ~Lapsed(req[r].until, now)
    /\ Goto(r, IF req[r].isNext THEN "adoptRead" ELSE "mintAudit")
    /\ UNCHANGED <<now, credentials, known, trail>>

\* denyMint: the secret is no longer active, or the outage, tenant, instance
\* or service checks fail (the TokenService part of the state is not here).
MintDenied(r) ==
    /\ At(r, "lookup") \/ At(r, "match")
    /\ Finish(r)
    /\ UNCHANGED <<now, credentials, known, trail>>

\* recordAdoption, its own read of the instance.
AdoptRead(r) ==
    /\ At(r, "adoptRead")
    /\ Goto(r, IF req[r].version \in adopted THEN "mintAudit" ELSE "mark")
    /\ UNCHANGED <<now, credentials, known, trail>>

\* RegistryService.markSecretAdopted asks only that the version exists.
MarkSecretAdopted(r) ==
    /\ At(r, "mark")
    /\ req[r].version \in issued
    /\ adopted' = adopted \cup {req[r].version}
    /\ Goto(r, "adoptAudit")
    /\ UNCHANGED <<now, issued, revoked, validUntil, current, next, known,
                   trail>>

AdoptionRecorded(r) ==
    /\ At(r, "adoptAudit")
    /\ Audit("adopted", req[r].version)
    /\ Goto(r, "mintAudit")
    /\ UNCHANGED <<now, credentials, known>>

TokenMinted(r) ==
    /\ At(r, "mintAudit")
    /\ Audit("minted", req[r].version)
    /\ Finish(r)
    /\ UNCHANGED <<now, credentials, known>>

-----------------------------------------------------------------------------
(* RotationService.completeRotation and revokeSecret                       *)

\* Mutant: promotion without the check that the next version was adopted.
CanPromoteUnadopted == next # NoVersion

CanPromote == next # NoVersion /\ next \in adopted

\* Mutant: the old version keeps working.
RetireNothing(v) == UNCHANGED revoked

Retire(v) == revoked' = revoked \cup {v}

LiftExpiry(v) == validUntil' = [validUntil EXCEPT ![v] = NoExpiry]

\* RegistryService.promoteNextSecret; the next version may have lapsed.
PromoteNextSecret(r) ==
    /\ At(r, "idle")
    /\ CanPromote
    /\ Retire(current)
    /\ LiftExpiry(next)
    /\ current' = next
    /\ next' = NoVersion
    /\ req' = [req EXCEPT ![r] = [Idle EXCEPT !.pc = "completeAudit",
                                              !.version = next]]
    /\ UNCHANGED <<now, issued, adopted, known, trail>>

RotationCompleted(r) ==
    /\ At(r, "completeAudit")
    /\ Audit("completed", req[r].version)
    /\ Finish(r)
    /\ UNCHANGED <<now, credentials, known>>

\* RegistryService.revokeSecretVersion, of any version that exists.
RevokeSecretVersion(r, v) ==
    /\ At(r, "idle")
    /\ v \in issued
    /\ Retire(v)
    /\ next' = IF next = v THEN NoVersion ELSE next
    /\ req' = [req EXCEPT ![r] = [Idle EXCEPT !.pc = "revokeAudit",
                                              !.version = v]]
    /\ UNCHANGED <<now, issued, adopted, validUntil, current, known, trail>>

SecretRevoked(r) ==
    /\ At(r, "revokeAudit")
    /\ Finish(r)
    /\ UNCHANGED <<now, credentials, known, trail>>

\* The process dies or a query fails: what was committed stays committed.
Abandon(r) ==
    /\ ~At(r, "idle")
    /\ Finish(r)
    /\ UNCHANGED <<now, credentials, known, trail>>

-----------------------------------------------------------------------------
Step(r) ==
    \/ \E v \in Versions, overlap \in Overlaps : StartRotation(r, v, overlap)
    \/ AddNextSecretVersion(r)
    \/ AddNextRejected(r)
    \/ RotationStarted(r)
    \/ \E v \in known : MintStart(r, v)
    \/ MintLookup(r)
    \/ MintMatch(r)
    \/ MintDenied(r)
    \/ AdoptRead(r)
    \/ MarkSecretAdopted(r)
    \/ AdoptionRecorded(r)
    \/ TokenMinted(r)
    \/ PromoteNextSecret(r)
    \/ RotationCompleted(r)
    \/ \E v \in Versions : RevokeSecretVersion(r, v)
    \/ SecretRevoked(r)
    \/ Abandon(r)

Next == Tick \/ \E r \in Requests : Step(r)

Spec == Init /\ [][Next]_vars

-----------------------------------------------------------------------------
(* Properties                                                              *)

\* Every variable has its type.
TypeOK ==
    /\ now \in Nat
    /\ issued \subseteq Versions
    /\ adopted \subseteq Versions
    /\ revoked \subseteq Versions
    /\ validUntil \in [Versions -> Nat \cup {NoExpiry}]
    /\ current \in Versions
    /\ next \in Versions \cup {NoVersion}
    /\ known \subseteq Versions
    /\ trail \subseteq Events \X Versions
    /\ req \in [Requests -> RequestState]

\* A pending next secret is a version of its own that nobody has revoked:
\* revoking it ends the rotation (registry.service.ts:465), and a rotation
\* started from a stale read cannot bring a revoked id back (:344-352).
NextIsUsable ==
    next # NoVersion => next \in issued \ (revoked \cup {current})

\* At most two secrets of an instance work at any time: whatever was issued
\* and is neither current nor pending has been revoked.
AtMostTwoLive == issued \ revoked \subseteq {current, next}

\* The current secret never runs out by the clock; the overlap bounds a
\* pending secret only (promotion clears valid_until).
CurrentNeverExpires == validUntil[current] = NoExpiry

\* Once a revocation is stored, no mint that begins later gets past the
\* secret check, whatever copies of the instance other handlers still hold.
RevocationTakesEffect ==
    \A r \in Requests :
        req[r].pc \in {"adoptRead", "mark", "adoptAudit", "mintAudit"}
            => ~req[r].wasRevoked

\* Cutover never strands the client: a secret that replaced the enrolment
\* secret had been delivered, although delivery is nowhere recorded and
\* promotion looks only at adopted_at.
CutoverOnlyToHeldSecret == current # 1 => current \in known

\* Audit evidence is in order: an adoption, a mint or a completion that names
\* a rotated version is preceded by the record that its rotation started,
\* even when handlers are cut before they write theirs.
EvidenceInOrder ==
    \A v \in Versions \ {1} :
        (\E e \in {"adopted", "minted", "completed"} : <<e, v>> \in trail)
            => <<"started", v>> \in trail

\* A secret that stopped working starts to work again in one way only:
\* promotion of a pending version that is marked adopted.  (A mint that matched
\* the secret in time may store the mark after the overlap has ended.)
RevivedOnlyByPromotion ==
    [][\A v \in issued :
         ~Active(v) /\ Active(v)' => v = next /\ v \in adopted /\ current' = v]_vars

\* A rotation whose overlap ended before any client adopted the secret, with
\* no mint of that secret past the check that expires it.
Doomed(v) ==
    /\ next = v
    /\ Lapsed(validUntil[v], now)
    /\ v \notin adopted
    /\ \A r \in Requests :
           req[r].version = v => req[r].pc \notin {"adoptRead", "mark"}

\* Such a rotation can never be completed, however the requests in flight
\* interleave: it blocks the next rotation until an administrator revokes the
\* pending version (start and complete both refuse meanwhile).
DoomedUntilRevoked ==
    [][\A v \in Versions : Doomed(v) => Doomed(v)' \/ v \in revoked']_vars

\* Where each version is in its life, by what is stored of it.
Life == [v \in Versions |->
    IF v \notin issued THEN "unissued"
    ELSE IF v \in revoked THEN "revoked"
    ELSE IF v = current THEN "current"
    ELSE IF v \in adopted THEN "adopted" ELSE "pending"]

Lifecycle == INSTANCE SecretLifecycle WITH life <- Life

\* With handlers that interleave, work on stale copies and are cut, secrets
\* still go through their life as SecretLifecycle promises.
LifecycleSpec == Lifecycle!Spec

\* doc/runbooks.md: complete-rotation fails "until mint succeeds with the next
\* secret version".  Read as: a promoted version has a recorded mint.
PromotionAfterSuccessfulMint ==
    [][current' # current => <<"minted", current'>> \in trail]_vars
=============================================================================
