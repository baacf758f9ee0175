------------------------ MODULE SecretRotationProofs ------------------------
(***************************************************************************)
(* What SecretRotation keeps true for every number of requests, versions,  *)
(* clock values and overlaps.                                              *)
(*                                                                         *)
(* None of the safety properties is inductive alone: that cutover goes to  *)
(* a secret the client holds rests on adopted_at being set only by a mint  *)
(* that presented the secret, which rests on the handler's local copy of   *)
(* the version.  CredentialInv collects what is true of the stored record, *)
(* HandlerInv what a handler may rely on at each of its steps.             *)
(***************************************************************************)
EXTENDS SecretRotation, TLAPS

PassedLookup == {"match", "adoptRead", "mark", "adoptAudit", "mintAudit"}
HoldsSecret == PassedLookup \cup {"lookup", "completeAudit"}

CredentialInv ==
    /\ current \in issued
    /\ revoked \subseteq issued
    /\ adopted \subseteq known
    /\ known \subseteq issued
    /\ NextIsUsable
    /\ AtMostTwoLive
    /\ CurrentNeverExpires
    /\ CutoverOnlyToHeldSecret

TrailInv ==
    /\ \A v \in known \ {1} : <<"started", v>> \in trail
    /\ \A v \in Versions, e \in {"adopted", "minted", "completed"} :
           <<e, v>> \in trail => v \in known

\* What the handler of request r relies on.
LocalInv(r) ==
    /\ req[r].pc = "add" => req[r].version \in Versions /\ req[r].version - 1 \in issued
    /\ req[r].pc = "startAudit" => req[r].version \in issued
    /\ req[r].pc \in HoldsSecret => req[r].version \in known
    /\ req[r].pc = "lookup" /\ req[r].wasRevoked => req[r].version \in revoked
    /\ req[r].pc \in PassedLookup => ~req[r].wasRevoked
    /\ req[r].pc = "match" /\ req[r].version = next
           => req[r].until = validUntil[next]

HandlerInv == \A r \in Requests : LocalInv(r)

InductiveInv == TypeOK /\ CredentialInv /\ TrailInv /\ HandlerInv

-----------------------------------------------------------------------------
\* The initial state satisfies the invariant.
LEMMA InitInductive == Init => InductiveInv
  <1> SUFFICES ASSUME Init PROVE InductiveInv
    OBVIOUS
  <1>1. 1 \in Versions
    BY MaxVersionAssumption DEF Versions
  <1>2. TypeOK
    BY <1>1 DEF Init, TypeOK, Idle, RequestState, Steps, NoExpiry, NoVersion
  <1>3. CredentialInv
    BY <1>1 DEF Init, CredentialInv, NextIsUsable, AtMostTwoLive,
        CurrentNeverExpires, CutoverOnlyToHeldSecret
  <1>4. TrailInv
    BY DEF Init, TrailInv
  <1>5. HandlerInv
    BY DEF Init, HandlerInv, LocalInv, Idle, HoldsSecret, PassedLookup
  <1> QED
    BY <1>2, <1>3, <1>4, <1>5 DEF InductiveInv

\* Every step keeps the types.
LEMMA TypeStep == TypeOK /\ HandlerInv /\ known \subseteq issued /\ [Next]_vars => TypeOK'
  <1> SUFFICES ASSUME TypeOK, HandlerInv, known \subseteq issued, [Next]_vars
               PROVE  TypeOK'
    OBVIOUS
  <1>1. CASE UNCHANGED vars
    BY <1>1 DEF TypeOK, vars, credentials
  <1>2. CASE Tick
    BY <1>2 DEF TypeOK, Tick, credentials
  <1>3. ASSUME NEW r \in Requests, Step(r)
        PROVE  TypeOK'
    <2> USE DEF TypeOK, At, Goto, Finish, Audit, RequestState, Steps, Idle,
                credentials, Events
    <2>1. ASSUME NEW v \in Versions, NEW overlap \in Overlaps,
                 StartRotation(r, v, overlap)
          PROVE  TypeOK'
      <3>1. now + overlap \in Nat /\ NoVersion \in {NoVersion}
        BY OverlapsAssumption
      <3>2. [Idle EXCEPT !.pc = "add", !.version = v, !.until = now + overlap]
              \in RequestState
        BY <3>1
      <3> HIDE DEF RequestState, Idle
      <3> QED
        BY <2>1, <3>2 DEF StartRotation
    <2>2. CASE AddNextSecretVersion(r)
      BY <2>2 DEF AddNextSecretVersion, HandlerInv, LocalInv
    <2>3. CASE AddNextRejected(r)
      BY <2>3 DEF AddNextRejected
    <2>4. CASE RotationStarted(r)
      BY <2>4 DEF RotationStarted, HandlerInv, LocalInv
    <2>5. ASSUME NEW v \in known, MintStart(r, v)
          PROVE  TypeOK'
      <3>1. (v \in revoked) \in BOOLEAN
        OBVIOUS
      <3>2. [Idle EXCEPT !.pc = "lookup", !.version = v,
                         !.wasRevoked = v \in revoked] \in RequestState
        BY <3>1
      <3> HIDE DEF RequestState, Idle
      <3> QED
        BY <2>5, <3>2 DEF MintStart
    <2>6. CASE MintLookup(r)
      <3> DEFINE v == req[r].version
                 isNext == next = v
                 copy == [req[r] EXCEPT !.pc = "match", !.until = validUntil[v],
                                        !.isNext = isNext]
      <3>1. v \in Versions /\ validUntil[v] \in Nat \cup {NoExpiry}
        BY <2>6 DEF MintLookup, HandlerInv, LocalInv, HoldsSecret
      <3>2. isNext \in BOOLEAN
        OBVIOUS
      <3>3. req[r] \in RequestState
        OBVIOUS
      <3> HIDE DEF isNext, v
      <3>4. copy \in RequestState
        BY <3>1, <3>2, <3>3
      <3>5. req' = [req EXCEPT ![r] = copy]
        BY <2>6 DEF MintLookup, isNext, v
      <3> HIDE DEF RequestState, Idle, copy
      <3> QED
        BY ZenonT(30), <2>6, <3>4, <3>5 DEF MintLookup
    <2>7. CASE MintMatch(r)
      BY <2>7 DEF MintMatch
    <2>8. CASE MintDenied(r)
      BY <2>8 DEF MintDenied
    <2>9. CASE AdoptRead(r)
      BY <2>9 DEF AdoptRead
    <2>10. CASE MarkSecretAdopted(r)
      BY <2>10 DEF MarkSecretAdopted
    <2>11. CASE AdoptionRecorded(r)
      BY <2>11 DEF AdoptionRecorded, HandlerInv, LocalInv, HoldsSecret, PassedLookup
    <2>12. CASE TokenMinted(r)
      BY <2>12 DEF TokenMinted, HandlerInv, LocalInv, HoldsSecret, PassedLookup
    <2>13. CASE PromoteNextSecret(r)
      BY <2>13 DEF PromoteNextSecret, CanPromote, Retire, LiftExpiry
    <2>14. CASE RotationCompleted(r)
      BY <2>14 DEF RotationCompleted, HandlerInv, LocalInv, HoldsSecret
    <2>15. ASSUME NEW v \in Versions, RevokeSecretVersion(r, v)
           PROVE  TypeOK'
      BY <2>15 DEF RevokeSecretVersion, Retire
    <2>16. CASE SecretRevoked(r)
      BY <2>16 DEF SecretRevoked
    <2>17. CASE Abandon(r)
      BY <2>17 DEF Abandon
    <2> HIDE DEF TypeOK
    <2> QED
      BY <1>3, <2>1, <2>2, <2>3, <2>4, <2>5, <2>6, <2>7, <2>8, <2>9, <2>10,
         <2>11, <2>12, <2>13, <2>14, <2>15, <2>16, <2>17 DEF Step
  <1> QED
    BY <1>1, <1>2, <1>3 DEF Next

\* The record of the credentials stays consistent.  Only four steps change it
\* (add, mark, promote, revoke); delivery of a secret changes known.
LEMMA CredentialStep == InductiveInv /\ [Next]_vars => CredentialInv'
  <1> SUFFICES ASSUME InductiveInv, [Next]_vars
               PROVE  CredentialInv'
    OBVIOUS
  <1> USE DEF InductiveInv, CredentialInv, NextIsUsable, AtMostTwoLive,
              CurrentNeverExpires, CutoverOnlyToHeldSecret
  <1>1. ASSUME UNCHANGED <<credentials, known>>
        PROVE  CredentialInv'
    BY <1>1 DEF credentials
  <1>2. ASSUME NEW r \in Requests, Step(r)
        PROVE  CredentialInv'
    <2>1. CASE AddNextSecretVersion(r)
      <3> DEFINE v == req[r].version
      <3>1. /\ next = NoVersion /\ v \notin issued /\ v \in Versions
            /\ issued' = issued \cup {v} /\ next' = v
            /\ validUntil' = [validUntil EXCEPT ![v] = req[r].until]
            /\ UNCHANGED <<adopted, revoked, current, known>>
        BY <2>1 DEF AddNextSecretVersion, CanAdd, At, HandlerInv, LocalInv
      <3>2. current \in Versions /\ NoVersion \notin Versions
        BY DEF TypeOK, Versions, NoVersion
      <3>3. issued \subseteq Versions /\ v # current /\ v \notin revoked
        BY <3>1 DEF TypeOK
      <3> HIDE DEF v
      <3>4. AtMostTwoLive'
        BY <3>1, <3>2, <3>3
      <3>5. CurrentNeverExpires'
        BY <3>1, <3>2, <3>3 DEF TypeOK
      <3> QED
        BY <3>1, <3>2, <3>3, <3>4, <3>5
    <2>2. CASE RotationStarted(r)
      BY <2>2 DEF RotationStarted, HandlerInv, LocalInv, At, credentials
    <2>3. CASE MarkSecretAdopted(r)
      BY <2>3 DEF MarkSecretAdopted, HandlerInv, LocalInv, HoldsSecret, PassedLookup, At
    <2>4. CASE PromoteNextSecret(r)
      BY <2>4 DEF PromoteNextSecret, CanPromote, Retire, LiftExpiry, TypeOK
    <2>5. ASSUME NEW v \in Versions, RevokeSecretVersion(r, v)
          PROVE  CredentialInv'
      BY <2>5 DEF RevokeSecretVersion, Retire
    <2>6. CASE UNCHANGED <<credentials, known>>
      BY <2>6, <1>1
    <2> QED
      BY <1>2, <2>1, <2>2, <2>3, <2>4, <2>5, <2>6 DEF Step, StartRotation,
         AddNextRejected, MintStart, MintLookup, MintMatch, MintDenied,
         AdoptRead, AdoptionRecorded, TokenMinted, RotationCompleted,
         SecretRevoked, Abandon
  <1> QED
    BY <1>1, <1>2 DEF Next, Tick, vars

\* Nothing about a rotated version is recorded before its start.
LEMMA TrailStep == InductiveInv /\ [Next]_vars => TrailInv'
  <1> SUFFICES ASSUME InductiveInv, [Next]_vars
               PROVE  TrailInv'
    OBVIOUS
  <1> USE DEF InductiveInv, TrailInv
  <1>1. ASSUME UNCHANGED <<known, trail>>
        PROVE  TrailInv'
    BY <1>1
  <1>2. ASSUME NEW r \in Requests, Step(r)
        PROVE  TrailInv'
    <2> USE DEF HandlerInv, LocalInv, HoldsSecret, PassedLookup, At, Audit
    <2>1. CASE RotationStarted(r)
      BY <2>1 DEF RotationStarted
    <2>2. CASE AdoptionRecorded(r)
      BY <2>2 DEF AdoptionRecorded
    <2>3. CASE TokenMinted(r)
      BY <2>3 DEF TokenMinted
    <2>4. CASE RotationCompleted(r)
      BY <2>4 DEF RotationCompleted
    <2>5. CASE UNCHANGED <<known, trail>>
      BY <2>5, <1>1
    <2> QED
      BY <1>2, <2>1, <2>2, <2>3, <2>4, <2>5 DEF Step, StartRotation,
         AddNextSecretVersion, AddNextRejected, MintStart, MintLookup,
         MintMatch, MintDenied, AdoptRead, MarkSecretAdopted,
         PromoteNextSecret, RevokeSecretVersion, SecretRevoked, Abandon
  <1> QED
    BY <1>1, <1>2 DEF Next, Tick, vars

\* What a handler relies on survives every step of the others: versions,
\* revocations and deliveries are never taken back, and the valid_until that a
\* mint copied from the pending version stays that version's.
LEMMA HandlerStep == InductiveInv /\ [Next]_vars => HandlerInv'
  <1> SUFFICES ASSUME InductiveInv, [Next]_vars
               PROVE  HandlerInv'
    OBVIOUS
  <1> USE DEF InductiveInv
  <1>1. ASSUME UNCHANGED <<credentials, known, req>>
        PROVE  HandlerInv'
    BY <1>1 DEF HandlerInv, LocalInv, credentials
  <1>2. ASSUME NEW r \in Requests, Step(r)
        PROVE  HandlerInv'
    <2>1. issued \subseteq issued' /\ known \subseteq known' /\ revoked \subseteq revoked'
      BY <1>2 DEF Step, StartRotation, AddNextSecretVersion, AddNextRejected,
         RotationStarted, MintStart, MintLookup, MintMatch, MintDenied,
         AdoptRead, MarkSecretAdopted, AdoptionRecorded, TokenMinted,
         PromoteNextSecret, RotationCompleted, RevokeSecretVersion,
         SecretRevoked, Abandon, Retire, credentials
    <2>2. ASSUME next' \in known
          PROVE  next' = next /\ validUntil'[next] = validUntil[next]
      <3> USE DEF TypeOK, CredentialInv, Versions, NoVersion
      <3>1. CASE AddNextSecretVersion(r)
        BY <2>2, <3>1 DEF AddNextSecretVersion, CanAdd
      <3>2. CASE PromoteNextSecret(r)
        BY <2>2, <3>2 DEF PromoteNextSecret
      <3>3. ASSUME NEW v \in Versions, RevokeSecretVersion(r, v)
            PROVE  next' = next /\ validUntil'[next] = validUntil[next]
        BY <2>2, <3>3 DEF RevokeSecretVersion
      <3> HIDE DEF TypeOK, CredentialInv, Versions, NoVersion
      <3>4. CASE UNCHANGED <<next, validUntil>>
        BY <3>4
      <3> QED
        BY <1>2, <3>1, <3>2, <3>3, <3>4 DEF Step, StartRotation,
           AddNextRejected, RotationStarted, MintStart, MintLookup, MintMatch,
           MintDenied, AdoptRead, MarkSecretAdopted, AdoptionRecorded,
           TokenMinted, RotationCompleted, SecretRevoked, Abandon, credentials
    <2>3. \A s \in Requests \ {r} : req'[s] = req[s]
      BY <1>2 DEF Step, StartRotation, AddNextSecretVersion, AddNextRejected,
         RotationStarted, MintStart, MintLookup, MintMatch, MintDenied,
         AdoptRead, MarkSecretAdopted, AdoptionRecorded, TokenMinted,
         PromoteNextSecret, RotationCompleted, RevokeSecretVersion,
         SecretRevoked, Abandon, Goto, Finish, TypeOK
    <2>4. ASSUME NEW s \in Requests, s # r
          PROVE  LocalInv(s)'
      BY <2>1, <2>2, <2>3, <2>4 DEF HandlerInv, LocalInv, HoldsSecret, PassedLookup
    <2>5. LocalInv(r)'
      <3>1. req \in [Requests -> RequestState] /\ LocalInv(r)
        BY DEF TypeOK, HandlerInv
      <3> USE <3>1 DEF LocalInv, HoldsSecret, PassedLookup, At, RequestState
      <3>2. CASE req'[r] = Idle
        BY <3>2 DEF Idle
      <3>3. ASSUME NEW v \in Versions, NEW overlap \in Overlaps,
                   StartRotation(r, v, overlap)
            PROVE  LocalInv(r)'
        <4>1. v - 1 \in issued
          BY <3>3 DEF StartRotation, IsNextId, CredentialInv, TypeOK, Versions
        <4> QED
          BY <2>1, <3>3, <4>1 DEF StartRotation, Idle
      <3>4. CASE AddNextSecretVersion(r)
        BY <3>4 DEF AddNextSecretVersion, Goto
      <3>5. ASSUME NEW v \in known, MintStart(r, v)
            PROVE  LocalInv(r)'
        BY <3>5 DEF MintStart, Idle, credentials
      <3>6. CASE MintLookup(r)
        BY <3>6 DEF MintLookup, credentials
      <3>7. CASE MintMatch(r)
        BY <3>7 DEF MintMatch, Goto
      <3>8. CASE AdoptRead(r)
        BY <3>8 DEF AdoptRead, Goto
      <3>9. CASE MarkSecretAdopted(r)
        BY <3>9 DEF MarkSecretAdopted, Goto
      <3>10. CASE AdoptionRecorded(r)
        BY <3>10 DEF AdoptionRecorded, Goto
      <3>11. CASE PromoteNextSecret(r)
        BY <3>11 DEF PromoteNextSecret, CanPromote, Idle, CredentialInv
      <3>12. ASSUME NEW v \in Versions, RevokeSecretVersion(r, v)
             PROVE  LocalInv(r)'
        BY <3>12 DEF RevokeSecretVersion, Idle
      <3> HIDE DEF LocalInv, HoldsSecret, PassedLookup, At, RequestState
      <3> QED
        BY <1>2, <3>1, <3>2, <3>3, <3>4, <3>5, <3>6, <3>7, <3>8, <3>9, <3>10,
           <3>11, <3>12 DEF Step, AddNextRejected, RotationStarted, MintDenied,
           TokenMinted, RotationCompleted, SecretRevoked, Abandon, Finish
    <2> QED
      BY <2>4, <2>5 DEF HandlerInv
  <1> QED
    BY <1>1, <1>2 DEF Next, Tick, vars, credentials

-----------------------------------------------------------------------------
\* The strengthened invariant holds in every reachable state.
THEOREM Inductive == Spec => []InductiveInv
  <1>1. InductiveInv /\ [Next]_vars => InductiveInv'
    BY TypeStep, CredentialStep, TrailStep, HandlerStep
       DEF InductiveInv, CredentialInv
  <1> QED
    BY InitInductive, <1>1, PTL DEF Spec

\* Type correctness of the credential record, the audit trail and the handlers.
THEOREM TypeCorrect == Spec => []TypeOK
  <1>1. InductiveInv => TypeOK
    BY DEF InductiveInv
  <1> QED
    BY Inductive, <1>1, PTL

\* addNextSecretVersion and revokeSecretVersion never leave a revoked or
\* already current version pending, however stale the read that chose its id.
THEOREM PendingVersionIsUsable == Spec => []NextIsUsable
  <1>1. InductiveInv => NextIsUsable
    BY DEF InductiveInv, CredentialInv
  <1> QED
    BY Inductive, <1>1, PTL

\* Rotation, cutover and revocation never leave a third secret working.
THEOREM TwoLiveSecrets == Spec => []AtMostTwoLive
  <1>1. InductiveInv => AtMostTwoLive
    BY DEF InductiveInv, CredentialInv
  <1> QED
    BY Inductive, <1>1, PTL

\* promoteNextSecret always leaves a current secret without an expiry.
THEOREM CurrentHasNoExpiry == Spec => []CurrentNeverExpires
  <1>1. InductiveInv => CurrentNeverExpires
    BY DEF InductiveInv, CredentialInv
  <1> QED
    BY Inductive, <1>1, PTL

\* completeRotation never cuts over to a secret no client received.
THEOREM CutoverSafe == Spec => []CutoverOnlyToHeldSecret
  <1>1. InductiveInv => CutoverOnlyToHeldSecret
    BY DEF InductiveInv, CredentialInv
  <1> QED
    BY Inductive, <1>1, PTL

\* A mint begun after a revocation was stored never passes the secret check.
THEOREM RevocationHolds == Spec => []RevocationTakesEffect
  <1>1. InductiveInv => RevocationTakesEffect
    BY DEF InductiveInv, HandlerInv, LocalInv, PassedLookup, RevocationTakesEffect
  <1> QED
    BY Inductive, <1>1, PTL

\* The audit trail never names the use of a rotated version before its start.
THEOREM TrailOrder == Spec => []EvidenceInOrder
  <1>1. InductiveInv => EvidenceInOrder
    BY DEF InductiveInv, TrailInv, EvidenceInOrder
  <1> QED
    BY Inductive, <1>1, PTL

-----------------------------------------------------------------------------
\* No step but a promotion of an adopted version brings a secret back to life:
\* revocations are never taken back and only promotion lifts an expiry.
LEMMA RevivalStep ==
    ASSUME InductiveInv, [Next]_vars, NEW v \in issued, ~Active(v), Active(v)'
    PROVE  v = next /\ v \in adopted /\ current' = v
  <1> USE DEF InductiveInv, TypeOK, Active, Lapsed
  <1>1. CASE UNCHANGED <<now, revoked, validUntil>>
    BY <1>1
  <1>2. CASE Tick
    BY <1>2 DEF Tick, credentials, NoExpiry
  <1>3. ASSUME NEW r \in Requests, Step(r)
        PROVE  v = next /\ v \in adopted /\ current' = v
    <2>1. CASE AddNextSecretVersion(r)
      BY <2>1 DEF AddNextSecretVersion, CanAdd
    <2>2. CASE PromoteNextSecret(r)
      BY <2>2 DEF PromoteNextSecret, CanPromote, Retire, LiftExpiry
    <2>3. ASSUME NEW w \in Versions, RevokeSecretVersion(r, w)
          PROVE  v = next /\ v \in adopted /\ current' = v
      BY <2>3 DEF RevokeSecretVersion, Retire
    <2> QED
      BY <1>1, <1>3, <2>1, <2>2, <2>3 DEF Step, StartRotation, AddNextRejected,
         RotationStarted, MintStart, MintLookup, MintMatch, MintDenied,
         AdoptRead, MarkSecretAdopted, AdoptionRecorded, TokenMinted,
         RotationCompleted, SecretRevoked, Abandon, credentials
  <1> QED
    BY <1>1, <1>2, <1>3 DEF Next, vars

\* isSecretActive turns false to true only by promoteNextSecret.
THEOREM RevivalOnlyByPromotion == Spec => RevivedOnlyByPromotion
  <1>1. InductiveInv /\ [Next]_vars =>
          [\A v \in issued :
             ~Active(v) /\ Active(v)' => v = next /\ v \in adopted /\ current' = v]_vars
    BY RevivalStep
  <1> QED
    BY Inductive, <1>1, PTL DEF Spec, RevivedOnlyByPromotion

\* A lapsed pending version that nobody adopted stays so until it is revoked:
\* a mint in flight compares its copy of valid_until, which is the stored one
\* as long as the version is pending, with a clock that does not go back.
LEMMA DoomedStep ==
    ASSUME InductiveInv, [Next]_vars, NEW v \in Versions, Doomed(v)
    PROVE  Doomed(v)' \/ v \in revoked'
  <1> DEFINE NoneInFlight ==
        \A s \in Requests : req[s].version = v => req[s].pc \notin {"adoptRead", "mark"}
  <1>1. /\ next = v /\ v # NoVersion /\ v \notin adopted /\ NoneInFlight
        /\ validUntil[v] # NoExpiry /\ now > validUntil[v]
        /\ now \in Nat /\ validUntil \in [Versions -> Nat \cup {NoExpiry}]
        /\ req \in [Requests -> RequestState]
    BY DEF Doomed, Lapsed, InductiveInv, TypeOK, Versions, NoVersion
  <1>2. CASE UNCHANGED vars
    BY <1>2 DEF vars, Doomed, Lapsed
  <1>3. CASE Tick
    BY <1>1, <1>3 DEF Tick, credentials, Doomed, Lapsed, NoExpiry
  <1>4. ASSUME NEW r \in Requests, Step(r)
        PROVE  Doomed(v)' \/ v \in revoked'
    <2>1. req[r].pc = "match" /\ req[r].version = v => req[r].until = validUntil[v]
      BY <1>1 DEF InductiveInv, HandlerInv, LocalInv
    <2>2. \A s \in Requests \ {r} : req'[s] = req[s]
      BY <1>1, <1>4 DEF Step, StartRotation, AddNextSecretVersion, AddNextRejected,
         RotationStarted, MintStart, MintLookup, MintMatch, MintDenied,
         AdoptRead, MarkSecretAdopted, AdoptionRecorded, TokenMinted,
         PromoteNextSecret, RotationCompleted, RevokeSecretVersion,
         SecretRevoked, Abandon, Goto, Finish
    <2>3. req'[r].version = v => req'[r].pc \notin {"adoptRead", "mark"}
      <3> USE <1>1 DEF At, Goto, Finish, Idle, RequestState
      <3>1. CASE MintMatch(r)
        BY <2>1, <3>1 DEF MintMatch, Lapsed
      <3>2. CASE AdoptRead(r)
        BY <3>2 DEF AdoptRead
      <3>3. CASE AddNextSecretVersion(r) \/ MarkSecretAdopted(r)
              \/ AdoptionRecorded(r) \/ MintLookup(r)
        BY <3>3 DEF AddNextSecretVersion, MarkSecretAdopted, AdoptionRecorded,
           MintLookup
      <3>4. CASE \/ \E w \in Versions, overlap \in Overlaps : StartRotation(r, w, overlap)
                 \/ \E w \in known : MintStart(r, w)
                 \/ \E w \in Versions : RevokeSecretVersion(r, w)
                 \/ PromoteNextSecret(r)
        BY ZenonT(30), <3>4 DEF StartRotation, MintStart, RevokeSecretVersion, PromoteNextSecret
      <3>5. CASE Finish(r)
        BY <3>5
      <3> QED
        BY <1>4, <3>1, <3>2, <3>3, <3>4, <3>5 DEF Step, AddNextRejected,
           RotationStarted, MintDenied, TokenMinted, RotationCompleted,
           SecretRevoked, Abandon
    <2>4. NoneInFlight'
      BY <1>1, <2>2, <2>3
    <2>5. (UNCHANGED <<now, next, validUntil>> /\ v \notin adopted') \/ v \in revoked'
      <3>1. CASE MarkSecretAdopted(r)
        BY <1>1, <3>1 DEF MarkSecretAdopted, At
      <3>2. ASSUME NEW w \in Versions, RevokeSecretVersion(r, w)
            PROVE  (UNCHANGED <<now, next, validUntil>> /\ v \notin adopted') \/ v \in revoked'
        BY <1>1, <3>2 DEF RevokeSecretVersion, Retire
      <3> QED
        BY <1>1, <1>4, <3>1, <3>2 DEF Step, StartRotation, AddNextSecretVersion,
           CanAdd, AddNextRejected, RotationStarted, MintStart, MintLookup,
           MintMatch, MintDenied, AdoptRead, AdoptionRecorded, TokenMinted,
           PromoteNextSecret, CanPromote, RotationCompleted, SecretRevoked,
           Abandon, credentials
    <2> QED
      BY <1>1, <2>4, <2>5 DEF Doomed, Lapsed
  <1> QED
    BY <1>2, <1>3, <1>4 DEF Next

\* startRotation and completeRotation stay blocked by a lapsed, unadopted
\* rotation until revokeSecret names its version.
THEOREM LapsedRotationIsStuck == Spec => DoomedUntilRevoked
  <1>1. InductiveInv /\ [Next]_vars =>
          [\A v \in Versions : Doomed(v) => Doomed(v)' \/ v \in revoked']_vars
    BY DoomedStep
  <1> QED
    BY Inductive, <1>1, PTL DEF Spec, DoomedUntilRevoked

-----------------------------------------------------------------------------
(* The lives of the secrets: SecretRotation implements SecretLifecycle.    *)

\* Each step that is stored is a step of one life, whatever its handler had read
\* before; an adoption stored late, of a version that is revoked or current by
\* then, is none.
LEMMA LifeStep ==
    ASSUME InductiveInv, [Next]_vars
    PROVE  Lifecycle!Next \/ UNCHANGED Lifecycle!vars
  <1> USE DEF InductiveInv, CredentialInv, NextIsUsable, AtMostTwoLive, Lifecycle!vars
  <1>0. /\ issued \subseteq Versions /\ known \subseteq issued /\ revoked \subseteq issued
        /\ current \in Versions /\ NoVersion \notin Versions
        /\ DOMAIN Life = Versions /\ DOMAIN Life' = Versions
    BY DEF TypeOK, Versions, NoVersion, Life
  <1>1. ASSUME UNCHANGED credentials PROVE Life' = Life
    BY <1>1 DEF Life, credentials
  <1>2. ASSUME NEW r \in Requests, Step(r)
        PROVE  Lifecycle!Next \/ UNCHANGED Lifecycle!vars
    <2>1. CASE AddNextSecretVersion(r)
      <3> DEFINE v == req[r].version
      <3>1. /\ next = NoVersion /\ v \notin issued /\ v \in Versions /\ v - 1 \in issued
            /\ issued' = issued \cup {v}
            /\ UNCHANGED <<adopted, revoked, current, known>>
        BY <2>1 DEF AddNextSecretVersion, CanAdd, At, HandlerInv, LocalInv
      <3> HIDE DEF v
      <3>2. Life[v] = "unissued" /\ v - 1 \in Versions /\ Life[v - 1] # "unissued"
        BY <1>0, <3>1 DEF Life
      <3>3. \A w \in Versions : Life[w] \notin {"pending", "adopted"}
        BY <1>0, <3>1 DEF Life
      <3>4. Life' = [Life EXCEPT ![v] = "pending"]
        BY <1>0, <3>1 DEF Life
      <3>5. Lifecycle!Issue(v)
        BY <3>1, <3>2, <3>3, <3>4 DEF Lifecycle!Issue, Lifecycle!OnTrial
      <3> QED
        BY <3>1, <3>5 DEF Lifecycle!Next
    <2>2. CASE RotationStarted(r)
      <3> DEFINE v == req[r].version
      <3>1. v \in issued /\ known' \in {known, known \cup {v}} /\ Life' = Life
        BY <1>1, <2>2 DEF RotationStarted, At, HandlerInv, LocalInv
      <3> HIDE DEF v
      <3>2. CASE known' = known
        BY <3>1, <3>2
      <3>3. CASE known' = known \cup {v}
        <4>1. Life[v] # "unissued"
          BY <1>0, <3>1 DEF Life
        <4>2. Lifecycle!Deliver(v)
          BY <3>1, <3>3, <4>1 DEF Lifecycle!Deliver
        <4> QED
          BY <1>0, <3>1, <4>2 DEF Lifecycle!Next
      <3> QED
        BY <3>1, <3>2, <3>3
    <2>3. CASE MarkSecretAdopted(r)
      <3> DEFINE v == req[r].version
      <3>1. /\ v \in known /\ adopted' = adopted \cup {v}
            /\ UNCHANGED <<issued, revoked, current, known>>
        BY <2>3 DEF MarkSecretAdopted, At, HandlerInv, LocalInv, HoldsSecret, PassedLookup
      <3> HIDE DEF v
      <3>2. CASE Life[v] = "pending"
        <4>1. Life' = [Life EXCEPT ![v] = "adopted"]
          BY <1>0, <3>1, <3>2 DEF Life
        <4>2. Lifecycle!Adopt(v)
          BY <3>1, <3>2, <4>1 DEF Lifecycle!Adopt
        <4> QED
          BY <1>0, <3>1, <4>2 DEF Lifecycle!Next
      <3>3. CASE Life[v] # "pending"
        <4>1. Life' = Life
          BY <1>0, <3>1, <3>3 DEF Life
        <4> QED
          BY <3>1, <4>1
      <3> QED
        BY <3>2, <3>3
    <2>4. CASE PromoteNextSecret(r)
      <3>1. /\ next \in issued \ revoked /\ next # current /\ next \in adopted
            /\ revoked' = revoked \cup {current} /\ current' = next
            /\ UNCHANGED <<issued, adopted, known>>
        BY <2>4 DEF PromoteNextSecret, CanPromote, Retire
      <3>2. Life[next] = "adopted"
        BY <1>0, <3>1 DEF Life
      <3>3. ASSUME NEW w \in Versions
            PROVE  Life'[w] = IF w = next THEN "current"
                              ELSE IF Life[w] = "current" THEN "revoked"
                              ELSE Life[w]
        <4>1. CASE w \in {next, current}
          BY <1>0, <3>1, <4>1 DEF Life
        <4>2. CASE w \notin {next, current}
          BY <1>0, <3>1, <4>2 DEF Life
        <4> QED
          BY <4>1, <4>2
      <3>4. Life' = [w \in Versions |-> Life'[w]]
        BY DEF Life
      <3>5. Lifecycle!Promote(next)
        BY <3>1, <3>2, <3>3, <3>4 DEF Lifecycle!Promote
      <3> QED
        BY <1>0, <3>1, <3>5 DEF Lifecycle!Next
    <2>5. ASSUME NEW v \in Versions, RevokeSecretVersion(r, v)
          PROVE  Lifecycle!Next \/ UNCHANGED Lifecycle!vars
      <3>1. /\ v \in issued /\ revoked' = revoked \cup {v}
            /\ UNCHANGED <<issued, adopted, current, known>>
        BY <2>5 DEF RevokeSecretVersion, Retire
      <3>2. Life[v] # "unissued" /\ Life' = [Life EXCEPT ![v] = "revoked"]
        BY <1>0, <3>1 DEF Life
      <3>3. Lifecycle!Revoke(v)
        BY <3>1, <3>2 DEF Lifecycle!Revoke
      <3> QED
        BY <3>3 DEF Lifecycle!Next
    <2>6. CASE UNCHANGED <<credentials, known>>
      BY <1>1, <2>6
    <2> QED
      BY <1>2, <2>1, <2>2, <2>3, <2>4, <2>5, <2>6 DEF Step, StartRotation,
         AddNextRejected, MintStart, MintLookup, MintMatch, MintDenied, AdoptRead,
         AdoptionRecorded, TokenMinted, RotationCompleted, SecretRevoked, Abandon
  <1>3. CASE Tick \/ UNCHANGED vars
    BY <1>1, <1>3 DEF Tick, vars, credentials
  <1> QED
    BY <1>2, <1>3 DEF Next

\* Rotation, adoption, cutover and revocation, as handlers that interleave and
\* are cut anywhere, implement SecretLifecycle: in particular a cutover revokes
\* the secret before it in the same instant, and is only to one that was shown.
THEOREM RotationImplementsLifecycle == Spec => LifecycleSpec
  <1>1. Init => Lifecycle!Init
    BY DEF Init, Lifecycle!Init, Life
  <1>2. InductiveInv /\ [Next]_vars => [Lifecycle!Next]_(Lifecycle!vars)
    BY LifeStep
  <1> QED
    BY <1>1, <1>2, Inductive, PTL DEF Spec, LifecycleSpec, Lifecycle!Spec
=============================================================================
