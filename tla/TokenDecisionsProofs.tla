------------------------ MODULE TokenDecisionsProofs ------------------------
(***************************************************************************)
(* What TokenDecisions keeps true for every number of requests,            *)
(* administrators, tenants and instances, every clock and every choice of  *)
(* the lifetime, the skew and the grace.                                   *)
(*                                                                         *)
(* A decision rests on gates read at different moments.  What each read    *)
(* found is tied to the history by ReadInv: a gate that was found open is  *)
(* not in shut, and one that was found closed has left disturbed set.      *)
(* Registry changes in between do no harm because records are never        *)
(* removed and an instance never changes its tenant (KnownInv).            *)
(***************************************************************************)
EXTENDS TokenDecisions, TLAPS

\* The tenant of every instance is there.
KnownInv ==
    \A i \in Instances : instances[i] # None =>
        tenants[instances[i].tenant] # None

\* The fields of request r fit what it is and how far it is.
Shape(r) ==
    LET q == req[r] IN
    /\ q.kind = "mint" /\ q.pc # "idle" =>
           q.instance \in Instances /\ q.scope \in Scopes /\ q.begun <= Seconds(now)
    /\ q.kind = "inFlight" => q.instance \in Instances /\ q.scope = None
    /\ q.kind = "inFlight" => q.pc # "outage"
    /\ q.kind = "refresh" => q.pc \in {"outage", "deadline", "granted", "retry", "paused"}
    /\ q.pc = "deadline" => q.kind = "refresh"
    /\ q.pc \in {"tenant", "decide"} =>
           /\ q.instanceRead \in InstanceRecord
           /\ instances[q.instance] # None
           /\ instances[q.instance].tenant = q.instanceRead.tenant
    /\ q.pc = "decide" => q.tenantRead \in TenantRecord

\* What a request read of its instance lets it pass.
InstancePasses(q) ==
    /\ q.instanceRead.state = Active
    /\ q.kind = "mint" => q.scope \in q.instanceRead.services

\* What request r has read, and what has been observed of its gates.
Reads(r) ==
    LET q == req[r] IN
    /\ shut[r] \subseteq GatesOf(q.kind)
    /\ q.pc \in {"instance", "tenant", "decide"} => "outage" \notin shut[r]
    /\ q.pc \in {"tenant", "decide"} =>
           IF InstancePasses(q) THEN "instance" \notin shut[r] ELSE disturbed[r]
    /\ q.pc = "decide" =>
           IF TenantEligible(q.tenantRead) THEN "tenant" \notin shut[r] ELSE disturbed[r]
    /\ q.pc = "deadline" => disturbed[r]

\* A refresh is paused after its deadline only.
Late(r) == At(r, "paused") => GraceIsOver(req[r].expiry)

\* A gate that is not shut to a mint was open after the mint began.
Watched(r) ==
    LET q == req[r] IN
    /\ q.kind = "mint" /\ q.pc # "idle"
    /\ q.instance = watched.instance /\ q.scope = watched.scope
    /\ watched.gate \notin shut[r]
    => q.begun <= lastOpen

ShapeInv == \A r \in Requests : Shape(r)
ReadInv == \A r \in Requests : Reads(r)
LateInv == \A r \in Requests : Late(r)
WatchInv ==
    /\ lastOpen <= Seconds(now)
    /\ \A r \in Requests : Watched(r)
    /\ \A token \in tokens :
           token.instance = watched.instance /\ token.scope = watched.scope
               => token.begun <= lastOpen

InductiveInv ==
    /\ TypeOK
    /\ KnownInv
    /\ ShapeInv
    /\ ReadInv
    /\ LateInv
    /\ WatchInv
    /\ GrantJustified
    /\ DenialJustified
-----------------------------------------------------------------------------
\* Whole seconds: a later time is no earlier second, and a time past the end
\* of second s is in a later one.
LEMMA WholeSeconds ==
    ASSUME NEW time \in Nat
    PROVE  /\ Seconds(time) \in Nat
           /\ Seconds(time) <= Seconds(time + 1)
           /\ \A s \in Nat : time > s * Second => s <= Seconds(time)
  BY DurationsAssumption DEF Seconds

\* A registry operation keeps every record, and the tenant of every instance.
LEMMA RegistryMoves ==
    ASSUME RegistryTypeOK, KnownInv, NEW a \in Admins, RegistryStep(a)
    PROVE  /\ RegistryTypeOK' /\ KnownInv'
           /\ \A i \in Instances : instances[i] # None =>
                  instances'[i] # None /\ instances'[i].tenant = instances[i].tenant
  <1> DEFINE Kept ==
        /\ RegistryTypeOK' /\ KnownInv'
        /\ \A i \in Instances : instances[i] # None =>
               instances'[i] # None /\ instances'[i].tenant = instances[i].tenant
  <1> USE NoRecordAssumption DEF RegistryTypeOK, KnownInv, TenantRecord, InstanceRecord, Stored
  <1>1. ASSUME NEW t \in Tenants, NEW s \in Statuses, NEW e \in Statuses,
               CreateTenant(a, t, s, e)
        PROVE  Kept
    BY <1>1 DEF CreateTenant
  <1>2. ASSUME NEW t \in Tenants, NEW s \in Statuses, SetTenantState(a, t, s)
        PROVE  Kept
    BY <1>2 DEF SetTenantState
  <1>3. ASSUME NEW t \in Tenants, NEW e \in Statuses, SetTenantEntitlement(a, t, e)
        PROVE  Kept
    BY <1>3 DEF SetTenantEntitlement
  <1>4. ASSUME NEW i \in Instances, NEW t \in Tenants, NEW src \in Sources,
               NEW s \in Statuses, NEW services \in SUBSET Scopes,
               CreateInstance(a, i, t, src, s, services)
        PROVE  Kept
    BY <1>4 DEF CreateInstance, CanCreateInstance
  <1>5. ASSUME NEW i \in Instances, NEW s \in Statuses, SetInstanceState(a, i, s)
        PROVE  Kept
    BY <1>5 DEF SetInstanceState
  <1>6. ASSUME NEW i \in Instances, NEW services \in SUBSET Scopes,
               SetInstanceAllowedServices(a, i, services)
        PROVE  Kept
    BY <1>6 DEF SetInstanceAllowedServices
  <1>7. ASSUME AuditRecorded(a)
        PROVE  Kept
    BY <1>7 DEF AuditRecorded, registry
  <1> QED
    BY <1>1, <1>2, <1>3, <1>4, <1>5, <1>6, <1>7 DEF RegistryStep

\* The three kinds of steps, and what they leave alone.
LEMMA Frame ==
    ASSUME ServiceTypeOK, KnownInv, ServiceNext
    PROVE  /\ RegistryTypeOK' /\ KnownInv'
           /\ \A i \in Instances : instances[i] # None =>
                  instances'[i] # None /\ instances'[i].tenant = instances[i].tenant
           /\ \/ now' = now + 1 /\ UNCHANGED <<outage, req, tokens>>
              \/ now' = now /\ outage' \in BOOLEAN /\ UNCHANGED <<req, tokens>>
              \/ /\ UNCHANGED <<registryVars, now, outage>>
                 /\ \E r \in Requests : Step(r)
  <1> USE DEF ServiceTypeOK, registryVars
  <1>1. CASE Tick
    BY <1>1 DEF Tick, RegistryTypeOK, KnownInv
  <1>2. ASSUME NEW r \in Requests, Step(r)
        PROVE  UNCHANGED <<registryVars, now, outage>>
    BY <1>2 DEF Step, MintBegin, InFlightBegin, RefreshBegin, ReadOutage, DecideRefresh,
       ReadInstance, ReadTenant, Decide, MintGranted, InFlightContinues, Denied, Abandon
  <1>3. ASSUME NEW a \in Admins, Administer(a)
        PROVE  /\ RegistryTypeOK' /\ KnownInv'
               /\ \A i \in Instances : instances[i] # None =>
                      instances'[i] # None /\ instances'[i].tenant = instances[i].tenant
               /\ now' = now /\ outage' \in BOOLEAN /\ UNCHANGED <<req, tokens>>
    <2>1. CASE RegistryStep(a) /\ UNCHANGED <<now, outage, req, tokens>>
      BY <2>1, RegistryMoves
    <2>2. ASSUME NEW active \in BOOLEAN, SetOutageMode(a, active)
          PROVE  /\ RegistryTypeOK' /\ UNCHANGED <<registry, now, req, tokens>>
                 /\ outage' \in BOOLEAN
      BY <2>2 DEF SetOutageMode, RegistryTypeOK, registry
    <2>3. CASE OutageModeRead(a)
      BY <2>3 DEF OutageModeRead, RegistryTypeOK, KnownInv, registry
    <2> QED
      BY <1>3, <2>1, <2>2, <2>3 DEF Administer, KnownInv, registry
  <1>4. RegistryTypeOK /\ KnownInv /\ UNCHANGED registryVars => RegistryTypeOK' /\ KnownInv'
    BY DEF RegistryTypeOK, KnownInv
  <1> QED
    BY <1>1, <1>2, <1>3, <1>4 DEF ServiceNext

\* Where a step of r takes its request.
Move(r) ==
    /\ req' \in [Requests -> RequestState]
    /\ tokens' \subseteq Token
    /\ \A o \in Requests \ {r} : req'[o] = req[o]
    /\ Shape(r)'
    /\ req[r].pc # "idle" /\ req'[r].pc # "idle" =>
           /\ req'[r].kind = req[r].kind /\ req'[r].begun = req[r].begun
           /\ req'[r].instance = req[r].instance /\ req'[r].scope = req[r].scope
    /\ req[r].pc = "idle" => req'[r].pc \in {"outage", "instance"}

\* A request moves as its kind and its place say.
LEMMA RequestMoves ==
    ASSUME TypeOK, KnownInv, ShapeInv, NEW r \in Requests, Step(r)
    PROVE  Move(r)
  <1> USE DEF Move, Shape, At
  <1>0. /\ Shape(r) /\ req \in [Requests -> RequestState] /\ req[r] \in RequestState
        /\ Idle \in RequestState /\ tokens \subseteq Token /\ now \in Nat
        /\ Idle.pc = "idle" /\ Idle.kind = "mint"
    BY DEF ShapeInv, TypeOK, ServiceTypeOK, Idle, RequestState
  <1>1. ASSUME NEW i \in Instances, NEW s \in Scopes, MintBegin(r, i, s)
        PROVE  Move(r)
    <2> DEFINE q == [Idle EXCEPT !.pc = "outage", !.instance = i, !.scope = s,
                                 !.begun = Seconds(now)]
    <2>1. req' = [req EXCEPT ![r] = q] /\ UNCHANGED <<tokens, now, registryVars>>
      BY <1>1 DEF MintBegin
    <2>2. q \in RequestState /\ q.pc = "outage" /\ q.kind = "mint" /\ q.instance = i
          /\ q.scope = s /\ q.begun = Seconds(now) /\ Seconds(now) \in Nat
      BY <1>0, WholeSeconds DEF Idle, RequestState
    <2> HIDE DEF q
    <2> QED
      BY <1>0, <1>1, <2>1, <2>2 DEF MintBegin
  <1>2. ASSUME NEW i \in Instances, InFlightBegin(r, i)
        PROVE  Move(r)
    <2> DEFINE q == [Idle EXCEPT !.pc = "instance", !.kind = "inFlight", !.instance = i]
    <2>1. req' = [req EXCEPT ![r] = q] /\ UNCHANGED <<tokens, now, registryVars>>
      BY <1>2 DEF InFlightBegin
    <2>2. q \in RequestState /\ q.pc = "instance" /\ q.kind = "inFlight" /\ q.instance = i
          /\ q.scope = None
      BY <1>0 DEF Idle, RequestState
    <2> HIDE DEF q
    <2> QED
      BY <1>0, <1>2, <2>1, <2>2 DEF InFlightBegin
  <1>3. ASSUME NEW expiry \in Dates \cup {NoDate}, RefreshBegin(r, expiry)
        PROVE  Move(r)
    <2> DEFINE q == [Idle EXCEPT !.pc = "outage", !.kind = "refresh", !.expiry = expiry]
    <2>1. req' = [req EXCEPT ![r] = q] /\ UNCHANGED <<tokens, now, registryVars>>
      BY <1>3 DEF RefreshBegin
    <2>2. expiry \in Nat \cup {NoDate}
      BY DEF Dates
    <2>3. q \in RequestState /\ q.pc = "outage" /\ q.kind = "refresh"
      BY <1>0, <2>2 DEF Idle, RequestState
    <2> HIDE DEF q
    <2> QED
      BY <1>0, <1>3, <2>1, <2>3 DEF RefreshBegin
  <1>4. CASE ReadOutage(r)
    BY <1>0, <1>4 DEF ReadOutage, AfterOutageRead, RequestState
  <1>5. CASE DecideRefresh(r)
    BY <1>0, <1>5 DEF DecideRefresh, RequestState
  <1>6. CASE ReadInstance(r)
    <2>1. req[r].kind \in {"mint", "inFlight"} /\ req[r].instance \in Instances
      BY <1>0, <1>6 DEF ReadInstance, RequestState
    <2>2. instances[req[r].instance] \in InstanceRecord \cup {None}
      BY <2>1 DEF TypeOK, ServiceTypeOK, RegistryTypeOK
    <2> QED
      BY ZenonT(30), <1>0, <1>6, <2>1, <2>2 DEF ReadInstance, RequestState, registryVars
  <1>7. CASE ReadTenant(r)
    <2>1. req[r].instanceRead \in InstanceRecord /\ req[r].instance \in Instances
      BY <1>0, <1>7 DEF ReadTenant, RequestState
    <2>2. req[r].instanceRead.tenant \in Tenants
      BY <2>1 DEF InstanceRecord
    <2>3. tenants[req[r].instanceRead.tenant] # None
      BY <1>0, <1>7, <2>1 DEF ReadTenant, KnownInv
    <2>4. tenants[req[r].instanceRead.tenant] \in TenantRecord
      BY <2>2, <2>3 DEF TypeOK, ServiceTypeOK, RegistryTypeOK
    <2> QED
      BY <1>0, <1>7, <2>1, <2>4 DEF ReadTenant, RequestState, registryVars
  <1>8. CASE Decide(r)
    <2>1. Seconds(now) \in Nat
      BY <1>0, WholeSeconds
    <2> QED
      BY <1>0, <1>8, <2>1 DEF Decide, Decided, RequestState
  <1>9. CASE MintGranted(r)
    <2>1. [instance |-> req[r].instance, scope |-> req[r].scope,
           begun |-> req[r].begun, iat |-> req[r].iat] \in Token
      BY <1>0, <1>9 DEF MintGranted, RequestState, Token
    <2> QED
      BY <1>0, <1>9, <2>1 DEF MintGranted
  <1>10. CASE InFlightContinues(r) \/ Denied(r) \/ Abandon(r)
    BY <1>0, <1>10 DEF InFlightContinues, Denied, Abandon, Refused, Reading
  <1> QED
    BY <1>1, <1>2, <1>3, <1>4, <1>5, <1>6, <1>7, <1>8, <1>9, <1>10 DEF Step

\* The initial state satisfies the invariant.
LEMMA InitInductive == Init => InductiveInv
  <1> SUFFICES ASSUME Init PROVE InductiveInv
    OBVIOUS
  <1> USE DEF Init, ServiceInit, RegistryInit
  <1>0. Idle \in RequestState /\ Idle.pc = "idle" /\ Idle.kind = "mint"
    BY DEF Idle, RequestState
  <1>1. TypeOK
    BY <1>0 DEF TypeOK, ServiceTypeOK, RegistryTypeOK, NotYet
  <1>2. KnownInv
    BY DEF KnownInv
  <1>3. ShapeInv /\ ReadInv /\ LateInv
    BY <1>0 DEF ShapeInv, Shape, ReadInv, Reads, LateInv, Late, At
  <1>4. WatchInv
    <2>1. Seconds(0) \in Nat
      BY WholeSeconds
    <2> QED
      BY <1>0, <2>1 DEF WatchInv, Watched, NotYet
  <1>5. GrantJustified /\ DenialJustified
    BY <1>0 DEF GrantJustified, DenialJustified, At, Refused
  <1> QED
    BY <1>1, <1>2, <1>3, <1>4, <1>5 DEF InductiveInv

\* Every step keeps the types.
LEMMA TypeStep == InductiveInv /\ [Next]_vars => TypeOK'
  <1> SUFFICES ASSUME InductiveInv, [Next]_vars PROVE TypeOK'
    OBVIOUS
  <1>0. TypeOK /\ KnownInv /\ ShapeInv
    BY DEF InductiveInv
  <1>1. CASE UNCHANGED vars
    BY <1>0, <1>1 DEF TypeOK, ServiceTypeOK, RegistryTypeOK, vars, serviceVars, registryVars
  <1>2. CASE Next
    <2>1. ServiceTypeOK'
      <3>1. RegistryTypeOK' /\ now' \in Nat /\ outage' \in BOOLEAN
        BY <1>0, <1>2, Frame DEF Next, TypeOK, ServiceTypeOK
      <3>2. req' \in [Requests -> RequestState] /\ tokens' \subseteq Token
        BY <1>0, <1>2, Frame, RequestMoves DEF Next, TypeOK, ServiceTypeOK, Move
      <3> QED
        BY <3>1, <3>2 DEF ServiceTypeOK
    <2>2. ASSUME NEW r \in Requests
          PROVE  Closed(r)' \in SUBSET Gates
      <3>1. req'[r].kind \in {"mint", "inFlight", "refresh"}
        BY <2>1 DEF ServiceTypeOK, RequestState
      <3> QED
        BY <3>1 DEF Closed, GatesOf, Gates
    <2>3. shut' \in [Requests -> SUBSET Gates] /\ disturbed' \in [Requests -> BOOLEAN]
      BY <1>0, <1>2, <2>2 DEF Next, Observe, TypeOK
    <2>4. lastOpen' \in Nat \cup {NotYet} /\ watched' = watched
      BY <1>0, <1>2, <2>1, WholeSeconds DEF Next, Observe, TypeOK, ServiceTypeOK
    <2> QED
      BY <1>0, <2>1, <2>3, <2>4 DEF TypeOK
  <1> QED
    BY <1>1, <1>2

\* Every step keeps the fields of the requests in order.
LEMMA ShapeStep == InductiveInv /\ [Next]_vars => ShapeInv'
  <1> SUFFICES ASSUME InductiveInv, [Next]_vars, NEW r \in Requests PROVE Shape(r)'
    BY DEF ShapeInv
  <1>0. TypeOK /\ KnownInv /\ ShapeInv /\ Shape(r)
    BY DEF InductiveInv, ShapeInv
  <1>1. CASE UNCHANGED vars
    BY <1>0, <1>1 DEF Shape, vars, serviceVars, registryVars
  <1>2. CASE Next /\ req'[r] = req[r]
    <2>1. \A i \in Instances : instances[i] # None =>
              instances'[i] # None /\ instances'[i].tenant = instances[i].tenant
      BY <1>0, <1>2, Frame DEF Next, TypeOK
    <2>2. Seconds(now) <= Seconds(now') /\ Seconds(now) \in Nat /\ Seconds(now') \in Nat
      <3>1. now' = now \/ now' = now + 1
        BY <1>0, <1>2, Frame DEF Next, TypeOK
      <3> QED
        BY <1>0, <3>1, WholeSeconds DEF TypeOK, ServiceTypeOK
    <2>3. req[r] \in RequestState
      BY <1>0 DEF TypeOK, ServiceTypeOK
    <2>4. req[r].begun \in Nat /\ req[r].kind \in {"mint", "inFlight", "refresh"}
      BY <2>3 DEF RequestState
    <2>5. req[r].pc \in {"tenant", "decide"} => req[r].instance \in Instances
      BY <1>0, <2>4 DEF Shape
    <2> QED
      BY <1>0, <1>2, <2>1, <2>2, <2>4, <2>5 DEF Shape
  <1>3. CASE Next /\ req'[r] # req[r]
    <2>1. Step(r)
      <3>1. PICK o \in Requests : Step(o)
        BY <1>0, <1>3, Frame DEF Next, TypeOK
      <3> QED
        BY <1>0, <1>3, <3>1, RequestMoves DEF Move
    <2> QED
      BY <1>0, <2>1, RequestMoves DEF Move
  <1> QED
    BY <1>1, <1>2, <1>3

-----------------------------------------------------------------------------
\* The history of a request: it starts with the gates that are closed then,
\* keeps of these the ones that stay closed, and ends at the decision.
LEMMA History ==
    ASSUME TypeOK, Next, NEW r \in Requests
    PROVE  /\ req'[r].pc = "idle" => shut'[r] = {} /\ ~disturbed'[r]
           /\ req[r].pc = "idle" /\ req'[r].pc # "idle" => shut'[r] = Closed(r)'
           /\ Reading(r) /\ req'[r].pc # "idle" =>
                  /\ shut'[r] = shut[r] \cap Closed(r)'
                  /\ disturbed'[r] <=> disturbed[r] \/ Closed(r)' # {}
           /\ ~Reading(r) /\ req[r].pc # "idle" /\ req'[r].pc # "idle" =>
                  shut'[r] = shut[r] /\ disturbed'[r] = disturbed[r]
  <1>1. shut'[r] = IF req'[r].pc = "idle" THEN {} ELSE
                   CASE At(r, "idle") -> Closed(r)'
                     [] Reading(r)    -> shut[r] \cap Closed(r)'
                     [] OTHER         -> shut[r]
    BY DEF Next, Observe
  <1>2. disturbed'[r] = (/\ req'[r].pc # "idle"
                         /\ \/ disturbed[r]
                            \/ (Reading(r) \/ At(r, "idle")) /\ Closed(r)' # {})
    BY DEF Next, Observe
  <1>3. Reading(r) => req[r].pc # "idle"
    BY DEF Reading
  <1>4. disturbed[r] \in BOOLEAN
    BY DEF TypeOK
  <1> HIDE DEF Closed
  <1>5. CASE req'[r].pc = "idle"
    BY <1>1, <1>2, <1>5
  <1>6. CASE req[r].pc = "idle" /\ req'[r].pc # "idle"
    BY <1>1, <1>3, <1>6 DEF At
  <1>7. CASE Reading(r) /\ req'[r].pc # "idle"
    BY <1>1, <1>2, <1>3, <1>7 DEF At
  <1>8. CASE ~Reading(r) /\ req[r].pc # "idle" /\ req'[r].pc # "idle"
    BY <1>1, <1>2, <1>4, <1>8 DEF At
  <1> QED
    BY <1>3, <1>5, <1>6, <1>7, <1>8

\* What is known of a request, its decision included.
Judged(r) ==
    /\ Reads(r)
    /\ At(r, "granted") => shut[r] = {}
    /\ Refused(r) => disturbed[r]

\* A request that does not move stays judged by what it read.
LEMMA JudgedUnmoved ==
    ASSUME TypeOK, Next, NEW r \in Requests, Judged(r), req'[r] = req[r]
    PROVE  Judged(r)'
  <1>1. CASE req[r].pc = "idle"
    BY <1>1, History DEF Judged, Reads, At, Refused
  <1>2. CASE req[r].pc # "idle"
    <2>1. shut'[r] \subseteq shut[r] /\ (disturbed[r] => disturbed'[r])
      BY <1>2, History
    <2> QED
      BY <2>1 DEF Judged, Reads, At, Refused, InstancePasses
  <1> QED
    BY <1>1, <1>2

\* A request that moves is judged by what it read then and before.
LEMMA JudgedMove ==
    ASSUME InductiveInv, Next, NEW r \in Requests, Judged(r), Step(r),
           UNCHANGED <<registryVars, now, outage>>
    PROVE  Judged(r)'
  <1> USE DEF At, Refused, Reading
  <1>0. /\ TypeOK /\ ServiceTypeOK /\ KnownInv /\ ShapeInv /\ Shape(r) /\ Reads(r)
        /\ req[r] \in RequestState /\ req \in [Requests -> RequestState]
    BY DEF InductiveInv, ShapeInv, Judged, TypeOK, ServiceTypeOK
  <1>1. CASE req'[r].pc = "idle"
    BY <1>1, <1>0, History DEF Judged, Reads
  <1>2. CASE req[r].pc = "idle"
    <2>1. /\ req'[r].pc \in {"idle", "outage", "instance"}
          /\ req'[r].pc = "instance" => req'[r].kind = "inFlight"
      BY <1>0, <1>2 DEF Step, MintBegin, InFlightBegin, RefreshBegin, ReadOutage,
         DecideRefresh, ReadInstance, ReadTenant, Decide, MintGranted, InFlightContinues,
         Denied, Abandon, Idle
    <2>2. req'[r].pc # "idle" => shut'[r] \subseteq GatesOf(req'[r].kind)
      BY <1>0, <1>2, History DEF Closed
    <2> QED
      BY <1>1, <2>1, <2>2 DEF Judged, Reads, GatesOf, Gates
  <1>3. CASE Reading(r) /\ req'[r].pc # "idle"
    <2> DEFINE q == req[r]
    <2>1. /\ req'[r].kind = q.kind /\ req'[r].instance = q.instance
          /\ req'[r].scope = q.scope
      BY <1>0, <1>3, RequestMoves DEF Move
    <2>2. /\ shut'[r] = shut[r] \cap Closed(r)'
          /\ disturbed'[r] <=> disturbed[r] \/ Closed(r)' # {}
      BY <1>0, <1>3, History
    <2>3. Closed(r)' = {g \in GatesOf(q.kind) : ~Open(g, q.instance, q.scope)}
      BY <2>1 DEF Closed, Open, registryVars
    <2>4. CASE ReadOutage(r)
      <3>1. q.kind \in {"mint", "refresh"} /\ q.pc = "outage"
        BY <1>0, <2>4 DEF ReadOutage, Shape, RequestState
      <3>2. /\ outage => "outage" \in Closed(r)'
            /\ ~outage => "outage" \notin Closed(r)'
        BY <2>3, <3>1 DEF GatesOf, Gates, Open
      <3>3. req'[r].pc = AfterOutageRead(q.kind)
        BY <1>0, <2>4 DEF ReadOutage, RequestState
      <3>4. q.kind = "refresh" => GatesOf(q.kind) = {"outage"}
        BY DEF GatesOf
      <3>5. shut'[r] \subseteq GatesOf(q.kind)
        BY <1>0, <2>2 DEF Reads
      <3> QED
        BY <2>1, <2>2, <3>1, <3>2, <3>3, <3>4, <3>5 DEF Judged, Reads, AfterOutageRead
    <2>5. CASE ReadInstance(r)
      <3>1. q.kind \in {"mint", "inFlight"} /\ q.pc = "instance" /\ q.instance \in Instances
        BY <1>0, <2>5 DEF ReadInstance, Shape, RequestState
      <3>2. "instance" \in GatesOf(q.kind)
        BY <3>1 DEF GatesOf, Gates
      <3>3. CASE instances[q.instance] = None
        <4>1. "instance" \in Closed(r)'
          BY <2>3, <3>2, <3>3 DEF Open
        <4>2. req'[r].pc = "denied"
          BY <1>0, <2>5, <3>3 DEF ReadInstance, RequestState
        <4> QED
          BY <1>0, <2>1, <2>2, <4>1, <4>2 DEF Judged, Reads
      <3>4. CASE instances[q.instance] # None
        <4>1. /\ req'[r].pc = "tenant" /\ req'[r].instanceRead = instances[q.instance]
          BY <1>0, <2>5, <3>4 DEF ReadInstance, RequestState
        <4>2. /\ q.kind = "mint" => q.scope # None
              /\ q.kind = "inFlight" => q.scope = None
          BY <1>0, <3>1, NoScopeAssumption DEF Shape
        <4>3. InstancePasses(req[r])' <=> Open("instance", q.instance, q.scope)
          BY <2>1, <3>1, <3>4, <4>1, <4>2 DEF InstancePasses, Open
        <4> QED
          BY <1>0, <2>1, <2>2, <2>3, <3>1, <3>2, <4>1, <4>3 DEF Judged, Reads
      <3> QED
        BY <3>3, <3>4
    <2>6. CASE ReadTenant(r)
      <3>1. q.kind \in {"mint", "inFlight"} /\ q.pc = "tenant" /\ q.instance \in Instances
        BY <1>0, <2>6 DEF ReadTenant, Shape, RequestState
      <3>2. "tenant" \in GatesOf(q.kind)
        BY <3>1 DEF GatesOf, Gates
      <3>3. /\ req'[r].pc = "decide" /\ req'[r].instanceRead = q.instanceRead
            /\ req'[r].tenantRead = tenants[q.instanceRead.tenant]
        BY <1>0, <2>6 DEF ReadTenant, RequestState
      <3>4. InstancePasses(req[r])' <=> InstancePasses(req[r])
        BY <2>1, <3>3 DEF InstancePasses
      <3>5. TenantEligible(req'[r].tenantRead) <=> Open("tenant", q.instance, q.scope)
        BY <1>0, <3>1, <3>3 DEF TenantEligible, Open, Shape
      <3> QED
        BY <1>0, <2>1, <2>2, <2>3, <3>1, <3>2, <3>3, <3>4, <3>5 DEF Judged, Reads
    <2>7. CASE Decide(r)
      <3>1. /\ q.kind \in {"mint", "inFlight"} /\ q.pc = "decide"
            /\ q.tenantRead # None
        BY <1>0, <2>7, NoRecordAssumption DEF Decide, Shape, RequestState, TenantRecord
      <3>2. Eligible(q) <=> TenantEligible(q.tenantRead) /\ InstancePasses(q)
        BY <3>1 DEF Eligible, InstancePasses, InstanceEligible
      <3>3. req'[r].pc = IF Eligible(q) THEN "granted" ELSE "denied"
        BY <1>0, <2>7 DEF Decide, Decided, RequestState
      <3>4. Eligible(q) => shut'[r] = {}
        BY <1>0, <2>2, <3>1, <3>2 DEF Reads, GatesOf, Gates
      <3>5. ~Eligible(q) => disturbed'[r]
        BY <1>0, <2>2, <3>1, <3>2 DEF Reads
      <3>6. shut'[r] \subseteq GatesOf(q.kind)
        BY <1>0, <2>2 DEF Reads
      <3> QED
        BY <2>1, <3>3, <3>4, <3>5, <3>6 DEF Judged, Reads
    <2>8. ~DecideRefresh(r) /\ ~Abandon(r) /\ ~Denied(r) /\ ~MintGranted(r)
          /\ ~InFlightContinues(r)
      BY <1>0, <1>3 DEF DecideRefresh, Abandon, Denied, MintGranted, InFlightContinues, Idle
    <2>9. /\ \A i \in Instances, s \in Scopes : ~MintBegin(r, i, s)
          /\ \A i \in Instances : ~InFlightBegin(r, i)
          /\ \A expiry \in Dates \cup {NoDate} : ~RefreshBegin(r, expiry)
      BY <1>3 DEF MintBegin, InFlightBegin, RefreshBegin
    <2> QED
      BY <2>4, <2>5, <2>6, <2>7, <2>8, <2>9 DEF Step
  <1>4. CASE ~Reading(r) /\ req[r].pc # "idle" /\ req'[r].pc # "idle"
    <2>1. DecideRefresh(r)
      <3>1. /\ \A i \in Instances, s \in Scopes : ~MintBegin(r, i, s)
            /\ \A i \in Instances : ~InFlightBegin(r, i)
            /\ \A expiry \in Dates \cup {NoDate} : ~RefreshBegin(r, expiry)
        BY <1>4 DEF MintBegin, InFlightBegin, RefreshBegin
      <3>2. ~ReadOutage(r) /\ ~ReadInstance(r) /\ ~ReadTenant(r) /\ ~Decide(r)
        BY <1>4 DEF ReadOutage, ReadInstance, ReadTenant, Decide
      <3>3. ~Abandon(r) /\ ~Denied(r) /\ ~MintGranted(r) /\ ~InFlightContinues(r)
        BY <1>0, <1>4 DEF Abandon, Denied, MintGranted, InFlightContinues, Idle
      <3> QED
        BY <3>1, <3>2, <3>3 DEF Step
    <2>2. /\ req'[r].pc \in {"paused", "retry"} /\ req'[r].kind = req[r].kind
          /\ req[r].pc = "deadline"
      BY <1>0, <2>1 DEF DecideRefresh, RequestState
    <2>3. shut'[r] = shut[r] /\ disturbed'[r] = disturbed[r]
      BY <1>0, <1>4, History
    <2> QED
      BY <1>0, <2>2, <2>3 DEF Judged, Reads
  <1> QED
    BY <1>1, <1>2, <1>3, <1>4

\* Every step keeps the requests judged.
LEMMA JudgedStep ==
    InductiveInv /\ [Next]_vars => ReadInv' /\ GrantJustified' /\ DenialJustified'
  <1> SUFFICES ASSUME InductiveInv, [Next]_vars, NEW r \in Requests PROVE Judged(r)'
    BY DEF ReadInv, GrantJustified, DenialJustified, Judged
  <1>0. TypeOK /\ KnownInv /\ ShapeInv /\ Judged(r)
    BY DEF InductiveInv, ReadInv, GrantJustified, DenialJustified, Judged
  <1>1. CASE UNCHANGED vars
    BY <1>0, <1>1 DEF Judged, Reads, InstancePasses, At, Refused, vars, serviceVars
  <1>2. CASE Next /\ req'[r] = req[r]
    BY <1>0, <1>2, JudgedUnmoved
  <1>3. CASE Next /\ req'[r] # req[r]
    <2>1. UNCHANGED <<registryVars, now, outage>> /\ \E o \in Requests : Step(o)
      BY <1>0, <1>3, Frame DEF Next, TypeOK
    <2>2. Step(r)
      BY <1>0, <1>3, <2>1, RequestMoves DEF Move
    <2> QED
      BY <1>0, <1>3, <2>1, <2>2, JudgedMove
  <1> QED
    BY <1>1, <1>2, <1>3

\* Every step keeps paused requests past their deadline.
LEMMA LateStep == InductiveInv /\ [Next]_vars => LateInv'
  <1> SUFFICES ASSUME InductiveInv, [Next]_vars, NEW r \in Requests, At(r, "paused")'
               PROVE  GraceIsOver(req[r].expiry)'
    BY DEF LateInv, Late
  <1> USE DEF At
  <1>0. /\ TypeOK /\ ServiceTypeOK /\ KnownInv /\ ShapeInv /\ Late(r)
        /\ req \in [Requests -> RequestState] /\ req[r] \in RequestState /\ now \in Nat
    BY DEF InductiveInv, LateInv, TypeOK, ServiceTypeOK
  <1>1. CASE UNCHANGED vars
    BY <1>0, <1>1 DEF Late, GraceIsOver, vars, serviceVars
  <1>2. CASE Next /\ req'[r] = req[r]
    <2>1. now' = now \/ now' = now + 1
      BY <1>0, <1>2, Frame DEF Next
    <2> DEFINE allowed == Grace * Second
    <2>2. allowed \in Nat
      BY DurationsAssumption
    <2>3. req[r].expiry = NoDate \/ now > req[r].expiry + allowed
      BY <1>0, <1>2 DEF Late, GraceIsOver
    <2>4. req'[r].expiry = NoDate \/ now' > req'[r].expiry + allowed
      <3>1. req[r].expiry \in Nat \cup {NoDate}
        BY <1>0 DEF RequestState
      <3> HIDE DEF allowed
      <3> QED
        BY <1>0, <1>2, <2>1, <2>2, <2>3, <3>1
    <2> QED
      BY <2>4 DEF GraceIsOver
  <1>3. CASE Next /\ req'[r] # req[r]
    <2>1. UNCHANGED now /\ \E o \in Requests : Step(o)
      BY <1>0, <1>3, Frame DEF Next
    <2>2. Step(r)
      BY <1>0, <1>3, <2>1, RequestMoves DEF Move
    <2>3. DecideRefresh(r)
      <3>1. /\ \A i \in Instances, s \in Scopes : ~MintBegin(r, i, s)
            /\ \A i \in Instances : ~InFlightBegin(r, i)
            /\ \A expiry \in Dates \cup {NoDate} : ~RefreshBegin(r, expiry)
        BY <1>0, RequestMoves, <2>2 DEF Move, MintBegin, InFlightBegin, RefreshBegin
      <3>2. ~ReadOutage(r) /\ ~ReadInstance(r) /\ ~ReadTenant(r) /\ ~Decide(r)
        <4>1. req'[r].pc = "paused"
          OBVIOUS
        <4>2. ReadOutage(r) => req[r].kind \in {"mint", "refresh"}
          BY <1>0 DEF ReadOutage, ShapeInv, Shape, RequestState
        <4>3. ~ReadOutage(r)
          BY ZenonT(30), <1>0, <4>1, <4>2 DEF ReadOutage, AfterOutageRead, RequestState
        <4>4. ~ReadInstance(r) /\ ~ReadTenant(r)
          BY <1>0, <4>1 DEF ReadInstance, ReadTenant, RequestState
        <4>5. ~Decide(r)
          <5>1. Decide(r) => req'[r].pc \in {"granted", "denied"}
            BY <1>0 DEF Decide, Decided, RequestState
          <5> QED
            BY <4>1, <5>1
        <4> QED
          BY <4>3, <4>4, <4>5
      <3>3. ~Abandon(r) /\ ~Denied(r) /\ ~MintGranted(r) /\ ~InFlightContinues(r)
        BY <1>0 DEF Abandon, Denied, MintGranted, InFlightContinues, Idle
      <3> QED
        BY <2>2, <3>1, <3>2, <3>3 DEF Step
    <2> QED
      BY <1>0, <2>1, <2>3 DEF DecideRefresh, GraceIsOver, RequestState
  <1> QED
    BY <1>1, <1>2, <1>3

\* Every step keeps the last opening of the watched gate after the beginning
\* of the mints that found it open.
LEMMA WatchStep == InductiveInv /\ [Next]_vars => WatchInv'
  <1> SUFFICES ASSUME InductiveInv, [Next]_vars PROVE WatchInv'
    OBVIOUS
  <1>0. /\ TypeOK /\ ServiceTypeOK /\ KnownInv /\ ShapeInv /\ WatchInv
        /\ req \in [Requests -> RequestState] /\ now \in Nat
    BY DEF InductiveInv, TypeOK, ServiceTypeOK
  <1>1. CASE UNCHANGED vars
    BY <1>0, <1>1 DEF WatchInv, Watched, vars, serviceVars
  <1>2. CASE Next
    <2>1. now' \in Nat /\ Seconds(now) <= Seconds(now')
          /\ Seconds(now) \in Nat /\ Seconds(now') \in Nat
      <3>1. now' = now \/ now' = now + 1
        BY <1>0, <1>2, Frame DEF Next
      <3> QED
        BY <1>0, <3>1, WholeSeconds
    <2>2. /\ watched' = watched /\ watched \in [gate: Gates, instance: Instances, scope: Scopes]
          /\ lastOpen \in Int /\ lastOpen' \in Int
          /\ lastOpen <= lastOpen' /\ lastOpen' <= Seconds(now')
          /\ WatchedOpen' => lastOpen' = Seconds(now')
      BY <1>0, <1>2, <2>1 DEF Next, Observe, WatchInv, TypeOK, NotYet
    <2>3. ASSUME NEW r \in Requests
          PROVE  Watched(r)'
      <3> SUFFICES ASSUME req'[r].kind = "mint", req'[r].pc # "idle",
                          req'[r].instance = watched.instance,
                          req'[r].scope = watched.scope,
                          watched.gate \notin shut'[r]
                   PROVE  req'[r].begun <= lastOpen'
        BY <2>2 DEF Watched
      <3>1. Shape(r)' /\ req'[r].begun <= Seconds(now')
        BY ShapeStep DEF ShapeInv, Shape
      <3>2. CASE watched.gate \notin Closed(r)'
        <4>1. WatchedOpen'
          BY <2>2, <3>2 DEF Closed, GatesOf, WatchedOpen
        <4> QED
          BY <2>2, <3>1, <4>1
      <3>3. CASE watched.gate \in Closed(r)'
        <4>1. req[r].pc # "idle"
          BY <1>0, <1>2, <3>3, History
        <4>2. watched.gate \notin shut[r]
          BY <1>0, <1>2, <3>3, <4>1, History
        <4>3. /\ req'[r].kind = req[r].kind /\ req'[r].begun = req[r].begun
              /\ req'[r].instance = req[r].instance /\ req'[r].scope = req[r].scope
          <5>1. req'[r] = req[r] \/ Step(r)
            BY <1>0, <1>2, Frame, RequestMoves DEF Next, Move
          <5> QED
            BY <1>0, <4>1, <5>1, RequestMoves DEF Move
        <4>4. req[r].begun <= lastOpen /\ req[r].begun \in Nat
          BY <1>0, <4>1, <4>2, <4>3 DEF WatchInv, Watched, RequestState
        <4> QED
          BY <2>2, <4>3, <4>4
      <3> QED
        BY <3>2, <3>3
    <2>4. ASSUME NEW token \in tokens', token.instance = watched.instance,
                 token.scope = watched.scope
          PROVE  token.begun <= lastOpen'
      <3>1. token.begun <= lastOpen /\ token.begun \in Nat
        <4>1. CASE token \in tokens
          BY <1>0, <2>4, <4>1 DEF WatchInv, ServiceTypeOK, Token
        <4>2. CASE token \notin tokens
          <5>1. PICK r \in Requests : Step(r)
            BY <1>0, <1>2, <4>2, Frame DEF Next
          <5>2. MintGranted(r)
            BY <4>2, <5>1 DEF Step, MintBegin, InFlightBegin, RefreshBegin, ReadOutage,
               DecideRefresh, ReadInstance, ReadTenant, Decide, InFlightContinues, Denied,
               Abandon
          <5>3. /\ req[r].pc = "granted" /\ req[r].kind = "mint"
                /\ token = [instance |-> req[r].instance, scope |-> req[r].scope,
                            begun |-> req[r].begun, iat |-> req[r].iat]
            BY <4>2, <5>2 DEF MintGranted, At
          <5>4. shut[r] = {}
            BY <5>3 DEF InductiveInv, GrantJustified, At
          <5> QED
            BY <1>0, <2>4, <5>3, <5>4 DEF WatchInv, Watched, RequestState
        <4> QED
          BY <4>1, <4>2
      <3> QED
        BY <2>2, <3>1
    <2> QED
      BY <2>2, <2>3, <2>4 DEF WatchInv
  <1> QED
    BY <1>1, <1>2

\* InductiveInv holds in every reachable state.
THEOREM Invariance == Spec => []InductiveInv
  <1>1. InductiveInv /\ [Next]_vars => InductiveInv'
    <2> SUFFICES ASSUME InductiveInv, [Next]_vars PROVE InductiveInv'
      OBVIOUS
    <2>1. KnownInv'
      <3>1. TypeOK /\ KnownInv
        BY DEF InductiveInv
      <3> QED
        BY <3>1, Frame DEF Next, TypeOK, KnownInv, vars, serviceVars, registryVars
    <2> QED
      BY <2>1, TypeStep, ShapeStep, JudgedStep, LateStep, WatchStep DEF InductiveInv
  <1> QED
    BY <1>1, InitInductive, PTL DEF Spec

-----------------------------------------------------------------------------
\* Requests, registry, tokens and history have their types.
THEOREM TypeCorrect == Spec => []TypeOK
  <1>1. InductiveInv => TypeOK
    BY DEF InductiveInv
  <1> QED
    BY <1>1, Invariance, PTL

\* A request is granted only if each of its gates was open at some moment of it.
THEOREM Grants == Spec => []GrantJustified
  <1>1. InductiveInv => GrantJustified
    BY DEF InductiveInv
  <1> QED
    BY <1>1, Invariance, PTL

\* A request is refused only if some gate of it was closed at some moment of it.
THEOREM Denials == Spec => []DenialJustified
  <1>1. InductiveInv => DenialJustified
    BY DEF InductiveInv
  <1> QED
    BY <1>1, Invariance, PTL

\* With a grace longer than the skew, work that gave the expiry of its token is
\* paused only when that token is no longer accepted.
THEOREM Pauses == Spec => []PausedTokenIsDead
  <1>1. InductiveInv => PausedTokenIsDead
    <2> SUFFICES ASSUME InductiveInv, Grace > Skew, NEW r \in Requests, At(r, "paused"),
                        NEW token \in tokens, req[r].expiry = Expiry(token)
                 PROVE  ~Accepts(token.iat)
      BY DEF PausedTokenIsDead
    <2> DEFINE end == token.iat + Ttl
    <2>1. now \in Nat /\ token.iat \in Nat /\ end \in Nat /\ end + Grace \in Nat
      BY DurationsAssumption DEF InductiveInv, TypeOK, ServiceTypeOK, Token
    <2>2. now > (end + Grace) * Second
      <3>1. GraceIsOver(end * Second)
        BY DEF InductiveInv, LateInv, Late, Expiry
      <3> HIDE DEF end
      <3>2. end * Second \in Nat
        BY <2>1, DurationsAssumption
      <3>3. now > end * Second + Grace * Second
        BY <3>1, <3>2 DEF GraceIsOver, NoDate
      <3>4. end * Second + Grace * Second = (end + Grace) * Second
        BY <2>1, DurationsAssumption
      <3> QED
        BY <3>3, <3>4
    <2>3. end + Grace <= Seconds(now) /\ Seconds(now) \in Nat
      <3> HIDE DEF end
      <3> QED
        BY <2>1, <2>2, WholeSeconds
    <2> QED
      BY <2>1, <2>3, DurationsAssumption DEF Accepts
  <1> QED
    BY <1>1, Invariance, PTL

\* A token outlives the closing of a gate by Ttl + Skew at most, and the time
\* that its mint took.
THEOREM DisableBites == Spec => []DisableBitesInTime
  <1>1. InductiveInv => DisableBitesInTime
    <2> SUFFICES ASSUME InductiveInv, NEW token \in tokens,
                        token.instance = watched.instance,
                        token.scope = watched.scope, Accepts(token.iat)
                 PROVE  Seconds(now) <= lastOpen + Ttl + Skew + (token.iat - token.begun)
      BY DEF DisableBitesInTime
    <2>1. token.begun <= lastOpen
      BY DEF InductiveInv, WatchInv
    <2>2. token.iat \in Nat /\ token.begun \in Nat /\ lastOpen \in Int /\ Seconds(now) \in Nat
      BY WholeSeconds DEF InductiveInv, TypeOK, ServiceTypeOK, Token, NotYet
    <2> QED
      BY <2>1, <2>2, DurationsAssumption DEF Accepts
  <1> QED
    BY <1>1, Invariance, PTL
=============================================================================
