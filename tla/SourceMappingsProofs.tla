------------------------ MODULE SourceMappingsProofs ------------------------
(***************************************************************************)
(* What SourceMappings keeps true for every number of readers,             *)
(* administrators, tenants, instances and sources.                         *)
(*                                                                         *)
(* A listing and a lookup combine two reads.  ReadInv ties what the first  *)
(* one found to the history: the tenants read are those that steady        *)
(* instances passed with, and one that passed the filters then is in       *)
(* fitTenants.  The pairing itself is safe because no record is removed    *)
(* and no instance changes its tenant (KnownInv and RegistryMoves).        *)
(***************************************************************************)
EXTENDS SourceMappings, TLAPS

\* The tenant of every instance is there.
KnownInv ==
    \A i \in Instances : instances[i] # None =>
        tenants[instances[i].tenant] # None

\* What a listing knows from its first read.
ListRead(r) ==
    LET q == req[r] IN
    /\ \A i \in steady[r] :
           LET t == q.tenants[instances[i].tenant] IN
           t # None /\ TenantPasses(q.filters, t)
    /\ \A t \in Tenants :
           q.tenants[t] # None /\ TenantPasses(q.filters, q.tenants[t]) => t \in fitTenants[r]

\* What a lookup knows from its first read.
LookupRead(r) ==
    LET q == req[r] IN
    /\ q.target \in Instances /\ q.tenant \in Tenants
    /\ q.target \in steady[r] => q.instance # None
    /\ q.instance # None =>
           /\ instances[q.target] # None
           /\ instances[q.target].tenant = q.instance.tenant

\* What reader r has read, and what has been observed meanwhile.
Reads(r) ==
    LET q == req[r] IN
    /\ \A i \in steady[r] : instances[i] # None
    /\ q.pc = "instances" => ListRead(r)
    /\ q.pc = "listed" => \A i \in q.listed : instances[i] # None
    /\ q.pc = "tenant" => LookupRead(r)
    /\ q.pc \in {"resolved", "notFound"} => q.target \in Instances
    /\ q.pc = "resolved" => instances[q.target] # None

ReadInv == \A r \in Readers : Reads(r)

InductiveInv ==
    /\ TypeOK
    /\ KnownInv
    /\ SourcesUnique
    /\ ReadInv
    /\ ListingComplete
    /\ ListingSound
    /\ ResolveExact
-----------------------------------------------------------------------------
\* A registry operation keeps every record, the tenant of every instance, and
\* the sources apart.
LEMMA RegistryMoves ==
    ASSUME RegistryTypeOK, KnownInv, SourcesUnique, NEW a \in Admins, RegistryStep(a)
    PROVE  /\ RegistryTypeOK' /\ KnownInv' /\ SourcesUnique'
           /\ \A i \in Instances : instances[i] # None =>
                  instances'[i] # None /\ instances'[i].tenant = instances[i].tenant
  <1> DEFINE Kept ==
        /\ RegistryTypeOK' /\ KnownInv' /\ SourcesUnique'
        /\ \A i \in Instances : instances[i] # None =>
               instances'[i] # None /\ instances'[i].tenant = instances[i].tenant
  <1> USE NoRecordAssumption DEF RegistryTypeOK, KnownInv, SourcesUnique, TenantRecord, InstanceRecord, Stored
  <1>1. ASSUME NEW t \in Tenants, NEW s \in Statuses, NEW e \in Statuses,
               CreateTenant(a, t, s, e)
        PROVE  Kept
    BY <1>1 DEF CreateTenant
  <1>2. ASSUME NEW t \in Tenants, NEW s \in Statuses, SetTenantState(a, t, s)
        PROVE  Kept
    BY <1>2 DEF SetTenantState
  <1>3. ASSUME NEW t \in Tenants, NEW e \in Statuses, SetTenantEntitlement(a, t, e)
        PROVE  Kept
    BY <1>3 DEF SetTenantEntitlement
  <1>4. ASSUME NEW i \in Instances, NEW t \in Tenants, NEW src \in Sources,
               NEW s \in Statuses, NEW services \in SUBSET Scopes,
               CreateInstance(a, i, t, src, s, services)
        PROVE  Kept
    BY <1>4 DEF CreateInstance, CanCreateInstance
  <1>5. ASSUME NEW i \in Instances, NEW s \in Statuses, SetInstanceState(a, i, s)
        PROVE  Kept
    BY <1>5 DEF SetInstanceState
  <1>6. ASSUME NEW i \in Instances, NEW services \in SUBSET Scopes,
               SetInstanceAllowedServices(a, i, services)
        PROVE  Kept
    BY <1>6 DEF SetInstanceAllowedServices
  <1>7. ASSUME AuditRecorded(a)
        PROVE  Kept
    BY <1>7 DEF AuditRecorded, registry
  <1> QED
    BY <1>1, <1>2, <1>3, <1>4, <1>5, <1>6, <1>7 DEF RegistryStep

\* The two kinds of steps, and what they leave alone.
LEMMA Frame ==
    ASSUME TypeOK, KnownInv, SourcesUnique, Next
    PROVE  /\ RegistryTypeOK' /\ KnownInv' /\ SourcesUnique'
           /\ \A i \in Instances : instances[i] # None =>
                  instances'[i] # None /\ instances'[i].tenant = instances[i].tenant
           /\ \/ UNCHANGED req
              \/ UNCHANGED registryVars /\ \E r \in Readers : Read(r)
  <1>1. ASSUME NEW r \in Readers, Read(r)
        PROVE  UNCHANGED registryVars
    BY <1>1 DEF Read, ListTenants, ListInstances, GetInstance, GetTenant, Reply
  <1>2. ASSUME NEW a \in Admins, RegistryStep(a)
        PROVE  /\ RegistryTypeOK' /\ KnownInv' /\ SourcesUnique'
               /\ \A i \in Instances : instances[i] # None =>
                      instances'[i] # None /\ instances'[i].tenant = instances[i].tenant
    BY <1>2, RegistryMoves DEF TypeOK
  <1>3. UNCHANGED registryVars => RegistryTypeOK' /\ KnownInv' /\ SourcesUnique'
    BY DEF TypeOK, RegistryTypeOK, KnownInv, SourcesUnique, registryVars
  <1> QED
    BY <1>1, <1>2, <1>3 DEF Next, registryVars

\* A read moves its own request only, and keeps its types.
LEMMA RequestMoves ==
    ASSUME TypeOK, NEW r \in Readers, Read(r)
    PROVE  /\ req' \in [Readers -> RequestState]
           /\ \A o \in Readers \ {r} : req'[o] = req[o]
  <1>0. /\ Idle \in RequestState /\ req[r] \in RequestState
        /\ req \in [Readers -> RequestState] /\ RegistryTypeOK
        /\ NothingRead \in [Tenants -> TenantRecord \cup {None}]
    BY DEF TypeOK, Idle, NothingRead, NoFilter, Filter, RequestState
  <1>1. ASSUME NEW filters \in Filters, ListTenants(r, filters)
        PROVE  \E q \in RequestState : req' = [req EXCEPT ![r] = q]
    <2>1. [Idle EXCEPT !.pc = "instances", !.filters = filters, !.tenants = tenants]
            \in RequestState
      BY <1>0, FiltersAssumption DEF Idle, RequestState, RegistryTypeOK
    <2> QED
      BY <1>1, <2>1 DEF ListTenants
  <1>2. ASSUME ListInstances(r)
        PROVE  \E q \in RequestState : req' = [req EXCEPT ![r] = q]
    <2> DEFINE l == {i \in Instances : instances[i] # None /\ Selects(i, req[r])}
    <2>1. [req[r] EXCEPT !.pc = "listed", !.tenants = NothingRead, !.listed = l] \in RequestState
      <3>1. l \in SUBSET Instances
        OBVIOUS
      <3> HIDE DEF l
      <3> QED
        BY <1>0, <3>1 DEF RequestState
    <2>2. req' = [req EXCEPT ![r] = [req[r] EXCEPT !.pc = "listed",
                                       !.tenants = NothingRead, !.listed = l]]
      BY <1>0, <1>2 DEF ListInstances
    <2> QED
      BY <2>1, <2>2
  <1>3. ASSUME NEW t \in Tenants, NEW i \in Instances, GetInstance(r, t, i)
        PROVE  \E q \in RequestState : req' = [req EXCEPT ![r] = q]
    <2>1. [Idle EXCEPT !.pc = "tenant", !.target = i, !.tenant = t, !.instance = instances[i]]
            \in RequestState
      BY <1>0 DEF Idle, RequestState, RegistryTypeOK
    <2> QED
      BY <1>3, <2>1 DEF GetInstance
  <1>4. ASSUME GetTenant(r)
        PROVE  \E q \in RequestState : req' = [req EXCEPT ![r] = q]
    <2> DEFINE step == IF Matches(req[r]) THEN "resolved" ELSE "notFound"
    <2>1. [req[r] EXCEPT !.pc = step, !.instance = None] \in RequestState
      BY <1>0 DEF RequestState
    <2>2. req' = [req EXCEPT ![r] = [req[r] EXCEPT !.pc = step, !.instance = None]]
      BY <1>0, <1>4 DEF GetTenant
    <2> QED
      BY <2>1, <2>2
  <1>5. ASSUME Reply(r)
        PROVE  \E q \in RequestState : req' = [req EXCEPT ![r] = q]
    BY <1>0, <1>5 DEF Reply
  <1>6. PICK q \in RequestState : req' = [req EXCEPT ![r] = q]
    BY <1>1, <1>2, <1>3, <1>4, <1>5 DEF Read
  <1> QED
    BY <1>0, <1>6

\* The initial state satisfies the invariant.
LEMMA InitInductive == Init => InductiveInv
  <1> SUFFICES ASSUME Init PROVE InductiveInv
    OBVIOUS
  <1> USE DEF Init, RegistryInit
  <1>0. Idle \in RequestState /\ Idle.pc = "idle"
    BY DEF Idle, NothingRead, NoFilter, Filter, RequestState
  <1>1. TypeOK
    BY <1>0 DEF TypeOK, RegistryTypeOK
  <1>2. KnownInv /\ SourcesUnique
    BY DEF KnownInv, SourcesUnique
  <1>3. ReadInv
    BY <1>0 DEF ReadInv, Reads
  <1>4. ListingComplete /\ ListingSound /\ ResolveExact
    BY <1>0 DEF ListingComplete, ListingSound, ResolveExact
  <1> QED
    BY <1>1, <1>2, <1>3, <1>4 DEF InductiveInv

\* The history of a request: it begins with its first state, is kept up while the
\* request reads, and ends with its last read.
LEMMA History ==
    ASSUME Next, NEW r \in Readers
    PROVE  /\ req'[r].pc = "idle" =>
                  steady'[r] = {} /\ fitInstances'[r] = {} /\ fitTenants'[r] = {}
           /\ req[r].pc = "idle" /\ req'[r].pc # "idle" =>
                  /\ steady'[r] = Passing(r)'
                  /\ fitInstances'[r] = FitInstances(r)' /\ fitTenants'[r] = FitTenants(r)'
           /\ Reading(r) /\ req'[r].pc # "idle" =>
                  /\ steady'[r] = steady[r] \cap Passing(r)'
                  /\ fitInstances'[r] = fitInstances[r] \cup FitInstances(r)'
                  /\ fitTenants'[r] = fitTenants[r] \cup FitTenants(r)'
           /\ ~Reading(r) /\ req[r].pc # "idle" /\ req'[r].pc # "idle" =>
                  UNCHANGED <<steady[r], fitInstances[r], fitTenants[r]>>
  <1>1. /\ steady'[r] = Traced(r, Passing(r)', steady[r] \cap Passing(r)', steady[r])
        /\ fitInstances'[r] = Traced(r, FitInstances(r)', fitInstances[r] \cup FitInstances(r)',
                                     fitInstances[r])
        /\ fitTenants'[r] = Traced(r, FitTenants(r)', fitTenants[r] \cup FitTenants(r)',
                                   fitTenants[r])
    BY DEF Next, Observe
  <1>2. ASSUME NEW begun, NEW kept, NEW ended
        PROVE  /\ req'[r].pc = "idle" => Traced(r, begun, kept, ended) = {}
               /\ req[r].pc = "idle" /\ req'[r].pc # "idle" =>
                      Traced(r, begun, kept, ended) = begun
               /\ Reading(r) /\ req'[r].pc # "idle" => Traced(r, begun, kept, ended) = kept
               /\ ~Reading(r) /\ req[r].pc # "idle" /\ req'[r].pc # "idle" =>
                      Traced(r, begun, kept, ended) = ended
    BY DEF Traced, Reading
  <1> HIDE DEF Traced, Passing, FitInstances, FitTenants
  <1> QED
    BY <1>1, <1>2

\* Every step keeps the types.
LEMMA TypeStep == InductiveInv /\ [Next]_vars => TypeOK'
  <1> SUFFICES ASSUME InductiveInv, [Next]_vars PROVE TypeOK'
    OBVIOUS
  <1>0. TypeOK /\ KnownInv /\ SourcesUnique
    BY DEF InductiveInv
  <1>1. CASE UNCHANGED vars
    BY <1>0, <1>1 DEF TypeOK, RegistryTypeOK, vars, registryVars
  <1>2. CASE Next
    <2>1. RegistryTypeOK' /\ req' \in [Readers -> RequestState]
      BY <1>0, <1>2, Frame, RequestMoves DEF TypeOK
    <2>2. \A r \in Readers : /\ Passing(r)' \subseteq Instances
                             /\ FitInstances(r)' \subseteq Instances
                             /\ FitTenants(r)' \subseteq Tenants
      BY DEF Passing, FitInstances, FitTenants
    <2>3. /\ steady' \in [Readers -> SUBSET Instances]
          /\ fitInstances' \in [Readers -> SUBSET Instances]
          /\ fitTenants' \in [Readers -> SUBSET Tenants]
      BY <1>0, <1>2, <2>2 DEF TypeOK, Next, Observe, Traced
    <2> QED
      BY <2>1, <2>3 DEF TypeOK
  <1> QED
    BY <1>1, <1>2

-----------------------------------------------------------------------------
\* What is known of a request, its answer included.
Judged(r) ==
    LET q == req[r] IN
    /\ Reads(r)
    /\ q.pc = "listed" => steady[r] \subseteq q.listed
    /\ q.pc = "listed" => \A i \in q.listed :
           i \in fitInstances[r] /\ instances[i].tenant \in fitTenants[r]
    /\ q.pc = "resolved" => instances[q.target].tenant = q.tenant
    /\ q.pc = "notFound" /\ q.target \in steady[r] =>
           instances[q.target].tenant # q.tenant

\* A request that does not move stays judged while the registry changes.
LEMMA JudgedUnmoved ==
    ASSUME InductiveInv, Next, NEW r \in Readers, Judged(r), req'[r] = req[r]
    PROVE  Judged(r)'
  <1>0. /\ TypeOK /\ req[r] \in RequestState /\ steady[r] \subseteq Instances
        /\ fitInstances[r] \subseteq Instances /\ fitTenants[r] \subseteq Tenants
    BY DEF InductiveInv, TypeOK
  <1>1. \A i \in Instances : instances[i] # None =>
            instances'[i] # None /\ instances'[i].tenant = instances[i].tenant
    BY Frame DEF InductiveInv
  <1>2. /\ steady'[r] \subseteq steady[r]
        /\ req[r].pc # "idle" =>
               /\ fitInstances[r] \subseteq fitInstances'[r]
               /\ fitTenants[r] \subseteq fitTenants'[r]
    <2>1. CASE req[r].pc = "idle"
      BY <2>1, History
    <2>2. CASE req[r].pc # "idle"
      BY <2>2, History
    <2> QED
      BY <2>1, <2>2
  <1>3. req[r].listed \subseteq Instances
    BY <1>0 DEF RequestState
  <1>4. Reads(r)'
    <2>1. req[r].pc = "instances" => ListRead(r)'
      BY <1>0, <1>1, <1>2 DEF Judged, Reads, ListRead
    <2>2. req[r].pc = "tenant" => LookupRead(r)'
      BY <1>0, <1>1, <1>2 DEF Judged, Reads, LookupRead
    <2> QED
      BY <1>0, <1>1, <1>2, <1>3, <2>1, <2>2 DEF Judged, Reads
  <1> QED
    BY <1>0, <1>1, <1>2, <1>3, <1>4 DEF Judged, Reads

\* A read leaves its request judged.
LEMMA JudgedMove ==
    ASSUME InductiveInv, Next, NEW r \in Readers, Judged(r), Read(r),
           UNCHANGED registryVars
    PROVE  Judged(r)'
  <1> DEFINE q == req[r]
  <1>0. /\ TypeOK /\ RegistryTypeOK /\ KnownInv /\ Reads(r)
        /\ req \in [Readers -> RequestState] /\ q \in RequestState
        /\ steady[r] \subseteq Instances
        /\ tenants' = tenants /\ instances' = instances
    BY DEF InductiveInv, TypeOK, Judged, registryVars
  <1>1. \A i \in Instances : instances[i] # None => instances[i].tenant \in Tenants
    BY <1>0 DEF RegistryTypeOK, InstanceRecord
  <1>2. CASE Reply(r)
    <2>1. req'[r] = Idle
      BY <1>0, <1>2 DEF Reply
    <2>2. req'[r].pc = "idle"
      BY <2>1 DEF Idle
    <2>3. steady'[r] = {}
      BY <2>2, History
    <2> QED
      BY <2>2, <2>3 DEF Judged, Reads
  <1>3. ASSUME NEW filters \in Filters, ListTenants(r, filters)
        PROVE  Judged(r)'
    <2>1. /\ req'[r].pc = "instances" /\ req'[r].filters = filters
          /\ req'[r].tenants = tenants /\ q.pc = "idle"
      BY <1>0, <1>3 DEF ListTenants, Idle
    <2>2. steady'[r] = Passing(r)' /\ fitTenants'[r] = FitTenants(r)'
      BY <2>1, History
    <2>3. ASSUME NEW i \in steady'[r]
          PROVE  /\ instances[i] # None /\ tenants[instances[i].tenant] # None
                 /\ TenantPasses(filters, tenants[instances[i].tenant])
      BY <1>0, <2>1, <2>2, <2>3 DEF Passing, FitInstances, FitTenants
    <2>4. ASSUME NEW t \in Tenants, tenants[t] # None, TenantPasses(filters, tenants[t])
          PROVE  t \in fitTenants'[r]
      BY <1>0, <2>1, <2>2, <2>4 DEF FitTenants
    <2>5. ListRead(r)'
      BY <1>0, <2>1, <2>3, <2>4 DEF ListRead, TenantPasses
    <2> QED
      BY <1>0, <2>1, <2>3, <2>5 DEF Judged, Reads
  <1>4. CASE ListInstances(r)
    <2>1. /\ q.pc = "instances" /\ req'[r].pc = "listed" /\ req'[r].filters = q.filters
          /\ req'[r].listed = {i \in Instances : instances[i] # None /\ Selects(i, q)}
      BY <1>0, <1>4 DEF ListInstances, RequestState
    <2>2. /\ steady'[r] = steady[r] \cap Passing(r)'
          /\ fitInstances'[r] = fitInstances[r] \cup FitInstances(r)'
          /\ fitTenants'[r] = fitTenants[r] \cup FitTenants(r)'
      BY <2>1, History DEF Reading
    <2>3. ListRead(r)
      BY <1>0, <2>1 DEF Reads
    <2>4. FitInstances(r)' = {i \in Instances :
              instances[i] # None /\ InstancePasses(q.filters, i, instances[i])}
      BY <1>0, <2>1 DEF FitInstances
    <2>5. ASSUME NEW i \in steady'[r]
          PROVE  i \in req'[r].listed
      <3>1. i \in Instances /\ instances[i] # None /\ i \in steady[r]
            /\ InstancePasses(q.filters, i, instances[i])
        BY <1>0, <2>2, <2>4, <2>5 DEF Passing
      <3> QED
        BY <2>1, <2>3, <3>1 DEF ListRead, Selects
    <2>6. ASSUME NEW i \in req'[r].listed
          PROVE  i \in fitInstances'[r] /\ instances'[i].tenant \in fitTenants'[r]
      <3>1. i \in Instances /\ instances[i] # None /\ Selects(i, q)
        BY <2>1, <2>6
      <3>2. i \in fitInstances'[r]
        BY <2>2, <2>4, <3>1 DEF Selects
      <3>3. instances[i].tenant \in fitTenants[r]
        BY <1>1, <2>3, <3>1 DEF Selects, ListRead
      <3> QED
        BY <1>0, <2>2, <3>2, <3>3
    <2>7. \A i \in steady'[r] : instances'[i] # None
      BY <1>0, <2>2, <2>4 DEF Passing
    <2> QED
      BY <1>0, <2>1, <2>5, <2>6, <2>7 DEF Judged, Reads
  <1>5. ASSUME NEW t \in Tenants, NEW i \in Instances, GetInstance(r, t, i)
        PROVE  Judged(r)'
    <2>1. /\ req'[r].pc = "tenant" /\ req'[r].target = i /\ req'[r].tenant = t
          /\ req'[r].instance = instances[i] /\ q.pc = "idle"
      BY <1>0, <1>5 DEF GetInstance, Idle
    <2>2. steady'[r] = Passing(r)'
      BY <2>1, History
    <2>3. \A j \in steady'[r] : instances'[j] # None
      BY <2>2 DEF Passing, FitInstances
    <2>4. LookupRead(r)'
      BY <1>0, <2>1, <2>3 DEF LookupRead
    <2> QED
      BY <2>1, <2>3, <2>4 DEF Judged, Reads
  <1>6. CASE GetTenant(r)
    <2>1. /\ q.pc = "tenant" /\ req'[r].target = q.target /\ req'[r].tenant = q.tenant
          /\ req'[r].pc = IF Matches(q) THEN "resolved" ELSE "notFound"
      BY <1>0, <1>6 DEF GetTenant, RequestState
    <2>2. steady'[r] = steady[r] \cap Passing(r)'
      BY <2>1, History DEF Reading
    <2>3. LookupRead(r)
      BY <1>0, <2>1 DEF Reads
    <2>4. Matches(q) => instances[q.target] # None /\ instances[q.target].tenant = q.tenant
      BY <2>3 DEF LookupRead, Matches
    <2>5. ~Matches(q) /\ q.target \in steady'[r] => instances[q.target].tenant # q.tenant
      BY <1>0, <2>2, <2>3 DEF LookupRead, Matches, KnownInv
    <2>6. \A j \in steady'[r] : instances'[j] # None
      BY <1>0, <2>2 DEF Passing, FitInstances
    <2> QED
      BY <1>0, <2>1, <2>3, <2>4, <2>5, <2>6 DEF Judged, Reads, LookupRead
  <1> QED
    BY <1>2, <1>3, <1>4, <1>5, <1>6 DEF Read

\* Every step keeps the requests judged.
LEMMA JudgedStep ==
    InductiveInv /\ [Next]_vars
        => ReadInv' /\ ListingComplete' /\ ListingSound' /\ ResolveExact'
  <1> SUFFICES ASSUME InductiveInv, [Next]_vars, NEW r \in Readers PROVE Judged(r)'
    BY DEF ReadInv, ListingComplete, ListingSound, ResolveExact, Judged
  <1>0. TypeOK /\ KnownInv /\ SourcesUnique /\ Judged(r)
    BY DEF InductiveInv, ReadInv, ListingComplete, ListingSound, ResolveExact, Judged
  <1>1. CASE UNCHANGED vars
    BY <1>0, <1>1 DEF Judged, Reads, ListRead, LookupRead, vars, registryVars
  <1>2. CASE Next /\ req'[r] = req[r]
    BY <1>0, <1>2, JudgedUnmoved
  <1>3. CASE Next /\ req'[r] # req[r]
    <2>1. UNCHANGED registryVars /\ \E o \in Readers : Read(o)
      BY <1>0, <1>3, Frame
    <2>2. Read(r)
      BY <1>0, <1>3, <2>1, RequestMoves
    <2> QED
      BY <1>0, <1>3, <2>1, <2>2, JudgedMove
  <1> QED
    BY <1>1, <1>2, <1>3

\* InductiveInv holds in every reachable state.
THEOREM Invariance == Spec => []InductiveInv
  <1>1. InductiveInv /\ [Next]_vars => InductiveInv'
    <2> SUFFICES ASSUME InductiveInv, [Next]_vars PROVE InductiveInv'
      OBVIOUS
    <2>1. KnownInv' /\ SourcesUnique'
      <3>1. TypeOK /\ KnownInv /\ SourcesUnique
        BY DEF InductiveInv
      <3>2. CASE UNCHANGED vars
        BY <3>1, <3>2 DEF KnownInv, SourcesUnique, vars, registryVars
      <3> QED
        BY <3>1, <3>2, Frame
    <2> QED
      BY <2>1, TypeStep, JudgedStep DEF InductiveInv
  <1> QED
    BY <1>1, InitInductive, PTL DEF Spec

-----------------------------------------------------------------------------
\* Registry, requests and history have their types.
THEOREM TypeCorrect == Spec => []TypeOK
  <1>1. InductiveInv => TypeOK
    BY DEF InductiveInv
  <1> QED
    BY <1>1, Invariance, PTL

\* A source names one instance, over all tenants.
THEOREM OneInstancePerSource == Spec => []SourcesUnique
  <1>1. InductiveInv => SourcesUnique
    BY DEF InductiveInv
  <1> QED
    BY <1>1, Invariance, PTL

\* A listing leaves out nothing that passed its filters all the while it ran.
THEOREM ListingsComplete == Spec => []ListingComplete
  <1>1. InductiveInv => ListingComplete
    BY DEF InductiveInv
  <1> QED
    BY <1>1, Invariance, PTL

\* What is listed passed the filters on instances at one moment of the request,
\* and its tenant those on tenants at one.
THEOREM ListingsSound == Spec => []ListingSound
  <1>1. InductiveInv => ListingSound
    BY DEF InductiveInv
  <1> QED
    BY <1>1, Invariance, PTL

\* A pair is resolved only if the instance is of that tenant, and found if it
\* was there all the while.
THEOREM LookupsExact == Spec => []ResolveExact
  <1>1. InductiveInv => ResolveExact
    BY DEF InductiveInv
  <1> QED
    BY <1>1, Invariance, PTL
=============================================================================
