--------------------------- MODULE SourceMappings ---------------------------
(***************************************************************************)
(* The internal source-mapping endpoints of the server, which pair each    *)
(* instance with its tenant for other services.  Tenants and instances     *)
(* come from two reads of the store, and administrators change both in     *)
(* between.                                                                *)
(***************************************************************************)
EXTENDS Registry

CONSTANTS
    Readers,      \* listings and lookups that may be in flight
    Filters       \* filters a listing is asked for

\* A listing may give any of the filters; one it does not give is None.
Filter ==
    [instance_id: Instances \cup {None}, tenant_id: Tenants \cup {None},
     service_scope: Scopes \cup {None}, instance_state: Statuses \cup {None},
     tenant_state: Statuses \cup {None}, entitlement_state: Statuses \cup {None}]

ASSUME FiltersAssumption == Filters \subseteq Filter

VARIABLES
    req,          \* the request each reader is in, and what it has read
    steady,       \* history: instances that passed the filters in every state
                  \* since the request began
    fitInstances, \* history: instances that passed in some such state, as far as
                  \* the filters on instances go
    fitTenants    \* history: tenants that passed, as far as those on tenants go

vars == <<registryVars, req, steady, fitInstances, fitTenants>>

RequestState ==
    [pc: {"idle", "instances", "listed", "tenant", "resolved", "notFound"},
     filters: Filter,
     tenants: [Tenants -> TenantRecord \cup {None}],
     target: Instances \cup {None}, tenant: Tenants \cup {None},
     instance: InstanceRecord \cup {None},
     listed: SUBSET Instances]

NoFilter ==
    [instance_id |-> None, tenant_id |-> None, service_scope |-> None,
     instance_state |-> None, tenant_state |-> None, entitlement_state |-> None]

NothingRead == [t \in Tenants |-> None]

Idle == [pc |-> "idle", filters |-> NoFilter, tenants |-> NothingRead,
         target |-> None, tenant |-> None, instance |-> None, listed |-> {}]

-----------------------------------------------------------------------------
(* The filters                                                             *)

\* A filter that is not given lets everything pass.
Admits(wanted, value) == wanted = None \/ wanted = value

InstancePasses(filters, i, instance) ==
    /\ Admits(filters.instance_id, i)
    /\ Admits(filters.tenant_id, instance.tenant)
    /\ filters.service_scope # None => filters.service_scope \in instance.services
    /\ Admits(filters.instance_state, instance.state)

TenantPasses(filters, tenant) ==
    /\ Admits(filters.tenant_state, tenant.state)
    /\ Admits(filters.entitlement_state, tenant.entitlement)

-----------------------------------------------------------------------------
(* The history of a request: from its first read to its last               *)

Init ==
    /\ RegistryInit
    /\ req = [r \in Readers |-> Idle]
    /\ steady = [r \in Readers |-> {}]
    /\ fitInstances = [r \in Readers |-> {}]
    /\ fitTenants = [r \in Readers |-> {}]

FitInstances(r) ==
    {i \in Instances :
       instances[i] # None /\ InstancePasses(req[r].filters, i, instances[i])}

FitTenants(r) ==
    {t \in Tenants : tenants[t] # None /\ TenantPasses(req[r].filters, tenants[t])}

Passing(r) == {i \in FitInstances(r) : instances[i].tenant \in FitTenants(r)}

\* Reads are still to come.
Reading(r) == req[r].pc \in {"instances", "tenant"}

\* What becomes of the history of r: it begins with what holds in the first
\* state of the request, and goes on while the request reads.
Traced(r, begun, kept, ended) ==
    IF req'[r].pc = "idle" THEN {} ELSE
    CASE req[r].pc = "idle" -> begun
      [] Reading(r)         -> kept
      [] OTHER              -> ended

Observe ==
    /\ steady' = [r \in Readers |->
         Traced(r, Passing(r)', steady[r] \cap Passing(r)', steady[r])]
    /\ fitInstances' = [r \in Readers |->
         Traced(r, FitInstances(r)', fitInstances[r] \cup FitInstances(r)', fitInstances[r])]
    /\ fitTenants' = [r \in Readers |->
         Traced(r, FitTenants(r)', fitTenants[r] \cup FitTenants(r)', fitTenants[r])]

-----------------------------------------------------------------------------
(* listInternalSourceMappings                                              *)

ListTenants(r, filters) ==
    /\ req[r].pc = "idle"
    /\ req' = [req EXCEPT ![r] = [Idle EXCEPT !.pc = "instances",
                                    !.filters = filters, !.tenants = tenants]]
    /\ UNCHANGED registryVars

\* Mutant: the entitlement filter is forgotten.
SelectsAnyEntitlement(i, q) ==
    LET t == q.tenants[instances[i].tenant] IN
    /\ InstancePasses(q.filters, i, instances[i])
    /\ t # None
    /\ Admits(q.filters.tenant_state, t.state)

\* Mutant: only active instances are listed unless a state is asked for.
SelectsActiveByDefault(i, q) ==
    LET t == q.tenants[instances[i].tenant] IN
    /\ InstancePasses(q.filters, i, instances[i])
    /\ q.filters.instance_state = None => instances[i].state = Active
    /\ t # None
    /\ TenantPasses(q.filters, t)

\* An instance whose tenant is newer than the tenants read is skipped.
Selects(i, q) ==
    LET t == q.tenants[instances[i].tenant] IN
    /\ InstancePasses(q.filters, i, instances[i])
    /\ t # None
    /\ TenantPasses(q.filters, t)

\* What was read is not needed any more once the answer is made.
ListInstances(r) ==
    /\ req[r].pc = "instances"
    /\ req' = [req EXCEPT
                 ![r].pc = "listed",
                 ![r].tenants = NothingRead,
                 ![r].listed = {i \in Instances :
                                  instances[i] # None /\ Selects(i, req[r])}]
    /\ UNCHANGED registryVars

-----------------------------------------------------------------------------
(* resolveInternalSourceMapping                                            *)

GetInstance(r, t, i) ==
    /\ req[r].pc = "idle"
    /\ req' = [req EXCEPT ![r] = [Idle EXCEPT !.pc = "tenant", !.target = i,
                                    !.tenant = t, !.instance = instances[i]]]
    /\ UNCHANGED registryVars

\* Mutant: the instance is paired with whatever tenant was asked for.
MatchesAnyTenant(q) == q.instance # None /\ tenants[q.tenant] # None

Matches(q) ==
    /\ q.instance # None
    /\ tenants[q.tenant] # None
    /\ q.instance.tenant = q.tenant

GetTenant(r) ==
    /\ req[r].pc = "tenant"
    /\ req' = [req EXCEPT ![r].pc = IF Matches(req[r]) THEN "resolved"
                                                       ELSE "notFound",
                          ![r].instance = None]
    /\ UNCHANGED registryVars

\* The reply leaves, or the request is cut; the reads have no effect.
Reply(r) ==
    /\ req[r].pc # "idle"
    /\ req' = [req EXCEPT ![r] = Idle]
    /\ UNCHANGED registryVars

-----------------------------------------------------------------------------
Read(r) ==
    \/ \E filters \in Filters : ListTenants(r, filters)
    \/ ListInstances(r)
    \/ \E t \in Tenants, i \in Instances : GetInstance(r, t, i)
    \/ GetTenant(r)
    \/ Reply(r)

Next == /\ \/ \E r \in Readers : Read(r)
           \/ \E a \in Admins : RegistryStep(a) /\ UNCHANGED req
        /\ Observe

Spec == Init /\ [][Next]_vars

-----------------------------------------------------------------------------
(* Properties                                                              *)

\* Every variable has its type.
TypeOK ==
    /\ RegistryTypeOK
    /\ req \in [Readers -> RequestState]
    /\ steady \in [Readers -> SUBSET Instances]
    /\ fitInstances \in [Readers -> SUBSET Instances]
    /\ fitTenants \in [Readers -> SUBSET Tenants]

\* A listing leaves out nothing that passed its filters all the while it ran,
\* although its two reads see the store at different times (server.ts:530).
ListingComplete ==
    \A r \in Readers : req[r].pc = "listed" => steady[r] \subseteq req[r].listed

\* What is listed passed the filters on instances at one moment of the request,
\* and its tenant those on tenants at one moment.  (Not both at the same moment:
\* an instance created under a tenant disabled after the first read is listed as
\* active with an active tenant.)
ListingSound ==
    \A r \in Readers : req[r].pc = "listed" =>
        \A i \in req[r].listed :
            i \in fitInstances[r] /\ instances[i].tenant \in fitTenants[r]

\* A pair is resolved only if the instance is of that tenant, and a pair that
\* was there when the request began is found (server.ts:516).
ResolveExact ==
    \A r \in Readers :
        LET i == req[r].target IN
        /\ req[r].pc = "resolved" => instances[i].tenant = req[r].tenant
        /\ req[r].pc = "notFound" /\ i \in steady[r]
               => instances[i].tenant # req[r].tenant
=============================================================================
