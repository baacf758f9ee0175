------------------------------ MODULE Registry ------------------------------
(***************************************************************************)
(* RegistryService: the tenants and instances an administrator creates and *)
(* switches on and off.  Client credentials, which the service also keeps, *)
(* are in Enrollment and SecretRotation.                                   *)
(*                                                                         *)
(* An operation is a mutation of the store and then an audit record, in a  *)
(* transaction of its own.  Nothing here is ever deleted.  A call that is  *)
(* refused (id in use, unknown tenant, source in use, unknown value)       *)
(* changes nothing and is not an action.                                   *)
(*                                                                         *)
(* SourceMappings and TokenService read this state while it changes.       *)
(***************************************************************************)
EXTENDS Integers

CONSTANTS
    Admins,       \* administrators' handlers in flight at the same time
    Tenants,
    Instances,
    Sources,
    Scopes,       \* SERVICE_SCOPES
    Statuses,     \* TENANT_STATES, ENTITLEMENT_STATES and INSTANCE_STATES
    Active,
    None          \* no such record

ASSUME ActiveAssumption == Active \in Statuses
ASSUME NoRecordAssumption ==
    /\ None \notin [state: Statuses, entitlement: Statuses]
    /\ None \notin [tenant: Tenants, source: Sources, state: Statuses,
                    services: SUBSET Scopes]

VARIABLES
    tenants,      \* tenants of the state, None where there is none
    instances,    \* instances of the state, None where there is none
    admin         \* what is left of each administrator's handler

registry == <<tenants, instances>>
registryVars == <<tenants, instances, admin>>

TenantRecord == [state: Statuses, entitlement: Statuses]

InstanceRecord ==
    [tenant: Tenants, source: Sources, state: Statuses, services: SUBSET Scopes]

RegistryInit ==
    /\ tenants = [t \in Tenants |-> None]
    /\ instances = [i \in Instances |-> None]
    /\ admin = [a \in Admins |-> "idle"]

\* The mutation is stored; the audit record is still to come.
Stored(a) == /\ admin[a] = "idle"
             /\ admin' = [admin EXCEPT ![a] = "audit"]

-----------------------------------------------------------------------------
CreateTenant(a, t, state, entitlement) ==
    /\ tenants[t] = None
    /\ tenants' = [tenants EXCEPT ![t] = [state |-> state,
                                          entitlement |-> entitlement]]
    /\ Stored(a)
    /\ UNCHANGED instances

SetTenantState(a, t, state) ==
    /\ tenants[t] # None
    /\ tenants' = [tenants EXCEPT ![t].state = state]
    /\ Stored(a)
    /\ UNCHANGED instances

SetTenantEntitlement(a, t, entitlement) ==
    /\ tenants[t] # None
    /\ tenants' = [tenants EXCEPT ![t].entitlement = entitlement]
    /\ Stored(a)
    /\ UNCHANGED instances

\* Mutant: sources are unique per tenant only.
CanCreateOncePerTenant(t, source) ==
    /\ tenants[t] # None
    /\ \A i \in Instances :
           instances[i] # None /\ instances[i].tenant = t
               => instances[i].source # source

\* The tenant exists and no instance has that source.
CanCreateInstance(t, source) ==
    /\ tenants[t] # None
    /\ \A i \in Instances : instances[i] # None => instances[i].source # source

CreateInstance(a, i, t, source, state, services) ==
    /\ instances[i] = None
    /\ CanCreateInstance(t, source)
    /\ instances' = [instances EXCEPT ![i] =
                        [tenant |-> t, source |-> source, state |-> state,
                         services |-> services]]
    /\ Stored(a)
    /\ UNCHANGED tenants

SetInstanceState(a, i, state) ==
    /\ instances[i] # None
    /\ instances' = [instances EXCEPT ![i].state = state]
    /\ Stored(a)
    /\ UNCHANGED tenants

SetInstanceAllowedServices(a, i, services) ==
    /\ instances[i] # None
    /\ instances' = [instances EXCEPT ![i].services = services]
    /\ Stored(a)
    /\ UNCHANGED tenants

\* The audit record, or a handler cut before it: neither changes what the
\* registry answers.  (What the audit trail tells is not read here.)
AuditRecorded(a) ==
    /\ admin[a] = "audit"
    /\ admin' = [admin EXCEPT ![a] = "idle"]
    /\ UNCHANGED registry

RegistryStep(a) ==
    \/ \E t \in Tenants, s, e \in Statuses : CreateTenant(a, t, s, e)
    \/ \E t \in Tenants, s \in Statuses : SetTenantState(a, t, s)
    \/ \E t \in Tenants, e \in Statuses : SetTenantEntitlement(a, t, e)
    \/ \E i \in Instances, t \in Tenants, src \in Sources, s \in Statuses,
          services \in SUBSET Scopes :
           CreateInstance(a, i, t, src, s, services)
    \/ \E i \in Instances, s \in Statuses : SetInstanceState(a, i, s)
    \/ \E i \in Instances, services \in SUBSET Scopes :
           SetInstanceAllowedServices(a, i, services)
    \/ AuditRecorded(a)

-----------------------------------------------------------------------------
(* Properties                                                              *)

RegistryTypeOK ==
    /\ tenants \in [Tenants -> TenantRecord \cup {None}]
    /\ instances \in [Instances -> InstanceRecord \cup {None}]
    /\ admin \in [Admins -> {"idle", "audit", "outageRead"}]

\* A source names one instance, over all tenants (registry.service.ts:181):
\* what a source mapping says of a source is said of that instance alone.
SourcesUnique ==
    \A i, j \in Instances :
        /\ instances[i] # None
        /\ instances[j] # None
        /\ instances[i].source = instances[j].source
        => i = j
=============================================================================
