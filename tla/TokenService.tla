---------------------------- MODULE TokenService ----------------------------
(***************************************************************************)
(* TokenService against the registry and the outage flag: a mint reads the *)
(* outage flag, the instance and the tenant in three accesses of the store *)
(* and decides from what it read; evaluateInFlightEntitlement reads two of *)
(* them, evaluateRefreshDuringOutage one.  Administrators change all three *)
(* in between.                                                             *)
(*                                                                         *)
(* TokenDecisions states the properties, with the history they need.       *)
(*                                                                         *)
(* The secret presented is a right one: SecretRotation has that check, and *)
(* the adoption a mint may store.                                          *)
(***************************************************************************)
EXTENDS Registry, FiniteSets

CONSTANTS
    Requests,     \* mints and entitlement checks that may be in flight
    MaxTime,      \* bound: the clock
    MaxTokens,    \* bound: tokens that reach a client
    Second,       \* ticks of the clock in a second
    Ttl,          \* token_ttl_seconds
    Skew,         \* token_clock_skew_seconds
    Grace         \* outage_grace_window_seconds

\* Stands for the scope of a request that names none.
ASSUME NoScopeAssumption == None \notin Scopes
ASSUME MaxTimeAssumption == MaxTime \in Nat
ASSUME MaxTokensAssumption == MaxTokens \in Nat
\* index.ts accepts positive integers only.
ASSUME DurationsAssumption == {Second, Ttl, Skew, Grace} \subseteq Nat \ {0}

VARIABLES
    now,          \* the clock every service reads, in ticks
    outage,       \* outage_active
    req,          \* the request each handler is in, and what it has read
    tokens        \* access tokens that reached a client

serviceVars == <<registryVars, now, outage, req, tokens>>

\* What a mint depends on, one gate for each of its reads.
Gates == {"outage", "tenant", "instance"}

Token == [instance: Instances, scope: Scopes, begun: Nat, iat: Nat]

\* An invalid date, whose time is NaN.
NoDate == -1

RequestState ==
    [pc: {"idle", "outage", "instance", "tenant", "decide", "deadline",
          "granted", "denied", "retry", "paused"},
     kind: {"mint", "inFlight", "refresh"}, instance: Instances \cup {None},
     scope: Scopes \cup {None}, instanceRead: InstanceRecord \cup {None},
     tenantRead: TenantRecord \cup {None}, begun: Nat, iat: Nat,
     expiry: Nat \cup {NoDate}]

Idle == [pc |-> "idle", kind |-> "mint", instance |-> None, scope |-> None,
         instanceRead |-> None, tenantRead |-> None, begun |-> 0, iat |-> 0,
         expiry |-> 0]

At(r, step) == req[r].pc = step

-----------------------------------------------------------------------------
\* Mutant: only the tenant's state counts.
TenantEligibleByState(tenant) == tenant.state = Active

\* evaluateTenantEligibility
TenantEligible(tenant) == tenant.state = Active /\ tenant.entitlement = Active

InstanceEligible(instance) == instance.state = Active

-----------------------------------------------------------------------------
(* What the requests are judged by                                         *)

\* A gate is open to a request for instance i (and scope s, unless None).
Open(gate, i, s) ==
    CASE gate = "outage" -> ~outage
      [] gate = "tenant" ->
             /\ instances[i] # None
             /\ tenants[instances[i].tenant].state = Active
             /\ tenants[instances[i].tenant].entitlement = Active
      [] gate = "instance" ->
             /\ instances[i] # None
             /\ instances[i].state = Active
             /\ s = None \/ s \in instances[i].services

Reading(r) == req[r].pc \in {"outage", "instance", "tenant", "decide"}

\* Refused, or told to wait.
Refused(r) == req[r].pc \in {"denied", "retry", "paused"}

\* Times in tokens are whole seconds: Math.floor(getTime() / 1000).
Seconds(time) == time \div Second

ServiceInit ==
    /\ RegistryInit
    /\ now = 0
    /\ outage = FALSE
    /\ req = [r \in Requests |-> Idle]
    /\ tokens = {}

Tick == /\ now < MaxTime
        /\ now' = now + 1
        /\ UNCHANGED <<registryVars, outage, req, tokens>>

-----------------------------------------------------------------------------
(* setOutageMode: the flag, a read of it for the audit record, the record. *)

SetOutageMode(a, active) ==
    /\ admin[a] = "idle"
    /\ outage' = active
    /\ admin' = [admin EXCEPT ![a] = "outageRead"]
    /\ UNCHANGED <<registry, now, req, tokens>>

OutageModeRead(a) ==
    /\ admin[a] = "outageRead"
    /\ admin' = [admin EXCEPT ![a] = "audit"]
    /\ UNCHANGED <<registry, now, outage, req, tokens>>

-----------------------------------------------------------------------------
(* mintToken and evaluateInFlightEntitlement                               *)

\* No mint begins whose token would exceed the bound.
MintBegin(r, i, s) ==
    /\ At(r, "idle")
    /\ Cardinality(tokens) < MaxTokens
    /\ req' = [req EXCEPT ![r] = [Idle EXCEPT !.pc = "outage", !.instance = i,
                                    !.scope = s, !.begun = Seconds(now)]]
    /\ UNCHANGED <<registryVars, now, outage, tokens>>

InFlightBegin(r, i) ==
    /\ At(r, "idle")
    /\ req' = [req EXCEPT ![r] = [Idle EXCEPT !.pc = "instance",
                                    !.kind = "inFlight", !.instance = i]]
    /\ UNCHANGED <<registryVars, now, outage, tokens>>

\* The expiry is what the caller says: that of a token, or any other date.
RefreshBegin(r, expiry) ==
    /\ At(r, "idle")
    /\ req' = [req EXCEPT ![r] = [Idle EXCEPT !.pc = "outage",
                                    !.kind = "refresh", !.expiry = expiry]]
    /\ UNCHANGED <<registryVars, now, outage, tokens>>

\* Where a mint or a refresh goes from its read of the outage flag.
AfterOutageRead(kind) ==
    CASE kind = "mint"    -> IF outage THEN "denied" ELSE "instance"
      [] kind = "refresh" -> IF outage THEN "deadline" ELSE "granted"

ReadOutage(r) ==
    /\ At(r, "outage")
    /\ req' = [req EXCEPT ![r].pc = AfterOutageRead(req[r].kind)]
    /\ UNCHANGED <<registryVars, now, outage, tokens>>

\* Mutant: there is no grace.
GraceForgotten(expiry) == expiry = NoDate \/ now > expiry

\* The comparison is in milliseconds, and its last instant is inside.  With NaN
\* it is false.
GraceIsOver(expiry) == expiry = NoDate \/ now > expiry + Grace * Second

\* The clock is read after the flag, later than a store access.
DecideRefresh(r) ==
    /\ At(r, "deadline")
    /\ req' = [req EXCEPT ![r].pc = IF GraceIsOver(req[r].expiry) THEN "paused" ELSE "retry"]
    /\ UNCHANGED <<registryVars, now, outage, tokens>>

\* getInstanceByClientId or getInstance; an unknown one ends the request.
ReadInstance(r) ==
    /\ At(r, "instance")
    /\ req' = [req EXCEPT
                 ![r].pc = IF instances[req[r].instance] = None THEN "denied"
                                                                ELSE "tenant",
                 ![r].instanceRead = instances[req[r].instance]]
    /\ UNCHANGED <<registryVars, now, outage, tokens>>

ReadTenant(r) ==
    /\ At(r, "tenant")
    /\ req' = [req EXCEPT ![r].pc = "decide",
                          ![r].tenantRead = tenants[req[r].instanceRead.tenant]]
    /\ UNCHANGED <<registryVars, now, outage, tokens>>

\* What was read lets the request pass.
Eligible(q) ==
    /\ q.tenantRead # None
    /\ TenantEligible(q.tenantRead)
    /\ InstanceEligible(q.instanceRead)
    /\ q.kind = "mint" => q.scope \in q.instanceRead.services

\* What was read is not needed any more.
Decided(r) == [req[r] EXCEPT !.instanceRead = None, !.tenantRead = None]

\* Mutant: services are looked at in the in-flight check too.
DecideWithService(r) ==
    /\ At(r, "decide")
    /\ req' = [req EXCEPT ![r] = IF Eligible(req[r]) /\ req[r].kind = "mint"
                                 THEN [@ EXCEPT !.pc = "granted", !.iat = Seconds(now)]
                                 ELSE [@ EXCEPT !.pc = "denied"]]
    /\ UNCHANGED <<registryVars, now, outage, tokens>>

\* After the last read: the checks, and the clock for the claims.
Decide(r) ==
    /\ At(r, "decide")
    /\ req' = [req EXCEPT ![r] = IF Eligible(req[r])
                                 THEN [Decided(r) EXCEPT !.pc = "granted", !.iat = Seconds(now)]
                                 ELSE [Decided(r) EXCEPT !.pc = "denied"]]
    /\ UNCHANGED <<registryVars, now, outage, tokens>>

\* Audit record and reply of a mint; the reply may be lost.
MintGranted(r) ==
    /\ At(r, "granted")
    /\ req[r].kind = "mint"
    /\ \/ UNCHANGED tokens
       \/ /\ Cardinality(tokens) < MaxTokens
          /\ tokens' = tokens \cup
                 {[instance |-> req[r].instance, scope |-> req[r].scope,
                   begun |-> req[r].begun, iat |-> req[r].iat]}
    /\ req' = [req EXCEPT ![r] = Idle]
    /\ UNCHANGED <<registryVars, now, outage>>

\* An entitlement check and a refresh answer with neither record nor token.
InFlightContinues(r) ==
    /\ At(r, "granted")
    /\ req[r].kind # "mint"
    /\ req' = [req EXCEPT ![r] = Idle]
    /\ UNCHANGED <<registryVars, now, outage, tokens>>

\* denyMint, and the answers that pause or put off work in flight.
Denied(r) ==
    /\ Refused(r)
    /\ req' = [req EXCEPT ![r] = Idle]
    /\ UNCHANGED <<registryVars, now, outage, tokens>>

\* The process dies or a query fails.
Abandon(r) ==
    /\ Reading(r)
    /\ req' = [req EXCEPT ![r] = Idle]
    /\ UNCHANGED <<registryVars, now, outage, tokens>>

\* Mutant: the skew counts twice.
AcceptsTwiceTheSkew(iat) == Seconds(now) <= iat + Ttl + 2 * Skew

\* The clock in validateToken, which decides of a token that this service signed
\* for the scope it is presented with.
Accepts(iat) == Seconds(now) <= iat + Ttl + Skew

-----------------------------------------------------------------------------
\* Bound: the dates a caller may give, up to the last expiry of a token.
Dates == 0..(MaxTime + Ttl * Second)

Step(r) ==
    \/ \E i \in Instances, s \in Scopes : MintBegin(r, i, s)
    \/ \E i \in Instances : InFlightBegin(r, i)
    \/ \E expiry \in Dates \cup {NoDate} : RefreshBegin(r, expiry)
    \/ ReadOutage(r)
    \/ DecideRefresh(r)
    \/ ReadInstance(r)
    \/ ReadTenant(r)
    \/ Decide(r)
    \/ MintGranted(r)
    \/ InFlightContinues(r)
    \/ Denied(r)
    \/ Abandon(r)

Administer(a) ==
    \/ RegistryStep(a) /\ UNCHANGED <<now, outage, req, tokens>>
    \/ \E active \in BOOLEAN : SetOutageMode(a, active)
    \/ OutageModeRead(a)

ServiceNext ==
    \/ Tick
    \/ \E r \in Requests : Step(r)
    \/ \E a \in Admins : Administer(a)

-----------------------------------------------------------------------------
(* Properties                                                              *)

\* Every variable of the service has its type.
ServiceTypeOK ==
    /\ RegistryTypeOK
    /\ now \in Nat
    /\ outage \in BOOLEAN
    /\ req \in [Requests -> RequestState]
    /\ tokens \subseteq Token
=============================================================================
