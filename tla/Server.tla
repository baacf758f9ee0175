------------------------------- MODULE Server -------------------------------
(***************************************************************************)
(* createControlPlaneServer: what happens to an HTTP request from its      *)
(* arrival to its reply, for the routes that show it: the guards, the body *)
(* that arrives in chunks, an operation of a service with its audit record *)
(* (AuditTrail), failures of the store, and the status they are mapped to. *)
(*                                                                         *)
(* Two operations stand for those of the services: degraded-mode, whose    *)
(* record contains a flag that is read back, and createTenant, which can   *)
(* be refused.  What the other ones do is in the modules of the services.  *)
(***************************************************************************)
EXTENDS AuditTrail

CONSTANTS
    Requests,        \* handlers that may run at the same time
    Tenants,
    NoTenant,        \* the request names no tenant
    Configurations,  \* what the server may be started with
    MaxBytes,        \* max_json_body_bytes
    MaxEvents,       \* bound: events in the trail
    Limits,          \* how many events an export may be limited to
    NoHandler        \* nobody

ASSUME BoundsAssumption == /\ MaxBytes \in Nat \ {0} /\ MaxEvents \in Nat
                           /\ Limits \subseteq Nat \ {0}

ASSUME NoHandlerAssumption == NoHandler \notin Requests

Options == [adminApi: BOOLEAN, adminToken: BOOLEAN,
            internalApi: BOOLEAN, internalToken: BOOLEAN]

\* loadControlPlaneRuntimeConfig throws for any other environment.
Startable(o) == /\ o.adminApi => o.adminToken
                /\ o.internalApi => o.internalToken

ASSUME ConfigurationsAssumption ==
    Configurations \subseteq {o \in Options : Startable(o)}

Gets == {"health", "events", "overview"}
AdminRoutes == {"events", "overview", "degraded", "tenants"}
InternalRoutes == {"resolve"}
Routes == Gets \cup AdminRoutes \cup InternalRoutes \cup {"nowhere"}

\* The limit parameter of an export: none, or no positive integer.
NoLimit == 0
BadLimit == -1

\* What clients send: a body is as long as the limit or longer.
Calls ==
    {call \in [route: Routes, token: BOOLEAN, active: BOOLEAN,
               tenant: Tenants \cup {NoTenant}, size: {0, MaxBytes, MaxBytes + 1},
               limit: {NoLimit, BadLimit} \cup Limits] :
        /\ call.route \in Gets <=> call.size = 0
        /\ call.route \in {"tenants", "resolve"} <=> call.tenant # NoTenant
        /\ call.route = "degraded" \/ ~call.active
        /\ call.route = "events" \/ call.limit = NoLimit
        /\ call.route \in AdminRoutes \cup InternalRoutes \/ ~call.token}

VARIABLES
    options,      \* the configuration
    outage,       \* outage_active
    tenants,      \* the tenants of the state
    req,          \* what each handler is doing
    switcher,     \* history: who set the flag last, until it records that
    told,         \* history: its event of that switch, 0 while there is none
    acked         \* history: events whose request was answered with success

vars == <<auditVars, options, outage, tenants, req, switcher, told, acked>>
stored == <<outage, tenants, switcher, told>>
rest == <<options, stored, acked>>

Success == {200, 201}

\* The statuses that LIFECYCLE_ERROR_MAPPINGS gives to errors, but for 400.
Mapped == {404, 409}
Refusals == Mapped \cup {403, 413}

StoreAccesses == {"health", "listTenants", "listInstances", "events", "flag",
                  "switch", "readFlag", "create", "lookup", "append", "readBack"}

Idle == [pc |-> "idle", route |-> "health", token |-> FALSE, active |-> FALSE,
         tenant |-> NoTenant, size |-> 0, limit |-> NoLimit, total |-> 0,
         event |-> <<>>, status |-> 0, changed |-> FALSE, entry |-> 0,
         owed |-> {}, shown |-> {}]

At(r, step) == req[r].pc = step

Goto(r, step) == req' = [req EXCEPT ![r].pc = step]

Answer(r, status) ==
    req' = [req EXCEPT ![r].pc = "reply", ![r].status = status, ![r].event = <<>>]

\* Of an error, what is kept is what the request changed before.
Refuse(r, status) ==
    req' = [req EXCEPT ![r] = [Idle EXCEPT !.pc = "reply", !.status = status,
                                           !.changed = req[r].changed, !.entry = req[r].entry]]

Init ==
    /\ AuditInit
    /\ options \in Configurations
    /\ outage = FALSE
    /\ tenants = {}
    /\ req = [r \in Requests |-> Idle]
    /\ switcher = NoHandler
    /\ told = 0
    /\ acked = {}

-----------------------------------------------------------------------------
(* Arrival and body                                                        *)

Enabled(route) == /\ route \in AdminRoutes => options.adminApi
                  /\ route \in InternalRoutes => options.internalApi

Authorized(route, token) ==
    /\ route \in AdminRoutes => options.adminToken /\ token
    /\ route \in InternalRoutes => options.internalToken /\ token

FirstStep(route) ==
    CASE route = "health"   -> "health"
      [] route = "events"   -> "events"
      [] route = "overview" -> "listTenants"
      [] OTHER              -> "body"

\* Up to the first await: a refusal, the first read of a GET, or the body.
Arrive(r, q) ==
    /\ At(r, "idle")
    /\ req' = [req EXCEPT ![r] =
         IF ~Enabled(q.route) THEN [Idle EXCEPT !.pc = "reply", !.status = 404]
         ELSE IF ~Authorized(q.route, q.token) THEN [Idle EXCEPT !.pc = "reply", !.status = 403]
         ELSE IF q.limit = BadLimit THEN [Idle EXCEPT !.pc = "reply", !.status = 400]
         ELSE [q EXCEPT !.pc = FirstStep(q.route)]]
    /\ UNCHANGED <<auditVars, rest>>

Arrivals(r) ==
    \E call \in Calls :
        Arrive(r, [Idle EXCEPT !.route = call.route, !.token = call.token,
                               !.active = call.active, !.tenant = call.tenant,
                               !.size = call.size, !.limit = call.limit,
                               !.owed = IF call.route \in Gets THEN acked ELSE {}])

\* Mutant: the limit is one of a chunk.
ChunkComparedAlone(r, bytes) ==
    /\ At(r, "body")
    /\ req[r].total + bytes <= req[r].size
    /\ IF bytes > MaxBytes THEN Refuse(r, 413)
                            ELSE req' = [req EXCEPT ![r].total = @ + bytes]
    /\ UNCHANGED <<auditVars, rest>>

\* A chunk arrives, however the client or the network cuts the body.
Chunk(r, bytes) ==
    /\ At(r, "body")
    /\ req[r].total + bytes <= req[r].size
    /\ IF req[r].total + bytes > MaxBytes THEN Refuse(r, 413)
                                           ELSE req' = [req EXCEPT ![r].total = @ + bytes]
    /\ UNCHANGED <<auditVars, rest>>

FirstAccess(route) ==
    CASE route = "degraded" -> "switch"
      [] route = "tenants"  -> "create"
      [] route = "resolve"  -> "lookup"

\* The body is complete and parses, and so do the fields of the route.
Dispatch(r) ==
    /\ At(r, "body")
    /\ req[r].total = req[r].size
    /\ IF req[r].route = "nowhere" THEN Refuse(r, 404)
                                   ELSE Goto(r, FirstAccess(req[r].route))
    /\ UNCHANGED <<auditVars, rest>>

\* It does not parse, it is no object or a field has not the form it must have,
\* or the body never completes (the client, or the timeout of the server, ends
\* the connection).
BadBody(r) ==
    /\ At(r, "body")
    /\ Refuse(r, 400)
    /\ UNCHANGED <<auditVars, rest>>

-----------------------------------------------------------------------------
(* Reads                                                                   *)

ReadHealth(r) ==
    /\ At(r, "health")
    /\ Answer(r, 200)
    /\ UNCHANGED <<auditVars, rest>>

\* buildOverviewPayload reads the tenants, the instances, the events and the
\* flag, each in an access of its own.  What it counts is left out.
ListTenants(r) ==
    /\ At(r, "listTenants")
    /\ Goto(r, "listInstances")
    /\ UNCHANGED <<auditVars, rest>>

ListInstances(r) ==
    /\ At(r, "listInstances")
    /\ Goto(r, "events")
    /\ UNCHANGED <<auditVars, rest>>

\* audit.list: all that is stored, or a page of the newest.
Listed(limit) == IF limit = NoLimit THEN DOMAIN log ELSE Page(limit)

LimitOf(q) == IF q.route = "overview" THEN NoLimit ELSE q.limit

ReadEvents(r) ==
    /\ At(r, "events")
    /\ req' = [req EXCEPT ![r].shown = Listed(LimitOf(req[r])),
                          ![r].pc = IF req[r].route = "overview" THEN "flag" ELSE "reply",
                          ![r].status = IF req[r].route = "overview" THEN 0 ELSE 200]
    /\ UNCHANGED <<auditVars, rest>>

ReadFlagForOverview(r) ==
    /\ At(r, "flag")
    /\ Answer(r, 200)
    /\ UNCHANGED <<auditVars, rest>>

\* resolveInternalSourceMapping: SourceMappings has its two reads.
Lookup(r) ==
    /\ At(r, "lookup")
    /\ Answer(r, IF req[r].tenant \in tenants THEN 200 ELSE 404)
    /\ UNCHANGED <<auditVars, rest>>

-----------------------------------------------------------------------------
(* degraded-mode: setOutageMode, and a read for the reply                  *)

Switched(r) ==
    /\ outage' = req[r].active
    /\ switcher' = r
    /\ told' = 0
    /\ UNCHANGED tenants

\* Mutant: the flag is read before it is set.
SwitchAfterRead(r) ==
    /\ At(r, "switch")
    /\ Switched(r)
    /\ req' = [req EXCEPT ![r].pc = "stamp", ![r].changed = TRUE, ![r].active = FALSE,
                          ![r].event = [flag |-> outage]]
    /\ UNCHANGED <<auditVars, options, acked>>

SetOutageMode(r) ==
    /\ At(r, "switch")
    /\ Switched(r)
    /\ req' = [req EXCEPT ![r].pc = "readFlag", ![r].changed = TRUE, ![r].active = FALSE,
                          ![r].event = [flag |-> FALSE]]
    /\ UNCHANGED <<auditVars, options, acked>>

ReadFlagForAudit(r) ==
    /\ At(r, "readFlag")
    /\ req' = [req EXCEPT ![r].pc = "stamp", ![r].event.flag = outage]
    /\ UNCHANGED <<auditVars, rest>>

ReadBack(r) ==
    /\ At(r, "readBack")
    /\ Answer(r, 200)
    /\ UNCHANGED <<auditVars, rest>>

-----------------------------------------------------------------------------
(* createTenant                                                            *)

\* Mutant: the record is written before the id is looked up.
CreateThenRefuse(r) ==
    /\ At(r, "create")
    /\ tenants' = tenants \cup {req[r].tenant}
    /\ req' = [req EXCEPT ![r].changed = TRUE,
                          ![r].pc = IF req[r].tenant \in tenants THEN "reply" ELSE "stamp",
                          ![r].status = IF req[r].tenant \in tenants THEN 409 ELSE 0]
    /\ UNCHANGED <<auditVars, options, outage, switcher, told, acked>>

CreateTenant(r) ==
    /\ At(r, "create")
    /\ req[r].tenant \notin tenants
    /\ tenants' = tenants \cup {req[r].tenant}
    /\ req' = [req EXCEPT ![r].pc = "stamp", ![r].changed = TRUE,
                          ![r].event = [flag |-> FALSE]]
    /\ UNCHANGED <<auditVars, options, outage, switcher, told, acked>>

\* The mutator throws "tenant already exists".
TenantExists(r) ==
    /\ At(r, "create")
    /\ req[r].tenant \in tenants
    /\ Refuse(r, 409)
    /\ UNCHANGED <<auditVars, rest>>

-----------------------------------------------------------------------------
(* audit.record, the reply                                                 *)

\* record is called when the mutation before it has been answered.
Record(r) ==
    /\ At(r, "stamp")
    /\ req' = [req EXCEPT ![r].pc = "append", ![r].event = Stamped(req[r].event)]
    /\ UNCHANGED <<auditVars, rest>>

AfterRecord(route) == IF route = "degraded" THEN "readBack" ELSE "reply"

Stores(r) ==
    /\ Len(log) < MaxEvents
    /\ Store(req[r].event)
    /\ LET last == switcher = r /\ req[r].route = "degraded" IN
       /\ switcher' = IF last THEN NoHandler ELSE switcher
       /\ told' = IF last THEN Len(log) + 1 ELSE told
    /\ UNCHANGED <<outage, tenants>>

\* Mutant: the handler goes on without waiting for the record.
AppendNotAwaited(r) ==
    /\ At(r, "append")
    /\ req' = [req EXCEPT ![r].pc = AfterRecord(req[r].route), ![r].status = 201,
                          ![r].event = <<>>, ![r].entry = Len(log) + 1]
    /\ UNCHANGED <<auditVars, rest>>

AppendEvent(r) ==
    /\ At(r, "append")
    /\ Stores(r)
    /\ req' = [req EXCEPT ![r].pc = AfterRecord(req[r].route), ![r].status = 201,
                          ![r].event = <<>>, ![r].entry = Len(log) + 1]
    /\ UNCHANGED <<options, acked>>

\* mapLifecycleError, of an error that no pattern matches.
StatusOfUnknown == 400

\* A call of the store fails; a mutation may have been committed all the same.
\* The handler's catch maps it to a reply like any other error.
StoreFails(r) ==
    /\ req[r].pc \in StoreAccesses
    /\ \/ UNCHANGED <<auditVars, stored>>
       \/ At(r, "switch") /\ Switched(r) /\ UNCHANGED auditVars
       \/ At(r, "create") /\ tenants' = tenants \cup {req[r].tenant}
             /\ UNCHANGED <<auditVars, outage, switcher, told>>
       \/ At(r, "append") /\ Stores(r)
    /\ Refuse(r, StatusOfUnknown)
    /\ UNCHANGED <<options, acked>>

\* The reply reaches the client or not.
Reply(r) ==
    /\ At(r, "reply")
    /\ \/ UNCHANGED acked
       \/ req[r].status \in Success /\ req[r].entry # 0 /\ acked' = acked \cup {req[r].entry}
    /\ req' = [req EXCEPT ![r] = Idle]
    /\ UNCHANGED <<auditVars, options, stored>>

\* The process dies under the handler.
Cut(r) ==
    /\ ~At(r, "idle")
    /\ req' = [req EXCEPT ![r] = Idle]
    /\ UNCHANGED <<auditVars, rest>>

-----------------------------------------------------------------------------
Handle(r) ==
    \/ Dispatch(r) \/ BadBody(r)
    \/ ReadHealth(r) \/ ListTenants(r) \/ ListInstances(r) \/ ReadEvents(r)
    \/ ReadFlagForOverview(r) \/ Lookup(r)
    \/ SetOutageMode(r) \/ ReadFlagForAudit(r) \/ ReadBack(r)
    \/ CreateTenant(r) \/ TenantExists(r)
    \/ Record(r) \/ AppendEvent(r) \/ Reply(r)
    \/ \E bytes \in 1..(MaxBytes + 1) : Chunk(r, bytes)
    \/ StoreFails(r)

Next ==
    \/ Tick /\ UNCHANGED <<rest, req>>
    \/ \E r \in Requests : Arrivals(r) \/ Handle(r) \/ Cut(r)

Spec == Init /\ [][Next]_vars

-----------------------------------------------------------------------------
(* Properties                                                              *)

Input == [flag: BOOLEAN]

AuditEvent == [at: 0..MaxTime, after: 0..MaxEvents, input: Input]

\* Every variable has its type, and a reply has a status.
TypeOK ==
    /\ now \in 0..MaxTime
    /\ log \in Seq(AuditEvent)
    /\ options \in Configurations
    /\ outage \in BOOLEAN
    /\ tenants \subseteq Tenants
    /\ switcher \in Requests \cup {NoHandler}
    /\ told \in 0..Len(log)
    /\ acked \subseteq DOMAIN log
    /\ \A r \in Requests :
        /\ req[r].pc \in StoreAccesses \cup {"idle", "body", "stamp", "reply"}
        /\ req[r].route \in Routes
        /\ At(r, "reply") => req[r].status \in Success \cup Refusals \cup {400}
        /\ At(r, "stamp") => req[r].event \in Input
        /\ At(r, "append") => req[r].event \in AuditEvent

\* Whatever a request changed or was told, it was admitted: its API is enabled,
\* it carried the token, and its body was complete and within the limit, in
\* whatever chunks it came.
OnlyAdmittedRequestsAct ==
    \A r \in Requests :
        req[r].changed \/ (At(r, "reply") /\ req[r].status \in Success) =>
            /\ Enabled(req[r].route)
            /\ Authorized(req[r].route, req[r].token)
            /\ req[r].total = req[r].size
            /\ req[r].total <= MaxBytes

\* A request that is refused (403, 404, 409, 413) left nothing behind, neither in
\* the state nor in the trail.  A 400 says nothing: it is also the answer when
\* the audit record of a stored change fails.
RefusedLeavesNothing ==
    \A r \in Requests :
        At(r, "reply") /\ req[r].status \in Refusals => ~req[r].changed /\ req[r].entry = 0

\* An export, and the events an overview counts, contain the event of every
\* change whose success was answered before they were asked for (runbooks.md:
\* "must be followed by audit evidence export").  Only an export with a limit may
\* leave some out, when it is full, and then of those that were not recorded
\* after any that it shows.
ExportHasEvidence ==
    \A r \in Requests :
        LET missing == req[r].owed \ req[r].shown IN
        /\ At(r, "reply") /\ req[r].status = 200
        /\ req[r].route \in {"events", "overview"}
        /\ missing # {}
        => /\ req[r].route = "events" /\ req[r].limit # NoLimit
           /\ Cardinality(req[r].shown) = req[r].limit
           /\ \A i \in req[r].shown, j \in missing : ~CausedBefore(i, j)

\* Whoever switched the outage flag last, and has stored its event of that,
\* reports in it the flag as it still is, although it reads it back in a
\* transaction of its own.  The trail alone does not tell the flag: a switch
\* that was overtaken may store its event later, and the last one may fail to
\* store any.
LastSwitcherReports == told # 0 => log[told].input.flag = outage
=============================================================================
