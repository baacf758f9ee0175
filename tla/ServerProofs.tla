---------------------------- MODULE ServerProofs ----------------------------
(***************************************************************************)
(* What Server keeps true for every number of handlers, every              *)
(* configuration it may be started with, every limit and every bound.      *)
(*                                                                         *)
(* The properties speak of replies and of the trail.  What makes them      *)
(* inductive is where a handler stands: StepsInv says what the request of  *)
(* a handler at each of its steps is and has done, SwitchInv that a flag   *)
(* read back is still what it was as long as no one else has set it,       *)
(* StampInv that what had been stored when an event was stamped is not     *)
(* younger than the event, and EvidenceInv that a listing shows what was   *)
(* acknowledged before it, from the read on.                               *)
(***************************************************************************)
EXTENDS Server, FiniteSetTheorems, TLAPS

Steps == StoreAccesses \cup {"idle", "body", "stamp", "reply"}

Handler == [pc: Steps, route: Routes, token: BOOLEAN, active: BOOLEAN,
            tenant: Tenants \cup {NoTenant}, size: Nat, limit: Nat, total: Nat,
            event: {<<>>} \cup Input \cup AuditEvent, status: Nat,
            changed: BOOLEAN, entry: Nat, owed: SUBSET Nat, shown: SUBSET Nat]

HandlerInv == req \in [Requests -> Handler]

Guarded(r) == /\ Enabled(req[r].route)
              /\ Authorized(req[r].route, req[r].token)
              /\ req[r].total <= MaxBytes

Admitted(r) == Guarded(r) /\ req[r].total = req[r].size

\* Until it mutates the state a handler has nothing to answer for.
Before == {"idle", "body", "health", "listTenants", "listInstances", "events", "flag",
           "switch", "create", "lookup"}

Untouched(r) == ~req[r].changed /\ req[r].entry = 0

\* The routes whose handlers have a step of this name.
OnItsRoute(r) ==
    /\ At(r, "body") => req[r].route \notin Gets
    /\ At(r, "health") => req[r].route = "health"
    /\ At(r, "events") => req[r].route \in {"events", "overview"}
    /\ req[r].pc \in {"listTenants", "listInstances", "flag"} => req[r].route = "overview"
    /\ At(r, "lookup") => req[r].route = "resolve"
    /\ At(r, "create") => req[r].route = "tenants"
    /\ req[r].pc \in {"switch", "readFlag", "readBack"} => req[r].route = "degraded"
    /\ req[r].pc \in {"stamp", "append"} => req[r].route \in {"degraded", "tenants"}

ReplyInv(r) ==
    /\ req[r].status \in Success \cup Refusals \cup {400}
    /\ req[r].status \in Refusals => Untouched(r)

StepInv(r) ==
    /\ OnItsRoute(r)
    /\ At(r, "body") => Guarded(r)
    /\ ~At(r, "body") => Admitted(r)
    /\ req[r].pc \in Before => Untouched(r)
    /\ req[r].route = "tenants" => req[r].tenant \in Tenants
    /\ req[r].pc \in {"readFlag", "stamp"} => req[r].event \in Input
    /\ At(r, "append") => req[r].event \in AuditEvent
    /\ At(r, "reply") => ReplyInv(r)

StepsInv == \A r \in Requests : StepInv(r)

\* What a handler remembers of the trail is in the trail.
TrailInv ==
    /\ Len(log) <= MaxEvents
    /\ \A r \in Requests : req[r].entry \in 0..Len(log)
    /\ \A r \in Requests : req[r].owed \cup req[r].shown \subseteq DOMAIN log

\* What an export leaves out of what was acknowledged before it.
Complete(r) ==
    LET missing == req[r].owed \ req[r].shown IN
    missing # {} =>
        /\ req[r].route = "events" /\ req[r].limit # NoLimit
        /\ Cardinality(req[r].shown) = req[r].limit
        /\ \A i \in req[r].shown, j \in missing : ~CausedBefore(i, j)

EvidenceInv ==
    \A r \in Requests :
        req[r].pc \in {"flag", "reply"} /\ req[r].route \in {"events", "overview"}
            => Complete(r)

SwitchInv ==
    \A r \in Requests :
        switcher = r /\ req[r].route = "degraded" =>
            /\ At(r, "stamp") => req[r].event.flag = outage
            /\ At(r, "append") => req[r].event.input.flag = outage

\* The events that were stored before this one was stamped are not younger.
InTime(event) == \A i \in 1..event.after : log[i].at <= event.at

StampInv ==
    /\ \A i \in DOMAIN log : log[i].at <= now
    /\ \A i \in DOMAIN log : log[i].after < i
    /\ \A i \in DOMAIN log : InTime(log[i])
    /\ \A r \in Requests :
           At(r, "append") => /\ req[r].event.at <= now
                              /\ req[r].event.after <= Len(log)
                              /\ InTime(req[r].event)

InductiveInv ==
    /\ TypeOK /\ HandlerInv
    /\ StepsInv
    /\ TrailInv /\ EvidenceInv
    /\ SwitchInv /\ LastSwitcherReports
    /\ StampInv
-----------------------------------------------------------------------------
\* A handler that is idle is one.
LEMMA IdleIsHandler == Idle \in Handler
  BY DEF Idle, Handler, Steps, StoreAccesses, Routes, Gets, Success, NoLimit

\* The initial state satisfies the invariant.
LEMMA InitInductive == Init => InductiveInv
  <1> SUFFICES ASSUME Init PROVE InductiveInv
    OBVIOUS
  <1>1. /\ HandlerInv
        /\ \A r \in Requests : req[r] = Idle
        /\ log = <<>> /\ log \in Seq(AuditEvent) /\ Len(log) = 0 /\ DOMAIN log = {}
        /\ now = 0 /\ told = 0 /\ acked = {}
    BY IdleIsHandler DEF Init, AuditInit, HandlerInv
  <1>2. \A r \in Requests :
            /\ req[r].pc = "idle" /\ req[r].route = "health" /\ ~req[r].changed
            /\ req[r].entry = 0 /\ req[r].owed = {} /\ req[r].shown = {}
            /\ req[r].total = 0 /\ req[r].size = 0
    BY <1>1 DEF Idle
  <1>3. TypeOK
    <2>1. /\ now \in 0..MaxTime /\ log \in Seq(AuditEvent) /\ told \in 0..Len(log)
          /\ acked \subseteq DOMAIN log
      BY <1>1, MaxTimeAssumption
    <2>2. /\ options \in Configurations /\ outage \in BOOLEAN /\ tenants \subseteq Tenants
          /\ switcher \in Requests \cup {NoHandler}
      BY DEF Init
    <2> QED
      BY <1>2, <2>1, <2>2 DEF TypeOK, At, Routes, Gets
  <1>4. StepsInv /\ TrailInv /\ EvidenceInv
    BY <1>1, <1>2, BoundsAssumption
       DEF StepsInv, StepInv, OnItsRoute, Untouched, TrailInv, EvidenceInv, At, Before,
           Admitted, Guarded, Enabled, Authorized, AdminRoutes, InternalRoutes
  <1>5. SwitchInv /\ LastSwitcherReports /\ StampInv
    BY <1>1, <1>2 DEF SwitchInv, LastSwitcherReports, StampInv, At
  <1> QED
    BY <1>1, <1>3, <1>4, <1>5 DEF InductiveInv

-----------------------------------------------------------------------------
\* A handler keeps its fields whatever is assigned to some of them.
LEMMA Answers ==
    ASSUME HandlerInv, NEW r \in Requests, NEW status \in Nat, Answer(r, status)
    PROVE  /\ HandlerInv'
           /\ \A o \in Requests \ {r} : req'[o] = req[o]
           /\ req'[r] = [req[r] EXCEPT !.pc = "reply", !.status = status, !.event = <<>>]
  <1>1. /\ req[r] \in Handler
        /\ req' = [req EXCEPT ![r] = [req[r] EXCEPT !.pc = "reply", !.status = status,
                                                    !.event = <<>>]]
    BY DEF HandlerInv, Answer
  <1>2. [req[r] EXCEPT !.pc = "reply", !.status = status, !.event = <<>>] \in Handler
    BY <1>1 DEF Handler, Steps
  <1> QED
    BY <1>1, <1>2 DEF HandlerInv

\* Of an error a handler forgets all but what it has changed.
Refused(r, status) ==
    [Idle EXCEPT !.pc = "reply", !.status = status,
                 !.changed = req[r].changed, !.entry = req[r].entry]

\* A handler that has refused is one.
LEMMA Refuses ==
    ASSUME HandlerInv, NEW r \in Requests, NEW status \in Nat, Refuse(r, status)
    PROVE  /\ HandlerInv'
           /\ \A o \in Requests \ {r} : req'[o] = req[o]
           /\ req'[r] = Refused(r, status)
  <1>1. req[r] \in Handler
    BY DEF HandlerInv
  <1>2. Refused(r, status) \in Handler
    BY <1>1, IdleIsHandler DEF Refused, Handler, Steps
  <1>3. req' = [req EXCEPT ![r] = Refused(r, status)]
    BY DEF Refuse, Refused
  <1> QED
    BY <1>1, <1>2, <1>3 DEF HandlerInv

\* What a step of a handler leaves to be shown: where that handler is afterwards.
Moved(r) ==
    /\ HandlerInv'
    /\ \A o \in Requests \ {r} : req'[o] = req[o]
    /\ StepInv(r)'

\* What is left to be shown of the reply that a step leads to.
LEMMA Replies ==
    ASSUME NEW r \in Requests, req'[r].pc = "reply", Admitted(r)', ReplyInv(r)',
           req'[r].route = "tenants" => req'[r].tenant \in Tenants
    PROVE  StepInv(r)'
  BY DEF StepInv, OnItsRoute, At, Before

\* A request that has been forgotten is admitted: it is one of health.
LEMMA HealthAdmitted ==
    ASSUME NEW r \in Requests, req'[r].route = "health",
           req'[r].total = 0, req'[r].size = 0
    PROVE  Admitted(r)'
  BY BoundsAssumption DEF Admitted, Guarded, Enabled, Authorized, AdminRoutes, InternalRoutes

\* An error is a reply, a refusal if nothing was changed.
LEMMA RefusalMoves ==
    ASSUME HandlerInv, NEW r \in Requests, NEW status \in Refusals \cup {400},
           status = 400 \/ Untouched(r),
           Refuse(r, status)
    PROVE  Moved(r)
  <1>1. status \in Nat
    BY DEF Refusals, Mapped
  <1>2. /\ req'[r].pc = "reply" /\ req'[r].status = status /\ req'[r].route = "health"
        /\ req'[r].total = 0 /\ req'[r].size = 0
        /\ req'[r].changed = req[r].changed /\ req'[r].entry = req[r].entry
    <2>1. req'[r] = Refused(r, status)
      BY <1>1, Refuses
    <2> QED
      BY <2>1 DEF Refused, Idle
  <1>3. ReplyInv(r)'
    BY <1>2 DEF ReplyInv, Untouched, Refusals, Mapped
  <1>4. StepInv(r)'
    BY <1>2, <1>3, HealthAdmitted, Replies
  <1>5. HandlerInv' /\ \A o \in Requests \ {r} : req'[o] = req[o]
    BY <1>1, Refuses
  <1> QED
    BY <1>4, <1>5 DEF Moved

\* So is an answer.
LEMMA AnswerMoves ==
    ASSUME HandlerInv, StepsInv, NEW r \in Requests, ~At(r, "body"),
           NEW status \in Success \cup Refusals, options' = options,
           status \in Refusals => Untouched(r),
           Answer(r, status)
    PROVE  Moved(r)
  <1>1. status \in Nat
    BY DEF Refusals, Mapped, Success
  <1>2. req[r] \in Handler /\ StepInv(r)
    BY DEF HandlerInv, StepsInv
  <1>3. /\ req'[r].pc = "reply" /\ req'[r].status = status
        /\ req'[r].route = req[r].route /\ req'[r].tenant = req[r].tenant
        /\ req'[r].token = req[r].token
        /\ req'[r].total = req[r].total /\ req'[r].size = req[r].size
        /\ req'[r].changed = req[r].changed /\ req'[r].entry = req[r].entry
    <2>1. req'[r] = [req[r] EXCEPT !.pc = "reply", !.status = status, !.event = <<>>]
      BY <1>1, Answers
    <2> QED
      BY <1>2, <2>1 DEF Handler
  <1>4. ReplyInv(r)'
    BY <1>3 DEF ReplyInv, Untouched
  <1>5. Admitted(r)'
    BY <1>2, <1>3 DEF StepInv, Admitted, Guarded, Enabled, Authorized
  <1>6. StepInv(r)'
    BY <1>2, <1>3, <1>4, <1>5, Replies DEF StepInv
  <1>7. HandlerInv' /\ \A o \in Requests \ {r} : req'[o] = req[o]
    BY <1>1, Answers
  <1> QED
    BY <1>6, <1>7 DEF Moved

\* Arrival, where a request is admitted.
LEMMA ArrivalMoves ==
    ASSUME TypeOK, HandlerInv, NEW r \in Requests, Arrivals(r)
    PROVE  Moved(r)
  <1>1. PICK call \in Calls :
            Arrive(r, [Idle EXCEPT !.route = call.route, !.token = call.token,
                                   !.active = call.active, !.tenant = call.tenant,
                                   !.size = call.size, !.limit = call.limit,
                                   !.owed = IF call.route \in Gets THEN acked ELSE {}])
    BY DEF Arrivals
  <1>2. PICK owed : /\ owed = IF call.route \in Gets THEN acked ELSE {}
                    /\ owed \in SUBSET Nat
    <2>1. acked \in SUBSET Nat
      BY DEF TypeOK
    <2> QED
      BY <2>1
  <1>3. PICK q : /\ q = [Idle EXCEPT !.route = call.route, !.token = call.token,
                                     !.active = call.active, !.tenant = call.tenant,
                                     !.size = call.size, !.limit = call.limit,
                                     !.owed = owed]
                 /\ Arrive(r, q)
    BY <1>1, <1>2
  <1>4. /\ call.route \in Routes /\ call.token \in BOOLEAN /\ call.active \in BOOLEAN
        /\ call.tenant \in Tenants \cup {NoTenant} /\ call.size \in Nat
        /\ call.route \in Gets <=> call.size = 0
        /\ call.route = "tenants" => call.tenant \in Tenants
    BY BoundsAssumption DEF Calls
  <1>5. /\ q.limit # BadLimit => q \in Handler
        /\ q.route = call.route /\ q.token = call.token /\ q.tenant = call.tenant
        /\ q.size = call.size /\ q.total = 0 /\ ~q.changed /\ q.entry = 0
    <2>1. call.limit # BadLimit => call.limit \in Nat
      <3>1. call.limit \in {NoLimit, BadLimit} \cup Limits
        BY DEF Calls
      <3>2. NoLimit \in Nat /\ Limits \subseteq Nat
        BY BoundsAssumption DEF NoLimit
      <3> QED
        BY <3>1, <3>2, Zenon
    <2>2. q.limit = call.limit
      BY <1>3 DEF Idle
    <2>3. q.limit # BadLimit => q \in Handler
      BY <1>2, <1>3, <1>4, <2>1, <2>2, IdleIsHandler DEF Handler
    <2> QED
      BY <1>3, <2>3 DEF Idle
  <1>6. CASE Enabled(q.route) /\ Authorized(q.route, q.token) /\ q.limit # BadLimit
    <2>1. PICK step : /\ step = FirstStep(q.route)
                      /\ req' = [req EXCEPT ![r] = [q EXCEPT !.pc = step]]
      BY <1>3, <1>6 DEF Arrive
    <2>2. step \in {"health", "events", "listTenants", "body"} /\ step \in Steps
      BY <2>1 DEF FirstStep, Steps, StoreAccesses
    <2>3. [q EXCEPT !.pc = step] \in Handler
      BY <1>5, <1>6, <2>2 DEF Handler
    <2>4. req'[r] = [q EXCEPT !.pc = step] /\ q = [q EXCEPT !.pc = q.pc]
      BY <1>5, <1>6, <2>1 DEF HandlerInv, Handler
    <2>5. /\ req'[r].pc = step /\ req'[r].route = q.route /\ req'[r].token = q.token
          /\ req'[r].tenant = q.tenant /\ req'[r].size = q.size /\ req'[r].total = 0
          /\ ~req'[r].changed /\ req'[r].entry = 0
      BY <1>5, <1>6, <2>4 DEF Handler
    <2>6. options' = options
      BY <1>3 DEF Arrive, rest
    <2>7. /\ step = "health" => q.route = "health"
          /\ step = "events" => q.route = "events"
          /\ step = "listTenants" => q.route = "overview"
          /\ step = "body" <=> q.route \notin Gets
      BY <2>1 DEF FirstStep, Gets
    <2>8. StepInv(r)'
      BY <1>4, <1>5, <1>6, <2>2, <2>5, <2>6, <2>7, BoundsAssumption
         DEF StepInv, OnItsRoute, At, Before, Untouched, Guarded, Admitted,
             Enabled, Authorized
    <2> QED
      BY <2>1, <2>3, <2>8 DEF Moved, HandlerInv
  <1>7. CASE ~(Enabled(q.route) /\ Authorized(q.route, q.token) /\ q.limit # BadLimit)
    <2>1. PICK status \in {400, 403, 404} :
            req' = [req EXCEPT ![r] = [Idle EXCEPT !.pc = "reply", !.status = status]]
      BY <1>3, <1>7 DEF Arrive
    <2>2. [Idle EXCEPT !.pc = "reply", !.status = status] \in Handler
      <3>1. status \in Nat
        OBVIOUS
      <3>2. "reply" \in Steps
        BY DEF Steps
      <3> QED
        BY <3>1, <3>2, IdleIsHandler DEF Handler
    <2>3. req'[r] = [Idle EXCEPT !.pc = "reply", !.status = status]
      BY <2>1 DEF HandlerInv
    <2>4. /\ req'[r].pc = "reply" /\ req'[r].status = status /\ req'[r].route = "health"
          /\ req'[r].total = 0 /\ req'[r].size = 0
          /\ ~req'[r].changed /\ req'[r].entry = 0
      BY <2>3 DEF Idle
    <2>5. ReplyInv(r)'
      BY <2>4 DEF ReplyInv, Untouched, Refusals, Mapped
    <2>6. StepInv(r)'
      BY <2>4, <2>5, HealthAdmitted, Replies
    <2> QED
      BY <2>1, <2>2, <2>6 DEF Moved, HandlerInv
  <1> QED
    BY <1>6, <1>7

\* The body, up to the first step of the route.
LEMMA BodyMoves ==
    ASSUME HandlerInv, StepsInv, NEW r \in Requests,
           \/ Dispatch(r) \/ BadBody(r)
           \/ \E bytes \in 1..(MaxBytes + 1) : Chunk(r, bytes)
    PROVE  Moved(r)
  <1>0. req \in [Requests -> Handler] /\ req[r] \in Handler /\ StepInv(r) /\ MaxBytes \in Nat
    BY BoundsAssumption DEF HandlerInv, StepsInv
  <1>u. At(r, "body") => Untouched(r)
    BY <1>0 DEF StepInv, At, Before
  <1>1. CASE BadBody(r)
    BY <1>1, RefusalMoves DEF BadBody
  <1>2. CASE Dispatch(r)
    <2>1. CASE req[r].route = "nowhere"
      BY <1>2, <1>u, <2>1, RefusalMoves DEF Dispatch, Refusals, Mapped
    <2>2. CASE req[r].route # "nowhere"
      <3>1. req[r].route \in {"degraded", "tenants", "resolve"}
        BY <1>0, <1>2, <2>2
           DEF Dispatch, StepInv, OnItsRoute, At, Handler, Routes, Gets, AdminRoutes,
               InternalRoutes
      <3>2. FirstAccess(req[r].route) \in {"switch", "create", "lookup"}
        BY <3>1 DEF FirstAccess
      <3>3. req' = [req EXCEPT ![r] = [req[r] EXCEPT !.pc = FirstAccess(req[r].route)]]
        BY <1>0, <1>2, <2>2 DEF Dispatch, Goto
      <3>4. [req[r] EXCEPT !.pc = FirstAccess(req[r].route)] \in Handler
        BY <1>0, <3>2 DEF Handler, Steps, StoreAccesses
      <3>5. req'[r] = [req[r] EXCEPT !.pc = FirstAccess(req[r].route)]
        BY <1>0, <3>3
      <3>6. StepInv(r)'
        BY <1>0, <1>2, <3>1, <3>5
           DEF Dispatch, StepInv, OnItsRoute, At, Handler, Before, Admitted, Guarded,
               Enabled, Authorized, Untouched, FirstAccess, rest
      <3> QED
        BY <1>0, <3>3, <3>4, <3>6 DEF Moved, HandlerInv
    <2> QED
      BY <2>1, <2>2
  <1>3. ASSUME NEW bytes \in 1..(MaxBytes + 1), Chunk(r, bytes)
        PROVE  Moved(r)
    <2>1. CASE req[r].total + bytes > MaxBytes
      BY <1>3, <1>u, <2>1, RefusalMoves DEF Chunk, Refusals
    <2>2. CASE ~(req[r].total + bytes > MaxBytes)
      <3>1. req' = [req EXCEPT ![r] = [req[r] EXCEPT !.total = req[r].total + bytes]]
        BY <1>0, <1>3, <2>2 DEF Chunk
      <3>2. [req[r] EXCEPT !.total = req[r].total + bytes] \in Handler
        <4>1. req[r].total + bytes \in Nat
          BY <1>0 DEF Handler
        <4> QED
          BY <1>0, <4>1 DEF Handler
      <3>3. req'[r] = [req[r] EXCEPT !.total = req[r].total + bytes]
        BY <1>0, <3>1
      <3>4. StepInv(r)'
        BY <1>0, <1>3, <2>2, <3>3
           DEF Chunk, StepInv, OnItsRoute, At, Handler, Before, Guarded,
               Enabled, Authorized, Untouched, rest
      <3> QED
        BY <1>0, <3>1, <3>2, <3>4 DEF Moved, HandlerInv
    <2> QED
      BY <2>1, <2>2
  <1> QED
    BY <1>1, <1>2, <1>3

\* The reads that are answered, and what ends in a refusal or in nothing.
LEMMA EndingMoves ==
    ASSUME HandlerInv, StepsInv, NEW r \in Requests,
           \/ ReadHealth(r) \/ ReadFlagForOverview(r) \/ Lookup(r) \/ ReadBack(r)
           \/ TenantExists(r) \/ StoreFails(r) \/ Reply(r) \/ Cut(r)
    PROVE  Moved(r)
  <1>0. StepInv(r)
    BY DEF StepsInv
  <1>1. CASE ReadHealth(r) \/ ReadFlagForOverview(r) \/ ReadBack(r)
    <2>1. ~At(r, "body") /\ options' = options /\ Answer(r, 200)
      BY <1>1 DEF ReadHealth, ReadFlagForOverview, ReadBack, At, rest
    <2> QED
      BY <2>1, AnswerMoves DEF Success, Refusals, Mapped
  <1>2. CASE Lookup(r)
    <2>1. ~At(r, "body") /\ options' = options /\ Untouched(r)
      BY <1>0, <1>2 DEF Lookup, StepInv, At, Before, rest
    <2>2. PICK status \in {200, 404} : Answer(r, status)
      BY <1>2 DEF Lookup
    <2> QED
      BY <2>1, <2>2, AnswerMoves DEF Success, Refusals, Mapped
  <1>3. CASE TenantExists(r)
    <2>1. Untouched(r)
      BY <1>0, <1>3 DEF TenantExists, StepInv, At, Before
    <2> QED
      BY <1>3, <2>1, RefusalMoves DEF TenantExists, Refusals, Mapped
  <1>4. CASE StoreFails(r)
    BY <1>4, RefusalMoves DEF StoreFails, StatusOfUnknown
  <1>5. CASE Reply(r) \/ Cut(r)
    <2>1. req' = [req EXCEPT ![r] = Idle]
      BY <1>5 DEF Reply, Cut
    <2>2. HandlerInv' /\ \A o \in Requests \ {r} : req'[o] = req[o]
      BY <2>1, IdleIsHandler DEF HandlerInv
    <2>3. /\ req'[r].pc = "idle" /\ req'[r].route = "health"
          /\ ~req'[r].changed /\ req'[r].entry = 0
          /\ req'[r].total = 0 /\ req'[r].size = 0
      <3>1. req'[r] = Idle
        BY <2>1 DEF HandlerInv
      <3> QED
        BY <3>1 DEF Idle
    <2>4. StepInv(r)'
      BY <2>3, HealthAdmitted DEF StepInv, OnItsRoute, At, Before, Untouched
    <2> QED
      BY <2>2, <2>4 DEF Moved
  <1> QED
    BY <1>1, <1>2, <1>3, <1>4, <1>5

\* A listing shows what is stored.
LEMMA ListedStored ==
    ASSUME NEW limit PROVE Listed(limit) \subseteq DOMAIN log
  BY DEF Listed, Page

\* The steps in the middle of an operation, from one to the next.
LEMMA OperationMoves ==
    ASSUME TypeOK, HandlerInv, StepsInv, TrailInv, NEW r \in Requests,
           \/ ListTenants(r) \/ ListInstances(r) \/ ReadEvents(r)
           \/ SetOutageMode(r) \/ ReadFlagForAudit(r)
           \/ CreateTenant(r) \/ Record(r) \/ AppendEvent(r)
    PROVE  Moved(r)
  <1>0. /\ req \in [Requests -> Handler] /\ req[r] \in Handler /\ StepInv(r)
        /\ {"reply", "listInstances", "events", "flag", "readFlag", "stamp", "append",
            "readBack"} \subseteq Steps
    BY DEF HandlerInv, StepsInv, Steps, StoreAccesses
  <1>1. options' = options
    BY DEF ListTenants, ListInstances, ReadEvents, SetOutageMode, ReadFlagForAudit,
           CreateTenant, Record, AppendEvent, rest
  <1>2. CASE ReadEvents(r)
    <2>1. PICK shown, step, status :
            /\ shown = Listed(LimitOf(req[r]))
            /\ step = IF req[r].route = "overview" THEN "flag" ELSE "reply"
            /\ status = IF req[r].route = "overview" THEN 0 ELSE 200
            /\ req' = [req EXCEPT ![r] = [req[r] EXCEPT !.shown = shown, !.pc = step,
                                                        !.status = status]]
      <3> DEFINE shown == Listed(LimitOf(req[r]))
                 step == IF req[r].route = "overview" THEN "flag" ELSE "reply"
                 status == IF req[r].route = "overview" THEN 0 ELSE 200
      <3>1. req' = [req EXCEPT ![r].shown = shown, ![r].pc = step, ![r].status = status]
        BY <1>2 DEF ReadEvents
      <3> HIDE DEF shown, step, status
      <3>2. req' = [req EXCEPT ![r] = [req[r] EXCEPT !.shown = shown, !.pc = step,
                                                     !.status = status]]
        BY <1>0, <3>1
      <3> QED
        BY <3>2 DEF shown, step, status
    <2>2. shown \in SUBSET Nat /\ status \in Nat /\ step \in Steps
      <3>1. shown \subseteq DOMAIN log
        BY <2>1, ListedStored
      <3>2. DOMAIN log \subseteq Nat
        BY DEF TypeOK
      <3> QED
        BY <1>0, <2>1, <3>1, <3>2
    <2>3. [req[r] EXCEPT !.shown = shown, !.pc = step, !.status = status] \in Handler
      BY <1>0, <2>2 DEF Handler
    <2>4. req'[r] = [req[r] EXCEPT !.shown = shown, !.pc = step, !.status = status]
      BY <1>0, <2>1
    <2>5. StepInv(r)'
      BY <1>0, <1>1, <1>2, <2>1, <2>2, <2>4
         DEF ReadEvents, StepInv, OnItsRoute, At, Handler, Before, Untouched, Admitted,
             Guarded, Enabled, Authorized, Success, Refusals, Mapped, ReplyInv
    <2> QED
      BY <1>0, <2>1, <2>3, <2>5 DEF Moved, HandlerInv
  <1>6. CASE ListTenants(r) \/ ListInstances(r)
    <2>1. PICK step \in {"listInstances", "events"} : Goto(r, step) /\ req[r].route = "overview"
      BY <1>0, <1>6 DEF ListTenants, ListInstances, StepInv, OnItsRoute, At
    <2>2. req' = [req EXCEPT ![r] = [req[r] EXCEPT !.pc = step]]
      BY <1>0, <2>1 DEF Goto
    <2>3. [req[r] EXCEPT !.pc = step] \in Handler
      BY <1>0, <2>1 DEF Handler
    <2>4. req'[r] = [req[r] EXCEPT !.pc = step]
      BY <1>0, <2>2
    <2>5. StepInv(r)'
      BY <1>0, <1>1, <1>6, <2>1, <2>4
         DEF ListTenants, ListInstances, StepInv, OnItsRoute, At, Handler, Before, Untouched,
             Admitted, Guarded, Enabled, Authorized
    <2> QED
      BY <1>0, <2>2, <2>3, <2>5 DEF Moved, HandlerInv
  <1>3. CASE SetOutageMode(r) \/ CreateTenant(r)
    <2>1. PICK step, active :
            /\ \/ SetOutageMode(r) /\ step = "readFlag" /\ active = FALSE
               \/ CreateTenant(r) /\ step = "stamp" /\ active = req[r].active
            /\ req' = [req EXCEPT ![r] = [req[r] EXCEPT !.pc = step, !.changed = TRUE,
                                              !.active = active, !.event = [flag |-> FALSE]]]
      <3>1. [req[r] EXCEPT !.active = req[r].active] = req[r]
        BY <1>0 DEF Handler
      <3>2. CASE SetOutageMode(r)
        BY <1>0, <3>2 DEF SetOutageMode
      <3>3. CASE CreateTenant(r)
        <4>1. [req[r] EXCEPT !.pc = "stamp", !.changed = TRUE, !.event = [flag |-> FALSE]]
              = [req[r] EXCEPT !.pc = "stamp", !.changed = TRUE,
                               !.active = req[r].active, !.event = [flag |-> FALSE]]
          BY <1>0 DEF Handler
        <4>2. req' = [req EXCEPT ![r] = [req[r] EXCEPT !.pc = "stamp", !.changed = TRUE,
                                                       !.event = [flag |-> FALSE]]]
          BY <1>0, <3>3 DEF CreateTenant
        <4> QED
          BY <3>3, <4>1, <4>2
      <3> QED
        BY <1>3, <3>2, <3>3
    <2>2. [flag |-> FALSE] \in Input /\ active \in BOOLEAN
      BY <1>0, <2>1 DEF Input, Handler
    <2>3. [req[r] EXCEPT !.pc = step, !.changed = TRUE, !.active = active,
                         !.event = [flag |-> FALSE]] \in Handler
      BY <1>0, <2>1, <2>2 DEF Handler
    <2>4. req'[r] = [req[r] EXCEPT !.pc = step, !.changed = TRUE, !.active = active,
                                   !.event = [flag |-> FALSE]]
      BY <1>0, <2>1
    <2>5. /\ req'[r].pc = step /\ req'[r].event \in Input
          /\ req'[r].route = req[r].route /\ req'[r].token = req[r].token
          /\ req'[r].total = req[r].total /\ req'[r].size = req[r].size
          /\ req'[r].tenant = req[r].tenant
      BY <1>0, <2>2, <2>4 DEF Handler
    <2>6. /\ Admitted(r) /\ step \in {"readFlag", "stamp"}
          /\ req[r].route = IF step = "readFlag" THEN "degraded" ELSE "tenants"
      BY <1>0, <2>1 DEF SetOutageMode, CreateTenant, StepInv, OnItsRoute, At
    <2>7. StepInv(r)'
      BY <1>0, <1>1, <2>5, <2>6
         DEF StepInv, OnItsRoute, At, Before, Admitted, Guarded, Enabled, Authorized
    <2> QED
      BY <1>0, <2>1, <2>3, <2>7 DEF Moved, HandlerInv
  <1>4. CASE ReadFlagForAudit(r) \/ Record(r)
    <2>1. PICK step, event :
            /\ \/ /\ ReadFlagForAudit(r) /\ step = "stamp"
                  /\ event = [req[r].event EXCEPT !.flag = outage]
               \/ Record(r) /\ step = "append" /\ event = Stamped(req[r].event)
            /\ req' = [req EXCEPT ![r] = [req[r] EXCEPT !.pc = step, !.event = event]]
      <3>1. CASE ReadFlagForAudit(r)
        <4>1. req' = [req EXCEPT ![r] = [req[r] EXCEPT !.pc = "stamp",
                                   !.event = [req[r].event EXCEPT !.flag = outage]]]
          BY <1>0, <3>1 DEF ReadFlagForAudit
        <4> QED
          BY <3>1, <4>1
      <3>2. CASE Record(r)
        <4>1. req' = [req EXCEPT ![r] = [req[r] EXCEPT !.pc = "append",
                                                       !.event = Stamped(req[r].event)]]
          BY <1>0, <3>2 DEF Record
        <4> QED
          BY <3>2, <4>1
      <3> QED
        BY <1>4, <3>1, <3>2
    <2>2. /\ step = "stamp" => event \in Input
          /\ step = "append" => event \in AuditEvent
      <3>1. req[r].event \in Input
        BY <1>0, <1>4 DEF ReadFlagForAudit, Record, StepInv, At
      <3>2. outage \in BOOLEAN /\ now \in 0..MaxTime /\ Len(log) \in 0..MaxEvents
        BY BoundsAssumption DEF TypeOK, TrailInv
      <3> QED
        BY <2>1, <3>1, <3>2 DEF Input, AuditEvent, Stamped
    <2>3. event \in Input \cup AuditEvent /\ step \in Steps
      BY <1>0, <2>1, <2>2
    <2>4. [req[r] EXCEPT !.pc = step, !.event = event] \in Handler
      BY <1>0, <2>3 DEF Handler
    <2>5. req'[r] = [req[r] EXCEPT !.pc = step, !.event = event]
      BY <1>0, <2>1
    <2>6. /\ req'[r].pc = step /\ req'[r].event = event
          /\ req'[r].route = req[r].route /\ req'[r].token = req[r].token
          /\ req'[r].total = req[r].total /\ req'[r].size = req[r].size
          /\ req'[r].tenant = req[r].tenant
      BY <1>0, <2>5 DEF Handler
    <2>7. /\ Admitted(r) /\ step \in {"stamp", "append"}
          /\ req[r].route \in {"degraded", "tenants"}
          /\ req[r].route = "tenants" => req[r].tenant \in Tenants
      BY <1>0, <2>1 DEF ReadFlagForAudit, Record, StepInv, OnItsRoute, At
    <2>8. StepInv(r)'
      BY <1>0, <1>1, <2>2, <2>6, <2>7
         DEF StepInv, OnItsRoute, At, Before, Admitted, Guarded, Enabled, Authorized
    <2> QED
      BY <1>0, <2>1, <2>4, <2>8 DEF Moved, HandlerInv
  <1>5. CASE AppendEvent(r)
    <2>1. PICK step, entry :
            /\ step = AfterRecord(req[r].route) /\ entry = Len(log) + 1
            /\ req' = [req EXCEPT ![r] = [req[r] EXCEPT !.pc = step, !.status = 201,
                                                        !.event = <<>>, !.entry = entry]]
      <3>1. req' = [req EXCEPT ![r] = [req[r] EXCEPT !.pc = AfterRecord(req[r].route),
                                   !.status = 201, !.event = <<>>, !.entry = Len(log) + 1]]
        BY ZenonT(30), <1>0, <1>5 DEF AppendEvent
      <3> QED
        BY <3>1
    <2>2. /\ step \in Steps /\ entry \in Nat
          /\ \/ step = "readBack" /\ req[r].route = "degraded"
             \/ step = "reply" /\ req[r].route = "tenants"
      BY <1>0, <1>5, <2>1 DEF AfterRecord, TypeOK, AppendEvent, At, StepInv, OnItsRoute
    <2>3. [req[r] EXCEPT !.pc = step, !.status = 201, !.event = <<>>, !.entry = entry]
              \in Handler
      BY ZenonT(30), <1>0, <2>2 DEF Handler
    <2>4. req'[r] = [req[r] EXCEPT !.pc = step, !.status = 201, !.event = <<>>,
                                   !.entry = entry]
      BY <1>0, <2>1
    <2>5. /\ req'[r].pc = step /\ req'[r].status = 201
          /\ req'[r].route = req[r].route /\ req'[r].token = req[r].token
          /\ req'[r].total = req[r].total /\ req'[r].size = req[r].size
          /\ req'[r].tenant = req[r].tenant
      BY <1>0, <2>4 DEF Handler
    <2>6. Admitted(r) /\ (req[r].route = "tenants" => req[r].tenant \in Tenants)
      BY <1>0, <1>5 DEF AppendEvent, StepInv, At
    <2>7. StepInv(r)'
      BY <1>0, <1>1, <2>2, <2>5, <2>6
         DEF StepInv, OnItsRoute, At, Before, Admitted, Guarded, Enabled, Authorized,
             Success, Refusals, Mapped, ReplyInv
    <2> QED
      BY <1>0, <2>1, <2>3, <2>7 DEF Moved, HandlerInv
  <1> QED
    BY <1>2, <1>3, <1>4, <1>5, <1>6

-----------------------------------------------------------------------------
\* What a handler does, and any of its steps.
Step(r) == Arrivals(r) \/ Handle(r) \/ Cut(r)

\* Every step of a handler moves it as the invariant says.
LEMMA EveryMove ==
    ASSUME TypeOK, HandlerInv, StepsInv, TrailInv, NEW r \in Requests, Step(r)
    PROVE  Moved(r)
  BY ArrivalMoves, BodyMoves, EndingMoves, OperationMoves DEF Step, Handle

\* What it does to the state and the trail.
Switches(r) == At(r, "switch") /\ Switched(r) /\ UNCHANGED auditVars

Creates(r) == /\ At(r, "create")
              /\ tenants' = tenants \cup {req[r].tenant}
              /\ UNCHANGED <<auditVars, outage, switcher, told>>

Appends(r) == At(r, "append") /\ Stores(r)

Leaves == UNCHANGED <<auditVars, stored>>

\* A step leaves the state alone, switches, creates or appends; and a reply that
\* is received is the only one that acknowledges.
LEMMA StateMoves ==
    ASSUME NEW r \in Requests, Step(r)
    PROVE  /\ options' = options
           /\ Leaves \/ Switches(r) \/ Creates(r) \/ Appends(r)
           /\ \/ acked' = acked
              \/ Leaves /\ acked' = acked \cup {req[r].entry} /\ req[r].entry # 0
  <1>1. CASE Arrivals(r) \/ Cut(r)
    BY <1>1 DEF Arrivals, Arrive, Cut, Leaves, rest
  <1>2. CASE Dispatch(r) \/ BadBody(r) \/ \E bytes \in 1..(MaxBytes + 1) : Chunk(r, bytes)
    BY <1>2 DEF Dispatch, BadBody, Chunk, Leaves, rest
  <1>3. CASE \/ ReadHealth(r) \/ ListTenants(r) \/ ListInstances(r) \/ ReadEvents(r)
             \/ ReadFlagForOverview(r) \/ Lookup(r)
    BY <1>3 DEF ReadHealth, ListTenants, ListInstances, ReadEvents, ReadFlagForOverview,
                Lookup, Leaves, rest
  <1>4. CASE ReadFlagForAudit(r) \/ ReadBack(r) \/ TenantExists(r) \/ Record(r)
    BY <1>4 DEF ReadFlagForAudit, ReadBack, TenantExists, Record, Leaves, rest
  <1>5. CASE SetOutageMode(r)
    BY <1>5 DEF SetOutageMode, Switches
  <1>6. CASE CreateTenant(r)
    BY <1>6 DEF CreateTenant, Creates
  <1>7. CASE AppendEvent(r)
    BY <1>7 DEF AppendEvent, Appends
  <1>8. CASE Reply(r)
    BY <1>8 DEF Reply, Leaves
  <1>9. CASE StoreFails(r)
    BY <1>9 DEF StoreFails, Leaves, Switches, Creates, Appends
  <1> QED
    BY <1>1, <1>2, <1>3, <1>4, <1>5, <1>6, <1>7, <1>8, <1>9 DEF Step, Handle

\* The trail is append-only.
LEMMA Grows ==
    ASSUME TypeOK, StepsInv, TrailInv, NEW r \in Requests, Step(r)
    PROVE  /\ log \in Seq(AuditEvent) /\ Len(log) \in Nat /\ DOMAIN log = 1..Len(log)
           /\ log' \in Seq(AuditEvent) /\ Len(log') \in Nat /\ DOMAIN log' = 1..Len(log')
           /\ Len(log) <= Len(log') /\ Len(log') <= MaxEvents
           /\ now' = now
           /\ \A i \in 1..Len(log) : i \in DOMAIN log' /\ log'[i] = log[i]
           /\ \/ log' = log
              \/ /\ Appends(r) /\ req[r].event \in AuditEvent
                 /\ Len(log') = Len(log) + 1 /\ log'[Len(log) + 1] = req[r].event
  <1>1. log \in Seq(AuditEvent) /\ Len(log) \in Nat /\ DOMAIN log = 1..Len(log)
    BY DEF TypeOK
  <1>2. CASE log' = log /\ now' = now
    BY <1>1, <1>2 DEF TrailInv
  <1>3. CASE Appends(r)
    <2>1. req[r].event \in AuditEvent
      BY <1>3 DEF Appends, StepsInv, StepInv
    <2>2. log' = Append(log, req[r].event) /\ now' = now /\ Len(log) < MaxEvents
      BY <1>3 DEF Appends, Stores, Store
    <2>3. /\ log' \in Seq(AuditEvent) /\ Len(log') = Len(log) + 1
          /\ log'[Len(log) + 1] = req[r].event
          /\ \A i \in 1..Len(log) : log'[i] = log[i]
      BY <1>1, <2>1, <2>2
    <2>4. DOMAIN log' = 1..(Len(log) + 1)
      BY <2>3
    <2>5. MaxEvents \in Nat
      BY BoundsAssumption
    <2>6. DOMAIN log' = 1..Len(log') /\ Len(log') \in Nat
      BY <1>1, <2>3, <2>4
    <2>7. Len(log) <= Len(log') /\ Len(log') <= MaxEvents
      BY <1>1, <2>2, <2>3, <2>5
    <2>8. \A i \in 1..Len(log) : i \in DOMAIN log' /\ log'[i] = log[i]
      BY <1>1, <2>3, <2>4
    <2> QED
      BY <1>1, <1>3, <2>1, <2>2, <2>3, <2>6, <2>7, <2>8
  <1> QED
    BY <1>2, <1>3, StateMoves DEF Leaves, Switches, Creates, auditVars

\* Where a request that has just arrived is.
LEMMA Arrived ==
    ASSUME HandlerInv, NEW r \in Requests, Arrivals(r)
    PROVE  /\ req'[r].pc \in {"health", "events", "listTenants", "body", "reply"}
           /\ req'[r].pc = "reply" => req'[r].route = "health"
           /\ req'[r].entry = 0 /\ req'[r].owed \subseteq acked /\ req'[r].shown = {}
  <1>1. PICK call \in Calls :
            Arrive(r, [Idle EXCEPT !.route = call.route, !.token = call.token,
                                   !.active = call.active, !.tenant = call.tenant,
                                   !.size = call.size, !.limit = call.limit,
                                   !.owed = IF call.route \in Gets THEN acked ELSE {}])
    BY DEF Arrivals
  <1>2. PICK q :
            /\ q = [Idle EXCEPT !.route = call.route, !.token = call.token,
                                !.active = call.active, !.tenant = call.tenant,
                                !.size = call.size, !.limit = call.limit,
                                !.owed = IF call.route \in Gets THEN acked ELSE {}]
            /\ Arrive(r, q)
    BY <1>1
  <1>3. \/ req' = [req EXCEPT ![r] = [q EXCEPT !.pc = FirstStep(q.route)]]
        \/ \E status \in {400, 403, 404} :
               req' = [req EXCEPT ![r] = [Idle EXCEPT !.pc = "reply", !.status = status]]
    <2> HIDE DEF Idle
    <2> QED
      BY ZenonT(30), <1>2 DEF Arrive
  <1>4. CASE req' = [req EXCEPT ![r] = [q EXCEPT !.pc = FirstStep(q.route)]]
    <2>1. FirstStep(q.route) \in {"health", "events", "listTenants", "body"}
      BY DEF FirstStep
    <2>2. PICK step \in {"health", "events", "listTenants", "body"} :
              req' = [req EXCEPT ![r] = [q EXCEPT !.pc = step]]
      BY <1>4, <2>1
    <2>3. req'[r] = [q EXCEPT !.pc = step]
      BY <2>2 DEF HandlerInv
    <2>4. /\ [q EXCEPT !.pc = step].pc = step
          /\ [q EXCEPT !.pc = step].entry = 0
          /\ [q EXCEPT !.pc = step].owed \subseteq acked
          /\ [q EXCEPT !.pc = step].shown = {}
      BY <1>2 DEF Idle
    <2> QED
      BY <2>3, <2>4
  <1>5. ASSUME NEW status \in {400, 403, 404},
               req' = [req EXCEPT ![r] = [Idle EXCEPT !.pc = "reply", !.status = status]]
        PROVE  /\ req'[r].pc = "reply" /\ req'[r].route = "health"
               /\ req'[r].entry = 0 /\ req'[r].owed = {} /\ req'[r].shown = {}
    <2>1. req'[r] = [Idle EXCEPT !.pc = "reply", !.status = status]
      BY <1>5 DEF HandlerInv
    <2> QED
      BY <2>1 DEF Idle
  <1> QED
    BY <1>3, <1>4, <1>5

\* What a handler remembers of the trail was there before, or is there now.
LEMMA Remembers ==
    ASSUME TypeOK, HandlerInv, StepsInv, TrailInv, NEW r \in Requests, Step(r)
    PROVE  /\ \/ req'[r].entry \in {0, req[r].entry}
              \/ req'[r].entry = Len(log) + 1 /\ Len(log') = Len(log) + 1
           /\ req'[r].owed \subseteq req[r].owed \cup acked
           /\ req'[r].shown \subseteq req[r].shown \cup DOMAIN log
  <1>0. req \in [Requests -> Handler] /\ req[r] \in Handler
    BY DEF HandlerInv
  <1>1. CASE Arrivals(r)
    BY <1>1, Arrived
  <1>2. ASSUME NEW status \in Nat, Refuse(r, status)
        PROVE  req'[r].entry = req[r].entry /\ req'[r].owed = {} /\ req'[r].shown = {}
    <2>1. req'[r] = Refused(r, status)
      BY <1>2, Refuses
    <2> QED
      BY <2>1 DEF Refused, Idle
  <1>3. ASSUME NEW status \in Nat, Answer(r, status)
        PROVE  /\ req'[r].entry = req[r].entry
               /\ req'[r].owed = req[r].owed /\ req'[r].shown = req[r].shown
    <2>1. req'[r] = [req[r] EXCEPT !.pc = "reply", !.status = status, !.event = <<>>]
      BY <1>3, Answers
    <2> QED
      BY <1>0, <2>1 DEF Handler
  <1>4. CASE Cut(r) \/ Reply(r)
    <2>1. req'[r] = Idle
      BY <1>0, <1>4 DEF Cut, Reply
    <2> QED
      BY <2>1 DEF Idle
  <1>5. CASE AppendEvent(r)
    <2>1. /\ req'[r].entry = Len(log) + 1
          /\ req'[r].owed = req[r].owed /\ req'[r].shown = req[r].shown
      BY <1>0, <1>5 DEF AppendEvent, Handler
    <2>2. Len(log') = Len(log) + 1
      BY <1>5 DEF AppendEvent, Stores, Store, TypeOK
    <2> QED
      BY <2>1, <2>2
  <1>6. CASE \/ BadBody(r) \/ TenantExists(r) \/ StoreFails(r)
    BY <1>2, <1>6 DEF BadBody, TenantExists, StoreFails, StatusOfUnknown
  <1>7. CASE \/ ReadHealth(r) \/ ReadFlagForOverview(r) \/ Lookup(r) \/ ReadBack(r)
    BY <1>3, <1>7 DEF ReadHealth, ReadFlagForOverview, Lookup, ReadBack
  <1>8. CASE Dispatch(r) \/ \E bytes \in 1..(MaxBytes + 1) : Chunk(r, bytes)
    <2>1. CASE \E status \in Nat : Refuse(r, status)
      BY <1>2, <2>1
    <2>3. CASE \E total \in Nat : req' = [req EXCEPT ![r].total = total]
      BY <1>0, <2>3 DEF Handler
    <2>4. CASE Dispatch(r)
      <3>1. FirstAccess(req[r].route) \in {"switch", "create", "lookup"}
            \/ req[r].route = "nowhere"
        <4>1. req[r].route \in {"degraded", "tenants", "resolve", "nowhere"}
          BY <1>0, <1>8, <2>4
             DEF StepsInv, StepInv, OnItsRoute, Dispatch, At, Handler, Routes, Gets,
                 AdminRoutes, InternalRoutes
        <4> QED
          BY <4>1 DEF FirstAccess
      <3>2. CASE req[r].route = "nowhere"
        <4>1. Refuse(r, 404)
          BY <2>4, <3>2 DEF Dispatch
        <4> QED
          BY <2>1, <4>1
      <3>3. CASE req[r].route # "nowhere"
        <4>1. PICK step \in {"switch", "create", "lookup"} : Goto(r, step)
          BY <2>4, <3>1, <3>3 DEF Dispatch
        <4> QED
          BY <1>0, <4>1 DEF Goto, Handler
      <3> QED
        BY <3>2, <3>3
    <2>5. ASSUME NEW bytes \in 1..(MaxBytes + 1), Chunk(r, bytes)
          PROVE  \/ \E status \in Nat : Refuse(r, status)
                 \/ \E total \in Nat : req' = [req EXCEPT ![r].total = total]
      <3>1. req[r].total + bytes \in Nat
        BY <1>0, BoundsAssumption DEF Handler
      <3> QED
        BY <2>5, <3>1 DEF Chunk
    <2> QED
      BY <1>8, <2>1, <2>3, <2>4, <2>5
  <1>9. CASE \/ ListTenants(r) \/ ListInstances(r) \/ SetOutageMode(r)
             \/ ReadFlagForAudit(r) \/ CreateTenant(r) \/ Record(r)
    <2> DEFINE Same == /\ req'[r].entry = req[r].entry
                       /\ req'[r].owed = req[r].owed /\ req'[r].shown = req[r].shown
    <2>1. CASE ListTenants(r) \/ ListInstances(r)
      <3>1. Same
        BY <1>0, <2>1 DEF ListTenants, ListInstances, Goto, Handler
      <3> QED
        BY <3>1
    <2>2. CASE SetOutageMode(r)
      <3>1. Same
        BY <1>0, <2>2 DEF SetOutageMode, Handler
      <3> QED
        BY <3>1
    <2>3. CASE ReadFlagForAudit(r)
      <3>1. Same
        BY <1>0, <2>3 DEF ReadFlagForAudit, Handler
      <3> QED
        BY <3>1
    <2>4. CASE CreateTenant(r)
      <3>1. Same
        BY <1>0, <2>4 DEF CreateTenant, Handler
      <3> QED
        BY <3>1
    <2>5. CASE Record(r)
      <3>1. Same
        BY <1>0, <2>5 DEF Record, Handler
      <3> QED
        BY <3>1
    <2> QED
      BY <1>9, <2>1, <2>2, <2>3, <2>4, <2>5
  <1>10. CASE ReadEvents(r)
    <2>1. /\ req'[r].entry = req[r].entry /\ req'[r].owed = req[r].owed
          /\ req'[r].shown = Listed(LimitOf(req[r]))
      BY <1>0, <1>10 DEF ReadEvents, Handler
    <2> QED
      BY <2>1, ListedStored
  <1> QED
    BY <1>1, <1>4, <1>5, <1>6, <1>7, <1>8, <1>9, <1>10 DEF Step, Handle

\* Where an event to be recorded comes from.
LEMMA Stamping ==
    ASSUME HandlerInv, StepsInv, NEW r \in Requests, Step(r)
    PROVE  /\ At(r, "stamp")' =>
                  \/ CreateTenant(r) /\ req'[r].route = "tenants"
                  \/ ReadFlagForAudit(r) /\ req'[r].event.flag = outage
           /\ At(r, "append")' =>
                  /\ Record(r) /\ req'[r].event = Stamped(req[r].event)
                  /\ req'[r].route = req[r].route
  <1>0. req \in [Requests -> Handler] /\ req[r] \in Handler /\ StepInv(r)
    BY DEF HandlerInv, StepsInv
  <1>1. ASSUME NEW status \in Nat, Refuse(r, status)
        PROVE  req'[r].pc = "reply"
    <2>1. req'[r] = Refused(r, status)
      BY <1>1, Refuses
    <2> QED
      BY <2>1 DEF Refused, Idle
  <1>2. ASSUME NEW status \in Nat, Answer(r, status)
        PROVE  req'[r].pc = "reply"
    BY <1>0, <1>2 DEF Answer, Handler
  <1>3. CASE Arrivals(r)
    <2>1. req'[r].pc \in {"health", "events", "listTenants", "body", "reply"}
      BY <1>3, Arrived
    <2> QED
      BY <2>1 DEF At
  <1>4. CASE Cut(r) \/ Reply(r)
    <2>1. req'[r] = Idle
      BY <1>0, <1>4 DEF Cut, Reply
    <2> QED
      BY <2>1 DEF Idle, At
  <1>5. CASE BadBody(r) \/ TenantExists(r) \/ StoreFails(r)
    BY <1>1, <1>5 DEF BadBody, TenantExists, StoreFails, StatusOfUnknown, At
  <1>6. CASE ReadHealth(r) \/ ReadFlagForOverview(r) \/ Lookup(r) \/ ReadBack(r)
    BY <1>2, <1>6 DEF ReadHealth, ReadFlagForOverview, Lookup, ReadBack, At
  <1>7. CASE \/ ListTenants(r) \/ ListInstances(r) \/ ReadEvents(r)
             \/ SetOutageMode(r) \/ AppendEvent(r)
    <2>1. req'[r].pc \in {"listInstances", "events", "flag", "reply", "readFlag", "readBack"}
      BY <1>0, <1>7 DEF ListTenants, ListInstances, Goto, ReadEvents, SetOutageMode,
                        AppendEvent, AfterRecord, Handler
    <2> QED
      BY <2>1 DEF At
  <1>8. CASE ReadFlagForAudit(r)
    <2>1. req[r].event \in Input
      BY <1>0, <1>8 DEF ReadFlagForAudit, StepInv, At
    <2>2. req'[r].pc = "stamp" /\ req'[r].event = [req[r].event EXCEPT !.flag = outage]
      BY <1>0, <1>8 DEF ReadFlagForAudit, Handler
    <2> QED
      BY <1>8, <2>1, <2>2 DEF At, Input
  <1>9. CASE CreateTenant(r)
    <2>1. req'[r].pc = "stamp" /\ req'[r].route = req[r].route
      BY <1>0, <1>9 DEF CreateTenant, Handler
    <2> QED
      BY <1>0, <1>9, <2>1 DEF At, CreateTenant, StepInv, OnItsRoute
  <1>10. CASE Record(r)
    <2>1. /\ req'[r].pc = "append" /\ req'[r].route = req[r].route
          /\ req'[r].event = Stamped(req[r].event)
      BY <1>0, <1>10 DEF Record, Handler
    <2> QED
      BY <1>10, <2>1 DEF At
  <1>11. CASE Dispatch(r)
    <2>1. CASE req[r].route = "nowhere"
      BY <1>1, <1>11, <2>1 DEF Dispatch, At
    <2>2. CASE req[r].route # "nowhere"
      <3>1. req[r].route \in {"degraded", "tenants", "resolve"}
        BY <1>0, <1>11, <2>2
           DEF Dispatch, StepInv, OnItsRoute, At, Handler, Routes, Gets, AdminRoutes,
               InternalRoutes
      <3>2. req'[r].pc \in {"switch", "create", "lookup"}
        BY <1>0, <1>11, <2>2, <3>1 DEF Dispatch, Goto, Handler, FirstAccess
      <3> QED
        BY <3>2 DEF At
    <2> QED
      BY <2>1, <2>2
  <1>12. ASSUME NEW bytes \in 1..(MaxBytes + 1), Chunk(r, bytes)
         PROVE  ~At(r, "stamp")' /\ ~At(r, "append")'
    <2>1. req'[r].pc \in {"reply", "body"}
      BY <1>0, <1>1, <1>12 DEF Chunk, Handler, At
    <2> QED
      BY <2>1 DEF At
  <1> QED
    BY <1>3, <1>4, <1>5, <1>6, <1>7, <1>8, <1>9, <1>10, <1>11, <1>12 DEF Step, Handle

\* A handler that is to show events, or has shown them, has just read them, or
\* has not forgotten any.
LEMMA Shows ==
    ASSUME HandlerInv, StepsInv, NEW r \in Requests, Step(r),
           req'[r].pc \in {"flag", "reply"}, req'[r].route \in {"events", "overview"}
    PROVE  \/ ReadEvents(r)
           \/ /\ req[r].pc = "flag" /\ req[r].route = "overview"
              /\ req'[r].route = req[r].route /\ req'[r].limit = req[r].limit
              /\ req'[r].owed = req[r].owed /\ req'[r].shown = req[r].shown
  <1>0. req \in [Requests -> Handler] /\ req[r] \in Handler /\ StepInv(r)
    BY DEF HandlerInv, StepsInv
  <1>1. ASSUME NEW status \in Nat, Refuse(r, status)
        PROVE  FALSE
    <2>1. req'[r] = Refused(r, status)
      BY <1>1, Refuses
    <2> QED
      BY <2>1 DEF Refused, Idle
  <1>2. ASSUME NEW status \in Nat, Answer(r, status)
        PROVE  /\ req'[r].route = req[r].route /\ req'[r].limit = req[r].limit
               /\ req'[r].owed = req[r].owed /\ req'[r].shown = req[r].shown
    <2>1. req'[r] = [req[r] EXCEPT !.pc = "reply", !.status = status, !.event = <<>>]
      BY <1>2, Answers
    <2> QED
      BY <1>0, <2>1 DEF Handler
  <1>3. CASE Arrivals(r)
    BY <1>3, Arrived
  <1>4. CASE Cut(r) \/ Reply(r)
    <2>1. req'[r] = Idle
      BY <1>0, <1>4 DEF Cut, Reply
    <2> QED
      BY <2>1 DEF Idle
  <1>5. CASE BadBody(r) \/ TenantExists(r) \/ StoreFails(r)
    BY <1>1, <1>5 DEF BadBody, TenantExists, StoreFails, StatusOfUnknown
  <1>6. CASE ReadHealth(r) \/ ReadFlagForOverview(r) \/ Lookup(r) \/ ReadBack(r)
    <2>1. /\ req'[r].route = req[r].route /\ req'[r].limit = req[r].limit
          /\ req'[r].owed = req[r].owed /\ req'[r].shown = req[r].shown
      BY <1>2, <1>6 DEF ReadHealth, ReadFlagForOverview, Lookup, ReadBack
    <2>2. CASE ReadFlagForOverview(r)
      BY <1>0, <2>1, <2>2 DEF ReadFlagForOverview, At, StepInv, OnItsRoute
    <2>3. CASE ReadHealth(r) \/ Lookup(r) \/ ReadBack(r)
      <3>1. req[r].route \in {"health", "resolve", "degraded"}
        BY <1>0, <2>3 DEF ReadHealth, Lookup, ReadBack, At, StepInv, OnItsRoute
      <3> QED
        BY <2>1, <3>1
    <2> QED
      BY <1>6, <2>2, <2>3
  <1>7. CASE \/ ListTenants(r) \/ ListInstances(r) \/ SetOutageMode(r)
             \/ ReadFlagForAudit(r) \/ CreateTenant(r) \/ Record(r)
    <2>1. req'[r].pc \in {"listInstances", "events", "readFlag", "stamp", "append"}
      BY <1>0, <1>7 DEF ListTenants, ListInstances, Goto, SetOutageMode, ReadFlagForAudit,
                        CreateTenant, Record, Handler
    <2> QED
      BY <2>1
  <1>8. CASE AppendEvent(r)
    <2>1. req'[r].route = req[r].route /\ req[r].route \in {"degraded", "tenants"}
      BY <1>0, <1>8 DEF AppendEvent, Handler, At, StepInv, OnItsRoute
    <2> QED
      BY <2>1
  <1>9. CASE Dispatch(r)
    <2>1. CASE req[r].route = "nowhere"
      BY <1>1, <1>9, <2>1 DEF Dispatch
    <2>2. CASE req[r].route # "nowhere"
      <3>1. req'[r].route = req[r].route /\ req[r].route \notin Gets
        BY <1>0, <1>9, <2>2 DEF Dispatch, Goto, Handler, At, StepInv, OnItsRoute
      <3> QED
        BY <3>1 DEF Gets
    <2> QED
      BY <2>1, <2>2
  <1>10. ASSUME NEW bytes \in 1..(MaxBytes + 1), Chunk(r, bytes)
         PROVE  FALSE
    <2>1. req'[r].pc = "body"
      BY <1>0, <1>1, <1>10 DEF Chunk, Handler, At
    <2> QED
      BY <2>1
  <1> QED
    BY <1>3, <1>4, <1>5, <1>6, <1>7, <1>8, <1>9, <1>10 DEF Step, Handle

-----------------------------------------------------------------------------
\* Every handler is where the invariant says, after a step of one of them.
LEMMA StepsKept ==
    ASSUME TypeOK, HandlerInv, StepsInv, TrailInv, NEW r \in Requests, Step(r)
    PROVE  HandlerInv' /\ StepsInv'
  <1>1. Moved(r) /\ options' = options
    BY EveryMove, StateMoves
  <1>2. ASSUME NEW o \in Requests, o # r
        PROVE  StepInv(o)'
    <2>1. req'[o] = req[o] /\ StepInv(o)
      BY <1>1, <1>2 DEF Moved, StepsInv
    <2> QED
      BY <1>1, <2>1
         DEF StepInv, OnItsRoute, At, Guarded, Admitted, Enabled, Authorized, Untouched,
             ReplyInv
  <1> QED
    BY <1>1, <1>2 DEF Moved, StepsInv

\* What handlers remember stays in the trail.
LEMMA TrailKept ==
    ASSUME TypeOK, HandlerInv, StepsInv, TrailInv, NEW r \in Requests, Step(r)
    PROVE  TrailInv'
  <1>1. \A o \in Requests \ {r} : req'[o] = req[o]
    BY EveryMove DEF Moved
  <1>2. 0..Len(log) \subseteq 0..Len(log') /\ DOMAIN log \subseteq DOMAIN log'
    BY Grows
  <1>3. /\ req'[r].entry \in 0..Len(log')
        /\ req'[r].owed \cup req'[r].shown \subseteq DOMAIN log'
    <2>1. req[r].entry \in 0..Len(log) /\ req[r].owed \cup req[r].shown \subseteq DOMAIN log
          /\ acked \subseteq DOMAIN log
      BY DEF TrailInv, TypeOK
    <2> QED
      BY <1>2, <2>1, Remembers, Grows
  <1> QED
    BY <1>1, <1>2, <1>3, Grows DEF TrailInv

\* Every variable keeps its type.
LEMMA TypeKept ==
    ASSUME TypeOK, HandlerInv, StepsInv, TrailInv, NEW r \in Requests, Step(r)
    PROVE  TypeOK'
  <1>1. /\ now' \in 0..MaxTime /\ log' \in Seq(AuditEvent) /\ options' \in Configurations
    BY Grows, StateMoves DEF TypeOK
  <1>2. DOMAIN log \subseteq DOMAIN log' /\ 0..Len(log) \subseteq 0..Len(log')
    BY Grows
  <1>3. req[r] \in Handler /\ StepInv(r)
    BY DEF HandlerInv, StepsInv
  <1>4. /\ outage' \in BOOLEAN /\ tenants' \subseteq Tenants
        /\ switcher' \in Requests \cup {NoHandler} /\ told' \in 0..Len(log')
    <2>1. CASE Leaves
      BY <1>2, <2>1 DEF Leaves, stored, TypeOK
    <2>2. CASE Switches(r)
      <3>1. 0 \in 0..Len(log')
        BY Grows
      <3> QED
        BY <1>3, <2>2, <3>1 DEF Switches, Switched, TypeOK, Handler
    <2>3. CASE Creates(r)
      <3>1. req[r].tenant \in Tenants
        BY <1>3, <2>3 DEF Creates, StepInv, OnItsRoute
      <3> QED
        BY <1>2, <2>3, <3>1 DEF Creates, TypeOK
    <2>4. CASE Appends(r)
      <3>1. Len(log) + 1 \in 0..Len(log')
        BY <2>4, Grows DEF Appends, Stores, Store, TypeOK
      <3> QED
        BY <1>2, <2>4, <3>1 DEF Appends, Stores, TypeOK
    <2> QED
      BY <2>1, <2>2, <2>3, <2>4, StateMoves
  <1>5. acked' \subseteq DOMAIN log'
    <2>1. acked \subseteq DOMAIN log'
      BY <1>2 DEF TypeOK
    <2>2. req[r].entry # 0 => req[r].entry \in DOMAIN log'
      <3>1. req[r].entry \in 0..Len(log)
        BY DEF TrailInv
      <3> QED
        BY <1>2, <3>1, Grows
    <2> QED
      BY <2>1, <2>2, StateMoves
  <1>6. \A o \in Requests :
            /\ req'[o].pc \in StoreAccesses \cup {"idle", "body", "stamp", "reply"}
            /\ req'[o].route \in Routes
            /\ At(o, "reply")' => req'[o].status \in Success \cup Refusals \cup {400}
            /\ At(o, "stamp")' => req'[o].event \in Input
            /\ At(o, "append")' => req'[o].event \in AuditEvent
    <2> TAKE o \in Requests
    <2>1. req'[o] \in Handler /\ StepInv(o)'
      BY StepsKept DEF HandlerInv, StepsInv
    <2> QED
      BY <2>1 DEF Handler, Steps, StepInv, ReplyInv, At
  <1> QED
    BY <1>1, <1>4, <1>5, <1>6 DEF TypeOK, At

\* A flag that was read for a switch is the flag as long as that switch is the last.
LEMMA SwitchKept ==
    ASSUME TypeOK, HandlerInv, StepsInv, TrailInv, SwitchInv, LastSwitcherReports,
           NEW r \in Requests, Step(r)
    PROVE  SwitchInv' /\ LastSwitcherReports'
  <1>1. \A o \in Requests \ {r} : req'[o] = req[o]
    BY EveryMove DEF Moved
  <1>2. ASSUME NEW o \in Requests, switcher' = o, req'[o].route = "degraded"
        PROVE  /\ At(o, "stamp")' => req'[o].event.flag = outage'
               /\ At(o, "append")' => req'[o].event.input.flag = outage'
    <2>1. CASE o # r
      <3>1. switcher = o /\ outage' = outage
        BY <1>2, <2>1, StateMoves, NoHandlerAssumption
           DEF Leaves, Switches, Switched, Creates, Appends, Stores, stored
      <3> QED
        BY <1>1, <1>2, <2>1, <3>1 DEF SwitchInv, At
    <2>2. CASE o = r
      <3>1. CASE At(r, "stamp")'
        <4>1. ReadFlagForAudit(r) /\ req'[r].event.flag = outage
          BY <1>2, <2>2, <3>1, Stamping
        <4> QED
          BY <2>2, <3>1, <4>1 DEF ReadFlagForAudit, rest, stored, At
      <3>2. CASE At(r, "append")'
        <4>1. Record(r) /\ req'[r].event = Stamped(req[r].event) /\ req[r].route = "degraded"
          BY <1>2, <2>2, <3>2, Stamping
        <4>2. switcher = r /\ outage' = outage
          BY <1>2, <2>2, <4>1 DEF Record, rest, stored
        <4>3. req[r].event.flag = outage
          BY <4>1, <4>2 DEF SwitchInv, Record
        <4> QED
          BY <2>2, <3>2, <4>1, <4>2, <4>3 DEF Stamped, At
      <3> QED
        BY <2>2, <3>1, <3>2
    <2> QED
      BY <2>1, <2>2
  <1>3. ASSUME told' # 0
        PROVE  log'[told'].input.flag = outage'
    <2>1. CASE told' = told /\ outage' = outage
      <3>1. told \in 1..Len(log) /\ log[told].input.flag = outage
        BY <1>3, <2>1 DEF TypeOK, LastSwitcherReports
      <3>2. log'[told] = log[told]
        BY <3>1, Grows
      <3> QED
        BY <2>1, <3>1, <3>2
    <2>2. CASE Appends(r) /\ switcher = r /\ req[r].route = "degraded"
      <3>1. /\ told' = Len(log) + 1 /\ outage' = outage
            /\ req[r].event.input.flag = outage
        BY <2>2 DEF Appends, Stores, SwitchInv
      <3>2. log'[Len(log) + 1] = req[r].event
        <4>1. log' # log
          BY <2>2, Grows DEF Appends, Stores, Store
        <4> QED
          BY <4>1, Grows
      <3> QED
        BY <3>1, <3>2
    <2> QED
      BY <1>3, <2>1, <2>2, StateMoves
         DEF Leaves, Switches, Switched, Creates, Appends, Stores, stored
  <1> QED
    BY <1>2, <1>3 DEF SwitchInv, LastSwitcherReports

\* What had been stored when an event was stamped stays as old as it was.
LEMMA StampKept ==
    ASSUME TypeOK, HandlerInv, StepsInv, TrailInv, StampInv, NEW r \in Requests, Step(r)
    PROVE  StampInv'
  <1>1. /\ \A o \in Requests \ {r} : req'[o] = req[o]
        /\ now' = now /\ now \in Nat
    BY EveryMove, Grows, MaxTimeAssumption DEF Moved, TypeOK
  <1>2. \A i \in DOMAIN log : /\ log[i].at \in Nat /\ log[i].after \in Nat
                              /\ log[i].at <= now /\ log[i].after < i
                              /\ \A j \in 1..log[i].after : log[j].at <= log[i].at
    <2>1. \A i \in DOMAIN log : log[i] \in AuditEvent
      BY Grows
    <2> QED
      BY <2>1, MaxTimeAssumption, BoundsAssumption DEF StampInv, InTime, AuditEvent
  <1>3. ASSUME NEW event, event.after \in Nat, event.after <= Len(log), InTime(event)
        PROVE  \A j \in 1..event.after : log'[j].at <= event.at
    <2>1. \A j \in 1..event.after : j \in 1..Len(log)
      BY <1>3, Grows
    <2> QED
      BY <1>3, <2>1, Grows DEF InTime
  <1>4. \A i \in 1..Len(log) : /\ log'[i].at <= now' /\ log'[i].after < i
                               /\ \A j \in 1..log'[i].after : log'[j].at <= log'[i].at
    <2> SUFFICES ASSUME NEW i \in 1..Len(log)
                 PROVE  /\ log'[i].at <= now' /\ log'[i].after < i
                        /\ \A j \in 1..log'[i].after : log'[j].at <= log'[i].at
      OBVIOUS
    <2>1. log'[i] = log[i] /\ i \in DOMAIN log
      BY Grows
    <2>2. log[i].after \in Nat /\ log[i].after <= Len(log) /\ InTime(log[i])
      BY <1>2, <2>1, Grows DEF InTime
    <2>3. \A j \in 1..log[i].after : log'[j].at <= log[i].at
      BY <1>3, <2>2
    <2> QED
      BY <1>1, <1>2, <2>1, <2>3
  <1>5. \A i \in DOMAIN log' : /\ log'[i].at <= now' /\ log'[i].after < i
                               /\ \A j \in 1..log'[i].after : log'[j].at <= log'[i].at
    <2>1. CASE log' = log
      BY <1>4, <2>1, Grows
    <2>2. CASE log' # log
      <3>1. /\ Appends(r) /\ Len(log') = Len(log) + 1 /\ req[r].event \in AuditEvent
            /\ log'[Len(log) + 1] = req[r].event
        BY <2>2, Grows
      <3>2. /\ req[r].event.at <= now /\ req[r].event.after <= Len(log)
            /\ InTime(req[r].event) /\ req[r].event.after \in Nat
        BY <3>1, BoundsAssumption DEF Appends, StampInv, AuditEvent
      <3>3. \A j \in 1..req[r].event.after : log'[j].at <= req[r].event.at
        BY <1>3, <3>2
      <3>4. DOMAIN log' = 1..(Len(log) + 1) /\ Len(log) \in Nat
        BY <3>1, Grows
      <3>5. ASSUME NEW i \in DOMAIN log'
            PROVE  /\ log'[i].at <= now' /\ log'[i].after < i
                   /\ \A j \in 1..log'[i].after : log'[j].at <= log'[i].at
        <4>1. CASE i \in 1..Len(log)
          BY <1>4, <4>1
        <4>2. CASE i = Len(log) + 1
          <5>1. log'[i] = req[r].event
            BY <3>1, <4>2
          <5>2. req[r].event.after < i
            BY <3>2, <3>4, <4>2
          <5> QED
            BY <1>1, <3>2, <3>3, <5>1, <5>2
        <4> QED
          BY <3>4, <4>1, <4>2
      <3> QED
        BY <3>5
    <2> QED
      BY <2>1, <2>2
  <1>6. ASSUME NEW o \in Requests, At(o, "append")'
        PROVE  /\ req'[o].event.at <= now'
               /\ req'[o].event.after <= Len(log')
               /\ \A j \in 1..req'[o].event.after : log'[j].at <= req'[o].event.at
    <2>1. CASE o # r
      <3>1. req'[o] = req[o] /\ At(o, "append")
        BY <1>1, <1>6, <2>1 DEF At
      <3>2. /\ req[o].event.at <= now /\ req[o].event.after <= Len(log)
            /\ InTime(req[o].event) /\ req[o].event \in AuditEvent
        BY <3>1 DEF StampInv, StepsInv, StepInv
      <3>3. req[o].event.after \in Nat
        BY <3>2, BoundsAssumption DEF AuditEvent
      <3>4. \A j \in 1..req[o].event.after : log'[j].at <= req[o].event.at
        BY <1>3, <3>2, <3>3
      <3>5. req[o].event.after <= Len(log')
        BY <3>2, <3>3, Grows
      <3> QED
        BY <1>1, <3>1, <3>2, <3>4, <3>5
    <2>2. CASE o = r
      <3>1. Record(r) /\ req'[r].event = Stamped(req[r].event)
        BY <1>6, <2>2, Stamping
      <3>2. log' = log
        BY <3>1 DEF Record, auditVars
      <3>3. req'[r].event.at = now /\ req'[r].event.after = Len(log)
        BY <3>1 DEF Stamped
      <3>4. \A j \in 1..Len(log) : log[j].at <= now
        BY <1>2, Grows
      <3> QED
        BY <1>1, <2>2, <3>2, <3>3, <3>4, Grows
    <2> QED
      BY <2>1, <2>2
  <1> QED
    BY <1>5, <1>6 DEF StampInv, InTime

\* The clock moves on.
LEMMA TickKept ==
    ASSUME InductiveInv, Tick /\ UNCHANGED <<rest, req>>
    PROVE  InductiveInv'
  <1>0. /\ TypeOK /\ HandlerInv /\ StepsInv /\ TrailInv /\ EvidenceInv
        /\ SwitchInv /\ LastSwitcherReports /\ StampInv
    BY DEF InductiveInv
  <1>1. /\ now' = now + 1 /\ now < MaxTime /\ log' = log /\ options' = options
        /\ outage' = outage /\ tenants' = tenants /\ switcher' = switcher
        /\ told' = told /\ acked' = acked /\ req' = req
    BY DEF Tick, rest, stored
  <1>2. TypeOK'
    <2>1. now' \in 0..MaxTime
      BY <1>0, <1>1, MaxTimeAssumption DEF TypeOK
    <2> QED
      BY <1>0, <1>1, <2>1 DEF TypeOK, At
  <1>3. HandlerInv' /\ StepsInv' /\ TrailInv' /\ EvidenceInv'
    BY <1>0, <1>1
       DEF HandlerInv, StepsInv, StepInv, OnItsRoute, Guarded, Admitted, Enabled,
           Authorized, Untouched, ReplyInv, TrailInv, EvidenceInv, Complete, CausedBefore, At
  <1>4. SwitchInv' /\ LastSwitcherReports'
    BY <1>0, <1>1 DEF SwitchInv, LastSwitcherReports, At
  <1>5. StampInv'
    <2>1. /\ now \in Nat /\ \A i \in DOMAIN log : log[i].at \in Nat
          /\ \A r \in Requests : At(r, "append") => req[r].event.at \in Nat
      <3>1. /\ now \in 0..MaxTime /\ \A i \in DOMAIN log : log[i] \in AuditEvent
            /\ \A r \in Requests : At(r, "append") => req[r].event \in AuditEvent
        BY <1>0 DEF TypeOK
      <3> QED
        BY <3>1, MaxTimeAssumption DEF AuditEvent
    <2>2. \A i \in DOMAIN log : log[i].at <= now + 1
      BY <1>0, <2>1 DEF StampInv
    <2>3. \A r \in Requests : At(r, "append") => req[r].event.at <= now + 1
      BY <1>0, <2>1 DEF StampInv
    <2> QED
      BY <1>0, <1>1, <2>2, <2>3 DEF StampInv, InTime, At
  <1> QED
    BY <1>2, <1>3, <1>4, <1>5 DEF InductiveInv

-----------------------------------------------------------------------------
\* The events that a listing shows after event i, and how many there are.
After(i) == {j \in DOMAIN log : ListedBefore(i, j)}

Rank == [i \in DOMAIN log |-> Cardinality(After(i))]

\* The order of a listing is a strict total order.
LEMMA ListingOrder ==
    ASSUME \A i \in DOMAIN log : log[i].at \in Nat,
           log \in Seq(AuditEvent),
           NEW i \in DOMAIN log, NEW j \in DOMAIN log
    PROVE  /\ ~ListedBefore(i, i)
           /\ i # j => ListedBefore(i, j) \/ ListedBefore(j, i)
           /\ \A k \in DOMAIN log :
                  ListedBefore(i, j) /\ ListedBefore(j, k) => ListedBefore(i, k)
  <1>1. DOMAIN log = 1..Len(log) /\ Len(log) \in Nat
    OBVIOUS
  <1> QED
    BY <1>1 DEF ListedBefore

\* So the ranks of the events are the numbers from 0, one each.
LEMMA Ranks ==
    ASSUME \A i \in DOMAIN log : log[i].at \in Nat,
           log \in Seq(AuditEvent)
    PROVE  /\ Rank \in Bijection(DOMAIN log, 0..(Len(log) - 1))
           /\ \A i, j \in DOMAIN log : Rank[i] < Rank[j] => ListedBefore(j, i)
  <1>1. DOMAIN log = 1..Len(log) /\ Len(log) \in Nat
    OBVIOUS
  <1>2. IsFiniteSet(DOMAIN log) /\ Cardinality(DOMAIN log) = Len(log)
    BY <1>1, FS_Interval
  <1>3. \A i \in DOMAIN log : After(i) \in SUBSET DOMAIN log /\ i \notin After(i)
    BY ListingOrder DEF After
  <1>4. \A i \in DOMAIN log : /\ IsFiniteSet(After(i)) /\ Rank[i] \in Nat
                              /\ Rank[i] = Cardinality(After(i))
                              /\ Rank[i] < Len(log)
    <2> TAKE i \in DOMAIN log
    <2>1. /\ IsFiniteSet(After(i)) /\ Cardinality(After(i)) <= Len(log)
          /\ Cardinality(After(i)) # Len(log)
      BY <1>2, <1>3, FS_Subset
    <2>2. Cardinality(After(i)) \in Nat
      BY <2>1, FS_CardinalityType
    <2>3. Rank[i] = Cardinality(After(i))
      BY DEF Rank
    <2> QED
      BY <1>1, <2>1, <2>2, <2>3
  <1>5. ASSUME NEW i \in DOMAIN log, NEW j \in DOMAIN log, ListedBefore(i, j)
        PROVE  Rank[j] < Rank[i]
    <2>1. After(j) \in SUBSET After(i)
      BY <1>5, ListingOrder DEF After
    <2>2. j \in After(i) /\ j \notin After(j)
      BY <1>3, <1>5 DEF After
    <2>3. Cardinality(After(j)) <= Cardinality(After(i))
          /\ Cardinality(After(j)) # Cardinality(After(i))
      BY <1>4, <2>1, <2>2, FS_Subset
    <2> QED
      BY <1>4, <2>3
  <1>6. \A i, j \in DOMAIN log : Rank[i] < Rank[j] => ListedBefore(j, i)
    <2> SUFFICES ASSUME NEW i \in DOMAIN log, NEW j \in DOMAIN log, Rank[i] < Rank[j]
                 PROVE  ListedBefore(j, i)
      OBVIOUS
    <2>1. i # j /\ ~(Rank[j] < Rank[i])
      BY <1>4
    <2>2. ~ListedBefore(i, j)
      BY <1>5, <2>1
    <2> QED
      BY <2>1, <2>2, ListingOrder
  <1>7. Rank \in Injection(DOMAIN log, 0..(Len(log) - 1))
    <2>1. \A i \in DOMAIN log : Rank[i] \in 0..(Len(log) - 1)
      BY <1>1, <1>4
    <2>2. Rank \in [DOMAIN log -> 0..(Len(log) - 1)]
      <3>1. DOMAIN Rank = DOMAIN log /\ Rank = [i \in DOMAIN log |-> Rank[i]]
        BY DEF Rank
      <3> QED
        BY <2>1, <3>1
    <2>3. \A i, j \in DOMAIN log : Rank[i] = Rank[j] => i = j
      <3> SUFFICES ASSUME NEW i \in DOMAIN log, NEW j \in DOMAIN log, i # j
                   PROVE  Rank[i] # Rank[j]
        OBVIOUS
      <3>1. Rank[i] < Rank[j] \/ Rank[j] < Rank[i]
        BY <1>5, ListingOrder
      <3> QED
        BY <1>4, <3>1
    <2> QED
      BY <2>2, <2>3 DEF Injection, IsInjective
  <1>8. Rank \in Surjection(DOMAIN log, 0..(Len(log) - 1))
    <2>1. IsFiniteSet(0..(Len(log) - 1)) /\ Cardinality(0..(Len(log) - 1)) = Len(log)
      <3>1. 0 \in Int /\ Len(log) - 1 \in Int
        BY <1>1
      <3>2. /\ IsFiniteSet(0..(Len(log) - 1))
            /\ Cardinality(0..(Len(log) - 1)) =
                   IF 0 > Len(log) - 1 THEN 0 ELSE Len(log) - 1 - 0 + 1
        BY <3>1, FS_Interval
      <3> QED
        BY <1>1, <3>2
    <2> QED
      BY <1>2, <1>7, <2>1, FS_Injection
  <1> QED
    BY <1>6, <1>7, <1>8 DEF Bijection

\* A page holds as many events as it may, and what it leaves out was listed
\* before; what was listed before was not caused by what is shown.
LEMMA Newest ==
    ASSUME TypeOK, StampInv
    PROVE  PageHasNewest
  <1>1. /\ log \in Seq(AuditEvent) /\ DOMAIN log = 1..Len(log) /\ Len(log) \in Nat
        /\ \A i \in DOMAIN log : log[i].at \in Nat /\ log[i].after \in Nat
    <2>1. /\ log \in Seq(AuditEvent) /\ DOMAIN log = 1..Len(log) /\ Len(log) \in Nat
          /\ \A i \in DOMAIN log : log[i] \in AuditEvent
      BY DEF TypeOK
    <2> QED
      BY <2>1, MaxTimeAssumption, BoundsAssumption DEF AuditEvent
  <1>2. /\ Rank \in Bijection(DOMAIN log, 0..(Len(log) - 1))
        /\ \A i, j \in DOMAIN log : Rank[i] < Rank[j] => ListedBefore(j, i)
    BY <1>1, Ranks
  <1>3. /\ Rank \in [DOMAIN log -> 0..(Len(log) - 1)]
        /\ \A i, j \in DOMAIN log : Rank[i] = Rank[j] => i = j
        /\ \A n \in 0..(Len(log) - 1) : \E i \in DOMAIN log : Rank[i] = n
    BY <1>2 DEF Bijection, Injection, IsInjective, Surjection
  <1> SUFFICES ASSUME NEW limit \in 1..Len(log)
               PROVE  /\ Cardinality(Page(limit)) = limit
                      /\ \A i \in Page(limit), j \in DOMAIN log \ Page(limit) :
                             ~CausedBefore(i, j)
    BY DEF PageHasNewest
  <1>4. Page(limit) = {i \in DOMAIN log : Rank[i] < limit}
    <2>1. \A i \in DOMAIN log :
              Rank[i] = Cardinality({j \in DOMAIN log : ListedBefore(i, j)})
      BY DEF Rank, After
    <2> QED
      BY <2>1 DEF Page
  <1>5. Cardinality(Page(limit)) = limit
    <2> DEFINE f == [i \in Page(limit) |-> Rank[i]]
    <2>1. \A i \in Page(limit) : Rank[i] \in 0..(limit - 1)
      BY <1>1, <1>3, <1>4
    <2>2. f \in [Page(limit) -> 0..(limit - 1)]
      BY <2>1
    <2>3. \A i, j \in Page(limit) : f[i] = f[j] => i = j
      BY <1>3, <1>4
    <2>4. \A n \in 0..(limit - 1) : \E i \in Page(limit) : f[i] = n
      <3> SUFFICES ASSUME NEW n \in 0..(limit - 1)
                   PROVE  \E i \in Page(limit) : f[i] = n
        OBVIOUS
      <3>1. n \in 0..(Len(log) - 1) /\ n < limit
        BY <1>1
      <3>2. PICK i \in DOMAIN log : Rank[i] = n
        BY <1>3, <3>1
      <3> QED
        BY <1>4, <3>1, <3>2
    <2> HIDE DEF f
    <2>5. f \in Injection(Page(limit), 0..(limit - 1))
      BY <2>2, <2>3 DEF Injection, IsInjective
    <2>6. f \in Surjection(Page(limit), 0..(limit - 1))
      BY <2>2, <2>4 DEF Surjection
    <2>7. IsFiniteSet(0..(limit - 1)) /\ Cardinality(0..(limit - 1)) = limit
      <3>1. 0 \in Int /\ limit - 1 \in Int
        BY <1>1
      <3>2. /\ IsFiniteSet(0..(limit - 1))
            /\ Cardinality(0..(limit - 1)) =
                   IF 0 > limit - 1 THEN 0 ELSE limit - 1 - 0 + 1
        BY <3>1, FS_Interval
      <3> QED
        BY <1>1, <3>2
    <2> QED
      BY <2>5, <2>6, <2>7, FS_Injection
  <1>6. ASSUME NEW i \in Page(limit), NEW j \in DOMAIN log \ Page(limit),
               CausedBefore(i, j)
        PROVE  FALSE
    <2>1. i \in DOMAIN log /\ Rank[i] < limit /\ ~(Rank[j] < limit)
      BY <1>4
    <2>2. Rank[i] < Rank[j]
      BY <1>1, <1>3, <2>1
    <2>3. ListedBefore(j, i)
      BY <1>2, <2>1, <2>2
    <2>4. i <= log[j].after /\ log[j].after < j /\ log[i].at <= log[j].at
      <3>1. i \in 1..log[j].after
        BY <1>1, <1>6, <2>1 DEF CausedBefore
      <3> QED
        BY <1>1, <3>1 DEF StampInv, InTime
    <2>5. /\ i \in Nat /\ j \in Nat /\ log[i].at \in Nat /\ log[j].at \in Nat
          /\ log[j].after \in Nat
      BY <1>1, <2>1
    <2> QED
      BY <2>3, <2>4, <2>5 DEF ListedBefore
  <1> QED
    BY <1>5, <1>6

\* A listing leaves out what it has no place for, and nothing is out of its order.
LEMMA ListedComplete ==
    ASSUME TypeOK, StampInv, NEW limit \in Nat, NEW j \in DOMAIN log \ Listed(limit)
    PROVE  /\ limit # NoLimit
           /\ Cardinality(Listed(limit)) = limit
           /\ \A i \in Listed(limit) : ~CausedBefore(i, j)
  <1>1. limit # NoLimit /\ Listed(limit) = Page(limit)
    BY DEF Listed
  <1>2. /\ log \in Seq(AuditEvent) /\ Len(log) \in Nat /\ DOMAIN log = 1..Len(log)
        /\ \A i \in DOMAIN log : log[i].at \in Nat
    <2>1. /\ log \in Seq(AuditEvent) /\ DOMAIN log = 1..Len(log) /\ Len(log) \in Nat
          /\ \A i \in DOMAIN log : log[i] \in AuditEvent
      BY DEF TypeOK
    <2> QED
      BY <2>1, MaxTimeAssumption DEF AuditEvent
  <1>3. limit \in 1..Len(log)
    <2>1. Rank[j] \in 0..(Len(log) - 1)
      BY <1>2, Ranks DEF Bijection, Injection
    <2>2. Rank[j] = Cardinality({k \in DOMAIN log : ListedBefore(j, k)})
      BY DEF Rank, After
    <2>3. ~(Rank[j] < limit)
      BY <1>1, <2>2 DEF Page
    <2> QED
      BY <1>1, <1>2, <2>1, <2>3 DEF NoLimit
  <1> QED
    BY <1>1, <1>3, Newest DEF PageHasNewest

\* What an export shows is complete when it is read and stays so.
LEMMA EvidenceKept ==
    ASSUME TypeOK, HandlerInv, StepsInv, TrailInv, EvidenceInv, StampInv,
           NEW r \in Requests, Step(r)
    PROVE  EvidenceInv'
  <1> SUFFICES ASSUME NEW o \in Requests, req'[o].pc \in {"flag", "reply"},
                      req'[o].route \in {"events", "overview"}
               PROVE  Complete(o)'
    BY DEF EvidenceInv
  <1>0. req \in [Requests -> Handler] /\ req[r] \in Handler /\ StepInv(r)
    BY DEF HandlerInv, StepsInv
  <1>1. /\ DOMAIN log = 1..Len(log)
        /\ \A j \in 1..Len(log) : log'[j] = log[j]
        /\ req[o].owed \cup req[o].shown \subseteq DOMAIN log
    BY Grows DEF TrailInv
  <1>2. CASE /\ req'[o].route = req[o].route /\ req'[o].limit = req[o].limit
             /\ req'[o].owed = req[o].owed /\ req'[o].shown = req[o].shown
             /\ Complete(o)
    BY <1>1, <1>2 DEF Complete, CausedBefore
  <1>3. CASE o # r
    <2>1. req'[o] = req[o]
      BY <1>3, EveryMove DEF Moved
    <2>2. Complete(o)
      BY <2>1 DEF EvidenceInv
    <2> QED
      BY <1>2, <2>1, <2>2
  <1>4. CASE o = r /\ ReadEvents(r)
    <2>1. /\ req'[r].route = req[r].route /\ req'[r].limit = req[r].limit
          /\ req'[r].owed = req[r].owed /\ req'[r].shown = Listed(LimitOf(req[r]))
          /\ log' = log
      BY <1>0, <1>4 DEF ReadEvents, Handler, auditVars
    <2>2. LimitOf(req[r]) \in Nat
      BY <1>0 DEF Handler, LimitOf, NoLimit
    <2>3. \/ req[r].route = "events" /\ LimitOf(req[r]) = req[r].limit
          \/ LimitOf(req[r]) = NoLimit
      BY <1>0, <1>4 DEF ReadEvents, At, StepInv, OnItsRoute, LimitOf
    <2>4. ASSUME NEW j \in req[r].owed \ Listed(LimitOf(req[r]))
          PROVE  /\ LimitOf(req[r]) # NoLimit
                 /\ Cardinality(Listed(LimitOf(req[r]))) = LimitOf(req[r])
                 /\ \A i \in Listed(LimitOf(req[r])) : ~CausedBefore(i, j)
      BY <1>1, <1>4, <2>2, ListedComplete
    <2> QED
      BY <1>4, <2>1, <2>3, <2>4 DEF Complete, CausedBefore
  <1>5. CASE o = r /\ ~ReadEvents(r)
    <2>1. /\ req[r].pc = "flag" /\ req[r].route = "overview"
          /\ req'[r].route = req[r].route /\ req'[r].limit = req[r].limit
          /\ req'[r].owed = req[r].owed /\ req'[r].shown = req[r].shown
      BY <1>5, Shows
    <2> QED
      BY <1>2, <1>5, <2>1 DEF EvidenceInv
  <1> QED
    BY <1>3, <1>4, <1>5

-----------------------------------------------------------------------------
\* The invariant is inductive.
THEOREM Invariance == Spec => []InductiveInv
  <1>1. Init => InductiveInv
    BY InitInductive
  <1>2. InductiveInv /\ [Next]_vars => InductiveInv'
    <2> SUFFICES ASSUME InductiveInv, [Next]_vars PROVE InductiveInv'
      OBVIOUS
    <2>1. CASE Tick /\ UNCHANGED <<rest, req>>
      BY <2>1, TickKept
    <2>2. ASSUME NEW r \in Requests, Step(r)
          PROVE  InductiveInv'
      <3>1. /\ TypeOK /\ HandlerInv /\ StepsInv /\ TrailInv /\ EvidenceInv
            /\ SwitchInv /\ LastSwitcherReports /\ StampInv
        BY DEF InductiveInv
      <3> QED
        BY <2>2, <3>1, TypeKept, StepsKept, TrailKept, EvidenceKept, SwitchKept, StampKept
           DEF InductiveInv
    <2>3. CASE UNCHANGED vars
      <3>1. /\ now' = now /\ log' = log /\ options' = options /\ outage' = outage
            /\ tenants' = tenants /\ switcher' = switcher /\ told' = told
            /\ acked' = acked /\ req' = req
        BY <2>3 DEF vars, auditVars
      <3>2. TypeOK'
        BY <3>1 DEF InductiveInv, TypeOK, At
      <3>3. HandlerInv' /\ StepsInv' /\ TrailInv' /\ EvidenceInv'
        BY <3>1
           DEF InductiveInv, HandlerInv, StepsInv, StepInv, OnItsRoute, Guarded, Admitted,
               Enabled, Authorized, Untouched, ReplyInv, TrailInv, EvidenceInv, Complete,
               CausedBefore, At
      <3>4. SwitchInv' /\ LastSwitcherReports' /\ StampInv'
        BY <3>1 DEF InductiveInv, SwitchInv, LastSwitcherReports, StampInv, InTime, At
      <3> QED
        BY <3>2, <3>3, <3>4 DEF InductiveInv
    <2> QED
      BY <2>1, <2>2, <2>3 DEF Next, Step
  <1> QED
    BY <1>1, <1>2, PTL DEF Spec

\* Every variable has its type.
THEOREM TypeCorrect == Spec => []TypeOK
  BY Invariance, PTL DEF InductiveInv

\* Who changed something, or was told of a success, was admitted with a body
\* that was complete and within the limit.
THEOREM OnlyAdmitted == Spec => []OnlyAdmittedRequestsAct
  <1>1. InductiveInv => OnlyAdmittedRequestsAct
    BY DEF InductiveInv, StepsInv, StepInv, Before, Untouched, Admitted, Guarded, At,
           OnlyAdmittedRequestsAct
  <1> QED
    BY <1>1, Invariance, PTL

\* A request that was refused has left nothing behind.
THEOREM Refusal == Spec => []RefusedLeavesNothing
  <1>1. InductiveInv => RefusedLeavesNothing
    BY DEF InductiveInv, StepsInv, StepInv, ReplyInv, Untouched, RefusedLeavesNothing
  <1> QED
    BY <1>1, Invariance, PTL

\* An export has the event of every change that was answered before it, unless
\* its limit leaves it out.
THEOREM Evidence == Spec => []ExportHasEvidence
  <1>1. InductiveInv => ExportHasEvidence
    BY DEF InductiveInv, EvidenceInv, Complete, ExportHasEvidence, At
  <1> QED
    BY <1>1, Invariance, PTL

\* The event of the last switcher, once stored, tells what the outage flag is.
THEOREM LastSwitch == Spec => []LastSwitcherReports
  BY Invariance, PTL DEF InductiveInv

\* Every page ends with the newest events, no effect before its cause.
THEOREM PagesEndWithNewest == Spec => []PageHasNewest
  <1>1. InductiveInv => PageHasNewest
    BY Newest DEF InductiveInv
  <1> QED
    BY <1>1, Invariance, PTL
=============================================================================
