----------------------------- MODULE Enrollment -----------------------------
(***************************************************************************)
(* EnrollmentService: one-time codes, and their exchange for the first     *)
(* credentials of an instance.  A handler is a sequence of steps, one per  *)
(* store access, as in SecretRotation; a handler may be cut between any    *)
(* two.                                                                    *)
(*                                                                         *)
(* Codes are random: a new one is never in use.  Client ids are random too,*)
(* but the code looks for collisions, so here any free id may be drawn.    *)
(* Tenants and instances are never deleted, so they are constants.         *)
(***************************************************************************)
EXTENDS Integers

CONSTANTS
    Requests,     \* handlers that may be in flight at the same time
    Instances,
    Codes,        \* bound: enrollment codes ever issued
    ClientIds,    \* bound: client ids ever generated
    MaxTime,      \* bound: the clock
    Ttls,         \* ttl_seconds values an administrator asks for
    None          \* undefined

ASSUME MaxTimeAssumption == MaxTime \in Nat
ASSUME TtlsAssumption == Ttls \subseteq Nat \ {0}

NotUsed == -1     \* used_at is undefined

Record == [instance: Instances, expires: Nat, used: Nat \cup {NotUsed}]

ASSUME NoneAssumption ==
    None \notin Instances \cup Codes \cup ClientIds \cup Requests \cup Record

VARIABLES
    now,          \* the clock every service reads
    records,      \* enrollment_records: what each stored code says
    credentials,  \* client_credentials.client_id of an instance, or None
    owner,        \* client_id_to_instance, or None
    drawn,        \* codes generated, stored or not
    held,         \* codes that were returned in a delivered reply
    enrolled,     \* instances whose credentials were delivered in a reply
    grants,       \* history: <<code, instance, client id>> of each success
    trail,        \* audit events recorded: <<event, code>>
    req           \* the handler each request is in, and its local variables

stored == <<records, credentials, owner>>
vars == <<now, stored, drawn, held, enrolled, grants, trail, req>>

Stored == {c \in Codes : records[c] # None}

\* time is expires_at for an issue, and the clock read by an exchange.
RequestState == [pc: {"idle", "store", "issueAudit", "exchange", "exchangeAudit"},
                 code: Codes \cup {None}, instance: Instances \cup {None}, time: Nat]

Idle == [pc |-> "idle", code |-> None, instance |-> None, time |-> 0]

At(r, step) == req[r].pc = step
Goto(r, step) == req' = [req EXCEPT ![r].pc = step]
Finish(r) == req' = [req EXCEPT ![r] = Idle]
Audit(event, c) == trail' = trail \cup {<<event, c>>}

Init ==
    /\ now = 0
    /\ records = [c \in Codes |-> None]
    /\ credentials = [i \in Instances |-> None]
    /\ owner = [k \in ClientIds |-> None]
    /\ drawn = {}
    /\ held = {}
    /\ enrolled = {}
    /\ grants = {}
    /\ trail = {}
    /\ req = [r \in Requests |-> Idle]

Tick == /\ now < MaxTime
        /\ now' = now + 1
        /\ UNCHANGED <<stored, drawn, held, enrolled, grants, trail, req>>

-----------------------------------------------------------------------------
(* issueEnrollmentCode                                                     *)

ExpiresAt(ttl) == now + ttl

\* The reads of tenant and instance, and the record made from them.  An
\* instance that is enrolled already can be given a code as well.
IssueBegin(r, c, i, ttl) ==
    /\ At(r, "idle")
    /\ c \notin drawn
    /\ drawn' = drawn \cup {c}
    /\ req' = [req EXCEPT ![r] = [pc |-> "store", code |-> c, instance |-> i,
                                  time |-> ExpiresAt(ttl)]]
    /\ UNCHANGED <<now, stored, held, enrolled, grants, trail>>

StoreCode(r) ==
    /\ At(r, "store")
    /\ records' = [records EXCEPT ![req[r].code] =
                      [instance |-> req[r].instance, expires |-> req[r].time,
                       used |-> NotUsed]]
    /\ Goto(r, "issueAudit")
    /\ UNCHANGED <<now, credentials, owner, drawn, held, enrolled, grants, trail>>

\* Mutant: the code is in the reply although its audit record failed.
CodeIssuedUnaudited(r) ==
    /\ At(r, "issueAudit")
    /\ held' \in {held, held \cup {req[r].code}}
    /\ Finish(r)
    /\ UNCHANGED <<now, stored, drawn, enrolled, grants, trail>>

\* The code leaves the server in the reply after the audit record; the reply
\* may be lost.
CodeIssued(r) ==
    /\ At(r, "issueAudit")
    /\ Audit("issued", req[r].code)
    /\ held' \in {held, held \cup {req[r].code}}
    /\ Finish(r)
    /\ UNCHANGED <<now, stored, drawn, enrolled, grants>>

-----------------------------------------------------------------------------
(* exchangeEnrollmentCode                                                  *)

\* The clock is read before the store is asked for its lock.  None stands for
\* any code that was never issued.
ExchangeBegin(r, c) ==
    /\ At(r, "idle")
    /\ req' = [req EXCEPT ![r] = [Idle EXCEPT !.pc = "exchange", !.code = c,
                                              !.time = now]]
    /\ UNCHANGED <<now, stored, drawn, held, enrolled, grants, trail>>

\* Mutants: the expiry is not looked at; an instance may have credentials.
AcceptsExpired(record, at) ==
    record.used = NotUsed /\ credentials[record.instance] = None
AcceptsEnrolled(record, at) ==
    record.used = NotUsed /\ at <= record.expires

\* The checks of the mutator: not used, not expired, instance not enrolled.
Accepts(record, at) ==
    /\ record.used = NotUsed
    /\ at <= record.expires
    /\ credentials[record.instance] = None

\* Mutant: no look at client_id_to_instance.
AnyClientId(k) == k \in ClientIds

\* generateUniqueClientId
FreeClientId(k) == owner[k] = None

Exchange(r, k) ==
    LET c == req[r].code
        i == records[c].instance
    IN  /\ At(r, "exchange")
        /\ c \in Stored
        /\ Accepts(records[c], req[r].time)
        /\ FreeClientId(k)
        /\ credentials' = [credentials EXCEPT ![i] = k]
        /\ owner' = [owner EXCEPT ![k] = i]
        /\ records' = [records EXCEPT ![c].used = req[r].time]
        /\ grants' = grants \cup {<<c, i, k>>}
        /\ req' = [req EXCEPT ![r].pc = "exchangeAudit", ![r].instance = i]
        /\ UNCHANGED <<now, drawn, held, enrolled, trail>>

\* Every other outcome of the mutator, and ten collisions in a row (here: no
\* free id): nothing is written but token_mint_denied, which no property reads.
\* A code nobody issued ends here too.
ExchangeDenied(r) ==
    LET c == req[r].code IN
    /\ At(r, "exchange")
    /\ \/ c \notin Stored
       \/ c \in Stored /\ ~Accepts(records[c], req[r].time)
       \/ \A k \in ClientIds : ~FreeClientId(k)
    /\ Finish(r)
    /\ UNCHANGED <<now, stored, drawn, held, enrolled, grants, trail>>

\* Audit record and reply, which may be lost: nobody has the secret then.
Exchanged(r) ==
    /\ At(r, "exchangeAudit")
    /\ Audit("exchanged", req[r].code)
    /\ enrolled' \in {enrolled, enrolled \cup {req[r].instance}}
    /\ Finish(r)
    /\ UNCHANGED <<now, stored, drawn, held, grants>>

\* The process dies or a query fails: what was committed stays committed.
Abandon(r) ==
    /\ ~At(r, "idle")
    /\ Finish(r)
    /\ UNCHANGED <<now, stored, drawn, held, enrolled, grants, trail>>

-----------------------------------------------------------------------------
Step(r) ==
    \/ \E c \in Codes, i \in Instances, ttl \in Ttls : IssueBegin(r, c, i, ttl)
    \/ StoreCode(r)
    \/ CodeIssued(r)
    \/ \E c \in held \cup {None} : ExchangeBegin(r, c)
    \/ \E k \in ClientIds : Exchange(r, k)
    \/ ExchangeDenied(r)
    \/ Exchanged(r)
    \/ Abandon(r)

Next == Tick \/ \E r \in Requests : Step(r)

Spec == Init /\ [][Next]_vars

-----------------------------------------------------------------------------
(* Properties                                                              *)

\* Every variable has its type.
TypeOK ==
    /\ now \in Nat
    /\ records \in [Codes -> Record \cup {None}]
    /\ credentials \in [Instances -> ClientIds \cup {None}]
    /\ owner \in [ClientIds -> Instances \cup {None}]
    /\ drawn \subseteq Codes
    /\ held \subseteq drawn
    /\ enrolled \subseteq Instances
    /\ grants \subseteq Codes \X Instances \X ClientIds
    /\ trail \subseteq {"issued", "exchanged"} \X Codes
    /\ req \in [Requests -> RequestState]

\* A code is exchanged once and an instance enrolled once, whatever number of
\* handlers present the same code, or different codes of one instance.
OneGrant ==
    \A g, h \in grants : g[1] = h[1] \/ g[2] = h[2] => g = h

\* Credentials and index agree: a client id leads to the instance that holds
\* it and to no other, or a mint would find the wrong instance.
IndexMatchesCredentials ==
    \A k \in ClientIds, i \in Instances : owner[k] = i <=> credentials[i] = k

\* A granted code was presented in time, by the clock of the handler; the
\* wait for the lock does not count (enrollment.service.ts:172).
GrantedInTime ==
    \A g \in grants : records[g[1]].used \in 0..records[g[1]].expires

\* Audit evidence is in order: a code exchanged was recorded as issued, and
\* an instance has credentials only if a code for it was recorded as issued.
EvidenceInOrder ==
    /\ \A c \in Codes : <<"exchanged", c>> \in trail => <<"issued", c>> \in trail
    /\ \A i \in Instances :
           credentials[i] # None =>
               \E c \in Stored : records[c].instance = i /\ <<"issued", c>> \in trail

\* Credentials were stored but never reached the instance, and no handler is
\* left that could still deliver them.
StrandedForGood(i) ==
    /\ credentials[i] # None
    /\ i \notin enrolled
    /\ \A r \in Requests : At(r, "exchangeAudit") => req[r].instance # i

\* Such an instance can never be enrolled again: later codes for it are denied
\* as used (:224) and no operation takes its credentials back.
LostCredentialsStayLost ==
    [][\A i \in Instances : StrandedForGood(i) => StrandedForGood(i)']_vars
=============================================================================
