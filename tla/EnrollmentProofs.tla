-------------------------- MODULE EnrollmentProofs --------------------------
(***************************************************************************)
(* What Enrollment keeps true for every number of requests, codes,         *)
(* instances and client ids, every clock and every lifetime of a code.     *)
(*                                                                         *)
(* OneGrant is not inductive: a second grant of a code is excluded by its  *)
(* record being marked as used, and of an instance by its credentials.     *)
(* GrantInv ties each grant to both, and HandlerInv keeps a late StoreCode *)
(* from writing a fresh record over a used one.                            *)
(***************************************************************************)
EXTENDS Enrollment, TLAPS

\* What a grant left in the store.
GrantInv ==
    \A g \in grants :
        /\ g[1] \in Stored
        /\ records[g[1]].used # NotUsed
        /\ credentials[g[2]] = g[3]

\* A code in a reply was recorded as issued, and a stored code was generated.
CodeInv ==
    /\ Stored \subseteq drawn
    /\ \A c \in held : <<"issued", c>> \in trail

\* What the handler of request r relies on.
LocalInv(r) ==
    /\ req[r].pc = "store" =>
           /\ req[r].code \in drawn \ Stored
           /\ req[r].instance \in Instances
           /\ \A s \in Requests \ {r} : req[s].pc = "store" => req[s].code # req[r].code
    /\ req[r].pc = "issueAudit" => req[r].code \in drawn
    /\ req[r].pc = "exchange" /\ req[r].code # None =>
           <<"issued", req[r].code>> \in trail
    /\ req[r].pc = "exchangeAudit" =>
           /\ req[r].code \in Codes
           /\ req[r].instance \in Instances
           /\ <<"issued", req[r].code>> \in trail

HandlerInv == \A r \in Requests : LocalInv(r)

InductiveInv ==
    /\ TypeOK
    /\ CodeInv
    /\ HandlerInv
    /\ GrantInv
    /\ OneGrant
    /\ IndexMatchesCredentials
    /\ GrantedInTime
    /\ EvidenceInOrder

-----------------------------------------------------------------------------
\* The initial state satisfies the invariant.
LEMMA InitInductive == Init => InductiveInv
  <1> SUFFICES ASSUME Init PROVE InductiveInv
    OBVIOUS
  <1>1. TypeOK
    BY DEF Init, TypeOK, Idle, RequestState
  <1>2. CodeInv /\ GrantInv /\ OneGrant /\ GrantedInTime
    BY DEF Init, CodeInv, GrantInv, OneGrant, GrantedInTime, Stored
  <1>3. HandlerInv
    BY DEF Init, HandlerInv, LocalInv, Idle
  <1>4. IndexMatchesCredentials
    BY NoneAssumption DEF Init, IndexMatchesCredentials
  <1>5. EvidenceInOrder
    BY DEF Init, EvidenceInOrder
  <1> QED
    BY <1>1, <1>2, <1>3, <1>4, <1>5 DEF InductiveInv

\* Every step keeps the types.
LEMMA TypeStep == TypeOK /\ HandlerInv /\ [Next]_vars => TypeOK'
  <1> SUFFICES ASSUME TypeOK, HandlerInv, [Next]_vars PROVE TypeOK'
    OBVIOUS
  <1>1. CASE UNCHANGED vars
    BY <1>1 DEF TypeOK, vars, stored
  <1>2. CASE Tick
    BY <1>2 DEF TypeOK, Tick, stored
  <1>3. ASSUME NEW r \in Requests, Step(r)
        PROVE  TypeOK'
    <2> USE DEF TypeOK, At, Goto, Finish, Audit, stored
    <2>0. Idle \in RequestState /\ req[r] \in RequestState
      BY DEF Idle, RequestState
    <2>1. ASSUME NEW c \in Codes, NEW i \in Instances, NEW ttl \in Ttls,
                 IssueBegin(r, c, i, ttl)
          PROVE  TypeOK'
      <3>1. ExpiresAt(ttl) \in Nat
        BY TtlsAssumption DEF ExpiresAt
      <3>2. [pc |-> "store", code |-> c, instance |-> i, time |-> ExpiresAt(ttl)]
              \in RequestState
        BY <3>1 DEF RequestState
      <3> QED
        BY <2>1, <3>2 DEF IssueBegin
    <2>2. CASE StoreCode(r)
      <3>1. [instance |-> req[r].instance, expires |-> req[r].time, used |-> NotUsed]
              \in Record
        BY <2>0, <2>2 DEF StoreCode, HandlerInv, LocalInv, Record, RequestState
      <3>2. [req[r] EXCEPT !.pc = "issueAudit"] \in RequestState
        BY <2>0 DEF RequestState
      <3> QED
        BY <2>2, <3>1, <3>2 DEF StoreCode
    <2>3. CASE CodeIssued(r)
      <3>1. req[r].code \in drawn /\ drawn \subseteq Codes
        BY <2>3 DEF CodeIssued, HandlerInv, LocalInv
      <3>2. trail' \subseteq {"issued", "exchanged"} \X Codes
        BY <2>3, <3>1 DEF CodeIssued
      <3>3. held' \subseteq drawn'
        BY <2>3, <3>1 DEF CodeIssued
      <3> QED
        BY <2>0, <2>3, <3>2, <3>3 DEF CodeIssued
    <2>4. ASSUME NEW c \in held \cup {None}, ExchangeBegin(r, c)
          PROVE  TypeOK'
      <3>1. [Idle EXCEPT !.pc = "exchange", !.code = c, !.time = now] \in RequestState
        BY DEF Idle, RequestState
      <3> QED
        BY <2>4, <3>1 DEF ExchangeBegin
    <2>5. ASSUME NEW k \in ClientIds, Exchange(r, k)
          PROVE  TypeOK'
      <3> DEFINE c == req[r].code
      <3>1. c \in Codes /\ records[c] \in Record
        BY <2>5 DEF Exchange, Stored
      <3>2. records[c].instance \in Instances
        BY <3>1 DEF Record
      <3>3. [records[c] EXCEPT !.used = req[r].time] \in Record
        BY <2>0, <3>1 DEF Record, RequestState
      <3>4. [req[r] EXCEPT !.pc = "exchangeAudit", !.instance = records[c].instance]
              \in RequestState
        BY <2>0, <3>2 DEF RequestState
      <3> QED
        BY <2>5, <3>1, <3>2, <3>3, <3>4 DEF Exchange
    <2>6. CASE ExchangeDenied(r) \/ Abandon(r)
      BY <2>0, <2>6 DEF ExchangeDenied, Abandon
    <2>7. CASE Exchanged(r)
      <3>1. req[r].code \in Codes /\ req[r].instance \in Instances
        BY <2>7 DEF Exchanged, HandlerInv, LocalInv
      <3>2. trail' \subseteq {"issued", "exchanged"} \X Codes
        BY <2>7, <3>1 DEF Exchanged
      <3>3. enrolled' \subseteq Instances
        BY <2>7, <3>1 DEF Exchanged
      <3> QED
        BY <2>0, <2>7, <3>2, <3>3 DEF Exchanged
    <2> QED
      BY <1>3, <2>1, <2>2, <2>3, <2>4, <2>5, <2>6, <2>7 DEF Step
  <1> QED
    BY <1>1, <1>2, <1>3 DEF Next

\* A step of r leaves the other handlers where they are.
LEMMA OtherHandlers ==
    ASSUME TypeOK, NEW r \in Requests, Step(r)
    PROVE  \A s \in Requests \ {r} : req'[s] = req[s]
  BY DEF TypeOK, Step, IssueBegin, StoreCode, CodeIssued, ExchangeBegin, Exchange,
     ExchangeDenied, Exchanged, Abandon, Goto, Finish

\* Where a step of r leaves its handler.
LEMMA HandlerMoves ==
    ASSUME TypeOK, NEW r \in Requests, Step(r)
    PROVE  \/ /\ \E c \in Codes, i \in Instances, ttl \in Ttls : IssueBegin(r, c, i, ttl)
              /\ req'[r].pc = "store"
           \/ /\ StoreCode(r)
              /\ req'[r].pc = "issueAudit" /\ req'[r].code = req[r].code
           \/ /\ \E c \in held \cup {None} : ExchangeBegin(r, c) /\ req'[r].code = c
              /\ req'[r].pc = "exchange"
           \/ /\ \E k \in ClientIds : Exchange(r, k)
              /\ req'[r].pc = "exchangeAudit"
           \/ req'[r].pc = "idle"
  <1> USE DEF At, Goto, Finish
  <1>0. req \in [Requests -> RequestState] /\ req[r] \in RequestState
    BY DEF TypeOK
  <1>1. ASSUME NEW c \in Codes, NEW i \in Instances, NEW ttl \in Ttls,
               IssueBegin(r, c, i, ttl)
        PROVE  req'[r].pc = "store"
    BY <1>0, <1>1 DEF IssueBegin
  <1>2. ASSUME StoreCode(r)
        PROVE  req'[r].pc = "issueAudit" /\ req'[r].code = req[r].code
    BY <1>0, <1>2 DEF StoreCode, RequestState
  <1>3. ASSUME NEW c \in held \cup {None}, ExchangeBegin(r, c)
        PROVE  req'[r].pc = "exchange" /\ req'[r].code = c
    BY <1>0, <1>3 DEF ExchangeBegin, Idle
  <1>4. ASSUME NEW k \in ClientIds, Exchange(r, k)
        PROVE  req'[r].pc = "exchangeAudit"
    BY <1>0, <1>4 DEF Exchange, RequestState
  <1>5. ASSUME CodeIssued(r) \/ ExchangeDenied(r) \/ Exchanged(r) \/ Abandon(r)
        PROVE  req'[r].pc = "idle"
    <2>1. req' = [req EXCEPT ![r] = Idle]
      BY <1>5 DEF CodeIssued, ExchangeDenied, Exchanged, Abandon
    <2> QED
      BY <1>0, <2>1 DEF Idle
  <1> QED
    BY <1>1, <1>2, <1>3, <1>4, <1>5 DEF Step

\* Nothing that was generated, stored or recorded goes away, and a record that
\* is stored changes in its used_at only, from undefined.
LEMMA NothingLost ==
    ASSUME InductiveInv, [Next]_vars
    PROVE  /\ drawn \subseteq drawn' /\ trail \subseteq trail'
           /\ Stored \subseteq Stored'
           /\ \A c \in Stored : /\ records'[c].instance = records[c].instance
                                /\ records'[c].expires = records[c].expires
                                /\ records[c].used # NotUsed => records'[c] = records[c]
           /\ \A i \in Instances :
                  credentials[i] # None => credentials'[i] = credentials[i]
  <1> DEFINE Kept ==
        /\ Stored \subseteq Stored'
        /\ \A c \in Stored : /\ records'[c].instance = records[c].instance
                             /\ records'[c].expires = records[c].expires
                             /\ records[c].used # NotUsed => records'[c] = records[c]
        /\ \A i \in Instances :
               credentials[i] # None => credentials'[i] = credentials[i]
  <1>1. TypeOK /\ HandlerInv
    BY DEF InductiveInv
  <1>2. drawn \subseteq drawn' /\ trail \subseteq trail'
    BY DEF Next, vars, Tick, Step, IssueBegin, StoreCode, CodeIssued, ExchangeBegin,
       Exchange, ExchangeDenied, Exchanged, Abandon, Audit
  <1>3. ASSUME UNCHANGED stored
        PROVE  Kept
    <2>1. records' = records /\ credentials' = credentials
      BY <1>3 DEF stored
    <2>2. Stored' = Stored
      BY <2>1 DEF Stored
    <2> QED
      BY <2>1, <2>2
  <1>4. ASSUME NEW r \in Requests, StoreCode(r)
        PROVE  Kept
    <2>1. req[r].code \in drawn \ Stored
      BY <1>1, <1>4 DEF StoreCode, At, HandlerInv, LocalInv
    <2>2. \A c \in Stored : records'[c] = records[c]
      BY <1>1, <1>4, <2>1 DEF StoreCode, TypeOK, Stored
    <2> QED
      BY <1>4, <2>2 DEF StoreCode, Stored
  <1>5. ASSUME NEW r \in Requests, NEW k \in ClientIds, Exchange(r, k)
        PROVE  Kept
    <2> DEFINE c == req[r].code
    <2>1. /\ c \in Stored /\ records[c] \in Record /\ records[c].used = NotUsed
          /\ credentials[records[c].instance] = None
      BY <1>1, <1>5 DEF Exchange, Accepts, TypeOK, Stored
    <2>2. records'[c] = [records[c] EXCEPT !.used = req[r].time]
      BY <1>1, <1>5, <2>1 DEF Exchange, TypeOK, Stored
    <2>3. \A d \in Stored \ {c} : records'[d] = records[d]
      BY <1>1, <1>5 DEF Exchange, TypeOK, Stored
    <2>4. records'[c] \in Record
      <3>1. records' \in [Codes -> Record \cup {None}]
        BY TypeStep, <1>1 DEF TypeOK
      <3>2. req[r].time \in Nat
        BY <1>1 DEF TypeOK, RequestState
      <3> QED
        BY <2>1, <2>2, <3>2 DEF Record
    <2>5. records'[c] # None
      BY <2>4, NoneAssumption
    <2>6. Stored \subseteq Stored'
      BY <2>3, <2>5 DEF Stored
    <2>7. /\ records'[c].instance = records[c].instance
          /\ records'[c].expires = records[c].expires
      BY <2>1, <2>2 DEF Record
    <2>8. \A i \in Instances : credentials[i] # None => credentials'[i] = credentials[i]
      BY <1>1, <1>5, <2>1 DEF Exchange, TypeOK
    <2> QED
      BY <2>1, <2>3, <2>6, <2>7, <2>8
  <1>6. Kept
    BY <1>3, <1>4, <1>5 DEF Next, vars, Tick, Step, IssueBegin, CodeIssued,
       ExchangeBegin, ExchangeDenied, Exchanged, Abandon
  <1> QED
    BY <1>2, <1>6

\* Every step keeps CodeInv: a code is stored after it was generated, and
\* leaves the server after its record as issued.
LEMMA CodeStep == InductiveInv /\ [Next]_vars => CodeInv'
  <1> SUFFICES ASSUME InductiveInv, [Next]_vars PROVE CodeInv'
    OBVIOUS
  <1>1. TypeOK /\ HandlerInv /\ CodeInv
    BY DEF InductiveInv
  <1>2. Stored' \subseteq drawn'
    <2>1. ASSUME NEW r \in Requests, StoreCode(r)
          PROVE  Stored' \subseteq drawn'
      BY <1>1, <2>1 DEF StoreCode, At, HandlerInv, LocalInv, TypeOK, Stored, CodeInv
    <2>2. ASSUME NEW r \in Requests, NEW k \in ClientIds, Exchange(r, k)
          PROVE  Stored' \subseteq drawn'
      BY <1>1, <2>2 DEF Exchange, TypeOK, Stored, CodeInv
    <2>3. CASE UNCHANGED stored
      BY <1>1, <2>3, NothingLost DEF stored, Stored, CodeInv
    <2> QED
      BY <2>1, <2>2, <2>3 DEF Next, vars, Tick, Step, IssueBegin, CodeIssued,
         ExchangeBegin, ExchangeDenied, Exchanged, Abandon
  <1>3. \A c \in held' : <<"issued", c>> \in trail'
    <2>1. ASSUME NEW r \in Requests, CodeIssued(r)
          PROVE  \A c \in held' : <<"issued", c>> \in trail'
      BY <1>1, <2>1 DEF CodeIssued, Audit, CodeInv
    <2>2. CASE UNCHANGED held
      BY <1>1, <2>2, NothingLost DEF CodeInv
    <2> QED
      BY <2>1, <2>2 DEF Next, vars, Tick, Step, IssueBegin, StoreCode, ExchangeBegin,
         Exchange, ExchangeDenied, Exchanged, Abandon
  <1> QED
    BY <1>2, <1>3 DEF CodeInv

\* Every step keeps HandlerInv.  A code at "store" was drawn by its handler,
\* when no other handler had it.
LEMMA HandlerStep == InductiveInv /\ [Next]_vars => HandlerInv'
  <1> SUFFICES ASSUME InductiveInv, [Next]_vars PROVE HandlerInv'
    OBVIOUS
  <1>1. TypeOK /\ HandlerInv /\ CodeInv
    BY DEF InductiveInv
  <1>2. CASE UNCHANGED <<stored, drawn, trail, req>>
    <2>1. UNCHANGED <<Stored, drawn, trail, req>>
      BY <1>2 DEF stored, Stored
    <2> QED
      BY <1>1, <2>1 DEF HandlerInv, LocalInv
  <1>3. ASSUME NEW r \in Requests, Step(r)
        PROVE  HandlerInv'
    <2>1. \A s \in Requests \ {r} : req'[s] = req[s]
      BY <1>1, <1>3, OtherHandlers
    <2>2. req \in [Requests -> RequestState] /\ drawn \subseteq Codes /\ held \subseteq drawn
      BY <1>1 DEF TypeOK
    <2>3. drawn \subseteq drawn' /\ trail \subseteq trail'
      BY NothingLost
    <2>4. req'[r].pc = "store" =>
              /\ req'[r].code \in drawn' \ Stored'
              /\ req'[r].instance \in Instances
              /\ \A s \in Requests \ {r} : req[s].pc = "store" => req[s].code # req'[r].code
      <3> USE <2>2 DEF At, Goto, Finish, Idle, RequestState
      <3>1. ASSUME NEW c \in Codes, NEW i \in Instances, NEW ttl \in Ttls,
                   IssueBegin(r, c, i, ttl)
            PROVE  /\ req'[r].pc = "store" /\ req'[r].code = c /\ req'[r].instance = i
                   /\ drawn' = drawn \cup {c} /\ c \notin drawn /\ Stored' = Stored
        BY <3>1 DEF IssueBegin, stored, Stored
      <3>2. ASSUME NEW c \in Codes, NEW i \in Instances, NEW ttl \in Ttls,
                   IssueBegin(r, c, i, ttl)
            PROVE  /\ req'[r].code \in drawn' \ Stored'
                   /\ req'[r].instance \in Instances
                   /\ \A s \in Requests \ {r} :
                          req[s].pc = "store" => req[s].code # req'[r].code
        BY ZenonT(30), <1>1, <3>1, <3>2 DEF CodeInv, HandlerInv, LocalInv
      <3>3. CASE \A c \in Codes, i \in Instances, ttl \in Ttls : ~IssueBegin(r, c, i, ttl)
        BY <1>1, <1>3, <3>3, HandlerMoves
      <3> QED
        BY <3>2, <3>3
    <2>5. req'[r].pc = "issueAudit" => req'[r].code \in drawn'
      <3>1. StoreCode(r) => req[r].code \in drawn
        BY <1>1 DEF StoreCode, At, HandlerInv, LocalInv
      <3> QED
        BY <1>1, <1>3, <2>3, <3>1, HandlerMoves
    <2>6. req'[r].pc = "exchange" /\ req'[r].code # None =>
              <<"issued", req'[r].code>> \in trail'
      BY <1>1, <1>3, <2>3, HandlerMoves DEF CodeInv
    <2>7. req'[r].pc = "exchangeAudit" =>
              /\ req'[r].code \in Codes
              /\ req'[r].instance \in Instances
              /\ <<"issued", req'[r].code>> \in trail'
      <3> USE <2>2 DEF At, Goto, Finish, Idle, RequestState
      <3>1. ASSUME NEW k \in ClientIds, Exchange(r, k)
            PROVE  /\ req'[r].code \in Codes
                   /\ req'[r].instance \in Instances
                   /\ <<"issued", req'[r].code>> \in trail'
        <4>1. req[r].code \in Codes /\ records[req[r].code] \in Record
          BY <1>1, <3>1 DEF Exchange, Stored, TypeOK
        <4>2. req[r].code # None
          BY <4>1, NoneAssumption
        <4>3. <<"issued", req[r].code>> \in trail
          BY <1>1, <3>1, <4>2 DEF Exchange, HandlerInv, LocalInv
        <4>4. records[req[r].code].instance \in Instances
          BY <4>1 DEF Record
        <4>5. req'[r].code = req[r].code /\ req'[r].instance = records[req[r].code].instance
          BY <3>1 DEF Exchange
        <4> QED
          BY <2>3, <4>1, <4>3, <4>4, <4>5
      <3>2. CASE \A k \in ClientIds : ~Exchange(r, k)
        BY <1>1, <1>3, <3>2, HandlerMoves
      <3> QED
        BY <3>1, <3>2
    <2>8. ASSUME NEW s \in Requests \ {r}, req[s].pc = "store"
          PROVE  req[s].code \in drawn' \ Stored'
      <3>1. req[s].code \in drawn \ Stored
        BY <1>1, <2>8 DEF HandlerInv, LocalInv
      <3>2. CASE StoreCode(r)
        <4>1. req[s].code # req[r].code /\ req[r].code \in Codes
          BY <1>1, <2>2, <2>8, <3>2 DEF StoreCode, At, HandlerInv, LocalInv
        <4> QED
          BY <1>1, <2>3, <3>1, <3>2, <4>1 DEF StoreCode, Stored, TypeOK
      <3>3. ASSUME NEW k \in ClientIds, Exchange(r, k)
            PROVE  req[s].code \notin Stored'
        BY <1>1, <3>1, <3>3 DEF Exchange, Stored, TypeOK
      <3>4. CASE UNCHANGED stored
        BY <2>3, <3>1, <3>4 DEF stored, Stored
      <3> QED
        BY <1>3, <2>3, <3>1, <3>2, <3>3, <3>4 DEF Step, IssueBegin, CodeIssued,
           ExchangeBegin, ExchangeDenied, Exchanged, Abandon
    <2>9. ASSUME NEW s \in Requests \ {r}
          PROVE  LocalInv(s)'
      <3>1. req'[s] = req[s] /\ LocalInv(s)
        BY <1>1, <2>1 DEF HandlerInv
      <3>2. req[s].pc = "store" =>
                \A q \in Requests \ {s} : req'[q].pc = "store" => req'[q].code # req'[s].code
        BY <2>1, <2>4, <3>1 DEF LocalInv
      <3> QED
        BY <2>3, <2>8, <3>1, <3>2 DEF LocalInv
    <2>10. LocalInv(r)'
      BY <2>1, <2>4, <2>5, <2>6, <2>7 DEF LocalInv
    <2> QED
      BY <2>9, <2>10 DEF HandlerInv
  <1> QED
    BY <1>2, <1>3 DEF Next, vars, Tick

\* An exchange of code c, for instance i, that was granted client id k.
Enrols(c, i, k) ==
    /\ i = records[c].instance
    /\ records[c].used = NotUsed /\ credentials[i] = None /\ owner[k] = None
    /\ records'[c].used \in 0..records[c].expires
    /\ credentials' = [credentials EXCEPT ![i] = k]
    /\ owner' = [owner EXCEPT ![k] = i]
    /\ grants' = grants \cup {<<c, i, k>>}
    /\ <<"issued", c>> \in trail

\* What Exchange does, in terms of the code, the instance and the client id.
LEMMA ExchangeEffect ==
    ASSUME InductiveInv, NEW r \in Requests, NEW k \in ClientIds, Exchange(r, k)
    PROVE  \E c \in Stored, i \in Instances : Enrols(c, i, k)
  <1> DEFINE c == req[r].code
             i == records[c].instance
  <1>1. TypeOK /\ HandlerInv
    BY DEF InductiveInv
  <1>2. /\ c \in Stored /\ records[c] \in Record /\ req[r].time \in Nat
        /\ c # None
    BY <1>1, NoneAssumption DEF Exchange, Stored, TypeOK, RequestState
  <1>3. i \in Instances /\ records[c].expires \in Nat
    BY <1>2 DEF Record
  <1>4. records[c].used = NotUsed /\ req[r].time <= records[c].expires /\ credentials[i] = None
    BY DEF Exchange, Accepts
  <1>5. records'[c] = [records[c] EXCEPT !.used = req[r].time]
    BY <1>1, <1>2 DEF Exchange, TypeOK, Stored
  <1>6. records'[c].used = req[r].time
    BY <1>2, <1>5 DEF Record
  <1>7. <<"issued", c>> \in trail
    BY <1>1, <1>2 DEF Exchange, At, HandlerInv, LocalInv
  <1>8. /\ owner[k] = None
        /\ credentials' = [credentials EXCEPT ![i] = k]
        /\ owner' = [owner EXCEPT ![k] = i]
        /\ grants' = grants \cup {<<c, i, k>>}
    BY DEF Exchange, FreeClientId
  <1>9. records'[c].used \in 0..records[c].expires
    BY <1>2, <1>3, <1>4, <1>6
  <1>10. Enrols(c, i, k)
    BY <1>4, <1>7, <1>8, <1>9 DEF Enrols
  <1> QED
    BY <1>2, <1>3, <1>10

\* Every step keeps GrantInv, OneGrant and GrantedInTime.
LEMMA GrantStep ==
    InductiveInv /\ [Next]_vars => GrantInv' /\ OneGrant' /\ GrantedInTime'
  <1> SUFFICES ASSUME InductiveInv, [Next]_vars
               PROVE  GrantInv' /\ OneGrant' /\ GrantedInTime'
    OBVIOUS
  <1>1. TypeOK /\ GrantInv /\ OneGrant /\ GrantedInTime
    BY DEF InductiveInv
  <1>2. \A g \in grants :
            /\ g[1] \in Stored /\ g[2] \in Instances /\ g[3] \in ClientIds
            /\ records[g[1]].used # NotUsed /\ credentials[g[2]] # None
    BY <1>1, NoneAssumption DEF GrantInv, TypeOK
  <1>3. \A g \in grants :
            /\ g[1] \in Stored'
            /\ records'[g[1]] = records[g[1]]
            /\ credentials'[g[2]] = credentials[g[2]]
    BY <1>2, NothingLost
  <1>4. CASE grants' = grants
    BY <1>1, <1>3, <1>4 DEF GrantInv, OneGrant, GrantedInTime
  <1>5. ASSUME NEW r \in Requests, NEW k \in ClientIds, Exchange(r, k)
        PROVE  GrantInv' /\ OneGrant' /\ GrantedInTime'
    <2>0. PICK c \in Stored, i \in Instances : Enrols(c, i, k)
      BY <1>5, ExchangeEffect
    <2>1. /\ records[c].used = NotUsed /\ credentials[i] = None
          /\ records'[c].used \in 0..records[c].expires
          /\ credentials' = [credentials EXCEPT ![i] = k]
          /\ grants' = grants \cup {<<c, i, k>>}
      BY <2>0 DEF Enrols
    <2>2. /\ c \in Stored' /\ records'[c].expires = records[c].expires
          /\ credentials'[i] = k
      BY <1>1, <2>1, NothingLost DEF TypeOK
    <2>3. records[c].expires \in Nat /\ records'[c].used # NotUsed
      <3>1. records[c] \in Record
        BY <1>1 DEF TypeOK, Stored
      <3>2. records[c].expires \in Nat
        BY <3>1 DEF Record
      <3> QED
        BY <2>1, <3>2 DEF NotUsed
    <2>4. GrantInv'
      BY <1>1, <1>3, <2>1, <2>2, <2>3 DEF GrantInv
    <2>5. \A g \in grants : g[1] # c /\ g[2] # i
      BY <1>2, <2>1
    <2>6. OneGrant'
      BY <1>1, <2>1, <2>5 DEF OneGrant
    <2>7. GrantedInTime'
      BY <1>1, <1>3, <2>1, <2>2 DEF GrantedInTime
    <2> QED
      BY <2>4, <2>6, <2>7
  <1> QED
    BY <1>4, <1>5 DEF Next, vars, Tick, Step, IssueBegin, StoreCode, CodeIssued,
       ExchangeBegin, ExchangeDenied, Exchanged, Abandon

\* Every step keeps IndexMatchesCredentials.
LEMMA IndexStep == InductiveInv /\ [Next]_vars => IndexMatchesCredentials'
  <1> SUFFICES ASSUME InductiveInv, [Next]_vars PROVE IndexMatchesCredentials'
    OBVIOUS
  <1>1. TypeOK /\ IndexMatchesCredentials
    BY DEF InductiveInv
  <1>2. CASE UNCHANGED <<credentials, owner>>
    BY <1>1, <1>2 DEF IndexMatchesCredentials
  <1>3. ASSUME NEW r \in Requests, NEW k \in ClientIds, Exchange(r, k)
        PROVE  IndexMatchesCredentials'
    <2>0. PICK c \in Stored, i \in Instances : Enrols(c, i, k)
      BY <1>3, ExchangeEffect
    <2>1. /\ credentials[i] = None /\ owner[k] = None
          /\ credentials' = [credentials EXCEPT ![i] = k]
          /\ owner' = [owner EXCEPT ![k] = i]
      BY <2>0 DEF Enrols
    <2>2. \A h \in ClientIds, j \in Instances : owner'[h] = j <=> credentials'[j] = h
      <3> SUFFICES ASSUME NEW h \in ClientIds, NEW j \in Instances
                   PROVE  owner'[h] = j <=> credentials'[j] = h
        OBVIOUS
      <3>1. owner[h] = j <=> credentials[j] = h
        BY <1>1 DEF IndexMatchesCredentials
      <3>2. h # None /\ j # None
        BY NoneAssumption
      <3>3. /\ owner'[h] = IF h = k THEN i ELSE owner[h]
            /\ credentials'[j] = IF j = i THEN k ELSE credentials[j]
        BY <1>1, <2>1 DEF TypeOK
      <3> QED
        BY <2>1, <3>1, <3>2, <3>3
    <2> QED
      BY <2>2 DEF IndexMatchesCredentials
  <1> QED
    BY <1>2, <1>3 DEF Next, vars, stored, Tick, Step, IssueBegin, StoreCode, CodeIssued,
       ExchangeBegin, ExchangeDenied, Exchanged, Abandon

\* Every step keeps EvidenceInOrder.
LEMMA EvidenceStep == InductiveInv /\ [Next]_vars => EvidenceInOrder'
  <1> SUFFICES ASSUME InductiveInv, [Next]_vars PROVE EvidenceInOrder'
    OBVIOUS
  <1>1. TypeOK /\ HandlerInv /\ EvidenceInOrder
    BY DEF InductiveInv
  <1>2. \A c \in Codes : <<"exchanged", c>> \in trail' => <<"issued", c>> \in trail'
    <2>1. ASSUME NEW r \in Requests, Exchanged(r)
          PROVE  <<"issued", req[r].code>> \in trail /\ trail' = trail \cup {<<"exchanged", req[r].code>>}
      BY <1>1, <2>1 DEF Exchanged, At, Audit, HandlerInv, LocalInv
    <2>2. ASSUME NEW r \in Requests, Exchanged(r)
          PROVE  \A c \in Codes : <<"exchanged", c>> \in trail' => <<"issued", c>> \in trail'
      <3>1. /\ <<"issued", req[r].code>> \in trail
            /\ trail' = trail \cup {<<"exchanged", req[r].code>>}
        BY <2>1, <2>2
      <3>2. SUFFICES ASSUME NEW c \in Codes, <<"exchanged", c>> \in trail'
                     PROVE  <<"issued", c>> \in trail
        BY <3>1
      <3>3. <<"exchanged", c>> \in trail \/ c = req[r].code
        BY <3>1, <3>2
      <3> QED
        BY <1>1, <3>1, <3>3 DEF EvidenceInOrder
    <2>3. CASE \A c \in Codes : <<"exchanged", c>> \in trail' => <<"exchanged", c>> \in trail
      BY <1>1, <2>3, NothingLost DEF EvidenceInOrder
    <2> QED
      BY <2>2, <2>3 DEF Next, vars, Tick, Step, IssueBegin, StoreCode, CodeIssued,
         ExchangeBegin, Exchange, ExchangeDenied, Abandon, Audit
  <1>3. ASSUME NEW i \in Instances, credentials'[i] # None
        PROVE  \E c \in Stored' : records'[c].instance = i /\ <<"issued", c>> \in trail'
    <2>1. CASE credentials[i] # None
      <3>1. PICK c \in Stored : records[c].instance = i /\ <<"issued", c>> \in trail
        BY <1>1, <2>1 DEF EvidenceInOrder
      <3> QED
        BY <3>1, NothingLost
    <2>2. CASE credentials[i] = None
      <3>1. PICK r \in Requests, k \in ClientIds : Exchange(r, k)
        BY <1>3, <2>2 DEF Next, vars, stored, Tick, Step, IssueBegin, StoreCode,
           CodeIssued, ExchangeBegin, ExchangeDenied, Exchanged, Abandon
      <3>2. PICK c \in Stored, j \in Instances : Enrols(c, j, k)
        BY <3>1, ExchangeEffect
      <3>3. /\ j = records[c].instance
            /\ credentials' = [credentials EXCEPT ![j] = k]
            /\ <<"issued", c>> \in trail
        BY <3>2 DEF Enrols
      <3>4. j = i
        BY <1>1, <1>3, <2>2, <3>3 DEF TypeOK
      <3> QED
        BY <3>3, <3>4, NothingLost
    <2> QED
      BY <2>1, <2>2
  <1> QED
    BY <1>2, <1>3 DEF EvidenceInOrder

\* The invariant is inductive, and holds in every reachable state.
LEMMA Inductive == Spec => []InductiveInv
  <1>1. InductiveInv /\ [Next]_vars => InductiveInv'
    BY TypeStep, CodeStep, HandlerStep, GrantStep, IndexStep, EvidenceStep
       DEF InductiveInv
  <1> QED
    BY InitInductive, <1>1, PTL DEF Spec

-----------------------------------------------------------------------------
\* Records, index, trail and handlers have their types.
THEOREM TypeCorrect == Spec => []TypeOK
  BY Inductive, PTL DEF InductiveInv

\* One code enrols once and one instance is enrolled once, for any number of
\* overlapping exchanges.
THEOREM EnrolledOnce == Spec => []OneGrant
  BY Inductive, PTL DEF InductiveInv

\* The index used by mintToken leads to the instance that holds the client id.
THEOREM IndexCorrect == Spec => []IndexMatchesCredentials
  BY Inductive, PTL DEF InductiveInv

\* No expired code enrols an instance, by the clock its handler read.
THEOREM ExpiryHolds == Spec => []GrantedInTime
  BY Inductive, PTL DEF InductiveInv

\* No credentials without a code recorded as issued before.
THEOREM EvidenceOrdered == Spec => []EvidenceInOrder
  BY Inductive, PTL DEF InductiveInv

\* An instance whose credentials were lost with a reply stays without them:
\* Accepts refuses every code of it.
LEMMA StrandedStep ==
    ASSUME InductiveInv, [Next]_vars, NEW i \in Instances, StrandedForGood(i)
    PROVE  StrandedForGood(i)'
  <1>1. TypeOK /\ HandlerInv
    BY DEF InductiveInv
  <1>2. /\ credentials[i] # None /\ i \notin enrolled
        /\ \A s \in Requests : req[s].pc = "exchangeAudit" => req[s].instance # i
    BY DEF StrandedForGood, At
  <1>3. credentials'[i] # None
    BY <1>2, NothingLost
  <1>4. i \notin enrolled'
    <2>1. ASSUME NEW r \in Requests, Exchanged(r)
          PROVE  i \notin enrolled'
      BY <1>2, <2>1 DEF Exchanged, At
    <2> QED
      BY <1>2, <2>1 DEF Next, vars, Tick, Step, IssueBegin, StoreCode, CodeIssued,
         ExchangeBegin, Exchange, ExchangeDenied, Abandon
  <1>5. \A s \in Requests : req'[s].pc = "exchangeAudit" => req'[s].instance # i
    <2>1. CASE UNCHANGED req
      BY <1>2, <2>1
    <2>2. ASSUME NEW r \in Requests, Step(r)
          PROVE  \A s \in Requests : req'[s].pc = "exchangeAudit" => req'[s].instance # i
      <3>1. \A s \in Requests \ {r} : req'[s] = req[s]
        BY <1>1, <2>2, OtherHandlers
      <3>2. ASSUME NEW k \in ClientIds, Exchange(r, k)
            PROVE  req'[r].instance # i
        <4>1. req[r] \in RequestState /\ req \in [Requests -> RequestState]
          BY <1>1 DEF TypeOK
        <4>2. req'[r].instance = records[req[r].code].instance
          BY <3>2, <4>1 DEF Exchange, RequestState
        <4>3. credentials[records[req[r].code].instance] = None
          BY <3>2 DEF Exchange, Accepts
        <4> QED
          BY <1>2, <4>2, <4>3
      <3>3. req'[r].pc = "exchangeAudit" => req'[r].instance # i
        BY <1>1, <2>2, <3>2, HandlerMoves
      <3> QED
        BY <1>2, <3>1, <3>3
    <2> QED
      BY <2>1, <2>2 DEF Next, vars, Tick
  <1> QED
    BY <1>3, <1>4, <1>5 DEF StrandedForGood, At

\* The exchange of a lost reply cannot be repeated: no later code of the
\* instance is accepted and nothing else hands its credentials out.
THEOREM StrandedIsForGood == Spec => LostCredentialsStayLost
  <1>1. InductiveInv /\ [Next]_vars =>
          [\A i \in Instances : StrandedForGood(i) => StrandedForGood(i)']_vars
    BY StrandedStep
  <1> QED
    BY Inductive, <1>1, PTL DEF Spec, LostCredentialsStayLost
=============================================================================
