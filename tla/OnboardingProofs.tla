-------------------------- MODULE OnboardingProofs --------------------------
(***************************************************************************)
(* What Onboarding keeps true for every number of requests, instances and  *)
(* keys, and whatever keys and instances the metadata of requests carries. *)
(*                                                                         *)
(* RepeatsOverlap speaks of what was read before an event was recorded, so *)
(* it needs to be known while the record is still to come: ReportInv says  *)
(* that a report found nothing like it in the part of the trail it read,   *)
(* and TrailInv that the trail tells of each report what it was.           *)
(* What a duplicate reply names follows from both: the first event that is *)
(* like the report stays the first.                                        *)
(***************************************************************************)
EXTENDS Onboarding, TLAPS

Event == [type: {"launch", "interest"}, instance: Instances \cup {NoInstance},
          key: Keys \cup {NoKey}, by: Requests]

\* An event tells the input of the request that recorded it and has ended.
Tells(e) ==
    /\ e.type = input[e.by].type
    /\ e.instance = StoredInstance(input[e.by])
    /\ e.key = StoredKey(input[e.by])
    /\ pc[e.by] \in {"done", "failed"}

TrailInv ==
    /\ events \in Seq(Event)
    /\ \A i \in DOMAIN events : Tells(events[i])

\* A report is about to be recorded that was not in the trail it read, and one
\* that was answered as a duplicate names the first event like it.
ReportInv ==
    \A r \in Requests :
        /\ pc[r] = "record" =>
               /\ input[r].type = "launch"
               /\ \A i \in 1..looked[r] : ~Matches(events[i], input[r])
        /\ result[r].status = "duplicate" =>
               /\ input[r].type = "launch"
               /\ FirstMatch(r, result[r].reference)

\* Retries get one answer, even of a launch that overlapping reports recorded
\* more than once.
DuplicatesAgree ==
    \A r, s \in Duplicates :
        input[r].instance = input[s].instance /\ input[r].key = input[s].key
            => result[r].reference = result[s].reference

InductiveInv ==
    /\ TypeOK
    /\ TrailInv
    /\ ReportInv
    /\ RepeatsOverlap
-----------------------------------------------------------------------------
\* The initial state satisfies the invariant.
LEMMA InitInductive == Init => InductiveInv
  <1> SUFFICES ASSUME Init PROVE InductiveInv
    OBVIOUS
  <1> USE DEF Init, NoResult
  <1>1. TypeOK
    BY DEF TypeOK
  <1>2. TrailInv /\ ReportInv
    BY DEF TrailInv, ReportInv
  <1>3. RepeatsOverlap
    BY DEF RepeatsOverlap
  <1> QED
    BY <1>1, <1>2, <1>3 DEF InductiveInv

\* The event of a request that records.
EventOf(r) == [type |-> input[r].type, instance |-> StoredInstance(input[r]),
               key |-> StoredKey(input[r]), by |-> r]

\* Recording appends one event and leaves the others at their places.
LEMMA RecordAppends ==
    ASSUME InductiveInv, NEW r \in Requests, Recorded(r)
    PROVE  /\ EventOf(r) \in Event
           /\ events \in Seq(Event) /\ Len(events) \in Nat /\ DOMAIN events = 1..Len(events)
           /\ events' \in Seq(Event) /\ Len(events') = Len(events) + 1
           /\ DOMAIN events' = 1..(Len(events) + 1)
           /\ \A i \in 1..Len(events) : events'[i] = events[i]
           /\ events'[Len(events) + 1] = EventOf(r)
  <1>1. input[r] \in Launch \cup Interest
    BY DEF InductiveInv, TypeOK
  <1>2. StoredKey(input[r]) \in Keys \cup {NoKey}
    BY <1>1, MetadataAssumption DEF StoredKey, Launch, Interest
  <1>3. StoredInstance(input[r]) \in Instances \cup {NoInstance}
    BY <1>1, MetadataAssumption DEF StoredInstance, Launch, Interest
  <1>4. EventOf(r) \in Event
    BY <1>1, <1>2, <1>3 DEF EventOf, Event, Launch, Interest
  <1>5. events \in Seq(Event) /\ events' = Append(events, EventOf(r))
    BY DEF InductiveInv, TrailInv, Recorded, EventOf
  <1> QED
    BY <1>4, <1>5

\* The trail keeps what it holds; what is appended ends its request.
Trail(r) ==
    \/ /\ events' = events
       /\ pc[r] \in {"done", "failed"} => pc'[r] = pc[r]
    \/ /\ Recorded(r)
       /\ pc'[r] \in {"done", "failed"}
       /\ pc[r] = "record" \/ input[r].type = "interest"
       /\ looked' = looked

\* A step of r moves r alone, and reads or records.
LEMMA Moves ==
    ASSUME InductiveInv, NEW r \in Requests,
           \/ ReadFindsDuplicate(r) \/ ReadFindsNone(r) \/ Record(r)
           \/ RegisterInterest(r) \/ Fail(r)
    PROVE  /\ TypeOK' /\ input' = input /\ Trail(r)
           /\ pc[r] \in {"idle", "record"}
           /\ \A o \in Requests \ {r} :
                  pc'[o] = pc[o] /\ result'[o] = result[o] /\ looked'[o] = looked[o]
  <1>0. TypeOK /\ events \in Seq(Event) /\ Len(events) \in Nat /\ DOMAIN events = 1..Len(events)
    BY DEF InductiveInv, TrailInv
  <1> DEFINE Grown == [status: {"none", "recorded", "duplicate", "received"},
                       reference: 0..(Len(events) + 1)]
  <1>1. CASE ReadFindsDuplicate(r)
    BY <1>0, <1>1 DEF TypeOK, Trail, ReadFindsDuplicate, FirstMatch
  <1>2. CASE ReadFindsNone(r)
    BY <1>0, <1>2 DEF TypeOK, Trail, ReadFindsNone
  <1>3. CASE Recorded(r)
    <2>1. /\ \A i \in DOMAIN events' : events'[i] \in Event
          /\ Len(events') = Len(events) + 1
      BY <1>3, RecordAppends
    <2>2. result \in [Requests -> Grown] /\ looked \in [Requests -> 0..(Len(events) + 1)]
      <3>1. \A n \in 0..Len(events) : n \in 0..(Len(events) + 1)
        BY <1>0
      <3>2. \A o \in Requests : result[o] \in Grown /\ looked[o] \in 0..(Len(events) + 1)
        BY <1>0, <3>1 DEF TypeOK
      <3> QED
        BY <1>0, <3>2 DEF TypeOK
    <2>3. CASE Record(r) \/ RegisterInterest(r)
      <3>1. \A s \in {"recorded", "received"} :
                [status |-> s, reference |-> Len(events) + 1] \in Grown
        BY <1>0
      <3>2. result' \in [Requests -> Grown] /\ looked' = looked /\ input' = input
        BY <2>2, <2>3, <3>1 DEF Record, RegisterInterest
      <3>3. TypeOK'
        BY <1>0, <2>1, <2>2, <2>3, <3>2 DEF TypeOK, Record, RegisterInterest, Event
      <3> QED
        BY <1>0, <2>3, <3>3 DEF TypeOK, Trail, Record, RegisterInterest
    <2>4. CASE Fail(r)
      <3>1. pc[r] = "record" \/ input[r].type = "interest"
        <4>1. events' # events
          BY <1>0, <2>1
        <4> QED
          BY <2>4, <4>1 DEF Fail
      <3>2. TypeOK'
        BY <1>0, <2>1, <2>2, <2>4 DEF TypeOK, Fail, Event
      <3> QED
        BY <1>0, <1>3, <2>4, <3>1, <3>2 DEF TypeOK, Trail, Fail
    <2>5. ~ReadFindsDuplicate(r) /\ ~ReadFindsNone(r)
      BY <1>0, <2>1 DEF ReadFindsDuplicate, ReadFindsNone
    <2> QED
      BY <2>3, <2>4, <2>5
  <1>4. CASE Fail(r) /\ UNCHANGED events
    BY <1>0, <1>4 DEF TypeOK, Trail, Fail
  <1> QED
    BY <1>1, <1>2, <1>3, <1>4 DEF Record, RegisterInterest, Fail
-----------------------------------------------------------------------------
\* What a step of r does, as far as the invariant is concerned.
Step(r) ==
    \/ ReadFindsDuplicate(r) \/ ReadFindsNone(r) \/ Record(r)
    \/ RegisterInterest(r) \/ Fail(r)

\* Events stay where they are: the trail is append-only.
LEMMA Appends ==
    ASSUME InductiveInv, NEW r \in Requests, Step(r)
    PROVE  /\ events \in Seq(Event) /\ events' \in Seq(Event)
           /\ Len(events) \in Nat /\ DOMAIN events = 1..Len(events)
           /\ \/ events' = events
              \/ /\ DOMAIN events' = 1..(Len(events) + 1)
                 /\ events'[Len(events) + 1] = EventOf(r)
                 /\ Recorded(r)
           /\ \A i \in 1..Len(events) : i \in DOMAIN events' /\ events'[i] = events[i]
  <1>1. Trail(r)
    BY Moves DEF Step
  <1>2. events \in Seq(Event) /\ Len(events) \in Nat /\ DOMAIN events = 1..Len(events)
    BY DEF InductiveInv, TrailInv
  <1>3. CASE events' = events
    BY <1>2, <1>3
  <1>4. CASE Recorded(r)
    BY <1>4, RecordAppends
  <1> QED
    BY <1>1, <1>3, <1>4 DEF Trail

\* Every event tells the input of its request, which moves no more.
LEMMA TrailStep ==
    ASSUME InductiveInv, NEW r \in Requests, Step(r)
    PROVE  TrailInv'
  <1>1. /\ input' = input /\ Trail(r) /\ pc[r] \in {"idle", "record"}
        /\ \A o \in Requests \ {r} : pc'[o] = pc[o]
    BY Moves DEF Step
  <1>2. \A i \in DOMAIN events : Tells(events[i]) /\ events[i].by \in Requests
    <2> SUFFICES ASSUME NEW i \in DOMAIN events
                 PROVE  Tells(events[i]) /\ events[i].by \in Requests
      OBVIOUS
    <2>1. events[i] \in Event
      BY DEF InductiveInv, TrailInv
    <2> QED
      BY <2>1 DEF InductiveInv, TrailInv, Event
  <1>3. \A i \in DOMAIN events : Tells(events[i])'
    <2> SUFFICES ASSUME NEW i \in DOMAIN events PROVE Tells(events[i])'
      OBVIOUS
    <2>1. events[i].by # r
      BY <1>1, <1>2 DEF Tells
    <2>2. events'[i] = events[i]
      BY Appends
    <2> QED
      BY <1>1, <1>2, <2>1, <2>2 DEF Tells, StoredKey, StoredInstance
  <1>4. CASE events' = events
    BY <1>3, <1>4, Appends DEF TrailInv
  <1>5. CASE Recorded(r) /\ pc'[r] \in {"done", "failed"}
    <2>1. ASSUME NEW i \in DOMAIN events'
          PROVE  Tells(events[i])'
      <3>1. CASE i \in DOMAIN events
        BY <1>3, <3>1
      <3>2. CASE i = Len(events) + 1
        <4>1. events'[i] = EventOf(r)
          BY <1>5, <3>2, RecordAppends
        <4> QED
          BY <1>1, <1>5, <4>1 DEF Tells, StoredKey, StoredInstance, EventOf
      <3> QED
        BY <1>5, <3>1, <3>2, RecordAppends
    <2>2. events' \in Seq(Event)
      BY <1>5, RecordAppends
    <2> QED
      BY <2>1, <2>2 DEF TrailInv
  <1> QED
    BY <1>1, <1>4, <1>5 DEF Trail

\* A report is recorded by the request that found nothing like it, and what was
\* the first event like a report stays the first.
LEMMA ReportStep ==
    ASSUME InductiveInv, NEW r \in Requests, Step(r)
    PROVE  ReportInv'
  <1>0. TypeOK /\ ReportInv
    BY DEF InductiveInv
  <1>1. /\ input' = input
        /\ \A o \in Requests \ {r} :
               pc'[o] = pc[o] /\ result'[o] = result[o] /\ looked'[o] = looked[o]
    BY Moves DEF Step
  <1>2. Len(events) \in Nat /\ \A o \in Requests : looked[o] \in 0..Len(events)
    BY <1>0, Appends DEF TypeOK
  <1>3. ASSUME NEW o \in Requests, pc'[o] = "record"
        PROVE  input'[o].type = "launch" /\ \A i \in 1..looked'[o] : ~Matches(events'[i], input'[o])
    <2>1. CASE o # r
      <3>1. \A i \in 1..looked[o] : i \in 1..Len(events) /\ events'[i] = events[i]
        BY <1>2, Appends
      <3> QED
        BY <1>0, <1>1, <1>3, <2>1, <3>1 DEF ReportInv
    <2>2. CASE o = r /\ ReadFindsNone(r)
      BY <1>0, <1>1, <1>3, <2>2, Appends DEF ReadFindsNone, TypeOK
    <2>3. CASE o = r /\ ~ReadFindsNone(r)
      BY <1>0, <1>3, <2>3 DEF Step, ReadFindsDuplicate, Record, RegisterInterest, Fail, TypeOK
    <2> QED
      BY <2>1, <2>2, <2>3
  <1>4. ASSUME NEW o \in Requests, result'[o].status = "duplicate"
        PROVE  input'[o].type = "launch" /\ FirstMatch(o, result[o].reference)'
    <2> DEFINE n == result'[o].reference
    <2>1. input[o].type = "launch" /\ FirstMatch(o, n)
      <3>1. CASE result'[o] = result[o]
        BY <1>0, <1>4, <3>1 DEF ReportInv
      <3>2. CASE o = r /\ ReadFindsDuplicate(r)
        BY <1>0, <3>2 DEF ReadFindsDuplicate, TypeOK
      <3>3. CASE o = r /\ (Record(r) \/ RegisterInterest(r))
        BY <1>0, <1>4, <3>3 DEF Record, RegisterInterest, TypeOK
      <3> QED
        BY <1>1, <3>1, <3>2, <3>3 DEF Step, ReadFindsNone, Fail
    <2>2. n \in 1..Len(events)
      BY <2>1, Appends DEF FirstMatch
    <2>3. \A i \in 1..n : i \in DOMAIN events' /\ events'[i] = events[i]
      BY <1>2, <2>2, Appends
    <2> QED
      BY <1>1, <1>2, <2>1, <2>2, <2>3 DEF FirstMatch, Matches
  <1> QED
    BY <1>3, <1>4 DEF ReportInv, Matches

\* The event of a plain report is like the reports that repeat it, and only them.
LEMMA PlainTells ==
    ASSUME InductiveInv, NEW i \in DOMAIN events, Plain(Recorder(i)),
           NEW l, l.type = "launch"
    PROVE  Matches(events[i], l) <=> Repeats(l, Recorder(i))
  <1>1. Tells(events[i])
    BY DEF InductiveInv, TrailInv
  <1> QED
    BY <1>1 DEF Recorder, Tells, Plain, Matches, Repeats, StoredKey, StoredInstance

\* So a duplicate reply, which names the first event like the report, names the
\* first of a plain report that it repeats.
LEMMA FirstNamed ==
    ASSUME InductiveInv
    PROVE  DuplicatesNameFirst
  <1> SUFFICES ASSUME NEW r \in Duplicates
               PROVE  LET n == result[r].reference IN
                      /\ Plain(Recorder(n)) => Repeats(input[r], Recorder(n))
                      /\ \A i \in 1..(n - 1) :
                             Plain(Recorder(i)) => ~Repeats(input[r], Recorder(i))
    BY DEF DuplicatesNameFirst
  <1> DEFINE n == result[r].reference
  <1>1. /\ events \in Seq(Event) /\ Len(events) \in Nat /\ DOMAIN events = 1..Len(events)
    BY DEF InductiveInv, TrailInv
  <1>2. /\ input[r].type = "launch"
        /\ n \in DOMAIN events /\ Matches(events[n], input[r])
        /\ \A i \in 1..(n - 1) : i \in DOMAIN events /\ ~Matches(events[i], input[r])
    BY <1>1 DEF Duplicates, InductiveInv, ReportInv, FirstMatch
  <1> QED
    BY <1>2, PlainTells

\* Equal reports have one answer.
LEMMA Agreement ==
    ASSUME InductiveInv
    PROVE  DuplicatesAgree
  <1> SUFFICES ASSUME NEW r \in Duplicates, NEW s \in Duplicates,
                      input[r].instance = input[s].instance, input[r].key = input[s].key
               PROVE  result[r].reference = result[s].reference
    BY DEF DuplicatesAgree
  <1> DEFINE m == result[r].reference
             n == result[s].reference
  <1>1. events \in Seq(Event) /\ Len(events) \in Nat /\ DOMAIN events = 1..Len(events)
    BY DEF InductiveInv, TrailInv
  <1>2. \A e : Matches(e, input[r]) <=> Matches(e, input[s])
    BY DEF Matches
  <1>3. /\ m \in 1..Len(events) /\ n \in 1..Len(events)
        /\ Matches(events[m], input[r]) /\ Matches(events[n], input[s])
        /\ \A i \in 1..(m - 1) : ~Matches(events[i], input[r])
        /\ \A i \in 1..(n - 1) : ~Matches(events[i], input[s])
    BY <1>1 DEF Duplicates, InductiveInv, ReportInv, FirstMatch
  <1>4. ~(m < n) /\ ~(n < m)
    BY <1>1, <1>2, <1>3
  <1> QED
    BY <1>1, <1>3, <1>4

\* A launch that a report has read would have been its duplicate.
LEMMA OverlapStep ==
    ASSUME InductiveInv, NEW r \in Requests, Step(r)
    PROVE  RepeatsOverlap'
  <1>0. /\ \A i \in DOMAIN events : Tells(events[i]) /\ events[i] \in Event
        /\ ReportInv /\ RepeatsOverlap /\ TypeOK
    BY DEF InductiveInv, TrailInv
  <1>1. /\ input' = input /\ Trail(r) /\ pc[r] \in {"idle", "record"}
        /\ \A o \in Requests \ {r} : looked'[o] = looked[o]
    BY Moves DEF Step
  <1> SUFFICES ASSUME NEW i \in DOMAIN events', NEW j \in DOMAIN events', i < j,
                      Repeats(input[events'[j].by], input[events'[i].by]),
                      Plain(input[events'[i].by])
               PROVE  looked'[events'[j].by] < i
    BY <1>1 DEF RepeatsOverlap, Recorder, Repeats, Plain
  <1>2. CASE j \in 1..Len(events)
    <2>1. i \in 1..Len(events) /\ events'[i] = events[i] /\ events'[j] = events[j]
      BY <1>2, Appends
    <2>2. events[j].by \in Requests \ {r}
      BY <1>0, <1>1, <1>2, Appends DEF Tells, Event
    <2>3. looked[events[j].by] < i
      BY <1>0, <1>2, <2>1, Appends DEF RepeatsOverlap, Recorder
    <2> QED
      BY <1>1, <2>1, <2>2, <2>3
  <1>3. CASE j \notin 1..Len(events)
    <2>1. /\ events' # events /\ j = Len(events) + 1 /\ i \in 1..Len(events)
          /\ events'[j].by = r /\ events'[i] = events[i]
      <3>1. events' # events
        BY <1>3, Appends
      <3>2. DOMAIN events' = 1..(Len(events) + 1) /\ events'[Len(events) + 1] = EventOf(r)
        BY <3>1, Appends
      <3>3. j = Len(events) + 1 /\ i \in 1..Len(events)
        BY <1>3, <3>2, Appends
      <3> QED
        BY <3>1, <3>2, <3>3, Appends DEF EventOf
    <2>2. pc[r] = "record" /\ looked' = looked
      BY <1>1, <2>1 DEF Trail, Repeats
    <2>3. Matches(events[i], input[r])
      BY <1>0, <2>1, Appends
         DEF Tells, StoredKey, StoredInstance, Matches, Repeats, Plain
    <2>4. i \notin 1..looked[r]
      BY <1>0, <2>2, <2>3 DEF ReportInv
    <2>5. looked[r] \in Nat /\ i \in Nat /\ i >= 1
      BY <1>0, <2>1, Appends DEF TypeOK
    <2> QED
      BY <2>1, <2>2, <2>4, <2>5
  <1> QED
    BY <1>2, <1>3

-----------------------------------------------------------------------------
\* The invariant is inductive.
THEOREM Invariance == Spec => []InductiveInv
  <1>1. Init => InductiveInv
    BY InitInductive
  <1>2. InductiveInv /\ [Next]_vars => InductiveInv'
    <2> SUFFICES ASSUME InductiveInv, [Next]_vars PROVE InductiveInv'
      OBVIOUS
    <2>1. CASE Next
      <3>1. PICK r \in Requests : Step(r)
        BY <2>1 DEF Next, Step
      <3>2. TypeOK'
        BY <3>1, Moves DEF Step
      <3> QED
        BY <3>1, <3>2, TrailStep, ReportStep, OverlapStep DEF InductiveInv
    <2>2. CASE UNCHANGED vars
      <3>1. TypeOK' /\ TrailInv' /\ ReportInv'
        BY <2>2 DEF vars, InductiveInv, TypeOK, TrailInv, Tells, StoredKey, StoredInstance,
                    ReportInv, FirstMatch, Matches
      <3>2. RepeatsOverlap'
        BY <2>2 DEF vars, InductiveInv, RepeatsOverlap, Recorder, Repeats, Plain
      <3> QED
        BY <3>1, <3>2 DEF InductiveInv
    <2> QED
      BY <2>1, <2>2
  <1> QED
    BY <1>1, <1>2, PTL DEF Spec

\* Every variable has its type.
THEOREM TypeCorrect == Spec => []TypeOK
  BY Invariance, PTL DEF InductiveInv

\* A reply "duplicate" names the first event of a report that it repeats, of
\* those whose metadata gave them no other key or instance.
THEOREM FirstRecordNamed == Spec => []DuplicatesNameFirst
  BY Invariance, FirstNamed, PTL

\* Equal reports answered "duplicate" are given the same event, whatever is
\* recorded between their reads, and whatever metadata replaced.
THEOREM RepliesAgree == Spec => []DuplicatesAgree
  BY Invariance, Agreement, PTL

\* Of the launches whose metadata has no other key or instance, only a report
\* that read before the first one was recorded records it once more.
THEOREM RepeatsNeedOverlap == Spec => []RepeatsOverlap
  BY Invariance, PTL DEF InductiveInv
=============================================================================
