----------------------------- MODULE Onboarding -----------------------------
(***************************************************************************)
(* OnboardingService.reportInstanceLaunch: read the audit trail, look for  *)
(* a launch of the instance with the same idempotency key, and record one  *)
(* in a second call of the store when there is none.  And                  *)
(* registerInstanceInterest, which records events of another type in the   *)
(* same trail, with metadata of the request's choice.                      *)
(*                                                                         *)
(* The key of a recorded event is the one in its metadata, and so is its   *)
(* instance when the report names no tenant.  The metadata of the request  *)
(* is spread into it last: it may replace both, or erase them with a value *)
(* that is not a non-empty string.                                         *)
(***************************************************************************)
EXTENDS Naturals, Sequences

CONSTANTS
    Requests,       \* HTTP requests, each made once
    Instances,
    Keys,           \* idempotency keys
    NoKey,          \* no key: in a request, or a value in metadata that is none
    NoInstance,     \* a value in metadata that is no instance
    Absent,         \* the metadata of the request has no such field
    MetadataKeys,       \* idempotency_key inside a request's metadata
    MetadataInstances   \* instance_id inside a request's metadata

ASSUME NoKeyAssumption == NoKey \notin Keys /\ NoInstance \notin Instances
ASSUME AbsentAssumption == Absent \notin Keys \cup {NoKey} \cup Instances \cup {NoInstance}
ASSUME MetadataAssumption == /\ MetadataKeys \subseteq Keys \cup {NoKey, Absent}
                             /\ MetadataInstances \subseteq Instances \cup {NoInstance, Absent}

\* A report names an instance; the tenant and the key are optional.
Launch == [type: {"launch"}, tenant: BOOLEAN, instance: Instances, key: Keys \cup {NoKey},
           metadataKey: MetadataKeys, metadataInstance: MetadataInstances]

\* An interest has only what its metadata carries.
Interest == [type: {"interest"}, tenant: {FALSE}, instance: {NoInstance}, key: {NoKey},
             metadataKey: MetadataKeys, metadataInstance: MetadataInstances]

VARIABLES
    events,         \* audit_events of these two types, in order
    pc,             \* idle, record (the read found none), done or failed
    input,          \* what a request reports or asks for
    result,         \* status and reference_id of its reply
    looked          \* history: how many events its read returned

vars == <<events, pc, input, result, looked>>

NoResult == [status |-> "none", reference |-> 0]

Init == /\ events = <<>>
        /\ pc = [r \in Requests |-> "idle"]
        /\ input \in [Requests -> Launch \cup Interest]
        /\ result = [r \in Requests |-> NoResult]
        /\ looked = [r \in Requests |-> 0]

\* Without a key any launch of the instance counts as the same one.
Matches(event, launch) ==
    /\ event.type = "launch"
    /\ event.instance = launch.instance
    /\ launch.key = NoKey \/ event.key = launch.key

\* Mutant: the key of the request is not recorded with the event.
StoredKeyMissing(launch) ==
    IF launch.metadataKey = Absent THEN NoKey ELSE launch.metadataKey

\* The key eventIdempotencyKey finds in the event: the spread of the request's
\* metadata overrides the key of the request.
StoredKey(launch) ==
    IF launch.metadataKey = Absent THEN launch.key ELSE launch.metadataKey

\* The instance eventInstanceId finds: instance_id of the event, stored only
\* with a tenant, or else the instance_id of its metadata.
StoredInstance(launch) ==
    IF launch.tenant \/ launch.metadataInstance = Absent
    THEN launch.instance
    ELSE launch.metadataInstance

\* Mutant: findLast in place of find.
LastMatch(r, i) ==
    /\ i \in DOMAIN events
    /\ Matches(events[i], input[r])
    /\ \A j \in (i + 1)..Len(events) : ~Matches(events[j], input[r])

FirstMatch(r, i) ==
    /\ i \in DOMAIN events
    /\ Matches(events[i], input[r])
    /\ \A j \in 1..(i - 1) : ~Matches(events[j], input[r])

\* events.find over a read of the state.
ReadFindsDuplicate(r) ==
    /\ pc[r] = "idle"
    /\ input[r].type = "launch"
    /\ \E i \in DOMAIN events :
           /\ FirstMatch(r, i)
           /\ result' = [result EXCEPT ![r] = [status |-> "duplicate", reference |-> i]]
    /\ pc' = [pc EXCEPT ![r] = "done"]
    /\ looked' = [looked EXCEPT ![r] = Len(events)]
    /\ UNCHANGED <<events, input>>

ReadFindsNone(r) ==
    /\ pc[r] = "idle"
    /\ input[r].type = "launch"
    /\ \A i \in DOMAIN events : ~Matches(events[i], input[r])
    /\ pc' = [pc EXCEPT ![r] = "record"]
    /\ looked' = [looked EXCEPT ![r] = Len(events)]
    /\ UNCHANGED <<events, input, result>>

\* An event remembers the request it reports, for the properties.
Recorded(r) == events' = Append(events, [type |-> input[r].type,
                                         instance |-> StoredInstance(input[r]),
                                         key |-> StoredKey(input[r]), by |-> r])

\* audit.record, without looking again.  An event is named by its position.
Record(r) ==
    /\ pc[r] = "record"
    /\ Recorded(r)
    /\ result' = [result EXCEPT ![r] = [status |-> "recorded",
                                        reference |-> Len(events) + 1]]
    /\ pc' = [pc EXCEPT ![r] = "done"]
    /\ UNCHANGED <<input, looked>>

RegisterInterest(r) ==
    /\ pc[r] = "idle"
    /\ input[r].type = "interest"
    /\ Recorded(r)
    /\ result' = [result EXCEPT ![r] = [status |-> "received",
                                        reference |-> Len(events) + 1]]
    /\ pc' = [pc EXCEPT ![r] = "done"]
    /\ UNCHANGED <<input, looked>>

\* The read or the record fails, or the process dies before the reply; the
\* record may have been committed.
Fail(r) ==
    /\ pc[r] \in {"idle", "record"}
    /\ \/ UNCHANGED events
       \/ /\ pc[r] = "record" \/ input[r].type = "interest"
          /\ Recorded(r)
    /\ pc' = [pc EXCEPT ![r] = "failed"]
    /\ UNCHANGED <<input, result, looked>>

Next == \E r \in Requests :
            \/ ReadFindsDuplicate(r) \/ ReadFindsNone(r) \/ Record(r)
            \/ RegisterInterest(r)
            \/ Fail(r)

Spec == Init /\ [][Next]_vars

-----------------------------------------------------------------------------
(* Properties                                                              *)

\* Every variable has its type.
TypeOK ==
    /\ \A i \in DOMAIN events :
           events[i] \in [type: {"launch", "interest"}, instance: Instances \cup {NoInstance},
                         key: Keys \cup {NoKey}, by: Requests]
    /\ pc \in [Requests -> {"idle", "record", "done", "failed"}]
    /\ input \in [Requests -> Launch \cup Interest]
    /\ result \in [Requests -> [status: {"none", "recorded", "duplicate", "received"},
                                reference: 0..Len(events)]]
    /\ looked \in [Requests -> 0..Len(events)]

\* The metadata of a report says nothing else than the report.
Plain(launch) ==
    /\ launch.metadataKey \in {Absent, launch.key}
    /\ launch.tenant \/ launch.metadataInstance \in {Absent, launch.instance}

\* A report repeats an earlier one: of the same instance, and of the same key
\* when it carries one.
Repeats(launch, earlier) ==
    /\ launch.type = "launch" /\ earlier.type = "launch"
    /\ launch.instance = earlier.instance
    /\ launch.key \in {NoKey, earlier.key}

Duplicates == {r \in Requests : result[r].status = "duplicate"}

\* Recorder(i) is the request whose report event i is.
Recorder(i) == input[events[i].by]

\* A retry is answered with the first record of what it repeats, even when
\* overlapping reports recorded it more than once: the event that a duplicate
\* reply names is of a report it repeats, and no earlier event is, but for the
\* reports whose metadata gave them another key or instance.
DuplicatesNameFirst ==
    \A r \in Duplicates :
        LET n == result[r].reference IN
        /\ Plain(Recorder(n)) => Repeats(input[r], Recorder(n))
        /\ \A i \in 1..(n - 1) : Plain(Recorder(i)) => ~Repeats(input[r], Recorder(i))

\* Events i and j report one launch: the same instance, and the same key.
SameLaunch(i, j) ==
    /\ Repeats(Recorder(j), Recorder(i))
    /\ Recorder(i).key = Recorder(j).key /\ Recorder(i).key # NoKey

\* Test "records launch telemetry once per idempotency key": the trail holds
\* one launch at most per instance and key of the requests.
OncePerKey == \A i, j \in DOMAIN events : SameLaunch(i, j) => i = j

\* The same test, of requests that do not overlap: a launch that was in the
\* trail when a report of it read the trail is not recorded again.
RetryNotRecorded ==
    \A i, j \in DOMAIN events :
        i < j /\ SameLaunch(i, j) => looked[events[j].by] < i

\* What the code keeps of it, of reports with a key and without, whatever they
\* overlap and whatever replies are lost: a report whose metadata gave it no
\* other key and no other instance is recorded again only by a report that
\* read the trail before the first record.
RepeatsOverlap ==
    \A i, j \in DOMAIN events :
        /\ i < j
        /\ Repeats(Recorder(j), Recorder(i))
        /\ Plain(Recorder(i))
        => looked[events[j].by] < i
=============================================================================
