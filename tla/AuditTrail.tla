----------------------------- MODULE AuditTrail -----------------------------
(***************************************************************************)
(* AuditService: record reads the clock when it is called and appends the  *)
(* event in a mutation of the store some time later; list sorts what is    *)
(* stored by occurred_at, with a stable sort, and returns the last events  *)
(* of the result.                                                          *)
(*                                                                         *)
(* The handlers that call record are those of the module that extends this *)
(* one.  Redaction of the metadata and the cross-service form of an event, *)
(* which is appended in the same mutation, are left out.                   *)
(***************************************************************************)
EXTENDS Integers, Sequences, FiniteSets

CONSTANTS
    MaxTime       \* bound: the clock

ASSUME MaxTimeAssumption == MaxTime \in Nat

VARIABLES
    now,          \* the clock, in milliseconds
    log           \* audit_events, in the order of storage

auditVars == <<now, log>>

AuditInit == now = 0 /\ log = <<>>

Tick == /\ now < MaxTime
        /\ now' = now + 1
        /\ UNCHANGED log

\* What record(input) is about to store.  after, for the properties, is how
\* many events were stored by then.
Stamped(input) == [at |-> now, after |-> Len(log), input |-> input]

\* The mutation of record.
Store(event) == log' = Append(log, event) /\ UNCHANGED now

\* The order of list: by time, events of one instant as they were stored.
ListedBefore(i, j) ==
    \/ log[i].at < log[j].at
    \/ log[i].at = log[j].at /\ i < j

\* Mutant: slice(0, limit).
PageFromStart(limit) ==
    {i \in DOMAIN log : Cardinality({j \in DOMAIN log : ListedBefore(j, i)}) < limit}

\* slice(-limit) of the sorted events; limit is a positive integer.
Page(limit) ==
    {i \in DOMAIN log : Cardinality({j \in DOMAIN log : ListedBefore(i, j)}) < limit}

-----------------------------------------------------------------------------
(* Properties                                                              *)

\* Event i was stored before the recording of event j began.
CausedBefore(i, j) == i <= log[j].after

\* A listing ends with the newest events, as many as it may hold: none that it
\* leaves out was recorded by a call made after one that it shows had returned,
\* although the time is read outside the transaction and events of one instant
\* are stored in any order.  With every limit: no effect stands before its cause.
PageHasNewest ==
    \A limit \in 1..Len(log) :
        /\ Cardinality(Page(limit)) = limit
        /\ \A i \in Page(limit), j \in DOMAIN log \ Page(limit) : ~CausedBefore(i, j)
=============================================================================
