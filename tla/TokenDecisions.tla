--------------------------- MODULE TokenDecisions ---------------------------
(***************************************************************************)
(* What a mint, an entitlement check or a refresh may decide, given that   *)
(* it reads its gates one after the other while administrators open and    *)
(* close them; and how long a token is accepted after its tenant, its      *)
(* instance or the whole service was switched off.                         *)
(***************************************************************************)
EXTENDS TokenService

VARIABLES
    shut,         \* history: gates closed in every state since a request began
    disturbed,    \* history: has a gate been closed since a request began
    watched,      \* the gate, instance and scope that lastOpen is about
    lastOpen      \* history: the second in which that gate was last open

vars == <<serviceVars, shut, disturbed, watched, lastOpen>>

NotYet == -1

\* evaluateInFlightEntitlement does not look at the outage flag, and
\* evaluateRefreshDuringOutage at nothing else.
GatesOf(kind) ==
    CASE kind = "mint"     -> Gates
      [] kind = "inFlight" -> Gates \ {"outage"}
      [] kind = "refresh"  -> {"outage"}

Closed(r) == {g \in GatesOf(req[r].kind) : ~Open(g, req[r].instance, req[r].scope)}

WatchedOpen == Open(watched.gate, watched.instance, watched.scope)

Init ==
    /\ ServiceInit
    /\ shut = [r \in Requests |-> {}]
    /\ disturbed = [r \in Requests |-> FALSE]
    /\ watched \in [gate: Gates, instance: Instances, scope: Scopes]
    /\ lastOpen = IF WatchedOpen THEN 0 ELSE NotYet

\* shut and disturbed cover a request from its first state to its decision.
Observe ==
    /\ UNCHANGED watched
    /\ shut' = [r \in Requests |->
                  IF req'[r].pc = "idle" THEN {} ELSE
                  CASE At(r, "idle") -> Closed(r)'
                    [] Reading(r)    -> shut[r] \cap Closed(r)'
                    [] OTHER         -> shut[r]]
    /\ disturbed' = [r \in Requests |->
                       /\ req'[r].pc # "idle"
                       /\ \/ disturbed[r]
                          \/ (Reading(r) \/ At(r, "idle")) /\ Closed(r)' # {}]
    /\ lastOpen' = IF WatchedOpen' THEN Seconds(now') ELSE lastOpen

Next == ServiceNext /\ Observe

Spec == Init /\ [][Next]_vars

-----------------------------------------------------------------------------
(* Properties                                                              *)

\* Every variable has its type.
TypeOK ==
    /\ ServiceTypeOK
    /\ shut \in [Requests -> SUBSET Gates]
    /\ disturbed \in [Requests -> BOOLEAN]
    /\ watched \in [gate: Gates, instance: Instances, scope: Scopes]
    /\ lastOpen \in Nat \cup {NotYet}

\* A request is granted only if each gate was open at some moment of it: a
\* disable stored before the request began, and not undone, denies it.  (Not at
\* one and the same moment: with an instance disabled and then its tenant
\* enabled between the two reads, a mint that no single state allows is granted.)
GrantJustified ==
    \A r \in Requests : At(r, "granted") => shut[r] = {}

\* A request is refused only if some gate was closed at some moment of it: no
\* interleaving with changes elsewhere denies an instance that was good all
\* along.
DenialJustified ==
    \A r \in Requests : Refused(r) => disturbed[r]

\* expires_at of a token, in ticks.
Expiry(token) == (token.iat + Ttl) * Second

\* Work whose refresh is paused could not have gone on with its token, if it
\* gave the expiry of that token: in an outage nobody is stopped while
\* validateToken still accepts what it holds.
\* The configuration has to help: with a grace no longer than the skew the
\* pause comes up to a second too early, as validation drops the milliseconds.
PausedTokenIsDead ==
    Grace > Skew =>
        \A r \in Requests, token \in tokens :
            At(r, "paused") /\ req[r].expiry = Expiry(token) => ~Accepts(token.iat)

\* A token minted before a gate closed is accepted for Ttl + Skew at most from
\* then on, plus the time its mint took, for the mint may have read the gate as
\* open before it closed (token.service.ts:213-231, 375).
DisableBitesInTime ==
    \A token \in tokens :
        /\ token.instance = watched.instance
        /\ token.scope = watched.scope
        /\ Accepts(token.iat)
        => Seconds(now) <= lastOpen + Ttl + Skew + (token.iat - token.begun)
=============================================================================
