------------------------- MODULE MCSourceMappings -------------------------
(* One listing or lookup at a time beside one administrator.  Mutations    *)
(* are atomic, so one administrator produces every order of them.          *)
EXTENDS SourceMappings, TLC

CONSTANTS t1, t2, i1, i2, src1, src2

MCTenants == {t1, t2}
MCInstances == {i1, i2}
MCSources == {src1, src2}

\* No filter, three pairs of them that leave the others out, and all those on
\* scope and state together; a state is asked for with the active value.
MCFilters ==
    LET scoped(s) == [NoFilter EXCEPT !.service_scope = s, !.tenant_state = Active] IN
    {NoFilter}
      \cup {[NoFilter EXCEPT !.instance_id = i, !.entitlement_state = Active] : i \in Instances}
      \cup {[NoFilter EXCEPT !.tenant_id = t, !.instance_state = Active] : t \in Tenants}
      \cup {scoped(s) : s \in Scopes}
      \cup {[scoped(s) EXCEPT !.instance_state = Active, !.entitlement_state = Active] :
                s \in Scopes}

MCSymmetry == Permutations(Tenants) \cup Permutations(Instances)
                \cup Permutations(Sources)
=============================================================================
