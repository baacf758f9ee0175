------------------------- MODULE MCTokenDecisions -------------------------
(* One tenant, one instance, one request beside one administrator: requests *)
(* only read, and mutations are atomic, so one administrator produces every *)
(* order of them.  The clock ticks twice a second and passes the lifetime   *)
(* of a token, the skew and the grace.                                      *)
EXTENDS TokenDecisions
=============================================================================
