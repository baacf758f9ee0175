------------------------ MODULE MCInMemoryStateStore ------------------------
(* Four calls, enough for a lost update and for a throw between two calls. *)
EXTENDS InMemoryStateStore

CONSTANTS c1, c2, c3, c4

MCCalls == {c1, c2, c3, c4}
=============================================================================
