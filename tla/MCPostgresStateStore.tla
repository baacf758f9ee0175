------------------------ MODULE MCPostgresStateStore ------------------------
(* Three mutations and one read on a pool of two connections.              *)
EXTENDS PostgresStateStore

CONSTANTS c1, c2, c3, d1

MCCallers == {c1, c2, c3}
MCReaders == {d1}
=============================================================================
