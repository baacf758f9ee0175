---------------------------- MODULE MCMigrations ----------------------------
(* Two runs and one server; a release of 0001 alone, 0001 and 0002, and one  *)
(* with another text of 0002, and one with 0002 alone.                       *)
EXTENDS Migrations

CONSTANTS r1, r2, s1, old, new

MCRuns == {r1, r2}
MCServers == {s1}
MCChecksums == {old, new}
MCReleases == {<<old>>, <<old, old>>, <<old, new>>, 2 :> old}
=============================================================================
