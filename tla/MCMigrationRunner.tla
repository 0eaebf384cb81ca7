---------------------------- MODULE MCMigrationRunner ----------------------------
(***************************************************************************)
(* Instances of MigrationRunner for TLC: no files, a release, its          *)
(* successor with two more files, and one that has edited the first file.  *)
(***************************************************************************)
EXTENDS MigrationRunner, TLC

CONSTANTS a, b, old, new

MCReleases == { <<>>, 1 :> old, 1 :> old @@ 2 :> old @@ 3 :> old, 1 :> new @@ 2 :> old }
=============================================================================
