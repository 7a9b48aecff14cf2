------------------------------- MODULE MCMigrator -------------------------------
(***************************************************************************)
(* Migrator for TLC: two processes of the latest build and one of an older *)
(* one.                                                                    *)
(***************************************************************************)
EXTENDS Migrator

CONSTANTS new1, new2, old

MCLatest == [x \in Procs |-> IF x = old THEN 1 ELSE 2]
=============================================================================
