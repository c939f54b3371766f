------------------------------ MODULE MCMigrate ------------------------------
(***************************************************************************)
(* An instance of Migrate: two processes of the current build, which embeds *)
(* three migrations, and one of an earlier one.                            *)
(***************************************************************************)
EXTENDS Migrate

CONSTANTS new, other, old

Builds == [p \in Procs |-> IF p = old THEN 1 ELSE Latest]

=============================================================================
