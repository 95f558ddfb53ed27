------------------------------ MODULE MCMigrate ------------------------------
(* Migrate for TLC: every constant is given by the cfg.                    *)
EXTENDS Migrate
=============================================================================
