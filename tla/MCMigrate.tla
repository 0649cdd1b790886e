------------------------------ MODULE MCMigrate ------------------------------
(* Constants for model-checking Migrate.                                   *)
EXTENDS Migrate, TLC

\* A release whose second file PostgreSQL refuses; the next one, in which it
\* was mended and a file added; and an image in which the first was edited.
MCFiles ==
  [p \in Processes |->
     CASE p = "first"  -> (1 :> "a") @@ (2 :> "bad")
       [] p = "mended" -> (1 :> "a") @@ (2 :> "b") @@ (3 :> "c")
       [] p = "edited" -> (1 :> "a2")]
=============================================================================
