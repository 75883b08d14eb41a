------------------------------ MODULE Rollback ------------------------------
(***************************************************************************)
(* How a transaction of RunCleanup ends that a foreign key stops           *)
(* (repository/cleanup.go): Identity says when that happens.               *)
(***************************************************************************)

VARIABLES
    raced,    \* history: a row was inserted since the selection
    failed    \* history: a foreign key has rolled the transaction back

\* A row alone never makes the cleanup fail: the foreign keys of the schema
\* refuse a statement only if a handler wrote something since it selected, so
\* that the next round may succeed. Were it otherwise, one row would stop every
\* sweep, of secrets too, for ever (cleanup.go:36-292 and 294-383).
NeverStuck == failed => raced
=============================================================================
