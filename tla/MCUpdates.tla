------------------------------ MODULE MCUpdates ------------------------------
(* Updates with two handler budgets: within the lease and beyond it. *)
EXTENDS Updates

MCBudgets == {1, 3}
==============================================================================
