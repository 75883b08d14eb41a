---------------------------- MODULE MCLifecycle ----------------------------
(* Small instances of Lifecycle.                                           *)
EXTENDS Lifecycle, TLC

\* The recipient's presses are interchangeable.
RecipientSymmetry == Permutations(Presses \ Strangers)
=============================================================================
