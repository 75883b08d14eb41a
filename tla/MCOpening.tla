----------------------------- MODULE MCOpening -----------------------------
(* Small instances of Opening.                                             *)
EXTENDS Opening, TLC

\* The recipient's presses are interchangeable.
RecipientSymmetry == Permutations(Presses \ Strangers)
=============================================================================
