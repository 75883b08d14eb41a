----------------------------- MODULE MCProcess -----------------------------
(* Small instances of Process.                                             *)
EXTENDS Process

CONSTANTS w1, w2, q1
=============================================================================
