--------------------------- MODULE MCPublication ---------------------------
(* Small instances of Publication.                                         *)
EXTENDS Publication

\* One whisper expires inside the bound on the clock, the other beyond it.
MCExpiryTimes == {MaxClock - 1, MaxClock + 3}

\* A retry due before the lease of the refused attempt would have run out, and
\* one due after it.
MCRetryDelays == {PublishLease - 1, PublishLease + 1}
=============================================================================
