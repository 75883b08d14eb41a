---------------------------- MODULE OneDelivery ----------------------------
(***************************************************************************)
(* What the protocols promise that deliver something once: the secret of a *)
(* one-time whisper (Opening) and the public envelope (Publication).       *)
(* Both admit a sender in one transaction, have Telegram send a message,   *)
(* and record that in another transaction.  Leases, clocks, sweeps and     *)
(* events are how they keep the promise; here is what is left when those   *)
(* are taken away.                                                         *)
(***************************************************************************)

VARIABLES
    record,  \* "open"; "made": a delivery is on record; "closed": none is wanted
    sender,  \* "nobody" is admitted; or he is "sending", has "sent", has "failed"
    out,     \* the messages that reached a chat
    lost     \* those of them that nobody can record any more

vars == <<record, sender, out, lost>>

Init ==
    /\ record = "open" /\ sender = "nobody"
    /\ out = {} /\ lost = {}

\* One sender at a time, and only while no message is left that could be recorded.
Admit ==
    /\ record = "open" /\ sender = "nobody" /\ out \subseteq lost
    /\ sender' = "sending"
    /\ UNCHANGED <<record, out, lost>>

\* The message is out, and the sender knows it; or he takes it for not sent.
Send ==
    /\ sender = "sending"
    /\ out \subseteq out' /\ \E m \in out' : m \notin out /\ out' = out \union {m}
    /\ \/ sender' = "sent" /\ UNCHANGED lost
       \/ sender' = "failed" /\ lost' = lost \union (out' \ out)
    /\ UNCHANGED record

NotSent ==
    /\ sender = "sending" /\ sender' = "failed"
    /\ UNCHANGED <<record, out, lost>>

\* The record of the message. A sender who does not hear of it tries again.
Record ==
    /\ sender = "sent" /\ record # "made"
    /\ record' = "made" /\ sender' \in {"sent", "nobody"}
    /\ UNCHANGED <<out, lost>>

\* The sender ends, or dies. A message that he should have recorded is lost, unless
\* there is nothing to be recorded any more.
Leave ==
    /\ sender # "nobody" /\ sender' = "nobody"
    /\ lost' \in {lost, out}
    /\ sender = "sent" /\ record = "open" => lost' = out
    /\ record' = record \/ (sender = "failed" /\ record = "open" /\ record' = "closed")
    /\ UNCHANGED out

\* Expiry, rejection, deletion; also under a sender.
Close ==
    /\ record # "closed" /\ record' = "closed"
    /\ UNCHANGED <<sender, out, lost>>

Next == Admit \/ Send \/ NotSent \/ Record \/ Leave \/ Close

Spec == Init /\ [][Next]_vars

----------------------------------------------------------------------------
\* Of all messages that reach a chat, at most one is not lost (opening.go, publish.go:
\* the outcome is recorded under the reservation it belongs to).
OneKnown == \A d, e \in out \ lost : d = e

\* No message follows the record of one, and nothing is opened again after it.
RecordIsFinal == [][record = "made" => out' = out /\ record' # "open"]_vars
=============================================================================
