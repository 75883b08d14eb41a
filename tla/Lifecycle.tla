----------------------------- MODULE Lifecycle -----------------------------
(***************************************************************************)
(* A whisper from its finalization to its deletion: the publication of its *)
(* envelope and the presses on the posted button, over one row.            *)
(*                                                                         *)
(* Publication abstracts what the presses do to the status; Opening        *)
(* abstracts how the row comes to be published.  Here both run on the same *)
(* row and the same clock, and each is shown to be an abstraction of the   *)
(* whole.                                                                  *)
(***************************************************************************)
EXTENDS Naturals

CONSTANTS
    Presses, Strangers, OneTimes, OpenLease, HandlerBudget, DenialWindow,
    DeleteDelays, None,
    Workers, Request, PublishLease, PublisherBudget, RetryDelays,
    ExpiryTimes, RetentionGap, Faults, MaxClock

VARIABLES
    clock, expiresAt, status,
    oneTime, opener, openLease, eventState, eventAt, jobs, deleteDelay,
    pc, deadline, answer, accepted, lost,
    publishState, publishLease, nextAttempt, token,
    step, held, cutoff, told, envelopes, losses

openingVars == <<oneTime, opener, openLease, eventState, eventAt, jobs, deleteDelay,
                 pc, deadline, answer, accepted, lost>>
publicationVars == <<publishState, publishLease, nextAttempt, token,
                     step, held, cutoff, told, envelopes, losses>>
vars == <<clock, expiresAt, status, openingVars, publicationVars>>

O == INSTANCE Opening WITH published <- (publishState = "published")
P == INSTANCE Publication

\* One configuration satisfies what each of them assumes.
ASSUME LifecycleAssumption == O!OpeningAssumption /\ P!PublicationAssumption

----------------------------------------------------------------------------
Init == P!Init /\ O!Init

\* The button is in the chat: its callback data names the token of this row.
Pressable == envelopes > 0

\* handleCallback: the handler of one press takes a step.
HandlePress(c) ==
    /\ UNCHANGED publicationVars
    /\ \/ Pressable /\ O!Reserve(c)
       \/ O!Deliver(c)
       \/ O!Finish(c)

\* Publish: a publication worker or the storing request takes a step.
HandlePublication ==
    /\ UNCHANGED openingVars
    /\ \/ \E w \in P!Publishers : P!Claim(w) \/ P!Attempt(w)
       \/ P!RequestRefused

\* RunCleanup: its sweeps, in the order they run.
Cleanup ==
    \/ P!SweepExpired /\ O!SweepExpired
    \/ UNCHANGED publicationVars /\ O!SweepOpenLease
    \/ UNCHANGED openingVars /\ P!SweepPublishLease
    \/ P!SweepRetained /\ O!SweepRetained

Owner ==
    \/ P!DeleteRow /\ O!OwnerDelete
    \/ UNCHANGED publicationVars /\ \E d \in DeleteDelays : O!OwnerSetDelay(d)

Next ==
    \/ \E c \in Presses : HandlePress(c)
    \/ HandlePublication
    \/ Cleanup
    \/ Owner
    \/ P!Tick /\ O!Tick

Spec == Init /\ [][Next]_vars

----------------------------------------------------------------------------
\* The presses of the whole system are those of Opening: whatever publication
\* and cleanup do to the row, they look to a press like EnvelopePublished, a
\* sweep, a deletion or nothing.
ImplementsOpening == O!Spec

\* The publishers of the whole system are those of Publication: a press, a
\* reservation and a release of its lease never disturb an attempt under way.
ImplementsPublication == P!Spec

\* The two protocols exclude each other: a secret reaches the chat only through
\* a recorded envelope (the message of a lost MarkPublished is a button that does
\* not open, opening.go:110), and once a press has reserved the row nobody is
\* about to post another one.
SecretNeedsEnvelope ==
    /\ (\E c \in Presses : accepted[c] > 0) => publishState = "published" /\ ~token
    /\ status \in {"opening", "opened"} =>
           \A w \in P!Publishers : step[w] \notin {"claimed", "retrying", "rejected"}
=============================================================================
