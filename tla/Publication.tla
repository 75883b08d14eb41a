---------------------------- MODULE Publication ----------------------------
(***************************************************************************)
(* Posting the public envelope of one whisper.                             *)
(*                                                                         *)
(* The handler that stored the secret tries to post the envelope at once   *)
(* (internal/bot/messages.go, ingestSecret); the publication workers of    *)
(* every process (internal/app/publication_worker.go) claim whatever is    *)
(* due.  A claim is a lease on the row: the outcome is recorded only where *)
(* publish_lease_until still equals the claimed value                      *)
(* (internal/repository/publish.go).                                       *)
(***************************************************************************)
EXTENDS Naturals

CONSTANTS
    Workers,          \* publication workers
    Request,          \* the request that stored the secret
    ExpiryTimes,      \* the values of expires_at, counted from the finalization
    RetentionGap,     \* from expires_at to retention_delete_at
    PublishLease,     \* Options.PublishLease
    PublisherBudget,  \* request timeout plus finish timeout of one attempt
    RetryDelays,      \* the values of publicationRetryDelay but 0
    Faults,           \* which of "crash" and "lost_reply" may happen
    MaxClock          \* bound: the clock stops here

ASSUME PublicationAssumption ==
    /\ Request \notin Workers
    /\ ExpiryTimes \subseteq Nat /\ RetentionGap \in Nat /\ MaxClock \in Nat
    /\ PublishLease \in Nat \ {0}
    /\ PublisherBudget \in Nat
    /\ PublisherBudget < PublishLease
    /\ RetryDelays \subseteq Nat \ {0}
    /\ Faults \subseteq {"crash", "lost_reply"}

VARIABLES
    clock,
    expiresAt,     \* expires_at
    status,        \* the whisper's status; "deleted" when the row is gone
    publishState,  \* publish_state
    publishLease,  \* publish_lease_until, 0 for NULL
    nextAttempt,   \* next_publish_attempt_at
    token,         \* the row in encrypted_callback_tokens exists
    step,          \* per publisher: where its attempt is
    held,          \* per publisher: the lease its claim returned
    cutoff,        \* per publisher: when its contexts cancel it
    told,          \* what the sender was told so far
    envelopes,     \* history: envelopes Telegram accepted
    losses         \* history: acceptances their publisher did not hear of or record

column     == <<publishState, publishLease, nextAttempt, token>>
publishers == <<step, held, cutoff, told>>
history    == <<envelopes, losses>>
vars       == <<clock, expiresAt, status, column, publishers, history>>

Publishers == Workers \union {Request}

PublishStates == {"pending", "publishing", "published", "retry_wait", "failed"}
Steps         == {"idle", "claimed", "completing", "retrying", "rejected", "done"}
Notices       == {"posted", "queued", "undeliverable", "unrecorded"}

Working(w) == step[w] \in {"claimed", "completing", "retrying", "rejected"}

RetentionAt == expiresAt + RetentionGap
Expired     == expiresAt <= clock

\* The guard every outcome is recorded under.
HoldsLease(w) ==
    /\ status # "deleted"
    /\ publishState = "publishing"
    /\ publishLease = held[w]

----------------------------------------------------------------------------
Init ==
    /\ clock = 0
    /\ expiresAt \in ExpiryTimes
    /\ status = "active"
    /\ publishState = "pending"
    /\ publishLease = 0
    /\ nextAttempt = 0
    /\ token = TRUE
    /\ step = [w \in Publishers |-> "idle"]
    /\ held = [w \in Publishers |-> 0]
    /\ cutoff = [w \in Publishers |-> 0]
    /\ told = {}
    /\ envelopes = 0
    /\ losses = 0

\* A publisher's attempt ends with these notices to the sender. A worker looks
\* for more work, the request is over.
EndAttempt(w, notices) ==
    /\ step' = [step EXCEPT ![w] = IF w = Request THEN "done" ELSE "idle"]
    /\ held' = [held EXCEPT ![w] = 0]
    /\ cutoff' = [cutoff EXCEPT ![w] = 0]
    /\ told' = told \union notices

\* Only the request answers the sender's message.
Answer(w, notice) == IF w = Request THEN {notice} ELSE {}

\* notifySenderPublicationFailed: any publisher whose envelope was rejected
\* says so, whether or not the outcome could be recorded.
Rejection(w) == IF step[w] = "rejected" THEN {"undeliverable"} ELSE {}

SetColumn(state, lease, attemptAt) ==
    /\ publishState' = state
    /\ publishLease' = lease
    /\ nextAttempt' = attemptAt

----------------------------------------------------------------------------
\* Variants with a bug stand before the definition they replace. Here: a row
\* another publisher holds is claimable.
ClaimableUnlessPublished ==
    /\ status = "active"
    /\ ~Expired
    /\ publishState \in {"pending", "retry_wait", "publishing"}
    /\ nextAttempt <= clock
    /\ token

Claimable ==
    /\ status = "active"
    /\ ~Expired
    /\ publishState \in {"pending", "retry_wait"}
    /\ nextAttempt <= clock
    /\ token

\* ClaimPublish and ClaimNextPublish: one UPDATE takes the row and its lease.
Claim(w) ==
    /\ step[w] = "idle"
    /\ Claimable
    /\ SetColumn("publishing", clock + PublishLease, nextAttempt)
    /\ step' = [step EXCEPT ![w] = "claimed"]
    /\ held' = [held EXCEPT ![w] = clock + PublishLease]
    /\ cutoff' = [cutoff EXCEPT ![w] = clock + PublisherBudget]
    /\ UNCHANGED <<clock, expiresAt, status, token, told, history>>

\* ClaimPublish finds the row not claimable, for whatever reason: the sender
\* is told that the envelope will not be delivered.
RequestRefused ==
    /\ step[Request] = "idle"
    /\ ~Claimable
    /\ EndAttempt(Request, {"undeliverable"})
    /\ UNCHANGED <<clock, expiresAt, status, column, history>>

\* publicationFromClaim fails after the claim: the row keeps its lease.
LookupFailed(w) ==
    /\ step[w] = "claimed"
    /\ EndAttempt(w, Answer(w, "queued"))
    /\ UNCHANGED <<clock, expiresAt, status, column, history>>

\* Telegram posts the envelope. If the reply is lost, or carries no message id,
\* the publisher takes the attempt for a transient failure.
EnvelopeAccepted(w) ==
    /\ step[w] = "claimed"
    /\ envelopes' = envelopes + 1
    /\ \/ step' = [step EXCEPT ![w] = "completing"] /\ UNCHANGED losses
       \/ /\ "lost_reply" \in Faults
          /\ step' = [step EXCEPT ![w] = "retrying"]
          /\ losses' = losses + 1
    /\ UNCHANGED <<clock, expiresAt, status, column, held, cutoff, told>>

\* Telegram refuses the envelope, for good or for now.
EnvelopeRefused(w) ==
    /\ step[w] = "claimed"
    /\ \E next \in {"retrying", "rejected"} : step' = [step EXCEPT ![w] = next]
    /\ UNCHANGED <<clock, expiresAt, status, column, held, cutoff, told, history>>

\* Variant: a whisper that expired meanwhile becomes active again.
MarkPublishedActivates(w) ==
    /\ step[w] = "completing"
    /\ HoldsLease(w)
    /\ SetColumn("published", 0, nextAttempt)
    /\ token' = FALSE
    /\ status' = "active"
    /\ EndAttempt(w, Answer(w, "posted"))
    /\ UNCHANGED <<clock, expiresAt, history>>

\* MarkPublished: the state and the end of the callback token in one transaction.
MarkPublished(w) ==
    /\ step[w] = "completing"
    /\ HoldsLease(w)
    /\ token
    /\ SetColumn("published", 0, nextAttempt)
    /\ token' = FALSE
    /\ \/ EndAttempt(w, Answer(w, "posted"))
       \/ "lost_reply" \in Faults /\ UNCHANGED publishers
    /\ UNCHANGED <<clock, expiresAt, status, history>>

\* MarkPublishFailed with a retry, or terminal.
MarkRetry(w) ==
    /\ step[w] = "retrying"
    /\ HoldsLease(w)
    /\ \E d \in RetryDelays : SetColumn("retry_wait", 0, clock + d)
    /\ EndAttempt(w, Answer(w, "queued"))
    /\ UNCHANGED <<clock, expiresAt, status, token, history>>

MarkRejected(w) ==
    /\ step[w] = "rejected"
    /\ HoldsLease(w)
    /\ SetColumn("failed", 0, clock)
    /\ EndAttempt(w, Rejection(w) \union Answer(w, "queued"))
    /\ UNCHANGED <<clock, expiresAt, status, token, history>>

\* The outcome finds the lease gone (ErrLeaseLost).
OutcomeRefused(w) ==
    /\ step[w] \in {"completing", "retrying", "rejected"}
    /\ ~HoldsLease(w)
    /\ EndAttempt(w, Rejection(w) \union Answer(w, "queued"))
    /\ UNCHANGED <<clock, expiresAt, status, column, history>>

\* The process dies, or PostgreSQL is away until the contexts end. A request
\* that dies does not answer the sender. A rejection that could not be recorded is
\* told in the same words; the history tells it apart.
PublisherLost(w) ==
    /\ "crash" \in Faults
    /\ Working(w)
    /\ \E notices \in {{}, IF step[w] = "rejected" THEN {"unrecorded"} ELSE {}} :
        EndAttempt(w, notices)
    /\ losses' = IF step[w] = "completing" THEN losses + 1 ELSE losses
    /\ UNCHANGED <<clock, expiresAt, status, column, envelopes>>

----------------------------------------------------------------------------
\* Variant: a live lease is swept.
SweepAnyPublishing ==
    /\ publishState = "publishing"
    /\ status = "active"
    /\ ~Expired
    /\ clock < RetentionAt
    /\ SetColumn("retry_wait", 0, clock)
    /\ UNCHANGED <<clock, expiresAt, status, token, publishers, history>>

\* RunCleanup, third sweep: an attempt under way fails with the whisper.
SweepExpired ==
    /\ status \in {"active", "opening"}
    /\ Expired
    /\ clock < RetentionAt
    /\ status' = "expired"
    /\ IF publishState = "publishing"
       THEN SetColumn("failed", 0, nextAttempt)
       ELSE UNCHANGED <<publishState, publishLease, nextAttempt>>
    /\ UNCHANGED <<clock, expiresAt, token, publishers, history>>

\* RunCleanup, fifth sweep: an abandoned publication lease.
SweepPublishLease ==
    /\ publishState = "publishing"
    /\ publishLease <= clock
    /\ status = "active"
    /\ ~Expired
    /\ clock < RetentionAt
    /\ SetColumn("retry_wait", 0, clock)
    /\ UNCHANGED <<clock, expiresAt, status, token, publishers, history>>

\* The row goes, its callback token with it (ON DELETE CASCADE).
DeleteRow ==
    /\ status # "deleted"
    /\ status' = "deleted"
    /\ token' = FALSE
    /\ UNCHANGED <<clock, expiresAt, publishState, publishLease, nextAttempt, publishers,
                   history>>

SweepRetained == RetentionAt <= clock /\ DeleteRow

\* Variant: the publication leases are not swept.
CleanupWithoutLeases == SweepExpired \/ SweepRetained

Cleanup == SweepExpired \/ SweepPublishLease \/ SweepRetained

\* A press on a posted envelope moves a published whisper through its opening;
\* a press after the deadline marks it expired, published or not
\* (opening.go, expireLockedWhisper).
Press ==
    /\ envelopes > 0
    /\ \/ /\ publishState = "published"
          /\ status \in {"active", "opening"}
          /\ status' \in {"active", "opening", "opened"}
       \/ /\ Expired
          /\ status \in {"active", "opening"}
          /\ status' = "expired"
    /\ UNCHANGED <<clock, expiresAt, column, publishers, history>>

\* Time passes, but not beyond the moment a running publisher is cancelled.
Tick ==
    /\ clock < MaxClock
    /\ \A w \in Publishers : Working(w) => clock < cutoff[w]
    /\ clock' = clock + 1
    /\ UNCHANGED <<expiresAt, status, column, publishers, history>>

Attempt(w) ==
    \/ LookupFailed(w) \/ EnvelopeAccepted(w) \/ EnvelopeRefused(w)
    \/ MarkPublished(w) \/ MarkRetry(w) \/ MarkRejected(w)
    \/ OutcomeRefused(w) \/ PublisherLost(w)

Next ==
    \/ \E w \in Publishers : Claim(w) \/ Attempt(w)
    \/ RequestRefused
    \/ Cleanup
    \/ DeleteRow
    \/ Press
    \/ Tick

Spec == Init /\ [][Next]_vars

\* Time passes, the cleanup and publication workers keep running, and an
\* attempt's contexts end it. Presses and the owner owe nothing.
Fairness ==
    /\ WF_vars(Tick)
    /\ WF_vars(Cleanup)
    /\ \A w \in Publishers : WF_vars(Attempt(w))
    /\ \A w \in Workers : WF_vars(Claim(w))

FairSpec == Spec /\ Fairness

----------------------------------------------------------------------------
\* Every variable stays in its range.
TypeOK ==
    /\ clock \in 0..MaxClock
    /\ expiresAt \in ExpiryTimes
    /\ status \in {"active", "opening", "opened", "expired", "deleted"}
    /\ publishState \in PublishStates
    /\ publishLease \in Nat
    /\ nextAttempt \in Nat
    /\ token \in BOOLEAN
    /\ step \in [Publishers -> Steps]
    /\ held \in [Publishers -> Nat]
    /\ cutoff \in [Publishers -> Nat]
    /\ told \subseteq Notices
    /\ envelopes \in Nat
    /\ losses \in Nat

\* Two publishers never post the same envelope at the same time: the lease
\* outlasts an attempt (config.go, PUBLISH_LEASE_TIMEOUT).
PublishExclusive ==
    \A v, w \in Publishers : Working(v) /\ Working(w) => v = w

\* The group sees a second envelope only after a publisher died before it could
\* record the first, or missed Telegram's reply to it: never because publishers
\* compete, a lease is swept or a refused attempt is tried again.
OneEnvelope == envelopes <= 1 + losses

\* The sender reads that the envelope was posted only when that is on record, and never
\* both that and that it will not be delivered, although the request and any worker may
\* write to him (internal/bot/messages.go:484, internal/bot/publish.go:48); unless a
\* rejection was told that could not be recorded, so that the envelope was tried again.
PostedIsTrue ==
    "posted" \in told => publishState = "published" /\ "undeliverable" \notin told

\* An active whisper does not stay in 'publishing' beyond the lease: its publisher
\* ends the attempt or the cleanup worker reclaims it (only leases that end before
\* MaxClock count).
PublishingEnds ==
    (publishState = "publishing" /\ publishLease <= MaxClock)
        ~> (publishState # "publishing" \/ status # "active")

----------------------------------------------------------------------------
\* The publishers together are the sender of OneDelivery, and the n-th envelope that
\* Telegram accepted is its message n.
SenderAmong(at) ==
    IF \E w \in Publishers : at[w] = "claimed" THEN "sending"
    ELSE IF \E w \in Publishers : at[w] = "completing" THEN "sent"
    ELSE IF \E w \in Publishers : at[w] \in {"retrying", "rejected"} THEN "failed"
    ELSE "nobody"

RecordOf(s, state) ==
    IF s # "deleted" /\ state = "published" THEN "made"
    ELSE IF s \in {"expired", "deleted"} \/ state = "failed" THEN "closed"
    ELSE "open"

Promise == INSTANCE OneDelivery WITH
    record <- RecordOf(status, publishState), sender <- SenderAmong(step),
    out <- 1..envelopes, lost <- 1..losses

\* The publishers implement one delivery: ClaimPublish and ClaimNextPublish admit one
\* when nobody is at work and every envelope so far is lost, and MarkPublished misses an
\* envelope only when the whisper is over (publish.go).
DeliversOnce == Promise!Spec
=============================================================================
