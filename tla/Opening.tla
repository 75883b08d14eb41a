------------------------------ MODULE Opening ------------------------------
(***************************************************************************)
(* One whisper and the button presses that try to open it.                 *)
(*                                                                         *)
(* Every press is a Telegram callback query.  Its handler reserves the     *)
(* whisper in one transaction (internal/repository/opening.go), sends the  *)
(* secret as an ephemeral message, and records the outcome in a second     *)
(* transaction (internal/bot/callback.go).  Between the two the process    *)
(* may crash, Telegram's answer may be lost, the lease may run out, the    *)
(* cleanup worker may sweep the row and the owner may delete it.           *)
(*                                                                         *)
(* Each repository call is one PostgreSQL transaction holding a row lock   *)
(* on the whisper, hence one action.                                       *)
(***************************************************************************)
EXTENDS Naturals

CONSTANTS
    Presses,        \* callback query ids, one per press of the button
    Strangers,      \* the presses made by someone who is not the recipient
    OneTimes,       \* the values of one_time, DefaultOneTime in the code
    ExpiryTimes,    \* the values of expires_at, counted from the finalization
    RetentionGap,   \* from expires_at to retention_delete_at
    OpenLease,      \* Options.OpenLease: callback window + 5s
    HandlerBudget,  \* the send and finish timeouts of one handler, added up
    DenialWindow,   \* the minute in which one denial per user is recorded
    DeleteDelays,   \* the values the owner may give EphemeralDeleteAfter
    Faults,         \* which of "crash" and "lost_reply" may happen
    MaxClock,       \* bound: the clock stops here
    None            \* no press

ASSUME OpeningAssumption ==
    /\ Strangers \subseteq Presses
    /\ OneTimes \subseteq BOOLEAN
    /\ ExpiryTimes \subseteq Nat /\ RetentionGap \in Nat /\ MaxClock \in Nat
    /\ OpenLease \in Nat \ {0}
    /\ HandlerBudget \in Nat
    /\ HandlerBudget < OpenLease
    /\ DenialWindow \in Nat
    /\ DeleteDelays \subseteq Nat
    /\ Faults \subseteq {"crash", "lost_reply"}
    /\ None \notin Presses

VARIABLES
    clock,
    oneTime,        \* one_time
    expiresAt,      \* expires_at
    published,      \* publish_state = 'published'
    status,         \* the whisper's status; "deleted" when the row is gone
    opener,         \* opening_callback_query_id
    openLease,      \* opening_lease_until, 0 for NULL
    eventState,     \* per press: its row in whisper_open_events, if any
    eventAt,        \* per press: created_at of that row
    jobs,           \* presses whose message has a row in ephemeral_delete_jobs
    deleteDelay,    \* Service.options.EphemeralDeleteAfter
    pc,             \* per press: where its handler is
    deadline,       \* per press: when the handler's contexts cancel it
    answer,         \* per press: what the presser was last told
    accepted,       \* history: how often Telegram accepted the secret for a press
    lost            \* history: presses whose handler died or missed Telegram's reply

fixed  == <<oneTime, expiresAt>>
row    == <<status, opener, openLease>>
audit  == <<eventState, eventAt>>
handlers == <<pc, deadline, answer>>
history  == <<accepted, lost>>
vars   == <<clock, fixed, published, row, audit, jobs, deleteDelay, handlers, history>>

Statuses    == {"active", "opening", "opened", "expired", "deleted"}
EventStates == {"none", "denied", "reserved", "delivered", "failed"}
PCs         == {"new", "sending", "finishing", "failing", "again", "refused", "done"}
Answers     == {"none", "wrong_recipient", "expired", "already_opened", "unavailable",
                "not_found", "internal_error", "delivered", "failed", "pending"}

\* WhisperStatus.CanTransitionTo, the legal lifecycle edges.
CanTransitionTo(s, t) ==
    \/ s = "active"  /\ t \in {"opening", "expired"}
    \/ s = "opening" /\ t \in {"active", "opened", "expired"}

\* A handler is between its reservation and the record of the outcome.
InFlight(c) == pc[c] \in {"sending", "finishing", "failing"}

\* The processor hands the update to a handler: a first time, or again after
\* the previous handler returned an error or died.
Runnable(c) == pc[c] \in {"new", "again", "refused"}

RetentionAt == expiresAt + RetentionGap
Expired     == expiresAt <= clock

----------------------------------------------------------------------------
Init ==
    /\ clock = 0
    /\ oneTime \in OneTimes
    /\ expiresAt \in ExpiryTimes
    /\ published = FALSE
    /\ status = "active"
    /\ opener = None
    /\ openLease = 0
    /\ eventState = [c \in Presses |-> "none"]
    /\ eventAt = [c \in Presses |-> 0]
    /\ jobs = {}
    /\ deleteDelay \in DeleteDelays
    /\ pc = [c \in Presses |-> "new"]
    /\ deadline = [c \in Presses |-> 0]
    /\ answer = [c \in Presses |-> "none"]
    /\ accepted = [c \in Presses |-> 0]
    /\ lost = {}

SetRow(s, o, l) ==
    /\ status' = s
    /\ opener' = o
    /\ openLease' = l

\* The insert into whisper_open_events.
RecordEvent(c, state) ==
    /\ eventState' = [eventState EXCEPT ![c] = state]
    /\ eventAt' = [eventAt EXCEPT ![c] = clock]

\* The handler answers the callback query and returns. When that last request
\* fails the handler returns its error and the update is processed again.
Reply(c, a) ==
    /\ answer' = [answer EXCEPT ![c] = a]
    /\ deadline' = [deadline EXCEPT ![c] = 0]
    /\ \E next \in {"done", "again"} : pc' = [pc EXCEPT ![c] = next]

\* The handler returns an error, or ends without returning at all.
GiveUp(c, next) ==
    /\ pc' = [pc EXCEPT ![c] = next]
    /\ deadline' = [deadline EXCEPT ![c] = 0]

----------------------------------------------------------------------------
\* hasReservedOpenEvent: some delivery of this whisper has no known outcome.
Lingering == \E c \in Presses : eventState[c] = "reserved"

\* Variants with a bug, one per hazard; each stands before the definition it
\* replaces when the properties are tried against it.
VerdictBeforePublication(c) ==
    IF c \in Strangers THEN "denied_wrong_user"
    ELSE IF Expired THEN "denied_expired"
    ELSE IF status = "opened" THEN "denied_already_opened"
    ELSE IF status \in {"opening", "expired"} THEN "denied_not_active"
    ELSE "allowed"

VerdictForgetsLease(c) ==
    IF c \in Strangers THEN "denied_wrong_user"
    ELSE IF Expired THEN "denied_expired"
    ELSE IF status = "opened" THEN "denied_already_opened"
    ELSE IF status = "expired" \/ ~published THEN "denied_not_active"
    ELSE "allowed"

VerdictOpeningIsOpened(c) ==
    IF c \in Strangers THEN "denied_wrong_user"
    ELSE IF Expired THEN "denied_expired"
    ELSE IF status \in {"opening", "opened"} THEN "denied_already_opened"
    ELSE IF status = "expired" \/ ~published THEN "denied_not_active"
    ELSE "allowed"

\* The checks of ReserveOpen in the order of the code.
Verdict(c) ==
    IF c \in Strangers THEN "denied_wrong_user"
    ELSE IF Expired THEN "denied_expired"
    ELSE IF status = "opened" THEN "denied_already_opened"
    ELSE IF status = "opening" /\ clock < openLease THEN "denied_not_active"
    ELSE IF status = "opening" /\ oneTime /\ Lingering THEN "denied_ambiguous"
    ELSE IF status = "expired" THEN "denied_not_active"
    ELSE IF ~published THEN "denied_not_active"
    ELSE "allowed"

\* mapOpenError: the error each denial becomes for the presser.
Explain(verdict) ==
    IF verdict = "denied_wrong_user" THEN "wrong_recipient"
    ELSE IF verdict = "denied_expired" THEN "expired"
    ELSE IF verdict = "denied_already_opened" THEN "already_opened"
    ELSE "unavailable"

\* The CHECK on whisper_open_events.outcome.
RecordableOutcomes ==
    {"allowed", "denied_wrong_user", "denied_not_active", "denied_expired",
     "denied_revoked", "denied_already_opened", "delivery_failed"}

\* The same user already has an event younger than a minute.
RecentEvent(c) ==
    \E d \in Presses :
        /\ (d \in Strangers) <=> (c \in Strangers)
        /\ eventState[d] # "none"
        /\ clock < eventAt[d] + DenialWindow

\* recordDeniedOpen inserts a row whose outcome the table does not admit, or
\* whose callback id is taken: the transaction rolls back.
OutcomeRejected(c)  == ~RecentEvent(c) /\ Verdict(c) \notin RecordableOutcomes
CallbackRejected(c) == ~RecentEvent(c) /\ eventState[c] # "none"

\* ReserveOpen denies the press. An expired whisper is marked expired in the
\* same transaction.
ReserveDenied(c) ==
    /\ Runnable(c)
    /\ status # "deleted"
    /\ Verdict(c) # "allowed"
    /\ ~OutcomeRejected(c) /\ ~CallbackRejected(c)
    /\ Reply(c, Explain(Verdict(c)))
    /\ IF RecentEvent(c) THEN UNCHANGED audit ELSE RecordEvent(c, "denied")
    /\ IF Verdict(c) = "denied_expired" /\ status \in {"active", "opening"}
       THEN SetRow("expired", None, 0)
       ELSE UNCHANGED row
    /\ UNCHANGED <<clock, fixed, published, jobs, deleteDelay, history>>

\* ReserveOpen denies the press but the denial cannot be recorded: everything
\* rolls back. A taken callback id reads as a conflict, a failed CHECK does not.
ReserveUnrecorded(c) ==
    /\ Runnable(c)
    /\ status # "deleted"
    /\ Verdict(c) # "allowed"
    /\ OutcomeRejected(c) \/ CallbackRejected(c)
    /\ Reply(c, IF OutcomeRejected(c) THEN "internal_error" ELSE "unavailable")
    /\ UNCHANGED <<clock, fixed, published, row, audit, jobs, deleteDelay, history>>

\* ReserveOpen finds no row for the token.
ReserveMissing(c) ==
    /\ Runnable(c)
    /\ status = "deleted"
    /\ Reply(c, "not_found")
    /\ UNCHANGED <<clock, fixed, published, row, audit, jobs, deleteDelay, history>>

\* ReserveOpen admits the press but the callback id already has an event: the
\* insert violates UNIQUE and the reservation rolls back.
ReserveReplayed(c) ==
    /\ Runnable(c)
    /\ status # "deleted"
    /\ Verdict(c) = "allowed"
    /\ eventState[c] # "none"
    /\ Reply(c, "unavailable")
    /\ UNCHANGED <<clock, fixed, published, row, audit, jobs, deleteDelay, history>>

\* ReserveOpen admits the press: a one-time whisper goes to 'opening' under a
\* lease, and an 'allowed'/'reserved' event is inserted.
ReserveAllowed(c) ==
    /\ Runnable(c)
    /\ status # "deleted"
    /\ Verdict(c) = "allowed"
    /\ eventState[c] = "none"
    /\ IF oneTime THEN SetRow("opening", c, clock + OpenLease) ELSE UNCHANGED row
    /\ RecordEvent(c, "reserved")
    /\ pc' = [pc EXCEPT ![c] = "sending"]
    /\ deadline' = [deadline EXCEPT ![c] = clock + HandlerBudget]
    /\ UNCHANGED <<clock, fixed, published, jobs, deleteDelay, answer, history>>

----------------------------------------------------------------------------
\* Telegram takes the ephemeral message. If its reply is lost the handler sees
\* a transport error and treats the send as failed.
SendAccepted(c) ==
    /\ pc[c] = "sending"
    /\ accepted' = [accepted EXCEPT ![c] = @ + 1]
    /\ \/ pc' = [pc EXCEPT ![c] = "finishing"] /\ UNCHANGED lost
       \/ /\ "lost_reply" \in Faults
          /\ pc' = [pc EXCEPT ![c] = "failing"]
          /\ lost' = lost \union {c}
    /\ UNCHANGED <<clock, fixed, published, row, audit, jobs, deleteDelay, deadline,
                   answer>>

\* Nothing reaches the recipient: Telegram refuses the send and, for a dead
\* file_id, the upload of the retained media as well.
SendRejected(c) ==
    /\ pc[c] = "sending"
    /\ pc' = [pc EXCEPT ![c] = "failing"]
    /\ UNCHANGED <<clock, fixed, published, row, audit, jobs, deleteDelay, deadline,
                   answer, history>>

\* CompleteOpen rejects a zero deletion deadline, a missing or settled event,
\* and a one-time whisper no longer reserved by this press.
Completable(c) ==
    /\ deleteDelay > 0
    /\ eventState[c] = "reserved"
    /\ oneTime => status = "opening" /\ opener = c

\* Variant: a second completion is always a conflict.
CompletionNotIdempotent(c) == c \notin Presses

AlreadyCompleted(c) ==
    /\ deleteDelay > 0
    /\ eventState[c] = "delivered"
    /\ c \in jobs

\* CompleteOpen commits: the event is delivered, a one-time whisper is opened,
\* the deletion job exists. If the commit's reply is lost the handler tries again.
CompleteOpen(c) ==
    /\ pc[c] = "finishing"
    /\ Completable(c)
    /\ eventState' = [eventState EXCEPT ![c] = "delivered"]
    /\ IF oneTime THEN SetRow("opened", None, 0) ELSE UNCHANGED row
    /\ jobs' = jobs \union {c}
    /\ \/ Reply(c, "delivered")
       \/ "lost_reply" \in Faults /\ UNCHANGED handlers
    /\ UNCHANGED <<clock, fixed, published, eventAt, deleteDelay, history>>

\* CompleteOpen finds its own earlier commit.
CompleteAgain(c) ==
    /\ pc[c] = "finishing"
    /\ AlreadyCompleted(c)
    /\ Reply(c, "delivered")
    /\ UNCHANGED <<clock, fixed, published, row, audit, jobs, deleteDelay, history>>

\* Every attempt at CompleteOpen is refused and the handler returns the error.
CompleteRefused(c) ==
    /\ pc[c] = "finishing"
    /\ ~Completable(c) /\ ~AlreadyCompleted(c)
    /\ GiveUp(c, "refused")
    /\ answer' = [answer EXCEPT ![c] = "pending"]
    /\ UNCHANGED <<clock, fixed, published, row, audit, jobs, deleteDelay, history>>

\* Variant: the event is left.
FailOpenKeepsEvent(c) ==
    /\ pc[c] = "failing"
    /\ eventState[c] = "reserved"
    /\ IF oneTime /\ status = "opening" /\ opener = c
       THEN SetRow("active", None, 0)
       ELSE UNCHANGED row
    /\ Reply(c, "failed")
    /\ UNCHANGED <<clock, fixed, published, audit, jobs, deleteDelay, history>>

\* FailOpen: the event becomes 'delivery_failed' and the reservation this press
\* holds goes back to active, or to expired when the whisper's time is up.
FailOpen(c) ==
    /\ pc[c] = "failing"
    /\ eventState[c] = "reserved"
    /\ eventState' = [eventState EXCEPT ![c] = "failed"]
    /\ IF oneTime /\ status = "opening" /\ opener = c
       THEN SetRow(IF Expired THEN "expired" ELSE "active", None, 0)
       ELSE UNCHANGED row
    /\ Reply(c, "failed")
    /\ UNCHANGED <<clock, fixed, published, eventAt, jobs, deleteDelay, history>>

\* FailOpen finds no reserved event; the handler returns the error.
FailRefused(c) ==
    /\ pc[c] = "failing"
    /\ eventState[c] # "reserved"
    /\ GiveUp(c, "again")
    /\ answer' = [answer EXCEPT ![c] = "failed"]
    /\ UNCHANGED <<clock, fixed, published, row, audit, jobs, deleteDelay, history>>

\* The process dies, or PostgreSQL stays unreachable until the handler's
\* contexts end. The update is delivered again later.
HandlerLost(c) ==
    /\ "crash" \in Faults
    /\ InFlight(c)
    /\ GiveUp(c, "again")
    /\ lost' = lost \union {c}
    /\ UNCHANGED <<clock, fixed, published, row, audit, jobs, deleteDelay, answer,
                   accepted>>

----------------------------------------------------------------------------
\* The publication worker records the public envelope; MarkPublished does not
\* look at the whisper's status.
EnvelopePublished ==
    /\ ~published
    /\ status # "deleted"
    /\ published' = TRUE
    /\ UNCHANGED <<clock, fixed, row, audit, jobs, deleteDelay, handlers, history>>

\* Variant: a live lease is swept.
SweepAnyOpening ==
    /\ status = "opening"
    /\ ~Expired
    /\ clock < RetentionAt
    /\ SetRow("active", None, 0)
    /\ UNCHANGED <<clock, fixed, published, audit, jobs, deleteDelay, handlers, history>>

\* RunCleanup, third sweep: the whisper's time is up.
SweepExpired ==
    /\ status \in {"active", "opening"}
    /\ Expired
    /\ clock < RetentionAt
    /\ SetRow("expired", None, 0)
    /\ UNCHANGED <<clock, fixed, published, audit, jobs, deleteDelay, handlers, history>>

\* RunCleanup, fourth sweep: an opening lease ran out. The events are not read.
SweepOpenLease ==
    /\ status = "opening"
    /\ openLease <= clock
    /\ ~Expired
    /\ clock < RetentionAt
    /\ SetRow("active", None, 0)
    /\ UNCHANGED <<clock, fixed, published, audit, jobs, deleteDelay, handlers, history>>

\* The row goes, its events with it (ON DELETE CASCADE); deletion jobs stay.
DeleteRow ==
    /\ status # "deleted"
    /\ SetRow("deleted", None, 0)
    /\ eventState' = [c \in Presses |-> "none"]
    /\ eventAt' = [c \in Presses |-> 0]
    /\ UNCHANGED <<clock, fixed, published, jobs, deleteDelay, handlers, history>>

\* RunCleanup, retention sweep: whatever the earlier sweeps of the same
\* transaction did to the row, it is deleted.
SweepRetained == RetentionAt <= clock /\ DeleteRow

\* Variant: the open leases are not swept.
CleanupWithoutLeases == SweepExpired \/ SweepRetained

Cleanup == SweepExpired \/ SweepOpenLease \/ SweepRetained

\* OwnerDeleteWhisper looks at neither the status nor a running delivery.
OwnerDelete == DeleteRow

\* /owner_ephemeral sets the delay used by every later completion; 0 is "off".
OwnerSetDelay(d) ==
    /\ deleteDelay # d
    /\ deleteDelay' = d
    /\ UNCHANGED <<clock, fixed, published, row, audit, jobs, handlers, history>>

\* Time passes, but not beyond the moment a running handler is cancelled.
Tick ==
    /\ clock < MaxClock
    /\ \A c \in Presses : InFlight(c) => clock < deadline[c]
    /\ clock' = clock + 1
    /\ UNCHANGED <<fixed, published, row, audit, jobs, deleteDelay, handlers, history>>

Reserve(c) ==
    \/ ReserveDenied(c) \/ ReserveUnrecorded(c) \/ ReserveMissing(c)
    \/ ReserveReplayed(c) \/ ReserveAllowed(c)

Deliver(c) == SendAccepted(c) \/ SendRejected(c)

Finish(c) ==
    \/ CompleteOpen(c) \/ CompleteAgain(c) \/ CompleteRefused(c)
    \/ FailOpen(c) \/ FailRefused(c) \/ HandlerLost(c)

Next ==
    \/ \E c \in Presses : Reserve(c) \/ Deliver(c) \/ Finish(c)
    \/ EnvelopePublished
    \/ Cleanup
    \/ OwnerDelete
    \/ \E d \in DeleteDelays : OwnerSetDelay(d)
    \/ Tick

Spec == Init /\ [][Next]_vars

\* Time passes, the cleanup worker keeps running (internal/app/workers.go), and
\* a handler's contexts end it one way or another. Presses, the owner and the
\* publication worker owe nothing.
Fairness ==
    /\ WF_vars(Tick)
    /\ WF_vars(Cleanup)
    /\ \A c \in Presses : WF_vars(Deliver(c) \/ Finish(c))

FairSpec == Spec /\ Fairness

----------------------------------------------------------------------------
\* Every variable stays in its range.
TypeOK ==
    /\ clock \in 0..MaxClock
    /\ oneTime \in OneTimes
    /\ expiresAt \in ExpiryTimes
    /\ published \in BOOLEAN
    /\ status \in Statuses
    /\ opener \in Presses \union {None}
    /\ openLease \in Nat
    /\ eventState \in [Presses -> EventStates]
    /\ eventAt \in [Presses -> Nat]
    /\ jobs \subseteq Presses
    /\ deleteDelay \in DeleteDelays
    /\ pc \in [Presses -> PCs]
    /\ deadline \in [Presses -> Nat]
    /\ answer \in [Presses -> Answers]
    /\ accepted \in [Presses -> Nat]
    /\ lost \subseteq Presses

\* A press reaches Telegram at most once, however often its update is
\* processed again: the UNIQUE callback id stops the replay (opening.go,
\* ReserveOpen's insert).
OneSendPerPress == \A c \in Presses : accepted[c] <= 1

\* Two handlers never deliver a one-time whisper at the same time: the lease
\* outlasts the handler's own timeouts (main.go, OpenLease).
DeliveryExclusive ==
    oneTime => \A c, d \in Presses : InFlight(c) /\ InFlight(d) => c = d

\* A row in 'opening' names the press that holds it, whose event is reserved,
\* and its envelope has been published.
OpeningIsHeld ==
    status = "opening" =>
        /\ oneTime
        /\ published
        /\ opener \in Presses
        /\ eventState[opener] = "reserved"

\* A one-time whisper reads 'opened' exactly when one event is delivered, and
\* every delivered event has a message in the chat and a job that removes it.
OpenedMeansDelivered ==
    /\ \A c \in Presses :
          eventState[c] = "delivered" => c \in jobs /\ accepted[c] > 0
    /\ oneTime /\ status # "deleted" =>
          /\ status = "opened" <=> \E c \in Presses : eventState[c] = "delivered"
          /\ \A c, d \in jobs : c = d

\* CompleteOpen refuses a delivery Telegram accepted only when the whisper
\* expired or was deleted under the handler.
AcceptedIsRecorded ==
    oneTime => \A c \in Presses :
        pc[c] = "refused" => status \in {"expired", "deleted"}

\* What a presser was told is true: "already delivered" and "delivered" follow
\* a recorded delivery, "press again to retry" a press with none.
AnswersAreTrue ==
    \A c \in Presses :
        /\ answer[c] = "already_opened" => jobs # {}
        /\ answer[c] = "delivered" => c \in jobs
        /\ answer[c] = "failed" => c \notin jobs

\* A second message of a one-time whisper reaches the chat only after a handler
\* died or missed Telegram's reply, whatever the interleaving of presses,
\* cleanup, expiry and deletion.
OneMessage ==
    oneTime => \A c, d \in Presses :
        accepted[c] > 0 /\ accepted[d] > 0 => c = d \/ c \in lost \/ d \in lost

\* Every transaction takes the status along a legal edge, or deletes the row: a
\* consumed or expired whisper is never available again, and none is consumed
\* without a reservation.
LegalEdges ==
    [][status' \in {status, "deleted"} \/ CanTransitionTo(status, status')]_vars

\* While a lease runs, only the press that holds it gives the whisper back.
LeaseRespected ==
    [][status = "opening" /\ clock < openLease /\ status' = "active"
          => pc[opener] = "failing" /\ pc'[opener] # "failing"]_vars

\* A reservation does not outlive its lease: the handler settles it or the
\* cleanup worker takes it back (only leases that end before MaxClock count).
ReservationEnds ==
    (status = "opening" /\ openLease <= MaxClock) ~> status # "opening"

\* A handler that lives settles the event it reserved, or reports that it could
\* not.
ReservedIsSettled ==
    \A c \in Presses :
        (InFlight(c) /\ eventState[c] = "reserved")
            ~> (eventState[c] # "reserved" \/ pc[c] = "refused" \/ c \in lost)

\* The inductive invariant behind the safety properties, part by part.

\* A handler's time is not up; its send, and the record of it, are where its
\* program counter says.
HandlersAreTimely ==
    \A c \in Presses :
        /\ InFlight(c) => clock <= deadline[c]
        /\ pc[c] = "sending" => accepted[c] = 0
        /\ pc[c] = "finishing" => accepted[c] > 0

\* Of a one-time whisper, a handler in flight holds the lease for longer than it
\* can run, or has committed its delivery, or has lost the row.
HandlersHoldTheRow ==
    oneTime => \A c \in Presses : InFlight(c) =>
        \/ status = "opening" /\ opener = c /\ deadline[c] < openLease
           /\ eventState[c] = "reserved"
        \/ status = "opened" /\ pc[c] = "finishing" /\ eventState[c] = "delivered"
        \/ status \in {"expired", "deleted"}

\* A press that is being sent, or was accepted, keeps its event until the row
\* goes, and a deleted row leaves none.
EventsFollowSends ==
    /\ \A c \in Presses :
          pc[c] = "sending" \/ accepted[c] > 0 =>
              status = "deleted" \/ eventState[c] # "none"
    /\ status = "deleted" => \A c \in Presses : eventState[c] = "none"

\* A job of a one-time whisper belongs to its delivered event.
JobsFollowDeliveries ==
    oneTime /\ status # "deleted" =>
        \A c \in jobs : status = "opened" /\ eventState[c] = "delivered"

IndInv ==
    /\ TypeOK
    /\ OpeningIsHeld
    /\ DeliveryExclusive
    /\ OneSendPerPress
    /\ OpenedMeansDelivered
    /\ HandlersAreTimely
    /\ HandlersHoldTheRow
    /\ EventsFollowSends
    /\ JobsFollowDeliveries

\* What OneMessage needs beside IndInv. A message whose handler lived and heard
\* of it: no other is being sent, and its completion is still to come or the
\* whisper can no longer be opened.
MessagesAreAccounted ==
    oneTime => \A c \in Presses : accepted[c] > 0 /\ c \notin lost =>
        /\ \A d \in Presses : pc[d] # "sending"
        /\ pc[c] = "finishing" \/ status \in {"opened", "expired", "deleted"}

----------------------------------------------------------------------------
\* What the presses are together, whichever of them it is: the sender of OneDelivery.
SenderAmong(at) ==
    IF \E c \in Presses : at[c] = "sending" THEN "sending"
    ELSE IF \E c \in Presses : at[c] = "finishing" THEN "sent"
    ELSE IF \E c \in Presses : at[c] = "failing" THEN "failed"
    ELSE "nobody"

RecordOf(s) ==
    IF s = "opened" THEN "made" ELSE IF s \in {"expired", "deleted"} THEN "closed" ELSE "open"

Reached == {c \in Presses : accepted[c] > 0}
Missed  == {c \in lost : accepted[c] > 0}

Promise == INSTANCE OneDelivery WITH
    record <- RecordOf(status), sender <- SenderAmong(pc), out <- Reached, lost <- Missed

\* The presses of a one-time whisper implement one delivery: ReserveOpen admits a press
\* only when nobody sends and no message is left that its handler could still record,
\* and whoever gives up a message that he knows of has lost the row (opening.go).
DeliversOnce ==
    /\ oneTime => Promise!Init
    /\ [][oneTime => [Promise!Next]_(Promise!vars)]_vars

=============================================================================
