------------------------------ MODULE Composer ------------------------------
(***************************************************************************)
(* One sender and the private composer: /whisper opens a draft, the next   *)
(* private message becomes its secret, /cancel discards it.                *)
(*                                                                         *)
(* Each message is an update whose handler (internal/bot/messages.go) runs *)
(* a few transactions (internal/repository/drafts.go, finalize.go) with    *)
(* Telegram requests between them, and runs again when it returns an error *)
(* or dies.  Polling handles the messages in order, the webhook does not.  *)
(* The sender may also have a guest request that waits for a secret; here  *)
(* only its ingestion is modelled (internal/repository/guest.go).          *)
(***************************************************************************)
EXTENDS Naturals, FiniteSets

CONSTANTS
    Last,           \* messages are numbered 1..Last, in the order of their ids
    Starts,         \* what a behaviour starts from: the messages, the transport, the
                    \* guest request and what may go wrong
    MaxDrafts,      \* bound: drafts that can be created
    DraftTTL,       \* Options.DraftTTL
    IngestLease,    \* Options.IngestLease
    Window,         \* the hour of the rate limit
    MaxRecent,      \* Options.MaxWhispersPerUserPerHour
    MaxAttempts,    \* how often the processor runs a handler for one update
    MaxClock        \* bound: the clock stops here

Messages == 1..Last
Kinds    == {"whisper", "secret", "cancel", "none"}    \* "none" is never sent
Drafts   == 1..MaxDrafts

ASSUME ComposerAssumption ==
    /\ Last \in Nat /\ MaxDrafts \in Nat /\ MaxClock \in Nat /\ Window \in Nat
    /\ Starts \subseteq [kind : [Messages -> Kinds], polling : BOOLEAN,
                           guest : {"none", "awaiting_secret"},
                           faults : SUBSET {"crash", "database"}]
    /\ DraftTTL \in Nat \ {0} /\ IngestLease \in Nat \ {0}
    /\ MaxRecent \in Nat \ {0} /\ MaxAttempts \in Nat \ {0}

VARIABLES
    clock,
    kind, inOrder, faults,  \* the messages, the transport, and what may go wrong
    state, expiresAt,       \* per draft: state, "none" before its insert; expires_at
    ingestLease,            \* per draft: ingest_lease_until, 0 for NULL
    origin,                 \* per draft: its /whisper, source_command_message_id
    secret, storedAt,       \* per draft: the message stored as its whisper; created_at
    uncounted,              \* history: drafts whose whisper was committed between the
                            \* count of the hour and the insert of the next draft
    guest, guestLease,      \* the guest request: state, ingest_lease_until
    guestSecret,            \* the message stored in it, 0 for none
    pc, attempts,           \* per message: where its handler is; attempt_count
    askedAt,                \* per message: the instant its handler creates a draft for
    claim,                  \* per message: the draft and the lease its handler claimed
    broken                  \* history: messages whose handler failed after a commit

input    == <<kind, inOrder, faults>>
drafts   == <<state, expiresAt, ingestLease, origin>>
whispers == <<secret, storedAt, uncounted>>
request  == <<guest, guestLease, guestSecret>>
handlers == <<pc, attempts, askedAt, claim>>
vars     == <<clock, input, drafts, whispers, request, handlers, broken>>

States      == {"none", "awaiting", "ingesting", "completed", "cancelled", "expired"}
GuestStates == {"none", "awaiting_secret", "ingesting_secret", "ready", "cancelled",
                "expired"}
PCs == {"idle", "started", "asked", "counted", "inserting", "prompting", "cancelling",
        "to_guest", "to_draft", "claimed", "stored", "guest_claimed", "guest_stored",
        "releasing", "done"}
NoClaim == [draft |-> 0, lease |-> 0]

Open(d) == state[d] \in {"awaiting", "ingesting"}
ActiveAt(d, now) == Open(d) /\ now < expiresAt[d]
Active(d) == ActiveAt(d, clock)

----------------------------------------------------------------------------
Init ==
    /\ clock = 0
    /\ \E s \in Starts :
        kind = s.kind /\ inOrder = s.polling /\ guest = s.guest /\ faults = s.faults
    /\ state = [d \in Drafts |-> "none"]
    /\ expiresAt = [d \in Drafts |-> 0]
    /\ ingestLease = [d \in Drafts |-> 0]
    /\ origin = [d \in Drafts |-> 0]
    /\ secret = [d \in Drafts |-> 0]
    /\ storedAt = [d \in Drafts |-> 0] /\ uncounted = {}
    /\ guestLease = 0 /\ guestSecret = 0
    /\ pc = [m \in Messages |-> "idle"]
    /\ attempts = [m \in Messages |-> 0]
    /\ askedAt = [m \in Messages |-> 0]
    /\ claim = [m \in Messages |-> NoClaim]
    /\ broken = {}

\* The handler forgets its claim, and the instant of its draft, when it ends and
\* once they are of no more use.
Goto(m, next) ==
    /\ pc' = [pc EXCEPT ![m] = next]
    /\ claim' = [claim EXCEPT ![m] = IF next = "releasing" THEN @ ELSE NoClaim]
    /\ askedAt' = [askedAt EXCEPT ![m] = IF next \in {"counted", "inserting"} THEN @ ELSE 0]
    /\ UNCHANGED attempts

\* The handler's last request is its reply; where it returns the reply's error,
\* the update is handled again.
End(m) == \E next \in {"done", "idle"} : Goto(m, next)

SetDraft(d, s, l) ==
    /\ state' = [state EXCEPT ![d] = s]
    /\ ingestLease' = [ingestLease EXCEPT ![d] = l]
    /\ UNCHANGED <<expiresAt, origin>>

\* Processed, or out of attempts.
Settled(m) == pc[m] = "done" \/ (pc[m] = "idle" /\ attempts[m] = MaxAttempts)

\* The processor starts the handler. Polling first settles all earlier messages.
Start(m) ==
    /\ pc[m] = "idle" /\ kind[m] # "none"
    /\ attempts[m] < MaxAttempts
    /\ inOrder => \A n \in Messages : n < m => Settled(n)
    /\ pc' = [pc EXCEPT ![m] = "started"]
    /\ attempts' = [attempts EXCEPT ![m] = @ + 1]
    /\ UNCHANGED <<clock, input, drafts, whispers, request, askedAt, claim, broken>>

----------------------------------------------------------------------------
\* CountRecentWhispersBySender, for the hour before an instant.
RecentAt(now) == {d \in Drafts : secret[d] # 0 /\ now <= storedAt[d] + Window}

Recent == RecentAt(clock)

\* Variant: the limit is checked one whisper too late.
WithinQuotaOffByOne(now) == Cardinality(RecentAt(now)) <= MaxRecent

WithinQuota(now) == Cardinality(RecentAt(now)) < MaxRecent

\* service.CreateDraft reads the instant that the counts and the draft are made for.
AskDraft(m) ==
    /\ pc[m] = "started" /\ kind[m] = "whisper"
    /\ pc' = [pc EXCEPT ![m] = "asked"]
    /\ askedAt' = [askedAt EXCEPT ![m] = clock]
    /\ UNCHANGED <<clock, input, drafts, whispers, request, attempts, claim, broken>>

\* The handler holds the sender's advisory lock.
Creating(m) == pc[m] \in {"counted", "inserting"}

\* The transaction of CreateDraft, three statements that each see what is committed:
\* it waits for the lock and counts the active drafts ...
CountActive(m) ==
    /\ pc[m] = "asked"
    /\ ~\E n \in Messages : Creating(n)
    /\ ~\E d \in Drafts : ActiveAt(d, askedAt[m])
    /\ Goto(m, "counted")
    /\ UNCHANGED <<clock, input, drafts, whispers, request, broken>>

\* ... then the whispers of the hour ...
CountRecent(m) ==
    /\ pc[m] = "counted"
    /\ WithinQuota(askedAt[m])
    /\ Goto(m, "inserting")
    /\ UNCHANGED <<clock, input, drafts, whispers, request, broken>>

\* ... and inserts the draft. The other transactions on drafts do not take the lock.
CreateDraft(m) ==
    /\ pc[m] = "inserting"
    /\ ~\E d \in Drafts : Open(d)
    /\ \E d \in Drafts :
        /\ state[d] = "none" /\ \A e \in Drafts : e < d => state[e] # "none"
        /\ state' = [state EXCEPT ![d] = "awaiting"]
        /\ expiresAt' = [expiresAt EXCEPT ![d] = askedAt[m] + DraftTTL]
        /\ origin' = [origin EXCEPT ![d] = m]
    /\ Goto(m, "prompting")
    /\ UNCHANGED <<clock, input, ingestLease, whispers, request, broken>>

\* A quota refuses the draft, already in the service's own counts before the lock or
\* in those under it, and the sender is told.
CreateRefused(m) ==
    /\ \/ pc[m] = "asked" /\ \E d \in Drafts : ActiveAt(d, askedAt[m])
       \/ pc[m] \in {"asked", "counted"} /\ ~WithinQuota(askedAt[m])
    /\ End(m)
    /\ UNCHANGED <<clock, input, drafts, whispers, request, broken>>

\* An expired draft that cleanup has not swept is not counted, but it still
\* occupies idx_drafts_sender_active: the insert fails and the update is retried.
CreateConflict(m) ==
    /\ pc[m] = "inserting"
    /\ \E d \in Drafts : Open(d)
    /\ Goto(m, "idle")
    /\ UNCHANGED <<clock, input, drafts, whispers, request, broken>>

\* The sender got the prompt, or the group got the link to the composer.
Prompted(m) ==
    /\ pc[m] = "prompting"
    /\ Goto(m, "done")
    /\ UNCHANGED <<clock, input, drafts, whispers, request, broken>>

\* CancelLatestDraftForSender: one statement, on whatever draft is active now.
CancelLatest ==
    \/ \E d \in Drafts : Active(d) /\ SetDraft(d, "cancelled", 0)
    \/ ~(\E d \in Drafts : Active(d)) /\ UNCHANGED drafts

\* Neither went out: beginWhisper takes its draft back and returns the error.
PromptFailed(m) ==
    /\ pc[m] = "prompting"
    /\ CancelLatest \/ ("database" \in faults /\ UNCHANGED drafts)
    /\ Goto(m, "idle")
    /\ UNCHANGED <<clock, input, whispers, request, broken>>

\* handleCancel: the guest requests first ...
CancelGuest(m) ==
    /\ pc[m] = "started" /\ kind[m] = "cancel"
    /\ IF guest \in {"awaiting_secret", "ingesting_secret", "ready"}
       THEN guest' = "cancelled" /\ guestLease' = 0
       ELSE UNCHANGED <<guest, guestLease>>
    /\ Goto(m, "cancelling")
    /\ UNCHANGED <<clock, input, drafts, whispers, guestSecret, broken>>

\* ... then the draft. A failed reply is ignored once a draft was cancelled, but the
\* update's completion can fail as well.
CancelDraft(m) ==
    /\ pc[m] = "cancelling"
    /\ CancelLatest
    /\ End(m)
    /\ UNCHANGED <<clock, input, whispers, request, broken>>

----------------------------------------------------------------------------
\* Variant: a waiting guest request takes the message, draft or not.
RouteToGuest(m) ==
    /\ pc[m] = "started" /\ kind[m] = "secret"
    /\ Goto(m, "to_guest")
    /\ UNCHANGED <<clock, input, drafts, whispers, request, broken>>

\* ingestGuestSecret: a draft wins over a waiting guest request. When
\* HasActiveDraft fails the request is tried.
Route(m) ==
    /\ pc[m] = "started" /\ kind[m] = "secret"
    /\ \/ (\E d \in Drafts : Active(d)) /\ Goto(m, "to_draft")
       \/ ~(\E d \in Drafts : Active(d)) /\ Goto(m, "to_guest")
       \/ "database" \in faults /\ Goto(m, "to_guest")
    /\ UNCHANGED <<clock, input, drafts, whispers, request, broken>>

\* FindAwaitingGuestSecret and ClaimGuestIngest.
ClaimGuest(m) ==
    /\ pc[m] = "to_guest"
    /\ guest = "awaiting_secret"
    /\ guest' = "ingesting_secret"
    /\ guestLease' = clock + IngestLease
    /\ pc' = [pc EXCEPT ![m] = "guest_claimed"]
    /\ claim' = [claim EXCEPT ![m].lease = clock + IngestLease]
    /\ UNCHANGED <<clock, input, drafts, whispers, guestSecret, attempts, askedAt, broken>>

NoGuest(m) ==
    /\ pc[m] = "to_guest"
    /\ guest # "awaiting_secret"
    /\ Goto(m, "to_draft")
    /\ UNCHANGED <<clock, input, drafts, whispers, request, broken>>

\* An album or an unsupported message: the reply, but no release of the claim.
GuestUnusable(m) ==
    /\ pc[m] = "guest_claimed"
    /\ End(m)
    /\ UNCHANGED <<clock, input, drafts, whispers, request, broken>>

HoldsGuest(m) == guest = "ingesting_secret" /\ guestLease = claim[m].lease

\* Variant: a draft gets the message as well.
FinalizeGuestAndGoOn(m) ==
    /\ pc[m] = "guest_claimed"
    /\ HoldsGuest(m)
    /\ guest' = "ready" /\ guestLease' = 0 /\ guestSecret' = m
    /\ Goto(m, "to_draft")
    /\ UNCHANGED <<clock, input, drafts, whispers, broken>>

\* FinalizeGuest. When the commit's reply is lost its release finds nothing to do.
FinalizeGuest(m) ==
    /\ pc[m] = "guest_claimed"
    /\ HoldsGuest(m)
    /\ guest' = "ready" /\ guestLease' = 0 /\ guestSecret' = m
    /\ \/ Goto(m, "guest_stored") /\ UNCHANGED broken
       \/ "database" \in faults /\ End(m) /\ broken' = broken \union {m}
    /\ UNCHANGED <<clock, input, drafts, whispers>>

\* The download fails, the content is refused, or the claim is gone; then the
\* deferred ReleaseGuestIngest, whose error is ignored.
GuestFailed(m) ==
    /\ pc[m] = "guest_claimed"
    /\ IF HoldsGuest(m)
       THEN \/ guest' = "awaiting_secret" /\ guestLease' = 0
            \/ "database" \in faults /\ UNCHANGED <<guest, guestLease>>
       ELSE UNCHANGED <<guest, guestLease>>
    /\ End(m)
    /\ UNCHANGED <<clock, input, drafts, whispers, guestSecret, broken>>

\* The sender is told; a failed reply is returned as an error.
GuestStored(m) ==
    /\ pc[m] = "guest_stored"
    /\ \/ Goto(m, "done") /\ UNCHANGED broken
       \/ Goto(m, "idle") /\ broken' = broken \union {m}
    /\ UNCHANGED <<clock, input, drafts, whispers, request>>

----------------------------------------------------------------------------
Claimable(d) ==
    /\ Active(d)
    /\ state[d] = "awaiting" \/ ingestLease[d] <= clock

\* ClaimLatestDraftIngest.
ClaimDraft(m) ==
    /\ pc[m] = "to_draft"
    /\ \E d \in Drafts :
        /\ Claimable(d)
        /\ SetDraft(d, "ingesting", clock + IngestLease)
        /\ claim' = [claim EXCEPT ![m] = [draft |-> d, lease |-> clock + IngestLease]]
    /\ pc' = [pc EXCEPT ![m] = "claimed"]
    /\ UNCHANGED <<clock, input, whispers, request, attempts, askedAt, broken>>

\* No draft to claim, or a message that cannot be a secret: only a reply.
NoDraft(m) ==
    /\ pc[m] = "to_draft"
    /\ End(m)
    /\ UNCHANGED <<clock, input, drafts, whispers, request, broken>>

HoldsDraft(m) ==
    /\ state[claim[m].draft] = "ingesting"
    /\ ingestLease[claim[m].draft] = claim[m].lease

\* The whisper carries, and the deadlines are compared with, the instant read
\* before its content was encrypted: any since the claim.
StoreWhisper(m) ==
    /\ \E now \in (claim[m].lease - IngestLease)..clock :
        /\ now < expiresAt[claim[m].draft] /\ now < claim[m].lease
        /\ secret' = [secret EXCEPT ![claim[m].draft] = m]
        /\ storedAt' = [storedAt EXCEPT ![claim[m].draft] = now]
    /\ uncounted' = IF \E n \in Messages : pc[n] = "inserting"
                    THEN uncounted \union {claim[m].draft}
                    ELSE uncounted

\* Variant: the draft is not completed.
FinalizeLeavesDraft(m) ==
    /\ pc[m] = "claimed"
    /\ HoldsDraft(m)
    /\ StoreWhisper(m)
    /\ SetDraft(claim[m].draft, "awaiting", 0)
    /\ Goto(m, "stored")
    /\ UNCHANGED <<clock, input, request, broken>>

\* FinalizeDraft: the whisper and the end of its draft in one transaction. When
\* the commit's reply is lost the handler goes on as if it had failed.
FinalizeDraft(m) ==
    /\ pc[m] = "claimed"
    /\ HoldsDraft(m)
    /\ StoreWhisper(m)
    /\ SetDraft(claim[m].draft, "completed", 0)
    /\ \/ Goto(m, "stored") /\ UNCHANGED broken
       \/ "database" \in faults /\ Goto(m, "releasing") /\ broken' = broken \union {m}
    /\ UNCHANGED <<clock, input, request>>

\* The download fails, the content is refused, or FinalizeDraft finds the lease
\* or the draft's time over.
IngestFailed(m) ==
    /\ pc[m] = "claimed"
    /\ Goto(m, "releasing")
    /\ UNCHANGED <<clock, input, drafts, whispers, request, broken>>

\* The deferred ReleaseDraftIngest; its error is ignored.
Release(m) ==
    /\ pc[m] = "releasing"
    /\ IF HoldsDraft(m)
       THEN SetDraft(claim[m].draft, "awaiting", 0)
            \/ ("database" \in faults /\ UNCHANGED drafts)
       ELSE UNCHANGED drafts
    /\ End(m)
    /\ UNCHANGED <<clock, input, whispers, request, broken>>

\* The envelope is left to Publication. Before it, finalize reads the recipient,
\* and after it a refused publication ends in a reply: both can fail.
Stored(m) ==
    /\ pc[m] = "stored"
    /\ \/ Goto(m, "done") /\ UNCHANGED broken
       \/ Goto(m, "idle") /\ broken' = broken \union {m}
    /\ UNCHANGED <<clock, input, drafts, whispers, request>>

\* The process dies under a handler, or a statement or its reply is lost: the update
\* comes again.
Lost(m) ==
    /\ faults # {}
    /\ pc[m] \notin {"idle", "done"}
    /\ Goto(m, "idle")
    /\ broken' = IF pc[m] \in {"stored", "guest_stored"} THEN broken \union {m} ELSE broken
    /\ UNCHANGED <<clock, input, drafts, whispers, request>>

----------------------------------------------------------------------------
\* RunCleanup on drafts: stale ones expire, abandoned leases are released.
SweepExpired ==
    /\ \E d \in Drafts :
        Open(d) /\ expiresAt[d] <= clock /\ SetDraft(d, "expired", 0)
    /\ UNCHANGED <<clock, input, whispers, request, handlers, broken>>

SweepIngest ==
    /\ \E d \in Drafts :
        /\ state[d] = "ingesting"
        /\ ingestLease[d] <= clock /\ clock < expiresAt[d]
        /\ SetDraft(d, "awaiting", 0)
    /\ UNCHANGED <<clock, input, whispers, request, handlers, broken>>

SweepGuest ==
    /\ guest = "ingesting_secret"
    /\ guestLease <= clock
    /\ guest' = "awaiting_secret" /\ guestLease' = 0
    /\ UNCHANGED <<clock, input, drafts, whispers, guestSecret, handlers, broken>>

\* Variant: an abandoned claim of the guest request stays.
CleanupOfDraftsOnly == SweepExpired \/ SweepIngest

Cleanup == SweepExpired \/ SweepIngest \/ SweepGuest

\* The guest request's time is up.
GuestExpires ==
    /\ guest \in {"awaiting_secret", "ingesting_secret", "ready"}
    /\ guest' = "expired" /\ guestLease' = 0
    /\ UNCHANGED <<clock, input, drafts, whispers, guestSecret, handlers, broken>>

Tick ==
    /\ clock < MaxClock
    /\ clock' = clock + 1
    /\ UNCHANGED <<input, drafts, whispers, request, handlers, broken>>

\* handleGroupMessage and handlePrivateMessage, step by step.
Handle(m) ==
    \/ AskDraft(m) \/ CountActive(m) \/ CountRecent(m)
    \/ CreateDraft(m) \/ CreateRefused(m) \/ CreateConflict(m)
    \/ Prompted(m) \/ PromptFailed(m)
    \/ CancelGuest(m) \/ CancelDraft(m)
    \/ Route(m) \/ ClaimGuest(m) \/ NoGuest(m)
    \/ GuestUnusable(m) \/ FinalizeGuest(m) \/ GuestFailed(m) \/ GuestStored(m)
    \/ ClaimDraft(m) \/ NoDraft(m) \/ FinalizeDraft(m) \/ IngestFailed(m)
    \/ Release(m) \/ Stored(m)

Next ==
    \/ \E m \in Messages : Start(m) \/ Handle(m) \/ Lost(m)
    \/ Cleanup
    \/ GuestExpires
    \/ Tick

Spec == Init /\ [][Next]_vars

\* Time passes and the cleanup worker runs. The handlers owe nothing.
FairSpec == Spec /\ WF_vars(Tick) /\ WF_vars(Cleanup)

----------------------------------------------------------------------------
\* Every variable stays in its range.
TypeOK ==
    /\ clock \in 0..MaxClock
    /\ kind \in [Messages -> Kinds] /\ inOrder \in BOOLEAN
    /\ faults \subseteq {"crash", "database"}
    /\ state \in [Drafts -> States]
    /\ expiresAt \in [Drafts -> Nat] /\ ingestLease \in [Drafts -> Nat]
    /\ origin \in [Drafts -> 0..Last]
    /\ secret \in [Drafts -> 0..Last] /\ storedAt \in [Drafts -> 0..MaxClock]
    /\ uncounted \subseteq Drafts
    /\ guest \in GuestStates
    /\ guestLease \in Nat /\ guestSecret \in 0..Last
    /\ pc \in [Messages -> PCs]
    /\ attempts \in [Messages -> 0..MaxAttempts]
    /\ askedAt \in [Messages -> 0..MaxClock]
    /\ claim \in [Messages -> [draft : 0..MaxDrafts, lease : Nat]]
    /\ broken \subseteq Messages

\* A draft is completed exactly when its secret is stored: a secret that lost the
\* race with /cancel, with the draft's deadline or with another message of the
\* sender leaves nothing behind.
StoredIffCompleted == \A d \in Drafts : state[d] = "completed" <=> secret[d] # 0

Copies(m) ==
    Cardinality({d \in Drafts : secret[d] = m}) + (IF guestSecret = m THEN 1 ELSE 0)

\* A message is stored for a second recipient only when its handler failed or
\* died after the first had been committed.
CopiesAreExplained == \A m \in Messages : Copies(m) > 1 => m \in broken

\* The quota is counted before a draft is inserted and long before its whisper is
\* stored. Where the messages are handled one after another the hour still never has
\* more whispers than the configured maximum. With the webhook the whisper of an
\* expired draft can be committed between the count and the insert of the next one;
\* only such a whisper escapes the quota, and never more than one at a time.
RateLimit ==
    /\ Cardinality(Recent \ uncounted) <= MaxRecent
    /\ Cardinality(Recent) <= IF inOrder THEN MaxRecent ELSE MaxRecent + 1

\* internal/bot/messages.go:258: an explicit /whisper draft always wins the
\* private composer. With polling, and as long as PostgreSQL answers, no message
\* is claimed for the guest request while a draft is active.
DraftWins ==
    [][inOrder /\ "database" \notin faults
          /\ guest = "awaiting_secret" /\ guest' = "ingesting_secret" =>
       ~\E d \in Drafts : Active(d)]_vars

\* The composer does not stay occupied: a draft ends at its deadline at the latest
\* and a claim on the guest request with its lease, whatever became of the
\* handlers and where one returns without releasing it (messages.go:276). Only
\* deadlines before MaxClock count.
ComposerIsFreed ==
    /\ \A d \in Drafts : (Open(d) /\ expiresAt[d] <= MaxClock) ~> ~Open(d)
    /\ (guest = "ingesting_secret" /\ guestLease <= MaxClock)
           ~> (guest # "ingesting_secret" \/ guestLease > MaxClock)
=============================================================================
