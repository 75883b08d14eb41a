# Secret media bot: a verification project

The bot delivers a private message ("whisper") into a Telegram group. The sender
writes `/whisper @someone` in the group and then the secret in the private chat;
the bot stores it encrypted, posts a public envelope with a button, and shows the
secret to its recipient, once, as an ephemeral message when the button is pressed.
All state lives in PostgreSQL; handlers, workers and several processes meet only
there. What can go wrong is what happens *between* transactions: a request to
Telegram whose answer is lost, a process that dies, a lease that runs out under a
slow handler, an update that is delivered again.

The modules here model those protocols, and TLC checks them on small instances. For
instances of every size TLAPS proves every safety property that a passing run checks:
of the opening protocol, the publication of the envelope, the whole life of a whisper,
which implements both, the handling of updates, the composer, guest mode with the
deletion of its messages, the owner's commands, the life of the process, and the
agreement of the cleanup with the schema; and that opening and publication implement one
abstract delivery (`OneDelivery`).

## 1. The system

### Components, their state and their operations

| component | code | state | operations |
|---|---|---|---|
| opening protocol | `repository/opening.go`, `service/open.go`, `bot/callback.go` | `whispers.status`, `opening_callback_query_id`, `opening_lease_until`; `whisper_open_events`; `ephemeral_delete_jobs` | `ReserveOpen`, send, `CompleteOpen`, `FailOpen` |
| envelope publication | `repository/publish.go`, `service/publish.go`, `bot/publish.go`, `app/publication_worker.go` | `publish_state`, `publish_lease_until`, `next_publish_attempt_at`, the encrypted callback token | `ClaimPublish`, `ClaimNextPublish`, send, `MarkPublished`, `RetryPublish`, `FailPublish` |
| update processing | `app/processor.go`, `app/poller.go`, `httpserver/server.go`, `repository/updates.go` | `processed_updates`; the poller's offset, in memory | `ClaimUpdate`, the handler, `CompleteUpdate`, `FailUpdate` |
| drafts, ingestion, finalization | `repository/drafts.go`, `finalize.go`, `service/drafts.go`, `ingest.go`, `bot/messages.go` | `whisper_drafts`, the new `whispers` row | `CreateDraft`, `ClaimLatestDraftIngest`, `FinalizeDraft`, `ReleaseDraftIngest`, `CancelLatestDraftForSender` |
| guest mode | `repository/guest.go`, `service/guest.go`, `bot/guest.go` | `guest_secret_requests` and its payloads and delete jobs | request, claim target, ingest, open, complete, fail, cancel, delete |
| delete jobs | `app/workers.go`, `repository/updates.go` (`ClaimDueEphemeralDelete`) | `ephemeral_delete_jobs`, `guest_private_delete_jobs` | claim, delete the message, complete, retry, give up |
| cleanup worker | `app/workers.go`, `repository/cleanup.go` | every table | one transaction of sweeps: expiry, abandoned leases, retention |
| owner commands | `repository/owner.go`, `service/owner.go`, `bot/owner*.go` | `owner_audit_events`, `retention_delete_at`, the delete-after setting; the browser's state, in the data of its buttons | lists and their pages, details, `OwnerReview`, `OwnerDeleteWhisper`, `OwnerUpdateRetention`, set delete-after |
| identity and membership | `repository/identity.go`, the last statements of `repository/cleanup.go` | `users`, `chats`, `chat_members`, and every foreign key on them | `ObserveMembership`, `RegisterPrivateUser`, `FindActiveMemberByUsername`, removal by age |
| the process | `cmd/bot/main.go`, `httpserver/server.go` | the connection pool, the listener, the runners' goroutines, two signal channels, Telegram's webhook registration | start, run, shut down, exit |
| domain types, parsing, tokens, encryption, Telegram client, routing, configuration, metrics | the rest of `internal/` | configuration | pure functions, I/O |

Interactions. A message or a press is an *update*. The update processor claims it
under a lease and calls the bot's handler, which calls the service, which runs
repository transactions; between two transactions the handler calls the Bot API. A
handler's error (or the death of the process) makes the update come again.
Finalization creates the row that publication and opening share: publication moves
`publish_state`, opening moves `status`, cleanup and the owner move either or delete
the row. A completed open queues a delete job. Every row of a draft, whisper or request
names users, a group and members, which cleanup may remove only after it. The process
owns what all of them use: the pool, the context that tells loops to end, and the
listener the webhook comes through.

Hard behaviours, and where they bite, are the `hazards` of `PROJECT.json`, each with
its line and the properties that would catch it. In short: two presses at once; a
lost Bot API reply taken for a failure; a crash between the send and its record; a
lease that ends under a live handler; expiry, owner deletion or a changed setting
under a delivery; the publication worker racing the request that stored the secret;
an update handled twice; an update stream that must neither lose, reorder nor
stall; a draft, its deadline, `/cancel` and two messages competing for it; a shutdown
that closes the pool under a worker, a runner that ends by itself, a webhook that an
earlier process left; pages of a list that moves; one foreign key that stops all
sweeps.

### What makes each component correct

* Opening: one message per one-time whisper unless somebody died or was not told;
  `opened`, the delivered event and the deletion job go together; answers are true;
  a reservation ends.
* Publication: one envelope unless a publisher died or was not told; `published`
  means posted, and the sender does not read both that and the opposite; a
  publication does not stay claimed.
* Whisper: no secret before its envelope, no envelope under a reservation.
* Updates: one handler at a time, effects repeated only if unrecorded, what is
  processed stays so, nothing skipped, nothing stands still.
* Composer: a secret is stored exactly when its draft is completed, once unless its
  handler failed; it goes to the draft before a guest request; the hourly quota
  holds, but for one whisper that the webhook can slip past it; drafts and claims end.
* Guest mode: only the target gets the secret, and one message unless an accident
  befell the first; what was delivered is on record; what is over stays over; one
  request waits for the sender's next message; a delivery ends.
* Delete jobs: a message that was to be deleted is deleted or knowingly left, and a
  due job does not stay open, also when its request is gone.
* Owner: a walk through a list shows everything once asked for; the audit knows of
  every content that left and of each deletion once; what the owner reads is so.
* Identity: the sweeps agree with the foreign keys, so that no row stops them for
  good, and nobody is remembered without a reason.
* Process: what was begun can be recorded; the exit code tells what happened; updates
  come one way; a process that is to end does end.

## 2. The modules

```
Opening ──┐                     Updates      (stands alone: any handler)
          ├── Lifecycle         Composer     (one sender's messages)
Publication ┘
OneDelivery   (abstract; Opening and Publication each implement it)
DeleteJobs ── Guest                     (one sender's requests, their messages' jobs)
Owner         (stands alone: one browser over the rows of whispers)
Identity      (rows, foreign keys, one cleanup transaction)
Rollback      (Identity's raced and failed, with what must hold of them)
Process       (stands alone: any work a loop or a request may do)

<Module>Proofs EXTENDS its module and TLAPS: Opening, Publication, Lifecycle, Updates,
               Composer, Guest (with DeleteJobs), Process
RemovalProofs  EXTENDS Owner and Rollback, and instantiates Identity
MC<Module>     values for TLC: symmetry sets, conversations, scenes, budgets
```

A repository transaction is one action where it is a single statement, or where the row it
decides by is locked from its first read to its commit, so that nothing comes between its
guard and its assignments. Three transactions lock less, run at READ COMMITTED and are
several actions, one per statement or group of statements: `CreateDraft` in Composer and
`CreateGuestRequest` in Guest, whose advisory locks keep out only other creations of the
same sender, and `RunCleanup` in Identity. A
request to Telegram is an action of its own with the outcomes its caller can tell
apart. Definitions carry the names of the code where there is one, and `map` in
`PROJECT.json` gives the lines each stands for. History variables (`accepted`,
`lost`, `envelopes`, `losses`, `commits`, `unrecorded`, `broken`, `excused`, `asked`,
`leftBehind`, `unasked`, `abandoned`, `walk`, `sent`, `removed`, `raced`, `failed`, `uncounted`)
record what the program does not; no guard reads them. Operators marked
"Variant" are not used by the specification. They are the plausible mistakes each
property is tried against.

**Opening** models one whisper and a set of presses (callback query ids). `status`,
`opener`, `openLease` are the columns of `whispers`, `eventState` and `eventAt` the
row of `whisper_open_events` per press, `jobs` the rows of
`ephemeral_delete_jobs`, `pc` where the handler in `callback.go` is, `deadline` when
its contexts cancel it. `Reserve` is `ReserveOpen` with its early returns in order
(`Verdict`), its audit insert with the CHECK on outcomes and the UNIQUE callback id
(`RecordableOutcomes`, `CallbackRejected`), and the answers of `mapOpenError`
(`Explain`). `Deliver` is the Bot API call, with a lost reply as
an outcome; `Finish` is `CompleteOpen` or `FailOpen`; `HandlerLost` a crash.
`Cleanup` has the sweeps of `RunCleanup`. `OwnerDelete` and `OwnerSetDelay` are the
owner's commands. A handler whose update is retried starts again from `Reserve`.

**Publication** models one envelope: the request that stored the secret, the workers
of all processes, claims by lease, the four ways a Bot API call ends (accepted,
refused for good, refused for now, no reply), and `MarkPublished`, `RetryPublish`,
`FailPublish`, each under its lease comparison. `told` is what the sender has read.
What presses do to `status` is left open here (`Press`) and
made precise by Lifecycle.

**OneDelivery** is what both promise, without leases, clocks, sweeps or events: a
record that is open, made or closed; one sender at a time; the messages that are out,
and those of them that are lost because nobody can record them any more. `Admit` needs
an open record, no sender, and no message that is not lost; `Record` follows a message
the sender knows of; `Leave` loses it, unless there is nothing to be recorded any more.
`Promise` in Opening and in Publication gives the mapping (`SenderAmong`, `RecordOf`),
`DeliversOnce` the property. Opening implements it for a one-time whisper only: a reusable
one is sent to whoever presses.

**Lifecycle** runs both over one row and one clock. It has no transition of its own
on the columns: each step is a step of one instance, or of both where one
statement changes both (expiry, retention, owner deletion). That each component,
seen alone, is an abstraction of the whole is checked as refinement
(`ImplementsOpening` with `published <- (publishState = "published")`,
`ImplementsPublication`).

**Updates** models Telegram's queue, the poller with its in-memory offset and batch,
the webhook, workers, and rows of `processed_updates` with attempts, lease, and the
hash of the payload as the running build encodes it. Time is what is left of a
lease or of a handler's contexts. A poller that starts again asks with offset 0 and gets
the first update that was not confirmed (`FirstPending`).

**Composer** models one sender's messages: their handlers in `messages.go` step by
step, drafts with deadline and ingestion lease, the whisper each stores, and a guest
request that competes for the secret. Polling handles messages in order, the webhook
in any order. A handler that fails, or dies, runs again, up to `MaxAttempts`. A `/whisper`
reads the clock once (`AskDraft`, `askedAt`); the counts that the service makes before the
transaction can only refuse (`CreateRefused`). The transaction of `CreateDraft` takes the
sender's advisory lock, which nothing else takes: `CountActive`, `CountRecent` and the
insert, `CreateDraft` or `CreateConflict`, are three steps, and `FinalizeDraft`, a sweep, a
`/cancel` or a claim can come between them. `uncounted` are the drafts whose whisper was
committed between the count of the hour and the insert.

**Guest** models one sender's guest requests from the query to the deleted message.
An update is a query (`envelope` without a text, `instant` with one), a private
`secret`, a `/cancel`, or a press on the link of an envelope that was posted
(`open`), by any user. A row of `guest_secret_requests` is named by the update that
inserts it; an inline query with a text creates two rows and counts as two updates.
`CreateGuestRequest` locks the sender (an advisory lock) and no row, so it is two
actions, `Check` and then `Reuse` or `Insert`, and cleanup, cancelling, ingesting or
opening may come between them. Opening a request is `Begin` (`BeginGuestSession`,
`ClaimGuestTarget`), `ClaimOpen`, `Send`, and `CompleteOpen` or `FailOpen`. A token is
drawn for each run of a creating handler; `posted` are the tokens on the buttons.
`excused` are the deliveries whose record a crash, a failing statement, a lease that
ran out or the end of the request prevented.

**DeleteJobs** is the queue of messages to delete and its draining loop, a claim, a
request and a record. It has no next-state relation of its own; Guest instantiates
it. Both queues of the code run through the same loop, so it stands for either.

**Owner** models the owner's commands and his browser, one message that is edited into
lists, details and confirmations. `created` is the `created_at` of the rows of
`whispers`, 0 where there is none, and `newest` the last that was given; `named` are
the usernames, `due` the rows whose retention has ended. A list is what matches a query
by sender, name or kind, and a `Page` of it are the whispers whose `Place` in the ORDER
BY lies between OFFSET and OFFSET + LIMIT; `Buttons` are the presses a screen offers,
with the query that `encodeOwnerState` leaves of it (`Navigation`, `Encoded`), which is
all the browser remembers. A handler reads (`ReadList`, `ReadItem`, `ReadForReview` and
`FetchContent`, `Delete`, `Retain`, one transaction each) and then makes its requests
to Telegram in order, each accepted, or failed with or without its effect; a failure
makes the update come again. Meanwhile whispers arrive, age and are swept, and senders
change names. `walk` is the path of an owner who presses Next until there is none (what
matched when he began, what he saw, and what lay before the ends of his pages),
`retrieved` and `deleted` the audit.

**Identity** models the rows of one group: `rows` that name each other (`Named`), those
past their retention (`old`), and the transaction of `RunCleanup` that removes them,
statement by statement, in the order of `Sweeps`. A statement is two actions: `Select`
with the NOT EXISTS of the statement (`KeptBy`), and `Delete`, which the foreign keys may
refuse (`Rollback`), because handlers insert between them. `Resolve` and
`CreateDraft` are two transactions in the code too: between them the
member found may be removed. How a draft or a request lives is left out; here it is a row
that ages.

**Process** models `main` and `run`: the startup step by step (`After`), the goroutines
of the runners with the channel their ends go into, the select of the main goroutine,
`server.Shutdown` with its timeout, `runners.Wait`, the deferred calls, the exit code; the
two channels a signal goes into, with the goroutine that calls `os.Exit(130)`; and
a next process that may run in the other update mode. A loop's work is a call to
Telegram, which `runCtx` cancels, and a record under a context detached from it
(`context.WithoutCancel`, `workers.go:351`). Any step of the startup may fail, and
the server may end by itself.

## 3. The runs

| run | instance | question | verdict |
|---|---|---|---|
| `opening` | 2 presses of the recipient, 1 of a stranger, one-time and reusable, crashes and lost replies | the safety of the lease protocol and its inductive invariant, which contains the type invariant | pass |
| `opening_live` | 2 presses under fairness, two lifetimes, two delete delays | reservations end, reserved events are settled | pass |
| `opening_delay_off` | 2 presses, no fault, delay 0 allowed | a delivery that was accepted is recorded | violated |
| `publication` | 2 workers and the request, crashes, lost replies, fairness | the lease protocol of the envelope, what the sender is told, and that it does not get stuck | pass |
| `lifecycle` | 2 presses, 1 worker, the request, crashes, two delete delays | both refinements and the exclusion of the two protocols | pass |
| `updates` | 2 updates, 2 workers, both transports, budgets within and beyond the lease, a crash, a release, failing database | exclusivity, effects, order, finality, progress | pass |
| `composer` | conversations of 3 messages, polling with a guest request, webhook with and without; one of 4 by polling | which draft a secret meets, copies, by how much the hourly quota can be exceeded, leases, ends | pass |
| `guest` | conversations of 3 updates, two followers of the link, a worker, crashes or a failing database, fairness | who gets the secret, how often, what is recorded, what becomes of the message | pass |
| `guest_reuse` | two envelopes for one target, a press, no fault | `repository/guest.go:310`: a reused request answers the current query | violated |
| `owner` | 4 whispers of 2 senders and one that arrives, pages of 2, 3 or 4 updates in 6 scenes: walks with arrivals, removals, renames or faults, and visits with faults, by polling and webhook | what a walk shows, what the audit knows, what the owner reads | pass |
| `identity` | 2 people, a draft with its whisper and job, a guest request, 1 further observation, fairness | whether a foreign key can stop the sweeps for good, and whether all that is over goes | pass |
| `process` | 2 workers, the poller, the server, 1 webhook request, 2 signals, 2 starts in either mode, fairness | what a shutdown cuts off, the exit code, the transport, the end | pass |

Bounds. Clocks stop at `MaxClock`; except in Guest and Composer it lies behind the last instant at
which anything is due (expiry, retention, a lease taken at the last useful moment), so
every order of deadlines occurs. Leases are 2 (1 in Composer) and handlers' budgets
are 1 below them: the smallest values where a lease can end early, late and at the
deadline. Expiry falls inside the bound and, where liveness is asked, also beyond
it. Two competitors for each resource suffice for a race, and the third press (a
stranger) adds the denials; presses of the recipient are interchangeable, which is
the symmetry of the safety runs (never of the live ones). `MaxAttempts` is 2, the
first value at which a retry exists and runs out. `MaxCrashes` is 1 in Updates; 2
crashes with 3 attempts were run as well with the same result. Composer's webhook
instances are smaller in the guest request and the faults than its polling ones,
because their interleavings multiply: each conversation with crashes and no guest
request, and the one with `/cancel` with both a guest request and a failing database.
Its clock stops when a draft created at the start has expired: there a new `/whisper` no
longer counts the draft, while a handler that read the clock before may still finalize it.
`MaxRecent` is 1, so with the webhook, where the second secret is the first one handled
again or another message, two whispers fall into the hour exactly if the first escaped the
count; by polling two whispers within the hour need two messages and two secrets, hence
the conversation of 4. (`"none"` fills the shorter conversations.)
Guest runs five conversations, each with its own faults, transport and number of
attempts per update: two presses racing for an instant secret; a request, its secret
and a press; two requests with and without a common target; an instant secret
and `/cancel`. Its clock stops at 3, where requests expire and are pruned; `OpenLease`
is 2 and a send takes 1, so a lease outlives its send by one unit and a second
delivery after it fits; a job's lease is 1, the first that can run out. The username
changes hands once. Owner's pages hold 2 of 4 whispers, and a fifth arrives and may be
removed again: a walk has two full pages, the smallest list in which a removal or an arrival
shifts a page that is still to come; 4 updates are a command, two further pages and one press more.
Identity needs two people, because a draft names two, and one row of each kind, since no
statement relates two of a kind; its behaviours never deadlock, for the cleanup goes on
after all is gone. Process needs two workers for one to be at work when another ends, two
signals for the second, and two starts for what the first leaves to the second.
`CHECK_DEADLOCK FALSE` is set where a behaviour ends: all updates done, the clock at
its bound, the last process gone.

Fairness. Time passes. The cleanup worker is a ticker loop that survives its errors
(`app/workers.go`), the publication worker and the poller likewise. A handler in
flight ends because every Bot API call and every finishing transaction runs under a
context with a timeout. Telegram repeats an unacknowledged update. Nothing else is
owed: no press, owner command, retry or favourable outcome is assumed, and Composer
assumes nothing of handlers. Guest assumes that the clock, cleanup and the loops of
the delete workers run, and that a transaction or a request in flight ends (`Reuse`,
`Insert`, `Send`), because the clock waits for them. Process assumes that its main
goroutine goes on (`Shutdown` has a timeout, `HTTP_SHUTDOWN_TIMEOUT`), that a signal
reaches its context, and that a runner comes back from its requests and records, all of
which run under a timeout; the goroutine that forces an exit, the server and webhook
requests owe nothing. Identity assumes the cleanup worker, that every row ages, and that
a handler that has resolved its recipient goes on; Owner assumes nothing. Liveness near the end of the
clock is stated only for leases that end before the bound.

Assumptions taken from the configuration. `OpeningAssumption`: the send and finish
timeouts of a press together are shorter than `OpenLease` (`main.go:283` adds five
seconds to the callback window). `PublicationAssumption`: the same for an
attempt to publish (`config.go` validates it). `LifecycleAssumption` is both at once.
Updates does *not* assume it: the
update lease of `main.go:310` is computed from one download and three requests,
which a handler can exceed, so the budget may lie on either side and the properties
say where they need it within. `DeleteJobsAssumption`: the request and the write of a
job end before its lease (8 s and 3 s under 20 s, `workers.go:15`).
`GuestAssumption`: a send ends before `OpenLease`. The default values satisfy it
(`main.go:283`, `TELEGRAM_REQUEST_TIMEOUT`), no validation does; the completion that
follows has no timeout of its own (`messages.go:386`), and none is assumed.

## 4. What is proved

`OpeningProofs` proves, for every set of presses, every choice of times and delays
that satisfies `OpeningAssumption`, and every combination of faults:

| theorem | what it establishes |
|---|---|
| `TypeCorrect` | `TypeOK` |
| `Inductive` | `IndInv`, which contains the next three |
| `Exclusive` | `DeliveryExclusive`: two handlers never deliver a one-time whisper at the same time |
| `SentOnce` | `OneSendPerPress` |
| `Held`, `Delivered` | `OpeningIsHeld`, `OpenedMeansDelivered` |
| `Legal`, `LeaseKept` | `LegalEdges`, `LeaseRespected` (action properties; proved, so no run repeats them) |
| `Recorded`, `Single` | `AcceptedIsRecorded`, `OneMessage`, if `0 \notin DeleteDelays` |
| `AnswersTrue` | `AnswersAreTrue`, for every set of delays |
| `OneDeliveryImplemented` | `DeliversOnce`, if `0 \notin DeleteDelays` |
| `OneDeliveryKeeps` | `OneKnown` and `RecordIsFinal` of OneDelivery |

The argument. `DeliveryExclusive` is not inductive: nothing in it stops cleanup from
reactivating the row under a handler. What stops it is a relation between three
clocks, `HandlersHoldTheRow`: as long as a handler is in flight, either it
holds the row under a lease that ends after its own deadline, or it has committed,
or the row was expired or deleted under it. `HandlersAreTimely` says that its
deadline has not passed, so its lease has not either, so neither `SweepOpenLease`
nor a new reservation can meet it (`AdmittedAlone`). `EventsFollowSends` makes the
UNIQUE callback id effective: an event exists from the send on until the row, and
with it every admission, is gone. `JobsFollowDeliveries` ties jobs to `opened`. The
step proof has one lemma per action, and under it one step per conjunct the
action can disturb.

`OneMessage` needs one more part, `MessagesAreAccounted`: if the handler of an
accepted message lived and knows of it, nobody else is sending, and its completion
is still to come or the whisper can no longer be opened. The hypothesis
`0 \notin DeleteDelays` is necessary: with delay 0 the run `opening_delay_off` shows
the completion refused and the whisper reopened.

`AnswersAreTrue` relates an answer that was given once to rows that go on changing. It
needs to be known who may still change them (`AnswersAreBacked`): a press that runs, or
was told of a failure, has an event until the row goes, so that it is never admitted
again and its job cannot appear after the answer; and only a one-time whisper is ever
`opened`, which by `OpenedMeansDelivered` has a job.

`OneDeliveryImplemented` is the refinement `DeliversOnce`: of a one-time whisper, every
step is a step of OneDelivery or none, again if `0 \notin DeleteDelays`. A reservation
maps to `Admit` because of `AdmittedAlone` and `MessagesAreAccounted`, and a send to
`Send` because its message is a new one: a press that was lost never sends again, since
its event stays until the row goes (`LostStayOut`). A completion is the `Record`, or finds
the record made or closed (`RefusalNeedsEnd`); FailOpen after the deadline leaves and
closes. `OneDeliveryKeeps` is the other half, what OneDelivery promises: at most one
message is not lost (`OneKnown`), and none follows the record (`RecordIsFinal`). It is
stated of the mapped variables, as a module of proofs has no others, but no definition of
Opening is expanded in it.

`PublicationProofs` proves, for every set of workers, every timing that satisfies
`PublicationAssumption` and every combination of faults:

| theorem | what it establishes |
|---|---|
| `TypeCorrect` | `TypeOK` |
| `Inductive` | `PublicationInv`, which contains the next three |
| `Exclusive` | `PublishExclusive` |
| `Single` | `OneEnvelope` |
| `Truthful` | `PostedIsTrue` |
| `OneDeliveryImplemented` | `DeliversOnce` |

The argument is the one of the opening, for another lease: a publisher at work has time
left and a lease that is longer (`PublishersHoldTheRow`), so no sweep and no other claim
reaches its row. An envelope that was not lost is with a publisher who knows of it, or
the row cannot be claimed again (`EnvelopesAreAccounted`). A notice is the last thing an
attempt does, so that it is posted is told by the request that is done, and the opposite
by the request or by the publisher who closed the row (`NoticesAreFinal`).

That the publishers implement OneDelivery needs no hypothesis on the settings, but two
more parts: a loss is the loss of an envelope that was accepted (`LossesAreReal`), and the
deadline alone takes nothing from a publisher at work, only expiry or deletion of the row
does (`RowIsKept`). Hence an outcome that is refused finds the record made or closed, and
only a publisher that dies can leave an envelope unrecorded in an open row.

Both `DeliversOnce` were checked by TLC before they were proved, on the instances of the
runs `opening` and `publication` (they are ready to be named there under `PROPERTY`), and
fail there when a live lease may be swept or a held row be claimed. As theorems hold for
every instance, no run repeats them.

`LifecycleProofs` proves the two refinements, `OpeningImplemented` (`ImplementsOpening`)
and `PublicationImplemented` (`ImplementsPublication`), for every value of the constants:
the initial states map to initial states, and every step of the whole maps to a step of
the part or changes nothing of it. For Opening no invariant is needed. Publication knows,
besides expiry, only presses on a row that is published and whose envelope is out, so
what is done to a reserved row, a completion, a failure or the sweep of its lease, has to
meet such a row: `ReservedIsPosted`.

It also proves `EnvelopeFirst`, `SecretNeedsEnvelope`, along these refinements: what is
kept by every step of one part is kept by the whole, whose steps are steps of the part.
The steps of Opening keep that what is sent, or reserved, follows the record of the
envelope (`SecretIsPublished`); those of Publication that publishers work one at a time
under their lease, and that with the record the token is gone (`OnePublisher`). Neither
part alone can state the property.

`UpdatesProofs` proves, for any number of updates, attempts and crashes, every finite set
of workers, both transports and every combination of faults:

| theorem | what it establishes |
|---|---|
| `TypeCorrect` | `TypeOK` |
| `Inductive` | `UpdatesInv`, which contains the next three |
| `Exclusive` | `ExclusiveHandling` |
| `Once` | `NoDuplicateCommits` |
| `Complete` | `NothingSkipped` |
| `Final` | `ProcessedIsFinal`, which needs the types only, and no budget |

If the budget is below the lease, who works holds the row, under the attempt it leased,
for longer than it works (`WorkersHoldTheRow`); `Tick` takes from both alike. An effect that
is not recorded is with the worker who had it (`EffectsAreAccounted`). `NothingSkipped`
needs the order of the stream: the poller works on its next update only, and Telegram
has been told to forget nothing beyond (`PollerIsInOrder`), also after a crash, when
offset 0 stands for the first update that is pending.

`ComposerProofs` proves, for any number of messages, drafts and attempts, every lease,
time to live and quota, both transports and every combination of faults:

| theorem | what it establishes |
|---|---|
| `TypeCorrect` | `TypeOK` |
| `Inductive` | `ComposerInv`, which contains the next three |
| `StoredWithItsDraft` | `StoredIffCompleted` |
| `OneDraft` | `OneOpen`: what the unique index on active drafts is for |
| `WithinTheRate` | `RateLimit` |
| `CopiesExplained` | `CopiesAreExplained` |
| `DraftFirst` | `DraftWins` (action property) |

`RateLimit` is a check made early for a write made late, and twice so: the hour is counted
before the draft is inserted, and the whisper is stored long after. A sender has one open
draft (`OneOpen`), and while it is open there is room for its whisper (`RoomForTheDraft`);
time only takes whispers out of the hour, and the instant of the count lies in the past
(`AskedBefore`). Between count and insert the lock keeps out other creations
(`OneCreates`), so at most one draft is open that can still be finalized, an expired one
that the count did not see; `RoomForTheInsert` says what room is left with it and
without. Its whisper is `uncounted` and uses up the room of the next draft, which is the
one by which the hour can exceed the maximum (`Excess`). The excess does not add up: the
next count includes both. With polling no handler finalizes while another one creates
(`HandledInOrder`), and the limit is exact. A message whose handler never failed after a commit is stored once at most, and
its handler is past storing (`StoredOnce`), which bounds `Copies` by one. `DraftWins`
speaks of a step whose decision was taken earlier, when the handler looked for a draft:
with polling nothing the sender does comes in between (`HandledInOrder`), hence
`NoDraftForTheGuest`.

`GuestProofs` proves, for any number of updates, requests, attempts and workers, any
users, and all quotas, lifetimes and leases that satisfy `GuestAssumption` and
`DeleteJobsAssumption`, both transports and every combination of faults:

| theorem | what it establishes |
|---|---|
| `TypeCorrect` | `TypeOK` |
| `Inductive` | `IInv` |
| `RecordedWhenDelivered` | `DeliveredIsRecorded` |
| `SentOnce` | `OneMessage` |
| `ForTheTarget` | `OnlyTheTarget` |
| `OneCompetes` | `OneComposer` |
| `DeletionIsOwed` | `NotForgotten` |
| `StaysOver` | `OverIsOver` (action property) |

`OneMessage` follows from `DeliveredIsRecorded` and what makes records exclusive. Within
its lease a handler holds the row, or a sweep has ended it (`InTimeHolds`), and no
second handler is within a lease on the same request (`OneInTime`); beyond its lease it
is `Late`, as the property grants. A row has one record of a message, written as it is
opened and kept from then on (`RecordIsFinal`). So two deliveries of one request that
are neither excused nor late would be the same. `OnlyTheTarget` is carried by the
binding: what is in delivery is bound to its presser, and no statement binds a row to a
second person (`BoundToActor`, `TargetIsNamed`). For `OverIsOver` and `OneComposer` the
dangerous step is `Reuse`, which writes a row it read in another transaction. It does no
harm because what it found has not expired meanwhile (`ReusedInTime`, since the clock
waits for a transaction), what was swept had (`ExpiredIsOver`), and with polling nothing
is being filled when a row is inserted (`NothingIngested`). `NotForgotten` says nothing
of a worker who reports a job as done after his lease ended; `DoneIsSettled` does: what
anyone calls done was deleted, or Telegram refused it for good.

`ProcessProofs` proves, for every finite set of workers, every set of webhook requests and
any number of signals and starts (`ProcessAssumption`):

| theorem | what it establishes |
|---|---|
| `TypeCorrect` | `TypeOK` |
| `Inductive` | `ProcessInv` |
| `Recordable` | `WorkIsRecordable` |
| `Truthful` | `ExitTellsTheTruth` |
| `Transported` | `TransportAgrees` |
| `NeverBlocked` | `NoReportBlocks`: a runner that ended finds a place in the results channel |

None of the properties is inductive, since each speaks of one moment. The invariant
says what the stage of the main goroutine tells about everything else: which steps have
the pool open (`PoolFollows`), when goroutines of runners exist (`RunnersFollow`), when
the listener takes requests (`ListenerFollows`), that before the select only a signal
tells anyone to end (`BlameIsDue`), and that without an error the end was asked for
and the requests were waited for (`SilenceIsClean`). `NeverBlocked` is a pigeonhole:
each runner reports once and is done (`ReportsOnce`), so the results are an injection
of positions into the other runners (`PlaceLeft`).

`RemovalProofs` is about rows that are removed under those who use them, in Owner and
in Identity. Of Owner it proves, for every finite set of whispers, any senders, kinds,
names and page size, any number of updates and attempts, and all scenes:

| theorem | what it establishes |
|---|---|
| `TypeCorrect` | `TypeOK` |
| `TrailComplete` | `TrailIsComplete` |
| `RepliesTrue` | `RepliesAreTrue` |
| `WalkComplete` | `CompleteWalk` |

What he reads must remain true while rows come and go. `Forward` says what no step takes
back: a whisper that is known stays known, one that is gone and cannot arrive any more
stays away, a deletion by the owner stays one. Hence what is true of a request before it
is sent (`CallsOK`) is true when Telegram takes it, however late. The one text that is
not yet true, "sent" behind the content it speaks of, becomes true with the request before
it. For the audit, contents on their way are counted (`Carrying`): what was sent and what
is still to be sent is at most what was audited (`AuditInv`), so that a lost reply and
another attempt, which audits again, keep the sum.

`CompleteWalk` is about pages that were cut from a list at different times. The list grows
at its top and shrinks anywhere, while the owner remembers an offset. The invariant of
the walk (`WalkFits`) counts what lies ahead of a whisper that matched when he began, is
there and was not seen: among the whispers that the pages so far have passed, at least as
many are newer (`Ahead`) as the next page skips. That page is cut from a list that holds
all of them (`LinkOK`). Since a page is exact, an interval of places
(`PlaceBijection`, `PlaceCount`, `PageIsCut`), the whisper cannot lie before its beginning:
it is on the page, or behind it (`NextPageFits`), and then the page is full, so that it has
a Next button. An arrival only adds to what is ahead. A removal takes from it, which is
why `CompleteWalk` excepts a removal of what was passed (`walk.passed`); that this must
include whispers the owner never saw was found by the attempt to prove it. A page may be
shown after rows have changed since it was cut, so all of this is stated about pages on
their way (`PendingOK`), and polling keeps the walk still meanwhile (`InOrder`).

Of Identity it proves `Unstuck`: `NeverStuck`, for every set of people, drafts and
requests. What a statement selected is named by no row it looks for, as long as nothing
was written since (`SelectionHolds`); each foreign key refers to a table whose statement
looks for rows of the referring one (`SweepsKnowKeys`, which is the agreement of
`cleanup.go` with the migrations); hence nothing refuses (`FreeRowsGo`).

Checked by TLC only: liveness (`ReservationEnds`, `ReservedIsSettled`, `PublishingEnds`,
`StreamFlows`, `ComposerIsFreed`, `OpeningEnds`, `JobsEnd`, `Ends`, `Forgotten`), which
with ENABLED is beyond the prover.

The proofs take nothing from the bounds of the runs. Where a module caps the clock,
the attempts or the crashes, the cap is a constant of which only the type is assumed.
Every inductive invariant was first checked by TLC on the instance of its run.

## 5. Where code and documents disagree

Shown by a run:

* `opening_delay_off`: with `EphemeralDeleteAfter` 0, which the default configuration
  and `/owner_ephemeral off` give, no delivery can be recorded.
* `guest_reuse`: a request that is reused keeps its `token_hash`
  (`repository/guest.go:309`), but `service/guest.go:154` returns a new token, so the
  button of the second envelope leads nowhere.

Met while reading, and not shown by a run of its own:

* cleanup reactivates a one-time whisper without looking at its open events
  (`cleanup.go:92`), so the fail-closed rule of `docs/progress.md:81` holds only until
  the next sweep;
* the outcome `denied_ambiguous` breaks the CHECK on `whisper_open_events.outcome`
  (`opening.go:89`), so the denial that the same line promises is an internal error
  (`RecordableOutcomes`);
* a crash after the commit of a secret gives the same message to a waiting guest
  request when the update is handled again (`messages.go:263`), where `poller.go:104`
  says that no commit is repeated; `CopiesAreExplained` excepts a handler that failed;
* the first SIGTERM reaches both channels (`main.go:124`, `main.go:129`), so once the
  context is cancelled the goroutine finds a signal waiting and may end the process with
  130 at once, where `main.go:126` and `docs/progress.md:98` speak of a second signal
  (`ForcedExit`);
* the owner asks for a name that two senders bear: the first page shows the whispers of
  both, the following pages those of one (`owner_browser.go:209`);
* pages are cut by OFFSET, so an owner who goes on with Next misses a whisper when one
  before the end of his page is removed meanwhile, also one that had arrived on top after
  he began and that he never saw (`owner_browser.go:269`); `CompleteWalk` excepts both;
* a content that is gone is answered as such and then "Content sent privately."
  (`owner_browser.go:586`); `RepliesAreTrue` excepts it;
* "Retention extended by 30 days." is the reply also when the new deadline is earlier
  than the old one (`owner_browser.go:602`);
* Telegram refuses an edit that changes nothing, so a filter pressed twice fails
  until its attempts run out (`owner_browser.go:686`, `Unmodified`);
* a recipient that cleanup removes between its look-up and the insertion makes
  `CreateDraft` fail on a foreign key, and the update is retried
  (`service/drafts.go:150`);
* the cache of recent targets may keep a list that was read before a concurrent
  `Record` (`service/service.go:149`), for as long as an entry lives;
* a press that finds a whisper expired while it is being published leaves
  `publish_state` at `publishing` (`opening.go:358`), which no sweep ends
  (`cleanup.go:121`); `PublishingEnds` excepts it;
* `ClaimPublish` answers `ErrNotActive` also when the worker was faster, and the
  request then tells the sender that the envelope will not be delivered
  (`messages.go:470`);
* a publisher whose envelope is rejected tells the sender that the secret will not be
  delivered even if it could not record the rejection (`bot/publish.go:48`); the lease
  is swept and the envelope tried again. `PostedIsTrue` excepts that case;
* the sender reads "will be posted shortly" after a permanent rejection too
  (`messages.go:477`, `bot/publish.go:48`);
* `CreateDraft` counts at READ COMMITTED, under an advisory lock that `FinalizeDraft` does
  not take (`repository/drafts.go:84`, `finalize.go:26`). With the webhook, a draft that
  has expired for the new `/whisper` but whose handler read the clock before can be
  finalized between the count and the insert; the unique index then no longer refuses the
  insert, and the sender gets `MAX_WHISPERS_PER_USER_PER_HOUR` + 1 whispers within the
  hour. `RateLimit` states this exception and its bound;
* the unique index on active drafts has no condition on `expires_at`
  (`00002_indexes.sql:15`), so a draft that has expired but was not swept turns
  `/whisper` into an error that is retried (`CreateConflict`);
* `ClaimUpdate` compares the hash of the re-encoded update before state and attempts
  (`updates.go:49`): after a release that changes `telegram.Update`, an unfinished row
  conflicts for as long as it and the update exist, and polling stops there. `Changed`
  models it and `StreamFlows` states the exception;
* a prompt that fails cancels the sender's latest draft (`messages.go:102`): with
  the webhook that can be a newer one;
* whether a message is for a draft or a guest request is decided before either is
  claimed, and an error of that look-up counts as "no draft" (`messages.go:263`).
  `DraftWins` holds for polling and a working database;
* `ingestGuestSecret` has returns between its claim and its deferred release
  (`messages.go:276-289`); the claim ends with its lease (`ComposerIsFreed`);
* the update lease is shorter than the slowest handler (`main.go:310`);
* `PROCESSED_UPDATE_RETENTION` is only checked to be positive;
* a delivery to a guest whose lease has ended is taken over only by a press that was
  admitted before it began, since `handleGuestStart` answers any other
  (`guest.go:631`);
* a media secret always takes its fallback: `loadGuestDeliveryContent` never sets the
  size that `messages.go:363` compares;
* `docs/progress.md:19` gives one active guest request and six an hour as defaults;
  `config.go:155` has 25 and 100. With one active request superseding could not act;
* with the webhook, a request can be claimed for ingestion between the reads and the
  writes of `CreateGuestRequest`, and two then compete. `OneComposer` holds for
  polling;
* a refreshed expiry may lie beyond the retention of the row, and a failed delivery
  returns to `ready` without looking at `MaxActive`.

## 6. Not modelled, and why

Row locks and lock order inside a transaction: a transaction is one step, but where two
statements read what others may change between them. Batching
of the sweeps (LIMIT, SKIP LOCKED): a sweep of several rows is several steps, and
Identity selects all that is due. Encryption, parsing, tokens, metrics and the Telegram
client: pure or I/O; the models keep the outcomes a caller can tell apart. Telegram's
expiry of updates after a day and the pruning of `processed_updates`: they would need a
time scale of days. The choice among several due whispers or jobs, the workers' backoff
and their budget per round. Of guest mode, the edits of an envelope after the press
(`MarkGuestEnvelope`), the list of recent targets with its cache and the media fallback:
no guard reads what they write. Of the owner, the dashboard and the audit of looked-at
metadata and changed retention, which go with their reads. Of identity, groups other
than one: no row of one group refers to another. Of the process, the health check
command.

## 7. Plan

Order of the work: opening first, since a secret shown twice is what the program
exists to prevent; then publication and their composition; then updates, whose
retries feed all others; then the composer, guest mode and the delete jobs; then what
surrounds them, the process, the owner and the identity rows. These are done. What is
left:

1. Guest as a third implementation of OneDelivery: a guest delivery may be recorded
   after its lease, which OneDelivery has no step for yet.
2. Opening with DeleteJobs: that every recorded ephemeral delivery is deleted or
   knowingly left, as Guest has it for private messages.
3. The cache of recent targets, and the edits of guest envelopes.
