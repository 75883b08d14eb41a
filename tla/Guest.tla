------------------------------- MODULE Guest -------------------------------
(***************************************************************************)
(* Guest mode: one sender's secrets for people the bot does not share a    *)
(* group with.  A mention or an inline query creates a request and answers *)
(* with an envelope whose button carries a link; the secret is the text of *)
(* the query or the next private message; whoever follows the link and is  *)
(* the target gets it as a private message, which may later be deleted.    *)
(*                                                                         *)
(* Handlers are those of internal/bot/guest.go and messages.go, the        *)
(* transactions those of internal/repository/guest.go.  CreateGuestRequest *)
(* locks its sender but no row, so its reads and its writes are two        *)
(* actions.  A draft that competes for the secret is left to Composer.     *)
(*                                                                         *)
(* An update creates at most one request here.  An inline query with a     *)
(* text creates two, and one without a target one per recent target; each  *)
(* such call counts as an update of its own, the answer they share as one  *)
(* answer each.                                                            *)
(***************************************************************************)
EXTENDS Naturals, FiniteSets

CONSTANTS
    Last,           \* updates are numbered 1..Last, in the order of their ids
    Starts,         \* what a behaviour starts from: the updates, how often each is
                    \* handled at most, whom the requests name, the transport and
                    \* what may go wrong
    Users,          \* those who may follow a link
    Named,          \* the one of them who first holds the username
    Nobody,         \* target_user_id is NULL
    DeleteDelays,   \* values the delete-after setting takes
    MaxActive,      \* Options.MaxActiveGuestRequestsPerUser
    MaxRecent,      \* Options.MaxGuestRequestsPerUserPerHour
    Window,         \* the hour of that limit
    TTL, PreviewTTL,\* Options.WhisperTTL; the shorter one of an inline text
    Retention,      \* Options.ContentRetention
    IngestLease,    \* Options.IngestLease
    OpenLease,      \* Options.OpenLease
    SendTime,       \* TELEGRAM_REQUEST_TIMEOUT
    MaxAttempts,    \* how often the processor runs a handler for one update
    MaxClock,       \* bound: the clock stops here
    Workers, JobLease, JobTime, Backoffs, MaxTries  \* see DeleteJobs

Updates  == 1..Last
Kinds    == {"envelope", "instant", "secret", "cancel", "open"}
Hints    == Users \union {"username"}

ASSUME GuestAssumption ==
    /\ Last \in Nat /\ MaxClock \in Nat /\ Window \in Nat
    /\ Starts \subseteq [kind : [Updates -> Kinds], limit : [Updates -> 1..MaxAttempts],
                           hint : [Updates -> Hints], polling : BOOLEAN, faults : SUBSET {"crash", "database"}]
    /\ Named \in Users /\ Nobody \notin Users
    /\ DeleteDelays \subseteq Nat
    /\ MaxActive \in Nat \ {0} /\ MaxRecent \in Nat \ {0} /\ MaxAttempts \in Nat \ {0}
    /\ PreviewTTL \in 1..TTL /\ TTL \in 1..Retention /\ Retention \in Nat
    /\ IngestLease \in Nat \ {0}
    /\ OpenLease \in Nat /\ SendTime \in Nat /\ SendTime < OpenLease

VARIABLES
    clock,
    kind, limit, hint, inOrder, faults, \* the updates, the transport, what may go wrong
    holder,         \* who holds the username now
    req,            \* guest_secret_requests, by the update that inserts the row
    pc, attempts,   \* per update: where its handler is; attempt_count
    claim,          \* per update: the row its handler works on, the lease it took
    actor, link,    \* per press: who follows which link
    posted,         \* the links of the envelopes in the chats
    deliveries,     \* the private messages with a secret
    excused,        \* history: those whose record a fault or a lost lease prevented
    asked,          \* history: those whose completion asked for their deletion
    jobs, busy, gone, leftBehind

input    == <<kind, limit, hint, inOrder, faults>>
handlers == <<pc, attempts, claim, actor, link>>
chat     == <<posted, deliveries, excused, asked>>
jobVars  == <<jobs, busy, gone, leftBehind>>
vars     == <<clock, input, holder, req, handlers, chat, jobVars>>

D == INSTANCE DeleteJobs

ASSUME DeleteJobsAssumption == D!JobsAssumption

States == {"none", "awaiting", "ingesting", "ready", "opening", "opened", "expired",
           "cancelled", "gone"}
PCs    == {"idle", "started", "reusing", "inserting", "answering", "ingesting",
           "claiming", "sending", "failing", "completing", "done"}

\* A link carries a token; each run of a creating handler draws one of its own.
Tokens  == Updates \X (1..MaxAttempts)
NoToken == <<0, 0>>
NoClaim == [request |-> 0, lease |-> 0]
NoRow   == [state |-> "none", hint |-> "username", target |-> Nobody, token |-> NoToken,
            created |-> 0, expires |-> 0, lease |-> 0, message |-> NoToken]

Unexpired(r) == clock < req[r].expires
Active(r)    == req[r].state \in {"awaiting", "ingesting", "ready"} /\ Unexpired(r)

----------------------------------------------------------------------------
Init ==
    /\ clock = 0
    /\ \E s \in Starts :
        /\ kind = s.kind /\ limit = s.limit /\ hint = s.hint
        /\ inOrder = s.polling /\ faults = s.faults
    /\ holder = Named
    /\ req = [r \in Updates |-> NoRow]
    /\ pc = [m \in Updates |-> "idle"]
    /\ attempts = [m \in Updates |-> 0]
    /\ claim = [m \in Updates |-> NoClaim]
    /\ actor = [m \in Updates |-> Nobody] /\ link = [m \in Updates |-> NoToken]
    /\ posted = {} /\ deliveries = {} /\ excused = {} /\ asked = {}
    /\ D!InitJobs

Goto(m, next) ==
    /\ pc' = [pc EXCEPT ![m] = next]
    /\ claim' = IF next \in {"idle", "done"} THEN [claim EXCEPT ![m] = NoClaim] ELSE claim
    /\ UNCHANGED <<attempts, actor, link>>

\* The handler's last request is its reply; where it returns the reply's error,
\* the update is handled again.
End(m) == \E next \in {"done", "idle"} : Goto(m, next)

Settled(m) == pc[m] = "done" \/ (pc[m] = "idle" /\ attempts[m] = limit[m])

\* The processor starts the handler; a press is on the link of a posted envelope.
Start(m) ==
    /\ pc[m] = "idle" /\ attempts[m] < limit[m]
    /\ inOrder => \A n \in Updates : n < m => Settled(n)
    /\ pc' = [pc EXCEPT ![m] = "started"]
    /\ attempts' = [attempts EXCEPT ![m] = @ + 1]
    /\ IF kind[m] = "open" /\ attempts[m] = 0
       THEN \E u \in Users, t \in posted :
                actor' = [actor EXCEPT ![m] = u] /\ link' = [link EXCEPT ![m] = t]
       ELSE UNCHANGED <<actor, link>>
    /\ UNCHANGED <<clock, input, holder, req, claim, chat, jobVars>>

----------------------------------------------------------------------------
Set(r, s, l) == req' = [req EXCEPT ![r].state = s, ![r].lease = l]

\* sameGuestTarget: by the numeric id, or by a username that nobody has claimed.
SameTarget(m, r) ==
    IF hint[m] \in Users THEN req[r].target = hint[m]
                         ELSE req[r].target = Nobody

Reusable(m, r) ==
    /\ kind[m] = "envelope"
    /\ req[r].state = "awaiting" /\ Unexpired(r) /\ SameTarget(m, r)

Recent == {r \in Updates : req[r].state # "none" /\ clock < req[r].created + Window}

Allowed(m) ==
    /\ ~\E r \in Updates : req[r].state = "ingesting" /\ Unexpired(r)
    /\ Cardinality({r \in Updates : Active(r)}) + 1 <= MaxActive
    /\ Cardinality(Recent) < MaxRecent

\* CreateGuestRequest under the sender's advisory lock, its reads: a pending request
\* for the same target, the request being filled, the quotas.
Check(m) ==
    /\ pc[m] = "started" /\ kind[m] \in {"envelope", "instant"}
    /\ ~\E n \in Updates : pc[n] \in {"reusing", "inserting"}
    /\ \/ \E r \in Updates :
            /\ Reusable(m, r)
            /\ pc' = [pc EXCEPT ![m] = "reusing"]
            /\ claim' = [claim EXCEPT ![m].request = r]
            /\ UNCHANGED <<attempts, actor, link>>
       \/ /\ ~\E r \in Updates : Reusable(m, r)
          /\ IF Allowed(m) THEN Goto(m, "inserting") ELSE End(m)
    /\ UNCHANGED <<clock, input, holder, req, chat, jobVars>>

Token(m) == <<m, attempts[m]>>

\* The pending request lives on, whatever has become of it since the read. Its
\* token_hash stays.
Reuse(m) ==
    /\ pc[m] = "reusing"
    /\ req' = [req EXCEPT ![claim[m].request].expires = clock + TTL]
    /\ Goto(m, "answering")
    /\ UNCHANGED <<clock, input, holder, chat, jobVars>>

\* Requests that still wait for their secret give way to the new one.
Superseded(r) == req[r].state = "awaiting" /\ Unexpired(r)

NewRow(m) ==
    [state |-> IF kind[m] = "instant" THEN "ready" ELSE "awaiting",
     hint |-> hint[m], target |-> IF hint[m] \in Users THEN hint[m] ELSE Nobody,
     token |-> Token(m), created |-> clock,
     expires |-> clock + (IF kind[m] = "instant" THEN PreviewTTL ELSE TTL),
     lease |-> 0, message |-> NoToken]

\* Variant: earlier requests go on waiting.
InsertBeside(m) ==
    /\ pc[m] = "inserting"
    /\ IF req[m].state = "none"
       THEN req' = [req EXCEPT ![m] = NewRow(m)] /\ Goto(m, "answering")
       ELSE UNCHANGED req /\ End(m)
    /\ UNCHANGED <<clock, input, holder, chat, jobVars>>

\* The writes. A query whose row exists breaks the UNIQUE query id (also where the row
\* has come to carry the id of a later query, which is left out).
Insert(m) ==
    /\ pc[m] = "inserting"
    /\ IF req[m].state = "none"
       THEN /\ req' = [r \in Updates |->
                        IF r = m THEN NewRow(m)
                        ELSE IF Superseded(r) THEN [req[r] EXCEPT !.state = "cancelled"]
                        ELSE req[r]]
            /\ Goto(m, "answering")
       ELSE UNCHANGED req /\ End(m)
    /\ UNCHANGED <<clock, input, holder, chat, jobVars>>

\* AnswerGuestQuery or AnswerInlineQuery brings the envelope into the chat; its reply
\* may be lost.
Answered(m) ==
    /\ pc[m] = "answering"
    /\ posted' = posted \union {Token(m)}
    /\ Goto(m, "done") \/ (faults # {} /\ Goto(m, "idle"))
    /\ UNCHANGED <<clock, input, holder, req, deliveries, excused, asked, jobVars>>

\* It does not; refused for good, an instant secret is taken back by
\* CancelGuestRequestByID, as far as nobody has opened it.
AnswerFailed(m) ==
    /\ pc[m] = "answering"
    /\ \/ /\ kind[m] = "instant" /\ req[m].state \in {"awaiting", "ready"}
          /\ Set(m, "cancelled", 0)
       \/ UNCHANGED req
    /\ Goto(m, "idle")
    /\ UNCHANGED <<clock, input, holder, chat, jobVars>>

----------------------------------------------------------------------------
Waiting(r) == req[r].state = "awaiting" /\ Unexpired(r)

\* ClaimGuestIngestForSender takes the newest request that waits.
ClaimIngest(m) ==
    /\ pc[m] = "started" /\ kind[m] = "secret"
    /\ \E r \in Updates :
        /\ Waiting(r)
        /\ \A q \in Updates : Waiting(q) => req[q].created <= req[r].created
        /\ Set(r, "ingesting", clock + IngestLease)
        /\ claim' = [claim EXCEPT ![m] = [request |-> r, lease |-> clock + IngestLease]]
    /\ pc' = [pc EXCEPT ![m] = "ingesting"]
    /\ UNCHANGED <<clock, input, holder, attempts, actor, link, chat, jobVars>>

\* The message goes to the draft composer. The request is looked up and claimed by two
\* statements: with the webhook another handler may take it in between.
NothingWaits(m) ==
    /\ pc[m] = "started" /\ kind[m] = "secret"
    /\ inOrder => ~\E r \in Updates : Waiting(r)
    /\ Goto(m, "done")
    /\ UNCHANGED <<clock, input, holder, req, chat, jobVars>>

Holds(m, s) ==
    req[claim[m].request].state = s /\ req[claim[m].request].lease = claim[m].lease

\* Variant: finalization looks at neither the state nor the lease.
FinalizeAnyway(m) ==
    /\ pc[m] = "ingesting"
    /\ Unexpired(claim[m].request)
    /\ Set(claim[m].request, "ready", 0)
    /\ End(m)
    /\ UNCHANGED <<clock, input, holder, chat, jobVars>>

\* FinalizeGuest.
Finalize(m) ==
    /\ pc[m] = "ingesting"
    /\ Holds(m, "ingesting") /\ Unexpired(claim[m].request)
    /\ Set(claim[m].request, "ready", 0)
    /\ End(m)
    /\ UNCHANGED <<clock, input, holder, chat, jobVars>>

\* The content is unusable and the claim left alone, or the download or FinalizeGuest
\* fails and ReleaseGuestIngest follows.
IngestFailed(m) ==
    /\ pc[m] = "ingesting"
    /\ \/ Holds(m, "ingesting") /\ Set(claim[m].request, "awaiting", 0)
       \/ UNCHANGED req
    /\ End(m)
    /\ UNCHANGED <<clock, input, holder, chat, jobVars>>

\* CancelGuestRequest: one statement, on every active request.
Cancel(m) ==
    /\ pc[m] = "started" /\ kind[m] = "cancel"
    /\ req' = [r \in Updates |->
                IF Active(r) THEN [req[r] EXCEPT !.state = "cancelled", !.lease = 0]
                             ELSE req[r]]
    /\ End(m)
    /\ UNCHANGED <<clock, input, holder, chat, jobVars>>

----------------------------------------------------------------------------
Found(m, r) == req[r].state \notin {"none", "gone"} /\ req[r].token = link[m]

\* Variant: the username keeps deciding, also after the target is bound.
NameDecides(u, r) == IF req[r].hint \in Users THEN req[r].hint = u ELSE holder = u

\* The bound id decides; before there is one, whoever holds the username.
Authorized(u, r) ==
    IF req[r].target # Nobody THEN req[r].target = u ELSE holder = u

Openable(m, r) == Found(m, r) /\ Unexpired(r) /\ Authorized(actor[m], r)

\* BeginGuestSession finds the request, ClaimGuestTarget binds it to the actor; an
\* envelope without a secret, or in the course of being opened, gets a reply.
Begin(m) ==
    /\ pc[m] = "started" /\ kind[m] = "open"
    /\ \E r \in Updates :
        /\ Openable(m, r)
        /\ req[r].state \in {"awaiting", "ingesting", "ready", "opening"}
        /\ req' = [req EXCEPT ![r].target = actor[m]]
        /\ IF req[r].state = "ready" THEN Goto(m, "claiming") ELSE End(m)
    /\ UNCHANGED <<clock, input, holder, chat, jobVars>>

\* No such request, expired, cancelled, opened, or another's: the reply says so.
Denied(m) ==
    /\ pc[m] = "started" /\ kind[m] = "open"
    /\ ~\E r \in Updates :
        Openable(m, r) /\ req[r].state \in {"awaiting", "ingesting", "ready", "opening"}
    /\ End(m)
    /\ UNCHANGED <<clock, input, holder, req, chat, jobVars>>

\* Variant: a delivery under way does not stop another.
ClaimableAlways(r) == req[r].state \in {"ready", "opening"}

Claimable(r) ==
    \/ req[r].state = "ready"
    \/ req[r].state = "opening" /\ req[r].lease <= clock

\* ReserveGuestOpen.
ClaimOpen(m) ==
    /\ pc[m] = "claiming"
    /\ \E r \in Updates :
        /\ Openable(m, r) /\ Claimable(r)
        /\ req' = [req EXCEPT ![r].state = "opening", ![r].lease = clock + OpenLease,
                              ![r].target = actor[m]]
        /\ claim' = [claim EXCEPT ![m] = [request |-> r, lease |-> clock + OpenLease]]
    /\ pc' = [pc EXCEPT ![m] = "sending"]
    /\ UNCHANGED <<clock, input, holder, attempts, actor, link, chat, jobVars>>

ClaimRefused(m) ==
    /\ pc[m] = "claiming"
    /\ ~\E r \in Updates : Openable(m, r) /\ Claimable(r)
    /\ End(m)
    /\ UNCHANGED <<clock, input, holder, req, chat, jobVars>>

\* The message that a handler sends or has sent.
Delivery(m) == [press |-> m, try |-> attempts[m], request |-> claim[m].request,
                to |-> actor[m]]

\* SendMessage or SendPrivateMediaByFileID with its fallback: sent; sent, and the
\* reply lost; not sent.
Send(m) ==
    /\ pc[m] = "sending"
    /\ \/ /\ deliveries' = deliveries \union {Delivery(m)}
          /\ \/ Goto(m, "completing") /\ UNCHANGED excused
             \/ /\ faults # {} /\ Goto(m, "failing")
                /\ excused' = excused \union {Delivery(m)}
       \/ Goto(m, "failing") /\ UNCHANGED <<deliveries, excused>>
    /\ UNCHANGED <<clock, input, holder, req, posted, asked, jobVars>>

\* FailGuestOpen: the envelope can be opened again.
FailOpen(m) ==
    /\ pc[m] = "failing"
    /\ \/ Holds(m, "opening") /\ Set(claim[m].request, "ready", 0) /\ End(m)
       \/ ~Holds(m, "opening") /\ UNCHANGED req /\ Goto(m, "idle")
       \/ "database" \in faults /\ UNCHANGED req /\ Goto(m, "idle")
    /\ UNCHANGED <<clock, input, holder, chat, jobVars>>

\* Variant: the job is left to whoever comes later.
CompleteWithoutJob(m) ==
    /\ pc[m] = "completing"
    /\ Holds(m, "opening")
    /\ req' = [req EXCEPT ![claim[m].request].state = "opened",
                          ![claim[m].request].lease = 0,
                          ![claim[m].request].message = Token(m)]
    /\ asked' = asked \union {Delivery(m)}
    /\ End(m)
    /\ UNCHANGED <<clock, input, holder, posted, deliveries, excused, jobVars>>

\* CompleteGuestOpen: the record of the message and, if the setting asks for it, the
\* job that deletes it.
CompleteOpen(m) ==
    /\ pc[m] = "completing"
    /\ Holds(m, "opening")
    /\ req' = [req EXCEPT ![claim[m].request].state = "opened",
                          ![claim[m].request].lease = 0,
                          ![claim[m].request].message = Token(m)]
    /\ \E delay \in DeleteDelays :
        IF delay > 0 THEN /\ jobs' = D!Queued(Delivery(m), clock + delay)
                          /\ asked' = asked \union {Delivery(m)}
                     ELSE UNCHANGED <<jobs, asked>>
    /\ End(m)
    /\ UNCHANGED <<clock, input, holder, posted, deliveries, excused, busy, gone, leftBehind>>

\* The row has expired or is gone, or the transaction came after the lease and found it
\* taken back, or it failed: the error is returned and the press handled again.
CompleteFailed(m) ==
    /\ pc[m] = "completing"
    /\ ~Holds(m, "opening") \/ "database" \in faults
    /\ excused' = IF \/ clock >= claim[m].lease \/ ~Unexpired(claim[m].request)
                     \/ req[claim[m].request].state = "gone" \/ "database" \in faults
                  THEN excused \union {Delivery(m)} ELSE excused
    /\ Goto(m, "idle")
    /\ UNCHANGED <<clock, input, holder, req, posted, deliveries, asked, jobVars>>

\* The process dies under a handler. A transaction under way is rolled back.
Lost(m) ==
    /\ "crash" \in faults
    /\ pc[m] \notin {"idle", "done"}
    /\ excused' = IF pc[m] = "completing" THEN excused \union {Delivery(m)} ELSE excused
    /\ Goto(m, "idle")
    /\ UNCHANGED <<clock, input, holder, req, posted, deliveries, asked, jobVars>>

Handle(m) ==
    \/ Check(m) \/ Reuse(m) \/ Insert(m) \/ Answered(m) \/ AnswerFailed(m)
    \/ ClaimIngest(m) \/ NothingWaits(m) \/ Finalize(m) \/ IngestFailed(m)
    \/ Cancel(m)
    \/ Begin(m) \/ Denied(m) \/ ClaimOpen(m) \/ ClaimRefused(m) \/ Send(m)
    \/ FailOpen(m) \/ CompleteOpen(m) \/ CompleteFailed(m)

----------------------------------------------------------------------------
\* RunCleanup on guest requests: expiry, abandoned leases, retention.
SweepExpired(r) ==
    /\ req[r].state \in {"awaiting", "ingesting", "ready", "opening"}
    /\ req[r].expires <= clock
    /\ Set(r, "expired", 0)

SweepIngest(r) ==
    /\ req[r].state = "ingesting" /\ req[r].lease <= clock /\ Unexpired(r)
    /\ Set(r, "awaiting", 0)

SweepOpening(r) ==
    /\ req[r].state = "opening" /\ req[r].lease <= clock /\ Unexpired(r)
    /\ Set(r, "ready", 0)

SweepRetained(r) ==
    /\ req[r].state \notin {"none", "gone"}
    /\ req[r].created + Retention <= clock
    /\ Set(r, "gone", 0)

\* Variant: abandoned deliveries stay.
SweepWithoutOpening(r) == SweepExpired(r) \/ SweepIngest(r) \/ SweepRetained(r)

Sweep(r) == SweepExpired(r) \/ SweepIngest(r) \/ SweepOpening(r) \/ SweepRetained(r)

Cleanup ==
    /\ UNCHANGED <<clock, input, holder, handlers, chat>>
    /\ \/ (\E r \in Updates : Sweep(r)) /\ UNCHANGED jobVars
       \/ D!PruneJobs /\ UNCHANGED req

\* The username changes hands, once.
Rename ==
    /\ holder = Named
    /\ \E m \in Updates : hint[m] = "username"
    /\ \E u \in Users \ {Named} : holder' = u
    /\ UNCHANGED <<clock, input, req, handlers, chat, jobVars>>

\* A unit of time is long for the statements of a transaction, and a request to
\* Telegram or an attempt of a worker ends in its time.
Tick ==
    /\ clock < MaxClock
    /\ \A m \in Updates :
        /\ pc[m] \notin {"reusing", "inserting"}
        /\ pc[m] = "sending" => clock < claim[m].lease - OpenLease + SendTime
    /\ D!WorkersInTime
    /\ clock' = clock + 1
    /\ UNCHANGED <<input, holder, req, handlers, chat, jobVars>>

DeleteWorker(w) ==
    D!Work(w) /\ UNCHANGED <<clock, input, holder, req, handlers, chat>>

Next ==
    \/ \E m \in Updates : Start(m) \/ Handle(m) \/ Lost(m)
    \/ Cleanup \/ Rename \/ Tick
    \/ \E w \in Workers : \/ DeleteWorker(w)
                          \/ /\ D!WorkerLost(w)
                             /\ UNCHANGED <<clock, input, holder, req, handlers, chat>>

Spec == Init /\ [][Next]_vars

\* Time passes and the workers run: transactions and requests in flight end, and the
\* tickers survive their errors. No press and no handler is owed beyond that.
FairSpec ==
    /\ Spec
    /\ WF_vars(Tick) /\ WF_vars(Cleanup)
    /\ \A m \in Updates : WF_vars(Reuse(m) \/ Insert(m) \/ Send(m))
    /\ \A w \in Workers : WF_vars(DeleteWorker(w))

----------------------------------------------------------------------------
Messages == [press : Updates, try : 1..MaxAttempts, request : Updates, to : Users]

\* Every variable stays in its range.
TypeOK ==
    /\ clock \in 0..MaxClock /\ holder \in Users
    /\ req \in [Updates -> [state : States, hint : Hints, target : Users \union {Nobody},
                             token : Tokens \union {NoToken}, created : 0..MaxClock,
                             expires : Nat, lease : Nat,
                             message : Tokens \union {NoToken}]]
    /\ pc \in [Updates -> PCs] /\ attempts \in [Updates -> 0..MaxAttempts]
    /\ claim \in [Updates -> [request : Updates \union {0}, lease : Nat]]
    /\ actor \in [Updates -> Users \union {Nobody}]
    /\ link \in [Updates -> Tokens \union {NoToken}]
    /\ posted \subseteq Tokens
    /\ deliveries \subseteq Messages /\ excused \subseteq deliveries
    /\ asked \subseteq deliveries
    /\ D!JobsTypeOK(Messages)

Recorded(d) == req[d.request].message = <<d.press, d.try>>

\* A secret that reached its target is on record, or its handler is about to record
\* it, unless the process died, a reply or a statement was lost, or the request expired
\* or its lease ended meanwhile.
DeliveredIsRecorded ==
    \A d \in deliveries :
        \/ Recorded(d) \/ d \in excused
        \/ pc[d.press] = "completing" /\ Delivery(d.press) = d

Late(d) ==
    pc[d.press] = "completing" /\ Delivery(d.press) = d /\ clock >= claim[d.press].lease

\* A secret is sent a second time only after such an accident, or while the handler of
\* the first has outlasted its lease.
OneMessage ==
    \A d, e \in deliveries :
        d # e /\ d.request = e.request => \E x \in {d, e} : x \in excused \/ Late(x)

\* docs/progress.md:25: the username gates only the first claim. Whoever takes over a
\* username later gets nothing: all copies of a secret go to the user its request is
\* bound to, and to the one it named if it named an id.
OnlyTheTarget ==
    \A d \in deliveries :
        /\ req[d.request].target = d.to
        /\ req[d.request].hint \in Users => req[d.request].hint = d.to

\* internal/repository/guest.go:336, 359: who has a request being filled must finish or
\* cancel it first, and older waiting ones are superseded. With polling at most one
\* request competes for the sender's next private message.
OneComposer ==
    inOrder => \A q, r \in Updates :
        /\ req[q].state \in {"awaiting", "ingesting"} /\ Unexpired(q)
        /\ req[r].state \in {"awaiting", "ingesting"} /\ Unexpired(r)
        => q = r

\* What is over stays over: neither a late handler nor a sweep nor the reuse of a
\* request brings one back that was opened, cancelled or expired.
OverIsOver ==
    [][\A r \in Updates :
        /\ req[r].state \in {"opened", "cancelled", "expired", "gone"}
        => req'[r].state \in {req[r].state, "gone"}]_vars

\* A message that was to be deleted is deleted, or Telegram would not do it, or its
\* job is still open; also when its request is long gone.
NotForgotten ==
    \A d \in asked : D!Unclosed(d) \/ d \in gone \union leftBehind

\* A request does not stay in delivery (only leases before MaxClock count).
OpeningEnds ==
    \A r \in Updates :
        (req[r].state = "opening" /\ req[r].lease <= MaxClock)
            ~> (req[r].state # "opening" \/ req[r].lease > MaxClock)

DueBeforeTheEnd(m) ==
    \E d \in asked :
        d.press = m /\ D!Unclosed(d) /\ jobs[d].due <= MaxClock /\ jobs[d].lease <= MaxClock

\* A due job does not stay open: it is closed, or at least tried again later. (A press
\* completes one opening at most.)
JobsEnd == \A m \in Updates : DueBeforeTheEnd(m) ~> ~DueBeforeTheEnd(m)

\* internal/repository/guest.go:310: a reused request "keeps answering the current
\* query". The link of every posted envelope leads to a request.
EnvelopeLeadsSomewhere ==
    \A t \in posted : \E r \in Updates : req[r].token = t
=============================================================================
