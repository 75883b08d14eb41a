------------------------------- MODULE Updates -------------------------------
(***************************************************************************)
(* From Telegram to a handler and back: how an update is delivered,        *)
(* claimed, handled, retried and acknowledged.                             *)
(*                                                                         *)
(* The poller (internal/app/poller.go) takes updates in order and keeps an *)
(* in-memory offset; the webhook (internal/httpserver/server.go) takes     *)
(* whatever Telegram posts, concurrently and again until it answers 2xx.   *)
(* Both hand the update to the processor (internal/app/processor.go),      *)
(* which works under a lease in processed_updates                          *)
(* (internal/repository/updates.go).  Times are what is left of a lease or *)
(* of a handler's contexts.                                                *)
(*                                                                         *)
(* Rows are pruned after days (PROCESSED_UPDATE_RETENTION), when Telegram  *)
(* has dropped the update: neither is modelled.                            *)
(***************************************************************************)
EXTENDS Naturals, FiniteSets

CONSTANTS
    Last,           \* updates are numbered 1..Last, in the order of their ids
    Transports,     \* which of "polling" and "webhook" may be configured
    Workers,        \* goroutines that run the processor
    Poller,         \* the one of them that polls
    Lease,          \* updateLease of cmd/bot/main.go
    Budgets,        \* how long a handler with its record may take, per configuration
    MaxAttempts,    \* ProcessorOptions.MaxAttempts
    Faults,         \* which of "database", "lost_reply" and "new_build" may happen
    MaxCrashes      \* bound: how often the process dies

ASSUME UpdatesAssumption ==
    /\ Last \in Nat
    /\ Transports \subseteq {"polling", "webhook"}
    /\ IsFiniteSet(Workers)
    /\ Poller \in Workers
    /\ Lease \in Nat \ {0}
    /\ Budgets \subseteq Nat
    /\ MaxAttempts \in Nat \ {0}
    /\ Faults \subseteq {"database", "lost_reply", "new_build"}
    /\ MaxCrashes \in Nat

VARIABLES
    transport, budget,      \* the configuration
    arrived,                \* Telegram holds the updates 1..arrived
    acked,                  \* the updates Telegram will not deliver again
    offset, batch,          \* the poller's next update and the last one it fetched
    state, attempts,        \* per update: its row in processed_updates
    leaseLeft,              \* per update: lease_until, from now
    payload,                \* per update: payload_sha256, as the build that hashed it
    build,                  \* the running build; it hashes what it decodes of an update
    pc, at, holds,          \* per worker: its step, its update, the attempt it leased
    timeLeft,               \* per worker: until its contexts end
    commits,                \* history, per update: handlers that had their effect
    unrecorded,             \* history, per update: such effects never recorded
    crashes

config  == <<transport, budget>>
stream  == <<arrived, acked, offset, batch>>
rows    == <<state, attempts, leaseLeft, payload>>
workers == <<pc, at, holds, timeLeft>>
history == <<commits, unrecorded>>
process == <<build, crashes>>
vars    == <<config, stream, rows, workers, history, process>>

Updates == 1..Last
States  == {"absent", "processing", "processed", "failed"}

Running(w)    == pc[w] # "idle"
Handling(w,u) == Running(w) /\ at[w] = u

----------------------------------------------------------------------------
Init ==
    /\ transport \in Transports
    /\ budget \in Budgets
    /\ arrived = 0
    /\ acked = {}
    /\ offset = 1 /\ batch = 0
    /\ state = [u \in Updates |-> "absent"]
    /\ attempts = [u \in Updates |-> 0]
    /\ leaseLeft = [u \in Updates |-> 0]
    /\ payload = [u \in Updates |-> 0]
    /\ build = 0
    /\ pc = [w \in Workers |-> "idle"]
    /\ at = [w \in Workers |-> 0]
    /\ holds = [w \in Workers |-> 0]
    /\ timeLeft = [w \in Workers |-> 0]
    /\ commits = [u \in Updates |-> 0]
    /\ unrecorded = [u \in Updates |-> 0]
    /\ crashes = 0

Arrive ==
    /\ arrived < Last
    /\ arrived' = arrived + 1
    /\ UNCHANGED <<config, acked, offset, batch, rows, workers, history, process>>

\* getUpdates: the offset confirms everything before it, and the reply brings
\* what Telegram holds from there on.
Poll ==
    /\ transport = "polling"
    /\ ~Running(Poller)
    /\ batch < offset
    /\ acked' = acked \union 1..(offset - 1)
    /\ batch' = arrived
    /\ UNCHANGED <<config, arrived, offset, rows, workers, history, process>>

\* The request reaches Telegram, the reply does not come back.
PollLost ==
    /\ "lost_reply" \in Faults
    /\ transport = "polling"
    /\ ~Running(Poller)
    /\ batch < offset
    /\ acked' = acked \union 1..(offset - 1)
    /\ UNCHANGED <<config, arrived, offset, batch, rows, workers, history, process>>

\* The update is put before this worker: the next one of the poller's batch, or
\* any that Telegram has not seen answered, whether or not it is in work.
Delivered(w, u) ==
    /\ ~Running(w)
    /\ \/ transport = "polling" /\ w = Poller /\ u = offset /\ u <= batch
       \/ transport = "webhook" /\ u <= arrived /\ u \notin acked

\* Process returned nil: the offset moves on, the webhook answers 204.
Accept(u) ==
    /\ IF transport = "polling"
       THEN offset' = u + 1 /\ UNCHANGED acked
       ELSE acked' = acked \union {u} /\ UNCHANGED offset
    /\ UNCHANGED <<arrived, batch>>

\* Process returned an error: the poller drops the rest of its batch and asks
\* again from the same offset, the webhook answers 500.
Reject ==
    /\ batch' = IF transport = "polling" THEN offset - 1 ELSE batch
    /\ UNCHANGED <<arrived, acked, offset>>

----------------------------------------------------------------------------
\* The row was written by a build that decodes the update differently: ClaimUpdate
\* returns ErrConflict before it looks at the state.
Changed(u) == state[u] # "absent" /\ payload[u] # build

\* The row is not, or no longer, under a lease.
Free(u) == state[u] = "failed" \/ (state[u] = "processing" /\ leaseLeft[u] = 0)
Busy(u) == state[u] = "processing" /\ leaseLeft[u] > 0

\* Variants of the claim: a live lease is taken over; a finished update is
\* handled again; attempts are not limited.
ClaimableAlways(u) ==
    state[u] # "processed" /\ attempts[u] < MaxAttempts /\ ~Changed(u)

ClaimableUnlessLeased(u) == ~Busy(u) /\ attempts[u] < MaxAttempts /\ ~Changed(u)

\* ClaimUpdate takes a new row, a failed one, or one whose lease has run out.
Claimable(u) ==
    \/ state[u] = "absent"
    \/ ~Changed(u) /\ Free(u) /\ attempts[u] < MaxAttempts

\* ErrUpdateDead: the attempts are used up.
Dead(u) == ~Changed(u) /\ Free(u) /\ attempts[u] >= MaxAttempts

Take(u) ==
    /\ state' = [state EXCEPT ![u] = "processing"]
    /\ attempts' = [attempts EXCEPT ![u] = @ + 1]
    /\ leaseLeft' = [leaseLeft EXCEPT ![u] = Lease]
    /\ payload' = [payload EXCEPT ![u] = build]

Claim(w, u) ==
    /\ Delivered(w, u)
    /\ Claimable(u)
    /\ Take(u)
    /\ pc' = [pc EXCEPT ![w] = "handling"]
    /\ at' = [at EXCEPT ![w] = u]
    /\ holds' = [holds EXCEPT ![w] = attempts[u] + 1]
    /\ timeLeft' = [timeLeft EXCEPT ![w] = budget]
    /\ UNCHANGED <<config, stream, history, process>>

\* The claim commits but the processor sees a database error.
ClaimLost(w, u) ==
    /\ "database" \in Faults
    /\ Delivered(w, u)
    /\ Claimable(u)
    /\ Take(u)
    /\ Reject
    /\ UNCHANGED <<config, workers, history, process>>

\* Variant: what is in work, or only what was processed, counts as done.
AcknowledgeBusy(w, u) ==
    /\ Delivered(w, u)
    /\ ~Changed(u) /\ (state[u] = "processed" \/ Dead(u) \/ Busy(u))
    /\ Accept(u)
    /\ UNCHANGED <<config, rows, workers, history, process>>

AcknowledgeProcessed(w, u) ==
    /\ Delivered(w, u)
    /\ ~Changed(u) /\ state[u] = "processed"
    /\ Accept(u)
    /\ UNCHANGED <<config, rows, workers, history, process>>

\* Already processed, or dead-lettered: nothing is left to do.
Acknowledge(w, u) ==
    /\ Delivered(w, u)
    /\ ~Changed(u) /\ (state[u] = "processed" \/ Dead(u))
    /\ Accept(u)
    /\ UNCHANGED <<config, rows, workers, history, process>>

\* ErrUpdateBusy: another worker, or a process that died, holds the lease. Or
\* ErrConflict: the payload hash is another one.
Postpone(w, u) ==
    /\ Delivered(w, u)
    /\ Changed(u) \/ Busy(u)
    /\ Reject
    /\ UNCHANGED <<config, rows, workers, history, process>>

----------------------------------------------------------------------------
\* The handler's transactions commit: from here on the update has had its effect.
HandlerCommits(w) ==
    /\ pc[w] = "handling"
    /\ pc' = [pc EXCEPT ![w] = "committed"]
    /\ commits' = [commits EXCEPT ![at[w]] = @ + 1]
    /\ UNCHANGED <<config, stream, rows, at, holds, timeLeft, unrecorded, process>>

\* The handler returns an error or panics, before its commit or after it.
HandlerFails(w) ==
    /\ pc[w] \in {"handling", "committed"}
    /\ pc' = [pc EXCEPT ![w] = "failing"]
    /\ unrecorded' = IF pc[w] = "committed"
                     THEN [unrecorded EXCEPT ![at[w]] = @ + 1] ELSE unrecorded
    /\ UNCHANGED <<config, stream, rows, at, holds, timeLeft, commits, process>>

Return(w) ==
    /\ pc' = [pc EXCEPT ![w] = "idle"]
    /\ at' = [at EXCEPT ![w] = 0]
    /\ holds' = [holds EXCEPT ![w] = 0]
    /\ timeLeft' = [timeLeft EXCEPT ![w] = 0]

\* The row still carries the lease this worker took (ExpectedLeaseUntil).
HoldsLease(w) == state[at[w]] = "processing" /\ attempts[at[w]] = holds[w]

\* The row's end of an attempt.
Settle(u, s) ==
    /\ state' = [state EXCEPT ![u] = s]
    /\ leaseLeft' = [leaseLeft EXCEPT ![u] = 0]
    /\ UNCHANGED <<attempts, payload>>

\* The handler returns nil: CompleteUpdate. If the commit's reply is lost, Process returns an error and
\* the next delivery finds the update processed.
CompleteUpdate(w) ==
    /\ pc[w] = "committed"
    /\ HoldsLease(w)
    /\ Settle(at[w], "processed")
    /\ \/ Accept(at[w])
       \/ "database" \in Faults /\ Reject
    /\ Return(w)
    /\ UNCHANGED <<config, history, process>>

\* CompleteUpdate finds the lease taken over (ErrLeaseLost), or PostgreSQL is away.
CompleteFailed(w) ==
    /\ pc[w] = "committed"
    /\ ~HoldsLease(w) \/ "database" \in Faults
    /\ unrecorded' = [unrecorded EXCEPT ![at[w]] = @ + 1]
    /\ Reject
    /\ Return(w)
    /\ UNCHANGED <<config, rows, commits, process>>

\* Variant: the failure is recorded whoever holds the lease.
FailAnyUpdate(w) ==
    /\ pc[w] = "failing"
    /\ Settle(at[w], "failed")
    /\ Reject
    /\ Return(w)
    /\ UNCHANGED <<config, history, process>>

\* finishFail: FailUpdate under the same lease; its own error is ignored.
FailUpdate(w) ==
    /\ pc[w] = "failing"
    /\ \/ HoldsLease(w) /\ Settle(at[w], "failed")
       \/ (~HoldsLease(w) \/ "database" \in Faults) /\ UNCHANGED rows
    /\ Reject
    /\ Return(w)
    /\ UNCHANGED <<config, history, process>>

----------------------------------------------------------------------------
\* A poller that starts asks with offset 0, which Telegram takes for the first
\* update that is not confirmed.
FirstPending(n) == 1..(n - 1) \subseteq acked /\ n \notin acked

\* The process ends and starts again, perhaps as another build: rows stay, the
\* poller's memory does not.
Crash ==
    /\ crashes < MaxCrashes
    /\ crashes' = crashes + 1
    /\ build' \in IF "new_build" \in Faults THEN {build, build + 1} ELSE {build}
    /\ pc' = [w \in Workers |-> "idle"]
    /\ at' = [w \in Workers |-> 0]
    /\ holds' = [w \in Workers |-> 0]
    /\ timeLeft' = [w \in Workers |-> 0]
    /\ offset' \in {n \in 1..(Last + 1) : FirstPending(n)}
    /\ batch' = 0
    /\ unrecorded' = [u \in Updates |->
         unrecorded[u] + Cardinality({w \in Workers : pc[w] = "committed" /\ at[w] = u})]
    /\ UNCHANGED <<config, arrived, acked, rows, commits>>

Passing(left) == IF left = 0 THEN 0 ELSE left - 1

\* Time passes, but not beyond the moment a handler's contexts end it.
Tick ==
    /\ \A w \in Workers : Running(w) => timeLeft[w] > 0
    /\ leaseLeft' = [u \in Updates |-> Passing(leaseLeft[u])]
    /\ timeLeft' = [w \in Workers |-> Passing(timeLeft[w])]
    /\ UNCHANGED <<config, stream, state, attempts, payload, pc, at, holds, history, process>>

\* UpdateProcessor.Process up to its handler, and from there to its end.
Process(w, u) ==
    Claim(w, u) \/ ClaimLost(w, u) \/ Acknowledge(w, u) \/ Postpone(w, u)

Handle(w) ==
    \/ HandlerCommits(w) \/ HandlerFails(w)
    \/ CompleteUpdate(w) \/ CompleteFailed(w) \/ FailUpdate(w)

Next ==
    \/ Arrive \/ Poll \/ PollLost
    \/ \E w \in Workers : Handle(w) \/ \E u \in Updates : Process(w, u)
    \/ Crash
    \/ Tick

Spec == Init /\ [][Next]_vars

\* The poller polls, Telegram keeps posting to the webhook, handlers end when
\* their contexts do, time passes. Nothing is owed by the database.
Fairness ==
    /\ WF_vars(Tick)
    /\ WF_vars(Poll)
    /\ \A w \in Workers : WF_vars(Handle(w))
    /\ \A u \in Updates : WF_vars(\E w \in Workers : Process(w, u))

FairSpec == Spec /\ Fairness

----------------------------------------------------------------------------
\* Every variable stays in its range.
TypeOK ==
    /\ transport \in Transports /\ budget \in Budgets
    /\ arrived \in 0..Last
    /\ acked \subseteq Updates
    /\ offset \in 1..(Last + 1) /\ batch \in 0..Last
    /\ state \in [Updates -> States]
    /\ attempts \in [Updates -> 0..MaxAttempts]
    /\ payload \in [Updates -> Nat] /\ build \in Nat
    /\ leaseLeft \in [Updates -> 0..Lease]
    /\ pc \in [Workers -> {"idle", "handling", "committed", "failing"}]
    /\ at \in [Workers -> 0..Last]
    /\ holds \in [Workers -> 0..MaxAttempts]
    /\ timeLeft \in [Workers -> Nat]
    /\ commits \in [Updates -> Nat] /\ unrecorded \in [Updates -> Nat]
    /\ crashes \in 0..MaxCrashes

\* An update is in work once at a time, if a handler ends within the lease
\* (cmd/bot/main.go sizes it for one download and three requests).
ExclusiveHandling ==
    budget < Lease =>
        \A v, w \in Workers : Running(v) /\ Running(w) /\ at[v] = at[w] => v = w

\* internal/app/poller.go:104: the lease prevents duplicate commits. An update
\* has its effects a second time only if the first time was never recorded:
\* the handler failed after them, or the process or PostgreSQL went away.
NoDuplicateCommits ==
    budget < Lease => \A u \in Updates : commits[u] <= 1 + unrecorded[u]

\* Telegram is told to forget an update, and the poller passes it, only when it
\* was processed or its attempts are used up, and no handler works on it.
NothingSkipped ==
    \A u \in Updates :
        u \in acked \/ u < offset =>
            /\ state[u] = "processed" \/ attempts[u] = MaxAttempts
            /\ budget < Lease => \A w \in Workers : ~Handling(w, u)

\* 'processed' is final, and no handler is started on such an update, even when
\* a late handler of the same update fails after its lease was taken over.
ProcessedIsFinal ==
    [][\A u \in Updates : state[u] = "processed" =>
           /\ state'[u] = "processed"
           /\ \A w \in Workers : Handling(w, u)' => Handling(w, u)]_vars

\* internal/app/poller.go:104: an update that keeps failing does not stop the
\* stream. Whatever handlers do, and however often the record of their outcome is
\* lost, every update is acknowledged in the end, in either mode, unless a row
\* with the payload hash of another build stands in its way.
StreamFlows ==
    \A u \in Updates :
        (u <= arrived) ~> (u \in acked \/ \E v \in (1..u) \ acked : Changed(v))
=============================================================================
