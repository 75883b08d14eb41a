--------------------------- MODULE UpdatesProofs ---------------------------
(***************************************************************************)
(* Proofs about Updates, for any number of updates and attempts, every     *)
(* finite set of workers, both transports and every combination of faults. *)
(***************************************************************************)
EXTENDS Updates, FiniteSetTheorems, TLAPS

----------------------------------------------------------------------------
(* The invariant                                                           *)

\* A row that was never written counts no attempt.
AbsentIsUntried == \A u \in Updates : state[u] = "absent" => attempts[u] = 0

\* Who works, works on an update.
WorkIsOnUpdates == \A w \in Workers : Running(w) => at[w] \in Updates

\* What the poller has passed is what Telegram may forget, and it confirms nothing
\* beyond; its only work is on its next update.
PollerIsInOrder ==
    transport = "polling" =>
        /\ \A a \in acked : a < offset /\ 1..a \subseteq acked
        /\ \A w \in Workers : Running(w) => w = Poller /\ at[w] = offset

\* The webhook's offset is the poller's of a process that never polled.
WebhookHasNoOffset == transport = "webhook" => 1..(offset - 1) \subseteq acked

\* If the budget is below the lease, who works holds the row, under the attempt
\* he leased, for longer than he works.
WorkersHoldTheRow ==
    budget < Lease =>
        \A w \in Workers : Running(w) =>
            /\ state[at[w]] = "processing" /\ attempts[at[w]] = holds[w]
            /\ timeLeft[w] < leaseLeft[at[w]]

\* An effect that is not given up is recorded, or with the worker who had it.
EffectsAreAccounted ==
    budget < Lease =>
        \A u \in Updates :
            /\ commits[u] <= 1 + unrecorded[u]
            /\ commits[u] > unrecorded[u] =>
                   \/ state[u] = "processed"
                   \/ \E w \in Workers : pc[w] = "committed" /\ at[w] = u

TypeInv == TypeOK /\ AbsentIsUntried /\ WorkIsOnUpdates

UpdatesInv ==
    /\ TypeInv
    /\ PollerIsInOrder
    /\ WebhookHasNoOffset
    /\ ExclusiveHandling
    /\ WorkersHoldTheRow
    /\ EffectsAreAccounted
    /\ NothingSkipped

----------------------------------------------------------------------------
(* Types                                                                   *)

\* The initial state is well typed.
LEMMA TypeInit == Init => TypeInv
  BY UpdatesAssumption DEF UpdatesAssumption, Init, TypeInv, TypeOK, AbsentIsUntried, WorkIsOnUpdates, Running, Updates, States

\* A claim counts one attempt more, and there was one left.
LEMMA TakeType ==
    ASSUME TypeInv, NEW u \in Updates, Claimable(u), Take(u)
    PROVE  /\ attempts[u] + 1 \in 0..MaxAttempts
           /\ state' \in [Updates -> States]
           /\ attempts' \in [Updates -> 0..MaxAttempts]
           /\ leaseLeft' \in [Updates -> 0..Lease]
           /\ payload' \in [Updates -> Nat]
           /\ AbsentIsUntried'
<1>1. attempts[u] + 1 \in 0..MaxAttempts
  BY UpdatesAssumption DEF UpdatesAssumption, TypeInv, TypeOK, AbsentIsUntried, Claimable
<1> QED BY <1>1, UpdatesAssumption DEF UpdatesAssumption, Take, TypeInv, TypeOK, AbsentIsUntried, States

\* Acknowledging or rejecting an update moves the stream within its range.
LEMMA StreamType ==
    ASSUME TypeInv, NEW u \in Updates, Accept(u) \/ Reject
    PROVE  /\ arrived' = arrived /\ acked' \subseteq Updates
           /\ offset' \in 1..(Last + 1) /\ batch' \in 0..Last
<1>1. Last \in Nat /\ u \in 1..Last /\ acked \subseteq 1..Last /\ offset \in 1..(Last + 1) /\ batch \in 0..Last
  BY UpdatesAssumption DEF UpdatesAssumption, TypeInv, TypeOK, Updates
<1>2. offset - 1 \in 0..Last /\ u + 1 \in 1..(Last + 1)
  BY <1>1
<1>3. CASE Accept(u)
  BY <1>1, <1>2, <1>3 DEF Accept, Updates
<1>4. CASE Reject
  BY <1>1, <1>2, <1>4 DEF Reject, Updates
<1> QED BY <1>3, <1>4

\* A worker that returns is at rest.
LEMMA ReturnType ==
    ASSUME TypeInv, NEW w \in Workers, Return(w)
    PROVE  /\ pc' \in [Workers -> {"idle", "handling", "committed", "failing"}]
           /\ at' \in [Workers -> 0..Last] /\ holds' \in [Workers -> 0..MaxAttempts]
           /\ timeLeft' \in [Workers -> Nat]
           /\ WorkIsOnUpdates'
  BY UpdatesAssumption
     DEF UpdatesAssumption, Return, TypeInv, TypeOK, WorkIsOnUpdates, Running

\* The end of an attempt leaves a written row.
LEMMA SettleType ==
    ASSUME TypeInv, NEW u \in Updates, NEW s \in {"processed", "failed"}, Settle(u, s)
    PROVE  /\ state' \in [Updates -> States] /\ leaseLeft' \in [Updates -> 0..Lease]
           /\ attempts' \in [Updates -> 0..MaxAttempts] /\ payload' \in [Updates -> Nat]
           /\ AbsentIsUntried'
<1>1. Lease \in Nat
  BY UpdatesAssumption DEF UpdatesAssumption
<1>2. AbsentIsUntried'
  BY DEF Settle, TypeInv, TypeOK, AbsentIsUntried
<1> QED BY <1>1, <1>2 DEF Settle, TypeInv, TypeOK, States

\* Every step keeps the types.
LEMMA TypeStep == TypeInv /\ [Next]_vars => TypeInv'
<1> SUFFICES ASSUME TypeInv, [Next]_vars PROVE TypeInv'
  OBVIOUS
<1> USE DEF rows, workers, stream, history, config, process
<1>1. CASE Arrive
  BY <1>1, UpdatesAssumption DEF UpdatesAssumption, Arrive, TypeInv, TypeOK, AbsentIsUntried, WorkIsOnUpdates, Running
<1>2. CASE Poll \/ PollLost
  <2>1. 1..(offset - 1) \subseteq Updates
    BY UpdatesAssumption DEF UpdatesAssumption, TypeInv, TypeOK, Updates
  <2> QED BY <1>2, <2>1 DEF Poll, PollLost, TypeInv, TypeOK, AbsentIsUntried, WorkIsOnUpdates, Running
<1>3. ASSUME NEW w \in Workers, NEW u \in Updates, Claim(w, u) PROVE TypeInv'
  <2>1. budget \in Nat /\ u \in 0..Last
    BY UpdatesAssumption DEF UpdatesAssumption, TypeInv, TypeOK, Updates
  <2>2. TypeOK' /\ AbsentIsUntried'
    BY <1>3, <2>1, TakeType DEF Claim, TypeInv, TypeOK
  <2>3. WorkIsOnUpdates'
    BY <1>3 DEF Claim, TypeInv, TypeOK, WorkIsOnUpdates, Running
  <2> QED BY <2>2, <2>3 DEF TypeInv
<1>4. ASSUME NEW w \in Workers, NEW u \in Updates, ClaimLost(w, u) PROVE TypeInv'
  BY <1>4, TakeType, StreamType DEF ClaimLost, TypeInv, TypeOK, WorkIsOnUpdates, Running
<1>5. ASSUME NEW w \in Workers, NEW u \in Updates, Acknowledge(w, u) \/ Postpone(w, u) PROVE TypeInv'
  BY <1>5, StreamType DEF Acknowledge, Postpone, TypeInv, TypeOK, AbsentIsUntried, WorkIsOnUpdates, Running
<1>6. ASSUME NEW w \in Workers, HandlerCommits(w) \/ HandlerFails(w) PROVE TypeInv'
  <2>1. at[w] \in Updates
    BY <1>6 DEF HandlerCommits, HandlerFails, TypeInv, WorkIsOnUpdates, Running
  <2> QED BY <1>6, <2>1 DEF HandlerCommits, HandlerFails, TypeInv, TypeOK, AbsentIsUntried, WorkIsOnUpdates, Running
<1>7. ASSUME NEW w \in Workers, CompleteUpdate(w) \/ CompleteFailed(w) \/ FailUpdate(w) PROVE TypeInv'
  <2>1. at[w] \in Updates
    BY <1>7 DEF CompleteUpdate, CompleteFailed, FailUpdate, TypeInv, WorkIsOnUpdates, Running
  <2>2. Return(w) /\ (Accept(at[w]) \/ Reject) /\ UNCHANGED <<config, commits, process>>
    BY <1>7 DEF CompleteUpdate, CompleteFailed, FailUpdate
  <2>3. Settle(at[w], "processed") \/ Settle(at[w], "failed") \/ UNCHANGED rows
    BY <1>7 DEF CompleteUpdate, CompleteFailed, FailUpdate
  <2>4. /\ state' \in [Updates -> States] /\ leaseLeft' \in [Updates -> 0..Lease]
        /\ attempts' \in [Updates -> 0..MaxAttempts] /\ payload' \in [Updates -> Nat]
        /\ AbsentIsUntried'
    BY <2>1, <2>3, SettleType DEF TypeInv, TypeOK, AbsentIsUntried
  <2>5. unrecorded' \in [Updates -> Nat]
    BY <1>7, <2>1 DEF CompleteUpdate, CompleteFailed, FailUpdate, TypeInv, TypeOK
  <2> QED BY <2>1, <2>2, <2>4, <2>5, ReturnType, StreamType DEF TypeInv, TypeOK
<1>8. CASE Crash
  <2>1. \A u \in Updates : Cardinality({w \in Workers : pc[w] = "committed" /\ at[w] = u}) \in Nat
    BY UpdatesAssumption, FS_Subset, FS_CardinalityType DEF UpdatesAssumption
  <2> QED BY <1>8, <2>1, UpdatesAssumption DEF UpdatesAssumption, Crash, TypeInv, TypeOK, AbsentIsUntried, WorkIsOnUpdates, Running
<1>9. CASE Tick
  BY <1>9, UpdatesAssumption DEF UpdatesAssumption, Tick, Passing, TypeInv, TypeOK, AbsentIsUntried, WorkIsOnUpdates, Running
<1>10. CASE UNCHANGED vars
  BY <1>10 DEF vars, TypeInv, TypeOK, AbsentIsUntried, WorkIsOnUpdates, Running
<1> QED BY <1>1, <1>2, <1>3, <1>4, <1>5, <1>6, <1>7, <1>8, <1>9, <1>10 DEF Next, Process, Handle

\* Type correctness of Updates.
THEOREM TypeCorrect == Spec => []TypeOK
<1>1. Spec => []TypeInv
  BY TypeInit, TypeStep, PTL DEF Spec
<1>2. TypeInv => TypeOK
  BY DEF TypeInv
<1> QED BY <1>1, <1>2, PTL

----------------------------------------------------------------------------
(* Finality                                                                *)

\* No step takes 'processed' back or starts a handler on what is processed.
LEMMA FinalStep ==
    ASSUME TypeInv, [Next]_vars, NEW u \in Updates, state[u] = "processed"
    PROVE  /\ state'[u] = "processed"
           /\ \A w \in Workers : Handling(w, u)' => Handling(w, u)
<1> USE DEF rows, workers
<1>1. ASSUME NEW w \in Workers, NEW v \in Updates, Claim(w, v) \/ ClaimLost(w, v)
      PROVE  /\ state'[u] = "processed"
             /\ \A x \in Workers : Handling(x, u)' => Handling(x, u)
  <2>1. v # u
    BY <1>1 DEF Claim, ClaimLost, Claimable, Free
  <2> QED BY <1>1, <2>1 DEF Claim, ClaimLost, Take, Handling, Running, TypeInv, TypeOK
<1>2. ASSUME NEW w \in Workers, CompleteUpdate(w) \/ CompleteFailed(w) \/ FailUpdate(w)
      PROVE  /\ state'[u] = "processed"
             /\ \A x \in Workers : Handling(x, u)' => Handling(x, u)
  <2>1. \/ HoldsLease(w) /\ \E s \in {"processed", "failed"} : Settle(at[w], s)
        \/ UNCHANGED rows
    BY <1>2 DEF CompleteUpdate, CompleteFailed, FailUpdate
  <2>2. state'[u] = "processed"
    BY <2>1 DEF HoldsLease, Settle, TypeInv, TypeOK
  <2>3. \A x \in Workers : Running(x)' => Running(x) /\ at'[x] = at[x]
    BY <1>2 DEF CompleteUpdate, CompleteFailed, FailUpdate, Return, Running, TypeInv, TypeOK
  <2> QED BY <2>2, <2>3 DEF Handling
<1>3. CASE Arrive \/ Poll \/ PollLost
  BY <1>3 DEF Arrive, Poll, PollLost, Handling, Running
<1>4. ASSUME NEW w \in Workers, NEW v \in Updates, Acknowledge(w, v) \/ Postpone(w, v)
      PROVE  /\ state'[u] = "processed"
             /\ \A x \in Workers : Handling(x, u)' => Handling(x, u)
  BY <1>4 DEF Acknowledge, Postpone, Handling, Running
<1>5. ASSUME NEW w \in Workers, HandlerCommits(w) \/ HandlerFails(w)
      PROVE  /\ state'[u] = "processed"
             /\ \A x \in Workers : Handling(x, u)' => Handling(x, u)
  BY <1>5 DEF HandlerCommits, HandlerFails, Handling, Running, TypeInv, TypeOK
<1>6. CASE Crash
  BY <1>6 DEF Crash, Handling, Running
<1>7. CASE Tick
  BY <1>7 DEF Tick, Handling, Running
<1>8. CASE UNCHANGED vars
  BY <1>8 DEF vars, Handling, Running
<1> QED BY <1>1, <1>2, <1>3, <1>4, <1>5, <1>6, <1>7, <1>8 DEF Next, Process, Handle

----------------------------------------------------------------------------
(* Order                                                                   *)

Order == PollerIsInOrder /\ WebhookHasNoOffset

\* What a worker accepts is, for the poller, its next update.
LEMMA AcceptStep ==
    ASSUME TypeInv, Order, NEW u \in Updates, Accept(u), transport' = transport,
           transport = "polling" => u = offset /\ \A w \in Workers : ~Running(w)'
    PROVE  Order'
<1>1. Last \in Nat /\ u \in 1..Last /\ acked \subseteq 1..Last /\ offset \in 1..(Last + 1)
  BY UpdatesAssumption DEF UpdatesAssumption, TypeInv, TypeOK, Updates
<1>2. CASE transport = "polling"
  <2>1. offset' = offset + 1 /\ acked' = acked
    BY <1>2 DEF Accept
  <2>2. \A a \in acked : a < offset + 1
    BY <1>1, <1>2 DEF Order, PollerIsInOrder
  <2> QED BY <1>2, <2>1, <2>2 DEF Order, PollerIsInOrder, WebhookHasNoOffset
<1>3. CASE transport # "polling"
  BY <1>3 DEF Accept, Order, PollerIsInOrder, WebhookHasNoOffset
<1> QED BY <1>2, <1>3

\* Every step keeps the order of the stream.
LEMMA OrderStep == TypeInv /\ Order /\ [Next]_vars => Order'
<1> SUFFICES ASSUME TypeInv, Order, [Next]_vars PROVE Order'
  OBVIOUS
<1> USE DEF stream, config, workers
<1>1. CASE Poll \/ PollLost
  <2>1. Last \in Nat /\ acked \subseteq 1..Last /\ offset \in 1..(Last + 1)
    BY UpdatesAssumption DEF UpdatesAssumption, TypeInv, TypeOK, Updates
  <2>2. acked' = acked \union 1..(offset - 1) /\ UNCHANGED <<transport, offset, pc, at>>
    BY <1>1 DEF Poll, PollLost
  <2>3. transport = "polling"
    BY <1>1 DEF Poll, PollLost
  <2>4. \A a \in acked' : a < offset /\ 1..a \subseteq acked'
    BY <2>1, <2>2, <2>3 DEF Order, PollerIsInOrder
  <2> QED BY <2>2, <2>3, <2>4 DEF Order, PollerIsInOrder, WebhookHasNoOffset, Running
<1>2. ASSUME NEW w \in Workers, NEW u \in Updates, Claim(w, u) PROVE Order'
  BY <1>2 DEF Claim, Delivered, Order, PollerIsInOrder, WebhookHasNoOffset, Running, TypeInv, TypeOK
<1>3. ASSUME NEW w \in Workers, NEW u \in Updates, ClaimLost(w, u) \/ Postpone(w, u) PROVE Order'
  BY <1>3 DEF ClaimLost, Postpone, Reject, Order, PollerIsInOrder, WebhookHasNoOffset, Running
<1>4. ASSUME NEW w \in Workers, NEW u \in Updates, Acknowledge(w, u) PROVE Order'
  <2>1. transport = "polling" => u = offset /\ \A x \in Workers : ~Running(x)'
    BY <1>4 DEF Acknowledge, Delivered, Order, PollerIsInOrder, Running
  <2> QED BY <1>4, <2>1, AcceptStep DEF Acknowledge
<1>5. ASSUME NEW w \in Workers, HandlerCommits(w) \/ HandlerFails(w) PROVE Order'
  BY <1>5 DEF HandlerCommits, HandlerFails, Order, PollerIsInOrder, WebhookHasNoOffset, Running, TypeInv, TypeOK
<1>6. ASSUME NEW w \in Workers, CompleteUpdate(w) \/ CompleteFailed(w) \/ FailUpdate(w) PROVE Order'
  <2>1. Running(w) /\ at[w] \in Updates
    BY <1>6 DEF CompleteUpdate, CompleteFailed, FailUpdate, Running, TypeInv, WorkIsOnUpdates
  <2>2. Return(w) /\ UNCHANGED transport /\ (Accept(at[w]) \/ Reject)
    BY <1>6 DEF CompleteUpdate, CompleteFailed, FailUpdate
  <2>3. \A x \in Workers : Running(x)' => Running(x) /\ x # w /\ at'[x] = at[x]
    BY <2>2 DEF Return, Running, TypeInv, TypeOK
  <2>4. CASE Accept(at[w])
    <3>1. transport = "polling" => at[w] = offset /\ \A x \in Workers : ~Running(x)'
      BY <2>1, <2>3 DEF Order, PollerIsInOrder
    <3> QED BY <2>1, <2>2, <2>4, <3>1, AcceptStep
  <2>5. CASE Reject
    BY <2>2, <2>3, <2>5 DEF Reject, Order, PollerIsInOrder, WebhookHasNoOffset
  <2> QED BY <2>2, <2>4, <2>5
<1>7. CASE Crash
  <2>1. Last \in Nat /\ acked \subseteq 1..Last
    BY UpdatesAssumption DEF UpdatesAssumption, TypeInv, TypeOK, Updates
  <2>2. acked' = acked /\ transport' = transport /\ \A w \in Workers : ~Running(w)'
    BY <1>7 DEF Crash, Running
  <2>3. offset' \in 1..(Last + 1) /\ 1..(offset' - 1) \subseteq acked /\ offset' \notin acked
    BY <1>7 DEF Crash, FirstPending
  <2>4. transport = "polling" => \A a \in acked : a < offset'
    BY <2>1, <2>3 DEF Order, PollerIsInOrder
  <2> QED BY <2>2, <2>3, <2>4 DEF Order, PollerIsInOrder, WebhookHasNoOffset
<1>8. CASE Arrive \/ Tick
  BY <1>8 DEF Arrive, Tick, Order, PollerIsInOrder, WebhookHasNoOffset, Running
<1>9. CASE UNCHANGED vars
  BY <1>9 DEF vars, Order, PollerIsInOrder, WebhookHasNoOffset, Running
<1> QED BY <1>1, <1>2, <1>3, <1>4, <1>5, <1>6, <1>7, <1>8, <1>9 DEF Next, Process, Handle

----------------------------------------------------------------------------
(* Leases                                                                  *)

Leased == ExclusiveHandling /\ WorkersHoldTheRow

\* Within its budget nobody works on a row that may be claimed, or on a finished one.
LEMMA FreeRowsRest ==
    ASSUME Leased, budget < Lease, NEW u \in Updates, ~Busy(u), NEW w \in Workers, Running(w),
           leaseLeft \in [Updates -> 0..Lease], timeLeft \in [Workers -> Nat]
    PROVE  at[w] # u
<1> SUFFICES ASSUME at[w] = u PROVE FALSE
  OBVIOUS
<1>1. state[u] = "processing" /\ timeLeft[w] < leaseLeft[u]
  BY DEF Leased, WorkersHoldTheRow
<1>2. leaseLeft[u] \in Nat /\ timeLeft[w] \in Nat
  BY UpdatesAssumption DEF UpdatesAssumption
<1> QED BY <1>1, <1>2 DEF Busy

\* The configuration stays.
LEMMA ConfigStep == [Next]_vars => UNCHANGED config
<1> SUFFICES ASSUME [Next]_vars PROVE UNCHANGED config
  OBVIOUS
<1>1. ASSUME NEW w \in Workers, Handle(w) PROVE UNCHANGED config
  BY <1>1 DEF Handle, HandlerCommits, HandlerFails, CompleteUpdate, CompleteFailed, FailUpdate
<1>2. ASSUME NEW w \in Workers, NEW u \in Updates, Process(w, u) PROVE UNCHANGED config
  BY <1>2 DEF Process, Claim, ClaimLost, Acknowledge, Postpone
<1>3. CASE Arrive \/ Poll \/ PollLost
  BY <1>3 DEF Arrive, Poll, PollLost
<1>4. CASE Crash \/ Tick \/ UNCHANGED vars
  BY <1>4 DEF Crash, Tick, vars
<1> QED BY <1>1, <1>2, <1>3, <1>4 DEF Next

\* Every step keeps who holds which row.
LEMMA LeaseStep == TypeInv /\ Leased /\ [Next]_vars => Leased'
<1> SUFFICES ASSUME TypeInv, Leased, [Next]_vars PROVE Leased'
  OBVIOUS
<1> SUFFICES ASSUME budget < Lease, NEW w \in Workers, Running(w)'
             PROVE  /\ \A v \in Workers : Running(v)' /\ at'[v] = at'[w] => v = w
                    /\ state'[at'[w]] = "processing" /\ attempts'[at'[w]] = holds'[w]
                    /\ timeLeft'[w] < leaseLeft'[at'[w]]
  <2>1. budget' = budget
    BY ConfigStep DEF config
  <2> QED BY <2>1 DEF Leased, ExclusiveHandling, WorkersHoldTheRow
<1> DEFINE Kept == /\ \A v \in Workers : Running(v)' /\ at'[v] = at'[w] => v = w
                   /\ state'[at'[w]] = "processing" /\ attempts'[at'[w]] = holds'[w]
                   /\ timeLeft'[w] < leaseLeft'[at'[w]]
<1> USE DEF rows, workers
<1>1. ASSUME NEW x \in Workers, NEW u \in Updates, Claim(x, u) PROVE Kept
  <2>1. \A v \in Workers : Running(v) => at[v] # u
    <3>1. ~Busy(u)
      BY <1>1 DEF Claim, Claimable, Free, Busy
    <3> QED BY <3>1, FreeRowsRest DEF TypeInv, TypeOK
  <2>2. \A v \in Workers : v # x => (Running(v)' <=> Running(v)) /\ at'[v] = at[v]
                                 /\ holds'[v] = holds[v] /\ timeLeft'[v] = timeLeft[v]
    BY <1>1 DEF Claim, Running, TypeInv, TypeOK
  <2>3. CASE w = x
    BY <1>1, <2>1, <2>2, <2>3 DEF Claim, Take, TypeInv, TypeOK
  <2>4. CASE w # x
    <3>1. Running(w) /\ at[w] \in Updates /\ at[w] # u
      BY <2>1, <2>2, <2>4 DEF TypeInv, WorkIsOnUpdates
    <3>2. at'[x] = u
      BY <1>1 DEF Claim, TypeInv, TypeOK
    <3> QED BY <1>1, <2>2, <2>4, <3>1, <3>2
            DEF Claim, Take, Leased, ExclusiveHandling, WorkersHoldTheRow, TypeInv, TypeOK
  <2> QED BY <2>3, <2>4
<1>2. ASSUME NEW x \in Workers, NEW u \in Updates, ClaimLost(x, u) PROVE Kept
  <2>1. \A v \in Workers : Running(v) => at[v] # u
    <3>1. ~Busy(u)
      BY <1>2 DEF ClaimLost, Claimable, Free, Busy
    <3> QED BY <3>1, FreeRowsRest DEF TypeInv, TypeOK
  <2>2. Running(w) /\ at[w] \in Updates
    BY <1>2 DEF ClaimLost, Running, TypeInv, WorkIsOnUpdates
  <2> QED BY <1>2, <2>1, <2>2
          DEF ClaimLost, Take, Running, Leased, ExclusiveHandling, WorkersHoldTheRow, TypeInv, TypeOK
<1>3. ASSUME NEW x \in Workers, CompleteUpdate(x) \/ CompleteFailed(x) \/ FailUpdate(x) PROVE Kept
  <2>1. Running(x) /\ Return(x)
    BY <1>3 DEF CompleteUpdate, CompleteFailed, FailUpdate, Running
  <2>2. \A v \in Workers : Running(v)' => Running(v) /\ v # x /\ at'[v] = at[v]
                                      /\ holds'[v] = holds[v] /\ timeLeft'[v] = timeLeft[v]
    BY <2>1 DEF Return, Running, TypeInv, TypeOK
  <2>3. at[w] # at[x] /\ at[w] \in Updates /\ at[x] \in Updates
    BY <2>1, <2>2 DEF Leased, ExclusiveHandling, TypeInv, WorkIsOnUpdates
  <2>4. UNCHANGED rows \/ \E s \in {"processed", "failed"} : Settle(at[x], s)
    BY <1>3 DEF CompleteUpdate, CompleteFailed, FailUpdate
  <2>5. /\ state'[at[w]] = state[at[w]] /\ attempts'[at[w]] = attempts[at[w]]
        /\ leaseLeft'[at[w]] = leaseLeft[at[w]]
    BY <2>3, <2>4 DEF Settle, TypeInv, TypeOK
  <2> QED BY <2>2, <2>5 DEF Leased, ExclusiveHandling, WorkersHoldTheRow
<1>4. ASSUME NEW x \in Workers, HandlerCommits(x) \/ HandlerFails(x) PROVE Kept
  <2>1. \A v \in Workers : Running(v)' => Running(v)
    BY <1>4 DEF HandlerCommits, HandlerFails, Running, TypeInv, TypeOK
  <2> QED BY <1>4, <2>1 DEF HandlerCommits, HandlerFails, Leased, ExclusiveHandling, WorkersHoldTheRow
<1>5. CASE Tick
  <2>1. \A v \in Workers : Running(v)' <=> Running(v)
    BY <1>5 DEF Tick, Running
  <2>2. at[w] \in Updates /\ timeLeft[w] > 0 /\ timeLeft[w] < leaseLeft[at[w]]
    BY <1>5, <2>1 DEF Tick, Leased, WorkersHoldTheRow, TypeInv, WorkIsOnUpdates
  <2>3. timeLeft[w] \in Nat /\ leaseLeft[at[w]] \in Nat
    BY <2>2, UpdatesAssumption DEF UpdatesAssumption, TypeInv, TypeOK
  <2>4. timeLeft'[w] = timeLeft[w] - 1 /\ leaseLeft'[at[w]] = leaseLeft[at[w]] - 1
    BY <1>5, <2>2, <2>3 DEF Tick, Passing
  <2>5. timeLeft'[w] < leaseLeft'[at[w]]
    BY <2>2, <2>3, <2>4
  <2> QED BY <1>5, <2>1, <2>5 DEF Tick, Leased, ExclusiveHandling, WorkersHoldTheRow
<1>6. CASE Crash
  BY <1>6 DEF Crash, Running
<1>7. CASE Arrive \/ Poll \/ PollLost
  BY <1>7 DEF Arrive, Poll, PollLost, Running, Leased, ExclusiveHandling, WorkersHoldTheRow
<1>8. ASSUME NEW x \in Workers, NEW u \in Updates, Acknowledge(x, u) \/ Postpone(x, u) PROVE Kept
  BY <1>8 DEF Acknowledge, Postpone, Running, Leased, ExclusiveHandling, WorkersHoldTheRow
<1>9. CASE UNCHANGED vars
  BY <1>9 DEF vars, Running, Leased, ExclusiveHandling, WorkersHoldTheRow
<1> QED BY <1>1, <1>2, <1>3, <1>4, <1>5, <1>6, <1>7, <1>8, <1>9 DEF Next, Process, Handle

----------------------------------------------------------------------------
(* Effects                                                                 *)

\* Every step accounts for the effects of the handlers.
LEMMA EffectsStep == TypeInv /\ Leased /\ EffectsAreAccounted /\ [Next]_vars => EffectsAreAccounted'
<1> SUFFICES ASSUME TypeInv, Leased, EffectsAreAccounted, [Next]_vars PROVE EffectsAreAccounted'
  OBVIOUS
<1> DEFINE Kept(u) == /\ commits'[u] <= 1 + unrecorded'[u]
                      /\ commits'[u] > unrecorded'[u] =>
                            \/ state'[u] = "processed"
                            \/ \E w \in Workers : pc'[w] = "committed" /\ at'[w] = u
<1> SUFFICES ASSUME budget < Lease, NEW u \in Updates PROVE Kept(u)
  <2>1. budget' = budget
    BY ConfigStep DEF config
  <2> QED BY <2>1 DEF EffectsAreAccounted
<1> USE DEF rows, workers, history
<1>1. /\ commits[u] \in Nat /\ unrecorded[u] \in Nat
      /\ commits[u] <= 1 + unrecorded[u]
      /\ commits[u] > unrecorded[u] =>
            state[u] = "processed" \/ \E w \in Workers : pc[w] = "committed" /\ at[w] = u
  BY DEF EffectsAreAccounted, TypeInv, TypeOK
<1>2. ASSUME NEW x \in Workers, NEW v \in Updates, Claim(x, v) \/ ClaimLost(x, v) PROVE Kept(u)
  <2>1. state[u] = "processed" => state'[u] = "processed"
    BY FinalStep
  <2>2. \A w \in Workers : pc[w] = "committed" => pc'[w] = "committed" /\ at'[w] = at[w]
    BY <1>2 DEF Claim, ClaimLost, Delivered, Running, TypeInv, TypeOK
  <2> QED BY <1>1, <1>2, <2>1, <2>2 DEF Claim, ClaimLost
<1>3. ASSUME NEW x \in Workers, HandlerCommits(x) PROVE Kept(u)
  <2>1. /\ at' = at /\ pc'[x] = "committed" /\ UNCHANGED <<state, unrecorded>>
        /\ \A w \in Workers : w # x => pc'[w] = pc[w]
    BY <1>3 DEF HandlerCommits, TypeInv, TypeOK
  <2>2. pc[x] = "handling" /\ Running(x)
    BY <1>3 DEF HandlerCommits, Running
  <2>3. CASE u = at[x]
    <3>1. state[u] = "processing"
      BY <2>2, <2>3 DEF Leased, WorkersHoldTheRow
    <3>2. \A w \in Workers : pc[w] = "committed" => at[w] # u
      BY <2>2, <2>3 DEF Leased, ExclusiveHandling, Running
    <3>3. commits[u] <= unrecorded[u]
      BY <1>1, <3>1, <3>2
    <3>4. commits'[u] = commits[u] + 1
      BY <1>3, <2>3 DEF HandlerCommits, TypeInv, TypeOK
    <3> QED BY <1>1, <2>1, <2>3, <3>3, <3>4
  <2>4. CASE u # at[x]
    <3>1. commits'[u] = commits[u]
      BY <1>3, <2>4 DEF HandlerCommits, TypeInv, TypeOK
    <3> QED BY <1>1, <2>1, <2>2, <2>4, <3>1
  <2> QED BY <2>3, <2>4
<1>4. ASSUME NEW x \in Workers, HandlerFails(x) \/ CompleteFailed(x) PROVE Kept(u)
  <2>1. /\ \A w \in Workers : w # x => pc'[w] = pc[w] /\ at'[w] = at[w]
        /\ UNCHANGED <<state, commits>>
    BY <1>4 DEF HandlerFails, CompleteFailed, Return, TypeInv, TypeOK
  <2>2. CASE pc[x] = "committed" /\ u = at[x]
    <3>1. unrecorded'[u] = unrecorded[u] + 1
      BY <1>4, <2>2 DEF HandlerFails, CompleteFailed, TypeInv, TypeOK
    <3> QED BY <1>1, <2>1, <3>1
  <2>3. CASE ~(pc[x] = "committed" /\ u = at[x])
    <3>1. unrecorded'[u] = unrecorded[u]
      BY <1>4, <2>3 DEF HandlerFails, CompleteFailed, TypeInv, TypeOK
    <3> QED BY <1>1, <2>1, <2>3, <3>1
  <2> QED BY <2>2, <2>3
<1>5. ASSUME NEW x \in Workers, CompleteUpdate(x) \/ FailUpdate(x) PROVE Kept(u)
  <2>1. /\ \A w \in Workers : w # x => pc'[w] = pc[w] /\ at'[w] = at[w]
        /\ UNCHANGED <<unrecorded, commits>>
    BY <1>5 DEF CompleteUpdate, FailUpdate, Return, TypeInv, TypeOK
  <2>2. state[u] = "processed" => state'[u] = "processed"
    BY FinalStep
  <2>3. pc[x] = "committed" /\ u = at[x] => state'[u] = "processed"
    BY <1>5 DEF CompleteUpdate, FailUpdate, Settle, TypeInv, TypeOK
  <2> QED BY <1>1, <2>1, <2>2, <2>3
<1>6. CASE Crash
  <2> DEFINE Lost == {w \in Workers : pc[w] = "committed" /\ at[w] = u}
  <2>1. IsFiniteSet(Lost) /\ Cardinality(Lost) \in Nat
    BY UpdatesAssumption, FS_Subset, FS_CardinalityType DEF UpdatesAssumption
  <2>2. unrecorded'[u] = unrecorded[u] + Cardinality(Lost) /\ UNCHANGED <<state, commits>>
    BY <1>6 DEF Crash
  <2>3. Lost # {} => Cardinality(Lost) >= 1
    BY <2>1, FS_EmptySet
  <2> HIDE DEF Lost
  <2>4. Lost = {} => ~\E w \in Workers : pc[w] = "committed" /\ at[w] = u
    BY DEF Lost
  <2> QED BY <1>1, <2>1, <2>2, <2>3, <2>4
<1>7. CASE Arrive \/ Poll \/ PollLost \/ Tick
  BY <1>1, <1>7 DEF Arrive, Poll, PollLost, Tick
<1>8. ASSUME NEW x \in Workers, NEW v \in Updates, Acknowledge(x, v) \/ Postpone(x, v) PROVE Kept(u)
  BY <1>1, <1>8 DEF Acknowledge, Postpone
<1>9. CASE UNCHANGED vars
  BY <1>1, <1>9 DEF vars
<1> QED BY <1>2, <1>3, <1>4, <1>5, <1>6, <1>7, <1>8, <1>9 DEF Next, Process, Handle

----------------------------------------------------------------------------
(* What may be forgotten                                                   *)

\* Nothing is left to do about an update, now and later.
Settled(u) == state[u] = "processed" \/ attempts[u] = MaxAttempts

\* An update about which nothing is left to do stays so.
LEMMA SettledStays ==
    ASSUME TypeInv, [Next]_vars, NEW u \in Updates, Settled(u)
    PROVE  Settled(u)'
<1> USE DEF rows
<1>1. ASSUME NEW x \in Workers, NEW v \in Updates, Claim(x, v) \/ ClaimLost(x, v) PROVE Settled(u)'
  <2>1. MaxAttempts \in Nat \ {0}
    BY UpdatesAssumption DEF UpdatesAssumption
  <2>2. v # u
    BY <1>1, <2>1 DEF Claim, ClaimLost, Claimable, Free, Settled, TypeInv, AbsentIsUntried
  <2> QED BY <1>1, <2>2 DEF Claim, ClaimLost, Take, Settled, TypeInv, TypeOK
<1>2. ASSUME NEW x \in Workers, CompleteUpdate(x) \/ CompleteFailed(x) \/ FailUpdate(x) PROVE Settled(u)'
  <2>1. attempts' = attempts
    BY <1>2 DEF CompleteUpdate, CompleteFailed, FailUpdate, Settle
  <2>2. state[u] = "processed" => state'[u] = "processed"
    BY FinalStep
  <2> QED BY <2>1, <2>2 DEF Settled
<1>3. ASSUME NEW x \in Workers, HandlerCommits(x) \/ HandlerFails(x) PROVE Settled(u)'
  BY <1>3 DEF HandlerCommits, HandlerFails, Settled
<1>4. ASSUME NEW x \in Workers, NEW v \in Updates, Acknowledge(x, v) \/ Postpone(x, v) PROVE Settled(u)'
  BY <1>4 DEF Acknowledge, Postpone, Settled
<1>5. CASE Arrive \/ Poll \/ PollLost \/ Crash \/ Tick
  BY <1>5 DEF Arrive, Poll, PollLost, Crash, Tick, Settled
<1>6. CASE UNCHANGED vars
  BY <1>6 DEF vars, Settled
<1> QED BY <1>1, <1>2, <1>3, <1>4, <1>5, <1>6 DEF Next, Process, Handle

\* Nobody begins to work on such an update.
LEMMA SettledRests ==
    ASSUME TypeInv, [Next]_vars, NEW u \in Updates, Settled(u), NEW w \in Workers, Handling(w, u)'
    PROVE  Handling(w, u)
<1> USE DEF workers
<1>1. ASSUME NEW x \in Workers, NEW v \in Updates, Claim(x, v) PROVE Handling(w, u)
  <2>1. MaxAttempts \in Nat \ {0}
    BY UpdatesAssumption DEF UpdatesAssumption
  <2>2. v # u
    BY <1>1, <2>1 DEF Claim, Claimable, Free, Settled, TypeInv, AbsentIsUntried
  <2> QED BY <1>1, <2>2 DEF Claim, Handling, Running, TypeInv, TypeOK
<1>2. ASSUME NEW x \in Workers,
             \/ CompleteUpdate(x) \/ CompleteFailed(x) \/ FailUpdate(x)
             \/ HandlerCommits(x) \/ HandlerFails(x)
      PROVE  Handling(w, u)
  BY <1>2 DEF CompleteUpdate, CompleteFailed, FailUpdate, HandlerCommits, HandlerFails, Return,
     Handling, Running, TypeInv, TypeOK
<1>3. ASSUME NEW x \in Workers, NEW v \in Updates, ClaimLost(x, v) \/ Acknowledge(x, v) \/ Postpone(x, v)
      PROVE  Handling(w, u)
  BY <1>3 DEF ClaimLost, Acknowledge, Postpone, Handling, Running
<1>4. CASE Arrive \/ Poll \/ PollLost \/ Crash \/ Tick
  BY <1>4 DEF Arrive, Poll, PollLost, Crash, Tick, Handling, Running
<1>5. CASE UNCHANGED vars
  BY <1>5 DEF vars, Handling, Running
<1> QED BY <1>1, <1>2, <1>3, <1>4, <1>5 DEF Next, Process, Handle

\* What a step makes pass was passed before, or is settled by this step and left by
\* whoever worked on it.
LEMMA PassedAreSettled ==
    ASSUME TypeInv, Order, Leased, NothingSkipped, [Next]_vars, NEW u \in Updates, u \in acked' \/ u < offset'
    PROVE  Settled(u)' /\ (budget < Lease => \A w \in Workers : ~Handling(w, u)')
<1> DEFINE Passed == Settled(u)' /\ (budget < Lease => \A w \in Workers : ~Handling(w, u)')
<1> USE DEF stream
<1>1. CASE u \in acked \/ u < offset
  <2>1. Settled(u) /\ (budget < Lease => \A w \in Workers : ~Handling(w, u))
    BY <1>1 DEF NothingSkipped, Settled
  <2> QED BY <2>1, SettledStays, SettledRests
<1>2. CASE ~(u \in acked \/ u < offset)
  <2>1. Last \in Nat /\ u \in 1..Last /\ offset \in 1..(Last + 1)
    BY UpdatesAssumption DEF UpdatesAssumption, TypeInv, TypeOK, Updates
  <2>2. ASSUME NEW v \in Updates, Accept(v),
               transport = "polling" => v = offset
        PROVE  u = v
    BY <1>2, <2>1, <2>2 DEF Accept, Updates
  <2>3. ASSUME NEW x \in Workers, NEW v \in Updates, Acknowledge(x, v) PROVE Passed
    <3>1. u = v
      BY <2>2, <2>3 DEF Acknowledge, Delivered
    <3>2. Settled(v)
      BY <2>3, UpdatesAssumption DEF UpdatesAssumption, Acknowledge, Dead, Settled, TypeInv, TypeOK
    <3>3. budget < Lease => \A w \in Workers : ~Handling(w, u)
      <4>1. ~Busy(u)
        BY <2>3, <3>1 DEF Acknowledge, Dead, Free, Busy
      <4> QED BY <4>1, FreeRowsRest DEF Handling, TypeInv, TypeOK
    <3> QED BY <3>1, <3>2, <3>3, SettledStays, SettledRests
  <2>4. ASSUME NEW x \in Workers, CompleteUpdate(x) PROVE Passed
    <3>1. at[x] \in Updates /\ Running(x)
      BY <2>4 DEF CompleteUpdate, Running, TypeInv, WorkIsOnUpdates
    <3>2. CASE Accept(at[x])
      <4>1. u = at[x]
        BY <2>2, <3>1, <3>2 DEF Order, PollerIsInOrder
      <4>2. Settled(u)'
        BY <2>4, <4>1 DEF CompleteUpdate, Settle, Settled, TypeInv, TypeOK
      <4>3. budget < Lease => \A w \in Workers : ~Handling(w, u)'
        BY <2>4, <3>1, <4>1 DEF CompleteUpdate, Return, Handling, Running, Leased, ExclusiveHandling, TypeInv, TypeOK
      <4> QED BY <4>2, <4>3
    <3>3. CASE Reject
      BY <1>2, <3>3 DEF Reject
    <3> QED BY <2>4, <3>2, <3>3 DEF CompleteUpdate
  <2>5. CASE Crash
    <3>1. acked' = acked /\ 1..(offset' - 1) \subseteq acked /\ offset' \in 1..(Last + 1)
      BY <2>5 DEF Crash, FirstPending
    <3>2. ASSUME NEW n \in 1..(Last + 1), u < n PROVE u \in 1..(n - 1)
      BY <2>1, <3>2
    <3>3. FALSE
      BY <1>2, <3>1, <3>2
    <3> QED BY <3>3
  <2>6. CASE Poll \/ PollLost
    BY <1>2, <2>1, <2>6 DEF Poll, PollLost
  <2>7. ASSUME NEW x \in Workers, CompleteFailed(x) \/ FailUpdate(x) \/ HandlerCommits(x) \/ HandlerFails(x)
        PROVE  FALSE
    BY <1>2, <2>7 DEF CompleteFailed, FailUpdate, HandlerCommits, HandlerFails, Reject
  <2>8. ASSUME NEW x \in Workers, NEW v \in Updates, Claim(x, v) \/ ClaimLost(x, v) \/ Postpone(x, v)
        PROVE  FALSE
    BY <1>2, <2>8 DEF Claim, ClaimLost, Postpone, Reject
  <2>9. CASE Arrive \/ Tick \/ UNCHANGED vars
    BY <1>2, <2>9 DEF Arrive, Tick, vars
  <2> QED BY <2>3, <2>4, <2>5, <2>6, <2>7, <2>8, <2>9 DEF Next, Process, Handle
<1> QED BY <1>1, <1>2

\* Every step keeps what may be forgotten.
LEMMA SkipStep == TypeInv /\ Order /\ Leased /\ NothingSkipped /\ [Next]_vars => NothingSkipped'
<1> SUFFICES ASSUME TypeInv, Order, Leased, NothingSkipped, [Next]_vars PROVE NothingSkipped'
  OBVIOUS
<1>1. budget' = budget
  BY ConfigStep DEF config
<1>2. \A u \in Updates : u \in acked' \/ u < offset' =>
          Settled(u)' /\ (budget < Lease => \A w \in Workers : ~Handling(w, u)')
  BY PassedAreSettled
<1> QED BY <1>1, <1>2 DEF NothingSkipped, Settled, Handling, Running

----------------------------------------------------------------------------
(* Theorems                                                                *)

\* The invariant of Updates is inductive.
THEOREM Inductive == Spec => []UpdatesInv
<1>1. Init => UpdatesInv
  <2> SUFFICES ASSUME Init PROVE UpdatesInv
    OBVIOUS
  <2>1. TypeInv
    BY TypeInit
  <2>2. \A w \in Workers : ~Running(w)
    BY DEF Init, Running
  <2>3. acked = {} /\ offset = 1 /\ 1..(offset - 1) = {}
    BY DEF Init
  <2>4. EffectsAreAccounted
    BY DEF Init, EffectsAreAccounted
  <2>5. NothingSkipped
    BY <2>3 DEF NothingSkipped, Updates
  <2> QED BY <2>1, <2>2, <2>3, <2>4, <2>5
          DEF UpdatesInv, PollerIsInOrder, WebhookHasNoOffset, ExclusiveHandling, WorkersHoldTheRow
<1>2. UpdatesInv /\ [Next]_vars => UpdatesInv'
  BY TypeStep, OrderStep, LeaseStep, EffectsStep, SkipStep DEF UpdatesInv, Order, Leased
<1> QED BY <1>1, <1>2, PTL DEF Spec

\* Within its budget a handler is alone with its update, whichever transport
\* delivers it, however often.
THEOREM Exclusive == Spec => []ExclusiveHandling
<1>1. UpdatesInv => ExclusiveHandling
  BY DEF UpdatesInv
<1> QED BY <1>1, Inductive, PTL

\* The effects of an update come a second time only if the first were not recorded.
THEOREM Once == Spec => []NoDuplicateCommits
<1>1. UpdatesInv => NoDuplicateCommits
  BY DEF UpdatesInv, EffectsAreAccounted, NoDuplicateCommits
<1> QED BY <1>1, Inductive, PTL

\* What Telegram is told to forget is processed or has used up its attempts.
THEOREM Complete == Spec => []NothingSkipped
<1>1. UpdatesInv => NothingSkipped
  BY DEF UpdatesInv
<1> QED BY <1>1, Inductive, PTL

\* 'processed' is final, with any budget.
THEOREM Final == Spec => ProcessedIsFinal
<1>1. TypeInv /\ [Next]_vars =>
          [\A u \in Updates : state[u] = "processed" =>
               /\ state'[u] = "processed"
               /\ \A w \in Workers : Handling(w, u)' => Handling(w, u)]_vars
  BY FinalStep
<1>2. Spec => []TypeInv
  BY TypeInit, TypeStep, PTL DEF Spec
<1> QED BY <1>1, <1>2, PTL DEF Spec, ProcessedIsFinal
=============================================================================
