--------------------------- MODULE OpeningProofs ---------------------------
(***************************************************************************)
(* Proofs about Opening, for every set of presses and every timing that    *)
(* satisfies OpeningAssumption.                                            *)
(***************************************************************************)
EXTENDS Opening, TLAPS

----------------------------------------------------------------------------
(* Types                                                                   *)

\* Whatever ReserveOpen explains, and whatever it answers, is an answer.
LEMMA ExplainType == ASSUME NEW v PROVE Explain(v) \in Answers
<1>1. CASE v = "denied_wrong_user"
  BY <1>1 DEF Explain, Answers
<1>2. CASE v # "denied_wrong_user" /\ v = "denied_expired"
  BY <1>2 DEF Explain, Answers
<1>3. CASE v # "denied_wrong_user" /\ v # "denied_expired"
  BY <1>3 DEF Explain, Answers
<1> QED BY <1>1, <1>2, <1>3

\* The initial state is well typed.
LEMMA TypeInit == Init => TypeOK
<1>1. "active" \in Statuses /\ "none" \in EventStates /\ "new" \in PCs /\ "none" \in Answers
  BY DEF Statuses, EventStates, PCs, Answers
<1>2. 0 \in 0..MaxClock
  BY OpeningAssumption DEF OpeningAssumption
<1>3. Init => published \in BOOLEAN
  BY DEF Init
<1>4. Init => eventAt \in [Presses -> Nat] /\ deadline \in [Presses -> Nat]
                 /\ accepted \in [Presses -> Nat] /\ openLease \in Nat
  BY DEF Init
<1>5. Init => eventState \in [Presses -> EventStates] /\ pc \in [Presses -> PCs]
                 /\ answer \in [Presses -> Answers]
  BY <1>1 DEF Init
<1> QED BY <1>1, <1>2, <1>3, <1>4, <1>5 DEF Init, TypeOK

\* Every step keeps the types.
LEMMA TypeStep == TypeOK /\ [Next]_vars => TypeOK'
<1> SUFFICES ASSUME TypeOK, [Next]_vars PROVE TypeOK'
  OBVIOUS
<1> USE OpeningAssumption DEF OpeningAssumption, fixed, history
<1>1. ASSUME NEW c \in Presses, Reserve(c) PROVE TypeOK'
  <2>1. CASE ReserveDenied(c)
    BY <2>1, ExplainType DEF ReserveDenied, TypeOK, Reply, SetRow, RecordEvent,
       row, audit, Statuses, EventStates, PCs
  <2>2. CASE ReserveUnrecorded(c)
    BY <2>2 DEF ReserveUnrecorded, TypeOK, Reply, row, audit, PCs, Answers
  <2>3. CASE ReserveMissing(c)
    BY <2>3 DEF ReserveMissing, TypeOK, Reply, row, audit, PCs, Answers
  <2>4. CASE ReserveReplayed(c)
    BY <2>4 DEF ReserveReplayed, TypeOK, Reply, row, audit, PCs, Answers
  <2>5. CASE ReserveAllowed(c)
    BY <2>5 DEF ReserveAllowed, TypeOK, SetRow, RecordEvent, row, Statuses,
       EventStates, PCs
  <2> QED BY <1>1, <2>1, <2>2, <2>3, <2>4, <2>5 DEF Reserve
<1>2. ASSUME NEW c \in Presses, Deliver(c) PROVE TypeOK'
  BY <1>2 DEF Deliver, SendAccepted, SendRejected, TypeOK, row, audit, PCs
<1>3. ASSUME NEW c \in Presses, Finish(c) PROVE TypeOK'
  <2>1. CASE CompleteOpen(c)
    BY <2>1 DEF CompleteOpen, TypeOK, Reply, SetRow, row, handlers, Statuses,
       EventStates, PCs, Answers
  <2>2. CASE CompleteAgain(c)
    BY <2>2 DEF CompleteAgain, TypeOK, Reply, row, audit, PCs, Answers
  <2>3. CASE CompleteRefused(c)
    BY <2>3 DEF CompleteRefused, TypeOK, GiveUp, row, audit, PCs, Answers
  <2>4. CASE FailOpen(c)
    BY <2>4 DEF FailOpen, TypeOK, Reply, SetRow, row, Statuses, EventStates,
       PCs, Answers
  <2>5. CASE FailRefused(c)
    BY <2>5 DEF FailRefused, TypeOK, GiveUp, row, audit, PCs, Answers
  <2>6. CASE HandlerLost(c)
    BY <2>6 DEF HandlerLost, TypeOK, GiveUp, row, audit, PCs
  <2> QED BY <1>3, <2>1, <2>2, <2>3, <2>4, <2>5, <2>6 DEF Finish
<1>4. CASE EnvelopePublished
  BY <1>4 DEF EnvelopePublished, TypeOK, row, audit, handlers
<1>5. CASE Cleanup
  BY <1>5 DEF Cleanup, SweepExpired, SweepOpenLease, SweepRetained, DeleteRow,
     TypeOK, SetRow, audit, handlers, Statuses, EventStates
<1>6. CASE OwnerDelete
  BY <1>6 DEF OwnerDelete, DeleteRow, TypeOK, SetRow, handlers, Statuses, EventStates
<1>7. ASSUME NEW d \in DeleteDelays, OwnerSetDelay(d) PROVE TypeOK'
  BY <1>7 DEF OwnerSetDelay, TypeOK, row, audit, handlers
<1>8. CASE Tick
  BY <1>8 DEF Tick, TypeOK, row, audit, handlers
<1>9. CASE UNCHANGED vars
  BY <1>9 DEF vars, row, audit, handlers, TypeOK
<1> QED BY <1>1, <1>2, <1>3, <1>4, <1>5, <1>6, <1>7, <1>8, <1>9 DEF Next

\* Every variable stays in its range, for every instance.
THEOREM TypeCorrect == Spec => []TypeOK
<1> QED BY TypeInit, TypeStep, PTL DEF Spec

----------------------------------------------------------------------------
(* The inductive invariant                                                 *)

\* A finalized whisper that nobody has pressed satisfies the inductive invariant.
LEMMA IndInit == Init => IndInv
<1> SUFFICES ASSUME Init PROVE IndInv
  OBVIOUS
<1>1. TypeOK
  BY TypeInit
<1>2. OpeningIsHeld
  BY DEF Init, OpeningIsHeld
<1>3. DeliveryExclusive /\ HandlersHoldTheRow /\ HandlersAreTimely
  BY DEF Init, DeliveryExclusive, HandlersHoldTheRow, HandlersAreTimely, InFlight
<1>4. OneSendPerPress /\ EventsFollowSends
  BY DEF Init, OneSendPerPress, EventsFollowSends
<1>5. OpenedMeansDelivered /\ JobsFollowDeliveries
  BY DEF Init, OpenedMeansDelivered, JobsFollowDeliveries
<1> QED BY <1>1, <1>2, <1>3, <1>4, <1>5 DEF IndInv

\* A press is admitted to a one-time whisper only when no handler is in flight:
\* the holder of a lease cannot run as long as its lease.
LEMMA AdmittedAlone ==
  ASSUME IndInv, oneTime, NEW c \in Presses, NEW d \in Presses,
         status # "deleted", Verdict(c) = "allowed"
  PROVE  ~InFlight(d)
<1> USE OpeningAssumption DEF OpeningAssumption, fixed, history
<1> SUFFICES ASSUME InFlight(d) PROVE FALSE
  OBVIOUS
<1>1. status # "opened" /\ status # "expired"
      /\ ~(status = "opening" /\ clock < openLease)
  BY DEF Verdict
<1>2. status = "opening" /\ opener = d /\ deadline[d] < openLease
  BY <1>1 DEF IndInv, HandlersHoldTheRow
<1>3. clock <= deadline[d]
  BY DEF IndInv, HandlersAreTimely
<1> QED BY <1>1, <1>2, <1>3 DEF IndInv, TypeOK

\* A handler that ends and changes neither the row nor the events keeps the
\* invariant: seven actions of the press are of this form.
LEMMA HandlerEnds ==
  ASSUME IndInv, TypeOK', NEW c \in Presses,
         NEW v \in {"done", "again", "refused"},
         pc' = [pc EXCEPT ![c] = v],
         deadline' = [deadline EXCEPT ![c] = 0],
         UNCHANGED <<clock, fixed, published, row, audit, jobs, accepted>>
  PROVE  IndInv'
<1> USE OpeningAssumption DEF OpeningAssumption, fixed, history
<1>1. (OpeningIsHeld)'
  BY DEF IndInv, TypeOK, row, audit, OpeningIsHeld
<1>2. (DeliveryExclusive /\ HandlersAreTimely /\ HandlersHoldTheRow)'
  BY DEF IndInv, TypeOK, row, audit, DeliveryExclusive, HandlersAreTimely,
         HandlersHoldTheRow, InFlight
<1>3. (OneSendPerPress /\ EventsFollowSends)'
  BY DEF IndInv, TypeOK, row, audit, OneSendPerPress, HandlersAreTimely,
         EventsFollowSends
<1>4. (OpenedMeansDelivered /\ JobsFollowDeliveries)'
  BY DEF IndInv, TypeOK, row, audit, OpenedMeansDelivered, JobsFollowDeliveries,
         HandlersAreTimely
<1> QED BY <1>1, <1>2, <1>3, <1>4 DEF IndInv

\* A denial records its event only where the press has none, so it never
\* overwrites a reservation; it may expire the row.
LEMMA DenialKeeps ==
  ASSUME IndInv, TypeOK', NEW c \in Presses, ReserveDenied(c)
  PROVE  IndInv'
<1> USE OpeningAssumption DEF OpeningAssumption, fixed, history
<1>1. (OpeningIsHeld)'
  BY DEF IndInv, TypeOK, ReserveDenied, CallbackRejected, Reply, SetRow,
         RecordEvent, row, audit, Runnable, OpeningIsHeld
<1>2. (DeliveryExclusive /\ HandlersAreTimely /\ HandlersHoldTheRow)'
  BY DEF IndInv, TypeOK, ReserveDenied, CallbackRejected, Reply, SetRow,
         RecordEvent, row, audit, Runnable, DeliveryExclusive, HandlersAreTimely,
         HandlersHoldTheRow, InFlight
<1>3. (OneSendPerPress /\ EventsFollowSends)'
  BY DEF IndInv, TypeOK, ReserveDenied, CallbackRejected, Reply, SetRow,
         RecordEvent, row, audit, Runnable, OneSendPerPress, HandlersAreTimely,
         EventsFollowSends
<1>4. (OpenedMeansDelivered /\ JobsFollowDeliveries)'
  BY DEF IndInv, TypeOK, ReserveDenied, CallbackRejected, Reply, SetRow,
         RecordEvent, row, audit, Runnable, OpenedMeansDelivered,
         JobsFollowDeliveries, HandlersAreTimely
<1> QED BY <1>1, <1>2, <1>3, <1>4 DEF IndInv

\* An admitted press finds the row published, not opened, and nobody in flight.
LEMMA ReservationKeeps ==
  ASSUME IndInv, TypeOK', NEW c \in Presses, ReserveAllowed(c)
  PROVE  IndInv'
<1> USE OpeningAssumption DEF OpeningAssumption, fixed, history
<1>1. oneTime => \A d \in Presses : ~InFlight(d)
  BY AdmittedAlone DEF ReserveAllowed
<1>2. /\ pc'[c] = "sending" /\ deadline'[c] = clock + HandlerBudget
      /\ \A d \in Presses : d # c => pc'[d] = pc[d] /\ deadline'[d] = deadline[d]
  BY DEF ReserveAllowed, IndInv, TypeOK
<1>3. eventState' = [eventState EXCEPT ![c] = "reserved"] /\ eventState[c] = "none"
  BY DEF ReserveAllowed, RecordEvent
<1>4. status # "opened" /\ published
  BY DEF ReserveAllowed, Verdict
<1>5. (OpeningIsHeld)'
  BY <1>3, <1>4 DEF IndInv, TypeOK, ReserveAllowed, SetRow, row, OpeningIsHeld
<1>6. DeliveryExclusive'
  BY <1>1, <1>2 DEF DeliveryExclusive, InFlight, ReserveAllowed
<1>7. HandlersAreTimely'
  <2>1. accepted'[c] = 0
    BY <1>3 DEF ReserveAllowed, IndInv, TypeOK, EventsFollowSends
  <2>2. clock <= clock + HandlerBudget
    BY DEF IndInv, TypeOK
  <2> QED BY <1>2, <2>1, <2>2 DEF IndInv, ReserveAllowed, HandlersAreTimely, InFlight
<1>8. HandlersHoldTheRow'
  <2> SUFFICES ASSUME oneTime PROVE HandlersHoldTheRow'
    BY DEF HandlersHoldTheRow, ReserveAllowed
  <2>1. status' = "opening" /\ opener' = c /\ openLease' = clock + OpenLease
    BY DEF ReserveAllowed, SetRow
  <2>2. deadline'[c] < openLease' /\ eventState'[c] = "reserved"
    BY <1>2, <1>3, <2>1 DEF IndInv, TypeOK
  <2>3. \A d \in Presses : InFlight(d)' => d = c
    BY <1>1, <1>2 DEF InFlight
  <2> QED BY <2>1, <2>2, <2>3 DEF HandlersHoldTheRow
<1>9. (OneSendPerPress /\ EventsFollowSends)'
  BY <1>3 DEF IndInv, TypeOK, ReserveAllowed, SetRow, row, OneSendPerPress,
     HandlersAreTimely, EventsFollowSends
<1>10. (OpenedMeansDelivered /\ JobsFollowDeliveries)'
  BY <1>3, <1>4 DEF IndInv, TypeOK, ReserveAllowed, SetRow, row,
     OpenedMeansDelivered, JobsFollowDeliveries
<1> QED BY <1>5, <1>6, <1>7, <1>8, <1>9, <1>10 DEF IndInv

\* Sending changes the row in nothing.
LEMMA SendKeeps ==
  ASSUME IndInv, TypeOK', NEW c \in Presses, Deliver(c)
  PROVE  IndInv'
<1> USE OpeningAssumption DEF OpeningAssumption, fixed, history
<1>1. (OpeningIsHeld)'
  BY DEF IndInv, TypeOK, Deliver, SendAccepted, SendRejected, row, audit,
         OpeningIsHeld
<1>2. (DeliveryExclusive /\ HandlersAreTimely /\ HandlersHoldTheRow)'
  BY DEF IndInv, TypeOK, Deliver, SendAccepted, SendRejected, row, audit,
         DeliveryExclusive, HandlersAreTimely, HandlersHoldTheRow, InFlight
<1>3. (OneSendPerPress /\ EventsFollowSends)'
  BY DEF IndInv, TypeOK, Deliver, SendAccepted, SendRejected, row, audit,
         OneSendPerPress, HandlersAreTimely, EventsFollowSends
<1>4. (OpenedMeansDelivered /\ JobsFollowDeliveries)'
  BY DEF IndInv, TypeOK, Deliver, SendAccepted, SendRejected, row, audit,
         OpenedMeansDelivered, JobsFollowDeliveries, HandlersAreTimely
<1> QED BY <1>1, <1>2, <1>3, <1>4 DEF IndInv

\* A completion settles the event, the row and the job together.
LEMMA CompletionKeeps ==
  ASSUME IndInv, TypeOK', NEW c \in Presses, CompleteOpen(c)
  PROVE  IndInv'
<1> USE OpeningAssumption DEF OpeningAssumption, fixed, history
<1>1. (OpeningIsHeld)'
  BY DEF IndInv, TypeOK, CompleteOpen, Completable, Reply, SetRow, row, handlers,
         OpeningIsHeld
<1>2. (DeliveryExclusive /\ HandlersAreTimely /\ HandlersHoldTheRow)'
  BY DEF IndInv, TypeOK, CompleteOpen, Completable, Reply, SetRow, row, handlers,
         DeliveryExclusive, HandlersAreTimely, HandlersHoldTheRow, InFlight
<1>3. (OneSendPerPress /\ EventsFollowSends)'
  BY DEF IndInv, TypeOK, CompleteOpen, Completable, Reply, SetRow, row, handlers,
         OneSendPerPress, HandlersAreTimely, EventsFollowSends
<1>4. (OpenedMeansDelivered /\ JobsFollowDeliveries)'
  BY DEF IndInv, TypeOK, CompleteOpen, Completable, Reply, SetRow, row, handlers,
         OpenedMeansDelivered, JobsFollowDeliveries, HandlersAreTimely
<1> QED BY <1>1, <1>2, <1>3, <1>4 DEF IndInv

\* A failure settles the event and gives back the row it holds.
LEMMA FailureKeeps ==
  ASSUME IndInv, TypeOK', NEW c \in Presses, FailOpen(c)
  PROVE  IndInv'
<1> USE OpeningAssumption DEF OpeningAssumption, fixed, history
<1>1. (OpeningIsHeld)'
  BY DEF IndInv, TypeOK, FailOpen, Reply, SetRow, row, OpeningIsHeld
<1>2. (DeliveryExclusive /\ HandlersAreTimely /\ HandlersHoldTheRow)'
  BY DEF IndInv, TypeOK, FailOpen, Reply, SetRow, row, DeliveryExclusive,
         HandlersAreTimely, HandlersHoldTheRow, InFlight
<1>3. (OneSendPerPress /\ EventsFollowSends)'
  BY DEF IndInv, TypeOK, FailOpen, Reply, SetRow, row, OneSendPerPress,
         HandlersAreTimely, EventsFollowSends
<1>4. (OpenedMeansDelivered /\ JobsFollowDeliveries)'
  BY DEF IndInv, TypeOK, FailOpen, Reply, SetRow, row, OpenedMeansDelivered,
         JobsFollowDeliveries, HandlersAreTimely
<1> QED BY <1>1, <1>2, <1>3, <1>4 DEF IndInv

\* A published row stays published.
LEMMA PublicationKeeps ==
  ASSUME IndInv, TypeOK', EnvelopePublished
  PROVE  IndInv'
<1> USE OpeningAssumption DEF OpeningAssumption, fixed, history
<1>1. (OpeningIsHeld)'
  BY DEF IndInv, TypeOK, EnvelopePublished, row, audit, handlers, OpeningIsHeld
<1>2. (DeliveryExclusive /\ HandlersAreTimely /\ HandlersHoldTheRow)'
  BY DEF IndInv, TypeOK, EnvelopePublished, row, audit, handlers,
         DeliveryExclusive, HandlersAreTimely, HandlersHoldTheRow, InFlight
<1>3. (OneSendPerPress /\ EventsFollowSends)'
  BY DEF IndInv, TypeOK, EnvelopePublished, row, audit, handlers, OneSendPerPress,
         HandlersAreTimely, EventsFollowSends
<1>4. (OpenedMeansDelivered /\ JobsFollowDeliveries)'
  BY DEF IndInv, TypeOK, EnvelopePublished, row, audit, handlers,
         OpenedMeansDelivered, JobsFollowDeliveries, HandlersAreTimely
<1> QED BY <1>1, <1>2, <1>3, <1>4 DEF IndInv

\* An expired row is no longer held.
LEMMA SweepExpiredKeeps ==
  ASSUME IndInv, TypeOK', SweepExpired
  PROVE  IndInv'
<1> USE OpeningAssumption DEF OpeningAssumption, fixed, history
<1>1. (OpeningIsHeld)'
  BY DEF IndInv, TypeOK, SweepExpired, SetRow, audit, handlers, OpeningIsHeld
<1>2. (DeliveryExclusive /\ HandlersAreTimely /\ HandlersHoldTheRow)'
  BY DEF IndInv, TypeOK, SweepExpired, SetRow, audit, handlers, DeliveryExclusive,
         HandlersAreTimely, HandlersHoldTheRow, InFlight
<1>3. (OneSendPerPress /\ EventsFollowSends)'
  BY DEF IndInv, TypeOK, SweepExpired, SetRow, audit, handlers, OneSendPerPress,
         HandlersAreTimely, EventsFollowSends
<1>4. (OpenedMeansDelivered /\ JobsFollowDeliveries)'
  BY DEF IndInv, TypeOK, SweepExpired, SetRow, audit, handlers,
         OpenedMeansDelivered, JobsFollowDeliveries, HandlersAreTimely
<1> QED BY <1>1, <1>2, <1>3, <1>4 DEF IndInv

\* An expired lease has no handler in flight: its deadline came first.
LEMMA SweepOpenLeaseKeeps ==
  ASSUME IndInv, TypeOK', SweepOpenLease
  PROVE  IndInv'
<1> USE OpeningAssumption DEF OpeningAssumption, fixed, history
<1>1. (OpeningIsHeld)'
  BY DEF IndInv, TypeOK, SweepOpenLease, SetRow, audit, handlers, OpeningIsHeld
<1>2. (DeliveryExclusive /\ HandlersAreTimely /\ HandlersHoldTheRow)'
  BY DEF IndInv, TypeOK, SweepOpenLease, SetRow, audit, handlers,
         DeliveryExclusive, HandlersAreTimely, HandlersHoldTheRow, InFlight
<1>3. (OneSendPerPress /\ EventsFollowSends)'
  BY DEF IndInv, TypeOK, SweepOpenLease, SetRow, audit, handlers, OneSendPerPress,
         HandlersAreTimely, EventsFollowSends
<1>4. (OpenedMeansDelivered /\ JobsFollowDeliveries)'
  BY DEF IndInv, TypeOK, SweepOpenLease, SetRow, audit, handlers,
         OpenedMeansDelivered, JobsFollowDeliveries, HandlersAreTimely
<1> QED BY <1>1, <1>2, <1>3, <1>4 DEF IndInv

\* A deleted row takes its events with it and admits no press.
LEMMA DeletionKeeps ==
  ASSUME IndInv, TypeOK', DeleteRow
  PROVE  IndInv'
<1> USE OpeningAssumption DEF OpeningAssumption, fixed, history
<1>1. (OpeningIsHeld)'
  BY DEF IndInv, TypeOK, DeleteRow, SetRow, handlers, OpeningIsHeld
<1>2. (DeliveryExclusive /\ HandlersAreTimely /\ HandlersHoldTheRow)'
  BY DEF IndInv, TypeOK, DeleteRow, SetRow, handlers, DeliveryExclusive,
         HandlersAreTimely, HandlersHoldTheRow, InFlight
<1>3. (OneSendPerPress /\ EventsFollowSends)'
  BY DEF IndInv, TypeOK, DeleteRow, SetRow, handlers, OneSendPerPress,
         HandlersAreTimely, EventsFollowSends
<1>4. (OpenedMeansDelivered /\ JobsFollowDeliveries)'
  BY DEF IndInv, TypeOK, DeleteRow, SetRow, handlers, OpenedMeansDelivered,
         JobsFollowDeliveries, HandlersAreTimely
<1> QED BY <1>1, <1>2, <1>3, <1>4 DEF IndInv

\* Time does not pass beyond the deadline of a handler in flight.
LEMMA ClockKeeps ==
  ASSUME IndInv, TypeOK', Tick
  PROVE  IndInv'
<1> USE OpeningAssumption DEF OpeningAssumption, fixed, history
<1>1. (OpeningIsHeld)'
  BY DEF IndInv, TypeOK, Tick, row, audit, handlers, OpeningIsHeld
<1>2. (DeliveryExclusive /\ HandlersAreTimely /\ HandlersHoldTheRow)'
  BY DEF IndInv, TypeOK, Tick, row, audit, handlers, DeliveryExclusive,
         HandlersAreTimely, HandlersHoldTheRow, InFlight
<1>3. (OneSendPerPress /\ EventsFollowSends)'
  BY DEF IndInv, TypeOK, Tick, row, audit, handlers, OneSendPerPress,
         HandlersAreTimely, EventsFollowSends
<1>4. (OpenedMeansDelivered /\ JobsFollowDeliveries)'
  BY DEF IndInv, TypeOK, Tick, row, audit, handlers, OpenedMeansDelivered,
         JobsFollowDeliveries, HandlersAreTimely
<1> QED BY <1>1, <1>2, <1>3, <1>4 DEF IndInv

\* The deletion delay is no part of the invariant.
LEMMA DelayKeeps ==
  ASSUME IndInv, TypeOK',
         UNCHANGED <<clock, fixed, published, row, audit, jobs, handlers, history>>
  PROVE  IndInv'
<1> USE OpeningAssumption DEF OpeningAssumption, fixed, history
<1>1. (OpeningIsHeld)'
  BY DEF IndInv, TypeOK, row, audit, handlers, OpeningIsHeld
<1>2. (DeliveryExclusive /\ HandlersAreTimely /\ HandlersHoldTheRow)'
  BY DEF IndInv, TypeOK, row, audit, handlers, DeliveryExclusive,
         HandlersAreTimely, HandlersHoldTheRow, InFlight
<1>3. (OneSendPerPress /\ EventsFollowSends)'
  BY DEF IndInv, TypeOK, row, audit, handlers, OneSendPerPress, HandlersAreTimely,
         EventsFollowSends
<1>4. (OpenedMeansDelivered /\ JobsFollowDeliveries)'
  BY DEF IndInv, TypeOK, row, audit, handlers, OpenedMeansDelivered,
         JobsFollowDeliveries, HandlersAreTimely
<1> QED BY <1>1, <1>2, <1>3, <1>4 DEF IndInv

\* Every step keeps the inductive invariant.
LEMMA IndStep == IndInv /\ [Next]_vars => IndInv'
<1> SUFFICES ASSUME IndInv, [Next]_vars PROVE IndInv'
  OBVIOUS
<1>1. TypeOK'
  BY TypeStep DEF IndInv
<1>2. ASSUME NEW c \in Presses, Reserve(c) PROVE IndInv'
  <2>1. CASE ReserveDenied(c)
    BY <1>1, <2>1, DenialKeeps
  <2>2. CASE ReserveAllowed(c)
    BY <1>1, <2>2, ReservationKeeps
  <2>3. CASE ReserveUnrecorded(c) \/ ReserveMissing(c) \/ ReserveReplayed(c)
    BY <1>1, <2>3, HandlerEnds
    DEF ReserveUnrecorded, ReserveMissing, ReserveReplayed, Reply, history
  <2> QED BY <1>2, <2>1, <2>2, <2>3 DEF Reserve
<1>3. ASSUME NEW c \in Presses, Deliver(c) PROVE IndInv'
  BY <1>1, <1>3, SendKeeps
<1>4. ASSUME NEW c \in Presses, Finish(c) PROVE IndInv'
  <2>1. CASE CompleteOpen(c)
    BY <1>1, <2>1, CompletionKeeps
  <2>2. CASE FailOpen(c)
    BY <1>1, <2>2, FailureKeeps
  <2>3. CASE CompleteAgain(c)
    BY <1>1, <2>3, HandlerEnds DEF CompleteAgain, Reply, history
  <2>4. CASE CompleteRefused(c) \/ FailRefused(c) \/ HandlerLost(c)
    BY <1>1, <2>4, HandlerEnds
    DEF CompleteRefused, FailRefused, HandlerLost, GiveUp, history
  <2> QED BY <1>4, <2>1, <2>2, <2>3, <2>4 DEF Finish
<1>5. CASE EnvelopePublished
  BY <1>1, <1>5, PublicationKeeps
<1>6. CASE Cleanup
  BY <1>1, <1>6, SweepExpiredKeeps, SweepOpenLeaseKeeps, DeletionKeeps
  DEF Cleanup, SweepRetained
<1>7. CASE OwnerDelete
  BY <1>1, <1>7, DeletionKeeps DEF OwnerDelete
<1>8. ASSUME NEW d \in DeleteDelays, OwnerSetDelay(d) PROVE IndInv'
  BY <1>1, <1>8, DelayKeeps DEF OwnerSetDelay
<1>9. CASE Tick
  BY <1>1, <1>9, ClockKeeps
<1>10. CASE UNCHANGED vars
  BY <1>1, <1>10, DelayKeeps DEF vars
<1> QED BY <1>2, <1>3, <1>4, <1>5, <1>6, <1>7, <1>8, <1>9, <1>10 DEF Next

\* The inductive invariant holds in every reachable state: the row, the events, the
\* jobs and the handlers of opening.go and callback.go stay in step.
THEOREM Inductive == Spec => []IndInv
<1> QED BY IndInit, IndStep, PTL DEF Spec

----------------------------------------------------------------------------
(* What it gives                                                           *)

\* Two handlers never deliver a one-time whisper at the same time, for any
\* number of presses, as long as a handler's timeouts end before its lease.
THEOREM Exclusive == Spec => []DeliveryExclusive
<1>1. IndInv => DeliveryExclusive
  BY DEF IndInv
<1> QED BY Inductive, <1>1, PTL

\* However often its update is processed again, a press reaches Telegram once.
THEOREM SentOnce == Spec => []OneSendPerPress
<1>1. IndInv => OneSendPerPress
  BY DEF IndInv
<1> QED BY Inductive, <1>1, PTL

\* A row in 'opening' is held by a press with a reserved event.
THEOREM Held == Spec => []OpeningIsHeld
<1>1. IndInv => OpeningIsHeld
  BY DEF IndInv
<1> QED BY Inductive, <1>1, PTL

\* 'opened', the delivered event and the deletion job go together.
THEOREM Delivered == Spec => []OpenedMeansDelivered
<1>1. IndInv => OpenedMeansDelivered
  BY DEF IndInv
<1> QED BY Inductive, <1>1, PTL

----------------------------------------------------------------------------
(* Steps                                                                   *)

\* one_time and expires_at are written once, by the finalization.
LEMMA FixedStep == [Next]_vars => UNCHANGED fixed
<1> USE DEF fixed
<1>1. ASSUME NEW c \in Presses, Reserve(c) \/ Deliver(c) PROVE UNCHANGED fixed
  BY <1>1 DEF Reserve, ReserveDenied, ReserveUnrecorded, ReserveMissing,
     ReserveReplayed, ReserveAllowed, Deliver, SendAccepted, SendRejected
<1>2. ASSUME NEW c \in Presses, Finish(c) PROVE UNCHANGED fixed
  BY <1>2 DEF Finish, CompleteOpen, CompleteAgain, CompleteRefused, FailOpen,
     FailRefused, HandlerLost
<1>3. ASSUME EnvelopePublished \/ Cleanup \/ OwnerDelete \/ Tick PROVE UNCHANGED fixed
  BY <1>3 DEF EnvelopePublished, Cleanup, SweepExpired, SweepOpenLease,
     SweepRetained, OwnerDelete, DeleteRow, Tick
<1>4. ASSUME NEW d \in DeleteDelays, OwnerSetDelay(d) PROVE UNCHANGED fixed
  BY <1>4 DEF OwnerSetDelay
<1> QED BY <1>1, <1>2, <1>3, <1>4 DEF Next, vars

\* A step takes the status along a legal edge, or nowhere, or deletes the row.
LEMMA StatusStep ==
  ASSUME IndInv, Next
  PROVE  status' \in {status, "deleted"} \/ CanTransitionTo(status, status')
<1> DEFINE Goal == status' \in {status, "deleted"} \/ CanTransitionTo(status, status')
<1>1. ASSUME NEW c \in Presses, Reserve(c) PROVE Goal
  <2>1. CASE ReserveAllowed(c)
    <3>1. status \in {"active", "opening"}
      BY <2>1 DEF ReserveAllowed, Verdict, IndInv, TypeOK, Statuses
    <3>2. status' \in {status, "opening"}
      BY <2>1 DEF ReserveAllowed, SetRow, row
    <3> QED BY <3>1, <3>2 DEF CanTransitionTo
  <2>2. CASE ~ReserveAllowed(c)
    BY <1>1, <2>2 DEF Reserve, ReserveDenied, ReserveUnrecorded, ReserveMissing,
       ReserveReplayed, SetRow, row, CanTransitionTo
  <2> QED BY <2>1, <2>2
<1>2. ASSUME NEW c \in Presses, Deliver(c) PROVE Goal
  BY <1>2 DEF Deliver, SendAccepted, SendRejected, row
<1>3. ASSUME NEW c \in Presses, Finish(c) PROVE Goal
  BY <1>3 DEF Finish, CompleteOpen, Completable, CompleteAgain, CompleteRefused,
     FailOpen, FailRefused, HandlerLost, SetRow, row, CanTransitionTo
<1>4. ASSUME EnvelopePublished \/ Cleanup \/ OwnerDelete \/ Tick PROVE Goal
  BY <1>4 DEF EnvelopePublished, Cleanup, SweepExpired, SweepOpenLease,
     SweepRetained, OwnerDelete, DeleteRow, Tick, SetRow, row, CanTransitionTo
<1>5. ASSUME NEW d \in DeleteDelays, OwnerSetDelay(d) PROVE Goal
  BY <1>5 DEF OwnerSetDelay, row
<1> QED BY <1>1, <1>2, <1>3, <1>4, <1>5 DEF Next

\* The status only moves along the edges of WhisperStatus.CanTransitionTo.
THEOREM Legal == Spec => LegalEdges
<1> DEFINE Step == status' \in {status, "deleted"} \/ CanTransitionTo(status, status')
<1>1. IndInv /\ [Next]_vars => [Step]_vars
  BY StatusStep
<1>2. [][Next]_vars /\ []IndInv => [][Step]_vars
  BY <1>1, PTL
<1> QED BY <1>2, Inductive, PTL DEF Spec, LegalEdges

\* While a lease runs, only the press that holds it gives the whisper back.
THEOREM LeaseKept == Spec => LeaseRespected
<1> DEFINE Step ==
      status = "opening" /\ clock < openLease /\ status' = "active"
          => pc[opener] = "failing" /\ pc'[opener] # "failing"
<1>1. ASSUME IndInv, Next PROVE Step
  <2> SUFFICES ASSUME status = "opening", clock < openLease, status' = "active"
               PROVE  pc[opener] = "failing" /\ pc'[opener] # "failing"
    OBVIOUS
  <2>1. ASSUME NEW c \in Presses, Reserve(c) PROVE FALSE
    BY <1>1, <2>1 DEF Reserve, ReserveDenied, ReserveUnrecorded, ReserveMissing,
       ReserveReplayed, ReserveAllowed, Verdict, SetRow, row, IndInv, OpeningIsHeld
  <2>2. ASSUME NEW c \in Presses, Deliver(c) PROVE FALSE
    BY <2>2 DEF Deliver, SendAccepted, SendRejected, row
  <2>3. ASSUME NEW c \in Presses, Finish(c), ~FailOpen(c) PROVE FALSE
    BY <1>1, <2>3 DEF Finish, CompleteOpen, CompleteAgain, CompleteRefused,
       FailRefused, HandlerLost, SetRow, row, IndInv, OpeningIsHeld
  <2>4. ASSUME NEW c \in Presses, FailOpen(c)
        PROVE  pc[opener] = "failing" /\ pc'[opener] # "failing"
    BY <1>1, <2>4 DEF FailOpen, Reply, row, IndInv, TypeOK
  <2>5. ASSUME EnvelopePublished \/ Cleanup \/ OwnerDelete \/ Tick PROVE FALSE
    BY <1>1, <2>5, OpeningAssumption
    DEF OpeningAssumption, EnvelopePublished, Cleanup, SweepExpired,
        SweepOpenLease, SweepRetained, OwnerDelete, DeleteRow, Tick, SetRow, row,
        IndInv, TypeOK
  <2>6. ASSUME NEW d \in DeleteDelays, OwnerSetDelay(d) PROVE FALSE
    BY <2>6 DEF OwnerSetDelay, row
  <2> QED BY <1>1, <2>1, <2>2, <2>3, <2>4, <2>5, <2>6 DEF Next
<1>2. IndInv /\ [Next]_vars => [Step]_vars
  BY <1>1
<1>3. [][Next]_vars /\ []IndInv => [][Step]_vars
  BY <1>2, PTL
<1> QED BY <1>3, Inductive, PTL DEF Spec, LeaseRespected

\* Only CompleteRefused sends a handler to "refused".
LEMMA OnlyRefusalRefuses ==
  ASSUME IndInv, Next, NEW c \in Presses, pc[c] # "refused", pc'[c] = "refused"
  PROVE  CompleteRefused(c)
<1> DEFINE Elsewhere(d) ==
      \E v \in PCs \ {"refused"} : pc' = [pc EXCEPT ![d] = v]
<1>1. pc \in [Presses -> PCs]
  BY DEF IndInv, TypeOK
<1>2. ASSUME NEW d \in Presses, Elsewhere(d) PROVE FALSE
  BY <1>1, <1>2
<1>3. ASSUME NEW d \in Presses, Reserve(d) PROVE Elsewhere(d)
  BY <1>3 DEF Reserve, ReserveDenied, ReserveUnrecorded, ReserveMissing,
     ReserveReplayed, ReserveAllowed, Reply, PCs
<1>4. ASSUME NEW d \in Presses, Deliver(d) PROVE Elsewhere(d)
  BY <1>4 DEF Deliver, SendAccepted, SendRejected, PCs
<1>5. ASSUME NEW d \in Presses, Finish(d) PROVE CompleteRefused(c)
  <2>1. CASE CompleteOpen(d) \/ CompleteAgain(d) \/ FailOpen(d)
    <3>1. Elsewhere(d) \/ pc' = pc
      BY <2>1 DEF CompleteOpen, CompleteAgain, FailOpen, Reply, PCs, handlers
    <3> QED BY <1>2, <3>1
  <2>2. CASE FailRefused(d) \/ HandlerLost(d)
    <3>1. Elsewhere(d)
      BY <2>2 DEF FailRefused, HandlerLost, GiveUp, PCs
    <3> QED BY <1>2, <3>1
  <2>3. CASE CompleteRefused(d)
    <3>1. d = c
      BY <1>1, <2>3 DEF CompleteRefused, GiveUp
    <3> QED BY <2>3, <3>1
  <2> QED BY <1>5, <2>1, <2>2, <2>3 DEF Finish
<1>6. ASSUME EnvelopePublished \/ Cleanup \/ OwnerDelete \/ Tick PROVE pc' = pc
  BY <1>6 DEF EnvelopePublished, Cleanup, SweepExpired, SweepOpenLease,
     SweepRetained, OwnerDelete, DeleteRow, Tick, handlers
<1>7. ASSUME NEW d \in DeleteDelays, OwnerSetDelay(d) PROVE pc' = pc
  BY <1>7 DEF OwnerSetDelay, handlers
<1> QED BY <1>2, <1>3, <1>4, <1>5, <1>6, <1>7 DEF Next

\* With a deletion delay, the completion of a one-time whisper is refused only
\* when the row expired or was deleted under the handler.
LEMMA RefusalNeedsEnd ==
  ASSUME 0 \notin DeleteDelays, IndInv, oneTime, NEW c \in Presses, CompleteRefused(c)
  PROVE  status \in {"expired", "deleted"}
<1>1. deleteDelay > 0
  BY OpeningAssumption DEF OpeningAssumption, IndInv, TypeOK
<1> QED BY <1>1
  DEF CompleteRefused, Completable, AlreadyCompleted, IndInv, InFlight,
      HandlersHoldTheRow, OpenedMeansDelivered

\* As long as the owner never switches ephemeral deletion off, CompleteOpen
\* refuses an accepted delivery only when the row expired or was deleted.
THEOREM Recorded ==
  ASSUME 0 \notin DeleteDelays PROVE Spec => []AcceptedIsRecorded
<1>1. Init => AcceptedIsRecorded
  BY DEF Init, AcceptedIsRecorded
<1>2. ASSUME IndInv, AcceptedIsRecorded, Next PROVE AcceptedIsRecorded'
  <2>1. oneTime' = oneTime
    BY <1>2, FixedStep DEF fixed
  <2> SUFFICES ASSUME oneTime, NEW c \in Presses, pc'[c] = "refused"
               PROVE  status' \in {"expired", "deleted"}
    BY <2>1 DEF AcceptedIsRecorded
  <2>2. CASE pc[c] = "refused"
    BY <1>2, <2>2, StatusStep DEF AcceptedIsRecorded, CanTransitionTo
  <2>3. CASE pc[c] # "refused"
    <3>1. CompleteRefused(c)
      BY <1>2, <2>3, OnlyRefusalRefuses
    <3>2. status \in {"expired", "deleted"}
      BY <1>2, <3>1, RefusalNeedsEnd
    <3> QED BY <3>1, <3>2 DEF CompleteRefused, row
  <2> QED BY <2>2, <2>3
<1>3. IndInv /\ AcceptedIsRecorded /\ [Next]_vars => AcceptedIsRecorded'
  <2>1. AcceptedIsRecorded /\ UNCHANGED vars => AcceptedIsRecorded'
    BY DEF AcceptedIsRecorded, vars, fixed, row, handlers
  <2> QED BY <1>2, <2>1
<1> QED BY <1>1, <1>3, Inductive, PTL DEF Spec

----------------------------------------------------------------------------
(* One message                                                             *)

\* A reservation finds no message accounted for: its handler would be in flight
\* or the whisper would not admit the press.
LEMMA ReservationAccounts ==
  ASSUME IndInv, MessagesAreAccounted, NEW c \in Presses, ReserveAllowed(c)
  PROVE  MessagesAreAccounted'
<1> USE DEF fixed, history
<1> SUFFICES ASSUME oneTime, NEW d \in Presses, accepted[d] > 0, d \notin lost
             PROVE  FALSE
  BY DEF ReserveAllowed, MessagesAreAccounted
<1>1. ~InFlight(d)
  BY AdmittedAlone DEF ReserveAllowed
<1>2. status \in {"opened", "expired", "deleted"}
  BY <1>1 DEF MessagesAreAccounted, InFlight
<1> QED BY <1>2 DEF ReserveAllowed, Verdict

\* Whoever sends a one-time message sends it after lost ones only, and alone.
LEMMA SendAccounts ==
  ASSUME IndInv, MessagesAreAccounted, OneMessage, NEW c \in Presses, SendAccepted(c)
  PROVE  (MessagesAreAccounted /\ OneMessage)'
<1> USE DEF fixed, history
<1>1. oneTime' = oneTime
  BY DEF SendAccepted
<1> SUFFICES ASSUME oneTime PROVE (MessagesAreAccounted /\ OneMessage)'
  BY <1>1 DEF MessagesAreAccounted, OneMessage
<1>2. \A d \in Presses : accepted[d] > 0 => d \in lost
  BY DEF MessagesAreAccounted, SendAccepted
<1>3. \A d \in Presses : d # c => accepted'[d] = accepted[d]
  BY DEF SendAccepted, IndInv, TypeOK
<1>4. lost \subseteq lost'
  BY DEF SendAccepted
<1>5. \A d \in Presses : d # c /\ accepted'[d] > 0 => d \in lost'
  BY <1>2, <1>3, <1>4
<1>6. OneMessage'
  BY <1>5 DEF OneMessage
<1>7. c \notin lost' => pc'[c] = "finishing"
  BY DEF SendAccepted, IndInv, TypeOK
<1>8. \A d \in Presses : pc'[d] # "sending"
  BY DEF SendAccepted, IndInv, TypeOK, DeliveryExclusive, InFlight
<1>9. MessagesAreAccounted'
  BY <1>5, <1>7, <1>8 DEF MessagesAreAccounted
<1> QED BY <1>6, <1>9

\* A handler that ends leaves its message lost, or the row settled.
LEMMA EndAccounts ==
  ASSUME 0 \notin DeleteDelays, IndInv, MessagesAreAccounted, NEW c \in Presses, Finish(c)
  PROVE  MessagesAreAccounted'
<1> USE DEF fixed, history
<1>1. oneTime' = oneTime /\ accepted' = accepted /\ lost \subseteq lost'
  BY DEF Finish, CompleteOpen, CompleteAgain, CompleteRefused, FailOpen, FailRefused,
     HandlerLost
<1> SUFFICES ASSUME oneTime, NEW d \in Presses, accepted[d] > 0, d \notin lost'
             PROVE  /\ \A e \in Presses : pc'[e] # "sending"
                    /\ pc'[d] = "finishing" \/ status' \in {"opened", "expired", "deleted"}
  BY <1>1 DEF MessagesAreAccounted
<1>2. /\ \A e \in Presses : pc[e] # "sending"
      /\ pc[d] = "finishing" \/ status \in {"opened", "expired", "deleted"}
  BY <1>1 DEF MessagesAreAccounted
<1>3. \A e \in Presses : pc'[e] # "sending"
  BY <1>2 DEF Finish, CompleteOpen, CompleteAgain, CompleteRefused, FailOpen,
     FailRefused, HandlerLost, Reply, GiveUp, handlers, IndInv, TypeOK
<1>4. CASE status \in {"opened", "expired", "deleted"}
  BY <1>3, <1>4 DEF Finish, CompleteOpen, CompleteAgain, CompleteRefused, FailOpen,
     FailRefused, HandlerLost, SetRow, row
<1>5. CASE pc[d] = "finishing" /\ d # c
  <2>1. FALSE
    BY <1>5 DEF Finish, CompleteOpen, CompleteAgain, CompleteRefused, FailOpen,
       FailRefused, HandlerLost, IndInv, DeliveryExclusive, InFlight
  <2> QED BY <2>1
<1>6. CASE pc[d] = "finishing" /\ d = c
  <2>1. CASE CompleteOpen(c)
    BY <1>3, <2>1 DEF CompleteOpen, SetRow
  <2>2. CASE CompleteAgain(c)
    BY <1>3, <2>2 DEF CompleteAgain, AlreadyCompleted, row, IndInv,
       OpenedMeansDelivered, EventsFollowSends
  <2>3. CASE CompleteRefused(c)
    BY <1>3, <2>3, RefusalNeedsEnd DEF CompleteRefused, row
  <2>4. CASE HandlerLost(c)
    BY <1>6, <2>4 DEF HandlerLost
  <2>5. CASE FailOpen(c) \/ FailRefused(c)
    BY <1>6, <2>5 DEF FailOpen, FailRefused
  <2> QED BY <2>1, <2>2, <2>3, <2>4, <2>5 DEF Finish
<1> QED BY <1>2, <1>4, <1>5, <1>6

\* A lease is swept only when no handler is in flight.
LEMMA SweepAccounts ==
  ASSUME IndInv, MessagesAreAccounted, SweepOpenLease
  PROVE  MessagesAreAccounted'
<1> USE OpeningAssumption DEF OpeningAssumption, fixed, history, handlers
<1> SUFFICES ASSUME oneTime, NEW d \in Presses, accepted[d] > 0, d \notin lost
             PROVE  FALSE
  BY DEF SweepOpenLease, MessagesAreAccounted
<1>1. pc[d] = "finishing" /\ status = "opening" /\ openLease <= clock
  BY DEF SweepOpenLease, MessagesAreAccounted
<1>2. clock <= deadline[d] /\ deadline[d] < openLease
  BY <1>1 DEF IndInv, HandlersAreTimely, HandlersHoldTheRow, InFlight
<1> QED BY <1>1, <1>2 DEF IndInv, TypeOK

\* Every step keeps the account of the messages.
LEMMA MessagesStep ==
  ASSUME 0 \notin DeleteDelays, IndInv, MessagesAreAccounted, OneMessage, [Next]_vars
  PROVE  (MessagesAreAccounted /\ OneMessage)'
<1> USE DEF fixed, history
\* All steps but SendAccepted leave accepted alone and only add to lost.
<1>1. ASSUME UNCHANGED <<oneTime, accepted>>, lost \subseteq lost' PROVE OneMessage'
  BY <1>1 DEF OneMessage
\* Many steps start no send, end no completion and do not reopen the whisper.
<1>2. ASSUME UNCHANGED <<oneTime, accepted, lost>>,
             \A d \in Presses : pc'[d] = pc[d] \/ (pc[d] # "finishing" /\ pc'[d] # "sending"),
             status' = status \/ status' \in {"expired", "deleted"}
      PROVE  (MessagesAreAccounted /\ OneMessage)'
  BY <1>2 DEF MessagesAreAccounted, OneMessage
<1>3. ASSUME NEW c \in Presses, Reserve(c) PROVE (MessagesAreAccounted /\ OneMessage)'
  <2>1. CASE ReserveAllowed(c)
    BY <1>1, <2>1, ReservationAccounts DEF ReserveAllowed
  <2>2. CASE ReserveDenied(c) \/ ReserveUnrecorded(c) \/ ReserveMissing(c)
             \/ ReserveReplayed(c)
    <3>1. \A d \in Presses : pc'[d] = pc[d] \/ (pc[d] # "finishing" /\ pc'[d] # "sending")
      BY <2>2 DEF ReserveDenied, ReserveUnrecorded, ReserveMissing, ReserveReplayed,
         Reply, Runnable, IndInv, TypeOK
    <3>2. status' = status \/ status' = "expired"
      BY <2>2 DEF ReserveDenied, ReserveUnrecorded, ReserveMissing, ReserveReplayed,
         SetRow, row
    <3> QED BY <1>2, <2>2, <3>1, <3>2
        DEF ReserveDenied, ReserveUnrecorded, ReserveMissing, ReserveReplayed
  <2> QED BY <1>3, <2>1, <2>2 DEF Reserve
<1>4. ASSUME NEW c \in Presses, SendAccepted(c) PROVE (MessagesAreAccounted /\ OneMessage)'
  BY <1>4, SendAccounts
<1>5. ASSUME NEW c \in Presses, SendRejected(c) PROVE (MessagesAreAccounted /\ OneMessage)'
  <2>1. \A d \in Presses : pc'[d] = pc[d] \/ (pc[d] # "finishing" /\ pc'[d] # "sending")
    BY <1>5 DEF SendRejected, IndInv, TypeOK
  <2> QED BY <1>2, <1>5, <2>1 DEF SendRejected, row
<1>6. ASSUME NEW c \in Presses, Finish(c) PROVE (MessagesAreAccounted /\ OneMessage)'
  <2>1. UNCHANGED <<oneTime, accepted>> /\ lost \subseteq lost'
    BY <1>6 DEF Finish, CompleteOpen, CompleteAgain, CompleteRefused, FailOpen,
       FailRefused, HandlerLost
  <2> QED BY <1>1, <1>6, <2>1, EndAccounts
<1>7. CASE SweepOpenLease
  BY <1>1, <1>7, SweepAccounts DEF SweepOpenLease
<1>8. CASE EnvelopePublished \/ SweepExpired \/ SweepRetained \/ OwnerDelete \/ Tick
  BY <1>2, <1>8 DEF EnvelopePublished, SweepExpired, SweepRetained, OwnerDelete,
     DeleteRow, Tick, SetRow, row, handlers
<1>9. ASSUME NEW d \in DeleteDelays, OwnerSetDelay(d)
      PROVE  (MessagesAreAccounted /\ OneMessage)'
  BY <1>2, <1>9 DEF OwnerSetDelay, row, handlers
<1>10. CASE UNCHANGED vars
  BY <1>2, <1>10 DEF vars, row, handlers
<1> QED BY <1>3, <1>4, <1>5, <1>6, <1>7, <1>8, <1>9, <1>10 DEF Next, Deliver, Cleanup

\* The recipient of a one-time whisper gets a second message only after a handler
\* died or missed Telegram's reply, for any number of presses and any timing, as
\* long as ephemeral deletion is never switched off.
THEOREM Single ==
  ASSUME 0 \notin DeleteDelays PROVE Spec => []OneMessage
<1>1. Init => MessagesAreAccounted /\ OneMessage
  BY DEF Init, MessagesAreAccounted, OneMessage
<1>2. IndInv /\ MessagesAreAccounted /\ OneMessage /\ [Next]_vars
        => (MessagesAreAccounted /\ OneMessage)'
  BY MessagesStep
<1> QED BY <1>1, <1>2, Inductive, PTL DEF Spec

----------------------------------------------------------------------------
(* What the pressers are told                                              *)

\* Only a one-time whisper is ever opened for good. A job belongs to a message that
\* was accepted; a press that runs, or has failed, keeps its event until the row goes;
\* and one that failed does not run again.
Backed(c) ==
    /\ c \in jobs => accepted[c] > 0 /\ pc[c] \notin {"sending", "failing"}
    /\ InFlight(c) \/ answer[c] = "failed" => status = "deleted" \/ eventState[c] # "none"
    /\ InFlight(c) => answer[c] # "failed"

OnlyOneTimeOpens == status = "opened" => oneTime

AnswersAreBacked == OnlyOneTimeOpens /\ \A c \in Presses : Backed(c)

TrueAnswer(c) ==
    /\ answer[c] = "already_opened" => jobs # {}
    /\ answer[c] = "delivered" => c \in jobs
    /\ answer[c] = "failed" => c \notin jobs

\* A whisper that reads opened has a job.
LEMMA OpenedHasJob ==
  ASSUME IndInv, OnlyOneTimeOpens, status = "opened"
  PROVE  jobs # {}
  BY DEF IndInv, OpenedMeansDelivered, OnlyOneTimeOpens

\* Only the completion of a one-time whisper opens it.
LEMMA OpenedStep ==
  ASSUME IndInv, OnlyOneTimeOpens, [Next]_vars
  PROVE  OnlyOneTimeOpens'
<1>1. oneTime' = oneTime
  BY FixedStep DEF fixed, vars
<1>2. status' = "opened" => status = "opened" \/ status = "opening"
  BY StatusStep DEF CanTransitionTo, vars, row
<1> QED BY <1>1, <1>2 DEF OnlyOneTimeOpens, IndInv, OpeningIsHeld

\* A press is not disturbed by what happens to the others, or to the row.
LEMMA PressStays ==
  ASSUME NEW c \in Presses, Backed(c), TrueAnswer(c),
         pc'[c] = pc[c], answer'[c] = answer[c], accepted'[c] = accepted[c],
         jobs \subseteq jobs', c \in jobs' => c \in jobs,
         status = "deleted" => status' = "deleted",
         eventState'[c] = eventState[c] \/ eventState'[c] # "none" \/ status' = "deleted"
  PROVE  (Backed(c) /\ TrueAnswer(c))'
  BY DEF Backed, TrueAnswer, InFlight

\* The steps of a press leave the others alone.
LEMMA OthersStay ==
  ASSUME IndInv, NEW c \in Presses, NEW d \in Presses, d # c, Backed(d), TrueAnswer(d),
         Reserve(c) \/ Deliver(c) \/ Finish(c)
  PROVE  (Backed(d) /\ TrueAnswer(d))'
<1>1. pc'[d] = pc[d] /\ answer'[d] = answer[d]
  BY DEF Reserve, ReserveDenied, ReserveUnrecorded, ReserveMissing, ReserveReplayed, ReserveAllowed,
     Deliver, SendAccepted, SendRejected, Finish, CompleteOpen, CompleteAgain, CompleteRefused, FailOpen,
     FailRefused, HandlerLost, Reply, GiveUp, handlers, IndInv, TypeOK
<1>2. accepted'[d] = accepted[d] /\ eventState'[d] = eventState[d]
  BY DEF Reserve, ReserveDenied, ReserveUnrecorded, ReserveMissing, ReserveReplayed, ReserveAllowed,
     Deliver, SendAccepted, SendRejected, Finish, CompleteOpen, CompleteAgain, CompleteRefused, FailOpen,
     FailRefused, HandlerLost, RecordEvent, audit, history, IndInv, TypeOK
<1>3. jobs \subseteq jobs' /\ (d \in jobs' => d \in jobs)
  BY DEF Reserve, ReserveDenied, ReserveUnrecorded, ReserveMissing, ReserveReplayed, ReserveAllowed,
     Deliver, SendAccepted, SendRejected, Finish, CompleteOpen, CompleteAgain, CompleteRefused, FailOpen,
     FailRefused, HandlerLost
<1>4. status = "deleted" => status' = "deleted"
  <2>1. Next
    BY DEF Next
  <2> QED BY <2>1, StatusStep DEF CanTransitionTo
<1> QED BY <1>1, <1>2, <1>3, <1>4, PressStays

\* The answers of a reservation.
LEMMA ReserveAnswers ==
  ASSUME IndInv, OnlyOneTimeOpens, NEW c \in Presses, Backed(c), TrueAnswer(c), Reserve(c)
  PROVE  (Backed(c) /\ TrueAnswer(c))'
<1>1. ~InFlight(c)
  BY DEF Reserve, ReserveDenied, ReserveUnrecorded, ReserveMissing, ReserveReplayed, ReserveAllowed,
     Runnable, InFlight
<1>2. jobs' = jobs /\ accepted' = accepted
  BY DEF Reserve, ReserveDenied, ReserveUnrecorded, ReserveMissing, ReserveReplayed, ReserveAllowed, history
<1>3. ASSUME NEW a \in {"wrong_recipient", "expired", "already_opened", "unavailable", "not_found",
                        "internal_error"},
             Reply(c, a), a = "already_opened" => status = "opened"
      PROVE  (Backed(c) /\ TrueAnswer(c))'
  <2>1. answer'[c] = a /\ pc'[c] \in {"done", "again"}
    BY <1>3 DEF Reply, IndInv, TypeOK
  <2>2. ~InFlight(c)' /\ answer'[c] \notin {"delivered", "failed"}
    BY <2>1 DEF InFlight
  <2>3. answer'[c] = "already_opened" => jobs # {}
    BY <1>3, <2>1, OpenedHasJob
  <2> QED BY <1>2, <2>1, <2>2, <2>3 DEF Backed, TrueAnswer
<1>4. CASE ReserveDenied(c)
  <2>1. /\ Reply(c, Explain(Verdict(c)))
        /\ Explain(Verdict(c)) \in {"wrong_recipient", "expired", "already_opened", "unavailable"}
    BY <1>4 DEF ReserveDenied, Explain
  <2>2. Explain(Verdict(c)) = "already_opened" => status = "opened"
    BY DEF Explain, Verdict
  <2> QED BY <1>3, <2>1, <2>2
<1>5. CASE ReserveUnrecorded(c) \/ ReserveMissing(c) \/ ReserveReplayed(c)
  BY <1>3, <1>5 DEF ReserveUnrecorded, ReserveMissing, ReserveReplayed
<1>6. CASE ReserveAllowed(c)
  <2>1. eventState[c] = "none" /\ status # "deleted" /\ eventState'[c] = "reserved" /\ UNCHANGED answer
    BY <1>6 DEF ReserveAllowed, RecordEvent, IndInv, TypeOK
  <2>2. c \notin jobs /\ answer[c] # "failed"
    BY <2>1 DEF Backed, IndInv, EventsFollowSends
  <2> QED BY <1>2, <2>1, <2>2 DEF Backed, TrueAnswer
<1> QED BY <1>4, <1>5, <1>6 DEF Reserve

\* A send answers nothing yet.
LEMMA DeliverAnswers ==
  ASSUME IndInv, NEW c \in Presses, Backed(c), TrueAnswer(c), Deliver(c)
  PROVE  (Backed(c) /\ TrueAnswer(c))'
<1>1. pc[c] = "sending" /\ InFlight(c) /\ c \notin jobs
  BY DEF Deliver, SendAccepted, SendRejected, InFlight, Backed
<1>2. UNCHANGED <<jobs, answer, status, eventState>>
  BY DEF Deliver, SendAccepted, SendRejected, row, audit
<1> QED BY <1>1, <1>2 DEF Backed, TrueAnswer

\* The answers after a send.
LEMMA FinishAnswers ==
  ASSUME IndInv, NEW c \in Presses, Backed(c), TrueAnswer(c), Finish(c)
  PROVE  (Backed(c) /\ TrueAnswer(c))'
<1>1. InFlight(c) /\ answer[c] # "failed" /\ (status = "deleted" \/ eventState[c] # "none")
  BY DEF Finish, CompleteOpen, CompleteAgain, CompleteRefused, FailOpen, FailRefused, HandlerLost,
     InFlight, Backed
<1>2. CASE CompleteOpen(c)
  <2>1. pc[c] = "finishing" /\ accepted[c] > 0 /\ UNCHANGED accepted /\ jobs' = jobs \union {c}
    BY <1>2 DEF CompleteOpen, IndInv, HandlersAreTimely, history
  <2>2. eventState'[c] = "delivered"
    BY <1>2 DEF CompleteOpen, IndInv, TypeOK
  <2>3. \/ answer'[c] = "delivered" /\ pc'[c] \in {"done", "again"}
        \/ UNCHANGED <<answer, pc>>
    BY <1>2 DEF CompleteOpen, Reply, handlers, IndInv, TypeOK
  <2> QED BY <1>1, <2>1, <2>2, <2>3 DEF Backed, TrueAnswer, InFlight
<1>3. CASE CompleteAgain(c)
  <2>1. answer'[c] = "delivered" /\ pc'[c] \in {"done", "again"} /\ c \in jobs
        /\ UNCHANGED <<jobs, accepted>>
    BY <1>3 DEF CompleteAgain, AlreadyCompleted, Reply, history, IndInv, TypeOK
  <2> QED BY <2>1 DEF Backed, TrueAnswer, InFlight
<1>4. CASE CompleteRefused(c)
  <2>1. answer'[c] = "pending" /\ pc'[c] = "refused" /\ UNCHANGED <<jobs, accepted>>
    BY <1>4 DEF CompleteRefused, GiveUp, history, IndInv, TypeOK
  <2> QED BY <2>1 DEF Backed, TrueAnswer, InFlight
<1>5. CASE FailOpen(c)
  <2>1. pc[c] = "failing" /\ answer'[c] = "failed" /\ pc'[c] \in {"done", "again"}
        /\ eventState'[c] = "failed" /\ UNCHANGED <<jobs, accepted>>
    BY <1>5 DEF FailOpen, Reply, history, IndInv, TypeOK
  <2> QED BY <2>1 DEF Backed, TrueAnswer, InFlight
<1>6. CASE FailRefused(c)
  <2>1. pc[c] = "failing" /\ answer'[c] = "failed" /\ pc'[c] = "again"
        /\ UNCHANGED <<jobs, accepted, status, eventState>>
    BY <1>6 DEF FailRefused, GiveUp, history, row, audit, IndInv, TypeOK
  <2> QED BY <1>1, <2>1 DEF Backed, TrueAnswer, InFlight
<1>7. CASE HandlerLost(c)
  <2>1. pc'[c] = "again" /\ UNCHANGED <<answer, jobs, accepted>>
    BY <1>7 DEF HandlerLost, GiveUp, IndInv, TypeOK
  <2> QED BY <1>1, <2>1 DEF Backed, TrueAnswer, InFlight
<1> QED BY <1>2, <1>3, <1>4, <1>5, <1>6, <1>7 DEF Finish

\* Every step keeps the answers true, and what backs them.
LEMMA AnswersStep ==
  ASSUME IndInv, AnswersAreBacked, AnswersAreTrue, [Next]_vars
  PROVE  (AnswersAreBacked /\ AnswersAreTrue)'
<1>1. OnlyOneTimeOpens'
  BY OpenedStep DEF AnswersAreBacked
<1>2. ASSUME NEW d \in Presses PROVE (Backed(d) /\ TrueAnswer(d))'
  <2>1. Backed(d) /\ TrueAnswer(d)
    BY DEF AnswersAreBacked, AnswersAreTrue, TrueAnswer
  <2>2. ASSUME NEW c \in Presses, Reserve(c) \/ Deliver(c) \/ Finish(c) PROVE (Backed(d) /\ TrueAnswer(d))'
    <3>1. CASE c = d
      BY <2>1, <2>2, <3>1, ReserveAnswers, DeliverAnswers, FinishAnswers DEF AnswersAreBacked
    <3>2. CASE c # d
      BY <2>1, <2>2, <3>2, OthersStay
    <3> QED BY <3>1, <3>2
  <2>3. CASE EnvelopePublished \/ Cleanup \/ OwnerDelete \/ Tick \/ UNCHANGED vars
    <3>1. UNCHANGED <<pc, answer, accepted, jobs>>
      BY <2>3 DEF EnvelopePublished, Cleanup, SweepExpired, SweepOpenLease, SweepRetained, OwnerDelete,
         DeleteRow, Tick, handlers, history, vars
    <3>2. UNCHANGED eventState \/ status' = "deleted"
      BY <2>3 DEF EnvelopePublished, Cleanup, SweepExpired, SweepOpenLease, SweepRetained, OwnerDelete,
         DeleteRow, Tick, SetRow, audit, vars
    <3>3. status = "deleted" => status' = "deleted"
      BY <2>3 DEF EnvelopePublished, Cleanup, SweepExpired, SweepOpenLease, SweepRetained, OwnerDelete,
         DeleteRow, Tick, SetRow, row, vars
    <3> QED BY <2>1, <3>1, <3>2, <3>3, PressStays
  <2>4. ASSUME NEW e \in DeleteDelays, OwnerSetDelay(e) PROVE (Backed(d) /\ TrueAnswer(d))'
    BY <2>1, <2>4, PressStays DEF OwnerSetDelay, row, audit, handlers, history
  <2> QED BY <2>2, <2>3, <2>4 DEF Next
<1> QED BY <1>1, <1>2 DEF AnswersAreBacked, AnswersAreTrue, TrueAnswer

\* What HandleCallback and its replies tell a presser is true, for any number of presses
\* and any timing: "already delivered" and "delivered" follow a recorded delivery, and no
\* delivery is ever recorded for a press that was told to try again.
THEOREM AnswersTrue == Spec => []AnswersAreTrue
<1>1. Init => AnswersAreBacked /\ AnswersAreTrue
  BY DEF Init, AnswersAreBacked, OnlyOneTimeOpens, Backed, InFlight, AnswersAreTrue
<1>2. IndInv /\ AnswersAreBacked /\ AnswersAreTrue /\ [Next]_vars => (AnswersAreBacked /\ AnswersAreTrue)'
  BY AnswersStep
<1> QED BY <1>1, <1>2, Inductive, PTL DEF Spec

----------------------------------------------------------------------------
(* One delivery                                                            *)

\* A press that was lost keeps its event until the row goes, so that it cannot reserve
\* the whisper again.
LostStayOut ==
    \A c \in lost : pc[c] # "sending" /\ (status = "deleted" \/ eventState[c] # "none")

\* A single handler in flight is the sender.
LEMMA OneSender ==
  ASSUME NEW at, NEW c \in Presses,
         \A d \in Presses : d # c => at[d] \notin {"sending", "finishing", "failing"}
  PROVE  SenderAmong(at) = IF at[c] = "sending" THEN "sending"
                           ELSE IF at[c] = "finishing" THEN "sent"
                           ELSE IF at[c] = "failing" THEN "failed" ELSE "nobody"
  BY DEF SenderAmong

\* Without one, nobody is.
LEMMA NoSender ==
  ASSUME NEW at, \A d \in Presses : at[d] \notin {"sending", "finishing", "failing"}
  PROVE  SenderAmong(at) = "nobody"
  BY DEF SenderAmong

\* A step that puts no press into flight, or out of it, leaves the sender.
LEMMA SameSender ==
  ASSUME NEW at, NEW to,
         \A d \in Presses : \/ to[d] = at[d]
                            \/ {at[d], to[d]} \cap {"sending", "finishing", "failing"} = {}
  PROVE  SenderAmong(to) = SenderAmong(at)
<1>1. \A d \in Presses : /\ to[d] = "sending" <=> at[d] = "sending"
                         /\ to[d] = "finishing" <=> at[d] = "finishing"
                         /\ to[d] = "failing" <=> at[d] = "failing"
  OBVIOUS
<1> QED BY <1>1 DEF SenderAmong

\* What is said of OneDelivery here holds of the promise of any protocol.
\* Invariant: while nobody sends, or the last send failed, all messages are lost as long as
\* one more may be sent; and who has recorded his message sends none.
PromiseInv ==
    /\ RecordOf(status) \in {"open", "made", "closed"}
    /\ SenderAmong(pc) \in {"nobody", "sending", "sent", "failed"}
    /\ SenderAmong(pc) \in {"sending", "failed"} => Reached \subseteq Missed
    /\ SenderAmong(pc) = "nobody" /\ RecordOf(status) = "open" => Reached \subseteq Missed
    /\ RecordOf(status) = "made" => SenderAmong(pc) \in {"nobody", "sent"}
    /\ Promise!OneKnown

\* OneDelivery keeps its invariant.
LEMMA PromiseStep ==
  ASSUME PromiseInv, [Promise!Next]_(Promise!vars)
  PROVE  PromiseInv'
<1> USE DEF PromiseInv, Promise!OneKnown
<1>1. CASE Promise!Admit
  BY <1>1 DEF Promise!Admit
<1>2. CASE Promise!Send
  BY <1>2 DEF Promise!Send
<1>3. CASE Promise!NotSent
  BY <1>3 DEF Promise!NotSent
<1>4. CASE Promise!Record
  BY <1>4 DEF Promise!Record
<1>5. CASE Promise!Leave
  BY <1>5 DEF Promise!Leave
<1>6. CASE Promise!Close
  BY <1>6 DEF Promise!Close
<1>7. CASE UNCHANGED Promise!vars
  BY <1>7 DEF Promise!vars
<1> QED BY <1>1, <1>2, <1>3, <1>4, <1>5, <1>6, <1>7 DEF Promise!Next

\* A lost press stays out: no reservation takes its callback id again.
LEMMA LostStep ==
  ASSUME IndInv, AnswersAreBacked, LostStayOut, [Next]_vars
  PROVE  LostStayOut'
<1> USE DEF LostStayOut
<1>1. ASSUME NEW c \in Presses, ReserveAllowed(c) PROVE LostStayOut'
  <2>1. c \notin lost /\ lost' = lost /\ status' # "deleted"
    BY <1>1 DEF ReserveAllowed, history, SetRow, row
  <2>2. \A d \in lost : pc'[d] = pc[d] /\ eventState'[d] = eventState[d]
    BY <1>1, <2>1 DEF ReserveAllowed, RecordEvent, IndInv, TypeOK
  <2> QED BY <1>1, <2>1, <2>2 DEF ReserveAllowed
<1>2. ASSUME NEW c \in Presses, Reserve(c), ~ReserveAllowed(c) PROVE LostStayOut'
  <2>1. lost' = lost /\ (status = "deleted" => status' = "deleted")
    BY <1>2 DEF Reserve, ReserveDenied, ReserveUnrecorded, ReserveMissing, ReserveReplayed, SetRow, row, history
  <2>2. \A d \in lost : pc'[d] # "sending" /\ (eventState[d] # "none" => eventState'[d] # "none")
    BY <1>2 DEF Reserve, ReserveDenied, ReserveUnrecorded, ReserveMissing, ReserveReplayed, Reply, RecordEvent,
       audit, IndInv, TypeOK
  <2> QED BY <2>1, <2>2
<1>3. ASSUME NEW c \in Presses, Deliver(c) \/ Finish(c) PROVE LostStayOut'
  <2>1. lost' \in {lost, lost \union {c}} /\ (status = "deleted" => status' = "deleted")
    BY <1>3 DEF Deliver, SendAccepted, SendRejected, Finish, CompleteOpen, CompleteAgain, CompleteRefused,
       FailOpen, FailRefused, HandlerLost, SetRow, row, history, Completable
  <2>2. \A d \in Presses : eventState[d] # "none" => eventState'[d] # "none"
    BY <1>3 DEF Deliver, SendAccepted, SendRejected, Finish, CompleteOpen, CompleteAgain, CompleteRefused,
       FailOpen, FailRefused, HandlerLost, audit, IndInv, TypeOK
  <2>3. \A d \in Presses : pc'[d] = "sending" => pc[d] = "sending" /\ d # c
    BY <1>3 DEF Deliver, SendAccepted, SendRejected, Finish, CompleteOpen, CompleteAgain, CompleteRefused,
       FailOpen, FailRefused, HandlerLost, Reply, GiveUp, InFlight, handlers, IndInv, TypeOK
  <2>4. status = "deleted" \/ eventState[c] # "none"
    <3>1. InFlight(c)
      BY <1>3 DEF Deliver, SendAccepted, SendRejected, Finish, CompleteOpen, CompleteAgain, CompleteRefused,
         FailOpen, FailRefused, HandlerLost, InFlight
    <3> QED BY <3>1 DEF AnswersAreBacked, Backed
  <2> QED BY <2>1, <2>2, <2>3, <2>4 DEF IndInv, TypeOK
<1>4. CASE EnvelopePublished \/ Cleanup \/ OwnerDelete \/ Tick \/ UNCHANGED vars
           \/ \E d \in DeleteDelays : OwnerSetDelay(d)
  BY <1>4 DEF EnvelopePublished, Cleanup, SweepExpired, SweepOpenLease, SweepRetained, OwnerDelete, DeleteRow,
     Tick, OwnerSetDelay, SetRow, row, audit, handlers, history, vars
<1> QED BY <1>1, <1>2, <1>3, <1>4 DEF Next

\* What a reservation is to the promise: it admits a press that finds nobody sending and
\* no message to be recorded, or it settles that the whisper has expired.
LEMMA ReserveDelivers ==
  ASSUME IndInv, MessagesAreAccounted, oneTime, NEW c \in Presses, Reserve(c)
  PROVE  [Promise!Next]_(Promise!vars)
<1>1. UNCHANGED <<Reached, Missed>>
  BY DEF Reserve, ReserveDenied, ReserveUnrecorded, ReserveMissing, ReserveReplayed, ReserveAllowed, history,
     Reached, Missed
<1>2. \A d \in Presses : d # c => pc'[d] = pc[d]
  BY DEF Reserve, ReserveDenied, ReserveUnrecorded, ReserveMissing, ReserveReplayed, ReserveAllowed, Reply,
     IndInv, TypeOK
<1>3. ~InFlight(c)
  BY DEF Reserve, ReserveDenied, ReserveUnrecorded, ReserveMissing, ReserveReplayed, ReserveAllowed, Runnable,
     InFlight
<1>4. CASE ReserveAllowed(c)
  <2>1. status \in {"active", "opening"} /\ status' = "opening" /\ pc'[c] = "sending"
    BY <1>4 DEF ReserveAllowed, Verdict, SetRow, IndInv, TypeOK, Statuses
  <2>2. \A d \in Presses : ~InFlight(d)
    BY <1>4, AdmittedAlone DEF ReserveAllowed
  <2>3. SenderAmong(pc) = "nobody"
    BY <2>2, NoSender DEF InFlight
  <2>4. SenderAmong(pc') = "sending"
    BY <1>2, <2>1, <2>2, OneSender DEF InFlight
  <2>5. Reached \subseteq Missed
    BY <2>1, <2>2 DEF MessagesAreAccounted, InFlight, Reached, Missed
  <2>6. RecordOf(status) = "open" /\ RecordOf(status') = "open"
    BY <2>1 DEF RecordOf
  <2> QED BY <1>1, <2>3, <2>4, <2>5, <2>6 DEF Promise!Next, Promise!Admit
<1>5. CASE ~ReserveAllowed(c)
  <2>1. pc'[c] \in {"done", "again"}
    BY <1>5 DEF Reserve, ReserveDenied, ReserveUnrecorded, ReserveMissing, ReserveReplayed, Reply, IndInv, TypeOK
  <2>2. SenderAmong(pc') = SenderAmong(pc)
    BY <1>2, <1>3, <2>1, SameSender DEF InFlight
  <2>3. status' = status \/ (status \in {"active", "opening"} /\ status' = "expired")
    BY <1>5 DEF Reserve, ReserveDenied, ReserveUnrecorded, ReserveMissing, ReserveReplayed, SetRow, row
  <2>4. RecordOf(status') = RecordOf(status) \/ (RecordOf(status) = "open" /\ RecordOf(status') = "closed")
    BY <2>3 DEF RecordOf
  <2> QED BY <1>1, <2>2, <2>4 DEF Promise!Next, Promise!Close, Promise!vars
<1> QED BY <1>4, <1>5

\* The handler in flight is the sender, before its step and after it.
LEMMA FlightStep ==
  ASSUME IndInv, oneTime, NEW c \in Presses, InFlight(c), Deliver(c) \/ Finish(c)
  PROVE  /\ \A d \in Presses : d # c => ~InFlight(d)
         /\ SenderAmong(pc) = IF pc[c] = "sending" THEN "sending"
                              ELSE IF pc[c] = "finishing" THEN "sent" ELSE "failed"
         /\ SenderAmong(pc') = IF pc'[c] = "sending" THEN "sending"
                               ELSE IF pc'[c] = "finishing" THEN "sent"
                               ELSE IF pc'[c] = "failing" THEN "failed" ELSE "nobody"
<1>1. \A d \in Presses : d # c => ~InFlight(d) /\ pc'[d] = pc[d]
  BY DEF Deliver, SendAccepted, SendRejected, Finish, CompleteOpen, CompleteAgain, CompleteRefused, FailOpen,
     FailRefused, HandlerLost, Reply, GiveUp, handlers, IndInv, DeliveryExclusive, TypeOK
<1>2. SenderAmong(pc) = IF pc[c] = "sending" THEN "sending"
                        ELSE IF pc[c] = "finishing" THEN "sent" ELSE "failed"
  BY <1>1, OneSender DEF InFlight
<1>3. SenderAmong(pc') = IF pc'[c] = "sending" THEN "sending"
                         ELSE IF pc'[c] = "finishing" THEN "sent"
                         ELSE IF pc'[c] = "failing" THEN "failed" ELSE "nobody"
  BY <1>1, OneSender DEF InFlight
<1> QED BY <1>1, <1>2, <1>3

\* A send adds a message of its own, which is lost with the reply.
LEMMA DeliverDelivers ==
  ASSUME IndInv, LostStayOut, oneTime, NEW c \in Presses, Deliver(c)
  PROVE  Promise!Next
<1>1. pc[c] = "sending" /\ InFlight(c) /\ c \notin lost /\ accepted[c] = 0 /\ status' = status
  BY DEF Deliver, SendAccepted, SendRejected, InFlight, LostStayOut, IndInv, HandlersAreTimely, row
<1>2. SenderAmong(pc) = "sending"
  BY <1>1, FlightStep
<1>3. CASE SendAccepted(c)
  <2>1. Reached' = Reached \union {c} /\ c \notin Reached
    BY <1>1, <1>3 DEF SendAccepted, Reached, IndInv, TypeOK
  <2>2. CASE pc'[c] = "finishing" /\ lost' = lost
    <3>1. SenderAmong(pc') = "sent"
      BY <1>1, <2>2, FlightStep
    <3>2. Missed' = Missed
      BY <1>1, <1>3, <2>2 DEF SendAccepted, Missed, IndInv, TypeOK
    <3> QED BY <1>1, <1>2, <2>1, <3>1, <3>2 DEF Promise!Next, Promise!Send
  <2>3. CASE pc'[c] = "failing" /\ lost' = lost \union {c}
    <3>1. SenderAmong(pc') = "failed"
      BY <1>1, <2>3, FlightStep
    <3>2. Missed' = Missed \union {c}
      BY <1>1, <1>3, <2>3 DEF SendAccepted, Missed, IndInv, TypeOK
    <3> QED BY <1>1, <1>2, <2>1, <3>1, <3>2 DEF Promise!Next, Promise!Send
  <2> QED BY <1>3, <2>2, <2>3 DEF SendAccepted, IndInv, TypeOK
<1>4. CASE SendRejected(c)
  <2>1. pc'[c] = "failing" /\ UNCHANGED <<accepted, lost>>
    BY <1>4 DEF SendRejected, history, IndInv, TypeOK
  <2>2. SenderAmong(pc') = "failed"
    BY <1>1, <2>1, FlightStep
  <2> QED BY <1>1, <1>2, <2>1, <2>2 DEF Promise!Next, Promise!NotSent, Reached, Missed
<1> QED BY <1>3, <1>4 DEF Deliver

\* The completion of an open row is the record; of any other, or a second one, only the
\* sender's end.
LEMMA CompletionDelivers ==
  ASSUME 0 \notin DeleteDelays, IndInv, oneTime, NEW c \in Presses,
         CompleteOpen(c) \/ CompleteAgain(c) \/ CompleteRefused(c)
  PROVE  Promise!Next
<1>1. pc[c] = "finishing" /\ InFlight(c) /\ Finish(c)
  BY DEF CompleteOpen, CompleteAgain, CompleteRefused, InFlight, Finish
<1>2. SenderAmong(pc) = "sent"
  BY <1>1, FlightStep
<1>3. UNCHANGED <<Reached, Missed>>
  BY DEF CompleteOpen, CompleteAgain, CompleteRefused, history, Reached, Missed
<1>4. CASE CompleteOpen(c)
  <2>1. RecordOf(status) = "open" /\ RecordOf(status') = "made"
    BY <1>4 DEF CompleteOpen, Completable, SetRow, RecordOf
  <2>2. pc'[c] \in {"done", "again", "finishing"}
    BY <1>1, <1>4 DEF CompleteOpen, Reply, handlers, IndInv, TypeOK
  <2>3. SenderAmong(pc') \in {"sent", "nobody"}
    BY <1>1, <2>2, FlightStep
  <2> QED BY <1>2, <1>3, <2>1, <2>3 DEF Promise!Next, Promise!Record
<1>5. CASE CompleteAgain(c) \/ CompleteRefused(c)
  <2>1. pc'[c] \in {"done", "again", "refused"} /\ status' = status
    BY <1>5 DEF CompleteAgain, CompleteRefused, Reply, GiveUp, row, IndInv, TypeOK
  <2>2. SenderAmong(pc') = "nobody"
    BY <1>1, <2>1, FlightStep
  <2>3. status \in {"opened", "expired", "deleted"}
    <3>1. CASE CompleteAgain(c)
      BY <3>1 DEF CompleteAgain, AlreadyCompleted, IndInv, OpenedMeansDelivered
    <3>2. CASE CompleteRefused(c)
      BY <3>2, RefusalNeedsEnd
    <3> QED BY <1>5, <3>1, <3>2
  <2>4. RecordOf(status) # "open"
    BY <2>3 DEF RecordOf
  <2> QED BY <1>2, <1>3, <2>1, <2>2, <2>4 DEF Promise!Next, Promise!Leave
<1> QED BY <1>4, <1>5

\* A failed sender leaves, and closes the row if its time is up.
LEMMA FailureDelivers ==
  ASSUME IndInv, oneTime, NEW c \in Presses, FailOpen(c) \/ FailRefused(c)
  PROVE  Promise!Next
<1>1. pc[c] = "failing" /\ InFlight(c) /\ Finish(c)
  BY DEF FailOpen, FailRefused, InFlight, Finish
<1>2. SenderAmong(pc) = "failed"
  BY <1>1, FlightStep
<1>3. UNCHANGED <<Reached, Missed>>
  BY DEF FailOpen, FailRefused, history, Reached, Missed
<1>4. pc'[c] \in {"done", "again"}
  BY DEF FailOpen, FailRefused, Reply, GiveUp, IndInv, TypeOK
<1>5. SenderAmong(pc') = "nobody"
  BY <1>1, <1>4, FlightStep
<1>6. status' = status \/ (status = "opening" /\ status' \in {"expired", "active"})
  BY DEF FailOpen, FailRefused, SetRow, row
<1>7. \/ RecordOf(status') = RecordOf(status)
      \/ RecordOf(status) = "open" /\ RecordOf(status') = "closed"
  BY <1>6 DEF RecordOf
<1> QED BY <1>2, <1>3, <1>5, <1>7 DEF Promise!Next, Promise!Leave

\* With a handler that dies, what it knew of is lost.
LEMMA LossDelivers ==
  ASSUME IndInv, MessagesAreAccounted, OneMessage, oneTime, NEW c \in Presses, HandlerLost(c)
  PROVE  Promise!Next
<1>1. InFlight(c) /\ Finish(c) /\ pc'[c] = "again" /\ status' = status /\ accepted' = accepted
      /\ lost' = lost \union {c}
  BY DEF HandlerLost, GiveUp, Finish, row, IndInv, TypeOK
<1>2. SenderAmong(pc) # "nobody" /\ SenderAmong(pc') = "nobody"
  BY <1>1, FlightStep
<1>3. SenderAmong(pc) = "sent" => pc[c] = "finishing"
  BY <1>1, FlightStep
<1>4. Reached' = Reached
  BY <1>1 DEF Reached
<1>5. CASE c \in lost \/ accepted[c] = 0
  <2>1. Missed' = Missed
    BY <1>1, <1>5 DEF Missed
  <2>2. SenderAmong(pc) = "sent" /\ RecordOf(status) = "open" => Missed = Reached
    <3>1. SUFFICES ASSUME SenderAmong(pc) = "sent", RecordOf(status) = "open",
                          NEW d \in Presses, accepted[d] > 0, d \notin lost
                   PROVE  FALSE
      BY DEF Reached, Missed, IndInv, TypeOK
    <3>2. status \notin {"opened", "expired", "deleted"}
      BY <3>1 DEF RecordOf
    <3>3. InFlight(d)
      BY <3>1, <3>2 DEF MessagesAreAccounted, InFlight
    <3>4. c = d
      BY <1>1, <3>3 DEF IndInv, DeliveryExclusive
    <3> QED BY <1>5, <3>1, <3>4
  <2> QED BY <1>1, <1>2, <1>4, <2>1, <2>2 DEF Promise!Next, Promise!Leave
<1>6. CASE c \notin lost /\ accepted[c] # 0
  <2>1. accepted[c] > 0
    BY <1>6 DEF IndInv, TypeOK
  <2>2. \A d \in Presses : accepted[d] > 0 => d = c \/ d \in lost
    BY <1>6, <2>1 DEF OneMessage
  <2>3. Missed' = Reached
    BY <1>1, <2>1, <2>2 DEF Missed, Reached, IndInv, TypeOK
  <2> QED BY <1>1, <1>2, <1>4, <2>3 DEF Promise!Next, Promise!Leave
<1> QED BY <1>5, <1>6

\* Every step of a one-time whisper is one of the promise, or none.
LEMMA DeliversStep ==
  ASSUME 0 \notin DeleteDelays, IndInv, MessagesAreAccounted, OneMessage, LostStayOut, oneTime, [Next]_vars
  PROVE  [Promise!Next]_(Promise!vars)
<1>1. ASSUME NEW c \in Presses, Reserve(c) PROVE [Promise!Next]_(Promise!vars)
  BY <1>1, ReserveDelivers
<1>2. ASSUME NEW c \in Presses, Deliver(c) PROVE [Promise!Next]_(Promise!vars)
  BY <1>2, DeliverDelivers
<1>3. ASSUME NEW c \in Presses, Finish(c) PROVE [Promise!Next]_(Promise!vars)
  BY <1>3, CompletionDelivers, FailureDelivers, LossDelivers DEF Finish
<1>4. CASE Cleanup \/ OwnerDelete
  <2>1. UNCHANGED <<Reached, Missed, pc>>
    BY <1>4 DEF Cleanup, SweepExpired, SweepOpenLease, SweepRetained, OwnerDelete, DeleteRow, handlers, history,
       Reached, Missed
  <2>2. \/ status' \in {"expired", "deleted"}
        \/ status = "opening" /\ status' = "active"
    BY <1>4 DEF Cleanup, SweepExpired, SweepOpenLease, SweepRetained, OwnerDelete, DeleteRow, SetRow
  <2>3. RecordOf(status') = RecordOf(status) \/ (RecordOf(status) # "closed" /\ RecordOf(status') = "closed")
    BY <2>2 DEF RecordOf
  <2> QED BY <2>1, <2>3 DEF Promise!Next, Promise!Close, Promise!vars
<1>5. CASE EnvelopePublished \/ Tick \/ UNCHANGED vars \/ \E d \in DeleteDelays : OwnerSetDelay(d)
  <2>1. UNCHANGED <<Reached, Missed, pc, status>>
    BY <1>5 DEF EnvelopePublished, Tick, OwnerSetDelay, row, handlers, history, vars, Reached, Missed
  <2> QED BY <2>1 DEF Promise!vars
<1> QED BY <1>1, <1>2, <1>3, <1>4, <1>5 DEF Next

\* The presses implement one delivery, whatever their number, the timing and the faults,
\* as long as the owner does not switch ephemeral deletion off (opening.go, callback.go).
THEOREM OneDeliveryImplemented ==
  ASSUME 0 \notin DeleteDelays PROVE Spec => DeliversOnce
<1>1. Init => Promise!Init
  <2>1. ASSUME Init PROVE SenderAmong(pc) = "nobody"
    BY <2>1, NoSender DEF Init
  <2>2. ASSUME Init PROVE RecordOf(status) = "open" /\ Reached = {} /\ Missed = {}
    BY <2>2 DEF Init, RecordOf, Reached, Missed
  <2> QED BY <2>1, <2>2 DEF Promise!Init
<1>2. Init => MessagesAreAccounted /\ OneMessage /\ AnswersAreBacked /\ LostStayOut
  BY DEF Init, MessagesAreAccounted, OneMessage, AnswersAreBacked, OnlyOneTimeOpens, Backed, InFlight,
     AnswersAreTrue, LostStayOut
<1>3. IndInv /\ MessagesAreAccounted /\ OneMessage /\ [Next]_vars => (MessagesAreAccounted /\ OneMessage)'
  BY MessagesStep
<1>4. IndInv /\ AnswersAreBacked /\ AnswersAreTrue /\ LostStayOut /\ [Next]_vars
        => (AnswersAreBacked /\ LostStayOut)'
  BY AnswersStep, LostStep
<1>5. IndInv /\ MessagesAreAccounted /\ OneMessage /\ LostStayOut /\ [Next]_vars
        => [oneTime => [Promise!Next]_(Promise!vars)]_vars
  BY DeliversStep
<1> QED BY <1>1, <1>2, <1>3, <1>4, <1>5, Inductive, AnswersTrue, PTL DEF Spec, DeliversOnce

\* And one delivery means one message that is not lost, with no other after its record.
\* The proof uses nothing of Opening: it holds wherever OneDelivery is implemented.
THEOREM OneDeliveryKeeps ==
  Promise!Spec => []Promise!OneKnown /\ Promise!RecordIsFinal
<1>1. Promise!Init => PromiseInv
  BY DEF Promise!Init, PromiseInv, Promise!OneKnown
<1>2. PromiseInv /\ [Promise!Next]_(Promise!vars) => PromiseInv'
  BY PromiseStep
<1>3. PromiseInv => Promise!OneKnown
  BY DEF PromiseInv
<1>4. PromiseInv /\ [Promise!Next]_(Promise!vars)
        => [RecordOf(status) = "made" => Reached' = Reached /\ RecordOf(status)' # "open"]_(Promise!vars)
  BY DEF PromiseInv, Promise!Next, Promise!Admit, Promise!Send, Promise!NotSent, Promise!Record,
     Promise!Leave, Promise!Close, Promise!vars
<1> QED BY <1>1, <1>2, <1>3, <1>4, PTL DEF Promise!Spec, Promise!RecordIsFinal
=============================================================================
