-------------------------- MODULE LifecycleProofs --------------------------
(***************************************************************************)
(* Proofs that the whole life of a whisper implements Opening and          *)
(* Publication, step by step, for every value of the constants.            *)
(***************************************************************************)
EXTENDS Lifecycle, TLAPS

----------------------------------------------------------------------------
(* Opening                                                                 *)

\* What an attempt to publish does looks to the presses like the publication of
\* the envelope, or like nothing.
LEMMA PublicationSeenByPresses ==
    ASSUME HandlePublication
    PROVE  O!EnvelopePublished \/ UNCHANGED O!vars
<1> DEFINE Unseen == UNCHANGED <<clock, expiresAt, status>>
                     /\ (publishState' = "published" <=> publishState = "published")
<1>1. Unseen => UNCHANGED O!vars
  BY DEF HandlePublication, openingVars, O!vars, O!fixed, O!row, O!audit, O!handlers, O!history
<1>2. ASSUME NEW w \in P!Publishers, P!MarkPublished(w) PROVE O!EnvelopePublished
  BY <1>2 DEF P!MarkPublished, P!HoldsLease, P!SetColumn, HandlePublication, openingVars,
     O!EnvelopePublished, O!fixed, O!row, O!audit, O!handlers, O!history
<1>3. ASSUME NEW w \in P!Publishers, P!Claim(w) PROVE Unseen
  BY <1>3 DEF P!Claim, P!Claimable, P!SetColumn
<1>4. ASSUME NEW w \in P!Publishers,
             \/ P!LookupFailed(w) \/ P!EnvelopeAccepted(w) \/ P!EnvelopeRefused(w)
             \/ P!OutcomeRefused(w) \/ P!PublisherLost(w)
      PROVE  Unseen
  BY <1>4 DEF P!LookupFailed, P!EnvelopeAccepted, P!EnvelopeRefused, P!OutcomeRefused, P!PublisherLost, P!column
<1>5. ASSUME NEW w \in P!Publishers, P!MarkRetry(w) \/ P!MarkRejected(w) PROVE Unseen
  BY <1>5 DEF P!MarkRetry, P!MarkRejected, P!HoldsLease, P!SetColumn
<1>6. CASE P!RequestRefused
  BY <1>1, <1>6 DEF P!RequestRefused, P!column
<1> QED BY <1>1, <1>2, <1>3, <1>4, <1>5, <1>6 DEF HandlePublication, P!Attempt

\* Every step of the whole is a step of Opening, or nothing to it.
LEMMA OpeningStep == [Next]_vars => [O!Next]_O!vars
<1> SUFFICES ASSUME [Next]_vars PROVE O!Next \/ UNCHANGED O!vars
  OBVIOUS
<1>1. ASSUME NEW c \in Presses, HandlePress(c) PROVE O!Next
  BY <1>1 DEF HandlePress, O!Next
<1>2. CASE HandlePublication
  BY <1>2, PublicationSeenByPresses DEF O!Next
<1>3. CASE Cleanup
  <2>1. CASE UNCHANGED openingVars /\ P!SweepPublishLease
    BY <2>1 DEF P!SweepPublishLease, P!SetColumn, openingVars,
       O!vars, O!fixed, O!row, O!audit, O!handlers, O!history
  <2> QED BY <1>3, <2>1 DEF Cleanup, O!Next, O!Cleanup
<1>4. CASE Owner
  BY <1>4 DEF Owner, O!Next
<1>5. CASE O!Tick
  BY <1>5 DEF O!Next
<1>6. CASE UNCHANGED vars
  BY <1>6 DEF vars, openingVars, publicationVars, O!vars, O!fixed, O!row, O!audit, O!handlers, O!history
<1> QED BY <1>1, <1>2, <1>3, <1>4, <1>5, <1>6 DEF Next

\* What is proved of Opening holds of the whole system: publication, its leases
\* and their sweeps do nothing to a press that Opening does not know.
THEOREM OpeningImplemented == Spec => ImplementsOpening
<1>1. Init => O!Init
  BY DEF Init
<1> QED BY <1>1, OpeningStep, PTL DEF Spec, ImplementsOpening, O!Spec

----------------------------------------------------------------------------
(* Publication                                                             *)

\* A press has reserved the row only after an envelope, and its record.
ReservedIsPosted ==
    /\ envelopes \in Nat
    /\ status \in {"active", "opening", "opened", "expired", "deleted"}
    /\ status = "opening" => publishState = "published" /\ envelopes > 0

\* The start of a whisper.
LEMMA PostedInit == Init => ReservedIsPosted
  BY DEF Init, P!Init, ReservedIsPosted

\* What the handler of a press may do to the row.
LEMMA PressSteps ==
    ASSUME ReservedIsPosted, NEW c \in Presses, HandlePress(c)
    PROVE  /\ UNCHANGED <<clock, expiresAt, publicationVars>>
           /\ \/ status' = status
              \/ envelopes > 0 /\ P!Expired /\ status \in {"active", "opening"} /\ status' = "expired"
              \/ envelopes > 0 /\ publishState = "published" /\ status \in {"active", "opening"}
                 /\ status' \in {"active", "opening", "opened"}
<1> USE DEF HandlePress, O!fixed, O!SetRow, O!row, O!Expired, P!Expired, ReservedIsPosted
<1>1. CASE Pressable /\ O!ReserveDenied(c)
  <2>1. O!Verdict(c) = "denied_expired" => P!Expired
    BY DEF O!Verdict
  <2> QED BY <1>1, <2>1 DEF O!ReserveDenied, Pressable
<1>2. CASE O!ReserveUnrecorded(c) \/ O!ReserveMissing(c) \/ O!ReserveReplayed(c)
  BY <1>2 DEF O!ReserveUnrecorded, O!ReserveMissing, O!ReserveReplayed
<1>3. CASE Pressable /\ O!ReserveAllowed(c)
  <2>1. O!Verdict(c) = "allowed" => status \notin {"opened", "expired"} /\ publishState = "published"
    BY DEF O!Verdict
  <2> QED BY <1>3, <2>1 DEF O!ReserveAllowed, Pressable
<1>4. CASE O!Deliver(c)
  BY <1>4 DEF O!Deliver, O!SendAccepted, O!SendRejected
<1>5. CASE O!CompleteOpen(c)
  BY <1>5 DEF O!CompleteOpen, O!Completable
<1>6. CASE O!FailOpen(c)
  BY <1>6 DEF O!FailOpen
<1>7. CASE O!CompleteAgain(c) \/ O!CompleteRefused(c) \/ O!FailRefused(c) \/ O!HandlerLost(c)
  BY <1>7 DEF O!CompleteAgain, O!CompleteRefused, O!FailRefused, O!HandlerLost
<1> QED BY <1>1, <1>2, <1>3, <1>4, <1>5, <1>6, <1>7 DEF O!Reserve, O!Finish

\* What leaves the columns of Publication alone and does to the status what a
\* press does is a step of Press.
LEMMA PressIsKnown ==
    ASSUME UNCHANGED <<clock, expiresAt, publicationVars>>,
           \/ status' = status
           \/ envelopes > 0 /\ P!Expired /\ status \in {"active", "opening"} /\ status' = "expired"
           \/ envelopes > 0 /\ publishState = "published" /\ status \in {"active", "opening"}
              /\ status' \in {"active", "opening", "opened"}
    PROVE  P!Press \/ UNCHANGED P!vars
  BY DEF P!Press, P!vars, P!column, P!publishers, P!history, publicationVars

\* Every step of the whole keeps the invariant, and is a step of Publication or
\* nothing to it.
LEMMA PublicationStep ==
    ReservedIsPosted /\ [Next]_vars => ReservedIsPosted' /\ [P!Next]_P!vars
<1> SUFFICES ASSUME ReservedIsPosted, [Next]_vars
             PROVE  ReservedIsPosted' /\ (P!Next \/ UNCHANGED P!vars)
  OBVIOUS
<1>1. ASSUME NEW c \in Presses, HandlePress(c) PROVE ReservedIsPosted' /\ (P!Next \/ UNCHANGED P!vars)
  <2>1. P!Press \/ UNCHANGED P!vars
    BY <1>1, PressSteps, PressIsKnown
  <2>2. ReservedIsPosted'
    BY <1>1, PressSteps DEF ReservedIsPosted, publicationVars
  <2> QED BY <2>1, <2>2 DEF P!Next
<1>2. CASE HandlePublication
  <2>1. P!Next
    BY <1>2 DEF HandlePublication, P!Next
  <2>2. ASSUME NEW w \in P!Publishers, P!Claim(w) PROVE ReservedIsPosted'
    BY <2>2 DEF P!Claim, P!Claimable, P!history, ReservedIsPosted
  <2>3. ASSUME NEW w \in P!Publishers, P!EnvelopeAccepted(w) PROVE ReservedIsPosted'
    <3>1. UNCHANGED <<status, publishState>> /\ envelopes' = envelopes + 1
      BY <2>3 DEF P!EnvelopeAccepted, P!column
    <3> QED BY <3>1 DEF ReservedIsPosted
  <2>4. ASSUME NEW w \in P!Publishers, P!MarkPublished(w) \/ P!MarkRetry(w) \/ P!MarkRejected(w)
        PROVE  ReservedIsPosted'
    BY <2>4 DEF P!MarkPublished, P!MarkRetry, P!MarkRejected, P!HoldsLease, P!SetColumn, P!history, ReservedIsPosted
  <2>5. ASSUME NEW w \in P!Publishers,
               P!LookupFailed(w) \/ P!EnvelopeRefused(w) \/ P!OutcomeRefused(w) \/ P!PublisherLost(w)
        PROVE  ReservedIsPosted'
    <3>1. UNCHANGED <<status, publishState, envelopes>>
      BY <2>5 DEF P!LookupFailed, P!EnvelopeRefused, P!OutcomeRefused, P!PublisherLost, P!column, P!history
    <3> QED BY <3>1 DEF ReservedIsPosted
  <2>6. CASE P!RequestRefused
    BY <2>1, <2>6 DEF P!RequestRefused, P!column, P!history, ReservedIsPosted
  <2> QED BY <1>2, <2>1, <2>2, <2>3, <2>4, <2>5, <2>6 DEF HandlePublication, P!Attempt
<1>3. CASE P!SweepExpired
  BY <1>3 DEF P!SweepExpired, P!history, P!Next, P!Cleanup, ReservedIsPosted
<1>4. CASE P!DeleteRow
  BY <1>4 DEF P!DeleteRow, P!history, P!Next, ReservedIsPosted
<1>5. CASE UNCHANGED publicationVars /\ O!SweepOpenLease
  <2>1. /\ status = "opening" /\ status' = "active"
        /\ UNCHANGED <<clock, expiresAt, publicationVars>>
    BY <1>5 DEF O!SweepOpenLease, O!SetRow, O!fixed
  <2>2. P!Press \/ UNCHANGED P!vars
    BY <2>1, PressIsKnown DEF ReservedIsPosted
  <2>3. ReservedIsPosted'
    BY <2>1 DEF ReservedIsPosted, publicationVars
  <2> QED BY <2>2, <2>3 DEF P!Next
<1>6. CASE UNCHANGED openingVars /\ P!SweepPublishLease
  BY <1>6 DEF P!SweepPublishLease, P!history, P!Next, P!Cleanup, ReservedIsPosted
<1>7. CASE UNCHANGED publicationVars /\ \E d \in DeleteDelays : O!OwnerSetDelay(d)
  <2>1. UNCHANGED <<clock, expiresAt, status, publicationVars>>
    BY <1>7 DEF O!OwnerSetDelay, O!fixed, O!row
  <2> QED BY <2>1, PressIsKnown DEF ReservedIsPosted, publicationVars, P!Next
<1>8. CASE P!Tick
  BY <1>8 DEF P!Tick, P!column, P!history, P!Next, ReservedIsPosted
<1>9. CASE UNCHANGED vars
  BY <1>9, PressIsKnown DEF vars, ReservedIsPosted, publicationVars, P!Next
<1> QED BY <1>1, <1>2, <1>3, <1>4, <1>5, <1>6, <1>7, <1>8, <1>9 DEF Next, Cleanup, Owner, P!SweepRetained

\* What is proved of Publication holds of the whole system: a press, a reservation
\* and the release of its lease are to a publisher what Press allows, because a
\* row is reserved only after its envelope was posted and recorded (opening.go:110).
THEOREM PublicationImplemented == Spec => ImplementsPublication
<1>1. Init => P!Init
  BY DEF Init
<1> QED BY <1>1, PostedInit, PublicationStep, PTL DEF Spec, ImplementsPublication, P!Spec

----------------------------------------------------------------------------
(* The two protocols together                                              *)

\* The presses' part, which Opening's steps keep: what was opened, sent or is about to
\* be sent follows the record of the envelope.
SecretIsPublished ==
    /\ DOMAIN pc = Presses /\ DOMAIN accepted = Presses
    /\ status \in {"opening", "opened"} => publishState = "published"
    /\ \A c \in Presses : pc[c] = "sending" \/ accepted[c] > 0 => publishState = "published"

\* What ends the time in which the row can be claimed, and stays.
Over == status \in {"expired", "deleted"} \/ P!Expired

LeaseTypes ==
    /\ clock \in Nat /\ expiresAt \in Nat /\ publishLease \in Nat
    /\ step \in [P!Publishers -> P!Steps]
    /\ held \in [P!Publishers -> Nat] /\ cutoff \in [P!Publishers -> Nat]

\* A publisher at work has time left, and its lease is longer than that.
HoldsTheRow(w) ==
    P!Working(w) =>
        /\ clock <= cutoff[w] /\ cutoff[w] < held[w]
        /\ \/ publishState = "publishing" /\ publishLease = held[w]
           \/ publishState = "published" /\ step[w] = "completing"
           \/ Over /\ publishState # "published"

\* The publishers' part, which Publication's steps keep: one at a time they work on the
\* row, and none posts once the envelope is on record and the callback token gone.
OnePublisher ==
    /\ LeaseTypes
    /\ P!PublishExclusive
    /\ \A w \in P!Publishers : HoldsTheRow(w)
    /\ publishState = "published" => ~token

\* The start of a whisper.
LEMMA SecretInit == Init => SecretIsPublished /\ OnePublisher
<1> SUFFICES ASSUME Init PROVE SecretIsPublished /\ OnePublisher
  OBVIOUS
<1>1. SecretIsPublished
  BY DEF Init, O!Init, P!Init, SecretIsPublished
<1>2. LeaseTypes
  BY LifecycleAssumption DEF LifecycleAssumption, P!PublicationAssumption, Init, P!Init, LeaseTypes, P!Steps
<1>3. \A w \in P!Publishers : ~P!Working(w)
  BY DEF Init, P!Init, P!Working
<1> QED BY <1>1, <1>2, <1>3 DEF OnePublisher, P!PublishExclusive, HoldsTheRow, Init, P!Init

\* A secret is sent after a reservation, and a row reserved only once it is published.
LEMMA SecretStep == SecretIsPublished /\ [O!Next]_O!vars => SecretIsPublished'
<1> SUFFICES ASSUME SecretIsPublished, [O!Next]_O!vars PROVE SecretIsPublished'
  OBVIOUS
<1> USE DEF O!fixed, O!history, O!handlers, O!row, O!SetRow
<1>1. ASSUME UNCHANGED <<pc, accepted>>, publishState = "published" => publishState' = "published",
             status' \in {"active", "opening", "opened"} => status' = status \/ status = "opening"
      PROVE  SecretIsPublished'
  BY <1>1 DEF SecretIsPublished
<1>2. ASSUME NEW c \in Presses, NEW v, v # "sending" \/ publishState = "published",
             pc' = [pc EXCEPT ![c] = v], accepted' = accepted,
             publishState' = "published" <=> publishState = "published",
             \/ status' = status \/ status' \in {"active", "expired"}
             \/ publishState = "published"
      PROVE  SecretIsPublished'
  BY <1>2 DEF SecretIsPublished
<1>3. ASSUME NEW c \in Presses, O!ReserveDenied(c) PROVE SecretIsPublished'
  BY <1>2, <1>3 DEF O!ReserveDenied, O!Reply
<1>4. ASSUME NEW c \in Presses, O!ReserveUnrecorded(c) \/ O!ReserveMissing(c) \/ O!ReserveReplayed(c)
      PROVE  SecretIsPublished'
  BY <1>2, <1>4 DEF O!ReserveUnrecorded, O!ReserveMissing, O!ReserveReplayed, O!Reply
<1>5. ASSUME NEW c \in Presses, O!ReserveAllowed(c) PROVE SecretIsPublished'
  <2>1. publishState = "published"
    BY <1>5 DEF O!ReserveAllowed, O!Verdict
  <2> QED BY <1>2, <1>5, <2>1 DEF O!ReserveAllowed
<1>6. ASSUME NEW c \in Presses, O!SendAccepted(c) PROVE SecretIsPublished'
  <2>1. publishState = "published" /\ publishState' = "published"
    BY <1>6 DEF O!SendAccepted, SecretIsPublished
  <2>2. DOMAIN pc' = Presses /\ DOMAIN accepted' = Presses
    BY <1>6 DEF O!SendAccepted, SecretIsPublished
  <2> QED BY <2>1, <2>2 DEF SecretIsPublished
<1>7. ASSUME NEW c \in Presses, O!SendRejected(c) PROVE SecretIsPublished'
  BY <1>2, <1>7 DEF O!SendRejected
<1>8. ASSUME NEW c \in Presses, O!CompleteOpen(c) PROVE SecretIsPublished'
  <2>1. status' = status \/ publishState = "published"
    BY <1>8 DEF O!CompleteOpen, O!Completable, SecretIsPublished
  <2>2. /\ accepted' = accepted
        /\ publishState' = "published" <=> publishState = "published"
    BY <1>8 DEF O!CompleteOpen
  <2>3. CASE O!Reply(c, "delivered")
    BY <1>2, <2>1, <2>2, <2>3 DEF O!Reply
  <2>4. CASE UNCHANGED pc
    BY <2>1, <2>2, <2>4 DEF SecretIsPublished
  <2> QED BY <1>8, <2>3, <2>4 DEF O!CompleteOpen
<1>9. ASSUME NEW c \in Presses, O!FailOpen(c) PROVE SecretIsPublished'
  BY <1>2, <1>9 DEF O!FailOpen, O!Reply
<1>10. ASSUME NEW c \in Presses,
              O!CompleteAgain(c) \/ O!CompleteRefused(c) \/ O!FailRefused(c) \/ O!HandlerLost(c)
       PROVE  SecretIsPublished'
  BY <1>2, <1>10 DEF O!CompleteAgain, O!CompleteRefused, O!FailRefused, O!HandlerLost, O!Reply, O!GiveUp
<1>11. CASE O!EnvelopePublished \/ O!Cleanup \/ O!OwnerDelete \/ O!Tick \/ UNCHANGED O!vars
  BY <1>1, <1>11 DEF O!EnvelopePublished, O!Cleanup, O!SweepExpired, O!SweepOpenLease, O!SweepRetained,
     O!OwnerDelete, O!DeleteRow, O!Tick, O!vars, SecretIsPublished
<1>12. ASSUME NEW d \in DeleteDelays, O!OwnerSetDelay(d) PROVE SecretIsPublished'
  BY <1>1, <1>12 DEF O!OwnerSetDelay
<1> QED BY <1>3, <1>4, <1>5, <1>6, <1>7, <1>8, <1>9, <1>10, <1>11, <1>12
        DEF O!Next, O!Reserve, O!Deliver, O!Finish

\* The end of an attempt: nobody is at work any more.
LEMMA AttemptEnds ==
    ASSUME OnePublisher, NEW w \in P!Publishers, P!Working(w), NEW notices, P!EndAttempt(w, notices),
           UNCHANGED <<clock, expiresAt>>, publishLease' \in Nat, publishState' = "published" => ~token'
    PROVE  OnePublisher'
<1>1. LeaseTypes'
  BY DEF OnePublisher, LeaseTypes, P!EndAttempt, P!Steps
<1>2. \A v \in P!Publishers : ~P!Working(v)'
  <2>1. \A v \in P!Publishers : v # w => ~P!Working(v)
    BY DEF OnePublisher, P!PublishExclusive
  <2> QED BY <2>1 DEF P!EndAttempt, P!Working, OnePublisher, LeaseTypes
<1> QED BY <1>1, <1>2 DEF OnePublisher, P!PublishExclusive, HoldsTheRow

\* What leaves the publishers alone, if a row that is over stays so, and a lease that its
\* publisher may still need is not taken.
LEMMA PublishersStay ==
    ASSUME OnePublisher, UNCHANGED <<step, held, cutoff, expiresAt>>,
           clock' \in Nat, publishLease' \in Nat, Over => Over',
           publishState' = "published" <=> publishState = "published",
           publishState' = "published" => ~token',
           \A w \in P!Publishers : P!Working(w) =>
               /\ clock' <= cutoff[w]
               /\ Over' \/ (publishState' = publishState /\ publishLease' = publishLease)
    PROVE  OnePublisher'
<1>1. \A w \in P!Publishers : P!Working(w)' <=> P!Working(w)
  BY DEF P!Working
<1>2. LeaseTypes' /\ P!PublishExclusive'
  BY <1>1 DEF OnePublisher, LeaseTypes, P!PublishExclusive
<1>3. ASSUME NEW w \in P!Publishers PROVE HoldsTheRow(w)'
  <2>1. HoldsTheRow(w)
    BY DEF OnePublisher
  <2> QED BY <1>1, <2>1 DEF HoldsTheRow
<1> QED BY <1>2, <1>3 DEF OnePublisher

\* The lease outlasts an attempt, so that publishers take turns.
LEMMA PublisherStep == OnePublisher /\ [P!Next]_P!vars => OnePublisher'
<1> SUFFICES ASSUME OnePublisher, [P!Next]_P!vars PROVE OnePublisher'
  OBVIOUS
<1> USE DEF P!column, P!publishers, P!history
<1>1. LeaseTypes /\ clock \in Nat /\ expiresAt \in Nat /\ publishLease \in Nat
  BY DEF OnePublisher, LeaseTypes
<1>2. ASSUME NEW w \in P!Publishers, P!Claim(w) PROVE OnePublisher'
  <2>1. ~Over /\ publishState \in {"pending", "retry_wait"}
    BY <1>2 DEF P!Claim, P!Claimable, Over
  <2>2. \A v \in P!Publishers : ~P!Working(v)
    BY <2>1 DEF OnePublisher, HoldsTheRow
  <2>3. /\ PublishLease \in Nat /\ PublisherBudget \in Nat /\ PublisherBudget < PublishLease
    BY LifecycleAssumption DEF LifecycleAssumption, P!PublicationAssumption
  <2>4. /\ step' = [step EXCEPT ![w] = "claimed"]
        /\ held' = [held EXCEPT ![w] = clock + PublishLease]
        /\ cutoff' = [cutoff EXCEPT ![w] = clock + PublisherBudget]
        /\ publishState' = "publishing" /\ publishLease' = clock + PublishLease
        /\ UNCHANGED <<clock, expiresAt>>
    BY <1>2 DEF P!Claim, P!SetColumn
  <2>5. LeaseTypes'
    BY <1>1, <2>3, <2>4 DEF LeaseTypes, P!Steps
  <2>6. \A v \in P!Publishers : P!Working(v)' => v = w
    BY <1>1, <2>2, <2>4 DEF P!Working, LeaseTypes
  <2>7. cutoff'[w] = clock + PublisherBudget /\ held'[w] = clock + PublishLease
    BY <1>1, <2>4 DEF LeaseTypes
  <2>8. HoldsTheRow(w)'
    BY <1>1, <2>3, <2>4, <2>7 DEF HoldsTheRow
  <2>9. \A v \in P!Publishers : HoldsTheRow(v)'
    BY <2>6, <2>8 DEF HoldsTheRow
  <2> QED BY <2>4, <2>5, <2>6, <2>9 DEF OnePublisher, P!PublishExclusive
<1>3. ASSUME NEW w \in P!Publishers, P!EnvelopeAccepted(w) \/ P!EnvelopeRefused(w) PROVE OnePublisher'
  <2>1. PICK next \in {"completing", "retrying", "rejected"} : step' = [step EXCEPT ![w] = next]
    BY <1>3 DEF P!EnvelopeAccepted, P!EnvelopeRefused
  <2>2. /\ step[w] = "claimed" /\ P!Working(w)
        /\ UNCHANGED <<clock, expiresAt, status, publishState, publishLease, token, held, cutoff>>
    BY <1>3 DEF P!EnvelopeAccepted, P!EnvelopeRefused, P!Working
  <2>3. \A v \in P!Publishers : P!Working(v)' => P!Working(v) /\ (v # w => step'[v] = step[v])
    BY <1>1, <2>1, <2>2 DEF P!Working, LeaseTypes
  <2>4. LeaseTypes' /\ P!PublishExclusive'
    BY <1>1, <2>1, <2>2, <2>3 DEF OnePublisher, LeaseTypes, P!PublishExclusive, P!Steps
  <2>5. publishState # "published"
    BY <2>2 DEF OnePublisher, HoldsTheRow
  <2>6. \A v \in P!Publishers : HoldsTheRow(v)'
    BY <2>2, <2>3, <2>5 DEF OnePublisher, HoldsTheRow, Over, P!Expired
  <2> QED BY <2>2, <2>4, <2>5, <2>6 DEF OnePublisher
<1>4. ASSUME NEW w \in P!Publishers, P!MarkPublished(w) PROVE OnePublisher'
  <2>1. /\ P!Working(w) /\ step[w] = "completing" /\ publishState = "publishing"
        /\ publishState' = "published" /\ publishLease' = 0 /\ ~token'
        /\ UNCHANGED <<clock, expiresAt, status>>
    BY <1>4 DEF P!MarkPublished, P!HoldsLease, P!SetColumn, P!Working
  <2>2. CASE UNCHANGED <<step, held, cutoff>>
    <3>1. \A v \in P!Publishers : P!Working(v)' => v = w
      BY <2>1, <2>2 DEF OnePublisher, P!PublishExclusive, P!Working
    <3>2. HoldsTheRow(w)'
      BY <2>1, <2>2 DEF OnePublisher, HoldsTheRow
    <3>3. \A v \in P!Publishers : HoldsTheRow(v)'
      BY <3>1, <3>2 DEF HoldsTheRow
    <3>4. LeaseTypes'
      BY <1>1, <2>1, <2>2 DEF LeaseTypes
    <3> QED BY <2>1, <3>1, <3>3, <3>4 DEF OnePublisher, P!PublishExclusive
  <2>3. CASE P!EndAttempt(w, P!Answer(w, "posted"))
    BY <2>1, <2>3, AttemptEnds
  <2> QED BY <1>4, <2>2, <2>3 DEF P!MarkPublished
<1>5. ASSUME NEW w \in P!Publishers,
             \/ P!LookupFailed(w) \/ P!MarkRetry(w) \/ P!MarkRejected(w)
             \/ P!OutcomeRefused(w) \/ P!PublisherLost(w)
      PROVE  OnePublisher'
  <2>1. P!Working(w) /\ \E notices : P!EndAttempt(w, notices)
    BY <1>5 DEF P!LookupFailed, P!MarkRetry, P!MarkRejected, P!OutcomeRefused, P!PublisherLost, P!Working
  <2>2. /\ UNCHANGED <<clock, expiresAt, token>> /\ publishLease' \in {0, publishLease}
        /\ publishState' \in {publishState, "retry_wait", "failed"}
    BY <1>5 DEF P!LookupFailed, P!MarkRetry, P!MarkRejected, P!OutcomeRefused, P!PublisherLost, P!SetColumn
  <2>3. publishState' = "published" => ~token'
    BY <2>2 DEF OnePublisher
  <2> QED BY <1>1, <2>1, <2>2, <2>3, AttemptEnds
<1>6. CASE P!RequestRefused
  <2>1. Request \in P!Publishers
    BY DEF P!Publishers
  <2>2. /\ step[Request] = "idle" /\ step' = [step EXCEPT ![Request] = "done"]
        /\ held' = [held EXCEPT ![Request] = 0] /\ cutoff' = [cutoff EXCEPT ![Request] = 0]
        /\ UNCHANGED <<clock, expiresAt, status, publishState, publishLease, token>>
    BY <1>6 DEF P!RequestRefused, P!EndAttempt
  <2>3. \A v \in P!Publishers :
          P!Working(v)' => P!Working(v) /\ UNCHANGED <<step[v], held[v], cutoff[v]>>
    BY <1>1, <2>1, <2>2 DEF P!Working, LeaseTypes
  <2>4. LeaseTypes' /\ P!PublishExclusive'
    BY <1>1, <2>2, <2>3 DEF OnePublisher, LeaseTypes, P!PublishExclusive, P!Steps
  <2>5. \A v \in P!Publishers : HoldsTheRow(v)'
    BY <2>2, <2>3 DEF OnePublisher, HoldsTheRow, Over, P!Expired
  <2> QED BY <2>2, <2>4, <2>5 DEF OnePublisher
<1>7. ASSUME UNCHANGED <<clock, step, held, cutoff, expiresAt>>, publishLease' \in Nat, Over => Over',
             publishState' = "published" <=> publishState = "published", token' => token,
             Over' \/ UNCHANGED <<publishState, publishLease>>
      PROVE  OnePublisher'
  <2>1. \A w \in P!Publishers : P!Working(w) => clock' <= cutoff[w]
    BY <1>7 DEF OnePublisher, HoldsTheRow
  <2>2. publishState' = "published" => ~token'
    BY <1>7 DEF OnePublisher
  <2> QED BY <1>1, <1>7, <2>1, <2>2, PublishersStay
<1>8. CASE P!SweepExpired
  BY <1>1, <1>7, <1>8 DEF P!SweepExpired, P!SetColumn, Over
<1>9. CASE P!SweepPublishLease
  <2>1. ~Over
    BY <1>9 DEF P!SweepPublishLease, Over
  <2>2. \A w \in P!Publishers : ~P!Working(w)
    <3> SUFFICES ASSUME NEW w \in P!Publishers, P!Working(w) PROVE FALSE
      OBVIOUS
    <3>1. publishState = "publishing" /\ publishLease <= clock
      BY <1>9 DEF P!SweepPublishLease
    <3>2. clock <= cutoff[w] /\ cutoff[w] < publishLease /\ cutoff[w] \in Nat
      BY <1>1, <2>1, <3>1 DEF OnePublisher, HoldsTheRow, LeaseTypes
    <3> QED BY <1>1, <3>1, <3>2
  <2>3. /\ publishState = "publishing" /\ publishState' = "retry_wait" /\ publishLease' = 0
        /\ UNCHANGED <<clock, step, held, cutoff, expiresAt>>
    BY <1>9 DEF P!SweepPublishLease, P!SetColumn
  <2> QED BY <1>1, <2>1, <2>2, <2>3, PublishersStay
<1>10. CASE P!DeleteRow
  BY <1>1, <1>7, <1>10 DEF P!DeleteRow, Over
<1>11. CASE P!Press
  <2>1. Over => Over'
    BY <1>11 DEF P!Press, Over, P!Expired
  <2> QED BY <1>1, <1>7, <1>11, <2>1 DEF P!Press
<1>12. CASE P!Tick
  <2>1. clock' = clock + 1 /\ \A w \in P!Publishers : P!Working(w) => clock < cutoff[w]
    BY <1>12 DEF P!Tick
  <2>2. \A w \in P!Publishers : P!Working(w) => clock' <= cutoff[w]
    BY <1>1, <2>1 DEF LeaseTypes
  <2>3. UNCHANGED <<expiresAt, status, publishState, publishLease, token, step, held, cutoff>>
    BY <1>12 DEF P!Tick
  <2>4. Over => Over'
    BY <1>1, <2>1, <2>3 DEF Over, P!Expired
  <2>5. clock' \in Nat
    BY <1>1, <2>1
  <2> QED BY <1>1, <2>2, <2>3, <2>4, <2>5, PublishersStay DEF OnePublisher
<1>13. CASE UNCHANGED P!vars
  BY <1>1, <1>7, <1>13 DEF P!vars, Over, P!Expired
<1> QED BY <1>2, <1>3, <1>4, <1>5, <1>6, <1>8, <1>9, <1>10, <1>11, <1>12, <1>13
        DEF P!Next, P!Attempt, P!Cleanup, P!SweepRetained

\* A secret reaches the chat only through a recorded envelope, and once a press has
\* reserved the row nobody is about to post another one: what each protocol keeps of
\* itself, kept by the whole because it implements both.
THEOREM EnvelopeFirst == Spec => []SecretNeedsEnvelope
<1>1. ReservedIsPosted /\ SecretIsPublished /\ OnePublisher /\ [Next]_vars
        => (ReservedIsPosted /\ SecretIsPublished /\ OnePublisher)'
  BY OpeningStep, PublicationStep, SecretStep, PublisherStep
<1>2. SecretIsPublished /\ OnePublisher => SecretNeedsEnvelope
  <2> SUFFICES ASSUME SecretIsPublished, OnePublisher PROVE SecretNeedsEnvelope
    OBVIOUS
  <2>1. (\E c \in Presses : accepted[c] > 0) => publishState = "published" /\ ~token
    BY DEF SecretIsPublished, OnePublisher
  <2>2. ASSUME publishState = "published", NEW w \in P!Publishers
        PROVE  step[w] \notin {"claimed", "retrying", "rejected"}
    BY <2>2 DEF OnePublisher, HoldsTheRow, P!Working
  <2> QED BY <2>1, <2>2 DEF SecretNeedsEnvelope, SecretIsPublished
<1> QED BY <1>1, <1>2, PostedInit, SecretInit, PTL DEF Spec
=============================================================================
