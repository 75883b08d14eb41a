------------------------- MODULE PublicationProofs -------------------------
(***************************************************************************)
(* Proofs about Publication, for every set of workers, every timing that   *)
(* satisfies PublicationAssumption and every combination of faults.        *)
(***************************************************************************)
EXTENDS Publication, TLAPS

----------------------------------------------------------------------------
(* The invariant                                                           *)

\* What ends the time in which the row can be claimed, and stays.
Over   == status \in {"expired", "deleted"} \/ Expired
Closed == Over \/ publishState \in {"published", "failed"}

\* A publisher at work has time left, and its lease is longer than that. The row
\* is its own as long as it may be posted at all; published it was by itself.
PublishersHoldTheRow ==
    \A w \in Publishers : Working(w) =>
        /\ clock <= cutoff[w] /\ cutoff[w] < held[w]
        /\ \/ publishState = "publishing" /\ publishLease = held[w]
           \/ publishState = "published" /\ step[w] = "completing"
           \/ Over /\ publishState # "published"

\* An envelope that was not lost is with a publisher that knows of it, or the row
\* cannot be claimed again.
EnvelopesAreAccounted ==
    /\ envelopes <= 1 + losses
    /\ \A w \in Publishers : Working(w) /\ step[w] # "completing" => envelopes <= losses
    /\ envelopes > losses => Closed \/ \E w \in Publishers : step[w] = "completing"

\* Who has read that the envelope was posted is the request that posted it, and
\* who has read the opposite has it from the request or from the last publisher.
NoticesAreFinal ==
    /\ "posted" \in told =>
          publishState = "published" /\ step[Request] = "done" /\ "undeliverable" \notin told
    /\ "undeliverable" \in told =>
          step[Request] = "done" \/ (Closed /\ \A w \in Publishers : ~Working(w))

PublicationInv ==
    /\ TypeOK
    /\ PublishExclusive
    /\ PublishersHoldTheRow
    /\ EnvelopesAreAccounted
    /\ NoticesAreFinal

----------------------------------------------------------------------------
(* Types                                                                   *)

\* The initial state is well typed.
LEMMA TypeInit == Init => TypeOK
<1>1. 0 \in 0..MaxClock
  BY PublicationAssumption DEF PublicationAssumption
<1>2. Init => token \in BOOLEAN
  BY DEF Init
<1> QED BY <1>1, <1>2 DEF Init, TypeOK, PublishStates, Steps, Notices

\* The end of an attempt keeps the types of what it writes.
LEMMA EndType ==
    ASSUME TypeOK, NEW w \in Publishers, NEW notices \in SUBSET Notices, EndAttempt(w, notices)
    PROVE  /\ step' \in [Publishers -> Steps]
           /\ held' \in [Publishers -> Nat] /\ cutoff' \in [Publishers -> Nat]
           /\ told' \subseteq Notices
  BY DEF EndAttempt, TypeOK, Steps

\* Every step keeps the types.
LEMMA TypeStep == TypeOK /\ [Next]_vars => TypeOK'
<1> SUFFICES ASSUME TypeOK, [Next]_vars PROVE TypeOK'
  OBVIOUS
<1> USE PublicationAssumption DEF PublicationAssumption, TypeOK, column, publishers, history
<1>1. ASSUME NEW w \in Publishers, Claim(w) PROVE TypeOK'
  BY <1>1 DEF Claim, SetColumn, PublishStates, Steps
<1>2. CASE RequestRefused
  BY <1>2, EndType DEF RequestRefused, Publishers, Notices
<1>3. ASSUME NEW w \in Publishers, LookupFailed(w) PROVE TypeOK'
  BY <1>3, EndType DEF LookupFailed, Answer, Notices
<1>4. ASSUME NEW w \in Publishers, EnvelopeAccepted(w) PROVE TypeOK'
  BY <1>4 DEF EnvelopeAccepted, Steps
<1>5. ASSUME NEW w \in Publishers, EnvelopeRefused(w) PROVE TypeOK'
  BY <1>5 DEF EnvelopeRefused, Steps
<1>6. ASSUME NEW w \in Publishers, MarkPublished(w) PROVE TypeOK'
  BY <1>6, EndType DEF MarkPublished, SetColumn, Answer, Notices, PublishStates
<1>7. ASSUME NEW w \in Publishers, MarkRetry(w) PROVE TypeOK'
  BY <1>7, EndType DEF MarkRetry, SetColumn, Answer, Notices, PublishStates
<1>8. ASSUME NEW w \in Publishers, MarkRejected(w) PROVE TypeOK'
  BY <1>8, EndType DEF MarkRejected, SetColumn, Answer, Rejection, Notices, PublishStates
<1>9. ASSUME NEW w \in Publishers, OutcomeRefused(w) PROVE TypeOK'
  BY <1>9, EndType DEF OutcomeRefused, Answer, Rejection, Notices
<1>10. ASSUME NEW w \in Publishers, PublisherLost(w) PROVE TypeOK'
  BY <1>10, EndType DEF PublisherLost, Notices
<1>11. CASE SweepExpired \/ SweepPublishLease
  BY <1>11 DEF SweepExpired, SweepPublishLease, SetColumn, PublishStates
<1>12. CASE DeleteRow
  BY <1>12 DEF DeleteRow
<1>13. CASE Press
  BY <1>13 DEF Press
<1>14. CASE Tick
  BY <1>14 DEF Tick
<1>15. CASE UNCHANGED vars
  BY <1>15 DEF vars
<1> QED BY <1>1, <1>2, <1>3, <1>4, <1>5, <1>6, <1>7, <1>8, <1>9, <1>10, <1>11, <1>12, <1>13, <1>14, <1>15 DEF Next, Attempt, Cleanup, SweepRetained

\* Type correctness of Publication.
THEOREM TypeCorrect == Spec => []TypeOK
<1> QED BY TypeInit, TypeStep, PTL DEF Spec

----------------------------------------------------------------------------
(* Steps                                                                   *)

\* The initial state satisfies the invariant.
LEMMA InvInit == Init => PublicationInv
  BY TypeInit DEF Init, PublicationInv, PublishExclusive, PublishersHoldTheRow,
     EnvelopesAreAccounted, NoticesAreFinal, Working

\* While one publisher is at work the others are not, and do not begin.
LEMMA OthersRest ==
    ASSUME PublicationInv, NEW w \in Publishers, Working(w), NEW v \in Publishers, v # w
    PROVE  ~Working(v)
  BY DEF PublicationInv, PublishExclusive

\* A claim meets a row that nobody works on and whose envelopes are all lost.
LEMMA ClaimStep ==
    ASSUME PublicationInv, NEW w \in Publishers, Claim(w)
    PROVE  PublicationInv'
<1> USE PublicationAssumption DEF PublicationAssumption
<1>1. TypeOK'
  BY TypeStep DEF PublicationInv, Next
<1>2. ~Closed
  BY DEF Claim, Claimable, Closed, Over
<1>3. \A v \in Publishers : ~Working(v)
  BY <1>2 DEF PublicationInv, PublishersHoldTheRow, Claim, Claimable, Closed
<1>4. \A v \in Publishers : Working(v)' => v = w
  BY <1>3 DEF Claim, Working, PublicationInv, TypeOK
<1>5. envelopes <= losses
  BY <1>2, <1>3 DEF PublicationInv, EnvelopesAreAccounted, Working, TypeOK
<1>6. PublishExclusive'
  BY <1>4 DEF PublishExclusive
<1>7. PublishersHoldTheRow'
  BY <1>4 DEF PublishersHoldTheRow, Claim, SetColumn, PublicationInv, TypeOK
<1>8. EnvelopesAreAccounted'
  BY <1>5 DEF EnvelopesAreAccounted, Claim, history, PublicationInv, TypeOK
<1>9. NoticesAreFinal'
  <2>1. "posted" \notin told
    BY <1>2 DEF PublicationInv, NoticesAreFinal, Closed
  <2>2. "undeliverable" \in told => step[Request] = "done" /\ w # Request
    BY <1>2 DEF PublicationInv, NoticesAreFinal, Claim
  <2>3. step'[Request] = "done" \/ w = Request \/ "undeliverable" \notin told
    BY <2>2 DEF Claim, PublicationInv, TypeOK, Publishers
  <2> QED BY <2>1, <2>2, <2>3 DEF NoticesAreFinal, Claim
<1> QED BY <1>1, <1>6, <1>7, <1>8, <1>9 DEF PublicationInv

\* The row goes on as it is but for the columns of the publication, and no
\* publisher is at work any more but those that were.
LEMMA EndStep ==
    ASSUME PublicationInv, NEW w \in Publishers, Working(w),
           NEW notices \in SUBSET Notices, EndAttempt(w, notices)
    PROVE  /\ \A v \in Publishers : ~Working(v)'
           /\ step'[Request] = "done" <=> (w = Request \/ step[Request] = "done")
           /\ w = Request => step[Request] # "done"
<1>1. step' = [step EXCEPT ![w] = IF w = Request THEN "done" ELSE "idle"]
  BY DEF EndAttempt
<1>2. \A v \in Publishers : v # w => ~Working(v)
  BY OthersRest
<1>3. \A v \in Publishers : ~Working(v)'
  BY <1>1, <1>2 DEF Working, PublicationInv, TypeOK
<1>4. Request \in Publishers /\ step \in [Publishers -> Steps]
  BY DEF Publishers, PublicationInv, TypeOK
<1> QED BY <1>1, <1>3, <1>4 DEF Working

\* An attempt that ends accounts for its envelope: it was lost, or closes the row.
LEMMA EndAccounts ==
    ASSUME PublicationInv, NEW w \in Publishers, Working(w),
           \A v \in Publishers : ~Working(v)',
           envelopes' = envelopes,
           losses' = losses \/ losses' = losses + 1,
           losses' = losses /\ step[w] = "completing" => Closed'
    PROVE  EnvelopesAreAccounted'
<1>1. envelopes \in Nat /\ losses \in Nat /\ envelopes <= 1 + losses
  BY DEF PublicationInv, EnvelopesAreAccounted, TypeOK
<1>2. envelopes' <= 1 + losses'
  BY <1>1
<1>3. envelopes' > losses' => Closed'
  <2>1. step[w] # "completing" => envelopes <= losses
    BY DEF PublicationInv, EnvelopesAreAccounted
  <2> QED BY <1>1, <2>1
<1> QED BY <1>2, <1>3 DEF EnvelopesAreAccounted

\* What an attempt tells at its end stays true: that the envelope was posted, if
\* it is published; that it will not be, if the row is closed.
LEMMA EndNotices ==
    ASSUME PublicationInv, NEW w \in Publishers, Working(w),
           NEW notices \in SUBSET Notices, EndAttempt(w, notices),
           Closed => Closed',
           publishState = "published" => publishState' = "published",
           "posted" \in notices => w = Request /\ publishState' = "published",
           "undeliverable" \in notices => Closed' /\ "posted" \notin notices /\ publishState # "published"
    PROVE  NoticesAreFinal'
<1>1. \A v \in Publishers : ~Working(v)'
  BY EndStep
<1>2. told' = told \union notices
  BY DEF EndAttempt
<1>3. "undeliverable" \in told => step[Request] = "done"
  BY DEF PublicationInv, NoticesAreFinal
<1>4. step'[Request] = "done" <=> (w = Request \/ step[Request] = "done")
  BY EndStep
<1>5. w = Request => step[Request] # "done"
  BY EndStep
<1>6. "posted" \in told' =>
          publishState' = "published" /\ step'[Request] = "done" /\ "undeliverable" \notin told'
  BY <1>2, <1>3, <1>4, <1>5 DEF PublicationInv, NoticesAreFinal
<1>7. "undeliverable" \in told' =>
          step'[Request] = "done" \/ (Closed' /\ \A v \in Publishers : ~Working(v)')
  BY <1>1, <1>2, <1>3, <1>4
<1> QED BY <1>6, <1>7 DEF NoticesAreFinal

\* An attempt that ends leaves nobody at work, and with that the lease is nobody's.
LEMMA AttemptEnds ==
    ASSUME TypeOK', \A v \in Publishers : ~Working(v)',
           EnvelopesAreAccounted', NoticesAreFinal'
    PROVE  PublicationInv'
  BY DEF PublicationInv, PublishExclusive, PublishersHoldTheRow

\* The end of an attempt, whatever the publisher did last.
LEMMA OutcomeStep ==
    ASSUME PublicationInv, TypeOK', NEW w \in Publishers,
           \/ LookupFailed(w) \/ MarkRetry(w) \/ MarkRejected(w) \/ OutcomeRefused(w) \/ PublisherLost(w)
           \/ MarkPublished(w) /\ EndAttempt(w, Answer(w, "posted"))
    PROVE  PublicationInv'
<1>1. Working(w)
  BY DEF LookupFailed, MarkRetry, MarkRejected, OutcomeRefused, PublisherLost, MarkPublished, Working
<1>2. PICK notices \in SUBSET Notices :
          /\ EndAttempt(w, notices)
          /\ envelopes' = envelopes
          /\ losses' = losses \/ losses' = losses + 1
          /\ losses' = losses /\ step[w] = "completing" => Closed'
          /\ Closed => Closed'
          /\ publishState = "published" => publishState' = "published"
          /\ "posted" \in notices => w = Request /\ publishState' = "published"
          /\ "undeliverable" \in notices => Closed' /\ "posted" \notin notices /\ publishState # "published"
  <2>1. CASE LookupFailed(w)
    <3>1. Answer(w, "queued") \in SUBSET Notices /\ {"posted", "undeliverable"} \intersect Answer(w, "queued") = {}
      BY DEF Answer, Notices
    <3> QED BY <2>1, <3>1 DEF LookupFailed, column, history, Closed, Over, Expired
  <2>2. CASE MarkRetry(w)
    <3>1. Answer(w, "queued") \in SUBSET Notices /\ {"posted", "undeliverable"} \intersect Answer(w, "queued") = {}
      BY DEF Answer, Notices
    <3> QED BY <2>2, <3>1 DEF MarkRetry, HoldsLease, SetColumn, history, Closed, Over, Expired
  <2>3. CASE MarkRejected(w)
    <3> DEFINE n == Rejection(w) \union Answer(w, "queued")
    <3>1. n \in SUBSET Notices /\ "posted" \notin n
      BY DEF Answer, Rejection, Notices
    <3>2. Closed'
      BY <2>3 DEF MarkRejected, SetColumn, Closed
    <3> QED BY <2>3, <3>1, <3>2 DEF MarkRejected, HoldsLease, history
  <2>4. CASE OutcomeRefused(w)
    <3> DEFINE n == Rejection(w) \union Answer(w, "queued")
    <3>1. n \in SUBSET Notices /\ "posted" \notin n
      BY DEF Answer, Rejection, Notices
    <3>2. "undeliverable" \in n => step[w] # "completing"
      BY DEF Answer, Rejection
    <3>3. Closed /\ (publishState = "published" => step[w] = "completing")
      BY <1>1, <2>4 DEF OutcomeRefused, HoldsLease, PublicationInv, PublishersHoldTheRow, Closed, Over
    <3>4. Closed'
      BY <2>4, <3>3 DEF OutcomeRefused, column, Closed, Over, Expired
    <3> QED BY <2>4, <3>1, <3>2, <3>3, <3>4 DEF OutcomeRefused, column, history
  <2>5. CASE PublisherLost(w)
    <3>1. PICK n \in SUBSET Notices : EndAttempt(w, n) /\ "posted" \notin n /\ "undeliverable" \notin n
      BY <2>5 DEF PublisherLost, Notices
    <3> QED BY <2>5, <3>1 DEF PublisherLost, column, Closed, Over, Expired, PublicationInv, TypeOK
  <2>6. CASE MarkPublished(w) /\ EndAttempt(w, Answer(w, "posted"))
    <3>1. /\ Answer(w, "posted") \in SUBSET Notices
          /\ "undeliverable" \notin Answer(w, "posted")
          /\ "posted" \in Answer(w, "posted") => w = Request
      BY DEF Answer, Notices
    <3> QED BY <2>6, <3>1 DEF MarkPublished, SetColumn, history, Closed
  <2> QED BY <2>1, <2>2, <2>3, <2>4, <2>5, <2>6
<1>3. \A v \in Publishers : ~Working(v)'
  BY <1>1, <1>2, EndStep
<1>4. EnvelopesAreAccounted'
  BY <1>1, <1>2, <1>3, EndAccounts
<1>5. NoticesAreFinal'
  BY <1>1, <1>2, EndNotices
<1> QED BY <1>3, <1>4, <1>5, AttemptEnds

\* A request to Telegram leaves the row as it is; an envelope is new only if all
\* before it are lost.
LEMMA SendStep ==
    ASSUME PublicationInv, TypeOK', NEW w \in Publishers,
           EnvelopeAccepted(w) \/ EnvelopeRefused(w)
    PROVE  PublicationInv'
<1>1. /\ step[w] = "claimed" /\ Working(w)
      /\ UNCHANGED <<clock, expiresAt, status, publishState, publishLease, held, cutoff, told>>
  BY DEF EnvelopeAccepted, EnvelopeRefused, Working, column, history
<1>2. PICK next \in {"completing", "retrying", "rejected"} : step' = [step EXCEPT ![w] = next]
  BY DEF EnvelopeAccepted, EnvelopeRefused
<1>3. \A v \in Publishers : v # w => ~Working(v)
  BY <1>1, OthersRest
<1>4. \A v \in Publishers : Working(v)' => v = w
  BY <1>2, <1>3 DEF Working, PublicationInv, TypeOK
<1>5. publishState # "published"
  BY <1>1 DEF PublicationInv, PublishersHoldTheRow
<1>6. PublishExclusive'
  BY <1>4 DEF PublishExclusive
<1>7. PublishersHoldTheRow'
  BY <1>1, <1>4, <1>5 DEF PublicationInv, PublishersHoldTheRow, Over, Expired
<1>8. EnvelopesAreAccounted'
  <2>1. envelopes <= losses /\ envelopes \in Nat /\ losses \in Nat
    BY <1>1 DEF PublicationInv, EnvelopesAreAccounted, TypeOK
  <2>2. step'[w] = next
    BY <1>2 DEF PublicationInv, TypeOK
  <2>3. CASE EnvelopeRefused(w)
    BY <2>1, <2>3 DEF EnvelopeRefused, history, EnvelopesAreAccounted
  <2>4. CASE EnvelopeAccepted(w) /\ losses' = losses
    <3>1. step'[w] = "completing"
      BY <2>1, <2>4, <1>1 DEF EnvelopeAccepted, PublicationInv, TypeOK
    <3>2. envelopes' = envelopes + 1
      BY <2>4 DEF EnvelopeAccepted
    <3> QED BY <1>4, <2>1, <2>4, <3>1, <3>2 DEF EnvelopesAreAccounted
  <2>5. CASE EnvelopeAccepted(w) /\ losses' = losses + 1
    <3>1. envelopes' = envelopes + 1
      BY <2>5 DEF EnvelopeAccepted
    <3> QED BY <2>1, <2>5, <3>1 DEF EnvelopesAreAccounted
  <2> QED BY <2>3, <2>4, <2>5 DEF EnvelopeAccepted
<1>9. NoticesAreFinal'
  <2>1. "posted" \notin told
    BY <1>5 DEF PublicationInv, NoticesAreFinal
  <2>2. "undeliverable" \in told => step[Request] = "done"
    BY <1>1 DEF PublicationInv, NoticesAreFinal
  <2>3. step[Request] = "done" => step'[Request] = "done"
    BY <1>1, <1>2 DEF PublicationInv, TypeOK
  <2> QED BY <1>1, <2>1, <2>2, <2>3 DEF NoticesAreFinal
<1> QED BY <1>6, <1>7, <1>8, <1>9 DEF PublicationInv

\* Publication recorded, the answer of PostgreSQL lost: the row is published by
\* the publisher that is still at work.
LEMMA RecordedUnheard ==
    ASSUME PublicationInv, TypeOK', NEW w \in Publishers, MarkPublished(w), UNCHANGED publishers
    PROVE  PublicationInv'
<1>1. /\ Working(w) /\ step[w] = "completing"
      /\ publishState = "publishing" /\ publishState' = "published"
      /\ UNCHANGED <<clock, expiresAt, status, step, held, cutoff, told, envelopes, losses>>
  BY DEF MarkPublished, HoldsLease, SetColumn, Working, publishers, history
<1>2. \A v \in Publishers : v # w => ~Working(v)
  BY <1>1, OthersRest
<1>3. PublishExclusive'
  BY <1>1 DEF PublicationInv, PublishExclusive, Working
<1>4. PublishersHoldTheRow'
  BY <1>1, <1>2 DEF PublicationInv, PublishersHoldTheRow, Working
<1>5. EnvelopesAreAccounted'
  BY <1>1 DEF PublicationInv, EnvelopesAreAccounted, Working, Closed
<1>6. NoticesAreFinal'
  BY <1>1 DEF PublicationInv, NoticesAreFinal, Closed
<1> QED BY <1>3, <1>4, <1>5, <1>6 DEF PublicationInv

\* ClaimPublish finds the row taken or over, and the request ends.
LEMMA RefusedStep ==
    ASSUME PublicationInv, TypeOK', RequestRefused
    PROVE  PublicationInv'
<1>1. /\ step[Request] = "idle"
      /\ step' = [step EXCEPT ![Request] = "done"]
      /\ held' = [held EXCEPT ![Request] = 0] /\ cutoff' = [cutoff EXCEPT ![Request] = 0]
      /\ told' = told \union {"undeliverable"}
      /\ UNCHANGED <<clock, expiresAt, status, publishState, publishLease, envelopes, losses>>
  BY DEF RequestRefused, EndAttempt, column, history
<1>2. \A v \in Publishers : /\ Working(v)' <=> Working(v)
                            /\ Working(v) => v # Request /\ step'[v] = step[v]
                            /\ step'[v] = "completing" <=> step[v] = "completing"
  BY <1>1 DEF Working, PublicationInv, TypeOK
<1>3. PublishExclusive'
  BY <1>2 DEF PublicationInv, PublishExclusive
<1>4. PublishersHoldTheRow'
  BY <1>1, <1>2 DEF PublicationInv, TypeOK, PublishersHoldTheRow, Over, Expired
<1>5. EnvelopesAreAccounted'
  BY <1>1, <1>2 DEF PublicationInv, EnvelopesAreAccounted, Closed, Over, Expired
<1>6. NoticesAreFinal'
  <2>1. "posted" \notin told
    BY <1>1 DEF PublicationInv, NoticesAreFinal
  <2>2. step'[Request] = "done"
    BY <1>1 DEF PublicationInv, TypeOK, Publishers
  <2> QED BY <1>1, <2>1, <2>2 DEF NoticesAreFinal
<1> QED BY <1>3, <1>4, <1>5, <1>6 DEF PublicationInv

\* What leaves the publishers alone keeps their properties, if a row that is over
\* stays so, and a lease that its publisher may still need is not taken.
LEMMA RowStep ==
    ASSUME PublicationInv, TypeOK', UNCHANGED <<step, held, cutoff, told, envelopes, losses>>,
           Closed => Closed', Over => Over',
           publishState = "published" <=> publishState' = "published",
           \A w \in Publishers : Working(w) =>
               /\ clock' <= cutoff[w]
               /\ Over' \/ (publishState' = publishState /\ publishLease' = publishLease)
    PROVE  PublicationInv'
<1>1. \A w \in Publishers : Working(w)' <=> Working(w)
  BY DEF Working
<1>2. PublishExclusive'
  BY <1>1 DEF PublicationInv, PublishExclusive
<1>3. PublishersHoldTheRow'
  BY <1>1 DEF PublicationInv, PublishersHoldTheRow
<1>4. EnvelopesAreAccounted'
  BY <1>1 DEF PublicationInv, EnvelopesAreAccounted
<1>5. NoticesAreFinal'
  BY <1>1 DEF PublicationInv, NoticesAreFinal
<1> QED BY <1>2, <1>3, <1>4, <1>5 DEF PublicationInv

\* A lease that is swept is over, and with it its publisher.
LEMMA SweepStep ==
    ASSUME PublicationInv, TypeOK', SweepExpired \/ SweepPublishLease
    PROVE  PublicationInv'
<1>1. UNCHANGED <<clock, expiresAt, step, held, cutoff, told, envelopes, losses>>
  BY DEF SweepExpired, SweepPublishLease, publishers, history
<1>2. \A w \in Publishers : Working(w) => clock <= cutoff[w]
  BY DEF PublicationInv, PublishersHoldTheRow
<1>3. CASE SweepExpired
  <2>1. Over' /\ Closed'
    BY <1>3 DEF SweepExpired, Over, Closed
  <2>2. publishState = "published" <=> publishState' = "published"
    BY <1>3 DEF SweepExpired, SetColumn
  <2> QED BY <1>1, <1>2, <2>1, <2>2, RowStep
<1>4. CASE SweepPublishLease
  <2>1. /\ publishState = "publishing" /\ publishState' = "retry_wait"
        /\ publishLease <= clock /\ ~Over /\ ~Closed
    BY <1>4 DEF SweepPublishLease, SetColumn, Over, Closed
  <2>2. \A w \in Publishers : ~Working(w)
    BY <2>1 DEF PublicationInv, TypeOK, PublishersHoldTheRow
  <2> QED BY <1>1, <2>1, <2>2, RowStep
<1> QED BY <1>3, <1>4

\* The removal of the row, and what presses make of it.
LEMMA RowGoesStep ==
    ASSUME PublicationInv, TypeOK', DeleteRow \/ Press
    PROVE  PublicationInv'
<1>1. UNCHANGED <<clock, expiresAt, publishState, publishLease, step, held, cutoff, told, envelopes, losses>>
  BY DEF DeleteRow, Press, column, publishers, history
<1>2. \A w \in Publishers : Working(w) => clock <= cutoff[w]
  BY DEF PublicationInv, PublishersHoldTheRow
<1>3. Over => Over'
  BY <1>1 DEF DeleteRow, Press, Over, Expired
<1>4. Closed => Closed'
  BY <1>1, <1>3 DEF Closed
<1> QED BY <1>1, <1>2, <1>3, <1>4, RowStep

\* Time does not pass the end of a publisher's contexts.
LEMMA TickStep ==
    ASSUME PublicationInv, TypeOK', Tick
    PROVE  PublicationInv'
<1>1. /\ clock' = clock + 1
      /\ UNCHANGED <<expiresAt, status, publishState, publishLease, step, held, cutoff, told, envelopes, losses>>
  BY DEF Tick, column, publishers, history
<1>2. \A w \in Publishers : Working(w) => clock' <= cutoff[w]
  BY DEF Tick, PublicationInv, TypeOK
<1>3. Over => Over'
  BY <1>1, PublicationAssumption DEF Over, Expired, PublicationInv, TypeOK, PublicationAssumption
<1>4. Closed => Closed'
  BY <1>1, <1>3 DEF Closed
<1> QED BY <1>1, <1>2, <1>3, <1>4, RowStep

----------------------------------------------------------------------------
\* The invariant that ties leases, envelopes and notices together is inductive.
THEOREM Inductive == Spec => []PublicationInv
<1>1. PublicationInv /\ [Next]_vars => PublicationInv'
  <2> SUFFICES ASSUME PublicationInv, [Next]_vars PROVE PublicationInv'
    OBVIOUS
  <2>1. TypeOK'
    BY TypeStep DEF PublicationInv
  <2>2. ASSUME NEW w \in Publishers, Claim(w) PROVE PublicationInv'
    BY <2>2, ClaimStep
  <2>3. ASSUME NEW w \in Publishers, EnvelopeAccepted(w) \/ EnvelopeRefused(w) PROVE PublicationInv'
    BY <2>1, <2>3, SendStep
  <2>4. ASSUME NEW w \in Publishers, MarkPublished(w) PROVE PublicationInv'
    BY <2>1, <2>4, OutcomeStep, RecordedUnheard DEF MarkPublished
  <2>5. ASSUME NEW w \in Publishers,
               LookupFailed(w) \/ MarkRetry(w) \/ MarkRejected(w) \/ OutcomeRefused(w) \/ PublisherLost(w)
        PROVE  PublicationInv'
    BY <2>1, <2>5, OutcomeStep
  <2>6. CASE RequestRefused
    BY <2>1, <2>6, RefusedStep
  <2>7. CASE SweepExpired \/ SweepPublishLease
    BY <2>1, <2>7, SweepStep
  <2>8. CASE DeleteRow \/ Press
    BY <2>1, <2>8, RowGoesStep
  <2>9. CASE Tick
    BY <2>1, <2>9, TickStep
  <2>10. CASE UNCHANGED vars
    BY <2>1, <2>10, RowStep DEF vars, column, publishers, history, Closed, Over, Expired,
       PublicationInv, PublishersHoldTheRow
  <2> QED BY <2>2, <2>3, <2>4, <2>5, <2>6, <2>7, <2>8, <2>9, <2>10 DEF Next, Attempt, Cleanup, SweepRetained
<1> QED BY InvInit, <1>1, PTL DEF Spec

\* Two publishers never post the envelope at the same time, whatever their number,
\* if an attempt ends before its lease (config.go, PUBLISH_LEASE_TIMEOUT).
THEOREM Exclusive == Spec => []PublishExclusive
<1>1. PublicationInv => PublishExclusive
  BY DEF PublicationInv
<1> QED BY Inductive, <1>1, PTL

\* A second envelope is due to a publisher that died or missed Telegram's reply.
THEOREM Single == Spec => []OneEnvelope
<1>1. PublicationInv => OneEnvelope
  BY DEF PublicationInv, EnvelopesAreAccounted, OneEnvelope
<1> QED BY Inductive, <1>1, PTL

\* What the sender reads of the publication is so, whoever writes to him.
THEOREM Truthful == Spec => []PostedIsTrue
<1>1. PublicationInv => PostedIsTrue
  BY DEF PublicationInv, NoticesAreFinal, PostedIsTrue
<1> QED BY Inductive, <1>1, PTL


----------------------------------------------------------------------------
(* One delivery                                                            *)

\* An envelope is lost only after it was accepted, and not while its publisher knows of it.
LossesAreReal ==
    /\ losses <= envelopes
    /\ \A w \in Publishers : step[w] = "completing" => losses < envelopes

\* A publisher at work has the row, or has recorded its envelope, or the whisper is over;
\* the deadline alone takes nothing from it.
RowIsKept ==
    \A w \in Publishers : Working(w) =>
        \/ publishState = "publishing" /\ publishLease = held[w]
        \/ publishState = "published"
        \/ status \in {"expired", "deleted"}

\* A single publisher at work is the sender.
LEMMA OneSender ==
  ASSUME NEW at, NEW w \in Publishers,
         \A v \in Publishers : v # w => at[v] \notin {"claimed", "completing", "retrying", "rejected"}
  PROVE  SenderAmong(at) = IF at[w] = "claimed" THEN "sending"
                           ELSE IF at[w] = "completing" THEN "sent"
                           ELSE IF at[w] \in {"retrying", "rejected"} THEN "failed" ELSE "nobody"
  BY DEF SenderAmong

\* Without one, nobody is.
LEMMA NoSender ==
  ASSUME NEW at, \A v \in Publishers : at[v] \notin {"claimed", "completing", "retrying", "rejected"}
  PROVE  SenderAmong(at) = "nobody"
  BY DEF SenderAmong

\* The steps of a publisher leave the others where they are.
LEMMA AloneStep ==
  ASSUME PublicationInv, NEW w \in Publishers, Attempt(w)
  PROVE  /\ Working(w) /\ \A v \in Publishers : v # w => ~Working(v) /\ step'[v] = step[v] /\ held'[v] = held[v]
         /\ SenderAmong(step) = IF step[w] = "claimed" THEN "sending"
                                ELSE IF step[w] = "completing" THEN "sent" ELSE "failed"
         /\ SenderAmong(step') = IF step'[w] = "claimed" THEN "sending"
                                 ELSE IF step'[w] = "completing" THEN "sent"
                                 ELSE IF step'[w] \in {"retrying", "rejected"} THEN "failed" ELSE "nobody"
<1>1. Working(w)
  BY DEF Attempt, LookupFailed, EnvelopeAccepted, EnvelopeRefused, MarkPublished, MarkRetry, MarkRejected,
     OutcomeRefused, PublisherLost, Working
<1>2. \A v \in Publishers : v # w => ~Working(v)
  BY <1>1, OthersRest
<1>3. \A v \in Publishers : v # w => step'[v] = step[v] /\ held'[v] = held[v]
  BY DEF Attempt, LookupFailed, EnvelopeAccepted, EnvelopeRefused, MarkPublished, MarkRetry, MarkRejected,
     OutcomeRefused, PublisherLost, EndAttempt, publishers, PublicationInv, TypeOK
<1>4. SenderAmong(step) = IF step[w] = "claimed" THEN "sending"
                          ELSE IF step[w] = "completing" THEN "sent" ELSE "failed"
  BY <1>1, <1>2, OneSender DEF Working
<1>5. SenderAmong(step') = IF step'[w] = "claimed" THEN "sending"
                           ELSE IF step'[w] = "completing" THEN "sent"
                           ELSE IF step'[w] \in {"retrying", "rejected"} THEN "failed" ELSE "nobody"
  BY <1>2, <1>3, OneSender DEF Working
<1> QED BY <1>1, <1>2, <1>3, <1>4, <1>5

\* No step loses an envelope that is not there.
LEMMA LossesStep ==
  ASSUME PublicationInv, LossesAreReal, [Next]_vars
  PROVE  LossesAreReal'
<1> USE DEF LossesAreReal
<1>1. ASSUME NEW w \in Publishers, Attempt(w) PROVE LossesAreReal'
  <2>1. \A v \in Publishers : v # w => ~Working(v) /\ step'[v] = step[v]
    BY <1>1, AloneStep
  <2>2. CASE EnvelopeAccepted(w)
    <3>1. \/ envelopes' = envelopes + 1 /\ losses' = losses
          \/ envelopes' = envelopes + 1 /\ losses' = losses + 1 /\ step'[w] = "retrying"
      BY <2>2 DEF EnvelopeAccepted, PublicationInv, TypeOK
    <3> QED BY <2>1, <3>1 DEF Working, PublicationInv, TypeOK
  <2>3. CASE PublisherLost(w)
    <3>1. step'[w] # "completing" /\ envelopes' = envelopes
          /\ losses' = IF step[w] = "completing" THEN losses + 1 ELSE losses
      BY <2>3 DEF PublisherLost, EndAttempt, PublicationInv, TypeOK
    <3> QED BY <2>1, <3>1 DEF Working, PublicationInv, TypeOK
  <2>4. CASE ~EnvelopeAccepted(w) /\ ~PublisherLost(w)
    <3>1. UNCHANGED <<envelopes, losses>> /\ (step'[w] = "completing" => step[w] = "completing")
      BY <1>1, <2>4 DEF Attempt, LookupFailed, EnvelopeRefused, MarkPublished, MarkRetry, MarkRejected,
         OutcomeRefused, EndAttempt, publishers, history, PublicationInv, TypeOK
    <3> QED BY <2>1, <3>1
  <2> QED BY <2>2, <2>3, <2>4
<1>2. ASSUME NEW w \in Publishers, Claim(w) PROVE LossesAreReal'
  BY <1>2 DEF Claim, history, PublicationInv, TypeOK
<1>3. CASE RequestRefused
  BY <1>3 DEF RequestRefused, EndAttempt, history, PublicationInv, TypeOK
<1>4. CASE Cleanup \/ DeleteRow \/ Press \/ Tick \/ UNCHANGED vars
  BY <1>4 DEF Cleanup, SweepExpired, SweepPublishLease, SweepRetained, DeleteRow, Press, Tick, publishers, history,
     vars
<1> QED BY <1>1, <1>2, <1>3, <1>4 DEF Next

\* No step takes the row from a publisher at work, but the end of the whisper.
LEMMA RowStays ==
  ASSUME PublicationInv, RowIsKept, [Next]_vars
  PROVE  RowIsKept'
<1> USE DEF RowIsKept
<1>1. ASSUME NEW w \in Publishers, Attempt(w) PROVE RowIsKept'
  <2>1. /\ Working(w) /\ \A v \in Publishers : v # w => ~Working(v)'
    BY <1>1, AloneStep DEF Working
  <2>2. CASE Working(w)'
    <3>1. CASE EnvelopeAccepted(w) \/ EnvelopeRefused(w)
      BY <2>1, <3>1 DEF EnvelopeAccepted, EnvelopeRefused, column
    <3>2. CASE MarkPublished(w)
      BY <2>1, <3>2 DEF MarkPublished, SetColumn
    <3>3. CASE ~EnvelopeAccepted(w) /\ ~EnvelopeRefused(w) /\ ~MarkPublished(w)
      BY <1>1, <2>2, <3>3 DEF Attempt, LookupFailed, MarkRetry, MarkRejected, OutcomeRefused, PublisherLost,
         EndAttempt, Working, PublicationInv, TypeOK
    <3> QED BY <3>1, <3>2, <3>3
  <2>3. CASE ~Working(w)'
    BY <2>1, <2>3
  <2> QED BY <2>2, <2>3
<1>2. ASSUME NEW w \in Publishers, Claim(w) PROVE RowIsKept'
  <2>1. \A v \in Publishers : ~Working(v)
    BY <1>2 DEF PublicationInv, PublishersHoldTheRow, Claim, Claimable, Over
  <2> QED BY <1>2, <2>1 DEF Claim, SetColumn, Working, PublicationInv, TypeOK
<1>3. CASE RequestRefused
  BY <1>3 DEF RequestRefused, EndAttempt, Working, column, PublicationInv, TypeOK
<1>4. CASE SweepPublishLease
  <2>1. ASSUME NEW w \in Publishers, Working(w) PROVE FALSE
    BY <1>4, <2>1, PublicationAssumption DEF PublicationAssumption, SweepPublishLease, PublicationInv,
       PublishersHoldTheRow, TypeOK
  <2> QED BY <1>4, <2>1 DEF SweepPublishLease, publishers, Working
<1>5. CASE SweepExpired \/ DeleteRow \/ Press \/ Tick \/ UNCHANGED vars
  BY <1>5 DEF SweepExpired, DeleteRow, Press, Tick, SetColumn, Working, column, publishers, vars
<1> QED BY <1>1, <1>2, <1>3, <1>4, <1>5 DEF Next, Cleanup, SweepRetained

\* A claim admits its publisher.
LEMMA ClaimDelivers ==
  ASSUME PublicationInv, NEW w \in Publishers, Claim(w)
  PROVE  Promise!Next
<1>1. ~Closed /\ status = "active" /\ publishState \in {"pending", "retry_wait"}
  BY DEF Claim, Claimable, Closed, Over
<1>2. \A v \in Publishers : ~Working(v)
  BY <1>1 DEF PublicationInv, PublishersHoldTheRow, Closed
<1>3. SenderAmong(step) = "nobody"
  BY <1>2, NoSender DEF Working
<1>4. SenderAmong(step') = "sending"
  <2>1. step'[w] = "claimed" /\ \A v \in Publishers : v # w => step'[v] = step[v]
    BY DEF Claim, PublicationInv, TypeOK
  <2> QED BY <1>2, <2>1, OneSender DEF Working
<1>5. 1..envelopes \subseteq 1..losses
  BY <1>1, <1>2 DEF PublicationInv, EnvelopesAreAccounted, Working, TypeOK
<1>6. RecordOf(status, publishState) = "open" /\ RecordOf(status', publishState') = "open"
  BY <1>1 DEF Claim, SetColumn, RecordOf
<1> QED BY <1>3, <1>4, <1>5, <1>6 DEF Promise!Next, Promise!Admit, Claim, history

\* What Telegram does with the envelope.
LEMMA SendDelivers ==
  ASSUME PublicationInv, LossesAreReal, NEW w \in Publishers, EnvelopeAccepted(w) \/ EnvelopeRefused(w)
  PROVE  Promise!Next
<1>1. step[w] = "claimed" /\ Attempt(w) /\ UNCHANGED <<status, publishState>>
  BY DEF EnvelopeAccepted, EnvelopeRefused, Attempt, column
<1>2. SenderAmong(step) = "sending"
  BY <1>1, AloneStep
<1>3. CASE EnvelopeAccepted(w)
  <2>1. envelopes' = envelopes + 1 /\ envelopes = losses /\ envelopes \in Nat
    BY <1>1, <1>3 DEF EnvelopeAccepted, LossesAreReal, PublicationInv, EnvelopesAreAccounted, TypeOK, Working
  <2>2. 1..envelopes' = (1..envelopes) \union {envelopes + 1} /\ envelopes + 1 \notin 1..envelopes
    BY <2>1
  <2>3. CASE step'[w] = "completing" /\ losses' = losses
    <3>1. SenderAmong(step') = "sent"
      BY <1>1, <2>3, AloneStep
    <3> QED BY <1>1, <1>2, <2>2, <2>3, <3>1 DEF Promise!Next, Promise!Send
  <2>4. CASE step'[w] = "retrying" /\ losses' = losses + 1
    <3>1. SenderAmong(step') = "failed"
      BY <1>1, <2>4, AloneStep
    <3>2. 1..losses' = (1..losses) \union ((1..envelopes') \ (1..envelopes))
      BY <2>1, <2>4
    <3> QED BY <1>1, <1>2, <2>2, <3>1, <3>2 DEF Promise!Next, Promise!Send
  <2> QED BY <1>3, <2>3, <2>4 DEF EnvelopeAccepted, PublicationInv, TypeOK
<1>4. CASE EnvelopeRefused(w)
  <2>1. SenderAmong(step') = "failed"
    <3>1. step'[w] \in {"retrying", "rejected"}
      BY <1>4 DEF EnvelopeRefused, PublicationInv, TypeOK
    <3> QED BY <1>1, <3>1, AloneStep
  <2> QED BY <1>1, <1>2, <1>4, <2>1 DEF EnvelopeRefused, history, Promise!Next, Promise!NotSent
<1> QED BY <1>3, <1>4

\* MarkPublished is the record, heard of or not.
LEMMA RecordDelivers ==
  ASSUME PublicationInv, NEW w \in Publishers, MarkPublished(w)
  PROVE  Promise!Next
<1>1. step[w] = "completing" /\ Attempt(w) /\ UNCHANGED <<status, envelopes, losses>>
  BY DEF MarkPublished, Attempt, history
<1>2. SenderAmong(step) = "sent"
  BY <1>1, AloneStep
<1>3. SenderAmong(step') \in {"sent", "nobody"}
  <2>1. step'[w] \in {"idle", "done", "completing"}
    BY <1>1 DEF MarkPublished, EndAttempt, publishers, PublicationInv, TypeOK
  <2> QED BY <1>1, <2>1, AloneStep
<1>4. RecordOf(status, publishState) # "made" /\ RecordOf(status', publishState') = "made"
  BY <1>1 DEF MarkPublished, HoldsLease, SetColumn, RecordOf
<1> QED BY <1>1, <1>2, <1>3, <1>4 DEF Promise!Next, Promise!Record

\* Every other end of an attempt: the sender leaves, and takes with him what he alone
\* knew of, unless nothing is to be recorded any more.
LEMMA EndDelivers ==
  ASSUME PublicationInv, LossesAreReal, RowIsKept, NEW w \in Publishers,
         LookupFailed(w) \/ MarkRetry(w) \/ MarkRejected(w) \/ OutcomeRefused(w) \/ PublisherLost(w)
  PROVE  Promise!Next
<1>1. Attempt(w) /\ Working(w) /\ UNCHANGED <<status, envelopes>>
  BY DEF LookupFailed, MarkRetry, MarkRejected, OutcomeRefused, PublisherLost, Attempt, Working, history
<1>2. SenderAmong(step) # "nobody" /\ SenderAmong(step') = "nobody"
  <2>1. step'[w] \in {"idle", "done"}
    BY DEF LookupFailed, MarkRetry, MarkRejected, OutcomeRefused, PublisherLost, EndAttempt, PublicationInv, TypeOK
  <2> QED BY <1>1, <2>1, AloneStep
<1>3. SenderAmong(step) = "sent" <=> step[w] = "completing"
  BY <1>1, AloneStep
<1>4. CASE LookupFailed(w) \/ MarkRetry(w)
  <2>1. RecordOf(status', publishState') = RecordOf(status, publishState)
    BY <1>1, <1>4 DEF LookupFailed, MarkRetry, HoldsLease, SetColumn, column, RecordOf
  <2> QED BY <1>1, <1>2, <1>3, <1>4, <2>1 DEF LookupFailed, MarkRetry, history, Promise!Next, Promise!Leave
<1>5. CASE MarkRejected(w)
  <2>1. SenderAmong(step) = "failed"
    BY <1>1, <1>5, AloneStep DEF MarkRejected
  <2>2. RecordOf(status, publishState) \in {"open", "closed"} /\ RecordOf(status', publishState') = "closed"
    BY <1>1, <1>5 DEF MarkRejected, HoldsLease, SetColumn, RecordOf
  <2> QED BY <1>1, <1>2, <1>5, <2>1, <2>2 DEF MarkRejected, history, Promise!Next, Promise!Leave
<1>6. CASE OutcomeRefused(w)
  <2>1. RecordOf(status, publishState) # "open"
    BY <1>1, <1>6 DEF OutcomeRefused, HoldsLease, RowIsKept, RecordOf
  <2> QED BY <1>1, <1>2, <1>6, <2>1 DEF OutcomeRefused, column, history, Promise!Next, Promise!Leave
<1>7. CASE PublisherLost(w)
  <2>1. UNCHANGED publishState
    BY <1>7 DEF PublisherLost, column
  <2>2. CASE step[w] = "completing"
    <3>1. losses' = envelopes
      BY <1>7, <2>2 DEF PublisherLost, LossesAreReal, PublicationInv, EnvelopesAreAccounted, TypeOK
    <3> QED BY <1>1, <1>2, <2>1, <3>1 DEF Promise!Next, Promise!Leave
  <2>3. CASE step[w] # "completing"
    <3>1. losses' = losses
      BY <1>7, <2>3 DEF PublisherLost
    <3> QED BY <1>1, <1>2, <1>3, <2>1, <2>3, <3>1 DEF Promise!Next, Promise!Leave
  <2> QED BY <2>2, <2>3
<1> QED BY <1>4, <1>5, <1>6, <1>7

\* The publishers implement one delivery, whatever their number, the timing and the faults:
\* a second envelope follows only those that nobody can record any more (publish.go).
THEOREM OneDeliveryImplemented == Spec => DeliversOnce
<1>1. Init => Promise!Init
  <2>1. ASSUME Init PROVE SenderAmong(step) = "nobody" /\ RecordOf(status, publishState) = "open"
    BY <2>1, NoSender DEF Init, RecordOf
  <2> QED BY <2>1 DEF Init, Promise!Init
<1>2. Init => LossesAreReal /\ RowIsKept
  BY DEF Init, LossesAreReal, RowIsKept, Working
<1>3. PublicationInv /\ LossesAreReal /\ RowIsKept /\ [Next]_vars => (LossesAreReal /\ RowIsKept)'
  BY LossesStep, RowStays
<1>4. ASSUME PublicationInv, LossesAreReal, RowIsKept, [Next]_vars PROVE [Promise!Next]_(Promise!vars)
  <2>1. ASSUME NEW w \in Publishers, Claim(w) \/ Attempt(w) PROVE Promise!Next
    BY <1>4, <2>1, ClaimDelivers, SendDelivers, RecordDelivers, EndDelivers DEF Attempt
  <2>2. CASE RequestRefused
    <3>1. SenderAmong(step') = SenderAmong(step)
      BY <1>4, <2>2 DEF RequestRefused, EndAttempt, SenderAmong, PublicationInv, TypeOK
    <3> QED BY <2>2, <3>1 DEF RequestRefused, column, history, Promise!vars
  <2>3. CASE Cleanup \/ DeleteRow \/ Press \/ Tick \/ UNCHANGED vars
    <3>1. UNCHANGED <<step, envelopes, losses>>
      BY <2>3 DEF Cleanup, SweepExpired, SweepPublishLease, SweepRetained, DeleteRow, Press, Tick, publishers,
         history, vars
    <3>2. \/ RecordOf(status', publishState') = RecordOf(status, publishState)
          \/ RecordOf(status, publishState) # "closed" /\ RecordOf(status', publishState') = "closed"
      BY <2>3 DEF Cleanup, SweepExpired, SweepPublishLease, SweepRetained, DeleteRow, Press, Tick, SetColumn,
         column, vars, RecordOf
    <3> QED BY <3>1, <3>2 DEF Promise!Next, Promise!Close, Promise!vars
  <2> QED BY <1>4, <2>1, <2>2, <2>3 DEF Next
<1> QED BY <1>1, <1>2, <1>3, <1>4, Inductive, PTL DEF Spec, DeliversOnce, Promise!Spec
=============================================================================
