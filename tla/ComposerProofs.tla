--------------------------- MODULE ComposerProofs ---------------------------
(***************************************************************************)
(* Proofs about Composer, for any number of messages, drafts and attempts, *)
(* any lease, time to live and window of the rate limit, either transport  *)
(* and every combination of faults.                                        *)
(***************************************************************************)
EXTENDS Composer, FiniteSetTheorems, TLAPS

----------------------------------------------------------------------------
(* The invariant                                                           *)

\* Who ingests a draft names it, and claimed it for a whole lease.
ClaimsAreOnDrafts ==
    \A m \in Messages : pc[m] \in {"claimed", "releasing"} =>
        claim[m].draft \in Drafts /\ IngestLease <= claim[m].lease

\* A handler creates its draft for an instant that has passed.
AskedBefore == \A m \in Messages : askedAt[m] <= clock

\* idx_drafts_sender_active, on which the insert of CreateDraft fails.
OneOpen == \A d, e \in Drafts : Open(d) /\ Open(e) => d = e

\* The sender's advisory lock.
OneCreates == \A m, n \in Messages : Creating(m) /\ Creating(n) => m = n

\* By how much the hour may exceed the maximum.
Excess == IF inOrder THEN 0 ELSE 1

\* While a draft is open the quota still has room for its whisper ...
RoomForTheDraft ==
    (\E d \in Drafts : Open(d)) =>
        /\ Cardinality(Recent \ uncounted) < MaxRecent
        /\ Cardinality(Recent) < MaxRecent + Excess

\* ... as it has for the draft of a handler past its counts, and for the whisper of an
\* expired draft besides as long as that can still be stored.
RoomForTheInsert ==
    (\E m \in Messages : pc[m] = "inserting") =>
        /\ Cardinality(Recent \ uncounted) < MaxRecent
        /\ Cardinality(Recent) < MaxRecent + Excess
        /\ (\E d \in Drafts : Open(d)) => Cardinality(Recent) < MaxRecent

RateInv == RoomForTheDraft /\ RoomForTheInsert /\ RateLimit

\* A message whose handler never failed after a commit is stored at most once, and
\* its handler is past storing it.
StoredOnce ==
    \A m \in Messages \ broken :
        /\ \A d, e \in Drafts : secret[d] = m /\ secret[e] = m => d = e
        /\ guestSecret = m => \A d \in Drafts : secret[d] # m
        /\ guestSecret = m \/ (\E d \in Drafts : secret[d] = m) =>
               pc[m] \in {"stored", "guest_stored", "done"}

\* With polling, a handler runs only once all earlier messages are settled.
HandledInOrder ==
    inOrder => \A m, n \in Messages : n < m /\ pc[m] # "idle" => Settled(n)

\* With polling and a database that answers, a message is tried on the guest request
\* only while no draft is active.
NoDraftForTheGuest ==
    inOrder /\ "database" \notin faults =>
        \A m \in Messages : pc[m] = "to_guest" => ~\E d \in Drafts : Active(d)

TypeInv == TypeOK /\ ClaimsAreOnDrafts

ComposerInv ==
    /\ TypeInv
    /\ StoredIffCompleted
    /\ AskedBefore
    /\ OneOpen
    /\ OneCreates
    /\ RateInv
    /\ StoredOnce
    /\ HandledInOrder
    /\ NoDraftForTheGuest

----------------------------------------------------------------------------
(* Types                                                                   *)

\* The initial state is well typed.
LEMMA TypeInit == Init => TypeInv
<1> SUFFICES ASSUME Init PROVE TypeInv
  OBVIOUS
<1>1. PICK s \in Starts : kind = s.kind /\ inOrder = s.polling /\ guest = s.guest /\ faults = s.faults
  BY DEF Init
<1>2. s \in [kind : [Messages -> Kinds], polling : BOOLEAN, guest : {"none", "awaiting_secret"},
             faults : SUBSET {"crash", "database"}]
  BY ComposerAssumption DEF ComposerAssumption
<1>3. /\ kind \in [Messages -> Kinds] /\ inOrder \in BOOLEAN
      /\ guest \in GuestStates /\ faults \subseteq {"crash", "database"}
  BY <1>1, <1>2 DEF GuestStates
<1> QED
  BY <1>3, ComposerAssumption
     DEF ComposerAssumption, Init, TypeInv, TypeOK, ClaimsAreOnDrafts, States, PCs, NoClaim

\* A handler that moves on keeps its claim only on its way to the release.
LEMMA GotoType ==
    ASSUME TypeInv, NEW m \in Messages, NEW next \in PCs, Goto(m, next),
           next # "claimed", next = "releasing" => pc[m] = "claimed"
    PROVE  /\ pc' \in [Messages -> PCs]
           /\ attempts' \in [Messages -> 0..MaxAttempts]
           /\ askedAt' \in [Messages -> 0..MaxClock]
           /\ claim' \in [Messages -> [draft : 0..MaxDrafts, lease : Nat]]
           /\ ClaimsAreOnDrafts'
<1>1. pc' \in [Messages -> PCs] /\ attempts' \in [Messages -> 0..MaxAttempts]
  BY DEF Goto, TypeInv, TypeOK
<1>2. claim' \in [Messages -> [draft : 0..MaxDrafts, lease : Nat]]
  BY ComposerAssumption DEF ComposerAssumption, Goto, TypeInv, TypeOK, NoClaim
<1>3. ClaimsAreOnDrafts'
  BY DEF Goto, TypeInv, TypeOK, ClaimsAreOnDrafts
<1>4. askedAt' \in [Messages -> 0..MaxClock]
  BY ComposerAssumption DEF ComposerAssumption, Goto, TypeInv, TypeOK
<1> QED BY <1>1, <1>2, <1>3, <1>4

\* The end of a handler is such a move.
LEMMA EndType ==
    ASSUME TypeInv, NEW m \in Messages, End(m)
    PROVE  /\ pc' \in [Messages -> PCs]
           /\ attempts' \in [Messages -> 0..MaxAttempts]
           /\ askedAt' \in [Messages -> 0..MaxClock]
           /\ claim' \in [Messages -> [draft : 0..MaxDrafts, lease : Nat]]
           /\ ClaimsAreOnDrafts'
<1>1. PICK next \in {"done", "idle"} : Goto(m, next)
  BY DEF End
<1> QED BY <1>1, GotoType DEF PCs

\* A statement on a draft leaves well typed rows.
LEMMA SetDraftType ==
    ASSUME TypeInv, NEW d \in Drafts, NEW s \in States, NEW l \in Nat, SetDraft(d, s, l)
    PROVE  /\ state' \in [Drafts -> States]
           /\ expiresAt' \in [Drafts -> Nat] /\ ingestLease' \in [Drafts -> Nat]
           /\ origin' \in [Drafts -> 0..Last]
  BY DEF SetDraft, TypeInv, TypeOK

\* So does CancelLatestDraftForSender.
LEMMA CancelType ==
    ASSUME TypeInv, CancelLatest \/ UNCHANGED drafts
    PROVE  /\ state' \in [Drafts -> States]
           /\ expiresAt' \in [Drafts -> Nat] /\ ingestLease' \in [Drafts -> Nat]
           /\ origin' \in [Drafts -> 0..Last]
<1>1. CASE UNCHANGED drafts
  BY <1>1 DEF drafts, TypeInv, TypeOK
<1>2. ASSUME NEW d \in Drafts, SetDraft(d, "cancelled", 0)
      PROVE  /\ state' \in [Drafts -> States]
             /\ expiresAt' \in [Drafts -> Nat] /\ ingestLease' \in [Drafts -> Nat]
             /\ origin' \in [Drafts -> 0..Last]
  BY <1>2, SetDraftType DEF States
<1> QED BY <1>1, <1>2 DEF CancelLatest

\* Every step keeps the types.
LEMMA TypeStep == TypeInv /\ [Next]_vars => TypeInv'
<1> SUFFICES ASSUME TypeInv, [Next]_vars PROVE TypeInv'
  OBVIOUS
<1> USE DEF input, whispers, request, handlers
<1>1. ASSUME NEW m \in Messages, Start(m) PROVE TypeInv'
  <2>1. attempts[m] + 1 \in 0..MaxAttempts
    BY <1>1, ComposerAssumption DEF ComposerAssumption, Start, TypeInv, TypeOK
  <2> QED BY <1>1, <2>1 DEF Start, drafts, TypeInv, TypeOK, ClaimsAreOnDrafts, PCs
<1>2. ASSUME NEW m \in Messages, CreateDraft(m) PROVE TypeInv'
  <2>1. PICK d \in Drafts :
          /\ state' = [state EXCEPT ![d] = "awaiting"]
          /\ expiresAt' = [expiresAt EXCEPT ![d] = askedAt[m] + DraftTTL]
          /\ origin' = [origin EXCEPT ![d] = m]
    BY <1>2 DEF CreateDraft
  <2>2. askedAt[m] + DraftTTL \in Nat /\ m \in 0..Last
    BY ComposerAssumption DEF ComposerAssumption, TypeInv, TypeOK, Messages
  <2>3. /\ state' \in [Drafts -> States] /\ expiresAt' \in [Drafts -> Nat]
        /\ origin' \in [Drafts -> 0..Last]
    BY <2>1, <2>2 DEF TypeInv, TypeOK, States
  <2>4. Goto(m, "prompting")
    BY <1>2 DEF CreateDraft
  <2> QED BY <1>2, <2>3, <2>4, GotoType DEF CreateDraft, TypeInv, TypeOK, PCs
<1>3. ASSUME NEW m \in Messages, CreateRefused(m) \/ GuestUnusable(m) \/ NoDraft(m) PROVE TypeInv'
  <2>1. End(m) /\ UNCHANGED <<clock, input, drafts, whispers, request, broken>>
    BY <1>3 DEF CreateRefused, GuestUnusable, NoDraft
  <2> QED BY <2>1, EndType DEF drafts, TypeInv, TypeOK
<1>4. ASSUME NEW m \in Messages,
             CountActive(m) \/ CountRecent(m) \/ CreateConflict(m) \/ Prompted(m) \/ Route(m)
             \/ NoGuest(m) \/ IngestFailed(m)
      PROVE TypeInv'
  <2>1. UNCHANGED <<clock, input, drafts, whispers, request, broken>>
    BY <1>4 DEF CountActive, CountRecent, CreateConflict, Prompted, Route, NoGuest, IngestFailed
  <2>2. PICK next \in PCs : Goto(m, next) /\ next # "claimed" /\ (next = "releasing" => pc[m] = "claimed")
    BY <1>4 DEF CountActive, CountRecent, CreateConflict, Prompted, Route, NoGuest, IngestFailed, PCs
  <2> QED BY <2>1, <2>2, GotoType DEF drafts, TypeInv, TypeOK
<1>5. ASSUME NEW m \in Messages, PromptFailed(m) PROVE TypeInv'
  BY <1>5, CancelType, GotoType DEF PromptFailed, TypeInv, TypeOK, PCs
<1>6. ASSUME NEW m \in Messages, CancelGuest(m) PROVE TypeInv'
  <2>1. guest' \in GuestStates /\ guestLease' \in Nat
    BY <1>6 DEF CancelGuest, TypeInv, TypeOK, GuestStates
  <2> QED BY <1>6, <2>1, GotoType DEF CancelGuest, drafts, TypeInv, TypeOK, PCs
<1>7. ASSUME NEW m \in Messages, CancelDraft(m) PROVE TypeInv'
  BY <1>7, CancelType, EndType DEF CancelDraft, TypeInv, TypeOK
<1>8. ASSUME NEW m \in Messages, ClaimGuest(m) PROVE TypeInv'
  <2>1. clock + IngestLease \in Nat
    BY ComposerAssumption DEF ComposerAssumption, TypeInv, TypeOK
  <2>2. claim' \in [Messages -> [draft : 0..MaxDrafts, lease : Nat]]
    BY <1>8, <2>1 DEF ClaimGuest, TypeInv, TypeOK
  <2> QED BY <1>8, <2>1, <2>2 DEF ClaimGuest, drafts, TypeInv, TypeOK, ClaimsAreOnDrafts, PCs, GuestStates
<1>9. ASSUME NEW m \in Messages, FinalizeGuest(m) PROVE TypeInv'
  <2>1. m \in 0..Last
    BY ComposerAssumption DEF ComposerAssumption, Messages
  <2>2. /\ pc' \in [Messages -> PCs]
        /\ attempts' \in [Messages -> 0..MaxAttempts]
        /\ askedAt' \in [Messages -> 0..MaxClock]
        /\ claim' \in [Messages -> [draft : 0..MaxDrafts, lease : Nat]]
        /\ ClaimsAreOnDrafts'
    BY <1>9, GotoType, EndType DEF FinalizeGuest, PCs
  <2> QED BY <1>9, <2>1, <2>2 DEF FinalizeGuest, drafts, TypeInv, TypeOK, GuestStates
<1>10. ASSUME NEW m \in Messages, GuestFailed(m) PROVE TypeInv'
  <2>1. guest' \in GuestStates /\ guestLease' \in Nat
    BY <1>10 DEF GuestFailed, TypeInv, TypeOK, GuestStates
  <2> QED BY <1>10, <2>1, EndType DEF GuestFailed, drafts, TypeInv, TypeOK
<1>11. ASSUME NEW m \in Messages, GuestStored(m) \/ Stored(m) \/ Lost(m) PROVE TypeInv'
  <2>1. UNCHANGED <<clock, input, drafts, whispers, request>> /\ broken' \subseteq Messages
    BY <1>11 DEF GuestStored, Stored, Lost, TypeInv, TypeOK
  <2>2. Goto(m, "done") \/ Goto(m, "idle")
    BY <1>11 DEF GuestStored, Stored, Lost
  <2> QED BY <2>1, <2>2, GotoType DEF drafts, TypeInv, TypeOK, PCs
<1>12. ASSUME NEW m \in Messages, ClaimDraft(m) PROVE TypeInv'
  <2>1. PICK d \in Drafts :
          /\ SetDraft(d, "ingesting", clock + IngestLease)
          /\ claim' = [claim EXCEPT ![m] = [draft |-> d, lease |-> clock + IngestLease]]
    BY <1>12 DEF ClaimDraft
  <2>2. clock + IngestLease \in Nat /\ IngestLease <= clock + IngestLease /\ d \in 0..MaxDrafts
    BY ComposerAssumption DEF ComposerAssumption, TypeInv, TypeOK, Drafts
  <2>3. claim' \in [Messages -> [draft : 0..MaxDrafts, lease : Nat]]
    BY <2>1, <2>2 DEF TypeInv, TypeOK
  <2>4. ClaimsAreOnDrafts'
    BY <1>12, <2>1, <2>2 DEF ClaimDraft, TypeInv, TypeOK, ClaimsAreOnDrafts
  <2> QED BY <1>12, <2>1, <2>2, <2>3, <2>4, SetDraftType DEF ClaimDraft, TypeInv, TypeOK, PCs, States
<1>13. ASSUME NEW m \in Messages, FinalizeDraft(m) PROVE TypeInv'
  <2>1. claim[m].draft \in Drafts /\ claim[m].lease \in Nat /\ IngestLease <= claim[m].lease
    BY <1>13 DEF FinalizeDraft, TypeInv, TypeOK, ClaimsAreOnDrafts
  <2>2. PICK now \in (claim[m].lease - IngestLease)..clock :
          /\ secret' = [secret EXCEPT ![claim[m].draft] = m]
          /\ storedAt' = [storedAt EXCEPT ![claim[m].draft] = now]
    BY <1>13 DEF FinalizeDraft, StoreWhisper
  <2>3. m \in 0..Last /\ now \in 0..MaxClock
    BY <2>1, ComposerAssumption DEF ComposerAssumption, TypeInv, TypeOK, Messages
  <2>4. secret' \in [Drafts -> 0..Last] /\ storedAt' \in [Drafts -> 0..MaxClock]
    BY <2>2, <2>3 DEF TypeInv, TypeOK
  <2>5. /\ pc' \in [Messages -> PCs]
        /\ attempts' \in [Messages -> 0..MaxAttempts]
        /\ askedAt' \in [Messages -> 0..MaxClock]
        /\ claim' \in [Messages -> [draft : 0..MaxDrafts, lease : Nat]]
        /\ ClaimsAreOnDrafts'
    BY <1>13, GotoType DEF FinalizeDraft, PCs
  <2>6. SetDraft(claim[m].draft, "completed", 0) /\ broken' \subseteq Messages
    BY <1>13 DEF FinalizeDraft, TypeInv, TypeOK
  <2>7. uncounted' \subseteq Drafts
    BY <1>13, <2>1 DEF FinalizeDraft, StoreWhisper, TypeInv, TypeOK
  <2> QED BY <1>13, <2>1, <2>4, <2>5, <2>6, <2>7, SetDraftType DEF FinalizeDraft, TypeInv, TypeOK, States
<1>14. ASSUME NEW m \in Messages, Release(m) PROVE TypeInv'
  <2>1. claim[m].draft \in Drafts
    BY <1>14 DEF Release, TypeInv, ClaimsAreOnDrafts
  <2>2. SetDraft(claim[m].draft, "awaiting", 0) \/ UNCHANGED drafts
    BY <1>14 DEF Release
  <2>3. /\ state' \in [Drafts -> States]
        /\ expiresAt' \in [Drafts -> Nat] /\ ingestLease' \in [Drafts -> Nat]
        /\ origin' \in [Drafts -> 0..Last]
    BY <2>1, <2>2, SetDraftType DEF drafts, TypeInv, TypeOK, States
  <2> QED BY <1>14, <2>3, EndType DEF Release, TypeInv, TypeOK
<1>15. CASE SweepExpired \/ SweepIngest
  <2>1. PICK d \in Drafts : SetDraft(d, "expired", 0) \/ SetDraft(d, "awaiting", 0)
    BY <1>15 DEF SweepExpired, SweepIngest
  <2> QED BY <1>15, <2>1, SetDraftType DEF SweepExpired, SweepIngest, TypeInv, TypeOK, ClaimsAreOnDrafts, States
<1>16. CASE SweepGuest \/ GuestExpires
  <2>1. guest' \in GuestStates /\ guestLease' \in Nat
    BY <1>16 DEF SweepGuest, GuestExpires, GuestStates
  <2>2. UNCHANGED <<clock, input, drafts, whispers, guestSecret, handlers, broken>>
    BY <1>16 DEF SweepGuest, GuestExpires
  <2> QED BY <2>1, <2>2 DEF drafts, TypeInv, TypeOK, ClaimsAreOnDrafts
<1>17. CASE Tick
  BY <1>17, ComposerAssumption DEF ComposerAssumption, Tick, drafts, TypeInv, TypeOK, ClaimsAreOnDrafts
<1>18. CASE UNCHANGED vars
  BY <1>18 DEF vars, drafts, TypeInv, TypeOK, ClaimsAreOnDrafts
<1>19. ASSUME NEW m \in Messages, AskDraft(m) PROVE TypeInv'
  <2>1. askedAt' \in [Messages -> 0..MaxClock]
    BY <1>19 DEF AskDraft, TypeInv, TypeOK
  <2> QED BY <1>19, <2>1 DEF AskDraft, drafts, TypeInv, TypeOK, ClaimsAreOnDrafts, PCs
<1> QED
  BY <1>1, <1>2, <1>3, <1>4, <1>5, <1>6, <1>7, <1>8, <1>9, <1>10, <1>11, <1>12, <1>13, <1>14,
     <1>15, <1>16, <1>17, <1>18, <1>19
     DEF Next, Handle, Cleanup

----------------------------------------------------------------------------
(* What a step does to the drafts and to the whispers                      *)

\* No whisper is stored, no draft is opened or reopened, none completed or undone.
Quiet ==
    /\ \A d \in Drafts : Open(d)' => Open(d)
    /\ \A d \in Drafts : (state[d] = "completed")' <=> state[d] = "completed"
    /\ UNCHANGED <<secret, storedAt, uncounted, expiresAt>>
    /\ clock <= clock'

\* A statement on an open draft that does not complete it is quiet.
LEMMA SetDraftIsQuiet ==
    ASSUME TypeInv, UNCHANGED <<clock, whispers>>,
           UNCHANGED drafts
             \/ \E d \in Drafts, s \in States \ {"completed"}, l \in Nat :
                    Open(d) /\ SetDraft(d, s, l)
    PROVE  Quiet
<1>1. clock <= clock'
  BY DEF TypeInv, TypeOK
<1>2. CASE UNCHANGED drafts
  BY <1>1, <1>2 DEF drafts, whispers, Quiet, Open
<1>3. ASSUME NEW d \in Drafts, NEW s \in States \ {"completed"}, NEW l \in Nat, Open(d), SetDraft(d, s, l)
      PROVE  Quiet
  <2>1. state' = [state EXCEPT ![d] = s] /\ expiresAt' = expiresAt
    BY <1>3 DEF SetDraft
  <2>2. \A e \in Drafts : state'[e] = IF e = d THEN s ELSE state[e]
    BY <2>1 DEF TypeInv, TypeOK
  <2> QED BY <1>1, <1>3, <2>1, <2>2 DEF whispers, Quiet, Open
<1> QED BY <1>2, <1>3

\* Only CreateDraft and FinalizeDraft are not quiet.
LEMMA StepKinds ==
    ASSUME TypeInv, [Next]_vars
    PROVE  Quiet \/ \E m \in Messages : CreateDraft(m) \/ FinalizeDraft(m)
<1>1. ASSUME NEW m \in Messages,
             Start(m) \/ AskDraft(m) \/ CountActive(m) \/ CountRecent(m) \/ CreateRefused(m)
             \/ CreateConflict(m) \/ Prompted(m) \/ CancelGuest(m)
             \/ Route(m) \/ ClaimGuest(m) \/ NoGuest(m) \/ GuestUnusable(m) \/ FinalizeGuest(m)
             \/ GuestFailed(m) \/ GuestStored(m) \/ NoDraft(m) \/ IngestFailed(m) \/ Stored(m)
             \/ Lost(m)
      PROVE  UNCHANGED <<clock, drafts, whispers>>
  BY <1>1 DEF Start, AskDraft, CountActive, CountRecent, CreateRefused, CreateConflict, Prompted,
              CancelGuest, Route, ClaimGuest, NoGuest, GuestUnusable, FinalizeGuest, GuestFailed,
              GuestStored, NoDraft, IngestFailed, Stored, Lost
<1>2. ASSUME NEW m \in Messages, PromptFailed(m) \/ CancelDraft(m) PROVE Quiet
  <2>1. UNCHANGED <<clock, whispers>> /\ (CancelLatest \/ UNCHANGED drafts)
    BY <1>2 DEF PromptFailed, CancelDraft
  <2>2. CancelLatest => UNCHANGED drafts \/ \E d \in Drafts : Open(d) /\ SetDraft(d, "cancelled", 0)
    BY DEF CancelLatest, Active, ActiveAt
  <2> QED BY <2>1, <2>2, SetDraftIsQuiet DEF States
<1>3. ASSUME NEW m \in Messages, ClaimDraft(m) PROVE Quiet
  <2>1. UNCHANGED <<clock, whispers>>
    BY <1>3 DEF ClaimDraft
  <2>2. PICK d \in Drafts : Open(d) /\ SetDraft(d, "ingesting", clock + IngestLease)
    BY <1>3 DEF ClaimDraft, Claimable, Active, ActiveAt
  <2>3. clock + IngestLease \in Nat
    BY ComposerAssumption DEF ComposerAssumption, TypeInv, TypeOK
  <2> QED BY <2>1, <2>2, <2>3, SetDraftIsQuiet DEF States
<1>4. ASSUME NEW m \in Messages, Release(m) PROVE Quiet
  <2>1. UNCHANGED <<clock, whispers>> /\ claim[m].draft \in Drafts
    BY <1>4 DEF Release, TypeInv, ClaimsAreOnDrafts
  <2>2. UNCHANGED drafts \/ (Open(claim[m].draft) /\ SetDraft(claim[m].draft, "awaiting", 0))
    BY <1>4 DEF Release, HoldsDraft, Open
  <2> QED BY <2>1, <2>2, SetDraftIsQuiet DEF States
<1>5. CASE SweepExpired \/ SweepIngest
  <2>1. UNCHANGED <<clock, whispers>>
    BY <1>5 DEF SweepExpired, SweepIngest
  <2>2. PICK d \in Drafts : Open(d) /\ (SetDraft(d, "expired", 0) \/ SetDraft(d, "awaiting", 0))
    BY <1>5 DEF SweepExpired, SweepIngest, Open
  <2> QED BY <2>1, <2>2, SetDraftIsQuiet DEF States
<1>6. CASE SweepGuest \/ GuestExpires \/ UNCHANGED vars
  BY <1>6, SetDraftIsQuiet DEF SweepGuest, GuestExpires, vars
<1>7. CASE Tick
  BY <1>7 DEF Tick, drafts, whispers, Quiet, Open, TypeInv, TypeOK
<1> QED
  BY <1>1, <1>2, <1>3, <1>4, <1>5, <1>6, <1>7, SetDraftIsQuiet DEF Next, Handle, Cleanup

\* What the whisper's transaction does: it completes the draft its handler holds,
\* which was open and had none.
LEMMA FinalizeEffect ==
    ASSUME TypeInv, NEW m \in Messages, FinalizeDraft(m)
    PROVE  \E d \in Drafts :
               /\ Open(d) /\ state[d] # "completed"
               /\ \A e \in Drafts : state'[e] = IF e = d THEN "completed" ELSE state[e]
               /\ \A e \in Drafts : secret'[e] = IF e = d THEN m ELSE secret[e]
               /\ \A e \in Drafts \ {d} : storedAt'[e] = storedAt[e]
               /\ uncounted' = IF \E n \in Messages : pc[n] = "inserting"
                               THEN uncounted \union {d}
                               ELSE uncounted
               /\ UNCHANGED <<clock, expiresAt>>
<1>1. claim[m].draft \in Drafts /\ state[claim[m].draft] = "ingesting"
  BY DEF FinalizeDraft, HoldsDraft, TypeInv, ClaimsAreOnDrafts
<1>2. /\ state' = [state EXCEPT ![claim[m].draft] = "completed"] /\ UNCHANGED <<clock, expiresAt>>
      /\ secret' = [secret EXCEPT ![claim[m].draft] = m]
  BY DEF FinalizeDraft, SetDraft, StoreWhisper
<1>3. \A e \in Drafts \ {claim[m].draft} : storedAt'[e] = storedAt[e]
  BY DEF FinalizeDraft, StoreWhisper, TypeInv, TypeOK
<1>4. uncounted' = IF \E n \in Messages : pc[n] = "inserting"
                   THEN uncounted \union {claim[m].draft}
                   ELSE uncounted
  BY DEF FinalizeDraft, StoreWhisper
<1> QED BY <1>1, <1>2, <1>3, <1>4 DEF TypeInv, TypeOK, Open

\* What the insert of CreateDraft does: it succeeds where the sender has no open draft.
LEMMA CreateEffect ==
    ASSUME TypeInv, NEW m \in Messages, CreateDraft(m)
    PROVE  /\ pc[m] = "inserting" /\ pc'[m] = "prompting" /\ ~\E d \in Drafts : Open(d)
           /\ UNCHANGED <<clock, secret, storedAt, uncounted>>
           /\ \E d \in Drafts :
                  /\ state[d] = "none"
                  /\ \A e \in Drafts : state'[e] = IF e = d THEN "awaiting" ELSE state[e]
<1>1. PICK d \in Drafts : state[d] = "none" /\ state' = [state EXCEPT ![d] = "awaiting"]
  BY DEF CreateDraft
<1>2. ~(\E e \in Drafts : Open(e)) /\ UNCHANGED <<clock, secret, storedAt, uncounted>>
  BY DEF CreateDraft, whispers
<1>3. pc[m] = "inserting" /\ pc'[m] = "prompting"
  BY DEF CreateDraft, Goto, TypeInv, TypeOK
<1> QED BY <1>1, <1>2, <1>3 DEF TypeInv, TypeOK

----------------------------------------------------------------------------
(* Handlers                                                                *)

\* A step of a handler is one of a handler that runs, and moves no other.
LEMMA HandlerRuns ==
    ASSUME TypeInv, NEW m \in Messages, Handle(m) \/ Lost(m)
    PROVE  /\ pc[m] \notin {"idle", "done"}
           /\ UNCHANGED <<input, attempts>>
           /\ \A n \in Messages \ {m} : pc'[n] = pc[n]
           /\ \A n \in Messages : askedAt'[n] \in {0, askedAt[n], clock}
<1> DEFINE OnlyThis ==
        /\ UNCHANGED attempts /\ \A n \in Messages \ {m} : pc'[n] = pc[n]
        /\ \A n \in Messages : askedAt'[n] \in {0, askedAt[n], clock}
<1>1. ASSUME NEW next \in PCs, Goto(m, next) PROVE OnlyThis
  BY <1>1 DEF Goto, TypeInv, TypeOK
<1>2. ASSUME End(m) PROVE OnlyThis
  BY <1>1, <1>2 DEF End, PCs
<1>3. CASE CountActive(m) \/ CountRecent(m) \/ CreateDraft(m) \/ CreateConflict(m) \/ Prompted(m)
           \/ PromptFailed(m) \/ CancelGuest(m) \/ Route(m) \/ NoGuest(m) \/ GuestStored(m)
           \/ IngestFailed(m) \/ Stored(m) \/ Lost(m)
  <2>1. pc[m] \notin {"idle", "done"} /\ UNCHANGED input
    BY <1>3 DEF CountActive, CountRecent, CreateDraft, CreateConflict, Prompted, PromptFailed,
                CancelGuest, Route, NoGuest, GuestStored, IngestFailed, Stored, Lost
  <2>2. \E next \in PCs : Goto(m, next)
    BY <1>3 DEF CountActive, CountRecent, CreateDraft, CreateConflict, Prompted, PromptFailed,
                CancelGuest, Route, NoGuest, GuestStored, IngestFailed, Stored, Lost, PCs
  <2> QED BY <1>1, <2>1, <2>2
<1>4. CASE CreateRefused(m) \/ CancelDraft(m) \/ GuestUnusable(m) \/ GuestFailed(m) \/ NoDraft(m) \/ Release(m)
  BY <1>2, <1>4 DEF CreateRefused, CancelDraft, GuestUnusable, GuestFailed, NoDraft, Release
<1>5. CASE FinalizeGuest(m) \/ FinalizeDraft(m)
  BY <1>1, <1>2, <1>5 DEF FinalizeGuest, FinalizeDraft, PCs
<1>6. CASE AskDraft(m) \/ ClaimGuest(m) \/ ClaimDraft(m)
  BY <1>6 DEF AskDraft, ClaimGuest, ClaimDraft, TypeInv, TypeOK
<1> QED BY <1>3, <1>4, <1>5, <1>6 DEF Handle

\* Any other step moves none, but for the start of one.
LEMMA OthersWait ==
    ASSUME TypeInv, [Next]_vars
    PROVE  \/ \E m \in Messages : Start(m) \/ Handle(m) \/ Lost(m)
           \/ UNCHANGED <<input, pc, attempts, askedAt, guestSecret, secret, broken>>
  BY DEF Next, Cleanup, SweepExpired, SweepIngest, SweepGuest, GuestExpires, Tick, vars,
         handlers, whispers, request

\* Polling starts a handler when all earlier messages are settled, and they stay so.
LEMMA OrderStep == TypeInv /\ HandledInOrder /\ [Next]_vars => HandledInOrder' /\ UNCHANGED input
<1> SUFFICES ASSUME TypeInv, HandledInOrder, [Next]_vars
             PROVE  HandledInOrder' /\ UNCHANGED input
  OBVIOUS
<1>1. ASSUME NEW m \in Messages, Start(m) PROVE HandledInOrder' /\ UNCHANGED input
  <2>1. /\ pc[m] = "idle" /\ attempts[m] < MaxAttempts /\ UNCHANGED input
        /\ inOrder => \A n \in Messages : n < m => Settled(n)
        /\ \A n \in Messages \ {m} : pc'[n] = pc[n] /\ attempts'[n] = attempts[n]
    BY <1>1 DEF Start, TypeInv, TypeOK
  <2>2. \A n \in Messages \ {m} : Settled(n) => Settled(n)'
    BY <2>1 DEF Settled
  <2>3. ~Settled(m)
    BY <2>1, ComposerAssumption DEF ComposerAssumption, Settled, TypeInv, TypeOK
  <2>4. ASSUME inOrder, NEW a \in Messages, NEW b \in Messages, b < a, pc'[a] # "idle"
        PROVE  Settled(b)'
    <3>1. b # m
      BY <2>1, <2>3, <2>4 DEF HandledInOrder, Messages
    <3>2. Settled(b)
      BY <2>1, <2>4, <3>1 DEF HandledInOrder
    <3> QED BY <2>2, <3>1, <3>2
  <2> QED BY <2>1, <2>4 DEF HandledInOrder, input
<1>2. ASSUME NEW m \in Messages, Handle(m) \/ Lost(m) PROVE HandledInOrder' /\ UNCHANGED input
  <2>1. /\ pc[m] \notin {"idle", "done"} /\ UNCHANGED <<input, attempts>>
        /\ \A n \in Messages \ {m} : pc'[n] = pc[n]
    BY <1>2, HandlerRuns
  <2>2. \A n \in Messages : Settled(n) => n # m /\ Settled(n)'
    BY <2>1 DEF Settled
  <2> QED BY <2>1, <2>2 DEF HandledInOrder, input
<1>3. CASE UNCHANGED <<input, pc, attempts>>
  BY <1>3 DEF HandledInOrder, Settled, input
<1> QED BY <1>1, <1>2, <1>3, OthersWait

\* Time does not run backwards.
LEMMA ClockStep == TypeInv /\ [Next]_vars => clock <= clock'
<1> SUFFICES ASSUME TypeInv, [Next]_vars PROVE clock <= clock'
  OBVIOUS
<1>1. CASE Quiet
  BY <1>1 DEF Quiet
<1>2. ASSUME NEW m \in Messages, CreateDraft(m) \/ FinalizeDraft(m) PROVE clock <= clock'
  BY <1>2 DEF CreateDraft, FinalizeDraft, TypeInv, TypeOK
<1> QED BY <1>1, <1>2, StepKinds

\* A handler reads the clock for its draft, and time passes.
LEMMA AskedStep == TypeInv /\ TypeInv' /\ AskedBefore /\ [Next]_vars => AskedBefore'
<1> SUFFICES ASSUME TypeInv, TypeInv', AskedBefore, [Next]_vars, NEW n \in Messages
             PROVE  askedAt'[n] <= clock'
  BY DEF AskedBefore
<1>1. clock \in Nat /\ clock' \in Nat /\ clock <= clock' /\ askedAt[n] \in Nat /\ askedAt[n] <= clock
  BY ClockStep DEF AskedBefore, TypeInv, TypeOK
<1>2. askedAt'[n] \in {0, askedAt[n], clock}
  <2>1. ASSUME NEW m \in Messages, Start(m) PROVE askedAt'[n] = askedAt[n]
    BY <2>1 DEF Start
  <2> QED BY <2>1, HandlerRuns, OthersWait
<1> QED BY <1>1, <1>2

\* The lock is entered by the first count alone, and the insert reached by the second.
LEMMA LockSteps ==
    ASSUME TypeInv, [Next]_vars, NEW n \in Messages
    PROVE  /\ Creating(n)' => Creating(n) \/ CountActive(n)
           /\ pc'[n] = "inserting" => pc[n] = "inserting" \/ CountRecent(n)
<1>1. ASSUME NEW m \in Messages, Start(m) PROVE Creating(n)' => pc'[n] = pc[n]
  BY <1>1 DEF Start, Creating, TypeInv, TypeOK
<1>2. ASSUME NEW m \in Messages, Handle(m) \/ Lost(m), n # m PROVE pc'[n] = pc[n]
  BY <1>2, HandlerRuns
<1>3. ASSUME Handle(n) \/ Lost(n), Creating(n)'
      PROVE  (CountActive(n) /\ pc'[n] = "counted") \/ CountRecent(n)
  <2>1. ASSUME NEW next \in PCs \ {"counted", "inserting"}, Goto(n, next) PROVE FALSE
    BY <1>3, <2>1 DEF Goto, Creating, TypeInv, TypeOK
  <2>2. ~End(n)
    BY <2>1 DEF End, PCs
  <2>3. ~(CreateRefused(n) \/ CancelDraft(n) \/ GuestUnusable(n) \/ GuestFailed(n) \/ NoDraft(n) \/ Release(n))
    BY <2>2 DEF CreateRefused, CancelDraft, GuestUnusable, GuestFailed, NoDraft, Release
  <2>4. ~(CreateDraft(n) \/ CreateConflict(n) \/ Prompted(n) \/ PromptFailed(n) \/ CancelGuest(n)
          \/ Route(n) \/ NoGuest(n) \/ GuestStored(n) \/ IngestFailed(n) \/ Stored(n) \/ Lost(n))
    BY <2>1 DEF CreateDraft, CreateConflict, Prompted, PromptFailed, CancelGuest, Route, NoGuest,
                GuestStored, IngestFailed, Stored, Lost, PCs
  <2>5. ~(FinalizeGuest(n) \/ FinalizeDraft(n))
    BY <2>1, <2>2 DEF FinalizeGuest, FinalizeDraft, PCs
  <2>6. ~(AskDraft(n) \/ ClaimGuest(n) \/ ClaimDraft(n))
    BY <1>3 DEF AskDraft, ClaimGuest, ClaimDraft, Creating, TypeInv, TypeOK
  <2>7. CountActive(n) => pc'[n] = "counted"
    BY DEF CountActive, Goto, TypeInv, TypeOK
  <2> QED BY <1>3, <2>3, <2>4, <2>5, <2>6, <2>7 DEF Handle
<1>4. CountRecent(n) => pc[n] = "counted"
  BY DEF CountRecent
<1> QED BY <1>1, <1>2, <1>3, <1>4, OthersWait DEF Creating

\* Who counts has waited until nobody else holds the lock.
LEMMA OneCreatesStep == TypeInv /\ OneCreates /\ [Next]_vars => OneCreates'
<1> SUFFICES ASSUME TypeInv, OneCreates, [Next]_vars,
                    NEW a \in Messages, NEW b \in Messages, Creating(a)', Creating(b)', a # b
             PROVE  FALSE
  BY DEF OneCreates
<1>1. ASSUME NEW m \in Messages, NEW n \in Messages, m # n, CountActive(m), Creating(n)' PROVE FALSE
  <2>1. pc'[n] = pc[n]
    BY <1>1, HandlerRuns DEF Handle
  <2> QED BY <1>1, <2>1 DEF CountActive, Creating
<1>2. Creating(a) /\ Creating(b)
  BY <1>1, LockSteps
<1> QED BY <1>2 DEF OneCreates

----------------------------------------------------------------------------
(* Drafts and whispers agree                                               *)

\* Initially there are neither.
LEMMA StoredInit == Init => StoredIffCompleted
  BY DEF Init, StoredIffCompleted

\* A draft is completed by the step that stores its whisper.
LEMMA StoredStep == TypeInv /\ StoredIffCompleted /\ [Next]_vars => StoredIffCompleted'
<1> SUFFICES ASSUME TypeInv, StoredIffCompleted, [Next]_vars PROVE StoredIffCompleted'
  OBVIOUS
<1>1. CASE Quiet
  BY <1>1 DEF Quiet, StoredIffCompleted
<1>2. ASSUME NEW m \in Messages, CreateDraft(m) PROVE StoredIffCompleted'
  BY <1>2, CreateEffect DEF StoredIffCompleted
<1>3. ASSUME NEW m \in Messages, FinalizeDraft(m) PROVE StoredIffCompleted'
  <2>1. m # 0
    BY DEF Messages
  <2> QED BY <1>3, <2>1, FinalizeEffect DEF StoredIffCompleted
<1> QED BY <1>1, <1>2, <1>3, StepKinds

----------------------------------------------------------------------------
(* One open draft, and the rate limit                                      *)

\* No draft is open initially.
LEMMA OneOpenInit == Init => OneOpen
  BY DEF Init, OneOpen, Open

\* A draft is created only when none is open.
LEMMA OneOpenStep == TypeInv /\ OneOpen /\ [Next]_vars => OneOpen'
<1> SUFFICES ASSUME TypeInv, OneOpen, [Next]_vars PROVE OneOpen'
  OBVIOUS
<1>1. CASE Quiet
  BY <1>1 DEF Quiet, OneOpen
<1>2. ASSUME NEW m \in Messages, CreateDraft(m) PROVE OneOpen'
  BY <1>2, CreateEffect DEF OneOpen, Open
<1>3. ASSUME NEW m \in Messages, FinalizeDraft(m) PROVE OneOpen'
  BY <1>3, FinalizeEffect DEF OneOpen, Open
<1> QED BY <1>1, <1>2, <1>3, StepKinds

\* The whispers within the hour are finitely many.
LEMMA RecentIsFinite ==
    /\ IsFiniteSet(Recent) /\ Cardinality(Recent) \in Nat
    /\ IsFiniteSet(Recent \ uncounted) /\ Cardinality(Recent \ uncounted) \in Nat
    /\ IsFiniteSet(Recent') /\ Cardinality(Recent') \in Nat
    /\ IsFiniteSet(Recent' \ uncounted') /\ Cardinality(Recent' \ uncounted') \in Nat
<1>1. IsFiniteSet(Drafts)
  BY FS_Interval, ComposerAssumption DEF ComposerAssumption, Drafts
<1>2. Recent \subseteq Drafts /\ Recent' \subseteq Drafts
  BY DEF Recent, RecentAt
<1>3. \A S \in SUBSET Drafts : IsFiniteSet(S) /\ Cardinality(S) \in Nat
  BY <1>1, FS_Subset, FS_CardinalityType
<1> QED BY <1>2, <1>3

\* Where no whisper is stored, time only takes some out of the hour.
LEMMA RecentShrinks ==
    ASSUME TypeInv, TypeInv', UNCHANGED <<secret, storedAt, uncounted>>, clock <= clock'
    PROVE  /\ Cardinality(Recent') <= Cardinality(Recent)
           /\ Cardinality(Recent' \ uncounted') <= Cardinality(Recent \ uncounted)
<1>1. ASSUME NEW d \in Drafts, d \in Recent' PROVE d \in Recent
  <2>1. secret[d] # 0 /\ clock' <= storedAt[d] + Window /\ storedAt[d] \in Nat
    BY <1>1 DEF Recent, RecentAt, TypeInv, TypeOK
  <2>2. clock \in Nat /\ clock' \in Nat /\ Window \in Nat
    BY ComposerAssumption DEF ComposerAssumption, TypeInv, TypeOK
  <2> QED BY <2>1, <2>2 DEF Recent, RecentAt
<1>2. Recent' \subseteq Recent
  BY <1>1 DEF Recent, RecentAt
<1>3. Recent' \ uncounted' \subseteq Recent \ uncounted
  BY <1>2
<1> QED BY <1>2, <1>3, FS_Subset, RecentIsFinite

\* The count for an instant that has passed is at least the one for now.
LEMMA CountedEarlier ==
    ASSUME TypeInv, AskedBefore, NEW m \in Messages, CountRecent(m)
    PROVE  Cardinality(Recent) < MaxRecent /\ Cardinality(Recent \ uncounted) < MaxRecent
<1>1. Recent \subseteq RecentAt(askedAt[m])
  <2>1. askedAt[m] \in Nat /\ askedAt[m] <= clock /\ clock \in Nat /\ Window \in Nat
    BY ComposerAssumption DEF ComposerAssumption, AskedBefore, TypeInv, TypeOK
  <2>2. \A d \in Drafts : storedAt[d] \in Nat
    BY DEF TypeInv, TypeOK
  <2> QED BY <2>1, <2>2 DEF Recent, RecentAt
<1>2. IsFiniteSet(RecentAt(askedAt[m])) /\ Cardinality(RecentAt(askedAt[m])) \in Nat
  <2>1. IsFiniteSet(Drafts) /\ RecentAt(askedAt[m]) \subseteq Drafts
    BY FS_Interval, ComposerAssumption DEF ComposerAssumption, Drafts, RecentAt
  <2> QED BY <2>1, FS_Subset, FS_CardinalityType
<1>3. Cardinality(RecentAt(askedAt[m])) < MaxRecent /\ MaxRecent \in Nat
  BY ComposerAssumption DEF ComposerAssumption, CountRecent, WithinQuota
<1>4. Cardinality(Recent) <= Cardinality(RecentAt(askedAt[m]))
  BY <1>1, <1>2, FS_Subset
<1>5. Cardinality(Recent \ uncounted) <= Cardinality(RecentAt(askedAt[m]))
  <2>1. Recent \ uncounted \subseteq RecentAt(askedAt[m])
    BY <1>1
  <2> QED BY <1>2, <2>1, FS_Subset
<1> QED BY <1>2, <1>3, <1>4, <1>5, RecentIsFinite

\* A set of whispers that a step adds at most one to has at most one more.
LEMMA OneMore ==
    ASSUME NEW S, NEW T, NEW d, IsFiniteSet(S), T \subseteq S \union {d}
    PROVE  Cardinality(T) <= Cardinality(S) + 1
<1>1. IsFiniteSet(S \union {d})
      /\ Cardinality(S \union {d}) = IF d \in S THEN Cardinality(S) ELSE Cardinality(S) + 1
  BY FS_AddElement
<1>2. Cardinality(T) <= Cardinality(S \union {d}) /\ IsFiniteSet(T)
  BY <1>1, FS_Subset
<1>3. Cardinality(S) \in Nat /\ Cardinality(S \union {d}) \in Nat /\ Cardinality(T) \in Nat
  BY <1>1, <1>2, FS_CardinalityType
<1> QED BY <1>1, <1>2, <1>3

\* A stored whisper is at most one more, and none that counts where a handler is about
\* to insert the next draft.
LEMMA RecentGrowsByOne ==
    ASSUME TypeInv, NEW m \in Messages, FinalizeDraft(m)
    PROVE  /\ Cardinality(Recent') <= Cardinality(Recent) + 1
           /\ Cardinality(Recent' \ uncounted') <= Cardinality(Recent \ uncounted) + 1
           /\ (\E n \in Messages : pc[n] = "inserting") =>
                  Cardinality(Recent' \ uncounted') <= Cardinality(Recent \ uncounted)
<1>1. PICK d \in Drafts :
          /\ \A e \in Drafts : secret'[e] = IF e = d THEN m ELSE secret[e]
          /\ \A e \in Drafts \ {d} : storedAt'[e] = storedAt[e]
          /\ uncounted' = IF \E n \in Messages : pc[n] = "inserting"
                          THEN uncounted \union {d}
                          ELSE uncounted
          /\ UNCHANGED clock
  BY FinalizeEffect
<1>2. Recent' \subseteq Recent \union {d}
  BY <1>1 DEF Recent, RecentAt
<1>3. Recent' \ uncounted' \subseteq (Recent \ uncounted) \union {d}
  BY <1>1, <1>2
<1>4. (\E n \in Messages : pc[n] = "inserting") => Recent' \ uncounted' \subseteq Recent \ uncounted
  BY <1>1, <1>2
<1> QED BY <1>2, <1>3, <1>4, OneMore, FS_Subset, RecentIsFinite

\* Initially nothing counts against the limit.
LEMMA RateInit == Init => RateInv
<1> SUFFICES ASSUME Init PROVE RateInv
  OBVIOUS
<1>1. Recent = {} /\ Recent \ uncounted = {} /\ ~\E d \in Drafts : Open(d)
  BY DEF Init, Recent, RecentAt, Open
<1>2. ~\E m \in Messages : pc[m] = "inserting"
  BY DEF Init
<1> QED
  BY <1>1, <1>2, FS_EmptySet, ComposerAssumption
     DEF ComposerAssumption, RateInv, RoomForTheDraft, RoomForTheInsert, RateLimit

\* Only the one open draft can become a whisper, and that ends it. Past the counts of
\* the next draft it is the one whisper that they missed, which polling rules out.
LEMMA RateStep ==
    /\ TypeInv /\ TypeInv' /\ AskedBefore /\ OneOpen /\ OneCreates /\ HandledInOrder
    /\ RateInv /\ [Next]_vars
    => RateInv'
<1> SUFFICES ASSUME TypeInv, TypeInv', AskedBefore, OneOpen, OneCreates, HandledInOrder,
                    RateInv, [Next]_vars
             PROVE  RateInv'
  OBVIOUS
<1>1. /\ MaxRecent \in Nat /\ Excess \in {0, 1} /\ Excess' = Excess
      /\ RateLimit <=> /\ Cardinality(Recent \ uncounted) <= MaxRecent
                       /\ Cardinality(Recent) <= MaxRecent + Excess
      /\ RateLimit' <=> /\ Cardinality(Recent' \ uncounted') <= MaxRecent
                        /\ Cardinality(Recent') <= MaxRecent + Excess
  BY OrderStep, ComposerAssumption DEF ComposerAssumption, Excess, RateLimit, input
<1>2. CASE Quiet
  <2>1. /\ Cardinality(Recent') <= Cardinality(Recent)
        /\ Cardinality(Recent' \ uncounted') <= Cardinality(Recent \ uncounted)
    BY <1>2, RecentShrinks DEF Quiet
  <2>2. (\E d \in Drafts : Open(d))' => \E d \in Drafts : Open(d)
    BY <1>2 DEF Quiet
  <2>3. RoomForTheDraft' /\ RateLimit'
    BY <1>1, <2>1, <2>2, RecentIsFinite DEF RateInv, RoomForTheDraft
  <2>4. ASSUME NEW m \in Messages, pc'[m] = "inserting" PROVE RoomForTheInsert'
    <3>1. CASE pc[m] = "inserting"
      BY <1>1, <2>1, <2>2, <3>1, RecentIsFinite DEF RateInv, RoomForTheInsert
    <3>2. CASE CountRecent(m)
      BY <1>1, <2>1, <3>2, CountedEarlier, RecentIsFinite DEF RoomForTheInsert
    <3> QED BY <2>4, <3>1, <3>2, LockSteps
  <2> QED BY <2>3, <2>4 DEF RateInv, RoomForTheInsert
<1>3. ASSUME NEW m \in Messages, CreateDraft(m) PROVE RateInv'
  <2>1. pc[m] = "inserting" /\ UNCHANGED <<clock, secret, storedAt, uncounted>>
    BY <1>3, CreateEffect
  <2>2. /\ Cardinality(Recent') <= Cardinality(Recent)
        /\ Cardinality(Recent' \ uncounted') <= Cardinality(Recent \ uncounted)
    BY <2>1, RecentShrinks DEF TypeInv, TypeOK
  <2>3. RoomForTheDraft' /\ RateLimit'
    BY <1>1, <2>1, <2>2, RecentIsFinite DEF RateInv, RoomForTheDraft, RoomForTheInsert
  <2>4. ASSUME NEW n \in Messages, pc'[n] = "inserting" PROVE FALSE
    <3>1. n # m
      BY <1>3, <2>4, CreateEffect
    <3>2. pc[n] = "inserting"
      BY <1>3, <2>4, <3>1, HandlerRuns DEF Handle
    <3> QED BY <2>1, <3>1, <3>2 DEF OneCreates, Creating
  <2> QED BY <2>3, <2>4 DEF RateInv, RoomForTheInsert
<1>4. ASSUME NEW m \in Messages, FinalizeDraft(m) PROVE RateInv'
  <2>1. (\E d \in Drafts : Open(d)) /\ ~(\E d \in Drafts : Open(d))'
    BY <1>4, FinalizeEffect DEF OneOpen, Open
  <2>2. /\ Cardinality(Recent \ uncounted) < MaxRecent
        /\ Cardinality(Recent) < MaxRecent + Excess
    BY <2>1 DEF RateInv, RoomForTheDraft
  <2>3. RateLimit'
    BY <1>1, <1>4, <2>2, RecentGrowsByOne, RecentIsFinite
  <2>4. ASSUME NEW n \in Messages, pc'[n] = "inserting" PROVE RoomForTheInsert'
    <3>1. pc[m] = "claimed" /\ pc'[m] # "inserting"
      BY <1>4 DEF FinalizeDraft, Goto, TypeInv, TypeOK
    <3>2. n # m /\ pc[n] = "inserting"
      BY <1>4, <2>4, <3>1, HandlerRuns DEF Handle
    <3>3. ~inOrder
      <4>1. n < m \/ m < n
        BY <3>2 DEF Messages
      <4> QED BY <3>1, <3>2, <4>1 DEF HandledInOrder, Settled
    <3>4. Excess = 1 /\ Cardinality(Recent) < MaxRecent
      BY <2>1, <3>2, <3>3 DEF Excess, RateInv, RoomForTheInsert
    <3> QED BY <1>1, <1>4, <2>1, <2>2, <3>2, <3>4, RecentGrowsByOne, RecentIsFinite DEF RoomForTheInsert
  <2> QED BY <2>1, <2>3, <2>4 DEF RateInv, RoomForTheDraft, RoomForTheInsert
<1> QED BY <1>2, <1>3, <1>4, StepKinds

----------------------------------------------------------------------------
(* The guest request                                                       *)

\* Only the routing of a secret takes a message to the guest request, and no draft
\* is created while polling has one there.
LEMMA GuestStep ==
    TypeInv /\ HandledInOrder /\ NoDraftForTheGuest /\ [Next]_vars => NoDraftForTheGuest'
<1> SUFFICES ASSUME TypeInv, HandledInOrder, NoDraftForTheGuest, [Next]_vars,
                    inOrder', "database" \notin faults', NEW n \in Messages, pc'[n] = "to_guest"
             PROVE  ~(\E d \in Drafts : Active(d))'
  BY DEF NoDraftForTheGuest
<1>1. inOrder /\ "database" \notin faults
  BY OrderStep DEF input
<1>2. ASSUME NEW m \in Messages, Route(m) PROVE ~(\E d \in Drafts : Active(d))'
  <2>1. UNCHANGED <<clock, drafts>>
    BY <1>2 DEF Route
  <2>2. ~\E d \in Drafts : Active(d)
    <3>1. CASE n = m
      BY <1>1, <1>2, <3>1 DEF Route, Goto, TypeInv, TypeOK
    <3>2. CASE n # m
      BY <1>1, <1>2, <3>2 DEF Route, Goto, TypeInv, TypeOK, NoDraftForTheGuest
    <3> QED BY <3>1, <3>2
  <2> QED BY <2>1, <2>2 DEF Active, ActiveAt, Open, drafts
<1>3. ASSUME ~\E m \in Messages : Route(m) PROVE pc[n] = "to_guest"
  <2>1. ASSUME NEW m \in Messages, Start(m) PROVE pc[n] = "to_guest"
    BY <2>1 DEF Start, TypeInv, TypeOK
  <2>2. ASSUME NEW m \in Messages, Handle(m) \/ Lost(m) PROVE pc[n] = "to_guest"
    <3>1. CASE n # m
      BY <2>2, <3>1, HandlerRuns
    <3>2. CASE n = m
      <4>1. ~Route(m)
        BY <1>3
      <4>2. ASSUME NEW next \in PCs \ {"to_guest"}, Goto(m, next) PROVE FALSE
        BY <3>2, <4>2 DEF Goto, TypeInv, TypeOK
      <4>3. ~End(m)
        BY <4>2 DEF End, PCs
      <4>4. ~(CreateRefused(m) \/ CancelDraft(m) \/ GuestUnusable(m) \/ GuestFailed(m) \/ NoDraft(m) \/ Release(m))
        BY <4>3 DEF CreateRefused, CancelDraft, GuestUnusable, GuestFailed, NoDraft, Release
      <4>5. ~(CountActive(m) \/ CountRecent(m) \/ CreateDraft(m) \/ CreateConflict(m) \/ Prompted(m)
              \/ PromptFailed(m) \/ CancelGuest(m) \/ NoGuest(m) \/ GuestStored(m) \/ IngestFailed(m)
              \/ Stored(m) \/ Lost(m))
        BY <4>2 DEF CountActive, CountRecent, CreateDraft, CreateConflict, Prompted, PromptFailed,
                    CancelGuest, NoGuest, GuestStored, IngestFailed, Stored, Lost, PCs
      <4>6. ~(FinalizeGuest(m) \/ FinalizeDraft(m))
        BY <4>2, <4>3 DEF FinalizeGuest, FinalizeDraft, PCs
      <4>7. ~(AskDraft(m) \/ ClaimGuest(m) \/ ClaimDraft(m))
        BY <3>2 DEF AskDraft, ClaimGuest, ClaimDraft, TypeInv, TypeOK
      <4> QED BY <2>2, <4>1, <4>4, <4>5, <4>6, <4>7 DEF Handle
    <3> QED BY <3>1, <3>2
  <2>3. CASE UNCHANGED pc
    BY <2>3
  <2> QED BY <2>1, <2>2, <2>3, OthersWait
<1>4. ASSUME NEW m \in Messages, CreateDraft(m) PROVE FALSE
  <2>1. ~Route(m) /\ ~\E k \in Messages : Route(k)
    BY <1>4 DEF CreateDraft, Route, Goto, TypeInv, TypeOK
  <2>2. pc[n] = "to_guest" /\ pc[m] = "inserting" /\ n # m
    BY <1>3, <1>4, <2>1 DEF CreateDraft
  <2>3. n < m \/ m < n
    BY <2>2 DEF Messages
  <2> QED BY <1>1, <2>2, <2>3 DEF HandledInOrder, Settled
<1>5. CASE Quiet /\ ~\E m \in Messages : Route(m)
  <2>1. ~\E d \in Drafts : Active(d)
    BY <1>1, <1>3, <1>5 DEF NoDraftForTheGuest
  <2>2. ASSUME NEW d \in Drafts, Active(d)' PROVE Active(d)
    <3>1. Open(d) /\ clock' < expiresAt[d] /\ clock <= clock'
      BY <1>5, <2>2 DEF Quiet, Active, ActiveAt
    <3>2. clock \in Nat /\ clock' \in Nat /\ expiresAt[d] \in Nat
      BY TypeStep DEF TypeInv, TypeOK
    <3> QED BY <3>1, <3>2 DEF Active, ActiveAt
  <2> QED BY <2>1, <2>2
<1>6. ASSUME NEW m \in Messages, FinalizeDraft(m), ~\E k \in Messages : Route(k)
      PROVE ~(\E d \in Drafts : Active(d))'
  <2>1. ~\E d \in Drafts : Active(d)
    BY <1>1, <1>3, <1>6 DEF NoDraftForTheGuest
  <2> QED BY <1>6, <2>1, FinalizeEffect DEF Active, ActiveAt, Open
<1> QED BY <1>2, <1>4, <1>5, <1>6, StepKinds

----------------------------------------------------------------------------
(* Copies                                                                  *)

\* Where a handler is that has stored its message.
Kept == {"stored", "guest_stored", "done"}

\* Only the two finalizing transactions store a message, and a handler that comes
\* back from after one is remembered.
LEMMA StoresNothing ==
    ASSUME TypeInv, [Next]_vars, ~\E m \in Messages : FinalizeGuest(m) \/ FinalizeDraft(m)
    PROVE  /\ UNCHANGED <<secret, guestSecret>>
           /\ broken \subseteq broken'
           /\ \A n \in Messages \ broken' : pc[n] \in Kept => pc'[n] \in Kept
<1>1. ASSUME NEW m \in Messages, Start(m)
      PROVE  UNCHANGED <<secret, guestSecret, broken>>
             /\ \A n \in Messages : pc[n] \in Kept => pc'[n] \in Kept
  BY <1>1 DEF Start, whispers, request, Kept, TypeInv, TypeOK
<1>2. ASSUME NEW m \in Messages,
             AskDraft(m) \/ CountActive(m) \/ CountRecent(m) \/ CreateDraft(m) \/ CreateRefused(m)
             \/ CreateConflict(m) \/ Prompted(m) \/ PromptFailed(m)
             \/ CancelGuest(m) \/ CancelDraft(m) \/ Route(m) \/ ClaimGuest(m) \/ NoGuest(m)
             \/ GuestUnusable(m) \/ GuestFailed(m) \/ ClaimDraft(m) \/ NoDraft(m) \/ IngestFailed(m)
             \/ Release(m)
      PROVE  UNCHANGED <<secret, guestSecret, broken>>
             /\ \A n \in Messages : pc[n] \in Kept => pc'[n] \in Kept
  <2>1. UNCHANGED <<secret, guestSecret, broken>> /\ pc[m] \notin Kept
    BY <1>2 DEF AskDraft, CountActive, CountRecent, CreateDraft, CreateRefused, CreateConflict,
                Prompted, PromptFailed, CancelGuest,
                CancelDraft, Route, ClaimGuest, NoGuest, GuestUnusable, GuestFailed, ClaimDraft, NoDraft,
                IngestFailed, Release, whispers, request, Kept
  <2>2. \A n \in Messages \ {m} : pc'[n] = pc[n]
    BY <1>2, HandlerRuns DEF Handle
  <2> QED BY <2>1, <2>2
<1>3. ASSUME NEW m \in Messages, GuestStored(m) \/ Stored(m)
      PROVE  /\ UNCHANGED <<secret, guestSecret>> /\ broken \subseteq broken'
             /\ \A n \in Messages \ broken' : pc[n] \in Kept => pc'[n] \in Kept
  BY <1>3 DEF GuestStored, Stored, Goto, whispers, request, Kept, TypeInv, TypeOK
<1>4. ASSUME NEW m \in Messages, Lost(m)
      PROVE  /\ UNCHANGED <<secret, guestSecret>> /\ broken \subseteq broken'
             /\ \A n \in Messages \ broken' : pc[n] \in Kept => pc'[n] \in Kept
  BY <1>4 DEF Lost, Goto, whispers, request, Kept, TypeInv, TypeOK
<1>5. CASE UNCHANGED <<pc, guestSecret, secret, broken>>
  BY <1>5
<1> QED BY <1>1, <1>2, <1>3, <1>4, <1>5, OthersWait DEF Handle

\* Where a handler is after such a transaction, unless it is remembered as broken.
LEMMA Finalizes ==
    ASSUME TypeInv, NEW m \in Messages, FinalizeGuest(m) \/ FinalizeDraft(m)
    PROVE  /\ pc[m] \notin Kept
           /\ broken \subseteq broken'
           /\ m \notin broken' => pc'[m] \in Kept
           /\ \A n \in Messages \ {m} : pc'[n] = pc[n]
<1>1. pc[m] \notin Kept /\ broken \subseteq broken'
  BY DEF FinalizeGuest, FinalizeDraft, Kept
<1>2. \A n \in Messages \ {m} : pc'[n] = pc[n]
  BY HandlerRuns DEF Handle
<1>3. m \notin broken' => pc'[m] \in Kept
  BY DEF FinalizeGuest, FinalizeDraft, Goto, Kept, TypeInv, TypeOK
<1> QED BY <1>1, <1>2, <1>3

\* Nothing is stored initially.
LEMMA OnceInit == Init => StoredOnce
  BY DEF Init, StoredOnce, Messages

\* A message not stored yet is stored once; one that is stored is not tried again.
LEMMA OnceStep == TypeInv /\ StoredOnce /\ [Next]_vars => StoredOnce'
<1> SUFFICES ASSUME TypeInv, StoredOnce, [Next]_vars PROVE StoredOnce'
  OBVIOUS
<1>1. CASE ~\E m \in Messages : FinalizeGuest(m) \/ FinalizeDraft(m)
  BY <1>1, StoresNothing DEF StoredOnce, Kept
<1>2. ASSUME NEW m \in Messages, FinalizeGuest(m) \/ FinalizeDraft(m),
             NEW n \in Messages \ broken'
      PROVE  /\ \A d, e \in Drafts : secret'[d] = n /\ secret'[e] = n => d = e
             /\ guestSecret' = n => \A d \in Drafts : secret'[d] # n
             /\ guestSecret' = n \/ (\E d \in Drafts : secret'[d] = n) => pc'[n] \in Kept
  <2>1. n \notin broken /\ (n # m => pc'[n] = pc[n]) /\ (n = m => pc[n] \notin Kept /\ pc'[n] \in Kept)
    BY <1>2, Finalizes
  <2>2. n = m => guestSecret # n /\ \A d \in Drafts : secret[d] # n
    BY <2>1 DEF StoredOnce, Kept
  <2>3. CASE FinalizeGuest(m)
    <3>1. guestSecret' = m /\ secret' = secret
      BY <2>3 DEF FinalizeGuest, whispers
    <3> QED BY <2>1, <2>2, <3>1 DEF StoredOnce, Kept
  <2>4. CASE FinalizeDraft(m)
    <3>1. guestSecret' = guestSecret
      BY <2>4 DEF FinalizeDraft, request
    <3>2. PICK c \in Drafts : \A e \in Drafts : secret'[e] = IF e = c THEN m ELSE secret[e]
      BY <2>4, FinalizeEffect
    <3> QED BY <2>1, <2>2, <3>1, <3>2 DEF StoredOnce, Kept
  <2> QED BY <1>2, <2>3, <2>4
<1> QED BY <1>1, <1>2 DEF StoredOnce, Kept

\* Stored once, in a draft's whisper or in the guest request, is one copy.
LEMMA OneCopy ==
    ASSUME TypeInv, StoredOnce, NEW m \in Messages \ broken
    PROVE  Copies(m) <= 1
<1> DEFINE S == {d \in Drafts : secret[d] = m}
<1>1. CASE S = {}
  BY <1>1, FS_EmptySet DEF Copies
<1>2. ASSUME NEW d \in S PROVE Copies(m) <= 1
  <2>1. S = {d} /\ guestSecret # m
    BY <1>2 DEF StoredOnce
  <2>2. Cardinality(S) = 1
    BY <2>1, FS_Singleton
  <2> QED BY <2>1, <2>2 DEF Copies
<1> QED BY <1>1, <1>2

----------------------------------------------------------------------------
(* Theorems                                                                *)

\* The invariant of Composer is inductive.
THEOREM Inductive == Spec => []ComposerInv
<1>1. Init => ComposerInv
  <2> SUFFICES ASSUME Init PROVE ComposerInv
    OBVIOUS
  <2>1. HandledInOrder /\ NoDraftForTheGuest /\ AskedBefore /\ OneCreates
    BY DEF Init, HandledInOrder, NoDraftForTheGuest, AskedBefore, OneCreates, Creating
  <2> QED BY <2>1, TypeInit, StoredInit, OneOpenInit, RateInit, OnceInit DEF ComposerInv
<1>2. ComposerInv /\ [Next]_vars => ComposerInv'
  BY TypeStep, AskedStep, StoredStep, OneOpenStep, OneCreatesStep, RateStep, OnceStep, OrderStep,
     GuestStep
     DEF ComposerInv
<1> QED BY <1>1, <1>2, PTL DEF Spec

\* Every variable stays in its range.
THEOREM TypeCorrect == Spec => []TypeOK
<1>1. ComposerInv => TypeOK
  BY DEF ComposerInv, TypeInv
<1> QED BY <1>1, Inductive, PTL

\* A draft is completed exactly when its whisper is stored: what lost a race with
\* /cancel, a deadline, a sweep or another message left nothing behind.
THEOREM StoredWithItsDraft == Spec => []StoredIffCompleted
<1>1. ComposerInv => StoredIffCompleted
  BY DEF ComposerInv
<1> QED BY <1>1, Inductive, PTL

\* A sender has at most one open draft, expired ones that nobody swept included.
THEOREM OneDraft == Spec => []OneOpen
<1>1. ComposerInv => OneOpen
  BY DEF ComposerInv
<1> QED BY <1>1, Inductive, PTL

\* The hourly limit holds though it is counted before the draft is inserted and the
\* whisper is stored later: exactly where messages are handled in order, and with the
\* webhook but for one whisper committed between a count and its insert.
THEOREM WithinTheRate == Spec => []RateLimit
<1>1. ComposerInv => RateLimit
  BY DEF ComposerInv, RateInv
<1> QED BY <1>1, Inductive, PTL

\* A second copy of a message is the doing of a handler that failed or died after
\* the first was committed.
THEOREM CopiesExplained == Spec => []CopiesAreExplained
<1>1. ComposerInv => CopiesAreExplained
  <2> SUFFICES ASSUME ComposerInv, NEW m \in Messages, Copies(m) > 1 PROVE m \in broken
    BY DEF CopiesAreExplained
  <2>1. Cardinality({d \in Drafts : secret[d] = m}) \in Nat
    <3>1. IsFiniteSet(Drafts)
      BY FS_Interval, ComposerAssumption DEF ComposerAssumption, Drafts
    <3> QED BY <3>1, FS_Subset, FS_CardinalityType
  <2>2. Copies(m) \in Nat
    BY <2>1 DEF Copies
  <2> QED BY <2>2, OneCopy DEF ComposerInv
<1> QED BY <1>1, Inductive, PTL

\* With polling and a database that answers, a draft wins over the guest request.
THEOREM DraftFirst == Spec => DraftWins
<1>1. ComposerInv /\ [Next]_vars =>
          [inOrder /\ "database" \notin faults
              /\ guest = "awaiting_secret" /\ guest' = "ingesting_secret" =>
           ~\E d \in Drafts : Active(d)]_vars
  <2> SUFFICES ASSUME ComposerInv, [Next]_vars, inOrder, "database" \notin faults,
                      guest = "awaiting_secret", guest' = "ingesting_secret"
               PROVE  ~\E d \in Drafts : Active(d)
    OBVIOUS
  <2>1. PICK m \in Messages : ClaimGuest(m)
    BY DEF Next, Start, Handle, Lost, Cleanup, AskDraft, CountActive, CountRecent, CreateDraft, CreateRefused, CreateConflict, Prompted,
           PromptFailed, CancelGuest, CancelDraft, Route, NoGuest, GuestUnusable, FinalizeGuest,
           GuestFailed, GuestStored, ClaimDraft, NoDraft, FinalizeDraft, IngestFailed, Release, Stored,
           SweepExpired, SweepIngest, SweepGuest, GuestExpires, Tick, vars, request
  <2> QED BY <2>1 DEF ClaimGuest, ComposerInv, NoDraftForTheGuest
<1> QED BY <1>1, Inductive, PTL DEF Spec, DraftWins
=============================================================================
