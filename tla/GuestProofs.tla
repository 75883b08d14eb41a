---------------------------- MODULE GuestProofs ----------------------------
(***************************************************************************)
(* Proofs about Guest and the deletion of its messages, for any number of  *)
(* updates, requests and attempts, any set of users and of workers, any    *)
(* quotas, lifetimes and leases with SendTime < OpenLease and              *)
(* JobTime < JobLease, either transport and every combination of faults.   *)
(***************************************************************************)
EXTENDS Guest, FiniteSetTheorems, TLAPS

----------------------------------------------------------------------------
(* The invariant                                                           *)

\* The updates, the transport and the faults of a behaviour.
InputOK ==
    /\ kind \in [Updates -> Kinds] /\ limit \in [Updates -> 1..MaxAttempts]
    /\ hint \in [Updates -> Hints] /\ inOrder \in BOOLEAN
    /\ faults \subseteq {"crash", "database"}

Delivering(m) == pc[m] \in {"sending", "failing", "completing"}

\* A handler that runs counts an attempt; the one of a press knows who pressed, and
\* one that works on a request names it. What it completes it has sent.
HandlerOK(m) ==
    /\ pc[m] # "idle" => attempts[m] # 0
    /\ kind[m] = "open" /\ attempts[m] # 0 => actor[m] \in Users
    /\ pc[m] = "claiming" \/ Delivering(m) => kind[m] = "open"
    /\ pc[m] \in {"reusing", "ingesting"} \/ Delivering(m) => claim[m].request \in Updates
    /\ pc[m] = "completing" => Delivery(m) \in deliveries

TypeInv ==
    /\ TypeOK /\ InputOK
    /\ DOMAIN busy = Workers
    /\ \A m \in Updates : HandlerOK(m)

\* The target of a row that named an id is that id.
TargetIsNamed ==
    \A r \in Updates : req[r].state # "none" /\ req[r].hint \in Users => req[r].target = req[r].hint

\* A request is bound to whom it is being delivered to, and was delivered to.
BoundToActor ==
    /\ \A m \in Updates : Delivering(m) =>
           req[claim[m].request].state # "none" /\ req[claim[m].request].target = actor[m]
    /\ \A d \in deliveries : req[d.request].state # "none" /\ req[d.request].target = d.to

\* A request that is reused has not expired since it was found.
ReusedInTime == \A m \in Updates : pc[m] = "reusing" => Unexpired(claim[m].request)

\* What was swept as expired has expired, and no reuse extends it.
ExpiredIsOver == \A r \in Updates : req[r].state = "expired" => ~Unexpired(r)

\* The record of the message is written with the last state but one.
RecordIsFinal ==
    \A r \in Updates : req[r].message # NoToken => req[r].state \in {"opened", "gone"}

InTime(m) == Delivering(m) /\ clock < claim[m].lease

\* Within its lease a handler holds the row, or a sweep has ended it unopened.
InTimeHolds ==
    \A m \in Updates : InTime(m) =>
        \/ Holds(m, "opening")
        \/ /\ req[claim[m].request].state \in {"expired", "gone"}
           /\ req[claim[m].request].message = NoToken

\* Of two handlers that deliver a request at most one is within its lease.
OneInTime ==
    \A m, n \in Updates :
        InTime(m) /\ InTime(n) /\ claim[m].request = claim[n].request => m = n

\* With polling, a handler runs only once all earlier updates are settled.
HandledInOrder ==
    inOrder => \A m, n \in Updates : n < m /\ pc[m] # "idle" => Settled(n)

\* With polling, no request is being filled when another one is inserted.
NothingIngested ==
    inOrder => \A m \in Updates : pc[m] = "inserting" =>
        ~\E r \in Updates : req[r].state = "ingesting" /\ Unexpired(r)

\* What a closed job or a worker calls done, Telegram did or refused for good.
DoneIsSettled ==
    /\ \A j \in DOMAIN jobs : jobs[j].closed => j \in gone \union leftBehind
    /\ \A w \in Workers : D!Running(w) /\ busy[w].said = "done" => busy[w].job \in gone \union leftBehind


----------------------------------------------------------------------------
(* Types                                                                   *)

\* The constants that are numbers.
LEMMA Numbers ==
    /\ Last \in Nat /\ MaxClock \in Nat /\ MaxAttempts \in Nat
    /\ TTL \in Nat \ {0} /\ PreviewTTL \in Nat \ {0}
    /\ IngestLease \in Nat /\ OpenLease \in Nat \ {0} /\ JobLease \in Nat
    /\ DeleteDelays \subseteq Nat /\ Backoffs \subseteq Nat
<1>1. TTL \in Nat \ {0} /\ PreviewTTL \in Nat \ {0}
  BY GuestAssumption DEF GuestAssumption
<1>2. OpenLease \in Nat \ {0}
  BY GuestAssumption DEF GuestAssumption
<1> QED BY <1>1, <1>2, GuestAssumption, DeleteJobsAssumption DEF GuestAssumption, D!JobsAssumption

\* The initial state is well typed.
LEMMA TypeInit == Init => TypeInv
<1> SUFFICES ASSUME Init PROVE TypeInv
  OBVIOUS
<1>1. InputOK
  <2>1. PICK s \in Starts : /\ kind = s.kind /\ limit = s.limit /\ hint = s.hint
                            /\ inOrder = s.polling /\ faults = s.faults
    BY DEF Init
  <2> QED BY <2>1, GuestAssumption DEF GuestAssumption, InputOK
<1>2. /\ NoRow \in [state : States, hint : Hints, target : Users \union {Nobody},
                    token : Tokens \union {NoToken}, created : 0..MaxClock,
                    expires : Nat, lease : Nat, message : Tokens \union {NoToken}]
      /\ NoClaim \in [request : Updates \union {0}, lease : Nat]
      /\ 0 \in 0..MaxClock /\ 0 \in 0..MaxAttempts /\ Named \in Users
  BY Numbers, GuestAssumption DEF GuestAssumption, NoRow, NoClaim, States, Hints
<1>3. D!JobsTypeOK(Messages) /\ DOMAIN busy = Workers
  BY DEF Init, D!InitJobs, D!JobsTypeOK
<1>4. TypeOK
  BY <1>2, <1>3 DEF Init, TypeOK, PCs
<1>5. \A m \in Updates : HandlerOK(m)
  BY DEF Init, HandlerOK, Delivering
<1> QED BY <1>1, <1>3, <1>4, <1>5 DEF TypeInv

\* What a handler that runs sends is a message to a user.
LEMMA DeliveryType ==
    ASSUME TypeInv, NEW m \in Updates, Delivering(m)
    PROVE  Delivery(m) \in Messages
<1>1. attempts[m] \in 1..MaxAttempts /\ claim[m].request \in Updates /\ actor[m] \in Users
  BY Numbers DEF TypeInv, TypeOK, HandlerOK, Delivering
<1> QED BY <1>1 DEF Delivery, Messages

\* The token of a run of a handler.
LEMMA TokenType ==
    ASSUME TypeInv, NEW m \in Updates, pc[m] # "idle"
    PROVE  Token(m) \in Tokens /\ Token(m) # NoToken
<1>1. attempts[m] \in 1..MaxAttempts /\ m # 0
  BY Numbers DEF TypeInv, TypeOK, HandlerOK, Updates
<1> QED BY <1>1 DEF Token, Tokens, NoToken

\* A handler that does not move stays as it should be.
LEMMA StayOK ==
    ASSUME NEW n \in Updates, HandlerOK(n), kind' = kind, deliveries \subseteq deliveries',
           pc'[n] = pc[n], attempts'[n] = attempts[n], claim'[n] = claim[n], actor'[n] = actor[n]
    PROVE  HandlerOK(n)'
  BY DEF HandlerOK, Delivering, Delivery

\* Where a handler may go from where it is.
MayGo(m, next) ==
    /\ next \in PCs /\ pc[m] # "idle"
    /\ next \in {"claiming", "sending", "failing", "completing"} => kind[m] = "open"
    /\ next \in {"reusing", "ingesting", "sending", "failing", "completing"} => claim[m].request \in Updates
    /\ next = "completing" => Delivery(m) \in deliveries'

\* A handler that moves on there is as it should be.
LEMMA GotoType ==
    ASSUME TypeInv, NEW m \in Updates, NEW next, MayGo(m, next), Goto(m, next),
           kind' = kind, deliveries \subseteq deliveries'
    PROVE  /\ pc' \in [Updates -> PCs] /\ attempts' \in [Updates -> 0..MaxAttempts]
           /\ claim' \in [Updates -> [request : Updates \union {0}, lease : Nat]]
           /\ actor' \in [Updates -> Users \union {Nobody}]
           /\ link' \in [Updates -> Tokens \union {NoToken}]
           /\ \A n \in Updates : HandlerOK(n)'
<1>1. pc' \in [Updates -> PCs] /\ pc' = [pc EXCEPT ![m] = next] /\ UNCHANGED <<attempts, actor, link>>
  BY DEF Goto, MayGo, TypeInv, TypeOK
<1>2. claim' \in [Updates -> [request : Updates \union {0}, lease : Nat]]
  <2>1. NoClaim \in [request : Updates \union {0}, lease : Nat]
    BY DEF NoClaim
  <2> QED BY <2>1 DEF Goto, TypeInv, TypeOK
<1>3. ASSUME NEW n \in Updates, n # m PROVE HandlerOK(n)'
  <2>1. pc'[n] = pc[n] /\ claim'[n] = claim[n] /\ HandlerOK(n)
    BY <1>3 DEF Goto, TypeInv, TypeOK
  <2> QED BY <1>1, <2>1, StayOK
<1>4. HandlerOK(m)'
  <2>1. pc'[m] = next /\ HandlerOK(m)
    BY <1>1 DEF TypeInv, TypeOK
  <2>2. CASE next \in {"idle", "done"}
    <3>1. attempts[m] # 0 /\ (kind[m] = "open" => actor[m] \in Users)
      BY <2>1 DEF MayGo, HandlerOK
    <3>2. ~Delivering(m)' /\ pc'[m] \notin {"claiming", "reusing", "ingesting", "completing"}
      BY <2>1, <2>2 DEF Delivering
    <3> QED BY <1>1, <3>1, <3>2 DEF HandlerOK
  <2>3. CASE next \notin {"idle", "done"}
    <3>1. claim' = claim
      BY <2>3 DEF Goto
    <3> QED BY <1>1, <2>1, <3>1 DEF HandlerOK, Delivering, Delivery, MayGo
  <2> QED BY <2>2, <2>3
<1> QED BY <1>1, <1>2, <1>3, <1>4 DEF TypeInv, TypeOK

\* So is one that ends.
LEMMA EndType ==
    ASSUME TypeInv, NEW m \in Updates, End(m), pc[m] # "idle", kind' = kind, deliveries \subseteq deliveries'
    PROVE  /\ pc' \in [Updates -> PCs] /\ attempts' \in [Updates -> 0..MaxAttempts]
           /\ claim' \in [Updates -> [request : Updates \union {0}, lease : Nat]]
           /\ actor' \in [Updates -> Users \union {Nobody}]
           /\ link' \in [Updates -> Tokens \union {NoToken}]
           /\ \A n \in Updates : HandlerOK(n)'
<1>1. PICK next \in {"done", "idle"} : Goto(m, next)
  BY DEF End
<1>2. MayGo(m, next)
  BY DEF MayGo, PCs
<1> QED BY <1>1, <1>2, GotoType

RowType == [state : States, hint : Hints, target : Users \union {Nobody},
            token : Tokens \union {NoToken}, created : 0..MaxClock,
            expires : Nat, lease : Nat, message : Tokens \union {NoToken}]

\* A statement that moves a row leaves it well typed.
LEMMA SetType ==
    ASSUME TypeInv, NEW r \in Updates, NEW s \in States, NEW l \in Nat, Set(r, s, l)
    PROVE  /\ req' \in [Updates -> RowType]
           /\ req' = [q \in Updates |-> IF q = r THEN [req[r] EXCEPT !.state = s, !.lease = l] ELSE req[q]]
<1>1. req \in [Updates -> RowType]
  BY DEF TypeInv, TypeOK, RowType
<1>2. [req[r] EXCEPT !.state = s, !.lease = l] \in RowType
  BY <1>1 DEF RowType
<1>3. req' = [q \in Updates |-> IF q = r THEN [req[r] EXCEPT !.state = s, !.lease = l] ELSE req[q]]
  BY <1>1 DEF Set
<1> QED BY <1>1, <1>2, <1>3

----------------------------------------------------------------------------
(* Types of the deletion jobs                                              *)

JobType == [due : Nat, tries : Nat, lease : Nat, closed : BOOLEAN]
BusyType == [job : Messages, lease : Nat, tries : Nat \ {0}, said : {"nothing", "done", "failed"}]

JobsOK ==
    /\ DOMAIN busy = Workers /\ DOMAIN jobs \subseteq Messages
    /\ \A j \in DOMAIN jobs : jobs[j] \in JobType
    /\ \A w \in Workers : busy[w] = D!Idle \/ busy[w] \in BusyType
    /\ gone \subseteq Messages /\ leftBehind \subseteq Messages

\* These are the types of DeleteJobs.
LEMMA JobsTypes ==
    /\ JobsOK <=> D!JobsTypeOK(Messages) /\ DOMAIN busy = Workers
    /\ JobsOK' <=> D!JobsTypeOK(Messages)' /\ (DOMAIN busy = Workers)'
  BY DEF JobsOK, D!JobsTypeOK, JobType, BusyType

\* A worker that runs has claimed a message.
LEMMA BusyIsTyped ==
    ASSUME JobsOK, NEW w \in Workers, D!Running(w)
    PROVE  busy[w] \in BusyType
  BY DEF JobsOK, D!Running

\* What Telegram said is noted with the claim.
LEMMA SaidType ==
    ASSUME JobsOK, NEW w \in Workers, D!Running(w),
           NEW what \in {"nothing", "done", "failed"}, D!Said(w, what)
    PROVE  /\ DOMAIN busy' = Workers
           /\ busy' = [v \in Workers |-> IF v = w THEN [busy[w] EXCEPT !.said = what] ELSE busy[v]]
           /\ \A v \in Workers : busy'[v] = D!Idle \/ busy'[v] \in BusyType
<1>1. busy[w] \in BusyType /\ DOMAIN busy = Workers
  BY BusyIsTyped DEF JobsOK
<1>2. [busy[w] EXCEPT !.said = what] \in BusyType
  BY <1>1 DEF BusyType
<1>3. busy' = [v \in Workers |-> IF v = w THEN [busy[w] EXCEPT !.said = what] ELSE busy[v]]
  BY <1>1 DEF D!Said
<1> QED BY <1>1, <1>2, <1>3 DEF JobsOK

\* A worker claims a job.
LEMMA ClaimJobType ==
    ASSUME JobsOK, clock \in Nat, NEW w \in Workers, D!ClaimJob(w)
    PROVE  JobsOK'
<1>1. PICK j \in DOMAIN jobs :
        /\ jobs' = [jobs EXCEPT ![j].lease = clock + JobLease, ![j].tries = @ + 1]
        /\ busy' = [busy EXCEPT ![w] = [job |-> j, lease |-> clock + JobLease,
                                          tries |-> jobs[j].tries + 1, said |-> "nothing"]]
  BY DEF D!ClaimJob
<1>2. clock + JobLease \in Nat /\ jobs[j] \in JobType /\ j \in Messages
  BY Numbers DEF JobsOK
<1>3. jobs[j].tries \in Nat /\ jobs[j].tries + 1 \in Nat \ {0}
  BY <1>2 DEF JobType
<1>4. [jobs[j] EXCEPT !.lease = clock + JobLease, !.tries = @ + 1] \in JobType
  BY <1>2, <1>3 DEF JobType
<1>5. jobs' = [i \in DOMAIN jobs |->
                 IF i = j THEN [jobs[j] EXCEPT !.lease = clock + JobLease, !.tries = @ + 1] ELSE jobs[i]]
  BY <1>1
<1>6. [job |-> j, lease |-> clock + JobLease, tries |-> jobs[j].tries + 1, said |-> "nothing"] \in BusyType
  BY <1>2, <1>3 DEF BusyType
<1>7. UNCHANGED <<gone, leftBehind>>
  BY DEF D!ClaimJob
<1> QED BY <1>1, <1>2, <1>4, <1>5, <1>6, <1>7 DEF JobsOK

\* Telegram answers.
LEMMA AskTelegramType ==
    ASSUME JobsOK, NEW w \in Workers, D!AskTelegram(w)
    PROVE  JobsOK'
<1>1. busy[w].job \in Messages
  BY BusyIsTyped DEF D!AskTelegram, BusyType
<1>2. D!Running(w) /\ (D!Said(w, "done") \/ D!Said(w, "failed"))
  BY DEF D!AskTelegram
<1>3. /\ jobs' = jobs /\ gone' \subseteq gone \union {busy[w].job}
      /\ leftBehind' \subseteq leftBehind \union {busy[w].job}
  BY DEF D!AskTelegram
<1> QED BY <1>1, <1>2, <1>3, SaidType DEF JobsOK

\* The outcome is recorded in the row, if the worker still holds it.
LEMMA RecordType ==
    ASSUME JobsOK, clock \in Nat, NEW w \in Workers, D!Record(w)
    PROVE  JobsOK'
<1>1. busy[w] \in BusyType /\ busy[w].job \in Messages
  BY BusyIsTyped DEF D!Record, BusyType
<1>2. leftBehind' \subseteq leftBehind \union {busy[w].job} /\ gone' = gone /\ busy' = [busy EXCEPT ![w] = D!Idle]
  BY DEF D!Record, D!Close, D!Retry
<1>3. DOMAIN jobs' = DOMAIN jobs /\ \A j \in DOMAIN jobs : jobs'[j] \in JobType
  <2>1. CASE UNCHANGED jobs
    BY <2>1 DEF JobsOK
  <2>2. CASE D!HoldsJob(w) /\ D!Close(w)
    <3>1. busy[w].job \in DOMAIN jobs /\ jobs[busy[w].job] \in JobType
      BY <2>2 DEF JobsOK, D!HoldsJob, D!Unclosed
    <3>2. [jobs[busy[w].job] EXCEPT !.closed = TRUE, !.lease = 0] \in JobType
      BY <3>1 DEF JobType
    <3>3. jobs' = [i \in DOMAIN jobs |->
                     IF i = busy[w].job THEN [jobs[busy[w].job] EXCEPT !.closed = TRUE, !.lease = 0] ELSE jobs[i]]
      BY <2>2, <3>1 DEF D!Close
    <3> QED BY <3>2, <3>3 DEF JobsOK
  <2>3. CASE D!HoldsJob(w) /\ D!Retry(w)
    <3>1. busy[w].job \in DOMAIN jobs /\ jobs[busy[w].job] \in JobType
      BY <2>3 DEF JobsOK, D!HoldsJob, D!Unclosed
    <3>2. PICK b \in Backoffs : jobs' = [jobs EXCEPT ![busy[w].job].due = clock + b, ![busy[w].job].lease = 0]
      BY <2>3 DEF D!Retry
    <3>3. [jobs[busy[w].job] EXCEPT !.due = clock + b, !.lease = 0] \in JobType
      BY <3>1, <3>2, Numbers DEF JobType
    <3>4. jobs' = [i \in DOMAIN jobs |->
                     IF i = busy[w].job THEN [jobs[busy[w].job] EXCEPT !.due = clock + b, !.lease = 0] ELSE jobs[i]]
      BY <3>1, <3>2
    <3> QED BY <3>3, <3>4 DEF JobsOK
  <2> QED BY <2>1, <2>2, <2>3 DEF D!Record
<1> QED BY <1>1, <1>2, <1>3 DEF JobsOK

\* The queue of deletions stays well typed under its workers and their cleanup.
LEMMA WorkType ==
    ASSUME JobsOK, clock \in Nat,
           (\E w \in Workers : D!Work(w) \/ D!WorkerLost(w)) \/ D!PruneJobs \/ UNCHANGED jobVars
    PROVE  JobsOK'
<1>1. ASSUME NEW w \in Workers, D!WorkerLost(w) PROVE JobsOK'
  BY <1>1 DEF JobsOK, D!WorkerLost
<1>2. ASSUME D!PruneJobs PROVE JobsOK'
  BY <1>2 DEF JobsOK, D!PruneJobs
<1>3. CASE UNCHANGED jobVars
  BY <1>3 DEF JobsOK, jobVars
<1> QED BY <1>1, <1>2, <1>3, ClaimJobType, AskTelegramType, RecordType DEF D!Work

\* An opened request may leave a job behind.
LEMMA QueuedType ==
    ASSUME JobsOK, NEW d \in Messages, NEW due \in Nat, jobs' = D!Queued(d, due),
           UNCHANGED <<busy, gone, leftBehind>>
    PROVE  JobsOK'
<1>1. /\ DOMAIN jobs' = DOMAIN jobs \union {d}
      /\ jobs'[d] = [due |-> due, tries |-> 0, lease |-> 0, closed |-> FALSE]
      /\ \A i \in DOMAIN jobs \ {d} : jobs'[i] = jobs[i]
  BY DEF D!Queued
<1>2. [due |-> due, tries |-> 0, lease |-> 0, closed |-> FALSE] \in JobType
  BY DEF JobType
<1> QED BY <1>1, <1>2 DEF JobsOK

----------------------------------------------------------------------------
(* What a step does to a request                                           *)

\* Nothing.
Untouched(r) == req'[r] = req[r]

\* The handler of its update inserts it.
Inserted(r) == Insert(r) /\ req[r].state = "none" /\ req'[r] = NewRow(r)

\* It answers another query, and lives on.
Extended(r) ==
    \E m \in Updates :
        /\ Reuse(m) /\ claim[m].request = r
        /\ req'[r] = [req[r] EXCEPT !.expires = clock + TTL]

\* Someone follows its link.
BoundTo(r, m) ==
    /\ Begin(m) /\ Openable(m, r)
    /\ req'[r] = [req[r] EXCEPT !.target = actor[m]]

\* A press reserves it.
Reserved(r, m) ==
    /\ ClaimOpen(m) /\ Openable(m, r) /\ Claimable(r)
    /\ claim'[m] = [request |-> r, lease |-> clock + OpenLease]
    /\ req'[r] = [req[r] EXCEPT !.state = "opening", !.lease = clock + OpenLease, !.target = actor[m]]

\* A press records that it was opened.
OpenedBy(r, m) ==
    /\ CompleteOpen(m) /\ claim[m].request = r
    /\ req'[r] = [req[r] EXCEPT !.state = "opened", !.lease = 0, !.message = Token(m)]

\* The other moves: retention, expiry, cancellation, ingestion, and the end of a
\* delivery that its handler or its lease gave up.
MayMove(r, s) ==
    \/ s = "gone" /\ req[r].state \notin {"none", "gone"}
    \/ s = "expired" /\ req[r].state \in {"awaiting", "ingesting", "ready", "opening"} /\ ~Unexpired(r)
    \/ s = "cancelled" /\ req[r].state \in {"awaiting", "ingesting", "ready"}
    \/ s = "ingesting" /\ Waiting(r) /\ \E m \in Updates : ClaimIngest(m)
    \/ s \in {"awaiting", "ready"} /\ req[r].state = "ingesting"
    \/ /\ s = "ready" /\ req[r].state = "opening"
       /\ \/ req[r].lease <= clock
          \/ \E m \in Updates : FailOpen(m) /\ claim[m].request = r /\ Holds(m, "opening")

Moved(r) ==
    \E s \in States, l \in Nat :
        MayMove(r, s) /\ req'[r] = [req[r] EXCEPT !.state = s, !.lease = l]

Effects ==
    /\ req' \in [Updates -> RowType]
    /\ \A r \in Updates :
        \/ Untouched(r) \/ Inserted(r) \/ Extended(r) \/ Moved(r)
        \/ \E m \in Updates : BoundTo(r, m) \/ Reserved(r, m) \/ OpenedBy(r, m)

\* A statement that moves a row, as one of these.
LEMMA SetEffect ==
    ASSUME TypeInv, NEW r \in Updates, NEW s \in States, NEW l \in Nat, Set(r, s, l), MayMove(r, s)
    PROVE  Effects
<1>1. /\ req' \in [Updates -> RowType]
      /\ req' = [q \in Updates |-> IF q = r THEN [req[r] EXCEPT !.state = s, !.lease = l] ELSE req[q]]
  BY SetType
<1>2. Moved(r)
  BY <1>1 DEF Moved
<1>3. \A q \in Updates \ {r} : Untouched(q)
  BY <1>1 DEF Untouched
<1> QED BY <1>1, <1>2, <1>3 DEF Effects

\* The row of a new request.
LEMMA NewRowType ==
    ASSUME TypeInv, NEW m \in Updates, pc[m] # "idle"
    PROVE  NewRow(m) \in RowType
<1>1. hint[m] \in Hints /\ clock \in 0..MaxClock
  BY DEF TypeInv, TypeOK, InputOK
<1>2. clock + (IF kind[m] = "instant" THEN PreviewTTL ELSE TTL) \in Nat
  BY <1>1, Numbers
<1>3. (IF hint[m] \in Users THEN hint[m] ELSE Nobody) \in Users \union {Nobody}
  OBVIOUS
<1>4. (IF kind[m] = "instant" THEN "ready" ELSE "awaiting") \in States
  BY DEF States
<1> QED BY <1>1, <1>2, <1>3, <1>4, TokenType DEF NewRow, RowType

\* Every step has one of these effects on every request.
LEMMA RowEffects == TypeInv /\ [Next]_vars => Effects
<1> SUFFICES ASSUME TypeInv, [Next]_vars PROVE Effects
  OBVIOUS
<1>1. req \in [Updates -> RowType] /\ clock \in Nat
  BY Numbers DEF TypeInv, TypeOK, RowType
<1>2. ASSUME UNCHANGED req PROVE Effects
  BY <1>1, <1>2 DEF Effects, Untouched
<1>3. ASSUME NEW m \in Updates, Reuse(m) PROVE Effects
  <2>1. claim[m].request \in Updates
    BY <1>3 DEF Reuse, TypeInv, HandlerOK
  <2>2. clock + TTL \in Nat
    BY <1>1, Numbers
  <2>3. [req[claim[m].request] EXCEPT !.expires = clock + TTL] \in RowType
    BY <1>1, <2>1, <2>2 DEF RowType
  <2>4. req' = [q \in Updates |-> IF q = claim[m].request
                                  THEN [req[claim[m].request] EXCEPT !.expires = clock + TTL] ELSE req[q]]
    BY <1>1, <1>3, <2>1 DEF Reuse
  <2>5. Extended(claim[m].request) /\ \A q \in Updates \ {claim[m].request} : Untouched(q)
    BY <1>3, <2>1, <2>4 DEF Extended, Untouched
  <2> QED BY <1>1, <2>3, <2>4, <2>5 DEF Effects
<1>4. ASSUME NEW m \in Updates, Insert(m) PROVE Effects
  <2>1. CASE req[m].state # "none"
    BY <1>2, <1>4, <2>1 DEF Insert
  <2>2. CASE req[m].state = "none"
    <3>1. req' = [r \in Updates |->
                    IF r = m THEN NewRow(m)
                    ELSE IF Superseded(r) THEN [req[r] EXCEPT !.state = "cancelled"]
                    ELSE req[r]]
      BY <1>4, <2>2 DEF Insert
    <3>2. NewRow(m) \in RowType
      BY <1>4, NewRowType DEF Insert
    <3>3. ASSUME NEW r \in Updates
          PROVE /\ req[r].lease \in Nat
                /\ [req[r] EXCEPT !.state = "cancelled"] \in RowType
                /\ [req[r] EXCEPT !.state = "cancelled"] =
                       [req[r] EXCEPT !.state = "cancelled", !.lease = req[r].lease]
      BY <1>1 DEF RowType, States
    <3>4. req' \in [Updates -> RowType]
      BY <1>1, <3>1, <3>2, <3>3
    <3>5. ASSUME NEW r \in Updates, Superseded(r), r # m PROVE Moved(r)
      <4>1. MayMove(r, "cancelled") /\ "cancelled" \in States
        BY <3>5 DEF Superseded, MayMove, States
      <4>2. req'[r] = [req[r] EXCEPT !.state = "cancelled", !.lease = req[r].lease]
        BY <3>1, <3>3, <3>5
      <4> QED BY <3>3, <4>1, <4>2 DEF Moved
    <3>6. ASSUME NEW r \in Updates, r # m, ~Superseded(r) PROVE Untouched(r)
      BY <3>1, <3>6 DEF Untouched
    <3>7. Inserted(m)
      BY <1>4, <2>2, <3>1 DEF Inserted
    <3> QED BY <3>4, <3>5, <3>6, <3>7 DEF Effects
  <2> QED BY <2>1, <2>2
<1>5. ASSUME NEW m \in Updates, AnswerFailed(m) PROVE Effects
  <2>1. UNCHANGED req \/ (req[m].state \in {"awaiting", "ready"} /\ Set(m, "cancelled", 0))
    BY <1>5 DEF AnswerFailed
  <2> QED BY <1>2, <2>1, SetEffect DEF MayMove, States
<1>6. ASSUME NEW m \in Updates, ClaimIngest(m) PROVE Effects
  <2>1. PICK r \in Updates : Waiting(r) /\ Set(r, "ingesting", clock + IngestLease)
    BY <1>6 DEF ClaimIngest
  <2>2. clock + IngestLease \in Nat
    BY <1>1, Numbers
  <2> QED BY <1>6, <2>1, <2>2, SetEffect DEF MayMove, States
<1>7. ASSUME NEW m \in Updates, Finalize(m) \/ IngestFailed(m) PROVE Effects
  <2>1. claim[m].request \in Updates
    BY <1>7 DEF Finalize, IngestFailed, TypeInv, HandlerOK
  <2>2. \/ UNCHANGED req
        \/ /\ req[claim[m].request].state = "ingesting"
           /\ Set(claim[m].request, "ready", 0) \/ Set(claim[m].request, "awaiting", 0)
    BY <1>7 DEF Finalize, IngestFailed, Holds
  <2> QED BY <1>2, <2>1, <2>2, SetEffect DEF MayMove, States
<1>8. ASSUME NEW m \in Updates, Cancel(m) PROVE Effects
  <2>1. req' = [r \in Updates |->
                  IF Active(r) THEN [req[r] EXCEPT !.state = "cancelled", !.lease = 0] ELSE req[r]]
    BY <1>8 DEF Cancel
  <2>2. \A r \in Updates : [req[r] EXCEPT !.state = "cancelled", !.lease = 0] \in RowType
    BY <1>1 DEF RowType, States
  <2>3. \A r \in Updates : Active(r) => MayMove(r, "cancelled") /\ "cancelled" \in States
    BY DEF Active, MayMove, States
  <2>4. \A r \in Updates : Untouched(r) \/ Moved(r)
    BY <2>1, <2>3 DEF Untouched, Moved
  <2> QED BY <1>1, <2>1, <2>2, <2>4 DEF Effects
<1>9. ASSUME NEW m \in Updates, Begin(m) PROVE Effects
  <2>1. PICK r \in Updates : Openable(m, r) /\ req' = [req EXCEPT ![r].target = actor[m]]
    BY <1>9 DEF Begin
  <2>2. actor[m] \in Users \union {Nobody}
    BY DEF TypeInv, TypeOK
  <2>3. [req[r] EXCEPT !.target = actor[m]] \in RowType
    BY <1>1, <2>2 DEF RowType
  <2>4. req' = [q \in Updates |-> IF q = r THEN [req[r] EXCEPT !.target = actor[m]] ELSE req[q]]
    BY <1>1, <2>1
  <2>5. BoundTo(r, m)
    BY <1>9, <2>1, <2>4 DEF BoundTo
  <2>6. \A q \in Updates \ {r} : Untouched(q)
    BY <2>4 DEF Untouched
  <2> QED BY <1>1, <2>3, <2>4, <2>5, <2>6 DEF Effects
<1>10. ASSUME NEW m \in Updates, ClaimOpen(m) PROVE Effects
  <2>1. PICK r \in Updates :
          /\ Openable(m, r) /\ Claimable(r)
          /\ req' = [req EXCEPT ![r].state = "opening", ![r].lease = clock + OpenLease,
                                ![r].target = actor[m]]
          /\ claim' = [claim EXCEPT ![m] = [request |-> r, lease |-> clock + OpenLease]]
    BY <1>10 DEF ClaimOpen
  <2>2. actor[m] \in Users \union {Nobody} /\ clock + OpenLease \in Nat
    BY <1>1, Numbers DEF TypeInv, TypeOK
  <2>3. [req[r] EXCEPT !.state = "opening", !.lease = clock + OpenLease, !.target = actor[m]] \in RowType
    BY <1>1, <2>2 DEF RowType, States
  <2>4. req' = [q \in Updates |->
                  IF q = r THEN [req[r] EXCEPT !.state = "opening", !.lease = clock + OpenLease,
                                               !.target = actor[m]]
                           ELSE req[q]]
    BY <1>1, <2>1
  <2>5. Reserved(r, m)
    BY <1>10, <2>1, <2>4 DEF Reserved, TypeInv, TypeOK
  <2>6. \A q \in Updates \ {r} : Untouched(q)
    BY <2>4 DEF Untouched
  <2> QED BY <1>1, <2>3, <2>4, <2>5, <2>6 DEF Effects
<1>11. ASSUME NEW m \in Updates, FailOpen(m) PROVE Effects
  <2>1. claim[m].request \in Updates
    BY <1>11 DEF FailOpen, TypeInv, HandlerOK, Delivering
  <2>2. CASE Holds(m, "opening") /\ Set(claim[m].request, "ready", 0)
    <3>1. MayMove(claim[m].request, "ready")
      BY <1>11, <2>2 DEF MayMove, Holds
    <3> QED BY <2>1, <2>2, <3>1, SetEffect DEF States
  <2> QED BY <1>2, <1>11, <2>2 DEF FailOpen
<1>12. ASSUME NEW m \in Updates, CompleteOpen(m) PROVE Effects
  <2>1. claim[m].request \in Updates /\ Token(m) \in Tokens
    BY <1>12, TokenType DEF CompleteOpen, TypeInv, HandlerOK, Delivering
  <2>2. req' = [req EXCEPT ![claim[m].request].state = "opened", ![claim[m].request].lease = 0,
                           ![claim[m].request].message = Token(m)]
    BY <1>12 DEF CompleteOpen
  <2>3. [req[claim[m].request] EXCEPT !.state = "opened", !.lease = 0, !.message = Token(m)] \in RowType
    <3>1. ASSUME NEW row \in RowType, NEW t \in Tokens \union {NoToken}
          PROVE  [row EXCEPT !.state = "opened", !.lease = 0, !.message = t] \in RowType
      BY DEF RowType, States
    <3> QED BY <1>1, <2>1, <3>1
  <2>4. req' = [q \in Updates |->
                  IF q = claim[m].request
                  THEN [req[claim[m].request] EXCEPT !.state = "opened", !.lease = 0, !.message = Token(m)]
                  ELSE req[q]]
    BY <1>1, <2>1, <2>2
  <2>5. OpenedBy(claim[m].request, m)
    BY <1>12, <2>1, <2>4 DEF OpenedBy
  <2>6. \A q \in Updates \ {claim[m].request} : Untouched(q)
    BY <2>4 DEF Untouched
  <2> QED BY <1>1, <2>1, <2>3, <2>4, <2>5, <2>6 DEF Effects
<1>13. ASSUME NEW r \in Updates, Sweep(r) PROVE Effects
  <2>1. CASE SweepExpired(r)
    <3>1. ~Unexpired(r)
      BY <1>1, <2>1 DEF SweepExpired, Unexpired, RowType
    <3> QED BY <2>1, <3>1, SetEffect DEF SweepExpired, MayMove, States
  <2>2. CASE SweepIngest(r) \/ SweepOpening(r) \/ SweepRetained(r)
    BY <2>2, SetEffect DEF SweepIngest, SweepOpening, SweepRetained, MayMove, States
  <2> QED BY <1>13, <2>1, <2>2 DEF Sweep
<1>14. ASSUME NEW m \in Updates,
              Start(m) \/ Check(m) \/ Answered(m) \/ NothingWaits(m) \/ Denied(m) \/ ClaimRefused(m)
              \/ Send(m) \/ CompleteFailed(m) \/ Lost(m)
       PROVE  UNCHANGED req
  BY <1>14 DEF Start, Check, Answered, NothingWaits, Denied, ClaimRefused, Send, CompleteFailed, Lost
<1>15. ASSUME NEW w \in Workers,
              DeleteWorker(w) \/ (D!WorkerLost(w) /\ UNCHANGED <<clock, input, holder, req, handlers, chat>>)
       PROVE  UNCHANGED req
  BY <1>15 DEF DeleteWorker
<1>16. CASE Rename \/ Tick \/ UNCHANGED vars
  BY <1>2, <1>16 DEF Rename, Tick, vars
<1> QED
  BY <1>2, <1>3, <1>4, <1>5, <1>6, <1>7, <1>8, <1>9, <1>10, <1>11, <1>12, <1>13, <1>14, <1>15, <1>16
     DEF Next, Handle, Cleanup

----------------------------------------------------------------------------
(* What a step does to the handlers                                        *)

\* Types of the handlers' variables, and what a handler relies on.
HandlersOK ==
    /\ pc \in [Updates -> PCs] /\ attempts \in [Updates -> 0..MaxAttempts]
    /\ claim \in [Updates -> [request : Updates \union {0}, lease : Nat]]
    /\ actor \in [Updates -> Users \union {Nobody}]
    /\ link \in [Updates -> Tokens \union {NoToken}]
    /\ \A m \in Updates : HandlerOK(m)

\* Most steps of a handler move it on, and change nothing else of it.
LEMMA MovesOn ==
    ASSUME TypeInv, NEW m \in Updates,
           \/ Check(m) /\ pc'[m] # "reusing"
           \/ Reuse(m) \/ Insert(m) \/ Answered(m) \/ AnswerFailed(m) \/ NothingWaits(m) \/ Finalize(m)
           \/ IngestFailed(m) \/ Cancel(m) \/ Begin(m) \/ Denied(m) \/ ClaimRefused(m) \/ Send(m)
           \/ FailOpen(m) \/ CompleteOpen(m) \/ CompleteFailed(m) \/ Lost(m)
    PROVE  /\ pc[m] \notin {"idle", "done"} /\ UNCHANGED input /\ deliveries \subseteq deliveries'
           /\ \E next \in PCs :
                  /\ Goto(m, next)
                  /\ next \in {"claiming"} => kind[m] = "open"
                  /\ next \in {"failing", "completing"} => Delivering(m)
                  /\ next \in {"reusing", "ingesting", "sending"} => FALSE
                  /\ next = "completing" => Delivery(m) \in deliveries'
<1>1. pc \in [Updates -> PCs]
  BY DEF TypeInv, TypeOK
<1>2. CASE Check(m) /\ pc'[m] # "reusing"
  BY <1>1, <1>2 DEF Check, chat, End, PCs
<1>3. CASE Reuse(m) \/ Insert(m) \/ NothingWaits(m) \/ Finalize(m) \/ IngestFailed(m) \/ Cancel(m)
           \/ Denied(m) \/ ClaimRefused(m)
  BY <1>3 DEF Reuse, Insert, NothingWaits, Finalize, IngestFailed, Cancel, Denied, ClaimRefused, chat, End, PCs
<1>4. CASE Answered(m) \/ AnswerFailed(m)
  BY <1>4 DEF Answered, AnswerFailed, chat, PCs
<1>5. CASE Begin(m)
  BY <1>5 DEF Begin, chat, End, PCs
<1>6. CASE Send(m)
  BY <1>6 DEF Send, Delivering, PCs
<1>7. CASE FailOpen(m) \/ CompleteOpen(m)
  BY <1>7 DEF FailOpen, CompleteOpen, chat, End, PCs
<1>8. CASE CompleteFailed(m) \/ Lost(m)
  BY <1>8 DEF CompleteFailed, Lost, PCs
<1> QED BY <1>2, <1>3, <1>4, <1>5, <1>6, <1>7, <1>8

\* Such a step keeps the types.
LEMMA MovesOnType ==
    ASSUME TypeInv, NEW m \in Updates, UNCHANGED input, deliveries \subseteq deliveries',
           pc[m] # "idle",
           \E next \in PCs :
               /\ Goto(m, next)
               /\ next \in {"claiming"} => kind[m] = "open"
               /\ next \in {"failing", "completing"} => Delivering(m)
               /\ next \in {"reusing", "ingesting", "sending"} => FALSE
               /\ next = "completing" => Delivery(m) \in deliveries'
    PROVE  HandlersOK'
<1>1. PICK next \in PCs :
        /\ Goto(m, next)
        /\ next \in {"claiming"} => kind[m] = "open"
        /\ next \in {"failing", "completing"} => Delivering(m)
        /\ next \in {"reusing", "ingesting", "sending"} => FALSE
        /\ next = "completing" => Delivery(m) \in deliveries'
  OBVIOUS
<1>2. MayGo(m, next)
  <2>1. Delivering(m) => kind[m] = "open" /\ claim[m].request \in Updates
    BY DEF TypeInv, HandlerOK
  <2> QED BY <1>1, <2>1 DEF MayGo
<1>3. kind' = kind
  BY DEF input
<1> QED BY <1>1, <1>2, <1>3, GotoType DEF HandlersOK

\* A handler that notes the request it works on.
LEMMA NotesType ==
    ASSUME TypeInv, NEW m \in Updates, NEW c \in [request : Updates, lease : Nat],
           NEW next \in {"reusing", "ingesting", "sending"}, pc[m] # "idle",
           next = "sending" => kind[m] = "open",
           pc' = [pc EXCEPT ![m] = next], claim' = [claim EXCEPT ![m] = c],
           UNCHANGED <<input, attempts, actor, link, deliveries>>
    PROVE  HandlersOK'
<1>1. claim' \in [Updates -> [request : Updates \union {0}, lease : Nat]] /\ pc' \in [Updates -> PCs]
  BY DEF TypeInv, TypeOK, PCs
<1>2. ASSUME NEW n \in Updates, n # m PROVE HandlerOK(n)'
  <2>1. pc'[n] = pc[n] /\ claim'[n] = claim[n] /\ HandlerOK(n) /\ kind' = kind
    BY <1>2 DEF TypeInv, TypeOK, input
  <2> QED BY <2>1, StayOK
<1>3. HandlerOK(m)'
  <2>1. pc'[m] = next /\ claim'[m] = c /\ HandlerOK(m) /\ kind' = kind /\ c.request \in Updates
    BY DEF TypeInv, TypeOK, input
  <2>2. pc'[m] # "completing" /\ pc'[m] # "claiming" /\ (Delivering(m)' => next = "sending")
    BY <2>1 DEF Delivering
  <2> QED BY <2>1, <2>2 DEF HandlerOK
<1> QED BY <1>1, <1>2, <1>3 DEF HandlersOK, TypeInv, TypeOK

\* The three steps that do.
LEMMA Notes ==
    ASSUME TypeInv, NEW m \in Updates,
           (Check(m) /\ pc'[m] = "reusing") \/ ClaimIngest(m) \/ ClaimOpen(m)
    PROVE  /\ pc[m] \notin {"idle", "done"}
           /\ UNCHANGED <<input, attempts, actor, link, deliveries>>
           /\ \E c \in [request : Updates, lease : Nat], next \in {"reusing", "ingesting", "sending"} :
                  /\ pc' = [pc EXCEPT ![m] = next] /\ claim' = [claim EXCEPT ![m] = c]
                  /\ next = "sending" <=> pc[m] = "claiming"
                  /\ next = "sending" => ClaimOpen(m)
<1>1. CASE Check(m) /\ pc'[m] = "reusing"
  <2>1. ASSUME NEW next \in {"inserting", "done", "idle"}, Goto(m, next) PROVE FALSE
    BY <1>1, <2>1 DEF Goto, TypeInv, TypeOK
  <2>2. PICK r \in Updates :
          /\ pc' = [pc EXCEPT ![m] = "reusing"]
          /\ claim' = [claim EXCEPT ![m].request = r]
          /\ UNCHANGED <<attempts, actor, link>>
    BY <1>1, <2>1 DEF Check, End
  <2>3. claim[m].lease \in Nat /\ claim' = [claim EXCEPT ![m] = [request |-> r, lease |-> claim[m].lease]]
    <3>1. claim[m] \in [request : Updates \union {0}, lease : Nat]
      BY DEF TypeInv, TypeOK
    <3>2. ASSUME NEW c \in [request : Updates \union {0}, lease : Nat]
          PROVE  c.lease \in Nat /\ [c EXCEPT !.request = r] = [request |-> r, lease |-> c.lease]
      OBVIOUS
    <3>3. [claim[m] EXCEPT !.request = r] = [request |-> r, lease |-> claim[m].lease]
      BY <3>1, <3>2
    <3>4. claim' = [claim EXCEPT ![m] = [claim[m] EXCEPT !.request = r]]
      BY <2>2
    <3> QED BY <3>1, <3>2, <3>3, <3>4
  <2> QED BY <1>1, <2>2, <2>3 DEF Check, chat
<1>2. CASE ClaimIngest(m)
  <2>1. clock + IngestLease \in Nat
    BY Numbers DEF TypeInv, TypeOK
  <2> QED BY <1>2, <2>1 DEF ClaimIngest, chat
<1>3. CASE ClaimOpen(m)
  <2>1. clock + OpenLease \in Nat
    BY Numbers DEF TypeInv, TypeOK
  <2> QED BY <1>3, <2>1 DEF ClaimOpen, chat
<1> QED BY <1>1, <1>2, <1>3

\* The start of a handler.
LEMMA StartType ==
    ASSUME TypeInv, NEW m \in Updates, Start(m)
    PROVE  HandlersOK' /\ UNCHANGED <<input, claim, deliveries>>
<1>1. /\ pc' = [pc EXCEPT ![m] = "started"] /\ attempts' = [attempts EXCEPT ![m] = @ + 1]
      /\ UNCHANGED <<input, claim, deliveries>>
  BY DEF Start, chat
<1>2. attempts[m] + 1 \in 1..MaxAttempts
  BY Numbers DEF Start, TypeInv, TypeOK, InputOK
<1>3. pc' \in [Updates -> PCs] /\ attempts' \in [Updates -> 0..MaxAttempts]
  BY <1>1, <1>2 DEF TypeInv, TypeOK, PCs
<1>4. /\ actor' \in [Updates -> Users \union {Nobody}] /\ link' \in [Updates -> Tokens \union {NoToken}]
      /\ \A n \in Updates \ {m} : actor'[n] = actor[n]
      /\ kind[m] = "open" => actor'[m] \in Users
  <2>1. posted \subseteq Tokens
    BY DEF TypeInv, TypeOK
  <2>2. CASE kind[m] = "open" /\ attempts[m] = 0
    BY <2>1, <2>2 DEF Start, TypeInv, TypeOK
  <2>3. CASE ~(kind[m] = "open" /\ attempts[m] = 0)
    BY <2>3 DEF Start, TypeInv, TypeOK, HandlerOK
  <2> QED BY <2>2, <2>3
<1>5. ASSUME NEW n \in Updates, n # m PROVE HandlerOK(n)'
  <2>1. pc'[n] = pc[n] /\ claim'[n] = claim[n] /\ attempts'[n] = attempts[n] /\ actor'[n] = actor[n]
        /\ HandlerOK(n) /\ kind' = kind /\ deliveries \subseteq deliveries'
    BY <1>1, <1>4, <1>5 DEF TypeInv, TypeOK, input
  <2> QED BY <2>1, StayOK
<1>6. HandlerOK(m)'
  <2>1. pc'[m] = "started" /\ attempts'[m] # 0 /\ kind' = kind
    BY <1>1, <1>2 DEF TypeInv, TypeOK, input
  <2> QED BY <1>4, <2>1 DEF HandlerOK, Delivering
<1> QED BY <1>1, <1>3, <1>4, <1>5, <1>6 DEF HandlersOK, TypeInv, TypeOK

\* Every step of a handler is of one of these kinds; it moves no other handler.
LEMMA HandlerStep ==
    ASSUME TypeInv, NEW m \in Updates, Handle(m) \/ Lost(m)
    PROVE  /\ HandlersOK' /\ pc[m] \notin {"idle", "done"}
           /\ UNCHANGED <<input, attempts, actor, link>> /\ deliveries \subseteq deliveries'
           /\ \A n \in Updates \ {m} : pc'[n] = pc[n] /\ claim'[n] = claim[n]
           /\ Delivering(m)' => (Delivering(m) /\ claim'[m] = claim[m]) \/ ClaimOpen(m)
<1> DEFINE Note == (Check(m) /\ pc'[m] = "reusing") \/ ClaimIngest(m) \/ ClaimOpen(m)
<1>1. CASE Note
  <2>1. PICK c \in [request : Updates, lease : Nat], next \in {"reusing", "ingesting", "sending"} :
          /\ pc' = [pc EXCEPT ![m] = next] /\ claim' = [claim EXCEPT ![m] = c]
          /\ next = "sending" <=> pc[m] = "claiming"
          /\ next = "sending" => ClaimOpen(m)
    BY <1>1, Notes
  <2>2. pc[m] \notin {"idle", "done"} /\ UNCHANGED <<input, attempts, actor, link, deliveries>>
    BY <1>1, Notes
  <2>3. next = "sending" => kind[m] = "open"
    BY <2>1 DEF TypeInv, HandlerOK
  <2>4. HandlersOK'
    BY <2>1, <2>2, <2>3, NotesType
  <2> QED BY <2>1, <2>2, <2>4 DEF TypeInv, TypeOK, Delivering
<1>2. CASE ~Note
  <2>1. /\ pc[m] \notin {"idle", "done"} /\ UNCHANGED input /\ deliveries \subseteq deliveries'
        /\ \E next \in PCs :
               /\ Goto(m, next)
               /\ next \in {"claiming"} => kind[m] = "open"
               /\ next \in {"failing", "completing"} => Delivering(m)
               /\ next \in {"reusing", "ingesting", "sending"} => FALSE
               /\ next = "completing" => Delivery(m) \in deliveries'
    BY <1>2, MovesOn DEF Handle
  <2>2. HandlersOK'
    BY <2>1, MovesOnType
  <2>3. PICK next \in PCs : Goto(m, next) /\ next # "sending" /\ (next \in {"failing", "completing"} => Delivering(m))
    BY <2>1
  <2>4. pc' = [pc EXCEPT ![m] = next] /\ UNCHANGED <<attempts, actor, link>>
        /\ claim' = IF next \in {"idle", "done"} THEN [claim EXCEPT ![m] = NoClaim] ELSE claim
    BY <2>3 DEF Goto
  <2>5. \A n \in Updates \ {m} : pc'[n] = pc[n] /\ claim'[n] = claim[n]
    BY <2>4 DEF TypeInv, TypeOK
  <2>6. Delivering(m)' => Delivering(m) /\ claim'[m] = claim[m]
    BY <2>3, <2>4 DEF Delivering, TypeInv, TypeOK
  <2> QED BY <2>1, <2>2, <2>4, <2>5, <2>6
<1> QED BY <1>1, <1>2

\* What is left once the handlers have their turn.
Others ==
    \/ Cleanup \/ Rename \/ Tick \/ UNCHANGED vars
    \/ \E w \in Workers : \/ DeleteWorker(w)
                          \/ D!WorkerLost(w) /\ UNCHANGED <<clock, input, holder, req, handlers, chat>>

\* It leaves the handlers and the messages alone.
LEMMA OthersStep ==
    ASSUME Others
    PROVE  UNCHANGED <<input, handlers, chat>>
  BY DEF Others, Cleanup, Rename, Tick, DeleteWorker, vars

\* The steps of a behaviour.
LEMMA Steps == [Next]_vars => Others \/ \E m \in Updates : Start(m) \/ Handle(m) \/ Lost(m)
  BY DEF Next, Others

----------------------------------------------------------------------------
(* Every step keeps the types                                              *)

\* The clock, the username, and the messages.
LEMMA RestType ==
    ASSUME TypeInv, [Next]_vars
    PROVE  /\ clock' \in 0..MaxClock /\ holder' \in Users
           /\ posted' \subseteq Tokens
           /\ deliveries' \subseteq Messages /\ excused' \subseteq deliveries' /\ asked' \subseteq deliveries'
<1>1. CASE Others
  <2>1. UNCHANGED chat
    BY <1>1, OthersStep
  <2>2. clock' \in 0..MaxClock
    <3>1. CASE Tick
      BY <3>1, Numbers DEF Tick, TypeInv, TypeOK
    <3>2. CASE ~Tick
      BY <1>1, <3>2 DEF Others, Cleanup, Rename, DeleteWorker, vars, TypeInv, TypeOK
    <3> QED BY <3>1, <3>2
  <2>3. holder' \in Users
    BY <1>1 DEF Others, Cleanup, Rename, Tick, DeleteWorker, vars, TypeInv, TypeOK
  <2> QED BY <2>1, <2>2, <2>3 DEF chat, TypeInv, TypeOK
<1>2. ASSUME NEW m \in Updates, Start(m) \/ Handle(m) \/ Lost(m)
      PROVE  UNCHANGED <<clock, holder>>
  BY <1>2 DEF Start, Handle, Lost, Check, Reuse, Insert, Answered, AnswerFailed, ClaimIngest, NothingWaits,
              Finalize, IngestFailed, Cancel, Begin, Denied, ClaimOpen, ClaimRefused, Send, FailOpen,
              CompleteOpen, CompleteFailed
<1>3. ASSUME NEW m \in Updates, Answered(m)
      PROVE  posted' \subseteq Tokens /\ UNCHANGED <<deliveries, excused, asked>>
  BY <1>3, TokenType DEF Answered, TypeInv, TypeOK
<1>4. ASSUME NEW m \in Updates, Send(m)
      PROVE  /\ deliveries' \subseteq Messages /\ excused' \subseteq deliveries' /\ asked' \subseteq deliveries'
             /\ UNCHANGED posted
  <2>1. Delivery(m) \in Messages
    BY <1>4, DeliveryType DEF Send, Delivering
  <2> QED BY <1>4, <2>1 DEF Send, TypeInv, TypeOK
<1>5. ASSUME NEW m \in Updates, CompleteOpen(m) \/ CompleteFailed(m) \/ Lost(m)
      PROVE  /\ excused' \subseteq deliveries /\ asked' \subseteq deliveries
             /\ UNCHANGED <<posted, deliveries>>
  <2>1. pc[m] = "completing" => Delivery(m) \in deliveries
    BY DEF TypeInv, HandlerOK
  <2> QED BY <1>5, <2>1 DEF CompleteOpen, CompleteFailed, Lost, TypeInv, TypeOK
<1>6. ASSUME NEW m \in Updates, Start(m) \/ Handle(m) \/ Lost(m),
             ~(Answered(m) \/ Send(m) \/ CompleteOpen(m) \/ CompleteFailed(m) \/ Lost(m))
      PROVE  UNCHANGED chat
  BY <1>6 DEF Start, Handle, Check, Reuse, Insert, AnswerFailed, ClaimIngest, NothingWaits,
              Finalize, IngestFailed, Cancel, Begin, Denied, ClaimOpen, ClaimRefused, FailOpen
<1> QED BY <1>1, <1>2, <1>3, <1>4, <1>5, <1>6, Steps DEF chat, TypeInv, TypeOK

\* The queue of deletions gets its jobs from the completed openings.
LEMMA QueueType ==
    ASSUME TypeInv, [Next]_vars
    PROVE  JobsOK'
<1>1. JobsOK /\ clock \in Nat
  BY JobsTypes, Numbers DEF TypeInv, TypeOK
<1>2. ASSUME NEW m \in Updates, CompleteOpen(m) PROVE JobsOK'
  <2>1. Delivery(m) \in Messages
    BY <1>2, DeliveryType DEF CompleteOpen, Delivering
  <2>2. PICK delay \in DeleteDelays :
          IF delay > 0 THEN jobs' = D!Queued(Delivery(m), clock + delay) ELSE UNCHANGED jobs
    BY <1>2 DEF CompleteOpen
  <2>3. clock + delay \in Nat /\ UNCHANGED <<busy, gone, leftBehind>>
    BY <1>1, <1>2, Numbers DEF CompleteOpen
  <2>4. CASE UNCHANGED jobs
    BY <1>1, <2>3, <2>4, WorkType DEF jobVars
  <2>5. CASE jobs' = D!Queued(Delivery(m), clock + delay)
    BY <1>1, <2>1, <2>3, <2>5, QueuedType
  <2> QED BY <2>2, <2>4, <2>5
<1>3. ASSUME NEW m \in Updates, Start(m) \/ Handle(m) \/ Lost(m), ~CompleteOpen(m)
      PROVE  UNCHANGED jobVars
  BY <1>3 DEF Start, Handle, Lost, Check, Reuse, Insert, Answered, AnswerFailed, ClaimIngest, NothingWaits,
              Finalize, IngestFailed, Cancel, Begin, Denied, ClaimOpen, ClaimRefused, Send, FailOpen,
              CompleteFailed
<1>4. ASSUME Others
      PROVE  (\E w \in Workers : D!Work(w) \/ D!WorkerLost(w)) \/ D!PruneJobs \/ UNCHANGED jobVars
  BY <1>4 DEF Others, Cleanup, Rename, Tick, DeleteWorker, vars
<1> QED BY <1>1, <1>2, <1>3, <1>4, WorkType, Steps

\* Every step keeps the types.
LEMMA TypeStep == TypeInv /\ [Next]_vars => TypeInv'
<1> SUFFICES ASSUME TypeInv, [Next]_vars PROVE TypeInv'
  OBVIOUS
<1>1. HandlersOK' /\ UNCHANGED input
  <2>1. CASE Others
    <3>1. UNCHANGED <<input, handlers, chat>>
      BY <2>1, OthersStep
    <3>2. \A n \in Updates : HandlerOK(n)'
      BY <3>1 DEF handlers, chat, input, HandlerOK, Delivering, Delivery, TypeInv
    <3> QED BY <3>1, <3>2 DEF handlers, HandlersOK, TypeInv, TypeOK
  <2> QED BY <2>1, Steps, StartType, HandlerStep
<1>2. InputOK'
  BY <1>1 DEF input, InputOK, TypeInv
<1>3. req' \in [Updates -> RowType]
  BY RowEffects DEF Effects
<1>4. D!JobsTypeOK(Messages)' /\ DOMAIN busy' = Workers
  BY QueueType, JobsTypes
<1> QED BY <1>1, <1>2, <1>3, <1>4, RestType DEF HandlersOK, RowType, TypeInv, TypeOK

----------------------------------------------------------------------------
(* Steps, as the invariants see them                                       *)

\* What an effect leaves of a request that exists.
LEMMA RowFields ==
    ASSUME TypeInv, Effects, NEW r \in Updates, ~Inserted(r)
    PROVE  /\ req'[r].hint = req[r].hint
           /\ req'[r].target = req[r].target
              \/ \E m \in Updates : Openable(m, r) /\ req'[r].target = actor[m]
           /\ req'[r].expires = req[r].expires \/ (Extended(r) /\ req'[r].expires = clock + TTL)
           /\ req'[r].message = req[r].message
              \/ \E m \in Updates : OpenedBy(r, m) /\ req'[r].message = Token(m)
<1>1. req[r] \in RowType
  BY DEF TypeInv, TypeOK, RowType
<1>2. CASE Untouched(r)
  BY <1>2 DEF Untouched
<1>3. CASE Extended(r)
  BY <1>1, <1>3 DEF Extended, RowType
<1>4. CASE Moved(r)
  BY <1>1, <1>4 DEF Moved, RowType
<1>5. ASSUME NEW m \in Updates, BoundTo(r, m) \/ Reserved(r, m)
      PROVE  /\ UNCHANGED <<req[r].hint, req[r].expires, req[r].message>>
             /\ Openable(m, r) /\ req'[r].target = actor[m]
  BY <1>1, <1>5 DEF BoundTo, Reserved, RowType
<1>6. ASSUME NEW m \in Updates, OpenedBy(r, m)
      PROVE  /\ UNCHANGED <<req[r].hint, req[r].target, req[r].expires>>
             /\ req'[r].message = Token(m)
  BY <1>1, <1>6 DEF OpenedBy, RowType
<1> QED BY <1>2, <1>3, <1>4, <1>5, <1>6 DEF Effects

\* How the state of a request that exists moves, and its lease.
LEMMA StateMoves ==
    ASSUME TypeInv, Effects, NEW r \in Updates, ~Inserted(r)
    PROVE  \/ req'[r].state = req[r].state /\ req'[r].lease = req[r].lease
           \/ MayMove(r, req'[r].state) /\ req'[r].expires = req[r].expires /\ req'[r].message = req[r].message
           \/ \E m \in Updates : Reserved(r, m) /\ req'[r].state = "opening" /\ req'[r].lease = clock + OpenLease
           \/ \E m \in Updates : OpenedBy(r, m) /\ req'[r].state = "opened"
<1>1. req[r] \in RowType
  BY DEF TypeInv, TypeOK, RowType
<1>2. CASE Untouched(r)
  BY <1>2 DEF Untouched
<1>3. CASE Extended(r)
  BY <1>1, <1>3 DEF Extended, RowType
<1>4. CASE Moved(r)
  <2>1. PICK s \in States, l \in Nat : MayMove(r, s) /\ req'[r] = [req[r] EXCEPT !.state = s, !.lease = l]
    BY <1>4 DEF Moved
  <2>2. req'[r].state = s /\ req'[r].expires = req[r].expires /\ req'[r].message = req[r].message
    BY <1>1, <2>1 DEF RowType
  <2> QED BY <2>1, <2>2
<1>5. ASSUME NEW m \in Updates, BoundTo(r, m)
      PROVE  req'[r].state = req[r].state /\ req'[r].lease = req[r].lease
  BY <1>1, <1>5 DEF BoundTo, RowType
<1>6. ASSUME NEW m \in Updates, Reserved(r, m)
      PROVE  req'[r].state = "opening" /\ req'[r].lease = clock + OpenLease
  BY <1>1, <1>6 DEF Reserved, RowType
<1>7. ASSUME NEW m \in Updates, OpenedBy(r, m) PROVE req'[r].state = "opened"
  BY <1>1, <1>7 DEF OpenedBy, RowType
<1> QED BY <1>2, <1>3, <1>4, <1>5, <1>6, <1>7 DEF Effects

\* A new row.
LEMMA InsertedFields ==
    ASSUME NEW r \in Updates, Inserted(r)
    PROVE  /\ req[r].state = "none"
           /\ req'[r].state \in {"ready", "awaiting"} /\ req'[r].message = NoToken
           /\ req'[r].hint = hint[r] /\ (hint[r] \in Users => req'[r].target = hint[r])
           /\ req'[r].expires \in {clock + PreviewTTL, clock + TTL}
  BY DEF Inserted, NewRow

\* What is over stays over.
LEMMA OverStep ==
    ASSUME TypeInv, [Next]_vars, NEW r \in Updates,
           req[r].state \in {"opened", "cancelled", "expired", "gone"}
    PROVE  req'[r].state \in {req[r].state, "gone"}
<1>1. ~Inserted(r)
  BY DEF Inserted
<1>2. \A m \in Updates : ~Reserved(r, m) /\ ~OpenedBy(r, m)
  BY DEF Reserved, Claimable, OpenedBy, CompleteOpen, Holds
<1>3. \A s \in States : MayMove(r, s) => s = "gone"
  BY DEF MayMove, Waiting
<1>4. req'[r].state \in States
  BY RowEffects DEF Effects, RowType
<1> QED BY <1>1, <1>2, <1>3, <1>4, RowEffects, StateMoves

\* A row is never taken away.
LEMMA RowStays ==
    ASSUME TypeInv, [Next]_vars, NEW r \in Updates, req[r].state # "none"
    PROVE  ~Inserted(r) /\ req'[r].state # "none"
<1>1. ~Inserted(r)
  BY DEF Inserted
<1>2. ~MayMove(r, "none")
  BY DEF MayMove
<1> QED BY <1>1, <1>2, RowEffects, StateMoves

\* Time passes while no request changes, and no reuse is under way.
LEMMA ClockStep ==
    ASSUME TypeInv, [Next]_vars
    PROVE  /\ clock \in Nat /\ clock' \in Nat /\ clock <= clock'
           /\ \/ clock' = clock
              \/ /\ UNCHANGED <<req, pc, claim>>
                 /\ \A m \in Updates : pc[m] \notin {"reusing", "inserting"}
<1>1. clock \in Nat /\ clock' \in Nat
  BY RestType, Numbers DEF TypeInv, TypeOK
<1>2. CASE Tick
  BY <1>1, <1>2 DEF Tick, handlers
<1>3. CASE ~Tick /\ Others
  BY <1>1, <1>3 DEF Others, Cleanup, Rename, DeleteWorker, vars
<1>4. ASSUME NEW m \in Updates, Start(m) \/ Handle(m) \/ Lost(m)
      PROVE  UNCHANGED clock
  BY <1>4 DEF Start, Handle, Lost, Check, Reuse, Insert, Answered, AnswerFailed, ClaimIngest, NothingWaits,
              Finalize, IngestFailed, Cancel, Begin, Denied, ClaimOpen, ClaimRefused, Send, FailOpen,
              CompleteOpen, CompleteFailed
<1> QED BY <1>1, <1>2, <1>3, <1>4, Steps

\* Who delivers did so before, on the same request, or has just reserved it.
LEMMA DeliveringStep ==
    ASSUME TypeInv, [Next]_vars, NEW m \in Updates, Delivering(m)'
    PROVE  ClaimOpen(m) \/ (Delivering(m) /\ UNCHANGED <<claim[m], actor[m], attempts[m]>>)
<1>1. CASE Others
  BY <1>1, OthersStep DEF handlers, Delivering
<1>2. ASSUME NEW n \in Updates, Start(n)
      PROVE  Delivering(m) /\ UNCHANGED <<claim[m], actor[m], attempts[m]>>
  <2>1. pc' = [pc EXCEPT ![n] = "started"] /\ attempts' = [attempts EXCEPT ![n] = @ + 1] /\ claim' = claim
    BY <1>2 DEF Start
  <2>2. n # m
    BY <2>1 DEF Delivering, TypeInv, TypeOK
  <2>3. actor'[m] = actor[m]
    <3>1. CASE kind[n] = "open" /\ attempts[n] = 0
      BY <1>2, <2>2, <3>1 DEF Start, TypeInv, TypeOK
    <3>2. CASE ~(kind[n] = "open" /\ attempts[n] = 0)
      BY <1>2, <3>2 DEF Start
    <3> QED BY <3>1, <3>2
  <2> QED BY <2>1, <2>2, <2>3 DEF Delivering, TypeInv, TypeOK
<1>3. ASSUME NEW n \in Updates, Handle(n) \/ Lost(n)
      PROVE  ClaimOpen(m) \/ (Delivering(m) /\ UNCHANGED <<claim[m], actor[m], attempts[m]>>)
  BY <1>3, HandlerStep DEF Delivering
<1> QED BY <1>1, <1>2, <1>3, Steps

\* A press that reserves moves no other.
LEMMA ReserveEffect ==
    ASSUME TypeInv, NEW m \in Updates, ClaimOpen(m)
    PROVE  /\ \E r \in Updates : Reserved(r, m) /\ claim'[m].request = r
           /\ \A n \in Updates \ {m} : pc'[n] = pc[n] /\ claim'[n] = claim[n]
<1>1. PICK r \in Updates :
        /\ Openable(m, r) /\ Claimable(r)
        /\ req' = [req EXCEPT ![r].state = "opening", ![r].lease = clock + OpenLease,
                              ![r].target = actor[m]]
        /\ claim' = [claim EXCEPT ![m] = [request |-> r, lease |-> clock + OpenLease]]
  BY DEF ClaimOpen
<1>2. req' = [q \in Updates |->
                IF q = r THEN [req[r] EXCEPT !.state = "opening", !.lease = clock + OpenLease,
                                             !.target = actor[m]]
                         ELSE req[q]]
  BY <1>1 DEF TypeInv, TypeOK
<1>3. claim'[m] = [request |-> r, lease |-> clock + OpenLease]
  BY <1>1 DEF TypeInv, TypeOK
<1>4. Reserved(r, m) /\ claim'[m].request = r
  BY <1>1, <1>2, <1>3 DEF Reserved
<1> QED BY <1>4, HandlerStep DEF Handle

\* A new message is one that a handler sends.
LEMMA DeliveriesStep ==
    ASSUME TypeInv, [Next]_vars, NEW d \in deliveries', d \notin deliveries
    PROVE  \E m \in Updates : Send(m) /\ d = Delivery(m)
<1>1. ASSUME NEW m \in Updates, Start(m) \/ Handle(m) \/ Lost(m), ~Send(m)
      PROVE  UNCHANGED deliveries
  BY <1>1 DEF Start, Handle, Lost, Check, Reuse, Insert, Answered, AnswerFailed, ClaimIngest, NothingWaits,
              Finalize, IngestFailed, Cancel, Begin, Denied, ClaimOpen, ClaimRefused, FailOpen,
              CompleteOpen, CompleteFailed, chat
<1>2. CASE Others
  BY <1>2, OthersStep DEF chat
<1>3. ASSUME NEW m \in Updates, Send(m) PROVE d = Delivery(m)
  BY <1>3 DEF Send
<1> QED BY <1>1, <1>2, <1>3, Steps

----------------------------------------------------------------------------
(* Whom a request is for                                                   *)

\* Who is bound stays bound.
LEMMA BoundStays ==
    ASSUME TypeInv, [Next]_vars, NEW r \in Updates, req[r].state # "none", req[r].target \in Users
    PROVE  req'[r].state # "none" /\ req'[r].target = req[r].target /\ req'[r].hint = req[r].hint
<1>1. \A m \in Updates : Openable(m, r) => actor[m] = req[r].target
  BY GuestAssumption DEF GuestAssumption, Openable, Authorized
<1> QED BY <1>1, RowStays, RowFields, RowEffects

\* A request that names an id is bound to it.
LEMMA NamedStep == TypeInv /\ TargetIsNamed /\ [Next]_vars => TargetIsNamed'
<1> SUFFICES ASSUME TypeInv, TargetIsNamed, [Next]_vars, NEW r \in Updates,
                    req'[r].state # "none", req'[r].hint \in Users
             PROVE  req'[r].target = req'[r].hint
  BY DEF TargetIsNamed
<1>1. CASE Inserted(r)
  BY <1>1, InsertedFields
<1>2. CASE ~Inserted(r) /\ req[r].state # "none"
  <2>1. req'[r].hint = req[r].hint
    BY <1>2, RowFields, RowEffects
  <2> QED BY <1>2, <2>1, BoundStays DEF TargetIsNamed
<1>3. CASE ~Inserted(r) /\ req[r].state = "none"
  <2>1. \A m \in Updates : ~Reserved(r, m) /\ ~OpenedBy(r, m)
    BY <1>3 DEF Reserved, Claimable, OpenedBy, CompleteOpen, Holds
  <2>2. ~MayMove(r, req'[r].state)
    BY <1>3 DEF MayMove, Waiting
  <2> QED BY <1>3, <2>1, <2>2, StateMoves, RowEffects
<1> QED BY <1>1, <1>2, <1>3

\* A delivery is to whom the request is bound.
LEMMA BoundStep == TypeInv /\ BoundToActor /\ [Next]_vars => BoundToActor'
<1> SUFFICES ASSUME TypeInv, BoundToActor, [Next]_vars PROVE BoundToActor'
  OBVIOUS
<1>1. ASSUME NEW m \in Updates, Delivering(m)
      PROVE  claim[m].request \in Updates /\ actor[m] \in Users
  BY <1>1 DEF TypeInv, HandlerOK, Delivering
<1>2. ASSUME NEW m \in Updates, Delivering(m)'
      PROVE  req'[claim'[m].request].state # "none" /\ req'[claim'[m].request].target = actor'[m]
  <2>1. CASE ClaimOpen(m)
    <3>1. PICK r \in Updates : Reserved(r, m) /\ claim'[m].request = r
      BY <2>1, ReserveEffect
    <3>2. req[r] \in RowType
      BY DEF TypeInv, TypeOK, RowType
    <3>3. req'[r].state = "opening" /\ req'[r].target = actor[m]
      BY <3>1, <3>2 DEF Reserved, RowType
    <3> QED BY <2>1, <3>1, <3>3 DEF ClaimOpen
  <2>2. CASE Delivering(m) /\ UNCHANGED <<claim[m], actor[m], attempts[m]>>
    BY <1>1, <2>2, BoundStays DEF BoundToActor
  <2> QED BY <1>2, <2>1, <2>2, DeliveringStep
<1>3. ASSUME NEW d \in deliveries'
      PROVE  req'[d.request].state # "none" /\ req'[d.request].target = d.to
  <2>1. CASE d \in deliveries
    <3>1. d.request \in Updates /\ d.to \in Users
      BY <2>1 DEF TypeInv, TypeOK, Messages
    <3> QED BY <2>1, <3>1, BoundStays DEF BoundToActor
  <2>2. ASSUME NEW m \in Updates, Send(m), d = Delivery(m)
        PROVE  req'[d.request].state # "none" /\ req'[d.request].target = d.to
    <3>1. Delivering(m) /\ UNCHANGED req
      BY <2>2 DEF Send, Delivering
    <3> QED BY <2>2, <3>1 DEF BoundToActor, Delivery
  <2> QED BY <2>1, <2>2, DeliveriesStep
<1> QED BY <1>2, <1>3 DEF BoundToActor

----------------------------------------------------------------------------
(* Expiry                                                                  *)

\* Who is about to reuse a request has found it before, or finds it now.
LEMMA ReusingStep ==
    ASSUME TypeInv, [Next]_vars, NEW m \in Updates, pc'[m] = "reusing"
    PROVE  \/ pc[m] = "reusing" /\ claim'[m] = claim[m]
           \/ /\ UNCHANGED <<clock, req>> /\ claim'[m].request \in Updates
              /\ Unexpired(claim'[m].request)
<1>1. CASE Others
  BY <1>1, OthersStep DEF handlers
<1>2. ASSUME NEW n \in Updates, Start(n) \/ Handle(n) \/ Lost(n), n # m
      PROVE  pc'[m] = pc[m] /\ claim'[m] = claim[m]
  BY <1>2, HandlerStep DEF Start, TypeInv, TypeOK
<1>3. CASE Start(m)
  BY <1>3 DEF Start, TypeInv, TypeOK
<1>4. CASE Check(m)
  <2>1. ASSUME NEW next \in {"inserting", "done", "idle"}, Goto(m, next) PROVE FALSE
    BY <2>1 DEF Goto, TypeInv, TypeOK
  <2>2. PICK r \in Updates : Unexpired(r) /\ claim' = [claim EXCEPT ![m].request = r]
    BY <1>4, <2>1 DEF Check, End, Reusable
  <2>3. claim'[m].request = r
    BY <2>2 DEF TypeInv, TypeOK
  <2> QED BY <1>4, <2>2, <2>3 DEF Check
<1>5. CASE (Handle(m) \/ Lost(m)) /\ ~Check(m)
  <2>1. CASE ClaimIngest(m) \/ ClaimOpen(m)
    BY <2>1 DEF ClaimIngest, ClaimOpen, TypeInv, TypeOK
  <2>2. CASE ~(ClaimIngest(m) \/ ClaimOpen(m))
    <3>1. PICK next \in PCs : Goto(m, next) /\ next # "reusing"
      BY <1>5, <2>2, MovesOn DEF Handle
    <3> QED BY <3>1 DEF Goto, TypeInv, TypeOK
  <2> QED BY <2>1, <2>2
<1> QED BY <1>1, <1>2, <1>3, <1>4, <1>5, Steps

\* What a reuse extends has not expired, and so nothing that expired comes back.
LEMMA ExpiryStep ==
    TypeInv /\ ReusedInTime /\ ExpiredIsOver /\ [Next]_vars => ReusedInTime' /\ ExpiredIsOver'
<1> SUFFICES ASSUME TypeInv, ReusedInTime, ExpiredIsOver, [Next]_vars
             PROVE  ReusedInTime' /\ ExpiredIsOver'
  OBVIOUS
<1>1. ASSUME NEW r \in Updates, clock' = clock, Unexpired(r) \/ Inserted(r)
      PROVE  clock' < req'[r].expires
  <2>1. CASE Inserted(r)
    BY <1>1, <2>1, InsertedFields, Numbers, ClockStep DEF Unexpired
  <2>2. CASE ~Inserted(r)
    <3>1. req'[r].expires \in {req[r].expires, clock + TTL}
      BY <2>2, RowFields, RowEffects
    <3> QED BY <1>1, <2>2, <3>1, Numbers, ClockStep DEF Unexpired
  <2> QED BY <2>1, <2>2
<1>2. ASSUME NEW m \in Updates, pc'[m] = "reusing" PROVE clock' < req'[claim'[m].request].expires
  <2>1. CASE pc[m] = "reusing" /\ claim'[m] = claim[m]
    <3>1. claim[m].request \in Updates /\ Unexpired(claim[m].request)
      BY <2>1 DEF TypeInv, HandlerOK, ReusedInTime
    <3>2. clock' = clock
      BY <2>1, ClockStep
    <3> QED BY <1>1, <2>1, <3>1, <3>2
  <2>2. CASE /\ UNCHANGED <<clock, req>> /\ claim'[m].request \in Updates
             /\ Unexpired(claim'[m].request)
    BY <2>2 DEF Unexpired
  <2> QED BY <1>2, <2>1, <2>2, ReusingStep
<1>3. ASSUME NEW r \in Updates, req'[r].state = "expired" PROVE ~Unexpired(r)'
  <2>1. ~Inserted(r)
    BY <1>3, InsertedFields
  <2>2. ~Unexpired(r)
    BY <1>3, <2>1, StateMoves, RowEffects DEF ExpiredIsOver, MayMove
  <2>3. ~Extended(r)
    BY <2>2 DEF Extended, Reuse, ReusedInTime
  <2>4. req'[r].expires = req[r].expires /\ req[r].expires \in Nat
    BY <2>1, <2>3, RowFields, RowEffects DEF TypeInv, TypeOK
  <2> QED BY <2>2, <2>4, ClockStep DEF Unexpired
<1> QED BY <1>2, <1>3 DEF ReusedInTime, ExpiredIsOver, Unexpired

----------------------------------------------------------------------------
(* Deliveries and their record                                             *)

\* A row gets its message once, when it is opened.
LEMMA RecordStep == TypeInv /\ RecordIsFinal /\ [Next]_vars => RecordIsFinal'
<1> SUFFICES ASSUME TypeInv, RecordIsFinal, [Next]_vars, NEW r \in Updates, req'[r].message # NoToken
             PROVE  req'[r].state \in {"opened", "gone"}
  BY DEF RecordIsFinal
<1>1. ~Inserted(r)
  BY InsertedFields
<1>2. CASE req[r].message # NoToken
  BY <1>2, OverStep DEF RecordIsFinal
<1>3. ASSUME NEW m \in Updates, OpenedBy(r, m) PROVE req'[r].state = "opened"
  BY <1>3 DEF OpenedBy, TypeInv, TypeOK
<1> QED BY <1>1, <1>2, <1>3, RowFields, RowEffects

\* Once it is there it stays.
LEMMA RecordStays ==
    ASSUME TypeInv, RecordIsFinal, [Next]_vars, NEW r \in Updates, req[r].message # NoToken
    PROVE  req'[r].message = req[r].message
<1>1. req[r].state \in {"opened", "gone"}
  BY DEF RecordIsFinal
<1>2. ~Inserted(r)
  BY <1>1 DEF Inserted
<1>3. \A m \in Updates : ~OpenedBy(r, m)
  BY <1>1 DEF OpenedBy, CompleteOpen, Holds
<1> QED BY <1>2, <1>3, RowFields, RowEffects

\* A delivery that ends is no longer under way.
LEMMA DeliveryEnds ==
    ASSUME TypeInv, NEW m \in Updates, FailOpen(m) \/ CompleteOpen(m)
    PROVE  Delivering(m) /\ ~Delivering(m)'
<1>1. PICK next \in {"done", "idle"} : Goto(m, next)
  BY DEF FailOpen, CompleteOpen, End
<1>2. pc'[m] = next
  BY <1>1 DEF Goto, TypeInv, TypeOK
<1> QED BY <1>2 DEF FailOpen, CompleteOpen, Delivering

\* No one else ends the delivery of who is in time.
LEMMA HeldInTime ==
    ASSUME TypeInv, OneInTime, NEW m \in Updates, InTime(m), Holds(m, "opening"),
           NEW n \in Updates, claim[n].request = claim[m].request, Delivering(n), Holds(n, "opening")
    PROVE  n = m
<1>1. claim[n].lease = claim[m].lease
  BY DEF Holds
<1> QED BY <1>1 DEF InTime, OneInTime

\* Within its lease who reserved the row holds it, or a sweep ended it unopened.
LEMMA HoldsStep ==
    TypeInv /\ RecordIsFinal /\ InTimeHolds /\ OneInTime /\ [Next]_vars => InTimeHolds'
<1> SUFFICES ASSUME TypeInv, RecordIsFinal, InTimeHolds, OneInTime, [Next]_vars,
                    NEW m \in Updates, InTime(m)'
             PROVE  \/ Holds(m, "opening")'
                    \/ /\ req'[claim'[m].request].state \in {"expired", "gone"}
                       /\ req'[claim'[m].request].message = NoToken
  BY DEF InTimeHolds
<1>1. CASE ClaimOpen(m)
  <2>1. PICK r \in Updates : Reserved(r, m) /\ claim'[m].request = r
    BY <1>1, ReserveEffect
  <2>2. req[r] \in RowType
    BY DEF TypeInv, TypeOK, RowType
  <2>3. /\ req'[r].state = "opening" /\ req'[r].lease = clock + OpenLease
        /\ claim'[m].lease = clock + OpenLease
    BY <2>1, <2>2 DEF Reserved, RowType
  <2> QED BY <2>1, <2>3 DEF Holds
<1>2. CASE Delivering(m) /\ claim'[m] = claim[m]
  <2> DEFINE r == claim[m].request
  <2>1. r \in Updates /\ claim[m].lease \in Nat
    BY <1>2 DEF TypeInv, HandlerOK, TypeOK
  <2>2. InTime(m) /\ Delivering(m)'
    BY <1>2, <2>1, ClockStep DEF InTime
  <2>3. CASE req[r].state \in {"expired", "gone"} /\ req[r].message = NoToken
    <3>1. req'[r].state \in {"expired", "gone"}
      BY <2>1, <2>3, OverStep
    <3>2. ~Inserted(r) /\ \A n \in Updates : ~OpenedBy(r, n)
      BY <2>3 DEF Inserted, OpenedBy, CompleteOpen, Holds
    <3>3. req'[r].message = NoToken
      BY <2>1, <2>3, <3>2, RowFields, RowEffects
    <3> QED BY <1>2, <3>1, <3>3
  <2>4. CASE Holds(m, "opening")
    <3>1. req[r].state = "opening" /\ req[r].lease = claim[m].lease /\ clock < req[r].lease
      BY <2>2, <2>4 DEF Holds, InTime
    <3>2. ~Inserted(r) /\ \A n \in Updates : ~Reserved(r, n)
      <4>1. ~(req[r].lease <= clock)
        BY <2>1, <3>1, ClockStep
      <4> QED BY <3>1, <4>1 DEF Inserted, Reserved, Claimable
    <3>3. \A n \in Updates : ~OpenedBy(r, n)
      <4> SUFFICES ASSUME NEW n \in Updates, OpenedBy(r, n) PROVE FALSE
        OBVIOUS
      <4>1. CompleteOpen(n) /\ claim[n].request = r /\ Holds(n, "opening") /\ Delivering(n)
        BY DEF OpenedBy, CompleteOpen, Delivering
      <4> QED BY <2>2, <2>4, <4>1, HeldInTime, DeliveryEnds
    <3>4. ASSUME NEW n \in Updates, FailOpen(n), claim[n].request = r, Holds(n, "opening")
          PROVE  FALSE
      BY <2>2, <2>4, <3>4, HeldInTime, DeliveryEnds DEF FailOpen, Delivering
    <3>5. CASE MayMove(r, req'[r].state) /\ req'[r].message = req[r].message
      <4>1. req'[r].state \in {"gone", "expired"}
        BY <2>1, <3>1, <3>4, <3>5, ClockStep DEF MayMove, Waiting
      <4>2. req[r].message = NoToken
        BY <2>1, <3>1 DEF RecordIsFinal
      <4> QED BY <1>2, <3>5, <4>1, <4>2
    <3>6. CASE req'[r].state = req[r].state /\ req'[r].lease = req[r].lease
      BY <1>2, <3>1, <3>6 DEF Holds
    <3> QED BY <2>1, <3>2, <3>3, <3>5, <3>6, StateMoves, RowEffects
  <2> QED BY <2>2, <2>3, <2>4 DEF InTimeHolds
<1> QED BY <1>1, <1>2, DeliveringStep DEF InTime

\* A row is not reserved while another delivery is in time.
LEMMA OneStep == TypeInv /\ InTimeHolds /\ OneInTime /\ [Next]_vars => OneInTime'
<1> SUFFICES ASSUME TypeInv, InTimeHolds, OneInTime, [Next]_vars,
                    NEW m \in Updates, NEW n \in Updates, InTime(m)', InTime(n)',
                    claim'[m].request = claim'[n].request, m # n
             PROVE  FALSE
  BY DEF OneInTime
<1>1. ASSUME NEW k \in Updates, Delivering(k), claim'[k] = claim[k], InTime(k)' PROVE InTime(k)
  <2>1. claim[k].lease \in Nat
    BY DEF TypeInv, TypeOK
  <2> QED BY <1>1, <2>1, ClockStep DEF InTime
<1>2. ASSUME NEW a \in Updates, NEW b \in Updates, a # b, ClaimOpen(a), InTime(b)',
             claim'[a].request = claim'[b].request
      PROVE  FALSE
  <2>1. PICK r \in Updates : Reserved(r, a) /\ claim'[a].request = r
    BY <1>2, ReserveEffect
  <2>2. Delivering(b) /\ claim'[b] = claim[b]
    BY <1>2, ReserveEffect DEF InTime, Delivering
  <2>3. InTime(b) /\ claim[b].request = r
    BY <1>1, <1>2, <2>1, <2>2
  <2>4. req[r].state \in {"expired", "gone"} \/ (req[r].state = "opening" /\ clock < req[r].lease)
    BY <2>3 DEF InTimeHolds, Holds, InTime
  <2> QED BY <2>1, <2>4, ClockStep DEF Reserved, Claimable, TypeInv, TypeOK
<1>3. ASSUME NEW k \in Updates, InTime(k)' PROVE ClaimOpen(k) \/ (InTime(k) /\ claim'[k] = claim[k])
  BY <1>1, <1>3, DeliveringStep DEF InTime
<1> QED BY <1>2, <1>3 DEF OneInTime

\* An excuse is never taken back.
LEMMA ExcusedStay == [Next]_vars => excused \subseteq excused'
<1> SUFFICES ASSUME [Next]_vars PROVE excused \subseteq excused'
  OBVIOUS
<1>1. CASE Others
  BY <1>1, OthersStep DEF chat
<1>2. ASSUME NEW m \in Updates, Start(m) \/ Handle(m) \/ Lost(m),
             ~(Send(m) \/ CompleteFailed(m) \/ Lost(m))
      PROVE  UNCHANGED excused
  BY <1>2 DEF Start, Handle, Check, Reuse, Insert, Answered, AnswerFailed, ClaimIngest, NothingWaits,
              Finalize, IngestFailed, Cancel, Begin, Denied, ClaimOpen, ClaimRefused, FailOpen,
              CompleteOpen, chat
<1>3. ASSUME NEW m \in Updates, Send(m) \/ CompleteFailed(m) \/ Lost(m)
      PROVE  excused \subseteq excused'
  BY <1>3 DEF Send, CompleteFailed, Lost
<1> QED BY <1>1, <1>2, <1>3, Steps

\* A handler that completes goes on doing so, or ends in one of three ways.
LEMMA CompletingStep ==
    ASSUME TypeInv, [Next]_vars, NEW m \in Updates, pc[m] = "completing"
    PROVE  \/ pc'[m] = "completing" /\ UNCHANGED <<claim[m], actor[m], attempts[m]>>
           \/ CompleteOpen(m) \/ CompleteFailed(m) \/ Lost(m)
<1>1. CASE Others
  BY <1>1, OthersStep DEF handlers
<1>2. ASSUME NEW n \in Updates, Start(n) \/ Handle(n) \/ Lost(n), n # m
      PROVE  pc'[m] = "completing" /\ UNCHANGED <<claim[m], actor[m], attempts[m]>>
  <2>1. pc'[m] = pc[m]
    BY <1>2, HandlerStep DEF Start, TypeInv, TypeOK
  <2>2. Delivering(m)' /\ ~ClaimOpen(m)
    BY <2>1 DEF Delivering, ClaimOpen
  <2> QED BY <2>1, <2>2, DeliveringStep
<1>3. CASE Start(m) \/ Handle(m) \/ Lost(m)
  BY <1>3 DEF Start, Handle, Check, Reuse, Insert, Answered, AnswerFailed, ClaimIngest, NothingWaits,
              Finalize, IngestFailed, Cancel, Begin, Denied, ClaimOpen, ClaimRefused, Send, FailOpen
<1> QED BY <1>1, <1>2, <1>3, Steps

\* A record is written by who sent the message; who cannot write it is excused.
LEMMA DeliveredStep ==
    TypeInv /\ RecordIsFinal /\ ExpiredIsOver /\ InTimeHolds /\ DeliveredIsRecorded
      /\ [Next]_vars => DeliveredIsRecorded'
<1> SUFFICES ASSUME TypeInv, RecordIsFinal, ExpiredIsOver, InTimeHolds, DeliveredIsRecorded,
                    [Next]_vars, NEW d \in deliveries'
             PROVE  \/ Recorded(d)' \/ d \in excused'
                    \/ pc'[d.press] = "completing" /\ Delivery(d.press)' = d
  BY DEF DeliveredIsRecorded
<1>1. ASSUME NEW m \in Updates, Send(m), d = Delivery(m), d \notin deliveries
      PROVE  d \in excused' \/ (pc'[d.press] = "completing" /\ Delivery(d.press)' = d)
  <2>1. d.press = m /\ UNCHANGED <<attempts, actor>>
    BY <1>1 DEF Delivery, Send, Goto
  <2>2. CASE Goto(m, "completing")
    <3>1. pc'[m] = "completing" /\ claim' = claim
      BY <2>2 DEF Goto, TypeInv, TypeOK
    <3> QED BY <1>1, <2>1, <3>1 DEF Delivery
  <2>3. CASE excused' = excused \union {Delivery(m)}
    BY <1>1, <2>3
  <2> QED BY <1>1, <2>2, <2>3 DEF Send
<1>2. CASE d \in deliveries
  <2>1. d \in Messages /\ d.press \in Updates /\ d.request \in Updates
    BY <1>2 DEF TypeInv, TypeOK, Messages
  <2>2. CASE d \in excused
    BY <2>2, ExcusedStay
  <2>3. CASE Recorded(d)
    <3>1. <<d.press, d.try>> # NoToken
      BY <2>1 DEF Updates, NoToken
    <3>2. req[d.request].message # NoToken
      BY <2>3, <3>1 DEF Recorded
    <3> QED BY <2>1, <2>3, <3>2, RecordStays DEF Recorded
  <2>4. ASSUME NEW m \in Updates, m = d.press, pc[m] = "completing", Delivery(m) = d
        PROVE  Recorded(d)' \/ d \in excused' \/ (pc'[m] = "completing" /\ Delivery(m)' = d)
    <3>1. d.request = claim[m].request /\ d.try = attempts[m]
      BY <2>4 DEF Delivery
    <3>2. CASE pc'[m] = "completing" /\ UNCHANGED <<claim[m], actor[m], attempts[m]>>
      BY <2>4, <3>2 DEF Delivery
    <3>3. CASE CompleteOpen(m)
      <4>1. req'[d.request].message = Token(m)
        BY <2>1, <3>1, <3>3 DEF CompleteOpen, TypeInv, TypeOK
      <4> QED BY <2>4, <3>1, <4>1 DEF Recorded, Token
    <3>4. CASE CompleteFailed(m)
      <4>1. CASE \/ clock >= claim[m].lease \/ ~Unexpired(claim[m].request)
                 \/ req[claim[m].request].state = "gone" \/ "database" \in faults
        BY <2>4, <3>4, <4>1 DEF CompleteFailed
      <4>2. CASE ~(\/ clock >= claim[m].lease \/ ~Unexpired(claim[m].request)
                   \/ req[claim[m].request].state = "gone" \/ "database" \in faults)
        <5>1. ~Holds(m, "opening")
          BY <3>4, <4>2 DEF CompleteFailed
        <5>2. clock \in Nat /\ claim[m].lease \in Nat
          BY Numbers DEF TypeInv, TypeOK
        <5>3. InTime(m)
          BY <2>4, <4>2, <5>2 DEF InTime, Delivering
        <5>4. req[claim[m].request].state = "expired"
          BY <4>2, <5>1, <5>3 DEF InTimeHolds
        <5> QED BY <2>1, <3>1, <4>2, <5>4 DEF ExpiredIsOver
      <4> QED BY <4>1, <4>2
    <3>5. CASE Lost(m)
      BY <2>4, <3>5 DEF Lost
    <3> QED BY <2>4, <3>2, <3>3, <3>4, <3>5, CompletingStep
  <2> QED BY <1>2, <2>1, <2>2, <2>3, <2>4 DEF DeliveredIsRecorded
<1> QED BY <1>1, <1>2, DeliveriesStep

\* A secret is sent once, accidents aside.
LEMMA MessagesApart ==
    ASSUME TypeInv, BoundToActor, RecordIsFinal, InTimeHolds, OneInTime, DeliveredIsRecorded
    PROVE  OneMessage
<1> SUFFICES ASSUME NEW d \in deliveries, NEW e \in deliveries, d.request = e.request,
                    d \notin excused, e \notin excused, ~Late(d), ~Late(e)
             PROVE  d = e
  BY DEF OneMessage
<1> DEFINE Sending(x) == pc[x.press] = "completing" /\ Delivery(x.press) = x /\ InTime(x.press)
<1>1. ASSUME NEW x \in {d, e} PROVE Recorded(x) \/ Sending(x)
  <2>1. x.press \in Updates
    BY DEF TypeInv, TypeOK, Messages
  <2>2. clock \in Nat /\ claim[x.press].lease \in Nat
    BY <2>1, Numbers DEF TypeInv, TypeOK
  <2> QED BY <2>1, <2>2 DEF DeliveredIsRecorded, Late, InTime, Delivering
<1>2. /\ d \in Messages /\ e \in Messages /\ d.request \in Updates
      /\ d.press \in Updates /\ e.press \in Updates /\ d.to = e.to
  BY DEF TypeInv, TypeOK, Messages, BoundToActor
<1>3. ASSUME NEW x \in {d, e}, NEW y \in {d, e}, Recorded(x), Sending(y) PROVE FALSE
  <2>1. req[d.request].message # NoToken
    BY <1>2, <1>3 DEF Recorded, NoToken, Updates
  <2>2. claim[y.press].request = d.request /\ InTime(y.press) /\ y.press \in Updates
    BY <1>2, <1>3 DEF Delivery
  <2>3. req[d.request].state \in {"opened", "gone"}
    BY <1>2, <2>1 DEF RecordIsFinal
  <2> QED BY <2>1, <2>2, <2>3 DEF InTimeHolds, Holds
<1>4. CASE Recorded(d) /\ Recorded(e)
  <2>1. d.press = e.press /\ d.try = e.try
    BY <1>4 DEF Recorded
  <2> QED BY <1>2, <2>1 DEF Messages
<1>5. CASE Sending(d) /\ Sending(e)
  <2>1. claim[d.press].request = d.request /\ claim[e.press].request = e.request
    BY <1>5 DEF Delivery
  <2> QED BY <1>2, <1>5, <2>1 DEF OneInTime
<1> QED BY <1>1, <1>3, <1>4, <1>5

----------------------------------------------------------------------------
(* Order, and who competes for the next message                            *)

\* The updates of a behaviour do not change.
LEMMA InputStays ==
    ASSUME TypeInv, [Next]_vars
    PROVE  UNCHANGED input
  BY Steps, OthersStep, StartType, HandlerStep

\* What another handler runs cannot disturb who is settled, nor start before.
LEMMA OrderStep == TypeInv /\ HandledInOrder /\ [Next]_vars => HandledInOrder'
<1> SUFFICES ASSUME TypeInv, HandledInOrder, [Next]_vars, inOrder',
                    NEW m \in Updates, NEW n \in Updates, n < m, pc'[m] # "idle"
             PROVE  Settled(n)'
  BY DEF HandledInOrder
<1>1. inOrder /\ limit' = limit
  BY InputStays DEF input
<1>2. n # m /\ attempts \in [Updates -> Nat]
  BY Numbers DEF Updates, TypeInv, TypeOK
<1>3. ASSUME Settled(n), pc'[n] = pc[n], attempts'[n] = attempts[n] PROVE Settled(n)'
  BY <1>1, <1>3 DEF Settled
<1>4. CASE Others
  <2>1. Settled(n) /\ UNCHANGED <<pc, attempts>>
    BY <1>1, <1>4, OthersStep DEF handlers, HandledInOrder
  <2> QED BY <1>3, <2>1
<1>5. ASSUME NEW k \in Updates, Start(k) PROVE Settled(n)'
  <2>1. pc' = [pc EXCEPT ![k] = "started"] /\ attempts' = [attempts EXCEPT ![k] = @ + 1]
    BY <1>5 DEF Start
  <2>2. Settled(n)
    <3>1. CASE k = m
      BY <1>1, <1>5, <3>1 DEF Start
    <3>2. CASE k # m
      BY <1>1, <2>1, <3>2 DEF HandledInOrder, TypeInv, TypeOK
    <3> QED BY <3>1, <3>2
  <2>3. limit[n] \in Nat
    BY Numbers DEF TypeInv, InputOK
  <2>4. k # n
    BY <1>2, <1>5, <2>2, <2>3 DEF Start, Settled
  <2> QED BY <1>3, <2>1, <2>2, <2>4 DEF TypeInv, TypeOK
<1>6. ASSUME NEW k \in Updates, Handle(k) \/ Lost(k) PROVE Settled(n)'
  <2>1. /\ pc[k] \notin {"idle", "done"} /\ UNCHANGED attempts
        /\ \A i \in Updates \ {k} : pc'[i] = pc[i]
    BY <1>6, HandlerStep
  <2>2. Settled(n)
    <3>1. pc[m] # "idle"
      BY <2>1
    <3> QED BY <1>1, <3>1 DEF HandledInOrder
  <2>3. k # n
    BY <2>1, <2>2 DEF Settled
  <2> QED BY <1>3, <2>1, <2>2, <2>3
<1> QED BY <1>4, <1>5, <1>6, Steps

\* With polling, no two handlers run at once.
LEMMA OneRuns ==
    ASSUME TypeInv, HandledInOrder, inOrder, NEW m \in Updates, NEW n \in Updates,
           pc[m] \notin {"idle", "done"}, pc[n] \notin {"idle", "done"}
    PROVE  m = n
<1>1. m < n \/ n < m \/ m = n
  BY Numbers DEF Updates
<1>2. ~Settled(m) /\ ~Settled(n)
  BY DEF Settled
<1> QED BY <1>1, <1>2 DEF HandledInOrder

\* A handler about to insert has just looked, or has done nothing since.
LEMMA InsertingStep ==
    ASSUME TypeInv, [Next]_vars, NEW m \in Updates, pc'[m] = "inserting"
    PROVE  pc[m] = "inserting" \/ (Allowed(m) /\ UNCHANGED <<clock, req>>)
<1>1. CASE Others
  BY <1>1, OthersStep DEF handlers
<1>2. ASSUME NEW n \in Updates, Start(n) \/ Handle(n) \/ Lost(n), n # m
      PROVE  pc'[m] = pc[m]
  BY <1>2, HandlerStep DEF Start, TypeInv, TypeOK
<1>3. CASE Start(m)
  BY <1>3 DEF Start, TypeInv, TypeOK
<1>4. CASE Check(m)
  BY <1>4 DEF Check, End, Goto, TypeInv, TypeOK
<1>5. CASE ClaimIngest(m) \/ ClaimOpen(m)
  BY <1>5 DEF ClaimIngest, ClaimOpen, TypeInv, TypeOK
<1>6. ASSUME NEW next \in PCs \ {"inserting"}, Goto(m, next) PROVE FALSE
  BY <1>6 DEF Goto, TypeInv, TypeOK
<1>7. CASE Reuse(m) \/ Insert(m) \/ Answered(m) \/ AnswerFailed(m) \/ NothingWaits(m) \/ Finalize(m)
           \/ IngestFailed(m) \/ Cancel(m)
  BY <1>6, <1>7 DEF Reuse, Insert, Answered, AnswerFailed, NothingWaits, Finalize, IngestFailed, Cancel, End, PCs
<1>8. CASE Begin(m) \/ Denied(m) \/ ClaimRefused(m) \/ Send(m)
           \/ FailOpen(m) \/ CompleteOpen(m) \/ CompleteFailed(m) \/ Lost(m)
  BY <1>6, <1>8 DEF Begin, Denied, ClaimRefused, Send, FailOpen, CompleteOpen, CompleteFailed, Lost, End, PCs
<1> QED BY <1>1, <1>2, <1>3, <1>4, <1>5, <1>7, <1>8, Steps DEF Handle

\* A request that waits for its secret, or is being filled.
Competes(r) == req[r].state \in {"awaiting", "ingesting"} /\ Unexpired(r)

\* It did so before, or is new.
LEMMA CompetesBefore ==
    ASSUME TypeInv, ReusedInTime, [Next]_vars, NEW r \in Updates, Competes(r)', ~Inserted(r)
    PROVE  /\ Competes(r)
           /\ req'[r].state = "ingesting" => req[r].state = "ingesting" \/ \E k \in Updates : ClaimIngest(k)
<1>1. clock <= clock' /\ clock \in Nat /\ clock' \in Nat /\ req[r].expires \in Nat
  BY ClockStep DEF TypeInv, TypeOK
<1>2. CASE req'[r].state = req[r].state
  <2>1. CASE req'[r].expires = req[r].expires
    BY <1>1, <1>2, <2>1 DEF Competes, Unexpired
  <2>2. CASE Extended(r)
    BY <1>2, <2>2 DEF Extended, Reuse, ReusedInTime, Competes
  <2> QED BY <1>2, <2>1, <2>2, RowFields, RowEffects
<1>3. CASE MayMove(r, req'[r].state) /\ req'[r].expires = req[r].expires
  BY <1>1, <1>3 DEF Competes, Unexpired, MayMove, Waiting
<1>4. req'[r].state \notin {"opening", "opened"}
  BY DEF Competes
<1> QED BY <1>2, <1>3, <1>4, StateMoves, RowEffects

\* While a handler is about to insert, no other one takes a request.
LEMMA NothingIngestedStep ==
    TypeInv /\ ReusedInTime /\ HandledInOrder /\ NothingIngested /\ [Next]_vars => NothingIngested'
<1> SUFFICES ASSUME TypeInv, ReusedInTime, HandledInOrder, NothingIngested, [Next]_vars, inOrder',
                    NEW m \in Updates, pc'[m] = "inserting",
                    NEW r \in Updates, req'[r].state = "ingesting", Unexpired(r)'
             PROVE  FALSE
  BY DEF NothingIngested
<1>1. inOrder
  BY InputStays DEF input
<1>2. CASE Allowed(m) /\ UNCHANGED <<clock, req>>
  BY <1>2 DEF Allowed, Unexpired
<1>3. CASE pc[m] = "inserting"
  <2>1. Competes(r)' /\ ~Inserted(r)
    BY InsertedFields DEF Competes
  <2>2. req[r].state # "ingesting"
    BY <1>1, <1>3, <2>1, CompetesBefore DEF Competes, NothingIngested
  <2>3. PICK k \in Updates : ClaimIngest(k)
    BY <2>1, <2>2, CompetesBefore
  <2> QED BY <1>1, <1>3, <2>3, OneRuns DEF ClaimIngest
<1> QED BY <1>2, <1>3, InsertingStep

\* At most one request competes for the next message.
LEMMA ComposerStep ==
    TypeInv /\ ReusedInTime /\ HandledInOrder /\ NothingIngested /\ OneComposer /\ [Next]_vars => OneComposer'
<1> SUFFICES ASSUME TypeInv, ReusedInTime, HandledInOrder, NothingIngested, OneComposer, [Next]_vars, inOrder',
                    NEW q \in Updates, NEW r \in Updates, Competes(q)', Competes(r)'
             PROVE  q = r
  BY DEF OneComposer, Competes
<1>1. inOrder
  BY InputStays DEF input
<1>2. ASSUME NEW a \in Updates, NEW b \in Updates, Inserted(a), ~Inserted(b), Competes(b), Competes(b)'
      PROVE  FALSE
  <2>1. Insert(a) /\ pc[a] = "inserting" /\ a # b /\ req[a].state = "none"
    BY <1>2 DEF Inserted, Insert
  <2>2. req[b].state = "awaiting" /\ Unexpired(b)
    BY <1>1, <1>2, <2>1 DEF NothingIngested, Competes
  <2>3. req[b] \in RowType
    BY DEF TypeInv, TypeOK, RowType
  <2>4. req'[b] = [req[b] EXCEPT !.state = "cancelled"]
    BY <2>1, <2>2 DEF Insert, Superseded
  <2> QED BY <1>2, <2>3, <2>4 DEF Competes, RowType
<1>3. CASE Inserted(q) /\ Inserted(r)
  BY <1>1, <1>3, OneRuns DEF Inserted, Insert
<1>4. CASE ~Inserted(q) /\ ~Inserted(r)
  BY <1>1, <1>4, CompetesBefore DEF OneComposer, Competes
<1> QED BY <1>2, <1>3, <1>4, CompetesBefore

----------------------------------------------------------------------------
(* Messages that are to be deleted                                         *)

\* The job is open, or there is nothing left for it to do.
Kept(d) == D!Unclosed(d) \/ d \in gone \union leftBehind

\* What a step of the queue may not do to it.
QueueKeeps == DoneIsSettled' /\ \A d : Kept(d) => Kept(d)'

\* A worker claims a job.
LEMMA ClaimJobKeeps ==
    ASSUME JobsOK, DoneIsSettled, NEW w \in Workers, D!ClaimJob(w)
    PROVE  QueueKeeps
<1>1. PICK j \in DOMAIN jobs :
        /\ jobs' = [jobs EXCEPT ![j].lease = clock + JobLease, ![j].tries = @ + 1]
        /\ busy' = [busy EXCEPT ![w] = [job |-> j, lease |-> clock + JobLease,
                                          tries |-> jobs[j].tries + 1, said |-> "nothing"]]
        /\ UNCHANGED <<gone, leftBehind>>
  BY DEF D!ClaimJob
<1>2. DOMAIN jobs' = DOMAIN jobs /\ \A i \in DOMAIN jobs : jobs'[i].closed = jobs[i].closed
  BY <1>1 DEF JobsOK, JobType
<1>3. ASSUME NEW v \in Workers, D!Running(v)', busy'[v].said = "done"
      PROVE  D!Running(v) /\ busy'[v] = busy[v]
  BY <1>1, <1>3 DEF JobsOK, D!Running
<1> QED BY <1>1, <1>2, <1>3 DEF QueueKeeps, Kept, DoneIsSettled, D!Unclosed

\* Telegram answers.
LEMMA AskTelegramKeeps ==
    ASSUME JobsOK, DoneIsSettled, NEW w \in Workers, D!AskTelegram(w)
    PROVE  QueueKeeps
<1>1. PICK what \in {"done", "failed"} :
        /\ D!Said(w, what)
        /\ what = "done" => busy[w].job \in gone' \union leftBehind'
  BY DEF D!AskTelegram
<1>2. jobs' = jobs /\ gone \subseteq gone' /\ leftBehind \subseteq leftBehind' /\ D!Running(w)
  BY DEF D!AskTelegram
<1>3. /\ busy[w] \in BusyType
      /\ busy' = [v \in Workers |-> IF v = w THEN [busy[w] EXCEPT !.said = what] ELSE busy[v]]
  BY <1>1, <1>2, BusyIsTyped, SaidType
<1>4. busy'[w].said = what /\ busy'[w].job = busy[w].job
  BY <1>3 DEF BusyType
<1>5. ASSUME NEW v \in Workers, D!Running(v)', busy'[v].said = "done"
      PROVE  busy'[v].job \in gone' \union leftBehind'
  <2>1. CASE v = w
    BY <1>1, <1>4, <1>5, <2>1
  <2>2. CASE v # w
    BY <1>2, <1>3, <1>5, <2>2 DEF DoneIsSettled, D!Running
  <2> QED BY <2>1, <2>2
<1> QED BY <1>2, <1>5 DEF QueueKeeps, Kept, DoneIsSettled, D!Unclosed

\* A job is closed once Telegram has done it, or when the worker gives up.
LEMMA RecordKeeps ==
    ASSUME JobsOK, DoneIsSettled, NEW w \in Workers, D!Record(w)
    PROVE  QueueKeeps
<1>1. D!Running(w) /\ busy' = [busy EXCEPT ![w] = D!Idle] /\ gone' = gone /\ leftBehind \subseteq leftBehind'
  BY DEF D!Record, D!Close, D!Retry
<1>2. ASSUME NEW v \in Workers, D!Running(v)' PROVE D!Running(v) /\ busy'[v] = busy[v]
  BY <1>1, <1>2 DEF JobsOK, D!Running
<1>3. /\ DOMAIN jobs' = DOMAIN jobs
      /\ \A j \in DOMAIN jobs : jobs'[j].closed = jobs[j].closed \/ j \in gone' \union leftBehind'
  <2>1. CASE UNCHANGED jobs
    BY <2>1
  <2>2. CASE D!HoldsJob(w) /\ D!Close(w) /\ (busy[w].said = "done" \/ D!GivesUp(w))
    <3>1. busy[w].job \in gone' \union leftBehind'
      BY <1>1, <2>2 DEF D!Close, DoneIsSettled
    <3> QED BY <2>2, <3>1 DEF D!Close
  <2>3. CASE D!HoldsJob(w) /\ D!Retry(w)
    <3>1. PICK b \in Backoffs : jobs' = [jobs EXCEPT ![busy[w].job].due = clock + b, ![busy[w].job].lease = 0]
      BY <2>3 DEF D!Retry
    <3> QED BY <3>1 DEF JobsOK, JobType
  <2> QED BY <2>1, <2>2, <2>3 DEF D!Record
<1> QED BY <1>1, <1>2, <1>3 DEF QueueKeeps, Kept, DoneIsSettled, D!Unclosed

\* Workers and cleanup forget no message.
LEMMA WorkKeeps ==
    ASSUME JobsOK, DoneIsSettled,
           (\E w \in Workers : D!Work(w) \/ D!WorkerLost(w)) \/ D!PruneJobs \/ UNCHANGED jobVars
    PROVE  QueueKeeps
<1>1. ASSUME NEW w \in Workers, D!WorkerLost(w) PROVE QueueKeeps
  <2>1. UNCHANGED <<jobs, gone, leftBehind>> /\ busy' = [busy EXCEPT ![w] = D!Idle]
    BY <1>1 DEF D!WorkerLost
  <2>2. ASSUME NEW v \in Workers, D!Running(v)' PROVE D!Running(v) /\ busy'[v] = busy[v]
    BY <2>1, <2>2 DEF JobsOK, D!Running
  <2> QED BY <2>1, <2>2 DEF QueueKeeps, Kept, DoneIsSettled, D!Unclosed
<1>2. ASSUME D!PruneJobs PROVE QueueKeeps
  BY <1>2 DEF D!PruneJobs, QueueKeeps, Kept, DoneIsSettled, D!Unclosed, D!Running
<1>3. CASE UNCHANGED jobVars
  BY <1>3 DEF jobVars, QueueKeeps, Kept, DoneIsSettled, D!Unclosed, D!Running
<1> QED BY <1>1, <1>2, <1>3, ClaimJobKeeps, AskTelegramKeeps, RecordKeeps DEF D!Work

\* A completed opening that asks for the deletion leaves an open job.
LEMMA ForgottenStep ==
    TypeInv /\ DoneIsSettled /\ NotForgotten /\ [Next]_vars => DoneIsSettled' /\ NotForgotten'
<1> SUFFICES ASSUME TypeInv, DoneIsSettled, NotForgotten, [Next]_vars PROVE DoneIsSettled' /\ NotForgotten'
  OBVIOUS
<1>1. JobsOK
  BY JobsTypes DEF TypeInv, TypeOK
<1>2. ASSUME UNCHANGED asked, QueueKeeps PROVE DoneIsSettled' /\ NotForgotten'
  BY <1>2 DEF QueueKeeps, Kept, NotForgotten
<1>3. ASSUME NEW m \in Updates, CompleteOpen(m), UNCHANGED <<jobs, asked>> PROVE UNCHANGED jobVars
  BY <1>3 DEF CompleteOpen, jobVars
<1>4. ASSUME NEW m \in Updates, CompleteOpen(m), NEW due, jobs' = D!Queued(Delivery(m), due),
             asked' = asked \union {Delivery(m)}
      PROVE  DoneIsSettled' /\ NotForgotten'
  <2>1. UNCHANGED <<busy, gone, leftBehind>>
    BY <1>4 DEF CompleteOpen
  <2>2. /\ DOMAIN jobs' = DOMAIN jobs \union {Delivery(m)} /\ ~jobs'[Delivery(m)].closed
        /\ \A i \in DOMAIN jobs \ {Delivery(m)} : jobs'[i] = jobs[i]
    BY <1>4 DEF D!Queued
  <2>3. DoneIsSettled'
    BY <2>1, <2>2 DEF DoneIsSettled, D!Running
  <2>4. NotForgotten'
    BY <1>4, <2>1, <2>2 DEF NotForgotten, D!Unclosed
  <2> QED BY <2>3, <2>4
<1>5. ASSUME NEW m \in Updates, Start(m) \/ Handle(m) \/ Lost(m), ~CompleteOpen(m)
      PROVE  UNCHANGED jobVars /\ UNCHANGED asked
  BY <1>5 DEF Start, Handle, Lost, Check, Reuse, Insert, Answered, AnswerFailed, ClaimIngest, NothingWaits,
              Finalize, IngestFailed, Cancel, Begin, Denied, ClaimOpen, ClaimRefused, Send, FailOpen,
              CompleteFailed, chat
<1>6. ASSUME Others
      PROVE  /\ UNCHANGED asked
             /\ (\E w \in Workers : D!Work(w) \/ D!WorkerLost(w)) \/ D!PruneJobs \/ UNCHANGED jobVars
  <2>1. UNCHANGED asked
    BY <1>6, OthersStep DEF chat
  <2> QED BY <1>6, <2>1 DEF Others, Cleanup, Rename, Tick, DeleteWorker, vars
<1>7. ASSUME NEW m \in Updates, CompleteOpen(m) PROVE DoneIsSettled' /\ NotForgotten'
  <2>1. \/ UNCHANGED <<jobs, asked>>
        \/ \E delay \in DeleteDelays :
             jobs' = D!Queued(Delivery(m), clock + delay) /\ asked' = asked \union {Delivery(m)}
    BY <1>7 DEF CompleteOpen
  <2> QED BY <1>1, <1>2, <1>3, <1>4, <1>7, <2>1, WorkKeeps
<1> QED BY <1>1, <1>2, <1>5, <1>6, <1>7, WorkKeeps, Steps

----------------------------------------------------------------------------
(* The theorems                                                            *)

IInv ==
    /\ TypeInv
    /\ TargetIsNamed /\ BoundToActor
    /\ ReusedInTime /\ ExpiredIsOver /\ RecordIsFinal /\ InTimeHolds /\ OneInTime
    /\ DeliveredIsRecorded
    /\ HandledInOrder /\ NothingIngested /\ OneComposer
    /\ DoneIsSettled /\ NotForgotten

\* It holds initially.
LEMMA InitIInv == Init => IInv
<1> SUFFICES ASSUME Init PROVE IInv
  OBVIOUS
<1>1. /\ \A m \in Updates : pc[m] = "idle"
      /\ \A r \in Updates : req[r].state = "none" /\ req[r].message = NoToken
      /\ deliveries = {} /\ asked = {} /\ DOMAIN jobs = {} /\ \A w \in Workers : ~D!Running(w)
  BY DEF Init, NoRow, D!InitJobs, D!Running
<1>2. TargetIsNamed /\ BoundToActor
  BY <1>1 DEF TargetIsNamed, BoundToActor, Delivering
<1>3. ReusedInTime /\ ExpiredIsOver /\ RecordIsFinal /\ InTimeHolds /\ OneInTime
  BY <1>1 DEF ReusedInTime, ExpiredIsOver, RecordIsFinal, InTimeHolds, OneInTime, InTime, Delivering
<1>4. DeliveredIsRecorded /\ HandledInOrder /\ NothingIngested /\ OneComposer
  BY <1>1 DEF DeliveredIsRecorded, HandledInOrder, NothingIngested, OneComposer
<1>5. DoneIsSettled /\ NotForgotten
  BY <1>1 DEF DoneIsSettled, NotForgotten
<1> QED BY <1>2, <1>3, <1>4, <1>5, TypeInit DEF IInv

\* Every step preserves it.
LEMMA StepIInv == IInv /\ [Next]_vars => IInv'
<1> SUFFICES ASSUME IInv, [Next]_vars PROVE IInv'
  OBVIOUS
<1>1. TypeInv' /\ TargetIsNamed' /\ BoundToActor'
  BY TypeStep, NamedStep, BoundStep DEF IInv
<1>2. ReusedInTime' /\ ExpiredIsOver' /\ RecordIsFinal' /\ InTimeHolds' /\ OneInTime'
  BY ExpiryStep, RecordStep, HoldsStep, OneStep DEF IInv
<1>3. DeliveredIsRecorded'
  BY DeliveredStep DEF IInv
<1>4. HandledInOrder' /\ NothingIngested' /\ OneComposer'
  BY OrderStep, NothingIngestedStep, ComposerStep DEF IInv
<1>5. DoneIsSettled' /\ NotForgotten'
  BY ForgottenStep DEF IInv
<1> QED BY <1>1, <1>2, <1>3, <1>4, <1>5 DEF IInv

\* The inductive invariant holds in every reachable state.
THEOREM Inductive == Spec => []IInv
  BY InitIInv, StepIInv, PTL DEF Spec

\* Every variable stays in its range.
THEOREM TypeCorrect == Spec => []TypeOK
<1>1. IInv => TypeOK
  BY DEF IInv, TypeInv
<1> QED BY <1>1, Inductive, PTL

\* CompleteGuestOpen, or an accident the code cannot undo: a secret that reached its
\* target is on record or about to be.
THEOREM RecordedWhenDelivered == Spec => []DeliveredIsRecorded
<1>1. IInv => DeliveredIsRecorded
  BY DEF IInv
<1> QED BY <1>1, Inductive, PTL

\* ReserveGuestOpen and its lease: a secret is sent a second time only after an accident
\* or a handler that outlasted its lease.
THEOREM SentOnce == Spec => []OneMessage
<1>1. IInv => OneMessage
  BY MessagesApart DEF IInv
<1> QED BY <1>1, Inductive, PTL

\* ClaimGuestTarget: all copies of a secret go to the user its request is bound to, and
\* to the one it named, whoever holds the username now.
THEOREM ForTheTarget == Spec => []OnlyTheTarget
<1>1. IInv => OnlyTheTarget
  <2> SUFFICES ASSUME IInv, NEW d \in deliveries
               PROVE  /\ req[d.request].target = d.to
                      /\ req[d.request].hint \in Users => req[d.request].hint = d.to
    BY DEF OnlyTheTarget
  <2>1. d.request \in Updates
    BY DEF IInv, TypeInv, TypeOK, Messages
  <2> QED BY <2>1 DEF IInv, BoundToActor, TargetIsNamed
<1> QED BY <1>1, Inductive, PTL

\* CreateGuestRequest: with polling at most one request competes for the sender's next
\* private message.
THEOREM OneCompetes == Spec => []OneComposer
<1>1. IInv => OneComposer
  BY DEF IInv
<1> QED BY <1>1, Inductive, PTL

\* CompleteGuestOpen with the workers and the cleanup: a message that was to be deleted
\* is not forgotten.
THEOREM DeletionIsOwed == Spec => []NotForgotten
<1>1. IInv => NotForgotten
  BY DEF IInv
<1> QED BY <1>1, Inductive, PTL

\* The guards of every statement on a request: what is over stays over.
THEOREM StaysOver == Spec => OverIsOver
<1>1. IInv /\ [Next]_vars =>
        [\A r \in Updates :
            /\ req[r].state \in {"opened", "cancelled", "expired", "gone"}
            => req'[r].state \in {req[r].state, "gone"}]_vars
  BY OverStep DEF IInv
<1> QED BY <1>1, Inductive, PTL DEF Spec, OverIsOver
=============================================================================
