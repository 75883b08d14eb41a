--------------------------- MODULE RemovalProofs ---------------------------
(***************************************************************************)
(* Proofs about what stays true when rows are removed: of the owner's      *)
(* browser (Owner), and of the tables that name each other (Identity,      *)
(* whose parameters are renamed where Owner has the name; Rollback is      *)
(* common to both modules).                                                *)
(***************************************************************************)
EXTENDS Owner, Rollback, FiniteSetTheorems, TLAPS

CONSTANTS People, Group, Drafts, Requested, Asker, MaxObservations
VARIABLES identities, old, started, asking, unused, observed, sweep, selected, doomed, gone

I == INSTANCE Identity WITH Users <- People, Requests <- Requested, rows <- identities, seen <- observed

----------------------------------------------------------------------------
(* Places in a list                                                        *)

\* A list of whispers that are there, no two created at the same time.
Sorted(list) ==
    /\ IsFiniteSet(list)
    /\ \A w \in list : created[w] \in Nat
    /\ \A v, w \in list : created[v] = created[w] => v = w

\* The newer of two whispers has the smaller place.
LEMMA PlaceOrder ==
    ASSUME NEW list, Sorted(list)
    PROVE  /\ \A w \in list : Place(w, list) \in 1..Cardinality(list)
           /\ \A v, w \in list : created[w] < created[v] => Place(v, list) < Place(w, list)
<1> DEFINE Upto(w) == {v \in list : created[w] <= created[v]}
<1>1. \A w \in list : /\ IsFiniteSet(Upto(w)) /\ w \in Upto(w)
                      /\ Cardinality(Upto(w)) \in Nat /\ Cardinality(Upto(w)) <= Cardinality(list)
  <2> SUFFICES ASSUME NEW w \in list
               PROVE  /\ IsFiniteSet(Upto(w)) /\ w \in Upto(w)
                      /\ Cardinality(Upto(w)) \in Nat /\ Cardinality(Upto(w)) <= Cardinality(list)
    OBVIOUS
  <2>1. Upto(w) \in SUBSET list
    OBVIOUS
  <2>2. IsFiniteSet(Upto(w)) /\ Cardinality(Upto(w)) <= Cardinality(list)
    BY <2>1, FS_Subset DEF Sorted
  <2> QED BY <2>2, FS_CardinalityType DEF Sorted
<1>2. ASSUME NEW w \in list PROVE Place(w, list) \in 1..Cardinality(list)
  <2>1. Cardinality(Upto(w)) # 0
    BY <1>1, FS_EmptySet
  <2>2. Cardinality(list) \in Nat
    BY FS_CardinalityType DEF Sorted
  <2> QED BY <1>1, <2>1, <2>2 DEF Place
<1>3. ASSUME NEW v \in list, NEW w \in list, created[w] < created[v]
      PROVE  Place(v, list) < Place(w, list)
  <2>1. Upto(v) \in SUBSET Upto(w) /\ w \in Upto(w) /\ w \notin Upto(v)
    BY <1>3 DEF Sorted
  <2>2. Cardinality(Upto(v)) <= Cardinality(Upto(w)) /\ Cardinality(Upto(v)) # Cardinality(Upto(w))
    BY <1>1, <2>1, FS_Subset
  <2> QED BY <1>1, <2>2 DEF Place
<1> QED BY <1>2, <1>3

\* Every place is taken by one whisper.
LEMMA PlaceBijection ==
    ASSUME NEW list, Sorted(list)
    PROVE  /\ \A v, w \in list : Place(v, list) = Place(w, list) => v = w
           /\ \A i \in 1..Cardinality(list) : \E w \in list : Place(w, list) = i
<1> DEFINE place == [w \in list |-> Place(w, list)]
           n == Cardinality(list)
<1>1. \A v, w \in list : Place(v, list) = Place(w, list) => v = w
  BY PlaceOrder DEF Sorted
<1>2. place \in Injection(list, 1..n)
  BY <1>1, PlaceOrder DEF Injection, IsInjective
<1>3. n \in Nat /\ IsFiniteSet(1..n) /\ Cardinality(1..n) = n
  BY FS_CardinalityType, FS_Interval DEF Sorted
<1>4. place \in Surjection(list, 1..n)
  BY <1>2, <1>3, FS_Injection
<1> QED BY <1>1, <1>4 DEF Surjection

\* As many whispers have a place in a range as the range has places of the list.
LEMMA PlaceCount ==
    ASSUME NEW list, Sorted(list), NEW A \in SUBSET (1..Cardinality(list))
    PROVE  /\ IsFiniteSet({w \in list : Place(w, list) \in A})
           /\ Cardinality({w \in list : Place(w, list) \in A}) = Cardinality(A)
<1> DEFINE D == {w \in list : Place(w, list) \in A}
           place == [w \in D |-> Place(w, list)]
<1>1. IsFiniteSet(D)
  BY FS_Subset DEF Sorted
<1>2. place \in Injection(D, A) /\ place \in Surjection(D, A)
  BY PlaceBijection DEF Injection, IsInjective, Surjection
<1>3. ExistsBijection(D, A)
  BY <1>2 DEF ExistsBijection, Bijection
<1> QED BY <1>1, <1>3, FS_Bijection
----------------------------------------------------------------------------
(* What may be asked, shown and said                                       *)

Requests == [do : Deeds, whisper : Whispers \union {None}, query : Queries]

\* A whisper that is or was there.
Known(w) == w \in Whispers /\ (w \in Present \/ removed[w] # "nobody")

\* A whisper that will not arrive any more: if it is not there now it never will be.
Final(w) == w \in scene.arriving => Known(w)

AskOK(a) == a \in Requests /\ Final(a.whisper)

DeletedByOwner(w) == w \in Whispers /\ removed[w] = "owner"

ScreenOK(s) ==
    /\ s.shows \in {"nothing", "list", "detail", "confirm", "deleted"}
    /\ s.shows = "list" => s.buttons \in Queries /\ \A w \in s.items : Known(w)
    /\ s.shows \in {"detail", "confirm"} =>
           s.whisper \in Whispers \union {None} /\ Final(s.whisper) /\ s.query \in Queries
    /\ s.shows = "deleted" => DeletedByOwner(s.whisper)

\* A text is true of the whisper that the update is about.
TextOK(w, said) ==
    /\ said = "deleted" => DeletedByOwner(w)
    /\ said = "missing" => w \notin Present
    /\ said = "sent" => w \notin Present \/ sent[w] > 0

CallOK(w, c) ==
    /\ c.to \in {"show", "content", "answer", "note"}
    /\ c.to = "show" => ScreenOK(c.screen)
    /\ c.to = "content" => c.whisper = w /\ w \in Whispers
    /\ c.to \in {"answer", "note"} => TextOK(w, c.text)

\* One request to Telegram, or one and the answer to the press. That a content was
\* sent becomes true when the request before is accepted.
CallsOK(w, calls) ==
    /\ CallOK(w, calls[1])
    /\ \/ calls = <<calls[1]>>
       \/ /\ calls = <<calls[1], calls[2]>>
          /\ calls[2] = Answer(calls[2].text)
          /\ \/ TextOK(w, calls[2].text)
             \/ calls[1].to = "content" /\ calls[2].text = "sent"

\* The fields of a task are named, since TypeOK does not type it.
TaskOK(u) ==
    /\ task[u] = [ask |-> task[u].ask, pressed |-> task[u].pressed, pc |-> task[u].pc,
                  attempts |-> task[u].attempts, calls |-> task[u].calls]
    /\ task[u].pressed \in BOOLEAN
    /\ task[u].pc \in {"idle", "queued", "reading", "fetching", "calling", "done", "dropped"}
    /\ task[u].attempts \in 0..MaxAttempts
    /\ ~At(u, "calling") => task[u].calls = <<>>
    /\ At(u, "queued") => task[u].attempts < MaxAttempts
    /\ At(u, "idle") => answer[u] = "none"
    /\ At(u, "idle") \/ AskOK(task[u].ask)
    /\ TextOK(task[u].ask.whisper, answer[u])
    /\ At(u, "calling") => CallsOK(task[u].ask.whisper, task[u].calls)

TasksOK ==
    /\ DOMAIN task = Updates /\ DOMAIN answer = Updates
    /\ \A u \in Updates : TaskOK(u)

RowsOK ==
    /\ scene \in Scenes
    /\ created \in [Whispers -> Nat] /\ newest \in Nat
    /\ \A v, w \in Present : created[w] <= newest /\ (created[v] = created[w] => v = w)
    /\ named \in [Users -> Names]
    /\ due \subseteq Present
    /\ removed \in [Whispers -> {"nobody", "owner", "cleanup"}]
    /\ \A w \in Present : removed[w] = "nobody"
    /\ retrieved \in [Whispers -> Nat] /\ deleted \in [Whispers -> Nat] /\ sent \in [Whispers -> Nat]
    \* What commands may name is known from the beginning.
    /\ \A w \in Whispers : Stored[w] # 0 => Known(w)

TypeInv == RowsOK /\ ScreenOK(screen) /\ TasksOK

\* The contents that were audited and are on their way.
Carries(u, w) == At(u, "calling") /\ task[u].calls[1].to = "content" /\ task[u].ask.whisper = w
Carrying(w)   == {u \in Updates : Carries(u, w)}

\* A content is sent, or sent twice, only after as many audits.
AuditInv == \A w \in Whispers : sent[w] + Cardinality(Carrying(w)) <= retrieved[w]

DeletionInv == \A w \in Whispers : deleted[w] = IF removed[w] = "owner" THEN 1 ELSE 0

TrailInv == AuditInv /\ DeletionInv

----------------------------------------------------------------------------
(* Queries and lists                                                       *)

\* Whispers that are there make a sorted list.
LEMMA PresentSorted ==
    ASSUME RowsOK, NEW list \in SUBSET Present
    PROVE  Sorted(list) /\ Cardinality(list) \in Nat
<1>1. IsFiniteSet(list)
  BY OwnerAssumption, FS_Subset DEF Present
<1> QED BY <1>1, FS_CardinalityType DEF Sorted, RowsOK, Present

\* The newest of a list is one of it.
LEMMA NewestIsThere ==
    ASSUME NEW items, Sorted(items), items # {}
    PROVE  Newest(items) \in items
<1>1. Cardinality(items) \in Nat \ {0}
  BY FS_CardinalityType, FS_EmptySet DEF Sorted
<1>2. \E w \in items : Place(w, items) = 1
  BY <1>1, PlaceBijection
<1> QED BY <1>2 DEF Newest

\* The first pages of the menu are queries.
LEMMA FirstTypes ==
    /\ All \in Filters /\ \A k \in Kinds : ByMedia(k) \in Filters
    /\ \A f \in Filters : First(f) \in Queries
<1>1. All \in Filters /\ \A k \in Kinds : ByMedia(k) \in Filters
  BY DEF Filters, All, ByMedia
<1>2. \A f \in Filters : First(f) \in Queries
  BY OwnerAssumption DEF First, Queries
<1> QED BY <1>1, <1>2

\* So are those behind the buttons.
LEMMA QueryTypes ==
    ASSUME NEW q \in Queries
    PROVE  Encoded(q) \in Queries /\ Onward(q) \in Queries /\ Back(q) \in Queries
<1> USE DEF Queries
<1>1. ASSUME NEW n \in Nat PROVE Encoded([q EXCEPT !.offset = n]) \in Queries
  BY FirstTypes DEF Encoded
<1>2. Encoded(q) \in Queries
  BY FirstTypes DEF Encoded
<1>3. q.offset + q.limit \in Nat /\ (q.offset > q.limit => q.offset - q.limit \in Nat)
  OBVIOUS
<1> QED BY <1>1, <1>2, <1>3 DEF Onward, Back

LEMMA NavigationType ==
    ASSUME RowsOK, NEW q \in Queries, NEW items \in SUBSET Present
    PROVE  Navigation(q, items) \in Queries
<1>1. CASE items = {}
  BY <1>1 DEF Navigation
<1>2. CASE items # {}
  <2>1. Newest(items) \in Whispers
    BY <1>2, PresentSorted, NewestIsThere DEF Present
  <2>2. BySender(Sender[Newest(items)]) \in Filters
    BY <2>1 DEF BySender, Filters, Users
  <2> QED BY <2>2 DEF Navigation, Queries
<1> QED BY <1>1, <1>2

\* What a screen offers may be asked.
LEMMA ButtonsOK ==
    ASSUME RowsOK, NEW s, ScreenOK(s), NEW b \in Buttons(s)
    PROVE  AskOK(b)
<1>1. \A do, w, q : do \in Deeds /\ q \in Queries /\ w \in Whispers \union {None} /\ Final(w)
                       => AskOK(Request(do, w, q))
  BY DEF AskOK, Requests, Request
<1>2. Final(None)
  BY OwnerAssumption DEF Final, RowsOK
<1>3. First(All) \in Queries /\ \A k \in Kinds : First(ByMedia(k)) \in Queries
  BY FirstTypes
<1>4. {"page", "item", "open", "confirm", "delete", "retain"} = Deeds
  BY DEF Deeds
<1>5. CASE s.shows = "list"
  <2>1. s.buttons \in Queries /\ \A w \in s.items : w \in Whispers /\ Final(w)
    BY <1>5 DEF ScreenOK, Final, Known
  <2> QED BY <1>1, <1>2, <1>3, <1>4, <1>5, <2>1, QueryTypes, FirstTypes DEF Buttons
<1>6. CASE s.shows \in {"detail", "confirm"}
  BY <1>1, <1>2, <1>4, <1>6 DEF Buttons, ScreenOK
<1>7. CASE s.shows \in {"deleted", "nothing"}
  BY <1>1, <1>2, <1>3, <1>4, <1>7 DEF Buttons
<1> QED BY <1>5, <1>6, <1>7 DEF ScreenOK
----------------------------------------------------------------------------
(* What no step takes back                                                 *)

Forward ==
    /\ scene' = scene
    /\ \A w : Known(w) => Known(w)'
    /\ \A w : DeletedByOwner(w) => DeletedByOwner(w)'
    /\ \A w : Final(w) /\ w \notin Present => w \notin Present'
    /\ \A w : Known(w) /\ w \in Present' => w \in Present /\ created'[w] = created[w]
    /\ \A w \in Whispers : sent[w] > 0 => sent'[w] > 0

\* Then what was shown and said remains true.
LEMMA RemainsTrue ==
    ASSUME Forward
    PROVE  /\ \A w : Final(w) => Final(w)'
           /\ \A s : ScreenOK(s) => ScreenOK(s)'
           /\ \A w, said : w \in Whispers \union {None} /\ Final(w) /\ TextOK(w, said) => TextOK(w, said)'
           /\ \A a : AskOK(a) => AskOK(a)'
<1>1. \A w : Final(w) => Final(w)'
  BY DEF Forward, Final
<1>2. \A s : ScreenOK(s) => ScreenOK(s)'
  BY <1>1 DEF Forward, ScreenOK
<1>3. \A w, said : w \in Whispers \union {None} /\ Final(w) /\ TextOK(w, said) => TextOK(w, said)'
  <2>1. None \notin Present'
    BY OwnerAssumption DEF Present
  <2> QED BY <2>1 DEF Forward, TextOK
<1> QED BY <1>1, <1>2, <1>3 DEF AskOK

LEMMA CallsRemainTrue ==
    ASSUME Forward, NEW w \in Whispers \union {None}, Final(w), NEW calls, CallsOK(w, calls)
    PROVE  CallsOK(w, calls)'
<1>1. \A c : CallOK(w, c) => CallOK(w, c)'
  BY RemainsTrue DEF CallOK
<1> QED BY <1>1, RemainsTrue DEF CallsOK

\* A whisper arrives.
LEMMA ArriveForward ==
    ASSUME RowsOK, NEW w \in Whispers, Arrive(w)
    PROVE  Forward /\ Present' = Present \union {w}
<1>1. Present' = Present \union {w}
  BY DEF Arrive, Present, RowsOK
<1>2. ~Final(w)
  BY DEF Arrive, Final, Known
<1> QED BY <1>1, <1>2 DEF Forward, Arrive, Known, DeletedByOwner, trail

\* A row is removed.
LEMMA RemoveForward ==
    ASSUME RowsOK, NEW w \in Present, NEW by \in {"owner", "cleanup"}, RemoveRow(w, by), UNCHANGED <<scene, sent>>
    PROVE  Forward /\ Present' = Present \ {w} /\ due' = due \ {w} /\ removed' = [removed EXCEPT ![w] = by]
<1>1. Present' = Present \ {w}
  BY DEF RemoveRow, Present, RowsOK
<1> QED BY <1>1 DEF Forward, RemoveRow, Known, DeletedByOwner, RowsOK, Present

\* The rows stay.
LEMMA StayForward ==
    ASSUME UNCHANGED <<scene, created, removed>>, \A w \in Whispers : sent[w] > 0 => sent'[w] > 0
    PROVE  Forward /\ Present' = Present
  BY DEF Forward, Known, DeletedByOwner, Present

\* The rows keep their types.
LEMMA RemoveKeepsRows ==
    ASSUME RowsOK, NEW w \in Present, NEW by \in {"owner", "cleanup"}, RemoveRow(w, by),
           UNCHANGED <<scene, newest, named, sent, retrieved>>, deleted' \in [Whispers -> Nat]
    PROVE  RowsOK'
<1>1. Forward /\ Present' = Present \ {w} /\ due' = due \ {w} /\ removed' = [removed EXCEPT ![w] = by]
  BY RemoveForward
<1>2. created' \in [Whispers -> Nat] /\ \A v \in Present' : v \in Present /\ v # w /\ created'[v] = created[v]
  BY <1>1 DEF RowsOK, RemoveRow, Present
<1>3. \A v, x \in Present' : created'[x] <= newest' /\ (created'[v] = created'[x] => v = x)
  BY <1>2 DEF RowsOK
<1>4. due' \subseteq Present' /\ removed' \in [Whispers -> {"nobody", "owner", "cleanup"}]
  BY <1>1 DEF RowsOK
<1>5. \A v \in Present' : removed'[v] = "nobody"
  BY <1>1, <1>2 DEF RowsOK, Present
<1>6. \A v \in Whispers : Stored[v] # 0 => Known(v)'
  BY <1>1 DEF RowsOK, Forward
<1> QED BY <1>2, <1>3, <1>4, <1>5, <1>6 DEF RowsOK

LEMMA ArriveKeepsRows ==
    ASSUME RowsOK, NEW w \in Whispers, Arrive(w)
    PROVE  RowsOK'
<1>1. Forward /\ Present' = Present \union {w}
  BY ArriveForward
<1>2. /\ newest' = newest + 1 /\ newest' \in Nat
      /\ created' \in [Whispers -> Nat] /\ created'[w] = newest'
      /\ \A v \in Present : v # w /\ created'[v] = created[v]
  BY DEF RowsOK, Arrive
<1>3. \A v, x \in Present' : created'[x] <= newest' /\ (created'[v] = created'[x] => v = x)
  <2>1. \A v \in Present : created[v] \in Nat /\ created[v] <= newest
    BY DEF RowsOK, Present
  <2> QED BY <1>1, <1>2, <2>1 DEF RowsOK
<1> QED BY <1>1, <1>2, <1>3 DEF RowsOK, Forward, Arrive, trail
----------------------------------------------------------------------------
(* Tasks                                                                   *)

\* The task of an update that is not touched.
LEMMA TaskKept ==
    ASSUME Forward, NEW u \in Updates, TaskOK(u), task'[u] = task[u], answer'[u] = answer[u]
    PROVE  TaskOK(u)'
<1>1. PICK a, w, said, calls : a = task[u].ask /\ w = a.whisper /\ said = answer[u] /\ calls = task[u].calls
  OBVIOUS
<1>2. /\ task'[u].ask = a /\ task'[u].ask.whisper = w /\ answer'[u] = said /\ task'[u].calls = calls
      /\ task'[u].pc = task[u].pc
  BY <1>1
<1>3. CASE At(u, "idle")
  <2>1. TextOK(w, said)'
    BY <1>1, <1>3 DEF TaskOK, TextOK
  <2> QED BY <1>2, <1>3, <2>1 DEF TaskOK, At
<1>4. CASE ~At(u, "idle")
  <2>1. AskOK(a) /\ w \in Whispers \union {None} /\ Final(w) /\ TextOK(w, said)
    BY <1>1, <1>4 DEF TaskOK, AskOK, Requests
  <2>2. AskOK(a)' /\ TextOK(w, said)'
    BY <2>1, RemainsTrue
  <2>3. At(u, "calling") => CallsOK(w, calls)'
    BY <1>1, <2>1, CallsRemainTrue DEF TaskOK
  <2> QED BY <1>2, <1>4, <2>2, <2>3 DEF TaskOK, At
<1> QED BY <1>3, <1>4

LEMMA TasksKept ==
    ASSUME TasksOK, Forward, UNCHANGED <<task, answer>>
    PROVE  TasksOK'
  BY TaskKept DEF TasksOK

\* A step of one update leaves the others alone.
LEMMA OneTask ==
    ASSUME TasksOK, Forward, NEW u \in Updates, NEW t, task' = [task EXCEPT ![u] = t],
           DOMAIN answer' = Updates, \A v \in Updates \ {u} : answer'[v] = answer[v],
           TaskOK(u)'
    PROVE  TasksOK'
<1>1. DOMAIN task' = Updates /\ \A v \in Updates \ {u} : task'[v] = task[v]
  BY DEF TasksOK
<1> QED BY <1>1, TaskKept DEF TasksOK

\* A handler goes on, to its requests, to its end or to another attempt.
LEMMA TaskMoves ==
    ASSUME TasksOK, Forward, NEW u \in Updates, ~At(u, "idle"), NEW t, task' = [task EXCEPT ![u] = t],
           t = [ask |-> task[u].ask, pressed |-> task[u].pressed, pc |-> t.pc, attempts |-> t.attempts, calls |-> t.calls],
           t.pc \in {"queued", "reading", "fetching", "calling", "done", "dropped"}, t.attempts \in 0..MaxAttempts,
           t.pc = "queued" => t.attempts < MaxAttempts, t.pc # "calling" => t.calls = <<>>,
           NEW w, w = task[u].ask.whisper, t.pc = "calling" => CallsOK(w, t.calls)',
           NEW said, said = answer'[u], TextOK(w, said)',
           DOMAIN answer' = Updates, \A v \in Updates \ {u} : answer'[v] = answer[v]
    PROVE  TasksOK'
<1>1. PICK a : a = task[u].ask
  OBVIOUS
<1>2. task'[u] = t /\ t.ask = a /\ t.ask.whisper = w /\ t.pressed \in BOOLEAN
  BY <1>1 DEF TasksOK, TaskOK
<1>3. AskOK(a)'
  BY <1>1, RemainsTrue DEF TasksOK, TaskOK
<1>4. TaskOK(u)'
  BY <1>2, <1>3 DEF TaskOK, At
<1> QED BY <1>4, OneTask

\* The record that a step makes of a task.
LEMMA TaskFields ==
    ASSUME TasksOK, NEW u \in Updates, NEW pc, NEW calls
    PROVE  /\ [task[u] EXCEPT !.pc = pc, !.calls = calls]
                = [ask |-> task[u].ask, pressed |-> task[u].pressed, pc |-> pc,
                   attempts |-> task[u].attempts, calls |-> calls]
           /\ task[u].attempts \in 0..MaxAttempts
<1>1. PICK s : s = [task[u] EXCEPT !.pc = pc]
  OBVIOUS
<1>2. s = [ask |-> task[u].ask, pressed |-> task[u].pressed, pc |-> pc,
           attempts |-> task[u].attempts, calls |-> task[u].calls]
  BY <1>1 DEF TasksOK, TaskOK
<1>3. [s EXCEPT !.calls = calls] = [ask |-> task[u].ask, pressed |-> task[u].pressed, pc |-> pc,
                                    attempts |-> task[u].attempts, calls |-> calls]
  BY <1>2
<1>4. [task[u] EXCEPT !.pc = pc, !.calls = calls] = [[task[u] EXCEPT !.pc = pc] EXCEPT !.calls = calls]
  OBVIOUS
<1> QED BY <1>1, <1>3, <1>4 DEF TasksOK, TaskOK

LEMMA ThenOK ==
    ASSUME TasksOK, Forward, NEW u \in Updates, Active(u), NEW calls, Then(u, calls),
           NEW w, w = task[u].ask.whisper, calls # <<>> => CallsOK(w, calls)',
           NEW said, said = answer'[u], TextOK(w, said)',
           DOMAIN answer' = Updates, \A v \in Updates \ {u} : answer'[v] = answer[v]
    PROVE  TasksOK'
<1>1. PICK pc, t : pc = (IF calls = <<>> THEN "done" ELSE "calling") /\ t = [task[u] EXCEPT !.pc = pc, !.calls = calls]
  OBVIOUS
<1>2. task' = [task EXCEPT ![u] = t] /\ ~At(u, "idle")
  BY <1>1 DEF Then, Active, At
<1>3. /\ pc \in {"queued", "reading", "fetching", "calling", "done", "dropped"} /\ pc # "queued"
      /\ pc # "calling" => calls = <<>>
      /\ pc = "calling" => CallsOK(w, calls)'
  BY <1>1
<1>4. /\ t = [ask |-> task[u].ask, pressed |-> task[u].pressed, pc |-> pc, attempts |-> task[u].attempts, calls |-> calls]
      /\ task[u].attempts \in 0..MaxAttempts
  BY <1>1, TaskFields
<1>5. t.pc = pc /\ t.attempts = task[u].attempts /\ t.calls = calls
  BY <1>4
<1>6. t = [ask |-> task[u].ask, pressed |-> task[u].pressed, pc |-> t.pc, attempts |-> t.attempts, calls |-> t.calls]
  BY <1>4, <1>5
<1>7. t.pc = "calling" => CallsOK(w, t.calls)'
  BY <1>3, <1>5
<1>8. /\ t.pc \in {"queued", "reading", "fetching", "calling", "done", "dropped"} /\ t.pc # "queued"
      /\ t.attempts \in 0..MaxAttempts /\ (t.pc # "calling" => t.calls = <<>>)
  BY <1>3, <1>4, <1>5
<1> QED BY <1>2, <1>6, <1>7, <1>8, TaskMoves

LEMMA FailedOK ==
    ASSUME TasksOK, Forward, NEW u \in Updates, Active(u), Failed(u),
           NEW w, w = task[u].ask.whisper, NEW said, said = answer'[u], TextOK(w, said)',
           DOMAIN answer' = Updates, \A v \in Updates \ {u} : answer'[v] = answer[v]
    PROVE  TasksOK'
<1>1. PICK pc, t : /\ pc = (IF task[u].attempts < MaxAttempts THEN "queued" ELSE "dropped")
                   /\ t = [task[u] EXCEPT !.pc = pc, !.calls = <<>>]
  OBVIOUS
<1>2. task' = [task EXCEPT ![u] = t] /\ ~At(u, "idle")
  BY <1>1 DEF Failed, Active, At
<1>3. /\ pc \in {"queued", "reading", "fetching", "calling", "done", "dropped"} /\ pc # "calling"
      /\ pc = "queued" => task[u].attempts < MaxAttempts
  BY <1>1
<1>4. /\ t = [ask |-> task[u].ask, pressed |-> task[u].pressed, pc |-> pc, attempts |-> task[u].attempts, calls |-> <<>>]
      /\ task[u].attempts \in 0..MaxAttempts
  BY <1>1, TaskFields
<1>5. t.pc = pc /\ t.attempts = task[u].attempts /\ t.calls = <<>>
  BY <1>4
<1>6. t = [ask |-> task[u].ask, pressed |-> task[u].pressed, pc |-> t.pc, attempts |-> t.attempts, calls |-> t.calls]
  BY <1>4, <1>5
<1>7. /\ t.pc \in {"queued", "reading", "fetching", "calling", "done", "dropped"} /\ t.pc # "calling"
      /\ (t.pc = "queued" => t.attempts < MaxAttempts) /\ t.attempts \in 0..MaxAttempts
  BY <1>3, <1>4, <1>5
<1> QED BY <1>2, <1>5, <1>6, <1>7, TaskMoves
----------------------------------------------------------------------------
(* Types                                                                   *)

LEMMA RowsKept ==
    ASSUME RowsOK, UNCHANGED <<scene, created, newest, named, removed, deleted>>, due' \subseteq due,
           retrieved' \in [Whispers -> Nat], sent' \in [Whispers -> Nat], \A w \in Whispers : sent'[w] >= sent[w]
    PROVE  RowsOK' /\ Forward /\ Present' = Present
<1>1. Forward /\ Present' = Present
  BY StayForward DEF RowsOK
<1> QED BY <1>1 DEF RowsOK, Forward

LEMMA ScreenKept ==
    ASSUME Forward, ScreenOK(screen), screen' = screen
    PROVE  ScreenOK(screen)'
<1>1. PICK s : s = screen
  OBVIOUS
<1>2. ScreenOK(s)'
  BY <1>1, RemainsTrue
<1> QED BY <1>1, <1>2

\* What a task is about.
LEMMA Asked ==
    ASSUME TasksOK, NEW u \in Updates, ~At(u, "idle")
    PROVE  /\ task[u].ask.whisper \in Whispers \union {None} /\ Final(task[u].ask.whisper)
           /\ task[u].ask.query \in Queries /\ task[u].ask.do \in Deeds
           /\ TextOK(task[u].ask.whisper, answer[u])
  BY DEF TasksOK, TaskOK, AskOK, Requests

\* The requests of a handler, the answer to a press behind them.
LEMMA RepliesOK ==
    ASSUME NEW u, NEW w, NEW call, NEW said, CallOK(w, call)',
           TextOK(w, said)' \/ (call.to = "content" /\ said = "sent"),
           NEW calls, calls = Replies(u, call, said)
    PROVE  CallsOK(w, calls)' /\ calls # <<>>
<1>1. CASE calls = <<call>>
  BY <1>1 DEF CallsOK
<1>2. CASE calls = <<call, Answer(said)>>
  <2>1. calls[1] = call /\ calls[2] = Answer(said) /\ Answer(said).text = said
    BY <1>2 DEF Answer
  <2>2. calls = <<calls[1], calls[2]>>
    BY <1>2, <2>1
  <2>3. calls[2].text = said /\ calls[2] = Answer(calls[2].text)
    BY <2>1
  <2>4. TextOK(w, calls[2].text)' \/ (calls[1].to = "content" /\ calls[2].text = "sent")
    BY <2>1, <2>3
  <2>5. CallOK(w, calls[1])'
    BY <2>1
  <2> QED BY <1>2, <2>2, <2>3, <2>4, <2>5 DEF CallsOK
<1> QED BY <1>1, <1>2 DEF Replies

LEMMA AnswerOK ==
    ASSUME NEW w, NEW said, TextOK(w, said)'
    PROVE  /\ CallOK(w, Answer(said))' /\ CallOK(w, Note(said))'
           /\ CallsOK(w, <<Answer(said)>>)' /\ CallsOK(w, <<Note(said)>>)'
  BY DEF CallOK, CallsOK, Answer, Note

\* A handler has read or written and goes on to its requests.
LEMMA HandlerStep ==
    ASSUME TypeInv, RowsOK', Forward, UNCHANGED <<screen, answer>>, NEW u \in Updates, Active(u),
           NEW calls, Then(u, calls), NEW w, w = task[u].ask.whisper, calls # <<>> => CallsOK(w, calls)'
    PROVE  TypeInv'
<1>1. ScreenOK(screen)'
  BY ScreenKept DEF TypeInv
<1>2. PICK said : said = answer'[u]
  OBVIOUS
<1>3. TextOK(w, said)'
  BY <1>2, Asked, RemainsTrue DEF TypeInv, Active, At
<1>4. TasksOK'
  BY <1>2, <1>3, ThenOK DEF TypeInv, TasksOK
<1> QED BY <1>1, <1>4 DEF TypeInv

LEMMA ReadListStep ==
    ASSUME TypeInv, NEW u \in Updates, ReadList(u)
    PROVE  TypeInv'
<1>1. RowsOK' /\ Forward
  BY RowsKept DEF ReadList, TypeInv, RowsOK, rows, trail
<1>2. PICK q, w, call : /\ q = task[u].ask.query /\ w = task[u].ask.whisper
                        /\ call = ShowList(List(q, Page(q)), Cut(q))
  OBVIOUS
<1>3. q \in Queries /\ Page(q) \in SUBSET Present
  BY <1>2, Asked DEF ReadList, TypeInv, At, Page, Matching
<1>4. CallOK(w, call)'
  <2>1. Navigation(q, Page(q)) \in Queries /\ \A v \in Page(q) : Known(v)
    BY <1>3, NavigationType DEF TypeInv, Known, Present
  <2>2. ScreenOK(call.screen) /\ call.to = "show"
    BY <1>2, <2>1 DEF ScreenOK, ShowList, List
  <2> QED BY <1>1, <2>2, RemainsTrue DEF CallOK
<1>5. TextOK(w, "updated")'
  BY DEF TextOK
<1>6. PICK calls : calls = Replies(u, call, "updated")
  OBVIOUS
<1>7. Then(u, calls) /\ Active(u) /\ UNCHANGED <<screen, answer>>
  BY <1>2, <1>6 DEF ReadList, Active, At, dialog
<1>8. CallsOK(w, calls)'
  BY <1>4, <1>5, <1>6, RepliesOK
<1> QED BY <1>1, <1>2, <1>7, <1>8, HandlerStep

\* Reading, and nothing but the requests to come of it.
LEMMA ReadStep ==
    ASSUME TypeInv, UNCHANGED <<scene, rows, dialog, answer, deleted, sent, removed>>, retrieved' \in [Whispers -> Nat],
           NEW u \in Updates, Active(u), NEW call, NEW said, NEW calls, calls \in {<<call>>, Replies(u, call, said)},
           Then(u, calls), NEW w, w = task[u].ask.whisper,
           CallOK(w, call), TextOK(w, said) \/ (call.to = "content" /\ said = "sent")
    PROVE  TypeInv'
<1>1. RowsOK' /\ Forward /\ UNCHANGED <<screen, answer>>
  BY RowsKept DEF TypeInv, RowsOK, rows, dialog
<1>2. w \in Whispers \union {None} /\ Final(w)
  BY Asked DEF TypeInv, Active, At
<1>3. CallOK(w, call)'
  BY <1>1, <1>2, RemainsTrue DEF CallOK
<1>4. TextOK(w, said)' \/ (call.to = "content" /\ said = "sent")
  BY <1>1, <1>2, RemainsTrue
<1>5. CASE calls = <<call>>
  <2>1. CallsOK(w, calls)'
    BY <1>3, <1>5 DEF CallsOK
  <2> QED BY <1>1, <2>1, HandlerStep
<1>6. CASE calls = Replies(u, call, said)
  <2>1. CallsOK(w, calls)'
    BY <1>3, <1>4, <1>6, RepliesOK
  <2> QED BY <1>1, <2>1, HandlerStep
<1> QED BY <1>5, <1>6

LEMMA ReadItemStep ==
    ASSUME TypeInv, NEW u \in Updates, ReadItem(u) \/ AskToConfirm(u)
    PROVE  TypeInv'
<1>1. PICK w, q : w = task[u].ask.whisper /\ q = task[u].ask.query
  OBVIOUS
<1>2. /\ w \in Whispers \union {None} /\ Final(w) /\ q \in Queries /\ Active(u)
      /\ UNCHANGED <<scene, rows, dialog, answer, deleted, sent, removed>> /\ retrieved' \in [Whispers -> Nat]
  BY <1>1, Asked DEF ReadItem, AskToConfirm, TypeInv, RowsOK, Active, At, trail
<1>3. CASE ReadItem(u) /\ Missing(u)
  <2>1. TextOK(w, "missing") /\ CallOK(w, Answer("missing"))
    BY <1>1, <1>3 DEF Missing, TextOK, CallOK, Answer
  <2>2. Then(u, <<Answer("missing")>>)
    BY <1>3 DEF ReadItem
  <2> QED BY <1>1, <1>2, <2>1, <2>2, ReadStep
<1>4. CASE ReadItem(u) /\ ~Missing(u)
  <2>1. CallOK(w, Show(Detail(w, q))) /\ TextOK(w, "expanded")
    BY <1>2 DEF CallOK, Show, Detail, ScreenOK, TextOK
  <2>2. Then(u, Replies(u, Show(Detail(w, q)), "expanded"))
    BY <1>1, <1>4 DEF ReadItem
  <2> QED BY <1>1, <1>2, <2>1, <2>2, ReadStep
<1>5. CASE AskToConfirm(u)
  <2>1. CallOK(w, Show(Confirm(w, q))) /\ TextOK(w, "confirm")
    BY <1>2 DEF CallOK, Show, Confirm, ScreenOK, TextOK
  <2>2. Then(u, Replies(u, Show(Confirm(w, q)), "confirm"))
    BY <1>1, <1>5 DEF AskToConfirm
  <2> QED BY <1>1, <1>2, <2>1, <2>2, ReadStep
<1> QED BY <1>3, <1>4, <1>5

\* A content that is not there is said to be missing, and then to be sent.
LEMMA UnavailableStep ==
    ASSUME TypeInv, NEW u \in Updates, Active(u), Missing(u), Unavailable(u),
           UNCHANGED <<scene, rows, dialog, answer, trail>>
    PROVE  TypeInv'
<1>1. PICK w : w = task[u].ask.whisper
  OBVIOUS
<1>2. TextOK(w, "missing") /\ TextOK(w, "sent") /\ CallOK(w, Answer("missing"))
  BY <1>1 DEF Missing, TextOK, CallOK, Answer
<1>3. Then(u, Replies(u, Answer("missing"), "sent")) /\ retrieved' \in [Whispers -> Nat]
  BY DEF Unavailable, TypeInv, RowsOK, trail
<1> QED BY <1>1, <1>2, <1>3, ReadStep DEF trail

LEMMA FetchStep ==
    ASSUME TypeInv, NEW u \in Updates, FetchContent(u)
    PROVE  TypeInv'
<1>1. Active(u)
  BY DEF FetchContent, Active, At
<1>2. CASE Missing(u)
  BY <1>1, <1>2, UnavailableStep DEF FetchContent, trail
<1>3. CASE ~Missing(u)
  <2>1. PICK w : w = task[u].ask.whisper
    OBVIOUS
  <2>2. w \in Whispers
    BY <1>3, <2>1 DEF Missing, Present
  <2>3. CallOK(w, Content(w)) /\ Content(w).to = "content"
    BY <2>2 DEF CallOK, Content
  <2>4. retrieved' = [retrieved EXCEPT ![w] = @ + 1] /\ Then(u, Replies(u, Content(w), "sent"))
    BY <1>3, <2>1 DEF FetchContent, AuditRetrieval
  <2>5. retrieved' \in [Whispers -> Nat]
    BY <2>2, <2>4 DEF TypeInv, RowsOK
  <2> QED BY <1>1, <2>1, <2>3, <2>4, <2>5, ReadStep DEF FetchContent
<1> QED BY <1>2, <1>3

LEMMA ReviewStep ==
    ASSUME TypeInv, NEW u \in Updates, ReadForReview(u)
    PROVE  TypeInv'
<1>1. Active(u) /\ ~At(u, "idle") /\ UNCHANGED <<scene, rows, dialog, answer, trail>>
  BY DEF ReadForReview, Active, At
<1>2. CASE Missing(u)
  BY <1>1, <1>2, UnavailableStep DEF ReadForReview
<1>3. CASE ~Missing(u)
  <2>1. RowsOK' /\ Forward /\ ScreenOK(screen)'
    BY <1>1, RowsKept, ScreenKept DEF TypeInv, RowsOK, rows, trail, dialog
  <2>2. PICK t : t = [task[u] EXCEPT !.pc = "fetching"]
    OBVIOUS
  <2>3. task' = [task EXCEPT ![u] = t]
    BY <1>3, <2>2 DEF ReadForReview
  <2>4. task[u].calls = <<>> /\ task[u].attempts \in 0..MaxAttempts
    BY DEF ReadForReview, At, TypeInv, TasksOK, TaskOK
  <2>5. t = [ask |-> task[u].ask, pressed |-> task[u].pressed, pc |-> "fetching",
             attempts |-> task[u].attempts, calls |-> task[u].calls]
    BY <2>2 DEF TypeInv, TasksOK, TaskOK
  <2>9. t.pc = "fetching" /\ t.attempts = task[u].attempts /\ t.calls = task[u].calls
    BY <2>5
  <2>6. PICK w, said : w = task[u].ask.whisper /\ said = answer'[u]
    OBVIOUS
  <2>7. TextOK(w, said)'
    BY <1>1, <2>1, <2>6, Asked, RemainsTrue DEF TypeInv
  <2>8. TasksOK'
    BY <1>1, <2>1, <2>3, <2>4, <2>5, <2>9, <2>6, <2>7, TaskMoves DEF TypeInv, TasksOK
  <2> QED BY <2>1, <2>8 DEF TypeInv
<1> QED BY <1>2, <1>3

LEMMA StartStep ==
    ASSUME TypeInv, NEW u \in Updates, Start(u)
    PROVE  TypeInv'
<1>1. ~At(u, "idle") /\ UNCHANGED <<scene, rows, dialog, answer, trail>>
  BY DEF Start, At
<1>2. RowsOK' /\ Forward /\ ScreenOK(screen)'
  BY <1>1, RowsKept, ScreenKept DEF TypeInv, RowsOK, rows, trail, dialog
<1>3. PICK a, p, c, n : task[u] = [ask |-> a, pressed |-> p, pc |-> "queued", attempts |-> n, calls |-> c]
                        /\ n \in 0..MaxAttempts /\ n < MaxAttempts /\ c = <<>>
  BY DEF TypeInv, TasksOK, TaskOK, Start, At
<1>4. PICK t : t = [ask |-> a, pressed |-> p, pc |-> "reading", attempts |-> n + 1, calls |-> c]
  OBVIOUS
<1>5. task' = [task EXCEPT ![u] = t]
  <2>1. PICK s : s = [task[u] EXCEPT !.pc = "reading"]
    OBVIOUS
  <2>2. s = [ask |-> a, pressed |-> p, pc |-> "reading", attempts |-> n, calls |-> c]
    BY <1>3, <2>1
  <2>3. [s EXCEPT !.attempts = n + 1] = t
    BY <1>4, <2>2
  <2>4. [t EXCEPT !.calls = <<>>] = t
    BY <1>3, <1>4
  <2> QED BY <1>3, <2>1, <2>2, <2>3, <2>4 DEF Start, TypeInv, TasksOK
<1>6. t.attempts \in 0..MaxAttempts
  BY <1>3, <1>4, OwnerAssumption
<1>7. PICK w, said : w = task[u].ask.whisper /\ said = answer'[u]
  OBVIOUS
<1>8. TextOK(w, said)'
  BY <1>1, <1>2, <1>7, Asked, RemainsTrue DEF TypeInv
<1>9. t = [ask |-> task[u].ask, pressed |-> task[u].pressed, pc |-> t.pc, attempts |-> t.attempts, calls |-> t.calls]
      /\ t.pc = "reading" /\ t.calls = <<>>
  BY <1>3, <1>4
<1>10. TasksOK'
  BY <1>1, <1>2, <1>5, <1>6, <1>7, <1>8, <1>9, TaskMoves DEF TypeInv, TasksOK
<1> QED BY <1>2, <1>10 DEF TypeInv

LEMMA AskStep ==
    ASSUME TypeInv, NEW u \in Updates, Ask(u)
    PROVE  TypeInv'
<1>1. UNCHANGED <<scene, rows, dialog, answer, trail>> /\ At(u, "idle")
  BY DEF Ask
<1>2. RowsOK' /\ Forward /\ ScreenOK(screen)'
  BY <1>1, RowsKept, ScreenKept DEF TypeInv, RowsOK, rows, trail, dialog
<1> DEFINE Choices(pressed) == IF pressed THEN {b \in Buttons(screen) : b.do \in scene.presses} ELSE scene.commands
           Asks(a, pressed) == task' = [task EXCEPT ![u] = [NoTask EXCEPT !.ask = a, !.pressed = pressed, !.pc = "queued"]]
<1>a. PICK pressed \in BOOLEAN : \E a \in Choices(pressed) : Asks(a, pressed)
  BY DEF Ask
<1>3. PICK a : a \in Choices(pressed) /\ Asks(a, pressed)
  BY <1>a
<1>4. AskOK(a)
  <2>1. CASE pressed
    BY <1>3, <2>1, ButtonsOK DEF TypeInv
  <2>2. CASE ~pressed
    <3>1. a \in scene.commands /\ scene \in Scenes /\ scene.arriving \subseteq Whispers
      BY <1>3, <2>2, OwnerAssumption DEF TypeInv, RowsOK
    <3>2. a \in Requests /\ (a.whisper \in scene.arriving => Stored[a.whisper] # 0)
      BY <3>1, OwnerAssumption DEF Requests
    <3> QED BY <3>1, <3>2 DEF AskOK, Final, TypeInv, RowsOK
  <2> QED BY <2>1, <2>2
<1>5. PICK t : t = [ask |-> a, pressed |-> pressed, pc |-> "queued", attempts |-> 0, calls |-> <<>>]
  OBVIOUS
<1>6. task' = [task EXCEPT ![u] = t]
  <2>1. PICK r, s : r = [NoTask EXCEPT !.ask = a] /\ s = [r EXCEPT !.pressed = pressed]
    OBVIOUS
  <2>2. r = [ask |-> a, pressed |-> r.pressed, pc |-> "idle", attempts |-> 0, calls |-> <<>>]
    BY <2>1 DEF NoTask
  <2>3. s = [ask |-> a, pressed |-> pressed, pc |-> "idle", attempts |-> 0, calls |-> <<>>]
    BY <2>1, <2>2
  <2>4. t = [s EXCEPT !.pc = "queued"]
    BY <1>5, <2>3
  <2>5. [NoTask EXCEPT !.ask = a, !.pressed = pressed, !.pc = "queued"] = [s EXCEPT !.pc = "queued"]
    BY <2>1
  <2> QED BY <1>3, <2>4, <2>5
<1>7. TaskOK(u)'
  <2>1. AskOK(a)'
    BY <1>2, <1>4, RemainsTrue
  <2>2. answer'[u] = "none" /\ task'[u] = t
    BY <1>1, <1>6 DEF TypeInv, TasksOK, TaskOK
  <2>3. task'[u].ask = a /\ task'[u].pc = "queued" /\ task'[u].calls = <<>> /\ task'[u].attempts = 0
        /\ task'[u].pressed \in BOOLEAN
    BY <1>5, <2>2
  <2>4. 0 \in 0..MaxAttempts /\ 0 < MaxAttempts
    BY OwnerAssumption
  <2> QED BY <1>5, <2>1, <2>2, <2>3, <2>4 DEF TaskOK, At, TextOK
<1>8. TasksOK'
  BY <1>1, <1>2, <1>6, <1>7, OneTask DEF TypeInv, TasksOK
<1> QED BY <1>2, <1>8 DEF TypeInv

\* A deletion and what is said of it.
LEMMA DeleteStep ==
    ASSUME TypeInv, NEW u \in Updates, Delete(u)
    PROVE  TypeInv'
<1>1. Active(u) /\ ~At(u, "idle") /\ UNCHANGED <<scene, newest, named, dialog, answer, retrieved, sent>>
  BY DEF Delete, Active, At
<1>2. PICK w : w = task[u].ask.whisper
  OBVIOUS
<1>3. CASE Missing(u)
  <2>1. TextOK(w, "missing") /\ CallOK(w, Answer("missing")) /\ Then(u, <<Answer("missing")>>)
    BY <1>2, <1>3 DEF Delete, Missing, TextOK, CallOK, Answer
  <2>2. UNCHANGED <<scene, rows, dialog, answer, deleted, sent, removed>> /\ retrieved' \in [Whispers -> Nat]
    BY <1>1, <1>3 DEF Delete, rows, TypeInv, RowsOK
  <2> QED BY <1>1, <1>2, <2>1, <2>2, ReadStep
<1>4. CASE ~Missing(u)
  <2>1. w \in Present /\ RemoveRow(w, "owner") /\ deleted' = [deleted EXCEPT ![w] = @ + 1]
    BY <1>2, <1>4 DEF Delete, Missing
  <2>2. deleted' \in [Whispers -> Nat] /\ w \in Whispers
    BY <2>1 DEF TypeInv, RowsOK, Present
  <2>3. RowsOK' /\ Forward /\ removed' = [removed EXCEPT ![w] = "owner"]
    BY <1>1, <2>1, <2>2, RemoveKeepsRows, RemoveForward DEF TypeInv
  <2>4. DeletedByOwner(w)'
    BY <2>2, <2>3 DEF DeletedByOwner, TypeInv, RowsOK
  <2>5. /\ TextOK(w, "deleted")'
        /\ CallOK(w, Show(Deleted(w)))'
    BY <2>4 DEF TextOK, CallOK, Show, Deleted, ScreenOK
  <2>6. PICK calls : calls = IF task[u].pressed THEN <<Show(Deleted(w)), Answer("deleted")>> ELSE <<Note("deleted")>>
    OBVIOUS
  <2>7. CallsOK(w, calls)'
    <3>1. CASE ~task[u].pressed
      BY <2>5, <2>6, <3>1, AnswerOK
    <3>2. CASE task[u].pressed
      <4>1. calls = Replies(u, Show(Deleted(w)), "deleted")
        BY <2>6, <3>2 DEF Replies
      <4> QED BY <2>5, <4>1, RepliesOK
    <3> QED BY <3>1, <3>2
  <2>8. Then(u, calls) /\ UNCHANGED <<screen, answer>>
    BY <1>1, <1>2, <1>4, <2>6 DEF Delete, dialog
  <2> QED BY <1>1, <1>2, <2>3, <2>7, <2>8, HandlerStep
<1> QED BY <1>3, <1>4

LEMMA RetainStep ==
    ASSUME TypeInv, NEW u \in Updates, Retain(u)
    PROVE  TypeInv'
<1>1. Active(u) /\ UNCHANGED <<screen, answer>>
  BY DEF Retain, Active, At, dialog
<1>2. due' \subseteq due
  BY DEF Retain
<1>3. RowsOK' /\ Forward
  BY <1>2, RowsKept DEF Retain, TypeInv, RowsOK, trail
<1>4. PICK w : w = task[u].ask.whisper
  OBVIOUS
<1>5. PICK said : said = IF Missing(u) THEN "missing" ELSE "extended"
  OBVIOUS
<1>6. TextOK(w, said)'
  <2>1. TextOK(w, said) /\ w \in Whispers \union {None} /\ Final(w)
    BY <1>4, <1>5, Asked DEF TextOK, Missing, TypeInv, Retain, At
  <2> QED BY <1>3, <2>1, RemainsTrue
<1>7. Then(u, <<Answer(said)>>) \/ Then(u, <<Note(said)>>)
  BY <1>5 DEF Retain
<1> QED BY <1>1, <1>3, <1>4, <1>6, <1>7, AnswerOK, HandlerStep

\* A handler fails, and the owner may have read that it did.
LEMMA GiveUpStep ==
    ASSUME TypeInv, NEW u \in Updates, DatabaseFails(u) \/ HandlerLost(u)
    PROVE  TypeInv'
<1>1. Active(u) /\ ~At(u, "idle") /\ UNCHANGED <<scene, rows, dialog, trail>> /\ Failed(u)
      /\ (answer' = answer \/ answer' = [answer EXCEPT ![u] = "failed"])
  BY DEF DatabaseFails, HandlerLost, Active, At
<1>2. RowsOK' /\ Forward /\ ScreenOK(screen)'
  BY <1>1, RowsKept, ScreenKept DEF TypeInv, RowsOK, rows, trail, dialog
<1>3. PICK w, said : w = task[u].ask.whisper /\ said = answer'[u]
  OBVIOUS
<1>4. said = answer[u] \/ said = "failed"
  BY <1>1, <1>3 DEF TypeInv, TasksOK
<1>5. TextOK(w, said)'
  <2>1. TextOK(w, said) /\ w \in Whispers \union {None} /\ Final(w)
    BY <1>1, <1>3, <1>4, Asked DEF TypeInv, TextOK
  <2> QED BY <1>2, <2>1, RemainsTrue
<1>6. DOMAIN answer' = Updates /\ \A v \in Updates \ {u} : answer'[v] = answer[v]
  BY <1>1 DEF TypeInv, TasksOK
<1>7. TasksOK'
  BY <1>1, <1>2, <1>3, <1>5, <1>6, FailedOK DEF TypeInv
<1> QED BY <1>2, <1>7 DEF TypeInv

\* The requests of a handler, taken apart.
LEMMA HeadAndTail ==
    ASSUME NEW w, NEW calls, CallsOK(w, calls)
    PROVE  /\ Head(calls) = calls[1] /\ CallOK(w, calls[1])
           /\ \/ calls = <<calls[1]>> /\ Tail(calls) = <<>>
              \/ /\ calls = <<calls[1], calls[2]>> /\ Tail(calls) = <<calls[2]>>
                 /\ calls[2] = Answer(calls[2].text)
                 /\ \/ TextOK(w, calls[2].text)
                    \/ calls[1].to = "content" /\ calls[2].text = "sent"
<1>1. CASE calls = <<calls[1]>>
  <2>1. PICK a : a = calls[1]
    OBVIOUS
  <2>2. calls = <<a>> /\ Head(<<a>>) = a /\ Tail(<<a>>) = <<>>
    BY <1>1, <2>1
  <2> QED BY <1>1, <2>1, <2>2 DEF CallsOK
<1>2. CASE calls = <<calls[1], calls[2]>>
  <2>1. PICK a, b : a = calls[1] /\ b = calls[2]
    OBVIOUS
  <2>2. calls = <<a, b>> /\ Head(<<a, b>>) = a /\ Tail(<<a, b>>) = <<b>>
    BY <1>2, <2>1
  <2> QED BY <1>2, <2>1, <2>2 DEF CallsOK
<1> QED BY <1>1, <1>2 DEF CallsOK

\* What a request does when Telegram takes it.
LEMMA TakesStep ==
    ASSUME TypeInv, NEW u \in Updates, ~At(u, "idle"), NEW c, NEW w, w = task[u].ask.whisper, CallOK(w, c),
           Takes(u, c), UNCHANGED <<scene, rows, retrieved, deleted, removed>>
    PROVE  /\ RowsOK' /\ Forward /\ Present' = Present /\ ScreenOK(screen)'
           /\ DOMAIN answer' = Updates /\ \A v \in Updates \ {u} : answer'[v] = answer[v]
           /\ \E said : said = answer'[u] /\ TextOK(w, said)'
           /\ c.to = "content" => sent'[w] = sent[w] + 1
<1>1. sent' \in [Whispers -> Nat] /\ \A x \in Whispers : sent'[x] >= sent[x]
  BY DEF Takes, CallOK, TypeInv, RowsOK
<1>2. RowsOK' /\ Forward /\ Present' = Present
  BY <1>1, RowsKept DEF TypeInv, RowsOK, rows
<1>3. ScreenOK(screen)'
  <2>1. CASE c.to = "show"
    <3>1. PICK s : s = c.screen
      OBVIOUS
    <3>2. ScreenOK(s)'
      BY <1>2, <2>1, <3>1, RemainsTrue DEF CallOK
    <3> QED BY <2>1, <3>1, <3>2 DEF Takes
  <2>2. CASE c.to # "show"
    BY <1>2, <2>2, ScreenKept DEF Takes, TypeInv
  <2> QED BY <2>1, <2>2
<1>4. DOMAIN answer' = Updates /\ \A v \in Updates \ {u} : answer'[v] = answer[v]
  BY DEF Takes, TypeInv, TasksOK
<1>5. PICK said : said = answer'[u]
  OBVIOUS
<1>6. TextOK(w, said)'
  <2>1. TextOK(w, said) /\ w \in Whispers \union {None} /\ Final(w)
    BY <1>5, Asked DEF Takes, TypeInv, TasksOK, CallOK
  <2> QED BY <1>2, <2>1, RemainsTrue
<1>7. c.to = "content" => sent'[w] = sent[w] + 1
  BY DEF Takes, CallOK, TypeInv, RowsOK
<1> QED BY <1>2, <1>3, <1>4, <1>5, <1>6, <1>7

LEMMA AcceptedStep ==
    ASSUME TypeInv, NEW u \in Updates, Accepted(u)
    PROVE  TypeInv'
<1>1. PICK w, calls, c, b : w = task[u].ask.whisper /\ calls = task[u].calls /\ c = calls[1] /\ b = calls[2]
  OBVIOUS
<1>2. ~At(u, "idle") /\ Active(u) /\ CallsOK(w, calls) /\ w \in Whispers \union {None} /\ Final(w)
  BY <1>1, Asked DEF Accepted, TypeInv, TasksOK, TaskOK, At, Active
<1>3. /\ Head(calls) = c /\ CallOK(w, c)
      /\ \/ Tail(calls) = <<>>
         \/ /\ Tail(calls) = <<b>> /\ b = Answer(b.text)
            /\ TextOK(w, b.text) \/ (c.to = "content" /\ b.text = "sent")
  BY <1>1, <1>2, HeadAndTail
<1>4. Takes(u, c) /\ Then(u, Tail(calls)) /\ UNCHANGED <<scene, rows, retrieved, deleted, removed>>
  BY <1>1, <1>3 DEF Accepted
<1>5. PICK said : /\ RowsOK' /\ Forward /\ Present' = Present /\ ScreenOK(screen)'
                  /\ DOMAIN answer' = Updates /\ \A v \in Updates \ {u} : answer'[v] = answer[v]
                  /\ said = answer'[u] /\ TextOK(w, said)'
                  /\ c.to = "content" => sent'[w] = sent[w] + 1
  BY <1>1, <1>2, <1>3, <1>4, TakesStep
<1>6. Tail(calls) # <<>> => CallsOK(w, Tail(calls))'
  <2> SUFFICES ASSUME Tail(calls) # <<>> PROVE CallsOK(w, Tail(calls))'
    OBVIOUS
  <2>1. PICK text : text = b.text
    OBVIOUS
  <2>2. Tail(calls) = <<Answer(text)>> /\ (TextOK(w, text) \/ (c.to = "content" /\ text = "sent"))
    BY <1>3, <2>1
  <2>3. TextOK(w, text)'
    <3>1. CASE TextOK(w, text)
      BY <1>2, <1>5, <3>1, RemainsTrue
    <3>2. CASE c.to = "content" /\ text = "sent"
      <4>1. w \in Whispers /\ sent[w] \in Nat /\ sent'[w] = sent[w] + 1
        BY <1>3, <1>5, <3>2 DEF CallOK, TypeInv, RowsOK
      <4> QED BY <3>2, <4>1 DEF TextOK
    <3> QED BY <2>2, <3>1, <3>2
  <2> QED BY <2>2, <2>3, AnswerOK
<1>7. TasksOK'
  BY <1>1, <1>2, <1>4, <1>5, <1>6, ThenOK DEF TypeInv
<1> QED BY <1>5, <1>7 DEF TypeInv

LEMMA RefusedStep ==
    ASSUME TypeInv, NEW u \in Updates, Refused(u)
    PROVE  TypeInv'
<1>1. PICK w, calls, c : w = task[u].ask.whisper /\ calls = task[u].calls /\ c = calls[1]
  OBVIOUS
<1>2. ~At(u, "idle") /\ Active(u) /\ CallsOK(w, calls) /\ w \in Whispers \union {None} /\ Final(w)
  BY <1>1, Asked DEF Refused, TypeInv, TasksOK, TaskOK, At, Active
<1>3. Head(calls) = c /\ CallOK(w, c)
  BY <1>1, <1>2, HeadAndTail
<1>4. /\ Takes(u, c) \/ UNCHANGED <<dialog, sent, answer>>
      /\ Then(u, <<>>) \/ Failed(u)
      /\ UNCHANGED <<scene, rows, retrieved, deleted, removed>>
  BY <1>1, <1>3 DEF Refused
<1>5. PICK said : /\ RowsOK' /\ Forward /\ ScreenOK(screen)'
                  /\ DOMAIN answer' = Updates /\ \A v \in Updates \ {u} : answer'[v] = answer[v]
                  /\ said = answer'[u] /\ TextOK(w, said)'
  <2>1. CASE Takes(u, c)
    BY <1>1, <1>2, <1>3, <1>4, <2>1, TakesStep
  <2>2. CASE UNCHANGED <<dialog, sent, answer>>
    <3>1. RowsOK' /\ Forward /\ ScreenOK(screen)'
      BY <1>4, <2>2, RowsKept, ScreenKept DEF TypeInv, RowsOK, rows, dialog
    <3>2. PICK said : said = answer'[u]
      OBVIOUS
    <3>3. TextOK(w, said)'
      BY <1>1, <1>2, <2>2, <3>1, <3>2, Asked, RemainsTrue DEF TypeInv
    <3> QED BY <2>2, <3>1, <3>2, <3>3 DEF TypeInv, TasksOK
  <2> QED BY <1>4, <2>1, <2>2
<1>6. TasksOK'
  <2>1. CASE Then(u, <<>>)
    BY <1>1, <1>2, <1>5, <2>1, ThenOK DEF TypeInv
  <2>2. CASE Failed(u)
    BY <1>1, <1>2, <1>5, <2>2, FailedOK DEF TypeInv
  <2> QED BY <1>4, <2>1, <2>2
<1> QED BY <1>5, <1>6 DEF TypeInv

LEMMA HandleStep ==
    ASSUME TypeInv, NEW u \in Updates, Ask(u) \/ Handle(u)
    PROVE  TypeInv'
  BY AskStep, StartStep, ReadListStep, ReadItemStep, ReviewStep, FetchStep, DeleteStep, RetainStep,
     GiveUpStep, AcceptedStep, RefusedStep DEF Handle

\* The rest of the program does not touch tasks and screen.
LEMMA RowsStep ==
    ASSUME TypeInv, RowsOK', Forward, UNCHANGED <<screen, task, answer>>
    PROVE  TypeInv'
  BY ScreenKept, TasksKept DEF TypeInv

LEMMA WorldStep ==
    ASSUME TypeInv, NEW w \in Whispers, Arrive(w) \/ RetentionEnds(w) \/ Sweep(w)
    PROVE  TypeInv'
<1>1. CASE Arrive(w)
  <2>1. RowsOK' /\ Forward
    BY <1>1, ArriveKeepsRows, ArriveForward DEF TypeInv
  <2> QED BY <1>1, <2>1, RowsStep DEF Arrive, dialog
<1>2. CASE RetentionEnds(w)
  <2>1. Forward /\ Present' = Present
    BY <1>2, StayForward DEF RetentionEnds, trail
  <2>2. RowsOK'
    BY <1>2, <2>1 DEF TypeInv, RowsOK, RetentionEnds, trail, Forward
  <2> QED BY <1>2, <2>1, <2>2, RowsStep DEF RetentionEnds, dialog
<1>3. CASE Sweep(w)
  <2>1. w \in Present
    BY <1>3 DEF Sweep, TypeInv, RowsOK
  <2>2. RowsOK' /\ Forward
    BY <1>3, <2>1, RemoveKeepsRows, RemoveForward DEF Sweep, TypeInv, RowsOK
  <2> QED BY <1>3, <2>2, RowsStep DEF Sweep, dialog
<1> QED BY <1>1, <1>2, <1>3

LEMMA RenameStep ==
    ASSUME TypeInv, NEW x \in Users, NEW n \in Names, Rename(x, n)
    PROVE  TypeInv'
<1>1. Forward /\ Present' = Present
  BY StayForward DEF Rename, trail
<1>2. named' \in [Users -> Names]
  BY DEF Rename, TypeInv, RowsOK
<1>3. RowsOK'
  BY <1>1, <1>2 DEF TypeInv, RowsOK, Rename, trail, Forward
<1> QED BY <1>1, <1>3, RowsStep DEF Rename, dialog

LEMMA TypeStep == TypeInv /\ [Next]_vars => TypeInv'
<1> SUFFICES ASSUME TypeInv, [Next]_vars PROVE TypeInv'
  OBVIOUS
<1>1. CASE UNCHANGED vars
  <2>1. RowsOK' /\ Forward
    BY <1>1, RowsKept DEF TypeInv, RowsOK, vars, rows, trail
  <2> QED BY <1>1, <2>1, RowsStep DEF vars, dialog
<1>2. CASE Next
  BY <1>2, HandleStep, WorldStep, RenameStep DEF Next
<1> QED BY <1>1, <1>2

LEMMA TypeInit == Init => TypeInv
<1> SUFFICES ASSUME Init PROVE TypeInv
  OBVIOUS
<1>1. Cardinality(Whispers) \in Nat
  BY OwnerAssumption, FS_CardinalityType
<1>2. RowsOK
  <2>1. created \in [Whispers -> Nat] /\ newest \in Nat
        /\ \A v, w \in Present : created[w] <= newest /\ (created[v] = created[w] => v = w)
    BY <1>1, OwnerAssumption DEF Init, Present
  <2>2. named \in [Users -> Names] /\ \A w \in Whispers : Stored[w] # 0 => Known(w)
    BY OwnerAssumption DEF Init, Known, Present
  <2>3. due \subseteq Present /\ \A w \in Present : removed[w] = "nobody"
    BY DEF Init, Present
  <2> QED BY <2>1, <2>2, <2>3 DEF RowsOK, Init
<1>3. ScreenOK(screen)
  BY DEF Init, Blank, ScreenOK
<1>4. ASSUME NEW u \in Updates PROVE TaskOK(u)
  <2>1. task[u] = NoTask /\ answer[u] = "none"
    BY DEF Init
  <2> QED BY <2>1, OwnerAssumption DEF TaskOK, NoTask, At, TextOK
<1> QED BY <1>2, <1>3, <1>4 DEF TypeInv, TasksOK, Init

LEMMA TypesImplied == TypeInv => TypeOK
<1> SUFFICES ASSUME TypeInv PROVE TypeOK
  OBVIOUS
<1>1. \A u \in Updates : At(u, "calling") <=> task[u].calls # <<>>
  BY DEF TypeInv, TasksOK, TaskOK, CallsOK
<1> QED BY <1>1 DEF TypeInv, TypeOK, RowsOK, TasksOK, TaskOK
----------------------------------------------------------------------------
(* The audit                                                               *)

LEMMA CarryingFinite ==
    ASSUME NEW S \in SUBSET Updates
    PROVE  IsFiniteSet(S) /\ Cardinality(S) \in Nat
<1>1. IsFiniteSet(Updates)
  BY OwnerAssumption, FS_Interval DEF Updates
<1> QED BY <1>1, FS_Subset, FS_CardinalityType

\* A step of one update: nothing is sent, or what it carried, or an audit is written first.
LEMMA AuditStep ==
    ASSUME TypeInv, AuditInv, RowsOK', NEW u \in Updates, \A v \in Updates \ {u} : task'[v] = task[v],
           \A w \in Whispers :
               \/ sent'[w] = sent[w] /\ retrieved'[w] = retrieved[w] /\ ~Carries(u, w)'
               \/ sent'[w] = sent[w] + 1 /\ retrieved'[w] = retrieved[w] /\ Carries(u, w) /\ ~Carries(u, w)'
               \/ sent'[w] = sent[w] /\ retrieved'[w] = retrieved[w] + 1
    PROVE  AuditInv'
<1> SUFFICES ASSUME NEW w \in Whispers PROVE (sent[w] + Cardinality(Carrying(w)) <= retrieved[w])'
  BY DEF AuditInv
<1>1. PICK S, T : S = Carrying(w) /\ T = Carrying(w)'
  OBVIOUS
<1>2. S \in SUBSET Updates /\ T \in SUBSET Updates /\ \A v \in Updates \ {u} : v \in T <=> v \in S
  BY <1>1 DEF Carrying, Carries, At
<1>3. IsFiniteSet(S) /\ Cardinality(S) \in Nat /\ Cardinality(T) \in Nat
  BY <1>2, CarryingFinite
<1>4. sent[w] + Cardinality(S) <= retrieved[w] /\ sent[w] \in Nat /\ retrieved[w] \in Nat
  BY <1>1 DEF AuditInv, TypeInv, RowsOK
<1>5. CASE ~Carries(u, w)'
  <2>1. T = S \ {u}
    BY <1>1, <1>2, <1>5 DEF Carrying
  <2>2. Cardinality(T) = IF u \in S THEN Cardinality(S) - 1 ELSE Cardinality(S)
    BY <1>3, <2>1, FS_RemoveElement
  <2>3. Carries(u, w) => u \in S
    BY <1>1 DEF Carrying
  <2> QED BY <1>1, <1>3, <1>4, <1>5, <2>2, <2>3
<1>6. CASE Carries(u, w)'
  <2>1. T = S \union {u}
    BY <1>1, <1>2, <1>6 DEF Carrying
  <2>2. Cardinality(T) = IF u \in S THEN Cardinality(S) ELSE Cardinality(S) + 1
    BY <1>3, <2>1, FS_AddElement
  <2>3. sent'[w] = sent[w] /\ retrieved'[w] = retrieved[w] + 1
    BY <1>6
  <2> QED BY <1>1, <1>3, <1>4, <2>2, <2>3
<1> QED BY <1>5, <1>6

\* No handler whose first request is not a content carries one.
LEMMA NotCarrying ==
    ASSUME TasksOK, NEW u \in Updates, Failed(u) \/ \E calls : Then(u, calls) /\ (calls # <<>> => calls[1].to # "content")
    PROVE  (\A w : ~Carries(u, w)') /\ \A v \in Updates \ {u} : task'[v] = task[v]
<1>1. CASE Failed(u)
  BY <1>1, TaskFields DEF TasksOK, Failed, Carries, At
<1>2. ASSUME NEW calls, Then(u, calls), calls # <<>> => calls[1].to # "content"
      PROVE  (\A w : ~Carries(u, w)') /\ \A v \in Updates \ {u} : task'[v] = task[v]
  <2>1. PICK pc, t : /\ pc = (IF calls = <<>> THEN "done" ELSE "calling")
                     /\ t = [task[u] EXCEPT !.pc = pc, !.calls = calls]
    OBVIOUS
  <2>2. task'[u] = t /\ \A v \in Updates \ {u} : task'[v] = task[v]
    BY <1>2, <2>1 DEF TasksOK, Then
  <2>3. t.pc = pc /\ t.calls = calls
    BY <2>1, TaskFields
  <2> QED BY <1>2, <2>1, <2>2, <2>3 DEF Carries, At
<1> QED BY <1>1, <1>2

LEMMA FirstOfReplies ==
    ASSUME NEW u, NEW call, NEW said
    PROVE  Replies(u, call, said)[1] = call
  BY DEF Replies

\* These steps leave an update without requests.
LEMMA NotCalling ==
    ASSUME TasksOK, NEW u \in Updates, Ask(u) \/ Start(u) \/ (ReadForReview(u) /\ ~Missing(u))
    PROVE  ~At(u, "calling")' /\ (Ask(u) => ~Active(u)') /\ \A v \in Updates \ {u} : task'[v] = task[v]
<1>1. CASE Ask(u)
  <2>1. PICK a, pressed : task' = [task EXCEPT ![u] = [NoTask EXCEPT !.ask = a, !.pressed = pressed, !.pc = "queued"]]
    BY <1>1 DEF Ask
  <2> QED BY <2>1 DEF TasksOK, NoTask, At, Active
<1>2. CASE Start(u)
  BY <1>2 DEF Start, Ask, TasksOK, TaskOK, At
<1>3. CASE ReadForReview(u) /\ ~Missing(u)
  BY <1>3 DEF ReadForReview, Ask, TasksOK, TaskOK, At
<1> QED BY <1>1, <1>2, <1>3

\* A step that sends nothing and audits nothing.
LEMMA QuietStep ==
    ASSUME TypeInv, AuditInv, RowsOK', NEW u \in Updates, \A v \in Updates \ {u} : task'[v] = task[v],
           \A w : ~Carries(u, w)', UNCHANGED <<sent, retrieved>>
    PROVE  AuditInv'
  BY AuditStep

LEMMA AuditHandle ==
    ASSUME TypeInv, AuditInv, RowsOK', NEW u \in Updates, Ask(u) \/ Handle(u)
    PROVE  AuditInv'
<1>1. CASE Ask(u) \/ Start(u) \/ (ReadForReview(u) /\ ~Missing(u))
  <2>1. ~At(u, "calling")' /\ \A v \in Updates \ {u} : task'[v] = task[v]
    BY <1>1, NotCalling DEF TypeInv
  <2>2. \A w : ~Carries(u, w)'
    BY <2>1 DEF Carries
  <2>3. UNCHANGED <<sent, retrieved>>
    BY <1>1 DEF Ask, Start, ReadForReview, trail
  <2> QED BY <2>1, <2>2, <2>3, QuietStep
<1>2. ASSUME NEW calls, Then(u, calls), calls # <<>> => calls[1].to # "content", UNCHANGED <<sent, retrieved>>
      PROVE  AuditInv'
  BY <1>2, NotCarrying, QuietStep DEF TypeInv
<1>3. ASSUME NEW call, NEW said, call.to # "content", Then(u, Replies(u, call, said)), UNCHANGED <<sent, retrieved>>
      PROVE  AuditInv'
  <2>1. PICK calls : calls = Replies(u, call, said)
    OBVIOUS
  <2> QED BY <1>2, <1>3, <2>1, FirstOfReplies
<1>4. CASE ReadList(u)
  <2>1. PICK call : call = ShowList(List(task[u].ask.query, Page(task[u].ask.query)), Cut(task[u].ask.query))
    OBVIOUS
  <2>2. Then(u, Replies(u, call, "updated")) /\ call.to # "content"
    BY <1>4, <2>1 DEF ReadList, ShowList
  <2> QED BY <1>3, <1>4, <2>2 DEF ReadList, trail
<1>5. CASE ReadItem(u) \/ AskToConfirm(u)
  <2>1. UNCHANGED <<sent, retrieved>>
    BY <1>5 DEF ReadItem, AskToConfirm, trail
  <2>2. CASE ReadItem(u) /\ Missing(u)
    BY <1>2, <2>1, <2>2 DEF ReadItem, Answer
  <2>3. CASE ~(ReadItem(u) /\ Missing(u))
    <3>1. PICK s, said : Then(u, Replies(u, Show(s), said))
      BY <1>5, <2>3 DEF ReadItem, AskToConfirm
    <3>2. Show(s).to # "content"
      BY DEF Show
    <3> QED BY <1>3, <2>1, <3>1, <3>2
  <2> QED BY <2>2, <2>3
<1>6. CASE (ReadForReview(u) \/ FetchContent(u)) /\ Missing(u)
  <2>1. Then(u, Replies(u, Answer("missing"), "sent")) /\ UNCHANGED <<sent, retrieved>> /\ Answer("missing").to # "content"
    BY <1>6 DEF ReadForReview, FetchContent, Unavailable, Answer, trail
  <2> QED BY <1>3, <2>1
<1>7. CASE FetchContent(u) /\ ~Missing(u)
  <2>1. PICK w : w = task[u].ask.whisper
    OBVIOUS
  <2>2. w \in Whispers
    BY <1>7, <2>1 DEF Missing, Present
  <2>3. PICK calls : calls = Replies(u, Content(w), "sent")
    OBVIOUS
  <2>4. Then(u, calls) /\ retrieved' = [retrieved EXCEPT ![w] = @ + 1] /\ sent' = sent
    BY <1>7, <2>1, <2>3 DEF FetchContent, AuditRetrieval
  <2>5. task'[u].ask.whisper = w /\ \A v \in Updates \ {u} : task'[v] = task[v]
    <3>1. PICK t : t = [task[u] EXCEPT !.pc = IF calls = <<>> THEN "done" ELSE "calling", !.calls = calls]
      OBVIOUS
    <3>2. t.ask = task[u].ask
      BY <3>1, TaskFields DEF TypeInv
    <3> QED BY <2>1, <2>4, <3>1, <3>2 DEF Then, TypeInv, TasksOK
  <2>6. \A x \in Whispers \ {w} : retrieved'[x] = retrieved[x] /\ ~Carries(u, x)'
    BY <2>4, <2>5 DEF TypeInv, RowsOK, Carries
  <2>7. retrieved'[w] = retrieved[w] + 1
    BY <2>2, <2>4 DEF TypeInv, RowsOK
  <2> QED BY <2>4, <2>5, <2>6, <2>7, AuditStep
<1>8. CASE Delete(u) \/ Retain(u)
  <2>1. UNCHANGED <<sent, retrieved>>
    BY <1>8 DEF Delete, Retain, trail
  <2>2. PICK calls : Then(u, calls) /\ calls # <<>> /\ calls[1].to # "content"
    BY <1>8 DEF Delete, Retain, Answer, Note, Show
  <2> QED BY <1>2, <2>1, <2>2
<1>9. CASE DatabaseFails(u) \/ HandlerLost(u)
  <2>1. Failed(u) /\ UNCHANGED <<sent, retrieved>>
    BY <1>9 DEF DatabaseFails, HandlerLost, trail
  <2> QED BY <2>1, NotCarrying, QuietStep DEF TypeInv
<1>10. CASE Accepted(u) \/ Refused(u)
  <2>1. PICK w, calls, c, b : w = task[u].ask.whisper /\ calls = task[u].calls /\ c = calls[1] /\ b = calls[2]
    OBVIOUS
  <2>2. CallsOK(w, calls) /\ At(u, "calling")
    BY <1>10, <2>1 DEF Accepted, Refused, TypeInv, TasksOK, TaskOK
  <2>3. /\ Head(calls) = c /\ CallOK(w, c)
        /\ Tail(calls) = <<>> \/ (Tail(calls) = <<b>> /\ b = Answer(b.text))
    BY <2>1, <2>2, HeadAndTail
  <2>4. (\A x : ~Carries(u, x)') /\ \A v \in Updates \ {u} : task'[v] = task[v]
    <3>1. b = Answer(b.text) => b.to # "content"
      <4>1. Answer(b.text).to = "answer"
        BY DEF Answer
      <4> QED BY <4>1
    <3>2. PICK rest : rest = Tail(calls)
      OBVIOUS
    <3>3. Failed(u) \/ Then(u, <<>>) \/ Then(u, rest)
      BY <1>10, <2>1, <3>2 DEF Accepted, Refused
    <3>4. rest = <<>> \/ (rest = <<b>> /\ b.to # "content")
      BY <2>3, <3>1, <3>2
    <3>5. rest # <<>> => rest[1].to # "content"
      BY <3>4
    <3> QED BY <3>3, <3>5, NotCarrying DEF TypeInv
  <2>5. retrieved' = retrieved /\ (Takes(u, c) \/ sent' = sent)
    BY <1>10, <2>1, <2>3 DEF Accepted, Refused
  <2>6. CASE c.to = "content" /\ sent' # sent
    <3>1. w \in Whispers /\ sent' = [sent EXCEPT ![w] = @ + 1] /\ Carries(u, w)
      BY <2>1, <2>2, <2>3, <2>5, <2>6 DEF CallOK, Takes, Carries
    <3>2. sent'[w] = sent[w] + 1 /\ \A x \in Whispers \ {w} : sent'[x] = sent[x]
      BY <3>1 DEF TypeInv, RowsOK
    <3> QED BY <2>4, <2>5, <3>1, <3>2, AuditStep
  <2>7. CASE ~(c.to = "content" /\ sent' # sent)
    <3>1. sent' = sent
      BY <2>5, <2>7 DEF Takes
    <3> QED BY <2>4, <2>5, <3>1, QuietStep
  <2> QED BY <2>6, <2>7
<1> QED BY <1>1, <1>4, <1>5, <1>6, <1>7, <1>8, <1>9, <1>10 DEF Handle

\* Only a handler's deletion writes a deletion, and one of a row that is there.
LEMMA DeletionStep ==
    ASSUME TypeInv, DeletionInv, [Next]_vars
    PROVE  DeletionInv'
<1>1. CASE UNCHANGED <<deleted, removed>>
  BY <1>1 DEF DeletionInv
<1>2. ASSUME NEW w \in Whispers, Sweep(w) PROVE DeletionInv'
  <2>1. w \in Present /\ removed[w] = "nobody"
    BY <1>2 DEF Sweep, TypeInv, RowsOK
  <2> QED BY <1>2, <2>1 DEF Sweep, RemoveRow, DeletionInv, TypeInv, RowsOK
<1>3. ASSUME NEW u \in Updates, Delete(u), ~Missing(u) PROVE DeletionInv'
  <2>1. PICK w : w = task[u].ask.whisper
    OBVIOUS
  <2>2. w \in Whispers /\ removed[w] = "nobody"
    BY <1>3, <2>1 DEF Missing, Present, TypeInv, RowsOK
  <2>3. deleted[w] = 0
    BY <2>2 DEF DeletionInv
  <2> QED BY <1>3, <2>1, <2>2, <2>3 DEF Delete, RemoveRow, DeletionInv, TypeInv, RowsOK
<1>4. ASSUME NEW u \in Updates, Ask(u) \/ Handle(u), ~(Delete(u) /\ ~Missing(u)) PROVE UNCHANGED <<deleted, removed>>
  BY <1>4 DEF Handle, Ask, Start, ReadList, ReadItem, AskToConfirm, ReadForReview, FetchContent, Delete, Retain,
     DatabaseFails, HandlerLost, Accepted, Refused, trail
<1>5. ASSUME NEW w \in Whispers, Arrive(w) \/ RetentionEnds(w) PROVE UNCHANGED <<deleted, removed>>
  BY <1>5 DEF Arrive, RetentionEnds, trail
<1>6. ASSUME NEW x, NEW n, Rename(x, n) PROVE UNCHANGED <<deleted, removed>>
  BY <1>6 DEF Rename, trail
<1>7. CASE UNCHANGED vars
  BY <1>1, <1>7 DEF vars, trail
<1> QED BY <1>1, <1>2, <1>3, <1>4, <1>5, <1>6, <1>7 DEF Next

LEMMA TrailStep == TypeInv /\ TrailInv /\ [Next]_vars => TrailInv'
<1> SUFFICES ASSUME TypeInv, TrailInv, [Next]_vars PROVE TrailInv'
  OBVIOUS
<1>1. RowsOK'
  BY TypeStep DEF TypeInv
<1>2. AuditInv'
  <2>1. CASE UNCHANGED <<task, sent, retrieved>>
    <3>1. \A w : Carrying(w)' = Carrying(w)
      BY <2>1 DEF Carrying, Carries, At
    <3> QED BY <2>1, <3>1 DEF TrailInv, AuditInv
  <2>2. CASE Next /\ ~UNCHANGED <<task, sent, retrieved>>
    <3>1. PICK u \in Updates : Ask(u) \/ Handle(u)
      BY <2>2 DEF Next, Arrive, RetentionEnds, Sweep, Rename, trail
    <3> QED BY <1>1, <3>1, AuditHandle DEF TrailInv
  <2> QED BY <2>1, <2>2 DEF vars, trail
<1> QED BY <1>2, DeletionStep DEF TrailInv

LEMMA TrailInit == Init => TrailInv
<1> SUFFICES ASSUME Init PROVE TrailInv
  OBVIOUS
<1>1. \A w : Carrying(w) = {}
  BY DEF Init, Carrying, Carries, At, NoTask
<1>2. Cardinality({}) = 0
  BY FS_EmptySet
<1> QED BY <1>1, <1>2 DEF Init, TrailInv, AuditInv, DeletionInv

\* Type correctness for all whispers, queries and pages.
THEOREM TypeCorrect == Spec => []TypeOK
<1> QED BY TypeInit, TypeStep, TypesImplied, PTL DEF Spec

\* owner_audit_events knows of every content that reached the owner and of each
\* deletion once, through crashes, lost replies and repeated handling.
THEOREM TrailComplete == Spec => []TrailIsComplete
<1>1. TypeInv /\ TrailInv => TrailIsComplete
  <2> SUFFICES ASSUME TypeInv, TrailInv, NEW w \in Whispers
               PROVE  sent[w] <= retrieved[w] /\ deleted[w] = IF removed[w] = "owner" THEN 1 ELSE 0
    BY DEF TrailIsComplete
  <2>1. PICK S : S = Carrying(w)
    OBVIOUS
  <2>2. Cardinality(S) \in Nat
    BY <2>1, CarryingFinite DEF Carrying
  <2> QED BY <2>1, <2>2 DEF TrailInv, AuditInv, DeletionInv, TypeInv, RowsOK
<1> QED BY TypeInit, TypeStep, TrailInit, TrailStep, <1>1, PTL DEF Spec

\* What the owner reads about a whisper is so and remains so, whichever handlers
\* run at a time and whatever fails between the change, the request and the reply.
THEOREM RepliesTrue == Spec => []RepliesAreTrue
<1>1. TypeInv => RepliesAreTrue
  BY DEF TypeInv, TasksOK, TaskOK, TextOK, DeletedByOwner, ScreenOK, RepliesAreTrue
<1> QED BY TypeInit, TypeStep, <1>1, PTL DEF Spec

----------------------------------------------------------------------------
(* Pages and walks                                                         *)

\* With polling one handler is at work at a time.
InOrder ==
    scene.transport = "polling" => \A u, v \in Updates : v < u /\ Active(u) => Settled(v)

\* The members of a list that are there and newer than w.
Ahead(list, w) == {v \in list \intersect Present : created[w] < created[v]}

\* Whether w matches a filter, whatever the names.
Fits(w, f) ==
    \/ f.by = "all"
    \/ f.by = "sender" /\ Sender[w] = f.of
    \/ f.by = "media" /\ Media[w] = f.of

\* A page as it was cut: what lies before its end is older than nothing behind
\* it, and what lies before its beginning has fewer members of the list ahead than
\* the offset. This remains so whatever arrives and is removed meanwhile.
PageOK(s, cut) ==
    /\ s.query \in Queries
    /\ s.items \subseteq cut.passed /\ cut.passed \subseteq cut.all
    /\ \A w \in cut.all : Known(w)
    /\ cut.passed # cut.all =>
           /\ Cardinality(s.items) = s.query.limit
           /\ Cardinality(cut.passed) = s.query.offset + s.query.limit
    /\ \A w \in (cut.all \intersect Present) \ cut.passed :
           \A v \in cut.passed \intersect Present : created[w] < created[v]
    /\ \A w \in (cut.passed \intersect Present) \ s.items :
           Cardinality(Ahead(cut.all, w)) < s.query.offset
    /\ s.query.filter.by # "name" =>
           s.buttons = s.query /\ \A w \in cut.all : Fits(w, s.query.filter)
    /\ s.query.filter.by = "name" /\ s.items # {} =>
           \E x \in s.items : s.buttons = [s.query EXCEPT !.filter = BySender(Sender[x])]

\* The next page of a walk is cut from all that the walk is about.
LinkOK(k, s, cut) ==
    ~k.over /\ s.query = k.next => (k.start \union k.passed) \intersect Present \subseteq cut.all

\* A walk. The last conjuncts are the reason: a whisper that matched when the walk
\* began, is there and was not seen has as many newer ones among those that pages
\* have passed as the next page skips, so that the next page does not skip it.
WalkFits(k) ==
    /\ \A w \in k.start \union k.passed : Known(w)
    /\ k.seen \subseteq k.passed
    /\ ~k.over =>
           /\ k.next \in Queries /\ ~k.next.last /\ k.next.filter.by # "name"
           /\ \A w \in k.start \union k.passed : Fits(w, k.next.filter)
           /\ k.filter.by = "name" => k.next.filter.by = "sender"
           /\ k.filter.by # "name" => k.next.filter = k.filter
    /\ k.filter.by = "name" => \A v, w \in k.seen : Sender[v] = Sender[w]
    /\ k.filter.by = "media" => \A w \in k.seen : Media[w] = k.filter.of
    /\ k.passed \subseteq Present =>
           \A w \in (k.start \intersect Present) \ k.seen :
               ~k.over /\ Cardinality(Ahead(k.passed, w)) >= k.next.offset

\* Where this is claimed of the walk that is going on.
Claimed == scene.transport = "polling" /\ ~Shared(walk)

ShowsList(u) == At(u, "calling") /\ task[u].calls[1].to = "show" /\ task[u].calls[1].screen.shows = "list"

PendingOK(u) ==
    ShowsList(u) =>
        /\ PageOK(task[u].calls[1].screen, task[u].calls[1].cut)
        /\ Claimed => LinkOK(walk, task[u].calls[1].screen, task[u].calls[1].cut)

WalkInv ==
    /\ InOrder
    /\ \A u \in Updates : PendingOK(u)
    /\ Claimed => WalkFits(walk)

\* A page is what its place in the list says.
LEMMA PageIsCut ==
    ASSUME RowsOK, NEW q \in Queries
    PROVE  PageOK(List(q, Page(q)), Cut(q))
<1> DEFINE l == Matching(q.filter)
           p == {w \in l : Place(w, l) <= q.offset + q.limit}
           n == Cardinality(l)
<1>1. l \in SUBSET Present /\ Sorted(l) /\ n \in Nat
  BY PresentSorted DEF Matching
<1>2. q.offset \in Nat /\ q.limit \in Nat \ {0}
  BY DEF Queries
<1>3. PICK i : i = Page(q)
  OBVIOUS
<1>4. i = {w \in l : Place(w, l) \in (q.offset + 1)..(q.offset + q.limit)}
  BY <1>3 DEF Page
<1>5. \A w \in l : Place(w, l) \in 1..n
  BY <1>1, PlaceOrder
<1>6. i \subseteq p /\ \A w \in p \ i : Place(w, l) <= q.offset
  BY <1>2, <1>4, <1>5
<1>7. ASSUME p # l PROVE Cardinality(i) = q.limit /\ Cardinality(p) = q.offset + q.limit
  <2>1. q.offset + q.limit < n
    BY <1>1, <1>2, <1>5, <1>7
  <2>2. (q.offset + 1)..(q.offset + q.limit) \in SUBSET (1..n) /\ 1..(q.offset + q.limit) \in SUBSET (1..n)
    BY <1>1, <1>2, <2>1
  <2>3. p = {w \in l : Place(w, l) \in 1..(q.offset + q.limit)}
    BY <1>1, <1>2, <1>5
  <2>4. Cardinality(i) = Cardinality((q.offset + 1)..(q.offset + q.limit))
    BY <1>1, <1>4, <2>2, PlaceCount
  <2>5. Cardinality(p) = Cardinality(1..(q.offset + q.limit))
    BY <1>1, <2>2, <2>3, PlaceCount
  <2>6. PICK a, b : a = q.offset + 1 /\ b = q.offset + q.limit
    OBVIOUS
  <2>7. a \in Int /\ b \in Int /\ 1 \in Int /\ ~(a > b) /\ ~(1 > b) /\ b - a + 1 = q.limit /\ b - 1 + 1 = b
    BY <1>2, <2>6
  <2>8. Cardinality(a..b) = q.limit /\ Cardinality(1..b) = b
    <3>1. Cardinality(a..b) = IF a > b THEN 0 ELSE b - a + 1
      BY <2>7, FS_Interval
    <3>2. Cardinality(1..b) = IF 1 > b THEN 0 ELSE b - 1 + 1
      BY <2>7, FS_Interval
    <3> QED BY <2>7, <3>1, <3>2
  <2> QED BY <2>4, <2>5, <2>6, <2>8
<1>8. ASSUME NEW w \in l \ p, NEW v \in p PROVE created[w] < created[v]
  <2>1. Place(v, l) < Place(w, l) /\ Place(v, l) \in Nat /\ Place(w, l) \in Nat
    BY <1>1, <1>2, <1>5, <1>8
  <2>2. created[v] \in Nat /\ created[w] \in Nat
    BY <1>1, <1>8 DEF Sorted
  <2>3. ~(created[v] < created[w])
    <3> SUFFICES ASSUME created[v] < created[w] PROVE FALSE
      OBVIOUS
    <3>1. Place(w, l) < Place(v, l)
      BY <1>1, <1>8, PlaceOrder
    <3> QED BY <2>1, <3>1
  <2>4. v # w
    BY <1>8
  <2> QED BY <1>1, <1>8, <2>2, <2>3, <2>4 DEF Sorted
<1>9. ASSUME NEW w \in p \ i PROVE Cardinality(Ahead(l, w)) < q.offset
  <2>5. PICK upto : upto = {v \in l : created[w] <= created[v]}
    OBVIOUS
  <2>1. upto \in SUBSET l /\ w \in upto /\ IsFiniteSet(upto)
    BY <1>1, <1>9, <2>5, FS_Subset DEF Sorted
  <2>2. Ahead(l, w) = upto \ {w}
    BY <1>1, <1>9, <2>5 DEF Ahead, Sorted
  <2>3. Cardinality(Ahead(l, w)) = Cardinality(upto) - 1
    BY <2>1, <2>2, FS_RemoveElement
  <2>4. Cardinality(upto) = Place(w, l) /\ Place(w, l) \in Nat
    <3>1. Cardinality(upto) = Place(w, l)
      BY <2>5 DEF Place
    <3> QED BY <1>1, <1>5, <1>9, <3>1
  <2> QED BY <1>2, <1>6, <1>9, <2>3, <2>4
<1>10. CASE q.filter.by # "name"
  <2>1. Navigation(q, i) = q
    BY <1>10 DEF Navigation
  <2>2. \A w \in l : Fits(w, q.filter)
    BY <1>10 DEF Matching, Matches, Fits
  <2> QED BY <1>1, <1>3, <1>6, <1>7, <1>8, <1>9, <1>10, <2>1, <2>2 DEF PageOK, List, Cut, Known, Present
<1>11. CASE q.filter.by = "name"
  <2>1. ASSUME i # {} PROVE \E x \in i : Navigation(q, i) = [q EXCEPT !.filter = BySender(Sender[x])]
    <3>1. i \in SUBSET Present
      BY <1>1, <1>4
    <3>2. Newest(i) \in i
      BY <2>1, <3>1, PresentSorted, NewestIsThere
    <3> QED BY <1>11, <2>1, <3>2 DEF Navigation
  <2> QED BY <1>1, <1>3, <1>6, <1>7, <1>8, <1>9, <1>11, <2>1 DEF PageOK, List, Cut, Known, Present
<1> QED BY <1>10, <1>11

\* What a whisper that was known has ahead can only be removed.
LEMMA AheadKept ==
    ASSUME RowsOK, Forward, NEW list, \A v \in list : Known(v), NEW w, Known(w), w \in Present'
    PROVE  /\ IsFiniteSet(Ahead(list, w)) /\ Cardinality(Ahead(list, w)) \in Nat
           /\ Cardinality(Ahead(list, w)') \in Nat /\ Cardinality(Ahead(list, w)') <= Cardinality(Ahead(list, w))
           /\ list \subseteq Present' => Ahead(list, w)' = Ahead(list, w)
<1>1. \A v \in list \union {w} : v \in Present' => v \in Present /\ created'[v] = created[v]
  BY DEF Forward
<1>2. PICK S, T : S = Ahead(list, w) /\ T = Ahead(list, w)'
  OBVIOUS
<1>3. T \in SUBSET S /\ S \in SUBSET Present
  BY <1>1, <1>2 DEF Ahead
<1>4. IsFiniteSet(S) /\ Cardinality(S) \in Nat
  BY <1>3, PresentSorted DEF Sorted
<1>5. Cardinality(T) <= Cardinality(S) /\ Cardinality(T) \in Nat
  BY <1>3, <1>4, FS_Subset, FS_CardinalityType
<1>6. list \subseteq Present' => T = S
  BY <1>1, <1>2 DEF Ahead
<1> QED BY <1>2, <1>4, <1>5, <1>6

LEMMA PageKept ==
    ASSUME RowsOK, Forward, NEW s, NEW cut, PageOK(s, cut)
    PROVE  PageOK(s, cut)'
<1>1. \A w \in cut.all : Known(w)' /\ (w \in Present' => w \in Present /\ created'[w] = created[w])
  BY DEF PageOK, Forward
<1>2. ASSUME NEW w \in (cut.all \intersect Present') \ cut.passed, NEW v \in cut.passed \intersect Present'
      PROVE  created'[w] < created'[v]
  <2>1. w \in Present /\ v \in Present /\ created'[w] = created[w] /\ created'[v] = created[v]
    BY <1>1, <1>2 DEF PageOK
  <2> QED BY <1>2, <2>1 DEF PageOK
<1>3. ASSUME NEW w \in (cut.passed \intersect Present') \ s.items
      PROVE  Cardinality(Ahead(cut.all, w)') < s.query.offset
  <2>1. Known(w) /\ w \in Present /\ w \in cut.passed
    BY <1>1, <1>3 DEF PageOK
  <2>2. Cardinality(Ahead(cut.all, w)) < s.query.offset /\ s.query.offset \in Nat
    BY <1>3, <2>1 DEF PageOK, Queries
  <2>3. \A v \in cut.all : Known(v)
    BY DEF PageOK
  <2> QED BY <1>3, <2>1, <2>2, <2>3, AheadKept
<1> QED BY <1>1, <1>2, <1>3 DEF PageOK

LEMMA LinkKept ==
    ASSUME Forward, NEW k, NEW s, NEW cut, \A w \in k.start \union k.passed : Known(w), LinkOK(k, s, cut)
    PROVE  LinkOK(k, s, cut)'
  BY DEF Forward, LinkOK

LEMMA WalkKept ==
    ASSUME RowsOK, Forward, NEW k, WalkFits(k)
    PROVE  WalkFits(k)'
<1>1. \A w \in k.start \union k.passed :
          Known(w) /\ Known(w)' /\ (w \in Present' => w \in Present /\ created'[w] = created[w])
  BY DEF WalkFits, Forward
<1>2. ASSUME k.passed \subseteq Present', NEW w \in (k.start \intersect Present') \ k.seen
      PROVE  ~k.over /\ Cardinality(Ahead(k.passed, w)') >= k.next.offset
  <2>1. k.passed \subseteq Present /\ w \in Present /\ Known(w)
    BY <1>1, <1>2
  <2>2. ~k.over /\ Cardinality(Ahead(k.passed, w)) >= k.next.offset
    BY <1>2, <2>1 DEF WalkFits
  <2>3. Ahead(k.passed, w)' = Ahead(k.passed, w)
    BY <1>1, <1>2, <2>1, AheadKept
  <2> QED BY <2>2, <2>3
<1> QED BY <1>1, <1>2 DEF WalkFits

\* The query behind the Next button.
LEMMA OnwardIs ==
    ASSUME NEW q \in Queries
    PROVE  /\ Onward(q) \in Queries /\ ~Onward(q).last /\ Onward(q).offset = q.offset + q.limit
           /\ q.filter.by # "name" => Onward(q).filter = q.filter
<1>1. PICK r : r = [q EXCEPT !.offset = q.offset + q.limit]
  OBVIOUS
<1>2. r \in Queries /\ r.offset = q.offset + q.limit /\ r.filter = q.filter
  BY <1>1 DEF Queries
<1>3. PICK f : f = IF r.filter.by = "name" THEN All ELSE r.filter
  OBVIOUS
<1>4. Encoded(r) = [r EXCEPT !.last = FALSE, !.filter = f]
  BY <1>3 DEF Encoded
<1>5. [r EXCEPT !.last = FALSE, !.filter = f] = [[r EXCEPT !.last = FALSE] EXCEPT !.filter = f]
  OBVIOUS
<1>6. PICK x : x = [r EXCEPT !.last = FALSE]
  OBVIOUS
<1>7. x \in Queries /\ x.last = FALSE /\ x.offset = r.offset
  BY <1>2, <1>6 DEF Queries
<1>8. Encoded(r).last = FALSE /\ Encoded(r).offset = r.offset /\ Encoded(r).filter = f
  BY <1>4, <1>5, <1>6, <1>7 DEF Queries
<1>9. Onward(q) = Encoded(r)
  BY <1>1 DEF Onward
<1> QED BY <1>2, <1>3, <1>8, <1>9, QueryTypes

\* What is behind a page has the whole page and all pages before it ahead.
LEMMA BehindPage ==
    ASSUME RowsOK, NEW s, NEW cut, PageOK(s, cut), cut.passed \subseteq Present,
           NEW w \in cut.all \intersect Present, w \notin cut.passed,
           NEW passed, cut.passed \subseteq passed
    PROVE  /\ Cardinality(s.items) = s.query.limit
           /\ Cardinality(Ahead(passed, w)) >= s.query.offset + s.query.limit
<1>1. Cardinality(s.items) = s.query.limit /\ Cardinality(cut.passed) = s.query.offset + s.query.limit
  BY DEF PageOK
<1>2. cut.passed \in SUBSET Ahead(passed, w) /\ Ahead(passed, w) \in SUBSET Present
  BY DEF PageOK, Ahead
<1>3. PICK S, T : S = Ahead(passed, w) /\ T = cut.passed
  OBVIOUS
<1>4. IsFiniteSet(S) /\ Cardinality(S) \in Nat
  BY <1>2, <1>3, PresentSorted DEF Sorted
<1>5. Cardinality(T) <= Cardinality(S)
  BY <1>2, <1>3, <1>4, FS_Subset
<1> QED BY <1>1, <1>3, <1>4, <1>5

\* Whether a page has a Next button, and what is behind it.
LEMMA PageButtons ==
    ASSUME NEW s, NEW cut, PageOK(s, cut), s.buttons \in Queries
    PROVE  /\ Cardinality(s.items) = s.query.limit => (HasNext(s.buttons, s.items) <=> ~s.query.last)
           /\ HasNext(s.buttons, s.items) =>
                  /\ Onward(s.buttons) \in Queries /\ ~Onward(s.buttons).last
                  /\ Onward(s.buttons).offset = s.query.offset + s.query.limit
                  /\ s.query.filter.by # "name" => Onward(s.buttons).filter = s.query.filter
                  /\ s.query.filter.by = "name" =>
                         \E x \in s.items : Onward(s.buttons).filter = BySender(Sender[x])
<1>1. s.query \in Queries /\ s.items \subseteq cut.passed /\ cut.passed \subseteq cut.all
  BY DEF PageOK
<1>2. CASE s.query.filter.by # "name"
  <2>1. s.buttons = s.query
    BY <1>2 DEF PageOK
  <2> QED BY <1>1, <1>2, <2>1, OnwardIs DEF HasNext
<1>3. CASE s.query.filter.by = "name"
  <2>1. CASE s.items = {}
    <3>1. Cardinality(s.items) = 0
      BY <2>1, FS_EmptySet
    <3> QED BY <1>1, <3>1 DEF HasNext, Queries
  <2>2. CASE s.items # {}
    <3>1. PICK x \in s.items : s.buttons = [s.query EXCEPT !.filter = BySender(Sender[x])]
      BY <1>3, <2>2 DEF PageOK
    <3>2. /\ s.buttons.filter = BySender(Sender[x]) /\ s.buttons.filter.by = "sender"
          /\ s.buttons.limit = s.query.limit /\ s.buttons.offset = s.query.offset /\ s.buttons.last = s.query.last
      BY <1>1, <3>1 DEF Queries, BySender
    <3>3. Onward(s.buttons).filter = BySender(Sender[x])
      BY <3>2, OnwardIs
    <3> QED BY <1>3, <3>2, <3>3, OnwardIs DEF HasNext
  <2> QED BY <2>1, <2>2
<1> QED BY <1>2, <1>3

\* The walk that a first page begins.
LEMMA FirstPageFits ==
    ASSUME RowsOK, NEW s, NEW cut, PageOK(s, cut), s.buttons \in Queries, s.query.offset = 0, ~s.query.last,
           NEW k, ~Shared(k),
           k.start = cut.all, k.filter = s.query.filter, k.seen = s.items, k.passed = cut.passed,
           k.over <=> ~HasNext(s.buttons, s.items), HasNext(s.buttons, s.items) => k.next = Onward(s.buttons)
    PROVE  WalkFits(k)
<1>1. /\ s.query \in Queries /\ s.items \subseteq cut.passed /\ cut.passed \subseteq cut.all
      /\ \A w \in cut.all : Known(w)
  BY DEF PageOK
<1>2. k.start \union k.passed = cut.all
  BY <1>1
<1>3. ASSUME ~k.over
      PROVE  /\ k.next \in Queries /\ ~k.next.last /\ k.next.filter.by # "name"
             /\ \A w \in cut.all : Fits(w, k.next.filter)
             /\ k.filter.by = "name" => k.next.filter.by = "sender"
             /\ k.filter.by # "name" => k.next.filter = k.filter
  <2>1. CASE k.filter.by # "name"
    BY <1>3, <2>1, PageButtons DEF PageOK
  <2>2. CASE k.filter.by = "name"
    <3>1. PICK x \in s.items : k.next.filter = BySender(Sender[x])
      BY <1>3, <2>2, PageButtons
    <3>2. \A w \in cut.all : Sender[w] = Sender[x]
      BY <1>1, <2>2 DEF Shared
    <3> QED BY <1>3, <2>2, <3>1, <3>2, PageButtons DEF BySender, Fits
  <2> QED BY <2>1, <2>2
<1>4. /\ k.filter.by = "name" => \A v, w \in k.seen : Sender[v] = Sender[w]
      /\ k.filter.by = "media" => \A w \in k.seen : Media[w] = k.filter.of
  BY <1>1 DEF Shared, PageOK, Fits
<1>5. ASSUME k.passed \subseteq Present, NEW w \in (k.start \intersect Present) \ k.seen
      PROVE  ~k.over /\ Cardinality(Ahead(k.passed, w)) >= k.next.offset
  <2>1. w \in cut.all \intersect Present /\ w \notin s.items /\ cut.passed \subseteq Present
    BY <1>5
  <2>2. w \notin cut.passed
    <3> SUFFICES ASSUME w \in cut.passed PROVE FALSE
      OBVIOUS
    <3>1. Cardinality(Ahead(cut.all, w)) < 0
      BY <2>1 DEF PageOK
    <3>2. Ahead(cut.all, w) \in SUBSET Present
      BY DEF Ahead
    <3> QED BY <3>1, <3>2, PresentSorted
  <2>3. /\ Cardinality(s.items) = s.query.limit
        /\ Cardinality(Ahead(k.passed, w)) >= s.query.offset + s.query.limit
    BY <2>1, <2>2, BehindPage
  <2> QED BY <2>3, PageButtons
<1> QED BY <1>1, <1>2, <1>3, <1>4, <1>5 DEF WalkFits

\* The walk that its next page goes on with.
LEMMA NextPageFits ==
    ASSUME RowsOK, NEW s, NEW cut, PageOK(s, cut), s.buttons \in Queries,
           WalkFits(walk), ~walk.over, s.query = walk.next, LinkOK(walk, s, cut),
           NEW k, k.start = walk.start, k.filter = walk.filter,
           k.seen = walk.seen \union s.items, k.passed = walk.passed \union cut.passed,
           k.over <=> ~HasNext(s.buttons, s.items), HasNext(s.buttons, s.items) => k.next = Onward(s.buttons)
    PROVE  WalkFits(k)
<1>1. /\ s.query \in Queries /\ s.items \subseteq cut.passed /\ cut.passed \subseteq cut.all
      /\ \A w \in cut.all : Known(w)
  BY DEF PageOK
<1>2. /\ \A w \in walk.start \union walk.passed : Known(w) /\ Fits(w, s.query.filter)
      /\ walk.seen \subseteq walk.passed /\ s.query.filter.by # "name"
      /\ walk.filter.by = "name" => s.query.filter.by = "sender"
      /\ walk.filter.by # "name" => s.query.filter = walk.filter
  BY DEF WalkFits
<1>3. \A w \in cut.all : Fits(w, s.query.filter)
  BY <1>2 DEF PageOK
<1>4. /\ \A w \in k.start \union k.passed : Known(w) /\ Fits(w, s.query.filter)
      /\ k.seen \subseteq k.passed
  BY <1>1, <1>2, <1>3
<1>5. ~k.over => k.next \in Queries /\ ~k.next.last /\ k.next.filter = s.query.filter
  BY <1>2, PageButtons
<1>6. /\ k.filter.by = "name" => \A v, w \in k.seen : Sender[v] = Sender[w]
      /\ k.filter.by = "media" => \A w \in k.seen : Media[w] = k.filter.of
  BY <1>2, <1>4 DEF Fits
<1>7. ASSUME k.passed \subseteq Present, NEW w \in (k.start \intersect Present) \ k.seen
      PROVE  ~k.over /\ Cardinality(Ahead(k.passed, w)) >= k.next.offset
  <2>1. /\ walk.passed \subseteq Present /\ cut.passed \subseteq Present /\ w \notin s.items
        /\ w \in (walk.start \intersect Present) \ walk.seen
    BY <1>7
  <2>2. w \in cut.all /\ walk.passed \subseteq cut.all
    BY <2>1 DEF LinkOK
  <2>3. Cardinality(Ahead(walk.passed, w)) >= s.query.offset
    BY <2>1 DEF WalkFits
  <2>4. w \notin cut.passed
    <3> SUFFICES ASSUME w \in cut.passed PROVE FALSE
      OBVIOUS
    <3>1. PICK S, T : S = Ahead(cut.all, w) /\ T = Ahead(walk.passed, w)
      OBVIOUS
    <3>2. T \in SUBSET S /\ S \in SUBSET Present
      BY <2>2, <3>1 DEF Ahead
    <3>3. IsFiniteSet(S) /\ Cardinality(S) \in Nat
      BY <3>2, PresentSorted DEF Sorted
    <3>4. Cardinality(T) <= Cardinality(S) /\ Cardinality(T) \in Nat
      BY <3>2, <3>3, FS_Subset, FS_CardinalityType
    <3>5. Cardinality(S) < s.query.offset /\ s.query.offset \in Nat
      BY <1>1, <2>1, <3>1 DEF PageOK, Queries
    <3> QED BY <2>3, <3>1, <3>3, <3>4, <3>5
  <2>5. /\ Cardinality(s.items) = s.query.limit
        /\ Cardinality(Ahead(k.passed, w)) >= s.query.offset + s.query.limit
    BY <2>1, <2>2, <2>4, BehindPage
  <2>6. ~s.query.last
    BY DEF WalkFits
  <2> QED BY <2>5, <2>6, PageButtons
<1> QED BY <1>2, <1>4, <1>5, <1>6, <1>7 DEF WalkFits

\* No step takes back what is known.
LEMMA StepForward ==
    ASSUME TypeInv, [Next]_vars
    PROVE  Forward
<1>1. CASE UNCHANGED <<scene, created, removed, sent>>
  BY <1>1, StayForward
<1>2. ASSUME NEW w \in Whispers, Arrive(w) PROVE Forward
  BY <1>2, ArriveForward DEF TypeInv
<1>3. ASSUME NEW w \in Whispers, Sweep(w) PROVE Forward
  <2>1. w \in Present
    BY <1>3 DEF Sweep, TypeInv, RowsOK
  <2> QED BY <1>3, <2>1, RemoveForward DEF Sweep, TypeInv
<1>4. ASSUME NEW u \in Updates, Delete(u), ~Missing(u) PROVE Forward
  <2>1. PICK w : w = task[u].ask.whisper
    OBVIOUS
  <2>2. w \in Present /\ RemoveRow(w, "owner") /\ UNCHANGED <<scene, sent>>
    BY <1>4, <2>1 DEF Delete, Missing
  <2> QED BY <2>2, RemoveForward DEF TypeInv
<1>5. ASSUME NEW u \in Updates, Accepted(u) \/ Refused(u) PROVE Forward
  <2>1. UNCHANGED <<scene, created, removed>>
    BY <1>5 DEF Accepted, Refused, rows
  <2>2. PICK c : Takes(u, c) \/ UNCHANGED sent
    BY <1>5 DEF Accepted, Refused
  <2>3. \A w \in Whispers : sent[w] > 0 => sent'[w] > 0
    BY <2>2 DEF Takes, TypeInv, RowsOK
  <2> QED BY <2>1, <2>3, StayForward
<1>6. ASSUME NEW u \in Updates, Ask(u) \/ Handle(u), ~(Delete(u) /\ ~Missing(u)), ~(Accepted(u) \/ Refused(u))
      PROVE  Forward
  <2>1. UNCHANGED <<scene, created, removed, sent>>
    BY <1>6 DEF Handle, Ask, Start, ReadList, ReadItem, AskToConfirm, ReadForReview, FetchContent, Delete, Retain,
       DatabaseFails, HandlerLost, trail, rows
  <2> QED BY <1>1, <2>1
<1>7. ASSUME NEW w \in Whispers, RetentionEnds(w) PROVE UNCHANGED <<scene, created, removed, sent>>
  BY <1>7 DEF RetentionEnds, trail
<1>8. ASSUME NEW x, NEW n, Rename(x, n) PROVE UNCHANGED <<scene, created, removed, sent>>
  BY <1>8 DEF Rename, trail
<1>9. CASE UNCHANGED vars
  BY <1>1, <1>9 DEF vars, rows, trail
<1> QED BY <1>1, <1>2, <1>3, <1>4, <1>5, <1>6, <1>7, <1>8, <1>9 DEF Next

\* The handler of an update changes no other's task, and works only when it was started.
LEMMA OneHandler ==
    ASSUME TypeInv, NEW u \in Updates, Ask(u) \/ Handle(u)
    PROVE  /\ scene' = scene /\ \A v \in Updates \ {u} : task'[v] = task[v]
           /\ ~Settled(u) /\ (Active(u)' => Active(u) \/ Start(u))
<1>1. scene' = scene
  BY DEF Handle, Ask, Start, ReadList, ReadItem, AskToConfirm, ReadForReview, FetchContent, Delete, Retain,
     DatabaseFails, HandlerLost, Accepted, Refused
<1>2. \A v \in Updates \ {u} : task'[v] = task[v]
  BY DEF Handle, Ask, Start, ReadList, ReadItem, AskToConfirm, ReadForReview, FetchContent, Delete, Retain,
     DatabaseFails, HandlerLost, Accepted, Refused, Unavailable, Then, Failed, TypeInv, TasksOK
<1>3. ~Settled(u)
  BY DEF Handle, Ask, Start, ReadList, ReadItem, AskToConfirm, ReadForReview, FetchContent, Delete, Retain,
     DatabaseFails, HandlerLost, Accepted, Refused, Active, At, Settled
<1>4. Active(u)' => Active(u) \/ Start(u)
  <2>1. CASE Ask(u)
    BY <2>1, NotCalling DEF Ask, TypeInv, Active
  <2>2. CASE Handle(u)
    BY <2>2 DEF Handle, ReadList, ReadItem, AskToConfirm, ReadForReview, FetchContent, Delete, Retain,
       DatabaseFails, HandlerLost, Accepted, Refused, Active, At
  <2> QED BY <2>1, <2>2
<1> QED BY <1>1, <1>2, <1>3, <1>4

LEMMA OrderStep ==
    ASSUME TypeInv, InOrder, [Next]_vars
    PROVE  InOrder'
<1>1. CASE UNCHANGED <<scene, task>>
  BY <1>1 DEF InOrder, Active, Settled
<1>2. ASSUME NEW u \in Updates, Ask(u) \/ Handle(u) PROVE InOrder'
  <2> SUFFICES ASSUME scene.transport = "polling", NEW x \in Updates, NEW v \in Updates, v < x, Active(x)'
               PROVE  Settled(v)'
    BY <1>2, OneHandler DEF InOrder
  <2>1. Settled(v)
    <3>1. CASE x = u /\ Start(u)
      <4>1. v \in 1..(u - 1)
        BY <3>1 DEF Updates
      <4> QED BY <3>1, <4>1 DEF Start
    <3>2. CASE ~(x = u /\ Start(u))
      <4>1. Active(x)
        BY <1>2, <3>2, OneHandler DEF Active
      <4> QED BY <4>1 DEF InOrder
    <3> QED BY <3>1, <3>2
  <2>2. v # u
    BY <1>2, <2>1, OneHandler
  <2> QED BY <1>2, <2>1, <2>2, OneHandler DEF Settled
<1>3. CASE Next /\ ~UNCHANGED <<scene, task>>
  <2>1. PICK u \in Updates : Ask(u) \/ Handle(u)
    BY <1>3 DEF Next, Arrive, RetentionEnds, Sweep, Rename
  <2> QED BY <1>2, <2>1
<1> QED BY <1>1, <1>3 DEF vars

\* No handler whose first request is not a list shows one.
LEMMA NotShowing ==
    ASSUME TasksOK, NEW u \in Updates,
           \/ Failed(u)
           \/ \E calls : Then(u, calls) /\ (calls # <<>> => ~(calls[1].to = "show" /\ calls[1].screen.shows = "list"))
    PROVE  ~ShowsList(u)'
<1>1. CASE Failed(u)
  BY <1>1, TaskFields DEF TasksOK, Failed, ShowsList, At
<1>2. ASSUME NEW calls, Then(u, calls), calls # <<>> => ~(calls[1].to = "show" /\ calls[1].screen.shows = "list")
      PROVE  ~ShowsList(u)'
  <2>1. PICK pc, t : /\ pc = (IF calls = <<>> THEN "done" ELSE "calling")
                     /\ t = [task[u] EXCEPT !.pc = pc, !.calls = calls]
    OBVIOUS
  <2>2. task'[u] = t
    BY <1>2, <2>1 DEF TasksOK, Then
  <2>3. t.pc = pc /\ t.calls = calls
    BY <2>1, TaskFields
  <2> QED BY <1>2, <2>1, <2>2, <2>3 DEF ShowsList, At
<1> QED BY <1>1, <1>2

\* A list that is on its way to the owner was read by the handler's last step.
LEMMA ListsAreRead ==
    ASSUME TypeInv, NEW u \in Updates, Ask(u) \/ Handle(u), ~ReadList(u)
    PROVE  ~ShowsList(u)'
<1>1. CASE Ask(u) \/ Start(u) \/ (ReadForReview(u) /\ ~Missing(u))
  BY <1>1, NotCalling DEF ShowsList, TypeInv
<1>2. ASSUME NEW calls, Then(u, calls), calls # <<>> => ~(calls[1].to = "show" /\ calls[1].screen.shows = "list")
      PROVE  ~ShowsList(u)'
  BY <1>2, NotShowing DEF TypeInv
<1>3. ASSUME NEW call, NEW said, ~(call.to = "show" /\ call.screen.shows = "list"), Then(u, Replies(u, call, said))
      PROVE  ~ShowsList(u)'
  <2>1. PICK calls : calls = Replies(u, call, said)
    OBVIOUS
  <2> QED BY <1>2, <1>3, <2>1, FirstOfReplies
<1>4. CASE ReadItem(u) \/ AskToConfirm(u)
  <2>1. CASE ReadItem(u) /\ Missing(u)
    BY <1>2, <2>1 DEF ReadItem, Answer
  <2>2. CASE ~(ReadItem(u) /\ Missing(u))
    <3>1. PICK s, said : Then(u, Replies(u, Show(s), said)) /\ s.shows \in {"detail", "confirm"}
      BY <1>4, <2>2 DEF ReadItem, AskToConfirm, Detail, Confirm
    <3>2. Show(s).screen = s
      BY DEF Show
    <3> QED BY <1>3, <3>1, <3>2
  <2> QED BY <2>1, <2>2
<1>5. CASE (ReadForReview(u) /\ Missing(u)) \/ FetchContent(u)
  <2>1. PICK call : call.to # "show" /\ Then(u, Replies(u, call, "sent"))
    BY <1>5 DEF ReadForReview, FetchContent, Unavailable, Answer, Content
  <2> QED BY <1>3, <2>1
<1>6. CASE Delete(u) \/ Retain(u)
  <2>1. PICK calls : /\ Then(u, calls) /\ calls # <<>>
                     /\ calls[1].to # "show" \/ calls[1].screen.shows = "deleted"
    BY <1>6 DEF Delete, Retain, Answer, Note, Show, Deleted
  <2> QED BY <1>2, <2>1
<1>7. CASE DatabaseFails(u) \/ HandlerLost(u)
  BY <1>7, NotShowing DEF DatabaseFails, HandlerLost, TypeInv
<1>8. CASE Accepted(u) \/ Refused(u)
  <2>1. PICK w, calls, b : w = task[u].ask.whisper /\ calls = task[u].calls /\ b = calls[2]
    OBVIOUS
  <2>2. CallsOK(w, calls)
    BY <1>8, <2>1 DEF Accepted, Refused, TypeInv, TasksOK, TaskOK
  <2>3. PICK rest : rest = Tail(calls)
    OBVIOUS
  <2>4. rest = <<>> \/ (rest = <<b>> /\ b = Answer(b.text))
    BY <2>1, <2>2, <2>3, HeadAndTail
  <2>5. b = Answer(b.text) => b.to # "show"
    <3>1. Answer(b.text).to = "answer"
      BY DEF Answer
    <3> QED BY <3>1
  <2>6. Failed(u) \/ Then(u, <<>>) \/ Then(u, rest)
    BY <1>8, <2>1, <2>3 DEF Accepted, Refused
  <2>7. rest # <<>> => rest[1].to # "show"
    BY <2>4, <2>5
  <2> QED BY <2>6, <2>7, NotShowing DEF TypeInv
<1> QED BY <1>1, <1>4, <1>5, <1>6, <1>7, <1>8 DEF Handle

\* What waits to be shown remains a page of the walk, as long as the walk does not move.
LEMMA PendingStays ==
    ASSUME TypeInv, Forward, Claimed => WalkFits(walk), NEW u \in Updates, PendingOK(u),
           UNCHANGED walk, task'[u] = task[u]
    PROVE  PendingOK(u)'
<1>1. PICK k, s, cut : k = walk /\ s = task[u].calls[1].screen /\ cut = task[u].calls[1].cut
  OBVIOUS
<1>2. (Claimed' <=> Claimed) /\ (ShowsList(u)' <=> ShowsList(u))
  BY DEF Forward, Claimed, Shared, ShowsList, At
<1>3. ASSUME ShowsList(u) PROVE PageOK(s, cut)' /\ (Claimed => LinkOK(k, s, cut)')
  <2>1. PageOK(s, cut)'
    BY <1>1, <1>3, PageKept DEF PendingOK, TypeInv
  <2>2. ASSUME Claimed PROVE LinkOK(k, s, cut)'
    <3>1. LinkOK(k, s, cut) /\ \A w \in k.start \union k.passed : Known(w)
      BY <1>1, <1>3, <2>2 DEF PendingOK, WalkFits
    <3> QED BY <3>1, LinkKept
  <2> QED BY <2>1, <2>2
<1> QED BY <1>1, <1>2, <1>3 DEF PendingOK

\* A page that was just read is one of the walk.
LEMMA PendingRead ==
    ASSUME TypeInv, Forward, Claimed => WalkFits(walk), NEW u \in Updates, ReadList(u)
    PROVE  PendingOK(u)'
<1>1. PICK k, q, s, cut, call : /\ k = walk /\ q = task[u].ask.query /\ s = List(q, Page(q)) /\ cut = Cut(q)
                                /\ call = ShowList(s, cut)
  OBVIOUS
<1>2. q \in Queries
  BY <1>1, Asked DEF ReadList, At, TypeInv
<1>3. PageOK(s, cut)'
  BY <1>1, <1>2, PageIsCut, PageKept DEF TypeInv
<1>4. ASSUME Claimed PROVE LinkOK(k, s, cut)'
  <2>1. WalkFits(k)
    BY <1>1, <1>4
  <2>2. LinkOK(k, s, cut)
    <3> SUFFICES ASSUME ~k.over, q = k.next, NEW w \in (k.start \union k.passed) \intersect Present
                 PROVE  w \in cut.all
      BY <1>1 DEF LinkOK, List
    <3>1. Fits(w, q.filter)
      BY <2>1 DEF WalkFits
    <3> QED BY <1>1, <3>1 DEF Fits, Matches, Matching, Cut
  <2> QED BY <2>1, <2>2, LinkKept DEF WalkFits
<1>5. ShowsList(u)' => task'[u].calls[1] = call
  <2>1. PICK calls, pc, t : /\ calls = Replies(u, call, "updated") /\ pc = (IF calls = <<>> THEN "done" ELSE "calling")
                            /\ t = [task[u] EXCEPT !.pc = pc, !.calls = calls]
    OBVIOUS
  <2>2. t.calls = calls /\ task'[u] = t
    BY <1>1, <2>1, TaskFields DEF ReadList, Then, TypeInv, TasksOK
  <2> QED BY <2>1, <2>2, FirstOfReplies
<1>6. call.screen = s /\ call.cut = cut
  BY <1>1 DEF ShowList
<1>7. walk' = k /\ (Claimed' <=> Claimed)
  BY <1>1 DEF ReadList, dialog, Claimed, Shared
<1> QED BY <1>3, <1>4, <1>5, <1>6, <1>7 DEF PendingOK

\* A page is shown: the walk begins, goes on, or stays.
LEMMA WalkedFits ==
    ASSUME TypeInv, WalkInv, NEW u \in Updates, ShowsList(u), NEW c, c = task[u].calls[1],
           NEW k, k = Walked(c.screen, c.cut), scene.transport = "polling", ~Shared(k)
    PROVE  WalkFits(k)
<1>1. PICK s, cut, over, next :
          /\ s = c.screen /\ cut = c.cut /\ over = ~HasNext(s.buttons, s.items)
          /\ next = IF HasNext(s.buttons, s.items) THEN Onward(s.buttons) ELSE Latest(All)
  OBVIOUS
<1>2. RowsOK /\ PageOK(s, cut) /\ s.buttons \in Queries
  <2>1. CallsOK(task[u].ask.whisper, task[u].calls)
    BY DEF ShowsList, TypeInv, TasksOK, TaskOK
  <2>2. ScreenOK(s) /\ s.shows = "list"
    BY <1>1, <2>1 DEF CallsOK, CallOK, ShowsList
  <2> QED BY <1>1, <2>2 DEF ScreenOK, TypeInv, WalkInv, PendingOK
<1>3. CASE s.query.offset = 0 /\ ~s.query.last
  <2>1. k = [start |-> cut.all, filter |-> s.query.filter, seen |-> s.items, passed |-> cut.passed,
             next |-> next, over |-> over]
    BY <1>1, <1>3 DEF Walked
  <2>2. /\ k.start = cut.all /\ k.filter = s.query.filter /\ k.seen = s.items /\ k.passed = cut.passed
        /\ k.next = next /\ k.over = over
    BY <2>1
  <2> QED BY <1>1, <1>2, <1>3, <2>2, FirstPageFits
<1>4. CASE ~(s.query.offset = 0 /\ ~s.query.last) /\ ~walk.over /\ s.query = walk.next
  <2>1. k = [start |-> walk.start, filter |-> walk.filter, seen |-> walk.seen \union s.items,
             passed |-> walk.passed \union cut.passed, next |-> next, over |-> over]
    BY <1>1, <1>4 DEF Walked
  <2>2. /\ k.start = walk.start /\ k.filter = walk.filter /\ k.seen = walk.seen \union s.items
        /\ k.passed = walk.passed \union cut.passed /\ k.next = next /\ k.over = over
    BY <2>1
  <2>3. Claimed
    BY <2>2 DEF Claimed, Shared
  <2>4. WalkFits(walk) /\ LinkOK(walk, s, cut)
    BY <1>1, <2>3 DEF WalkInv, PendingOK
  <2> QED BY <1>1, <1>2, <1>4, <2>2, <2>4, NextPageFits
<1>5. CASE ~(s.query.offset = 0 /\ ~s.query.last) /\ ~(~walk.over /\ s.query = walk.next)
  <2>1. k = walk
    BY <1>1, <1>5 DEF Walked
  <2> QED BY <2>1 DEF Claimed, WalkInv
<1> QED BY <1>3, <1>4, <1>5

LEMMA WalkHandle ==
    ASSUME TypeInv, WalkInv, Forward, InOrder', NEW u \in Updates, Ask(u) \/ Handle(u)
    PROVE  WalkInv'
<1>1. scene' = scene /\ \A v \in Updates \ {u} : task'[v] = task[v]
  BY OneHandler
<1>2. CASE UNCHANGED walk
  <2>1. PICK k : k = walk
    OBVIOUS
  <2>2. Claimed' => WalkFits(k)'
    BY <1>1, <1>2, <2>1, WalkKept DEF Claimed, Shared, WalkInv, TypeInv
  <2>3. PendingOK(u)'
    BY PendingRead, ListsAreRead DEF WalkInv, PendingOK
  <2>4. \A v \in Updates \ {u} : PendingOK(v)'
    BY <1>1, <1>2, PendingStays DEF WalkInv
  <2> QED BY <1>2, <2>1, <2>2, <2>3, <2>4 DEF WalkInv
<1>3. CASE ~UNCHANGED walk
  <2>1. Accepted(u) \/ Refused(u)
    BY <1>3 DEF Handle, Ask, Start, ReadList, ReadItem, AskToConfirm, ReadForReview, FetchContent, Delete, Retain,
       DatabaseFails, HandlerLost, dialog
  <2>2. PICK w, calls, c : w = task[u].ask.whisper /\ calls = task[u].calls /\ c = calls[1]
    OBVIOUS
  <2>3. CallsOK(w, calls) /\ At(u, "calling")
    BY <2>1, <2>2 DEF Accepted, Refused, TypeInv, TasksOK, TaskOK
  <2>4. Takes(u, c)
    <3>1. Head(calls) = c
      BY <2>2, <2>3, HeadAndTail
    <3> QED BY <1>3, <2>1, <2>2, <3>1 DEF Accepted, Refused, dialog
  <2>5. PICK k : k = walk'
    OBVIOUS
  <2>6. ShowsList(u) /\ k = Walked(c.screen, c.cut)
    BY <1>3, <2>2, <2>3, <2>4, <2>5 DEF Takes, ShowsList
  <2>7. Claimed' => WalkFits(k)'
    <3>1. Claimed' => scene.transport = "polling" /\ ~Shared(k)
      BY <1>1, <2>5 DEF Claimed, Shared
    <3> QED BY <2>2, <2>6, <3>1, WalkedFits, WalkKept DEF TypeInv
  <2>8. ~ShowsList(u)'
    BY <1>3, ListsAreRead DEF ReadList, dialog
  <2>9. ASSUME NEW v \in Updates \ {u}, ShowsList(v)', NEW s, NEW cut,
               s = task'[v].calls[1].screen, cut = task'[v].calls[1].cut
        PROVE  PageOK(s, cut)' /\ ~Claimed'
    <3>1. ShowsList(v) /\ s = task[v].calls[1].screen /\ cut = task[v].calls[1].cut
      BY <1>1, <2>9 DEF ShowsList, At
    <3>2. PageOK(s, cut)'
      BY <3>1, PageKept DEF WalkInv, PendingOK, TypeInv
    <3>3. scene.transport # "polling"
      <4>1. Active(u) /\ Active(v) /\ ~Settled(u) /\ ~Settled(v)
        BY <2>6, <3>1 DEF ShowsList, At, Active, Settled
      <4>2. u < v \/ v < u
        BY <2>9 DEF Updates
      <4> QED BY <2>9, <4>1, <4>2 DEF WalkInv, InOrder
    <3> QED BY <1>1, <3>2, <3>3 DEF Claimed
  <2> QED BY <2>5, <2>7, <2>8, <2>9 DEF WalkInv, PendingOK
<1> QED BY <1>2, <1>3

LEMMA WalkStep == TypeInv /\ WalkInv /\ [Next]_vars => WalkInv'
<1> SUFFICES ASSUME TypeInv, WalkInv, [Next]_vars PROVE WalkInv'
  OBVIOUS
<1>1. Forward /\ InOrder'
  BY StepForward, OrderStep DEF WalkInv
<1>2. CASE UNCHANGED <<task, walk>>
  <2>1. PICK k : k = walk
    OBVIOUS
  <2>2. Claimed' => WalkFits(k)'
    BY <1>1, <1>2, <2>1, WalkKept DEF Claimed, Shared, WalkInv, TypeInv, Forward
  <2>3. \A u \in Updates : PendingOK(u)'
    BY <1>1, <1>2, PendingStays DEF WalkInv
  <2> QED BY <1>1, <1>2, <2>1, <2>2, <2>3 DEF WalkInv
<1>3. CASE Next /\ ~UNCHANGED <<task, walk>>
  <2>1. PICK u \in Updates : Ask(u) \/ Handle(u)
    BY <1>3 DEF Next, Arrive, RetentionEnds, Sweep, Rename, dialog
  <2> QED BY <1>1, <2>1, WalkHandle
<1> QED BY <1>2, <1>3 DEF vars, dialog

LEMMA WalkInit == Init => WalkInv
<1> SUFFICES ASSUME Init PROVE WalkInv
  OBVIOUS
<1>1. InOrder /\ \A u \in Updates : ~ShowsList(u)
  BY DEF Init, InOrder, Active, ShowsList, At, NoTask
<1>2. WalkFits(walk)
  <2>1. PICK k : k = walk
    OBVIOUS
  <2>2. k.start = {} /\ k.seen = {} /\ k.passed = {} /\ k.over /\ k.filter.by = "all"
    BY <2>1 DEF Init, NoWalk, All
  <2> QED BY <2>1, <2>2 DEF WalkFits
<1> QED BY <1>1, <1>2 DEF WalkInv, PendingOK

\* An owner who pages through a list with Next sees all of it that remains, whatever
\* arrives, is renamed or fails meanwhile, for lists and pages of any size: every
\* whisper that matched when he began and was neither removed nor shown is on a page
\* that is still ahead, unless one was removed before the end of a page that was cut.
THEOREM WalkComplete == Spec => []CompleteWalk
<1>1. WalkInv => CompleteWalk
  BY DEF WalkInv, WalkFits, Claimed, CompleteWalk
<1> QED BY TypeInit, TypeStep, WalkInit, WalkStep, <1>1, PTL DEF Spec

----------------------------------------------------------------------------
(* What the selection of a statement knows                                 *)

\* The tables that a sweep goes through.
Swept == {"draft", "whisper", "job", "request", "member", "user", "chat"}

\* A row that a statement may delete: due, and named by no row that its NOT
\* EXISTS looks for.
Free(x, t) ==
    /\ x.table = t /\ I!Due(x)
    /\ \A y \in I!Present : y.table \in I!KeptBy(t) => x \notin I!Named(y)

\* As long as nothing was written since the selection, what was selected is free.
SelectionHolds ==
    selected =>
        /\ sweep \in 1..Len(I!Sweeps)
        /\ ~raced => \A x \in doomed : Free(x, I!Sweeps[sweep])

\* The cleanup has failed only between two of its transactions.
FailureIsOver == failed => sweep = 0 /\ ~selected

StuckInv == SelectionHolds /\ FailureIsOver /\ NeverStuck

----------------------------------------------------------------------------
(* The schema                                                              *)

\* Every statement goes through one of the tables.
LEMMA SweepTable ==
    ASSUME NEW i \in 1..Len(I!Sweeps)
    PROVE  I!Sweeps[i] \in Swept
  BY DEF I!Sweeps, Swept

\* Which tables the rows of a table name.
LEMMA NamedTables ==
    ASSUME NEW y, NEW z \in I!Named(y)
    PROVE  /\ y.table = "draft" => z.table \in {"user", "member", "chat"}
           /\ y.table = "whisper" => z.table \in {"user", "member", "chat", "draft"}
           /\ y.table = "request" => z.table \in {"user", "chat"}
           /\ y.table = "member" => z.table \in {"user", "chat"}
  BY DEF I!Named, I!User, I!Member, I!Chat, I!Row

\* What a row with a foreign key names is of a table whose sweep looks for
\* rows of that kind. This is the agreement of cleanup.go with the schema.
LEMMA SweepsKnowKeys ==
    ASSUME NEW y, y.table \in I!Refusing \union {"member"}, NEW z \in I!Named(y)
    PROVE  y.table \in I!KeptBy(z.table)
<1>1. CASE z.table = "draft"
  BY <1>1, NamedTables DEF I!KeptBy, I!Refusing
<1>2. CASE z.table = "member"
  BY <1>2, NamedTables DEF I!KeptBy, I!Refusing
<1>3. CASE z.table = "user"
  BY <1>3, NamedTables DEF I!KeptBy, I!Refusing
<1>4. CASE z.table = "chat"
  BY <1>4, NamedTables DEF I!KeptBy, I!Refusing
<1> QED BY <1>1, <1>2, <1>3, <1>4, NamedTables DEF I!Refusing

\* Rows that are free can be deleted: nothing cascades, nothing refuses.
LEMMA FreeRowsGo ==
    ASSUME NEW t, \A x \in doomed : Free(x, t)
    PROVE  ~I!Refused
<1>1. ASSUME NEW y \in I!Present, y.table \in I!Refusing \union {"member"}, NEW x \in doomed
      PROVE  x \notin I!Named(y)
  <2> SUFFICES ASSUME x \in I!Named(y) PROVE FALSE
    OBVIOUS
  <2>1. y.table \in I!KeptBy(t)
    BY <1>1, SweepsKnowKeys DEF Free
  <2> QED BY <1>1, <2>1 DEF Free
<1>2. I!Deleted \subseteq doomed
  BY <1>1 DEF I!Deleted, I!Cascade
<1> QED BY <1>1, <1>2 DEF I!Refused

----------------------------------------------------------------------------
(* Steps                                                                   *)

\* The cleanup has nothing selected at first.
LEMMA StuckInit == I!Init => StuckInv
  BY DEF I!Init, StuckInv, SelectionHolds, FailureIsOver, NeverStuck

\* A write makes the selection stale and says so.
LEMMA WriteStep ==
    ASSUME StuckInv, raced' = (raced \/ selected),
           UNCHANGED <<sweep, selected, doomed, failed>>
    PROVE  StuckInv'
<1>1. ~raced' => ~selected'
  OBVIOUS
<1>2. SelectionHolds'
  BY <1>1 DEF StuckInv, SelectionHolds
<1>3. FailureIsOver' /\ NeverStuck'
  BY DEF StuckInv, FailureIsOver, NeverStuck
<1> QED BY <1>2, <1>3 DEF StuckInv

\* Every step keeps the invariant.
LEMMA StuckStep == StuckInv /\ [I!Next]_I!vars => StuckInv'
<1> SUFFICES ASSUME StuckInv, [I!Next]_I!vars PROVE StuckInv'
  OBVIOUS
<1> USE DEF I!cleanup
<1>1. ASSUME NEW u, I!Observe(u) \/ I!Register(u) PROVE StuckInv'
  BY <1>1, WriteStep DEF I!Observe, I!Register, I!Write
<1>2. ASSUME NEW d, NEW s, NEW r, I!Resolve(d, s, r) PROVE StuckInv'
  BY <1>2, WriteStep DEF I!Resolve, I!Write
<1>3. ASSUME UNCHANGED <<identities, old, started, I!cleanup, raced>> PROVE StuckInv'
  BY <1>3 DEF StuckInv, SelectionHolds, FailureIsOver, NeverStuck, Free, I!Due, I!Present
<1>4. ASSUME NEW y, I!CreateDraft(y) PROVE StuckInv'
  <2>1. CASE I!Named(y) \subseteq identities
    BY <1>4, <2>1, WriteStep DEF I!CreateDraft, I!Write
  <2>2. CASE ~(I!Named(y) \subseteq identities)
    BY <1>3, <1>4, <2>2 DEF I!CreateDraft
  <2> QED BY <2>1, <2>2
<1>5. ASSUME NEW y, NEW u, I!Finalize(y) \/ I!Open(y, u) \/ I!Claim(y, u) PROVE StuckInv'
  BY <1>5, WriteStep DEF I!Finalize, I!Open, I!Claim, I!Write
<1>6. ASSUME NEW r, NEW target, I!Request(r, target) PROVE StuckInv'
  BY <1>6, WriteStep DEF I!Request, I!Write
<1>7. ASSUME NEW x, I!Age(x) PROVE StuckInv'
  <2>1. \A z, t : Free(z, t) => Free(z, t)'
    BY <1>7 DEF I!Age, Free, I!Due, I!Present
  <2> QED BY <1>7, <2>1 DEF I!Age, StuckInv, SelectionHolds, FailureIsOver, NeverStuck
<1>8. CASE I!Begin
  BY <1>8 DEF I!Begin, StuckInv, SelectionHolds, FailureIsOver, NeverStuck
<1>9. CASE I!Select
  <2>1. \A x \in doomed' : Free(x, I!Sweeps[sweep])'
    BY <1>9 DEF I!Select, I!Doomed, Free, I!Due, I!Present
  <2>2. ~failed
    BY <1>9 DEF I!Select, StuckInv, FailureIsOver
  <2> QED BY <1>9, <2>1, <2>2 DEF I!Select, StuckInv, SelectionHolds, FailureIsOver, NeverStuck
<1>10. CASE I!Delete
  BY <1>10 DEF I!Delete, StuckInv, SelectionHolds, FailureIsOver, NeverStuck
<1>11. CASE I!Rollback
  <2>1. raced
    BY <1>11, FreeRowsGo DEF I!Rollback, StuckInv, SelectionHolds
  <2> QED BY <1>11, <2>1 DEF I!Rollback, StuckInv, SelectionHolds, FailureIsOver, NeverStuck
<1>12. CASE I!Commit
  BY <1>12 DEF I!Commit, StuckInv, SelectionHolds, FailureIsOver, NeverStuck
<1>13. CASE UNCHANGED I!vars
  BY <1>3, <1>13 DEF I!vars
<1> QED BY <1>1, <1>2, <1>4, <1>5, <1>6, <1>7, <1>8, <1>9, <1>10, <1>11, <1>12, <1>13 DEF I!Next, I!Cleanup

----------------------------------------------------------------------------
\* Whatever rows there are and whoever writes meanwhile, a foreign key stops the
\* transaction of RunCleanup only if something was written since its selection.
THEOREM Unstuck == I!Spec => []NeverStuck
<1>1. StuckInv => NeverStuck
  BY DEF StuckInv
<1> QED BY StuckInit, StuckStep, <1>1, PTL DEF I!Spec
=============================================================================
