------------------------------ MODULE Identity ------------------------------
(***************************************************************************)
(* The rows that say who is who (repository/identity.go), the rows that    *)
(* refer to them, and the transaction that removes both when they are old  *)
(* (repository/cleanup.go). A foreign key that still refers to a row makes *)
(* its removal fail and with it the whole transaction, every sweep of it;  *)
(* the sweeps have to agree with the schema and with each other, while     *)
(* handlers insert rows between their statements.                          *)
(*                                                                         *)
(* One group is modelled. How a draft, a whisper or a request comes to its *)
(* end is the subject of the other modules; here it is a row that is kept  *)
(* for some time.                                                          *)
(***************************************************************************)
EXTENDS Naturals, FiniteSets, Sequences, Rollback

CONSTANTS
    Users,
    Group,
    Drafts,           \* ids of drafts, and of their whispers and delete jobs
    Requests,         \* ids of guest requests
    Asker,            \* who makes a request
    MaxObservations   \* bound: messages and commands that are observed

ASSUME IdentityAssumption ==
    /\ Group \notin Users
    /\ Asker \in [Requests -> Users]
    /\ MaxObservations \in Nat

(* A row: its table, its id and the people it names.                       *)
Row(t, i, people) == [table |-> t, id |-> i, of |-> people]
User(u)   == Row("user", u, {u})
Member(u) == Row("member", u, {u})
Chat      == Row("chat", Group, {})

Pairs == {p \in SUBSET Users : Cardinality(p) = 2}
Rows ==
    {User(u) : u \in Users} \union {Member(u) : u \in Users} \union {Chat}
    \union {Row(t, d, p) : t \in {"draft", "whisper"}, d \in Drafts, p \in Pairs}
    \union {Row("job", d, {u}) : d \in Drafts, u \in Users}
    \union {Row("request", r, p) : r \in Requests, p \in Pairs \union {{u} : u \in Users}}

\* The rows of the other tables that a row names.
Named(y) ==
    CASE y.table = "draft"   -> {User(u) : u \in y.of} \union {Member(u) : u \in y.of} \union {Chat}
      [] y.table = "whisper" -> {User(u) : u \in y.of} \union {Member(u) : u \in y.of} \union {Chat}
                                \union {Row("draft", y.id, y.of)}
      [] y.table = "request" -> {User(u) : u \in y.of} \union {Chat}
      [] y.table = "member"  -> {User(u) : u \in y.of} \union {Chat}
      [] y.table = "job"     -> {User(u) : u \in y.of}
      [] OTHER               -> {}

\* A foreign key stands behind each name but that of a job. One of a member
\* cascades, one of the other tables refuses the removal.
Refusing == {"draft", "whisper", "request"}

\* The statements of RunCleanup that delete, in their order, and for each the
\* tables its NOT EXISTS looks into. (Before each a variant that forgets one.)
SweepsWithoutJobs == <<"draft", "whisper", "request", "member", "user", "chat">>

Sweeps == <<"draft", "whisper", "job", "request", "member", "user", "chat">>

KeptByButRequests(t) ==
    CASE t = "draft"            -> {"whisper"}
      [] t = "member"           -> {"draft", "whisper"}
      [] t \in {"user", "chat"} -> {"member", "draft", "whisper", "job"}
      [] OTHER                  -> {}

KeptBy(t) ==
    CASE t = "draft"  -> {"whisper"}
      [] t = "member" -> {"draft", "whisper"}
      [] t = "user"   -> {"member", "draft", "whisper", "request", "job"}
      [] t = "chat"   -> {"member", "draft", "whisper", "request"}
      [] OTHER        -> {}

VARIABLES
    rows,     \* the committed rows
    old,      \* those past their retention, not active
    started,  \* users.has_started_private_chat
    asking,   \* drafts whose recipient is resolved, not yet inserted
    unused,   \* ids not given away yet
    seen,     \* observations so far
    sweep,    \* the next statement of the cleanup, 0 between its transactions
    selected, \* it has selected rows to delete
    doomed,   \* those rows
    gone      \* what the transaction has deleted and not committed

cleanup == <<sweep, selected, doomed, gone, failed>>
vars == <<rows, old, started, asking, unused, seen, cleanup, raced>>

----------------------------------------------------------------------------
Init ==
    /\ rows = {} /\ old = {} /\ started = {} /\ asking = {}
    /\ unused = {<<t, d>> : t \in {"draft", "whisper", "job"}, d \in Drafts}
                \union {<<"request", r>> : r \in Requests}
    /\ seen = 0
    /\ sweep = 0 /\ selected = FALSE /\ doomed = {} /\ gone = {}
    /\ raced = FALSE /\ failed = FALSE

\* Inserts and updates commit at once. One that meets a row which the cleanup
\* has deleted waits for the end of that transaction.
Write(new) ==
    /\ new \intersect gone = {}
    /\ rows' = rows \union new
    /\ old' = old \ new
    /\ raced' = (raced \/ selected)

Observed(people) == {User(u) : u \in people} \union {Member(u) : u \in people} \union {Chat}

\* ObserveMembership, by a message in the group.
Observe(u) ==
    /\ seen < MaxObservations
    /\ seen' = seen + 1
    /\ Write(Observed({u}))
    /\ UNCHANGED <<started, asking, unused, cleanup>>

\* RegisterPrivateUser.
Register(u) ==
    /\ seen < MaxObservations
    /\ seen' = seen + 1
    /\ started' = started \union {u}
    /\ Write({User(u)})
    /\ UNCHANGED <<asking, unused, cleanup>>

\* service.CreateDraft: the sender is observed, and so is a recipient by reply;
\* another recipient is looked up among the members.
Resolve(d, s, r) ==
    /\ <<"draft", d>> \in unused
    /\ s # r
    /\ \/ Write(Observed({s, r}))
       \/ Member(r) \in rows /\ Write(Observed({s}))
    /\ unused' = unused \ {<<"draft", d>>}
    /\ asking' = asking \union {Row("draft", d, {s, r})}
    /\ UNCHANGED <<started, seen, cleanup>>

\* store.CreateDraft; a foreign key refuses it if a row is there no longer.
CreateDraft(y) ==
    /\ asking' = asking \ {y}
    /\ IF Named(y) \subseteq rows
       THEN Named(y) \intersect gone = {} /\ Write({y})
       ELSE UNCHANGED <<rows, old, raced>>
    /\ UNCHANGED <<started, unused, seen, cleanup>>

\* FinalizeDraft inserts the whisper, the draft is completed.
Finalize(y) ==
    /\ y.table = "draft" /\ y \in rows \ (old \union gone)
    /\ <<"whisper", y.id>> \in unused
    /\ unused' = unused \ {<<"whisper", y.id>>}
    /\ Write({Row("whisper", y.id, y.of)})
    /\ UNCHANGED <<started, asking, seen, cleanup>>

\* CompleteOpening queues the deletion of what the recipient was shown.
Open(y, u) ==
    /\ y.table = "whisper" /\ y \in rows \ (old \union gone)
    /\ u \in y.of
    /\ <<"job", y.id>> \in unused
    /\ unused' = unused \ {<<"job", y.id>>}
    /\ Write({Row("job", y.id, {u})})
    /\ UNCHANGED <<started, asking, seen, cleanup>>

\* CreateGuestRequest, the target known by its number or by a name only.
Request(r, target) ==
    /\ <<"request", r>> \in unused
    /\ unused' = unused \ {<<"request", r>>}
    /\ LET people == {Asker[r]} \union target
       IN Write({User(u) : u \in people} \union {Chat, Row("request", r, people)})
    /\ UNCHANGED <<started, asking, seen, cleanup>>

\* The target of a request presses or writes: its number is stored.
Claim(y, u) ==
    /\ y.table = "request" /\ y \in rows \ (old \union gone)
    /\ Cardinality(y.of) = 1 /\ u \notin y.of
    /\ LET bound == Row("request", y.id, y.of \union {u})
       IN /\ User(u) \notin gone
          /\ rows' = (rows \ {y}) \union {bound, User(u)}
          /\ old' = old \ {User(u)}
    /\ raced' = (raced \/ selected)
    /\ UNCHANGED <<started, asking, unused, seen, cleanup>>

\* A row passes its retention. Users and chats were seen no earlier than their
\* members. (The cleanup compares with the time of its start; that a row may age
\* during it lets it select more.)
Age(x) ==
    /\ x \in rows \ old
    /\ x.table = "user" => Member(x.id) \notin rows \ old
    /\ x.table = "chat" => \A u \in Users : Member(u) \notin rows \ old
    /\ old' = old \union {x}
    /\ UNCHANGED <<rows, started, asking, unused, seen, cleanup, raced>>

----------------------------------------------------------------------------
(* RunCleanup: one transaction, each statement on the rows committed when  *)
(* it begins and on its own changes.                                       *)

Present == rows \ gone

Due(x) ==
    /\ x \in Present /\ x \in old
    /\ x.table = "user" => x.id \notin started

Doomed(t) ==
    {x \in Present : /\ x.table = t /\ Due(x)
                     /\ \A y \in Present : y.table \in KeptBy(t) => x \notin Named(y)}

Begin ==
    /\ sweep = 0
    /\ sweep' = 1
    /\ failed' = FALSE /\ raced' = FALSE
    /\ UNCHANGED <<rows, old, started, asking, unused, seen, selected, doomed, gone>>

Select ==
    /\ sweep \in 1..Len(Sweeps) /\ ~selected
    /\ doomed' = Doomed(Sweeps[sweep])
    /\ selected' = (doomed' # {})
    /\ sweep' = IF selected' THEN sweep ELSE sweep + 1
    /\ UNCHANGED <<rows, old, started, asking, unused, seen, gone, failed, raced>>

\* What was selected is deleted, but for rows written since that are due no longer;
\* what a foreign key cascades to goes with it.
Cascade(X) == X \union {y \in Present : y.table = "member" /\ Named(y) \intersect X # {}}
Deleted    == Cascade({x \in doomed : Due(x)})
Refused    == \E y \in Present \ Deleted : y.table \in Refusing /\ Named(y) \intersect Deleted # {}

Delete ==
    /\ selected /\ ~Refused
    /\ gone' = gone \union Deleted
    /\ sweep' = sweep + 1
    /\ selected' = FALSE /\ doomed' = {} /\ raced' = FALSE
    /\ UNCHANGED <<rows, old, started, asking, unused, seen, failed>>

\* The error ends the transaction; the worker logs it and begins again later.
Rollback ==
    /\ selected /\ Refused
    /\ sweep' = 0 /\ selected' = FALSE /\ doomed' = {} /\ gone' = {}
    /\ failed' = TRUE
    /\ UNCHANGED <<rows, old, started, asking, unused, seen, raced>>

Commit ==
    /\ sweep > Len(Sweeps)
    /\ rows' = rows \ gone /\ old' = old \ gone
    /\ sweep' = 0 /\ gone' = {}
    /\ UNCHANGED <<started, asking, unused, seen, selected, doomed, failed, raced>>

----------------------------------------------------------------------------
Cleanup == Begin \/ Select \/ Delete \/ Rollback \/ Commit

Next ==
    \/ Cleanup
    \/ \E u \in Users : Observe(u) \/ Register(u)
    \/ \E d \in Drafts, s, r \in Users : Resolve(d, s, r)
    \/ \E y \in asking : CreateDraft(y)
    \/ \E y \in rows : Finalize(y) \/ Age(y)
    \/ \E y \in rows, u \in Users : Open(y, u) \/ Claim(y, u)
    \/ \E r \in Requests : Request(r, {}) \/ \E u \in Users : Request(r, {u})

Spec == Init /\ [][Next]_vars

\* The cleanup worker runs at its interval, time passes for every row, and a
\* handler that has resolved a recipient goes on.
Fairness ==
    /\ WF_vars(Cleanup)
    /\ \A x \in Rows : WF_vars(x \in rows /\ Age(x))
    /\ \A x \in Rows : WF_vars(x \in asking /\ CreateDraft(x))

FairSpec == Spec /\ Fairness

----------------------------------------------------------------------------
TypeOK ==
    /\ rows \subseteq Rows /\ old \subseteq rows /\ gone \subseteq rows
    /\ asking \subseteq Rows
    /\ started \subseteq Users
    /\ seen \in 0..MaxObservations
    /\ sweep \in 0..Len(Sweeps) + 1
    /\ selected \in BOOLEAN /\ raced \in BOOLEAN /\ failed \in BOOLEAN

\* Nobody is remembered without a reason: once activity has ended, every row
\* goes, but for the users who have started a private chat, whom the bot may
\* write to (cleanup.go:325-381).
Forgotten == <>[](rows \subseteq {User(u) : u \in started})
=============================================================================
