------------------------------- MODULE Owner -------------------------------
(***************************************************************************)
(* The owner's commands and his browser (bot/owner.go, owner_browser.go):  *)
(* one message that is edited into lists, details and confirmations of     *)
(* whispers, while whispers come and go.  What the browser needs to know   *)
(* between two presses is in the data of its buttons.                      *)
(***************************************************************************)
EXTENDS Integers, Sequences, FiniteSets

CONSTANTS
    Whispers, Sender, Media,  \* whispers, and of each its sender and kind
    Stored,         \* created_at of the whispers stored at the beginning, 0 for the others
    Names,          \* usernames
    FirstNames,     \* the username each sender bears at the beginning
    PageSize,       \* ownerPageSize
    MaxUpdates,     \* bound: commands and presses of the owner
    MaxAttempts,    \* handlings of one update
    Scenes,         \* what an instance explores, see Init
    None            \* no whisper

Users   == {Sender[w] : w \in Whispers}
Kinds   == {Media[w] : w \in Whispers}
Updates == 1..MaxUpdates
Filters == {[by |-> "all"]} \union {[by |-> "sender", of |-> u] : u \in Users}
             \union {[by |-> "name", of |-> n] : n \in Names} \union {[by |-> "media", of |-> k] : k \in Kinds}
Queries == [filter : Filters, limit : Nat \ {0}, offset : Nat, last : BOOLEAN]
Deeds   == {"page", "item", "open", "confirm", "delete", "retain"}

ASSUME OwnerAssumption ==
    /\ None \notin Whispers /\ IsFiniteSet(Whispers)
    /\ Stored \in [Whispers -> 0..Cardinality(Whispers)]
    /\ \A v, w \in Whispers : Stored[v] = Stored[w] => v = w \/ Stored[w] = 0
    /\ FirstNames \in [Users -> Names]
    /\ PageSize \in 1..20
    /\ MaxAttempts \in Nat \ {0} /\ MaxUpdates \in Nat
    /\ \A s \in Scenes :
          /\ s.transport \in {"polling", "webhook"}
          /\ s.faults \subseteq {"crash", "telegram", "database"}
          /\ s.arriving \subseteq Whispers /\ s.ageing \subseteq Whispers
          \* The id of a whisper is known only once there is one.
          /\ \A c \in s.commands :
                /\ c \in [do : Deeds, whisper : Whispers \union {None}, query : Queries]
                /\ c.whisper \in s.arriving => Stored[c.whisper] # 0

VARIABLES
    scene,      \* the scene that is played
    created,    \* whispers.created_at, 0 where there is no row
    newest,     \* the last created_at that was given
    named,      \* users.username_normalized, of each sender
    due,        \* whispers whose retention_delete_at has passed
    screen,     \* what the browser's message shows
    task,       \* per update: what it asks, how far its handler is
    answer,     \* per update: what the owner last read in reply to it
    retrieved,  \* owner_audit_events: contents retrieved, per whisper
    deleted,    \* owner_audit_events: deletions, per whisper
    sent,       \* history: contents sent to the owner, per whisper
    removed,    \* history: who removed a whisper: "nobody", "owner", "cleanup"
    walk        \* history: pages shown one after the other

rows    == <<created, newest, named, due>>
dialog  == <<screen, walk>>
trail   == <<retrieved, deleted, sent, removed>>
vars == <<scene, rows, dialog, task, answer, trail>>

----------------------------------------------------------------------------
(* Lists: a query, the page it selects, and the queries of its buttons.    *)

All         == [by |-> "all"]
BySender(u) == [by |-> "sender", of |-> u]
ByName(n)   == [by |-> "name", of |-> n]
ByMedia(k)  == [by |-> "media", of |-> k]

First(f)  == [filter |-> f, limit |-> PageSize, offset |-> 0, last |-> FALSE]
Latest(f) == [First(f) EXCEPT !.limit = 1, !.last = TRUE]

Matches(w, f) ==
    \/ f.by = "all"
    \/ f.by = "sender" /\ Sender[w] = f.of
    \/ f.by = "name" /\ named[Sender[w]] = f.of
    \/ f.by = "media" /\ Media[w] = f.of

Present == {w \in Whispers : created[w] # 0}

Matching(f) == {w \in Present : Matches(w, f)}

\* The place of a whisper in a list, ORDER BY created_at DESC, id DESC.
Place(w, list) == Cardinality({v \in list : created[w] <= created[v]})

\* LIMIT OFFSET.
Page(q) ==
    LET list == Matching(q.filter)
    IN  {w \in list : Place(w, list) \in (q.offset + 1)..(q.offset + q.limit)}

Newest(items) == CHOOSE w \in items : Place(w, items) = 1

\* ownerListNavigationQuery: the sender whom the name was found to mean.
\* Variant: the name is kept, which no button can carry.
NavigationByName(q, items) == q

Navigation(q, items) ==
    IF q.filter.by = "name" /\ items # {}
    THEN [q EXCEPT !.filter = BySender(Sender[Newest(items)])] ELSE q

\* What encodeOwnerState and parseOwnerState leave of a query.
Encoded(q) ==
    [q EXCEPT !.last = FALSE, !.filter = IF q.filter.by = "name" THEN All ELSE q.filter]

\* Variant: the page is taken for the last although it is full.
HasNextBeyond(q, items) == ~q.last /\ Cardinality(items) > q.limit

HasNext(q, items) == ~q.last /\ Cardinality(items) = q.limit

Onward(q) == Encoded([q EXCEPT !.offset = q.offset + q.limit])
Back(q)   == Encoded([q EXCEPT !.offset = IF q.offset > q.limit THEN q.offset - q.limit ELSE 0])

----------------------------------------------------------------------------
(* What is shown, and what its buttons ask for.                            *)

Blank        == [shows |-> "nothing"]
List(q, items) == [shows |-> "list", query |-> q, buttons |-> Navigation(q, items), items |-> items]
Detail(w, q)   == [shows |-> "detail", whisper |-> w, query |-> q]
Confirm(w, q)  == [shows |-> "confirm", whisper |-> w, query |-> q]
Deleted(w)     == [shows |-> "deleted", whisper |-> w]

Request(do, w, q) == [do |-> do, whisper |-> w, query |-> q]

Buttons(s) ==
    IF s.shows = "list" THEN
        LET q == s.buttons
        IN  {Request("item", w, Encoded(q)) : w \in s.items}
            \union {Request("page", None, Back(q)) : x \in {y \in {1} : ~q.last /\ q.offset > 0}}
            \union {Request("page", None, Onward(q)) : x \in {y \in {1} : HasNext(q, s.items)}}
            \union {Request("page", None, First(f)) : f \in {All} \union {ByMedia(k) : k \in Kinds}}
    ELSE IF s.shows = "detail" THEN
        {Request("open", s.whisper, s.query), Request("confirm", s.whisper, s.query),
         Request("retain", s.whisper, s.query), Request("page", None, s.query)}
    ELSE IF s.shows = "confirm" THEN
        {Request("delete", s.whisper, s.query), Request("item", s.whisper, s.query)}
    ELSE IF s.shows = "deleted" THEN {Request("page", None, First(All))}
    ELSE {}

----------------------------------------------------------------------------
NoTask == [ask |-> Request("nothing", None, First(All)), pressed |-> FALSE,
           pc |-> "idle", attempts |-> 0, calls |-> <<>>]
NoWalk == [start |-> {}, filter |-> All, seen |-> {}, passed |-> {}, next |-> Latest(All), over |-> TRUE]

\* A scene is what may happen: the transport, the number of updates, the owner's
\* commands, the kinds of buttons he presses, the faults, the whispers that
\* arrive and those whose retention ends, and the names senders change to.
Init ==
    /\ scene \in Scenes
    /\ created = Stored /\ newest = Cardinality(Whispers)
    /\ named = FirstNames
    /\ due = {}
    /\ screen = Blank
    /\ walk = NoWalk
    /\ task = [u \in Updates |-> NoTask]
    /\ answer = [u \in Updates |-> "none"]
    /\ retrieved = [w \in Whispers |-> 0]
    /\ deleted = [w \in Whispers |-> 0]
    /\ sent = [w \in Whispers |-> 0]
    /\ removed = [w \in Whispers |-> "nobody"]

At(u, pc) == task[u].pc = pc
Active(u) == task[u].pc \in {"reading", "fetching", "calling"}
Settled(u) == task[u].pc \in {"done", "dropped"}

----------------------------------------------------------------------------
(* The owner, and the rest of the program.                                 *)

\* The owner sends a command or presses a button that he sees.
Ask(u) ==
    /\ u <= scene.updates
    /\ At(u, "idle") /\ (u > 1 => ~At(u - 1, "idle"))
    /\ \E pressed \in BOOLEAN : \E a \in IF pressed THEN {b \in Buttons(screen) : b.do \in scene.presses} ELSE scene.commands :
           task' = [task EXCEPT ![u] = [NoTask EXCEPT !.ask = a, !.pressed = pressed, !.pc = "queued"]]
    /\ UNCHANGED <<scene, rows, dialog, answer, trail>>

Arrive(w) ==
    /\ w \in scene.arriving
    /\ w \notin Present /\ removed[w] = "nobody"
    /\ newest' = newest + 1
    /\ created' = [created EXCEPT ![w] = newest']
    /\ UNCHANGED <<scene, named, due, dialog, task, answer, trail>>

\* A sender is observed under another name, which another may have in the rows.
Rename(x, n) ==
    /\ n \in scene.names /\ n # named[x]
    /\ named' = [named EXCEPT ![x] = n]
    /\ UNCHANGED <<scene, created, newest, due, dialog, task, answer, trail>>

RetentionEnds(w) ==
    /\ w \in scene.ageing
    /\ w \in Present \ due
    /\ due' = due \union {w}
    /\ UNCHANGED <<scene, created, newest, named, dialog, task, answer, trail>>

RemoveRow(w, by) ==
    /\ created' = [created EXCEPT ![w] = 0]
    /\ due' = due \ {w}
    /\ removed' = [removed EXCEPT ![w] = by]

Sweep(w) ==
    /\ w \in due
    /\ RemoveRow(w, "cleanup")
    /\ UNCHANGED <<scene, newest, named, dialog, task, answer, retrieved, deleted, sent>>

----------------------------------------------------------------------------
(* Handlers. Transactions first, then requests to Telegram, in order.      *)

\* Polling handles one update after the other, the webhook any.
Start(u) ==
    /\ At(u, "queued")
    /\ scene.transport = "polling" => \A v \in 1..(u - 1) : Settled(v)
    /\ task' = [task EXCEPT ![u].pc = "reading", ![u].attempts = @ + 1, ![u].calls = <<>>]
    /\ UNCHANGED <<scene, rows, dialog, answer, trail>>

\* The handler returns an error: the update comes again, up to the limit.
Failed(u) ==
    task' = [task EXCEPT ![u].pc = IF task[u].attempts < MaxAttempts THEN "queued" ELSE "dropped",
                         ![u].calls = <<>>]

Then(u, calls) ==
    task' = [task EXCEPT ![u].pc = IF calls = <<>> THEN "done" ELSE "calling", ![u].calls = calls]

NoCut          == [all |-> {}, passed |-> {}]
Show(s)        == [to |-> "show", screen |-> s, cut |-> NoCut]
ShowList(s, c) == [to |-> "show", screen |-> s, cut |-> c]
Content(w)     == [to |-> "content", whisper |-> w]
Answer(text)   == [to |-> "answer", text |-> text]
Note(text)     == [to |-> "note", text |-> text]   \* its failure is only logged

\* A press is answered after what it asked for.
Replies(u, call, text) == IF task[u].pressed THEN <<call, Answer(text)>> ELSE <<call>>

\* History: what a list was cut from, and what lies before its end there.
Cut(q) ==
    LET list == Matching(q.filter)
    IN  [all |-> list, passed |-> {w \in list : Place(w, list) <= q.offset + q.limit}]

\* OwnerListDetails.
ReadList(u) ==
    /\ At(u, "reading") /\ task[u].ask.do = "page"
    /\ LET q == task[u].ask.query
       IN  Then(u, Replies(u, ShowList(List(q, Page(q)), Cut(q)), "updated"))
    /\ UNCHANGED <<scene, rows, dialog, answer, trail>>

Missing(u) == task[u].ask.whisper \notin Present

\* OwnerMetadata. A row that is gone is answered, and the update is done with.
ReadItem(u) ==
    /\ At(u, "reading") /\ task[u].ask.do = "item"
    /\ Then(u, IF Missing(u) THEN <<Answer("missing")>>
               ELSE Replies(u, Show(Detail(task[u].ask.whisper, task[u].ask.query)), "expanded"))
    /\ UNCHANGED <<scene, rows, dialog, answer, trail>>

AskToConfirm(u) ==
    /\ At(u, "reading") /\ task[u].ask.do = "confirm"
    /\ Then(u, Replies(u, Show(Confirm(task[u].ask.whisper, task[u].ask.query)), "confirm"))
    /\ UNCHANGED <<scene, rows, dialog, answer, trail>>

\* OwnerReview: two transactions. The reply that the row is gone is not an error
\* to the callback, which goes on to say that the content was sent.
Unavailable(u) == Then(u, Replies(u, Answer("missing"), "sent"))

ReadForReview(u) ==
    /\ At(u, "reading") /\ task[u].ask.do = "open"
    /\ IF Missing(u) THEN Unavailable(u) ELSE task' = [task EXCEPT ![u].pc = "fetching"]
    /\ UNCHANGED <<scene, rows, dialog, answer, trail>>

\* OwnerFetchEncryptedContent commits its audit before the content is returned.
\* Variant: only a content that can still be read again is audited.
AuditRetrievalOnce(w) == retrieved' = [retrieved EXCEPT ![w] = 1]

AuditRetrieval(w) == retrieved' = [retrieved EXCEPT ![w] = @ + 1]

FetchContent(u) ==
    /\ At(u, "fetching")
    /\ IF Missing(u) THEN Unavailable(u) /\ UNCHANGED retrieved
       ELSE /\ AuditRetrieval(task[u].ask.whisper)
            /\ Then(u, Replies(u, Content(task[u].ask.whisper), "sent"))
    /\ UNCHANGED <<scene, rows, dialog, answer, deleted, sent, removed>>

\* OwnerDeleteWhisper: the audit and the deletion, under the lock of the row.
\* Variant: nobody asks whether there was a row.
DeleteBlindly(u) ==
    /\ At(u, "reading") /\ task[u].ask.do = "delete"
    /\ LET w == task[u].ask.whisper
       IN  /\ IF Missing(u) THEN UNCHANGED <<created, due, removed>> ELSE RemoveRow(w, "owner")
           /\ deleted' = [deleted EXCEPT ![w] = @ + 1]
           /\ Then(u, IF task[u].pressed THEN <<Show(Deleted(w)), Answer("deleted")>> ELSE <<Note("deleted")>>)
    /\ UNCHANGED <<scene, newest, named, dialog, answer, retrieved, sent>>

Delete(u) ==
    /\ At(u, "reading") /\ task[u].ask.do = "delete"
    /\ IF Missing(u) THEN Then(u, <<Answer("missing")>>) /\ UNCHANGED <<created, due, removed, deleted>>
       ELSE LET w == task[u].ask.whisper
            IN  /\ RemoveRow(w, "owner")
                /\ deleted' = [deleted EXCEPT ![w] = @ + 1]
                /\ Then(u, IF task[u].pressed THEN <<Show(Deleted(w)), Answer("deleted")>>
                           ELSE <<Note("deleted")>>)
    /\ UNCHANGED <<scene, newest, named, dialog, answer, retrieved, sent>>

\* OwnerUpdateRetention: a deadline that lies in the future again.
Retain(u) ==
    /\ At(u, "reading") /\ task[u].ask.do = "retain"
    /\ IF Missing(u) THEN Then(u, <<Answer("missing")>>) /\ UNCHANGED due
       ELSE /\ due' = due \ {task[u].ask.whisper}
            /\ Then(u, IF task[u].pressed THEN <<Answer("extended")>> ELSE <<Note("extended")>>)
    /\ UNCHANGED <<scene, created, newest, named, dialog, answer, trail>>

\* A transaction fails. The callback still answers, if it can.
DatabaseFails(u) ==
    /\ "database" \in scene.faults
    /\ task[u].pc \in {"reading", "fetching"} /\ task[u].ask.do # "confirm"
    /\ answer' \in {answer} \union (IF task[u].pressed THEN {[answer EXCEPT ![u] = "failed"]} ELSE {})
    /\ Failed(u)
    /\ UNCHANGED <<scene, rows, dialog, trail>>

HandlerLost(u) ==
    /\ "crash" \in scene.faults
    /\ Active(u)
    /\ Failed(u)
    /\ UNCHANGED <<scene, rows, dialog, answer, trail>>

----------------------------------------------------------------------------
(* Requests to Telegram.                                                   *)

\* The walk so far, when a list is shown: a first page begins one, the page
\* behind its Next button goes on with it, other pages leave it as it is.
Walked(s, cut) ==
    LET more == HasNext(s.buttons, s.items)
        next == IF more THEN Onward(s.buttons) ELSE Latest(All)
    IN  IF s.query.offset = 0 /\ ~s.query.last
        THEN [start |-> cut.all, filter |-> s.query.filter, seen |-> s.items, passed |-> cut.passed,
              next |-> next, over |-> ~more]
        ELSE IF ~walk.over /\ s.query = walk.next
        THEN [start |-> walk.start, filter |-> walk.filter, seen |-> walk.seen \union s.items,
              passed |-> walk.passed \union cut.passed, next |-> next, over |-> ~more]
        ELSE walk

Takes(u, c) ==
    /\ screen' = IF c.to = "show" THEN c.screen ELSE screen
    /\ walk' = IF c.to = "show" /\ c.screen.shows = "list" THEN Walked(c.screen, c.cut) ELSE walk
    /\ sent' = IF c.to = "content" THEN [sent EXCEPT ![c.whisper] = @ + 1] ELSE sent
    /\ answer' = IF c.to \in {"answer", "note"} THEN [answer EXCEPT ![u] = c.text] ELSE answer

\* Telegram refuses an edit that changes nothing.
Unmodified(u, c) == c.to = "show" /\ task[u].pressed /\ c.screen = screen

Accepted(u) ==
    /\ At(u, "calling")
    /\ LET c == Head(task[u].calls)
       IN ~Unmodified(u, c) /\ Takes(u, c)
    /\ Then(u, Tail(task[u].calls))
    /\ UNCHANGED <<scene, rows, retrieved, deleted, removed>>

\* No reply: the request had its effect or had not.
Refused(u) ==
    /\ At(u, "calling")
    /\ LET c == Head(task[u].calls)
       IN  /\ "telegram" \in scene.faults \/ Unmodified(u, c)
           /\ \/ UNCHANGED <<dialog, sent, answer>>
              \/ ~Unmodified(u, c) /\ Takes(u, c)
           /\ IF c.to = "note" THEN Then(u, <<>>) ELSE Failed(u)
    /\ UNCHANGED <<scene, rows, retrieved, deleted, removed>>

Handle(u) ==
    \/ Start(u) \/ ReadList(u) \/ ReadItem(u) \/ AskToConfirm(u) \/ ReadForReview(u) \/ FetchContent(u)
    \/ Delete(u) \/ Retain(u) \/ DatabaseFails(u) \/ HandlerLost(u) \/ Accepted(u) \/ Refused(u)

Next ==
    \/ \E u \in Updates : Ask(u) \/ Handle(u)
    \/ \E w \in Whispers : Arrive(w) \/ RetentionEnds(w) \/ Sweep(w)
    \/ \E x \in Users, n \in Names : Rename(x, n)

Spec == Init /\ [][Next]_vars

----------------------------------------------------------------------------
TypeOK ==
    /\ scene \in Scenes
    /\ created \in [Whispers -> Nat] /\ newest \in Nat
    /\ \A v, w \in Present : created[w] <= newest /\ (created[v] = created[w] => v = w)
    /\ named \in [Users -> Names]
    /\ due \subseteq Present
    /\ DOMAIN task = Updates
    /\ \A u \in Updates :
          /\ task[u].pc \in {"idle", "queued", "reading", "fetching", "calling", "done", "dropped"}
          /\ task[u].attempts \in 0..MaxAttempts
          /\ At(u, "calling") <=> task[u].calls # <<>>
    /\ removed \in [Whispers -> {"nobody", "owner", "cleanup"}]
    /\ \A w \in Present : removed[w] = "nobody"
    /\ retrieved \in [Whispers -> Nat] /\ deleted \in [Whispers -> Nat] /\ sent \in [Whispers -> Nat]

\* An owner who goes on with Next until a page has no such button has seen
\* every whisper that matched when he began and is still there, and no other
\* sender's or kind's, whatever arrived, was renamed or failed meanwhile. Unless
\* a whisper was removed that lay before the end of a page when that was cut,
\* which moves the others up a page; also one that he never saw, since it had
\* arrived at the top of the list. Or unless the username he asked for was that of
\* two senders, of whom the pages after the first keep one (owner_browser.go:209-217,
\* 259-277). Two handlers at a time may show a page that was read earlier, so this
\* is about polling.
Shared(k) == k.filter.by = "name" /\ \E v, w \in k.start : Sender[v] # Sender[w]

CompleteWalk ==
    scene.transport = "polling" /\ ~Shared(walk) =>
        /\ walk.over => walk.start \intersect Present \subseteq walk.seen \/ ~(walk.passed \subseteq Present)
        /\ walk.filter.by = "name" => \A v, w \in walk.seen : Sender[v] = Sender[w]
        /\ walk.filter.by = "media" => \A w \in walk.seen : Media[w] = walk.filter.of

\* docs/architecture.md:144: the audit knows of every content that reached the
\* owner, each time it did, and of each deletion once, also when a handler dies,
\* an update is handled again or the whisper is gone when he asks.
TrailIsComplete ==
    \A w \in Whispers :
        /\ sent[w] <= retrieved[w]
        /\ deleted[w] = IF removed[w] = "owner" THEN 1 ELSE 0

\* What the owner reads about a whisper is so: a whisper he is told he deleted
\* was deleted by him and not by retention, one that is no longer available is
\* not there, then and later, and "Content sent privately." follows a content that
\* was sent, or the message that there is none (owner_browser.go:584-603).
RepliesAreTrue ==
    /\ \A u \in Updates :
          LET w == task[u].ask.whisper
          IN  /\ answer[u] = "deleted" => removed[w] = "owner"
              /\ answer[u] = "missing" => w \notin Present
              /\ answer[u] = "sent" => w \notin Present \/ sent[w] > 0
    /\ screen.shows = "deleted" => removed[screen.whisper] = "owner"
=============================================================================
