------------------------------ MODULE Process ------------------------------
(***************************************************************************)
(* The life of one process of the bot (cmd/bot/main.go): it starts step by *)
(* step, runs an HTTP server and a few loops, and ends because of a signal *)
(* or because a runner ended.  What a loop or a webhook request does to an *)
(* update or a job is the subject of the other modules; here it is a call  *)
(* to Telegram and, after it, a record in the database.                    *)
(***************************************************************************)
EXTENDS Naturals, Sequences, FiniteSets

CONSTANTS
    Server,      \* the goroutine in server.Serve
    Workers,     \* the loops of cleanup, deletion and publication
    Poller,      \* the polling loop
    Requests,    \* updates that Telegram posts to the webhook
    Modes,       \* the values TELEGRAM_UPDATE_MODE has at a start
    MaxSignals,  \* bound: signals sent to one process
    MaxStarts    \* bound: starts, the first one and restarts

ASSUME ProcessAssumption ==
    /\ Server \notin Workers /\ Poller \notin Workers /\ Server # Poller
    /\ (Workers \union {Server, Poller}) \intersect Requests = {}
    /\ IsFiniteSet(Workers)
    /\ Modes \subseteq {"polling", "webhook"}
    /\ MaxSignals \in Nat /\ MaxStarts \in Nat \ {0}

VARIABLES
    starts,        \* starts so far
    mode,          \* TELEGRAM_UPDATE_MODE
    stage,         \* where the main goroutine is
    signals,       \* signals this process has received
    notice,        \* a signal waits in the channel of signal.NotifyContext
    forceExit,     \* a signal waits in the channel forceExit
    watcher,       \* what the goroutine of main waits for: "ctx", "signal"
    parentDone,    \* the context of NotifyContext is cancelled
    runDone,       \* runCtx is cancelled
    runErr,        \* what run returns: "nil", "runner", "shutdown"
    listener,      \* "closed", "bound", "shut"
    database,      \* the connection pool: "closed", "open"
    runner,        \* per runner: where its goroutine is
    results,       \* the channel results, a queue of runners
    webhook,       \* Telegram has a webhook registered
    request,       \* per update of Telegram: how far this process got with it
    exit,          \* how the process ended: "none", an exit code, "killed"
    unasked,       \* history: a runner returned before it was told to
    abandoned      \* history: what was in flight when the process ended

signalling == <<signals, notice, forceExit, watcher, parentDone>>
shared     == <<listener, database, webhook>>
running    == <<runner, results, request>>
ending     == <<runDone, runErr>>
history    == <<unasked, abandoned>>
vars == <<starts, mode, stage, signalling, shared, running, ending, exit, history>>

Loops       == Workers \union {Poller}
Runners     == Loops \union {Server}
RunnersList == Workers \union {Server} \union (IF mode = "polling" THEN {Poller} ELSE {})

\* The steps of run up to the launch of the runners and what follows each, and
\* those that use the network under a context derived from the parent.
After == [config |-> "open", open |-> "migrate", migrate |-> "identify",
          identify |-> "commands", commands |-> "listen", listen |-> "transport",
          transport |-> "launch", launch |-> "select"]

Starting == DOMAIN After
Remote   == {"open", "migrate", "identify", "commands", "transport"}
Stages   == Starting \union {"select", "shutdown", "drain", "wait", "return", "ended"}

\* make(chan runnerResult, len(runnersList))
ResultsCapacityOne == 1

ResultsCapacity == Cardinality(RunnersList)

\* runCtx is derived from the parent and ends with it.
RunCancelled == runDone \/ parentDone

InFlight(q)    == request[q] \in {"handling", "recording"}
Working(r)     == runner[r] \in {"calling", "recording"}
Alive          == exit = "none"
Unfinished     == {q \in Requests : InFlight(q)} \union {r \in Loops : Working(r)}

----------------------------------------------------------------------------
Init ==
    /\ starts = 1
    /\ mode \in Modes
    /\ stage = "config"
    /\ signals = 0
    /\ notice = FALSE /\ forceExit = FALSE /\ parentDone = FALSE
    /\ watcher = "ctx"
    /\ runDone = FALSE
    /\ runErr = "nil"
    /\ listener = "closed"
    /\ database = "closed"
    /\ runner = [r \in Runners |-> "off"]
    /\ results = <<>>
    /\ webhook \in BOOLEAN
    /\ request = [q \in Requests |-> "new"]
    /\ exit = "none"
    /\ unasked = FALSE
    /\ abandoned = {}

\* The process ends. Nothing in it runs on; Telegram sees its connections break.
Exit(code) ==
    /\ exit' = code
    /\ stage' = "ended"
    /\ abandoned' = Unfinished
    /\ request' = [q \in Requests |-> IF InFlight(q) THEN "cut" ELSE request[q]]
    /\ runner' = [r \in Runners |-> "off"]
    /\ results' = <<>>
    /\ listener' = "closed"
    /\ database' = "closed"
    /\ UNCHANGED unasked

----------------------------------------------------------------------------
(* Startup.                                                                *)

\* configureTelegramTransport. Here a variant that leaves a webhook in place.
TransportWebhookOnly == webhook \/ mode = "webhook"

Transport == mode = "webhook"

StartupStep ==
    /\ stage \in Starting
    /\ stage \in Remote => ~parentDone
    /\ stage' = After[stage]
    /\ database' = IF stage = "open" THEN "open" ELSE database
    /\ listener' = IF stage = "listen" THEN "bound" ELSE listener
    /\ webhook' = IF stage = "transport" THEN Transport ELSE webhook
    /\ runner' = IF stage = "launch"
                 THEN [r \in Runners |-> IF r \in RunnersList THEN "loop" ELSE "off"]
                 ELSE runner
    /\ UNCHANGED <<starts, mode, signalling, results, request, ending, exit, history>>

\* Any step of the startup may fail, and the deferred calls close what is
\* open. A failed request to Telegram may have had its effect.
StartupFails ==
    /\ stage \in Starting
    /\ Exit("failed")
    /\ webhook' \in {webhook} \union (IF stage = "transport" THEN {Transport} ELSE {})
    /\ UNCHANGED <<starts, mode, signalling, ending>>

----------------------------------------------------------------------------
(* Signals.                                                                *)

\* Both channels are registered for the same signals and each gets a copy of
\* each signal; neither holds more than one.
Signal ==
    /\ Alive
    /\ signals < MaxSignals
    /\ signals' = signals + 1
    /\ notice' = TRUE
    /\ forceExit' = TRUE
    /\ UNCHANGED <<starts, mode, stage, watcher, parentDone, shared, running, ending, exit, history>>

CancelParent ==
    /\ Alive
    /\ notice
    /\ notice' = FALSE
    /\ parentDone' = TRUE
    /\ UNCHANGED <<starts, mode, stage, signals, forceExit, watcher, shared, running, ending, exit, history>>

WatcherWakes ==
    /\ Alive
    /\ watcher = "ctx"
    /\ parentDone
    /\ watcher' = "signal"
    /\ UNCHANGED <<starts, mode, stage, signals, notice, forceExit, parentDone, shared, running, ending, exit, history>>

\* os.Exit(130).
ForcedExit ==
    /\ Alive
    /\ watcher = "signal"
    /\ forceExit
    /\ Exit("forced")
    /\ UNCHANGED <<starts, mode, signalling, webhook, ending>>

----------------------------------------------------------------------------
(* The runners.                                                            *)

\* A loop claims work. Every claim runs under runCtx.
Begin(r) ==
    /\ runner[r] = "loop"
    /\ ~RunCancelled
    /\ runner' = [runner EXCEPT ![r] = "calling"]
    /\ UNCHANGED <<starts, mode, stage, signalling, shared, results, request, ending, exit, history>>

\* Its requests to Telegram come back, or are cancelled with runCtx. What they
\* did is recorded under a context detached from it.
CallReturns(r) ==
    /\ runner[r] = "calling"
    /\ runner' = [runner EXCEPT ![r] = "recording"]
    /\ UNCHANGED <<starts, mode, stage, signalling, shared, results, request, ending, exit, history>>

Record(r) ==
    /\ runner[r] = "recording"
    /\ runner' = [runner EXCEPT ![r] = "loop"]
    /\ UNCHANGED <<starts, mode, stage, signalling, shared, results, request, ending, exit, history>>

\* A loop returns when runCtx is cancelled; Serve when the listener is shut
\* down, or because accepting failed.
Told(r) == IF r = Server THEN listener = "shut" ELSE RunCancelled

Return(r) ==
    /\ runner[r] = "loop"
    /\ Told(r) \/ r = Server
    /\ runner' = [runner EXCEPT ![r] = "returned"]
    /\ unasked' = (unasked \/ ~(Told(r) \/ RunCancelled))
    /\ UNCHANGED <<starts, mode, stage, signalling, shared, results, request, ending, exit, abandoned>>

\* results <- runnerResult, then runners.Done. The send blocks on a full channel.
Report(r) ==
    /\ runner[r] = "returned"
    /\ Len(results) < ResultsCapacity
    /\ results' = Append(results, r)
    /\ runner' = [runner EXCEPT ![r] = "done"]
    /\ UNCHANGED <<starts, mode, stage, signalling, shared, request, ending, exit, history>>

\* webhookHandler: an update that passes its checks is given to Process.
Receive(q) ==
    /\ mode = "webhook" /\ webhook
    /\ runner[Server] = "loop"
    /\ listener = "bound"
    /\ request[q] \in {"new", "refused", "cut"}
    /\ request' = [request EXCEPT ![q] = "handling"]
    /\ UNCHANGED <<starts, mode, stage, signalling, shared, runner, results, ending, exit, history>>

\* Its handler runs under the context of the request, which runCtx does not cancel.
Handled(q) ==
    /\ request[q] = "handling"
    /\ request' = [request EXCEPT ![q] = "recording"]
    /\ UNCHANGED <<starts, mode, stage, signalling, shared, runner, results, ending, exit, history>>

\* The update is completed in the database and answered with 204, or with 500.
Respond(q) ==
    /\ request[q] = "recording"
    /\ \/ database = "open" /\ request' = [request EXCEPT ![q] = "acknowledged"]
       \/ request' = [request EXCEPT ![q] = "refused"]
    /\ UNCHANGED <<starts, mode, stage, signalling, shared, runner, results, ending, exit, history>>

----------------------------------------------------------------------------
(* The end.                                                                *)

\* The select of run: the parent's end or the first result, whichever it
\* takes. A result that comes after the parent's end is not an error.
ResultIsError == ~parentDone

Select ==
    /\ stage = "select"
    /\ \/ parentDone /\ UNCHANGED <<runErr, results>>
       \/ /\ results # <<>>
          /\ results' = Tail(results)
          /\ runErr' = IF ResultIsError THEN "runner" ELSE runErr
    /\ runDone' = TRUE
    /\ stage' = "shutdown"
    /\ UNCHANGED <<starts, mode, signalling, shared, runner, request, exit, history>>

\* server.Shutdown closes the listener and waits for the requests ...
Shutdown ==
    /\ stage = "shutdown"
    /\ listener' = "shut"
    /\ stage' = "drain"
    /\ UNCHANGED <<starts, mode, signalling, database, webhook, running, ending, exit, history>>

Drained ==
    /\ stage = "drain"
    /\ \A q \in Requests : ~InFlight(q)
    /\ stage' = "wait"
    /\ UNCHANGED <<starts, mode, signalling, shared, running, ending, exit, history>>

\* ... no longer than HTTP_SHUTDOWN_TIMEOUT. Handlers that are late run on.
DrainTimedOutSilently ==
    /\ stage = "drain"
    /\ \E q \in Requests : InFlight(q)
    /\ stage' = "wait"
    /\ UNCHANGED <<starts, mode, signalling, shared, running, ending, exit, history>>

DrainTimedOut ==
    /\ stage = "drain"
    /\ \E q \in Requests : InFlight(q)
    /\ runErr' = IF runErr = "nil" THEN "shutdown" ELSE runErr
    /\ stage' = "wait"
    /\ UNCHANGED <<starts, mode, signalling, shared, running, runDone, exit, history>>

\* runners.Wait, and the deferred calls of run.
CloseWithoutWaiting ==
    /\ stage = "wait"
    /\ database' = "closed"
    /\ listener' = "closed"
    /\ stage' = "return"
    /\ UNCHANGED <<starts, mode, signalling, webhook, running, ending, exit, history>>

Close ==
    /\ stage = "wait"
    /\ \A r \in Runners : runner[r] \in {"off", "done"}
    /\ database' = "closed"
    /\ listener' = "closed"
    /\ stage' = "return"
    /\ UNCHANGED <<starts, mode, signalling, webhook, running, ending, exit, history>>

MainReturns ==
    /\ stage = "return"
    /\ Exit(IF runErr = "nil" THEN "ok" ELSE "failed")
    /\ UNCHANGED <<starts, mode, signalling, webhook, ending>>

\* The kernel, or a panic in a goroutine of the bot, ends the process.
Killed ==
    /\ Alive
    /\ Exit("killed")
    /\ UNCHANGED <<starts, mode, signalling, webhook, ending>>

\* A new process, by the restart policy or by an operator who may have changed
\* the mode.
Start ==
    /\ ~Alive
    /\ starts < MaxStarts
    /\ starts' = starts + 1
    /\ mode' \in Modes
    /\ stage' = "config"
    /\ signals' = 0
    /\ notice' = FALSE /\ forceExit' = FALSE /\ parentDone' = FALSE
    /\ watcher' = "ctx"
    /\ runDone' = FALSE
    /\ runErr' = "nil"
    /\ exit' = "none"
    /\ unasked' = FALSE
    /\ abandoned' = {}
    /\ UNCHANGED <<shared, running>>

----------------------------------------------------------------------------
Main == StartupStep \/ StartupFails \/ Select \/ Shutdown \/ Drained \/ DrainTimedOut \/ Close \/ MainReturns

Proceed(r) == CallReturns(r) \/ Record(r) \/ (Told(r) /\ Return(r)) \/ Report(r)

Next ==
    \/ Main
    \/ Signal \/ CancelParent \/ WatcherWakes \/ ForcedExit \/ Killed \/ Start
    \/ \E r \in Loops : Begin(r) \/ CallReturns(r) \/ Record(r)
    \/ \E r \in Runners : Return(r) \/ Report(r)
    \/ \E q \in Requests : Receive(q) \/ Handled(q) \/ Respond(q)

Spec == Init /\ [][Next]_vars

\* Goroutines that can run do so: the requests of a loop have timeouts, and so
\* has Shutdown. Nothing is owed by signals, webhook requests or the watcher.
Fairness ==
    /\ WF_vars(Main)
    /\ WF_vars(CancelParent)
    /\ \A r \in Runners : WF_vars(Proceed(r))

FairSpec == Spec /\ Fairness

----------------------------------------------------------------------------
TypeOK ==
    /\ starts \in 1..MaxStarts
    /\ mode \in Modes
    /\ stage \in Stages
    /\ signals \in 0..MaxSignals
    /\ notice \in BOOLEAN /\ forceExit \in BOOLEAN /\ parentDone \in BOOLEAN
    /\ watcher \in {"ctx", "signal"}
    /\ runDone \in BOOLEAN
    /\ runErr \in {"nil", "runner", "shutdown"}
    /\ listener \in {"closed", "bound", "shut"}
    /\ database \in {"closed", "open"}
    /\ runner \in [Runners -> {"off", "loop", "calling", "recording", "returned", "done"}]
    /\ results \in Seq(Runners)
    /\ webhook \in BOOLEAN
    /\ request \in [Requests -> {"new", "handling", "recording", "acknowledged", "refused", "cut"}]
    /\ exit \in {"none", "ok", "failed", "forced", "killed"}
    /\ unasked \in BOOLEAN
    /\ abandoned \subseteq Loops \union Requests

\* What a loop has begun it can record: while one is between its request to
\* Telegram and the record of it, the pool is open, also during a shutdown and
\* whatever ended first (workers.go:351, main.go:207 and 424).
WorkIsRecordable ==
    \A r \in Loops : Working(r) => database = "open"

\* The exit code tells what happened: 0 means that a signal asked for the end
\* and nothing was in flight, 1 that at most webhook requests were cut, whose
\* updates Telegram repeats. A runner is blamed only if one ended before it was
\* asked to, although a signal makes all of them end (main.go:407-427).
ExitTellsTheTruth ==
    /\ exit = "ok" => parentDone /\ abandoned = {}
    /\ exit = "failed" => abandoned \subseteq Requests
    /\ runErr = "runner" => unasked

\* As long as the loops run, updates come one way: the poller never runs while
\* a webhook is registered, and a process in webhook mode has one, whatever an
\* earlier process left behind (main.go:331 and 432-448).
TransportAgrees ==
    stage = "select" => webhook = (mode = "webhook")

\* A process that is asked to end, or one of whose runners has ended, does not
\* stay half alive: a runner that ends takes the others with it (main.go:407-424).
Ends ==
    (signals > 0 \/ \E r \in Runners : runner[r] = "returned") ~> ~Alive

=============================================================================
