--------------------------- MODULE ProcessProofs ---------------------------
(***************************************************************************)
(* Proofs about Process, for every set of workers and requests and any     *)
(* number of signals and starts.                                           *)
(***************************************************************************)
EXTENDS Process, FiniteSetTheorems, TLAPS

----------------------------------------------------------------------------
(* The invariant: what the stage of the main goroutine tells about the     *)
(* rest of the process.                                                    *)

Serving == {"select", "shutdown", "drain", "wait"}
Ending  == {"shutdown", "drain", "wait", "return"}

\* The pool is open from the step that opens it to the one that closes it.
PoolFollows ==
    stage \in {"migrate", "identify", "commands", "listen", "transport", "launch"} \union Serving
        => database = "open"

\* Goroutines of runners exist between the launch and the end of runners.Wait,
\* and what is in the channel was put there by one that is done.
RunnersFollow ==
    /\ stage \notin Serving \union {"return"} => \A r \in Runners : runner[r] = "off"
    /\ stage = "return" => \A r \in Runners : runner[r] \in {"off", "done"}
    /\ results # <<>> => \E r \in Runners : runner[r] = "done"

\* The listener is bound when the runners start, and shut before the handlers
\* are waited for.
ListenerFollows ==
    /\ stage \in {"transport", "launch", "select", "shutdown"} => listener = "bound"
    /\ stage \in {"drain", "wait", "return"} => listener # "bound"

\* Before run takes the end of a runner, or the signal, nobody was told to end
\* but by the signal.
BlameIsDue ==
    /\ stage \in Starting \union {"select"} => ~runDone /\ runErr = "nil"
    /\ stage = "select" /\ ~parentDone =>
          \A r \in Runners : runner[r] \in {"returned", "done"} => unasked
    /\ runErr = "runner" => unasked

\* Without an error the end was asked for, and the handlers were waited for.
SilenceIsClean ==
    runErr = "nil" =>
        /\ stage \in Ending => parentDone
        /\ stage \in {"wait", "return"} => \A q \in Requests : ~InFlight(q)

\* What an exit code says.
CodeIsTrue ==
    /\ exit = "none" <=> stage # "ended"
    /\ exit = "ok" => parentDone /\ abandoned = {}
    /\ exit = "failed" => abandoned \subseteq Requests

WebhookFollows ==
    stage \in {"launch", "select"} => webhook = (mode = "webhook")

\* All of it together, and with the types.
Follows ==
    /\ PoolFollows /\ RunnersFollow /\ ListenerFollows
    /\ BlameIsDue /\ SilenceIsClean /\ CodeIsTrue /\ WebhookFollows

ProcessInv == TypeOK /\ Follows

----------------------------------------------------------------------------
(* Types                                                                   *)

\* The steps of the startup, one by one.
LEMMA StartingIs ==
    Starting = {"config", "open", "migrate", "identify", "commands", "listen", "transport", "launch"}
  BY DEF Starting, After

\* A step of the startup leads to another one or to the wait for the end.
LEMMA AfterType ==
    ASSUME NEW s \in Starting
    PROVE  After[s] \in Stages
  BY DEF Starting, After, Stages

\* The initial state is well typed.
LEMMA TypeInit == Init => TypeOK
<1> SUFFICES ASSUME Init PROVE TypeOK
  OBVIOUS
<1>1. /\ notice \in BOOLEAN /\ forceExit \in BOOLEAN /\ parentDone \in BOOLEAN
      /\ runDone \in BOOLEAN /\ webhook \in BOOLEAN /\ unasked \in BOOLEAN
  BY DEF Init
<1>2. starts \in 1..MaxStarts /\ signals \in 0..MaxSignals
  BY ProcessAssumption DEF ProcessAssumption, Init
<1>3. stage \in Stages
  BY StartingIs DEF Init, Stages
<1> QED BY <1>1, <1>2, <1>3 DEF Init, TypeOK

\* Every step keeps the types.
LEMMA TypeStep == TypeOK /\ [Next]_vars => TypeOK'
<1> SUFFICES ASSUME TypeOK, [Next]_vars PROVE TypeOK'
  OBVIOUS
<1> USE ProcessAssumption, StartingIs DEF ProcessAssumption, TypeOK, signalling, shared, running, ending, history
<1>1. CASE StartupStep
  BY <1>1, AfterType DEF StartupStep, Transport, Stages, RunnersList, Runners, Loops
<1>2. CASE StartupFails
  <2>1. webhook' \in BOOLEAN
    BY <1>2 DEF StartupFails, Transport
  <2>2. abandoned' \subseteq Loops \union Requests
    BY <1>2 DEF StartupFails, Exit, Unfinished
  <2> QED BY <1>2, <2>1, <2>2 DEF StartupFails, Exit, Stages
<1>3. CASE Signal
  BY <1>3 DEF Signal, Stages
<1>4. CASE CancelParent
  <2>1. notice' \in BOOLEAN /\ parentDone' \in BOOLEAN
    BY <1>4 DEF CancelParent
  <2> QED BY <1>4, <2>1 DEF CancelParent
<1>5. CASE WatcherWakes
  BY <1>5 DEF WatcherWakes, Stages
<1>6. CASE ForcedExit
  BY <1>6 DEF ForcedExit, Exit, Unfinished, InFlight, Working, Stages, Runners, Loops
<1>7. CASE Killed
  BY <1>7 DEF Killed, Exit, Unfinished, InFlight, Working, Stages, Runners, Loops
<1>8. CASE Start
  <2>1. /\ notice' \in BOOLEAN /\ forceExit' \in BOOLEAN /\ parentDone' \in BOOLEAN
        /\ runDone' \in BOOLEAN /\ unasked' \in BOOLEAN
    BY <1>8 DEF Start
  <2>2. starts' \in 1..MaxStarts /\ signals' \in 0..MaxSignals
    BY <1>8 DEF Start
  <2> QED BY <1>8, <2>1, <2>2 DEF Start, Stages
<1>9. CASE Select
  BY <1>9 DEF Select, Stages
<1>10. CASE Shutdown
  BY <1>10 DEF Shutdown, Stages
<1>11. CASE Drained
  BY <1>11 DEF Drained, Stages
<1>12. CASE DrainTimedOut
  BY <1>12 DEF DrainTimedOut, Stages
<1>13. CASE Close
  BY <1>13 DEF Close, Stages
<1>14. CASE MainReturns
  BY <1>14 DEF MainReturns, Exit, Unfinished, InFlight, Working, Stages, Runners, Loops
<1>15. ASSUME NEW r \in Loops, CallReturns(r) PROVE TypeOK'
  BY <1>15 DEF CallReturns, Runners
<1>16. ASSUME NEW r \in Loops, Record(r) PROVE TypeOK'
  BY <1>16 DEF Record, Runners
<1>17. ASSUME NEW r \in Loops, Begin(r) PROVE TypeOK'
  BY <1>17 DEF Begin, Runners
<1>18. ASSUME NEW r \in Runners, Return(r) PROVE TypeOK'
  BY <1>18 DEF Return
<1>19. ASSUME NEW r \in Runners, Report(r) PROVE TypeOK'
  BY <1>19 DEF Report
<1>20. ASSUME NEW q \in Requests, Receive(q) PROVE TypeOK'
  BY <1>20 DEF Receive
<1>21. ASSUME NEW q \in Requests, Handled(q) PROVE TypeOK'
  BY <1>21 DEF Handled
<1>22. ASSUME NEW q \in Requests, Respond(q) PROVE TypeOK'
  BY <1>22 DEF Respond
<1>23. CASE UNCHANGED vars
  BY <1>23 DEF vars
<1> QED BY <1>1, <1>2, <1>3, <1>4, <1>5, <1>6, <1>7, <1>8, <1>9, <1>10, <1>11, <1>12, <1>13, <1>14, <1>15, <1>16, <1>17, <1>18, <1>19, <1>20, <1>21, <1>22, <1>23 DEF Next, Main

\* Type correctness of Process.
THEOREM TypeCorrect == Spec => []TypeOK
<1> QED BY TypeInit, TypeStep, PTL DEF Spec

----------------------------------------------------------------------------
(* The invariant is inductive                                              *)

\* The initial state satisfies the invariant.
LEMMA InvInit == Init => ProcessInv
<1>1. Init => Follows
  BY DEF Init, Follows, Serving, Ending, PoolFollows, RunnersFollow, ListenerFollows, BlameIsDue, SilenceIsClean, CodeIsTrue, WebhookFollows, InFlight
<1> QED BY <1>1, TypeInit DEF ProcessInv

\* Every step keeps it.
LEMMA FollowsStep == TypeOK /\ TypeOK' /\ Follows /\ [Next]_vars => Follows'
<1> SUFFICES ASSUME TypeOK, TypeOK', Follows, [Next]_vars PROVE Follows'
  OBVIOUS
<1> USE ProcessAssumption, StartingIs DEF ProcessAssumption, Follows, signalling, shared, running, ending, history, Serving, Ending, PoolFollows, RunnersFollow, ListenerFollows, BlameIsDue, SilenceIsClean, CodeIsTrue, WebhookFollows
<1>1. CASE StartupStep
  BY <1>1 DEF TypeOK, StartupStep, After, Transport, RunnersList, Runners, Loops, InFlight
<1>2. CASE StartupFails
  BY <1>2 DEF TypeOK, StartupFails, Exit, Unfinished, InFlight, Working, Loops, Runners, Alive
<1>3. CASE Signal
  BY <1>3 DEF TypeOK, Signal, InFlight
<1>4. CASE CancelParent
  BY <1>4 DEF TypeOK, CancelParent, InFlight
<1>5. CASE WatcherWakes
  BY <1>5 DEF TypeOK, WatcherWakes, InFlight
<1>6. CASE ForcedExit
  BY <1>6 DEF TypeOK, ForcedExit, Exit, Unfinished, InFlight, Working, Loops, Runners, Alive
<1>7. CASE Killed
  BY <1>7 DEF TypeOK, Killed, Exit, Unfinished, InFlight, Working, Loops, Runners, Alive
<1>8. CASE Start
  BY <1>8 DEF TypeOK, Start, Alive, InFlight
<1>9. CASE Select
  BY <1>9 DEF TypeOK, Select, InFlight, ResultIsError
<1>10. CASE Shutdown
  BY <1>10 DEF TypeOK, Shutdown, InFlight
<1>11. CASE Drained
  BY <1>11 DEF TypeOK, Drained, InFlight
<1>12. CASE DrainTimedOut
  BY <1>12 DEF TypeOK, DrainTimedOut, InFlight
<1>13. CASE Close
  BY <1>13 DEF TypeOK, Close, InFlight
<1>14. CASE MainReturns
  BY <1>14 DEF TypeOK, MainReturns, Exit, Unfinished, InFlight, Working, Loops, Runners, Alive
<1>15. ASSUME NEW r \in Loops, CallReturns(r) PROVE Follows'
  BY <1>15 DEF TypeOK, CallReturns, Runners, InFlight
<1>16. ASSUME NEW r \in Loops, Record(r) PROVE Follows'
  BY <1>16 DEF TypeOK, Record, Runners, InFlight
<1>17. ASSUME NEW r \in Loops, Begin(r) PROVE Follows'
  BY <1>17 DEF TypeOK, Begin, Runners, InFlight
<1>18. ASSUME NEW r \in Runners, Return(r) PROVE Follows'
  BY <1>18 DEF TypeOK, Return, Told, RunCancelled, InFlight
<1>19. ASSUME NEW r \in Runners, Report(r) PROVE Follows'
  BY <1>19 DEF TypeOK, Report, Told, RunCancelled, InFlight
<1>20. ASSUME NEW q \in Requests, Receive(q) PROVE Follows'
  BY <1>20 DEF TypeOK, Receive, InFlight
<1>21. ASSUME NEW q \in Requests, Handled(q) PROVE Follows'
  BY <1>21 DEF TypeOK, Handled, InFlight
<1>22. ASSUME NEW q \in Requests, Respond(q) PROVE Follows'
  BY <1>22 DEF TypeOK, Respond, InFlight
<1>23. CASE UNCHANGED vars
  BY <1>23 DEF vars, InFlight
<1> QED BY <1>1, <1>2, <1>3, <1>4, <1>5, <1>6, <1>7, <1>8, <1>9, <1>10, <1>11, <1>12, <1>13, <1>14, <1>15, <1>16, <1>17, <1>18, <1>19, <1>20, <1>21, <1>22, <1>23 DEF Next, Main

\* The invariant holds in every reachable state: the stage of run (main.go:184-430)
\* tells what is open, what runs, and what there is to blame.
THEOREM Inductive == Spec => []ProcessInv
<1>1. ProcessInv /\ [Next]_vars => ProcessInv'
  BY TypeStep, FollowsStep DEF ProcessInv
<1> QED BY InvInit, <1>1, PTL DEF Spec

----------------------------------------------------------------------------
(* What it gives                                                           *)

\* Whatever ends the process short of a crash, the pool is closed only when no
\* worker and no poller is between a request to Telegram and its record.
THEOREM Recordable == Spec => []WorkIsRecordable
<1>1. ProcessInv => WorkIsRecordable
  <2> SUFFICES ASSUME ProcessInv, NEW r \in Loops, Working(r) PROVE database = "open"
    BY DEF WorkIsRecordable
  <2>1. r \in Runners /\ runner[r] \notin {"off", "done"}
    BY DEF Working, Runners
  <2>2. stage \in Serving
    BY <2>1 DEF ProcessInv, Follows, RunnersFollow
  <2> QED BY <2>2 DEF ProcessInv, Follows, PoolFollows
<1> QED BY Inductive, <1>1, PTL

\* The exit code of the process and the error of run are true, for any number of
\* runners, signals and webhook requests.
THEOREM Truthful == Spec => []ExitTellsTheTruth
<1>1. ProcessInv => ExitTellsTheTruth
  BY DEF ProcessInv, Follows, CodeIsTrue, BlameIsDue, ExitTellsTheTruth
<1> QED BY Inductive, <1>1, PTL

\* While the runners run, Telegram's registration agrees with the update mode.
THEOREM Transported == Spec => []TransportAgrees
<1>1. ProcessInv => TransportAgrees
  BY DEF ProcessInv, Follows, WebhookFollows, TransportAgrees
<1> QED BY Inductive, <1>1, PTL

----------------------------------------------------------------------------
(* The channel results is never full                                       *)

\* Only the runners of this process run, each reports once and then is done.
ReportsOnce ==
    /\ \A r \in Runners : runner[r] # "off" => r \in RunnersList
    /\ \A i \in 1..Len(results) : runner[results[i]] = "done"
    /\ \A i, j \in 1..Len(results) : results[i] = results[j] => i = j

\* A runner that has ended finds a place in the channel for its result, although
\* run takes at most one out (main.go:394-402): no goroutine of a runner is left
\* behind, and runners.Wait is not held up by one.
NoReportBlocks ==
    \A r \in Runners : runner[r] = "returned" => Len(results) < ResultsCapacity

\* Every step keeps the reports apart.
LEMMA ReportsStep == TypeOK /\ Follows /\ ReportsOnce /\ [Next]_vars => ReportsOnce'
<1> SUFFICES ASSUME TypeOK, Follows, ReportsOnce, [Next]_vars PROVE ReportsOnce'
  OBVIOUS
<1> USE StartingIs DEF signalling, shared, running, ending, history
<1>1. CASE StartupStep
  <2>1. results = <<>>
    BY <1>1 DEF StartupStep, Follows, RunnersFollow, Serving
  <2>2. results' = <<>> /\ mode' = mode
    BY <1>1, <2>1 DEF StartupStep
  <2>3. ASSUME NEW r \in Runners, runner'[r] # "off" PROVE r \in RunnersList
    BY <1>1, <2>3 DEF StartupStep, ReportsOnce, TypeOK
  <2> QED BY <2>2, <2>3 DEF ReportsOnce, RunnersList
<1>2. ASSUME runner' = [r \in Runners |-> "off"], results' = <<>> PROVE ReportsOnce'
  BY <1>2 DEF ReportsOnce
<1>3. CASE StartupFails \/ ForcedExit \/ Killed \/ MainReturns
  BY <1>2, <1>3 DEF StartupFails, ForcedExit, Killed, MainReturns, Exit
<1>4. CASE Start
  <2>1. \A r \in Runners : runner[r] = "off"
    BY <1>4 DEF Start, Alive, Follows, RunnersFollow, CodeIsTrue, Serving
  <2>2. results = <<>>
    BY <2>1 DEF Follows, RunnersFollow
  <2> QED BY <1>4, <2>1, <2>2 DEF Start, ReportsOnce
<1>5. ASSUME UNCHANGED <<mode, runner, results>> PROVE ReportsOnce'
  BY <1>5 DEF ReportsOnce, RunnersList
<1>6. CASE Signal \/ CancelParent \/ WatcherWakes
  BY <1>5, <1>6 DEF Signal, CancelParent, WatcherWakes
<1>7. CASE Shutdown \/ Drained \/ DrainTimedOut \/ Close
  BY <1>5, <1>7 DEF Shutdown, Drained, DrainTimedOut, Close
<1>8. CASE Select
  <2>1. CASE UNCHANGED results
    BY <1>5, <1>8, <2>1 DEF Select
  <2>2. CASE results # <<>> /\ results' = Tail(results)
    <3>1. /\ Len(results') = Len(results) - 1
          /\ \A i \in 1..Len(results') : i + 1 \in 1..Len(results) /\ results'[i] = results[i + 1]
      BY <2>2 DEF TypeOK
    <3>2. UNCHANGED <<mode, runner>>
      BY <1>8 DEF Select
    <3>3. \A i \in 1..Len(results') : runner'[results'[i]] = "done"
      BY <3>1, <3>2 DEF ReportsOnce
    <3>4. \A i, j \in 1..Len(results') : results'[i] = results'[j] => i = j
      <4> SUFFICES ASSUME NEW i \in 1..Len(results'), NEW j \in 1..Len(results'), results'[i] = results'[j]
                   PROVE  i = j
        OBVIOUS
      <4>1. i + 1 = j + 1
        BY <3>1 DEF ReportsOnce
      <4> QED BY <3>1, <4>1 DEF TypeOK
    <3> QED BY <3>2, <3>3, <3>4 DEF ReportsOnce, RunnersList
  <2> QED BY <1>8, <2>1, <2>2 DEF Select
<1>9. ASSUME NEW r \in Loops, Begin(r) \/ CallReturns(r) \/ Record(r) PROVE ReportsOnce'
  BY <1>9 DEF Begin, CallReturns, Record, ReportsOnce, RunnersList, TypeOK, Runners
<1>10. ASSUME NEW r \in Runners, Return(r) PROVE ReportsOnce'
  BY <1>10 DEF Return, ReportsOnce, RunnersList, TypeOK
<1>11. ASSUME NEW r \in Runners, Report(r) PROVE ReportsOnce'
  <2>1. /\ Len(results') = Len(results) + 1
        /\ results'[Len(results')] = r
        /\ \A i \in 1..Len(results) : results'[i] = results[i]
    BY <1>11 DEF Report, TypeOK
  <2>2. /\ runner[r] = "returned" /\ mode' = mode
        /\ runner' = [runner EXCEPT ![r] = "done"]
    BY <1>11 DEF Report
  <2>3. \A i \in 1..Len(results) : results[i] # r /\ results[i] \in Runners
    BY <2>2 DEF ReportsOnce, TypeOK
  <2>4. \A q \in Runners : runner'[q] # "off" => q \in RunnersList
    BY <2>2 DEF ReportsOnce, TypeOK
  <2>5. \A i \in 1..Len(results') : runner'[results'[i]] = "done"
    BY <2>1, <2>2, <2>3 DEF ReportsOnce, TypeOK
  <2>6. \A i, j \in 1..Len(results') : results'[i] = results'[j] => i = j
    BY <2>1, <2>3 DEF ReportsOnce, TypeOK
  <2> QED BY <2>2, <2>4, <2>5, <2>6 DEF ReportsOnce, RunnersList
<1>12. ASSUME NEW q \in Requests, Receive(q) \/ Handled(q) \/ Respond(q) PROVE ReportsOnce'
  BY <1>5, <1>12 DEF Receive, Handled, Respond
<1>13. CASE UNCHANGED vars
  BY <1>5, <1>13 DEF vars
<1> QED BY <1>1, <1>3, <1>4, <1>6, <1>7, <1>8, <1>9, <1>10, <1>11, <1>12, <1>13 DEF Next, Main

\* Results that differ, of runners that are done, leave a place for another.
LEMMA PlaceLeft ==
    ASSUME TypeOK, ReportsOnce, NEW r \in Runners, runner[r] = "returned"
    PROVE  Len(results) < ResultsCapacity
<1> DEFINE Others == RunnersList \ {r}
           n      == Len(results)
<1>1. IsFiniteSet(RunnersList)
  <2>1. IsFiniteSet({Server}) /\ IsFiniteSet({Poller}) /\ IsFiniteSet({})
    BY FS_Singleton, FS_EmptySet
  <2>2. IsFiniteSet(Workers \union {Server})
    BY <2>1, FS_Union, ProcessAssumption DEF ProcessAssumption
  <2> QED BY <2>1, <2>2, FS_Union DEF RunnersList
<1>2. r \in RunnersList
  BY DEF ReportsOnce
<1>3. IsFiniteSet(Others) /\ Cardinality(Others) = Cardinality(RunnersList) - 1
  BY <1>1, <1>2, FS_RemoveElement
<1>4. n \in Nat /\ results \in [1..n -> Runners]
  BY DEF TypeOK
<1>5. results \in [1..n -> Others]
  BY <1>4 DEF ReportsOnce
<1>6. results \in Injection(1..n, Others)
  BY <1>5 DEF ReportsOnce, Injection, IsInjective
<1>7. Cardinality(1..n) <= Cardinality(Others)
  BY <1>3, <1>6, FS_Injection
<1>8. Cardinality(1..n) = n
  BY <1>4, FS_Interval
<1>9. Cardinality(RunnersList) \in Nat
  BY <1>1, FS_CardinalityType
<1> QED BY <1>3, <1>4, <1>7, <1>8, <1>9 DEF ResultsCapacity

\* No runner is held up by the channel, however many there are.
THEOREM NeverBlocked == Spec => []NoReportBlocks
<1>1. Init => ReportsOnce
  BY DEF Init, ReportsOnce
<1>2. Spec => []ReportsOnce
  BY <1>1, ReportsStep, Inductive, PTL DEF Spec, ProcessInv
<1>3. TypeOK /\ ReportsOnce => NoReportBlocks
  BY PlaceLeft DEF NoReportBlocks
<1> QED BY <1>2, <1>3, TypeCorrect, PTL

=============================================================================
