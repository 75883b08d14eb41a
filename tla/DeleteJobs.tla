----------------------------- MODULE DeleteJobs -----------------------------
(***************************************************************************)
(* A durable queue of messages to delete: ephemeral_delete_jobs or         *)
(* guest_private_delete_jobs.  Both are drained by the same loop           *)
(* (drainDeleteJobs in internal/app/workers.go), one per queue and         *)
(* process.  A worker claims a due job under a lease, asks Telegram to     *)
(* delete the message and records the outcome under that lease.            *)
(*                                                                         *)
(* The module has no next-state relation of its own: jobs come from the    *)
(* deliveries of the module that instantiates it.                          *)
(***************************************************************************)
EXTENDS Naturals

CONSTANTS
    Workers,        \* the draining loops
    JobLease,       \* deleteJobLease
    JobTime,        \* deleteJobRequestWait + deleteFinishWriteWait
    Backoffs,       \* delays before the next attempt
    MaxTries        \* deleteJobMaxAttempts

\* The configuration. The module that instantiates this one assumes it.
JobsAssumption ==
    /\ JobLease \in Nat /\ JobTime \in Nat /\ JobTime < JobLease
    /\ Backoffs \subseteq Nat \ {0} /\ MaxTries \in Nat \ {0}

VARIABLES
    clock, faults,
    jobs,           \* the rows, by message: next_attempt_at, attempt_count, lease_until
                    \* (0 for NULL), and whether deleted_at is set
    busy,           \* per worker: its claim and what Telegram said
    gone,           \* the messages Telegram has deleted
    leftBehind      \* history: messages of closed jobs that Telegram would not delete

jobVars == <<jobs, busy, gone, leftBehind>>

Idle == [job |-> "none"]
Running(w) == busy[w] # Idle
Unclosed(j) == j \in DOMAIN jobs /\ ~jobs[j].closed

InitJobs ==
    /\ jobs = [j \in {} |-> 0]
    /\ busy = [w \in Workers |-> Idle]
    /\ gone = {} /\ leftBehind = {}

\* The rows after the insert of a job.
Queued(j, due) ==
    [i \in DOMAIN jobs \union {j} |->
        IF i = j THEN [due |-> due, tries |-> 0, lease |-> 0, closed |-> FALSE]
                 ELSE jobs[i]]

----------------------------------------------------------------------------
\* Variant: a lease that was never released blocks its job.
ClaimableIfReleased(j) == Unclosed(j) /\ jobs[j].due <= clock /\ jobs[j].lease = 0

Claimable(j) == Unclosed(j) /\ jobs[j].due <= clock /\ jobs[j].lease <= clock

\* ClaimDueEphemeralDelete, ClaimDueGuestDelete. Of several due jobs any is taken.
ClaimJob(w) ==
    /\ ~Running(w)
    /\ \E j \in DOMAIN jobs :
        /\ Claimable(j)
        /\ jobs' = [jobs EXCEPT ![j].lease = clock + JobLease, ![j].tries = @ + 1]
        /\ busy' = [busy EXCEPT ![w] = [job |-> j, lease |-> clock + JobLease,
                                          tries |-> jobs[j].tries + 1, said |-> "nothing"]]
    /\ UNCHANGED <<gone, leftBehind>>

Said(w, what) == busy' = [busy EXCEPT ![w].said = what]

\* deleteMessage: done, also when the message is gone already; refused for good;
\* failed for now, or so it seems because the reply was lost.
AskTelegram(w) ==
    /\ Running(w) /\ busy[w].said = "nothing"
    /\ \/ gone' = gone \union {busy[w].job} /\ Said(w, "done") /\ UNCHANGED leftBehind
       \/ /\ busy[w].job \notin gone
          /\ Said(w, "done")
          /\ leftBehind' = leftBehind \union {busy[w].job}
          /\ UNCHANGED gone
       \/ Said(w, "failed") /\ UNCHANGED <<gone, leftBehind>>
       \/ /\ faults # {}
          /\ gone' = gone \union {busy[w].job}
          /\ Said(w, "failed")
          /\ UNCHANGED leftBehind
    /\ UNCHANGED jobs

\* The row is still open under the lease of this worker.
HoldsJob(w) == Unclosed(busy[w].job) /\ jobs[busy[w].job].lease = busy[w].lease

GivesUp(w) == busy[w].said = "failed" /\ busy[w].tries >= MaxTries

Close(w) ==
    /\ jobs' = [jobs EXCEPT ![busy[w].job].closed = TRUE, ![busy[w].job].lease = 0]
    /\ leftBehind' = IF GivesUp(w) THEN leftBehind \union {busy[w].job} ELSE leftBehind

Retry(w) ==
    /\ \E b \in Backoffs :
        jobs' = [jobs EXCEPT ![busy[w].job].due = clock + b, ![busy[w].job].lease = 0]
    /\ UNCHANGED leftBehind

\* executeDeleteJob, after the request: markDeleted or retry, both under the lease. A
\* write that fails leaves the job to its lease.
Record(w) ==
    /\ Running(w) /\ busy[w].said # "nothing"
    /\ \/ HoldsJob(w) /\ (busy[w].said = "done" \/ GivesUp(w)) /\ Close(w)
       \/ HoldsJob(w) /\ busy[w].said = "failed" /\ ~GivesUp(w) /\ Retry(w)
       \/ ~HoldsJob(w) /\ UNCHANGED <<jobs, leftBehind>>
       \/ "database" \in faults /\ UNCHANGED <<jobs, leftBehind>>
    /\ busy' = [busy EXCEPT ![w] = Idle]
    /\ UNCHANGED gone

Work(w) == ClaimJob(w) \/ AskTelegram(w) \/ Record(w)

WorkerLost(w) ==
    /\ "crash" \in faults
    /\ Running(w)
    /\ busy' = [busy EXCEPT ![w] = Idle]
    /\ UNCHANGED <<jobs, gone, leftBehind>>

\* RunCleanup removes jobs some time after they were closed.
PruneJobs ==
    /\ \E j \in DOMAIN jobs :
        jobs[j].closed /\ jobs' = [i \in DOMAIN jobs \ {j} |-> jobs[i]]
    /\ UNCHANGED <<busy, gone, leftBehind>>

\* Both contexts of an attempt end within JobTime of its claim.
WorkersInTime == \A w \in Workers : Running(w) => clock < busy[w].lease - JobLease + JobTime

----------------------------------------------------------------------------
JobsTypeOK(Messages) ==
    /\ DOMAIN jobs \subseteq Messages
    /\ \A j \in DOMAIN jobs :
        jobs[j] \in [due : Nat, tries : Nat, lease : Nat, closed : BOOLEAN]
    /\ \A w \in Workers :
        \/ busy[w] = Idle
        \/ busy[w] \in [job : Messages, lease : Nat, tries : Nat \ {0},
                        said : {"nothing", "done", "failed"}]
    /\ gone \subseteq Messages /\ leftBehind \subseteq Messages
=============================================================================
