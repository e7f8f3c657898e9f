----------------------------- MODULE Publishing -----------------------------
(***************************************************************************)
(* From an approved item to a post on a platform. Composes the approval     *)
(* workflow with the three other parties that change an item's status: the  *)
(* publish route (flip, then enqueue), the scheduler's ticks (claim, then    *)
(* enqueue) and the workers of the publish queue, which post and record.    *)
(* Database calls may fail, processes may die, a platform may accept a post *)
(* and still answer with an error; the number of such faults is bounded.    *)
(***************************************************************************)
EXTENDS Approval, PublishQueue, FiniteSets

CONSTANTS Account,        \* connected accounts
          ClientOf,       \* the client each item and each account belongs to
          Target,         \* the account an item is scheduled to, or NoAccount
          NoAccount,
          ScheduledAt,    \* the time each item is scheduled for
          Tick,           \* scheduler ticks running at the same time
          TickLimit,      \* how many due items one tick takes
          Worker,         \* publish worker processes
          Row, NoRow,     \* PublishJob rows
          MaxTime,        \* bound: the clock stops here
          MaxFaults,      \* bound: faults injected in one behaviour
          MayEvict        \* enough later jobs finish to evict a retained one

ASSUME RowAssumption == NoRow \notin Row
ASSUME TargetAssumption ==
  /\ NoAccount \notin Account
  /\ Target \in [Item -> Account \cup {NoAccount}]
\* The route refuses an account of another client before it flips the item, so
\* a client without an account has no publish request to model.
ASSUME ClientAssumption ==
  \A i \in Item : \E a \in Account : ClientOf[i] = ClientOf[a]
ASSUME BoundsAssumption ==
  /\ TickLimit \in Nat \ {0}
  /\ MaxFaults \in Nat
  /\ MaxTime \in Nat
  /\ MayEvict \in BOOLEAN
  /\ ScheduledAt \in [Item -> Nat]

VARIABLES
  now,        \* the clock, in units of scheduledAt
  tick,       \* the pass each tick process is making
  job,        \* the publish queue, by job id
  worker,     \* what each worker process is executing
  row,        \* the PublishJob table
  live,       \* the platforms: the caption posted by the run that made a row
  announced,  \* webhook events and alerts emitted
  faults      \* how many faults have been injected

tickVars == <<now, tick>>
workVars == <<worker, row, live>>
publishVars == <<now, tick, job, worker, row, live, announced, faults>>
vars == <<approvalVars, publishVars>>

\* The job id `publish:<item>:<account>`.
Key == Item \X Account
ItemOf(k) == k[1]
AccountOf(k) == k[2]

SameClient(k) == ClientOf[ItemOf(k)] = ClientOf[AccountOf(k)]

\* Items the scheduler can publish: those with a target account.
Targeted == {i \in Item : Target[i] # NoAccount}

IdleTick == [pc |-> "idle"]
Pass == [pc : {"claim"}, batch : SUBSET Targeted]
        \cup [pc : {"enqueue"}, batch : SUBSET Targeted, item : Targeted]

\* Locals of runPublishJob and of the processor around it. "final": this is the
\* last attempt. "fatal": the error thrown is not retryable. "lost": the job's
\* lock expired while the worker was still running it.
IdleWorker == [pc |-> "idle"]
Run == [pc : {"preflight", "createRow", "post", "markPublished",
              "flipPublished", "markFailed", "flipFailed", "complete", "throw"},
        key : Key, row : Row \cup {NoRow}, seen : ItemStatus,
        caption : Copy, final : BOOLEAN, fatal : BOOLEAN, lost : BOOLEAN]

UnusedRow == [state |-> "unused"]
RowOf == [state : {"posting", "published", "failed"}, key : Key]

Event == {"publish.succeeded", "publish.failed"} \X Key

TypeOK ==
  /\ ApprovalTypeOK
  /\ now \in 0 .. MaxTime
  /\ tick \in [Tick -> {IdleTick} \cup Pass]
  /\ job \in [Key -> Job]
  /\ worker \in [Worker -> {IdleWorker} \cup Run]
  /\ row \in [Row -> {UnusedRow} \cup RowOf]
  /\ live \in [Row -> Copy]
  /\ announced \subseteq Event
  /\ faults \in 0 .. MaxFaults

Init ==
  /\ ApprovalInit
  /\ now = 0
  /\ tick = [t \in Tick |-> IdleTick]
  /\ job = [k \in Key |-> NoJob]
  /\ worker = [w \in Worker |-> IdleWorker]
  /\ row = [r \in Row |-> UnusedRow]
  /\ live = [r \in Row |-> NoCopy]
  /\ announced = {}
  /\ faults = 0

\* A fault happens, if the bound still allows one.
Fault == faults < MaxFaults /\ faults' = faults + 1

\* Mutant: the update does not look at the status.
FlipAlways(i, from, to) ==
  /\ status' = [status EXCEPT ![i] = to]
  /\ UNCHANGED <<copy, blocked, req, signed>>

\* UPDATE ... SET status = to WHERE status = from, by the scheduler or a worker.
FlipIf(i, from, to) ==
  /\ status' = IF status[i] = from THEN [status EXCEPT ![i] = to] ELSE status
  /\ UNCHANGED <<copy, blocked, req, signed>>

----------------------------------------------------------------------------
(* The publish route's last step.                                           *)

\* enqueuePublish for the account the caller chose, which the route has
\* checked to belong to the item's client.
RouteEnqueues(r, a) ==
  /\ At(r, "after")
  /\ req[r].to = "scheduled"
  /\ LET k == <<req[r].item, a>>
     IN SameClient(k) /\ job' = [job EXCEPT ![k] = Added(@)]
  /\ req' = [req EXCEPT ![r] = IdleRequest]
  /\ UNCHANGED <<itemVars, signed, tickVars, workVars, announced, faults>>

\* A request fails or its process dies: Redis refuses the job, a deploy, ...
RequestFails(r) ==
  /\ Fault
  /\ RequestDies(r)
  /\ UNCHANGED <<tickVars, job, workVars, announced>>

----------------------------------------------------------------------------
(* SchedulerService.tick                                                    *)

TimePasses ==
  /\ now < MaxTime
  /\ now' = now + 1
  /\ UNCHANGED <<approvalVars, tick, job, workVars, announced, faults>>

Due == {i \in Targeted : status[i] = "approved" /\ ScheduledAt[i] <= now}

\* Mutant: ORDER BY scheduledAt DESC
NotBeforeAny(i, items) == \A j \in items : ScheduledAt[i] >= ScheduledAt[j]

\* ORDER BY scheduledAt ASC
NotAfterAny(i, items) == \A j \in items : ScheduledAt[i] <= ScheduledAt[j]

\* findDueItems(now, limit)
FindDueItems(t, batch) ==
  /\ tick[t] = IdleTick
  /\ batch # {}
  /\ batch \subseteq Due
  /\ Cardinality(batch) <= TickLimit
  /\ batch # Due => Cardinality(batch) = TickLimit
  /\ \A i \in batch : NotAfterAny(i, Due \ batch)
  /\ tick' = [tick EXCEPT ![t] = [pc |-> "claim", batch |-> batch]]
  /\ UNCHANGED <<approvalVars, now, job, workVars, announced, faults>>

Claiming(batch) == IF batch = {} THEN IdleTick ELSE [pc |-> "claim", batch |-> batch]

\* markScheduled; an item another pass has claimed is skipped.
Claim(t, i) ==
  /\ tick[t].pc = "claim"
  /\ i \in tick[t].batch
  /\ NotAfterAny(i, tick[t].batch)
  /\ LET rest == tick[t].batch \ {i}
     IN tick' = [tick EXCEPT ![t] =
          IF status[i] = "approved"
          THEN [pc |-> "enqueue", batch |-> rest, item |-> i]
          ELSE Claiming(rest)]
  /\ FlipIf(i, "approved", "scheduled")
  /\ UNCHANGED <<now, job, workVars, announced, faults>>

TickEnqueues(t) ==
  /\ tick[t].pc = "enqueue"
  /\ LET k == <<tick[t].item, Target[tick[t].item]>>
     IN job' = [job EXCEPT ![k] = Added(@)]
  /\ tick' = [tick EXCEPT ![t] = Claiming(tick[t].batch)]
  /\ UNCHANGED <<approvalVars, now, workVars, announced, faults>>

\* The enqueue throws: logged, and the batch goes on with the next item.
TickEnqueueFails(t) ==
  /\ tick[t].pc = "enqueue"
  /\ Fault
  /\ tick' = [tick EXCEPT ![t] = Claiming(tick[t].batch)]
  /\ UNCHANGED <<approvalVars, now, job, workVars, announced>>

\* The tick's process dies, or a database call in it throws.
TickDies(t) ==
  /\ tick[t] # IdleTick
  /\ Fault
  /\ tick' = [tick EXCEPT ![t] = IdleTick]
  /\ UNCHANGED <<approvalVars, now, job, workVars, announced>>

----------------------------------------------------------------------------
(* The worker: runPublishJob, one action per await, and what BullMQ does    *)
(* with its outcome.                                                        *)

Doing(w, pc) == worker[w].pc = pc

KeyOf(w) == worker[w].key
ItemAt(w) == ItemOf(KeyOf(w))
Busy(w) == worker[w] # IdleWorker
Holds(w, k) == Busy(w) /\ KeyOf(w) = k /\ ~worker[w].lost

Goto(w, pc) == worker' = [worker EXCEPT ![w].pc = pc]

Failing(w, pc, fatal) ==
  worker' = [worker EXCEPT ![w].pc = pc, ![w].fatal = fatal]

\* A waiting job, its backoff over, becomes active in an idle worker.
Take(w, k) ==
  /\ worker[w] = IdleWorker
  /\ job[k].state = "waiting"
  /\ job' = [job EXCEPT ![k] = Taken(@)]
  /\ worker' = [worker EXCEPT ![w] =
       [pc |-> "preflight", key |-> k, row |-> NoRow, seen |-> "draft",
        caption |-> NoCopy, final |-> LastAttempt(job[k]), fatal |-> FALSE,
        lost |-> FALSE]]
  /\ UNCHANGED <<approvalVars, tickVars, row, live, announced, faults>>

\* Mutant: an item that is not scheduled any more counts as done.
PreflightSkipsUnscheduled(w) ==
  /\ Doing(w, "preflight")
  /\ worker' = [worker EXCEPT
       ![w].seen = status[ItemAt(w)],
       ![w].caption = copy[ItemAt(w)],
       ![w].pc = IF status[ItemAt(w)] # "scheduled" THEN "complete" ELSE "createRow"]
  /\ UNCHANGED <<approvalVars, tickVars, job, row, live, announced, faults>>

\* approval.get: status and copy as they are now; everything below decides on
\* them. An item already published ends the run.
Preflight(w) ==
  /\ Doing(w, "preflight")
  /\ worker' = [worker EXCEPT
       ![w].seen = status[ItemAt(w)],
       ![w].caption = copy[ItemAt(w)],
       ![w].pc = IF status[ItemAt(w)] = "published" THEN "complete" ELSE "createRow"]
  /\ UNCHANGED <<approvalVars, tickVars, job, row, live, announced, faults>>

\* Mutant: the job's account is taken as it is.
MayPostAnywhere(w) ==
  /\ worker[w].seen = "scheduled"
  /\ worker[w].caption # NoCopy

\* Same client, still scheduled when it was read, and something to post. Each
\* refusal is an error that is not retryable.
MayPost(w) ==
  /\ SameClient(KeyOf(w))
  /\ worker[w].seen = "scheduled"
  /\ worker[w].caption # NoCopy

\* jobs.create, then the checks, which do not await.
CreateRow(w, r) ==
  /\ Doing(w, "createRow")
  /\ row[r] = UnusedRow
  /\ row' = [row EXCEPT ![r] = [state |-> "posting", key |-> KeyOf(w)]]
  /\ worker' = [worker EXCEPT
       ![w].row = r,
       ![w].pc = IF MayPost(w) THEN "post" ELSE "markFailed",
       ![w].fatal = ~MayPost(w)]
  /\ UNCHANGED <<approvalVars, tickVars, job, live, announced, faults>>

\* publisher.publish returns: the post is on the platform.
Publish(w) ==
  /\ Doing(w, "post")
  /\ live' = [live EXCEPT ![worker[w].row] = worker[w].caption]
  /\ Goto(w, "markPublished")
  /\ UNCHANGED <<approvalVars, tickVars, job, row, announced, faults>>

\* Mutant: the error of the adapter is swallowed.
PostRejectedUnnoticed(w, fatal) ==
  /\ Doing(w, "post")
  /\ Goto(w, "markPublished")
  /\ UNCHANGED <<approvalVars, tickVars, job, row, live, announced, faults>>

\* publisher.publish throws and nothing was posted: an upstream error, or a
\* validation error of the adapter (fatal).
PostRejected(w, fatal) ==
  /\ Doing(w, "post")
  /\ Failing(w, "markFailed", fatal)
  /\ UNCHANGED <<approvalVars, tickVars, job, row, live, announced, faults>>

\* The platform took the post, but the adapter throws: the request timed out or
\* the answer had no post id.
PostUnacknowledged(w) ==
  /\ Doing(w, "post")
  /\ Fault
  /\ live' = [live EXCEPT ![worker[w].row] = worker[w].caption]
  /\ Failing(w, "markFailed", FALSE)
  /\ UNCHANGED <<approvalVars, tickVars, job, row, announced>>

MarkRow(w, state) == row' = [row EXCEPT ![worker[w].row].state = state]

MarkPublished(w) ==
  /\ Doing(w, "markPublished")
  /\ MarkRow(w, "published")
  /\ Goto(w, "flipPublished")
  /\ UNCHANGED <<approvalVars, tickVars, job, live, announced, faults>>

\* Mutant: a lost flip is an error like any other.
FlipPublishedOrFail(w) ==
  /\ Doing(w, "flipPublished")
  /\ FlipIf(ItemAt(w), "scheduled", "published")
  /\ Goto(w, IF status[ItemAt(w)] = "scheduled" THEN "complete" ELSE "markFailed")
  /\ UNCHANGED <<tickVars, job, row, live, announced, faults>>

\* A lost flip is only logged.
FlipPublished(w) ==
  /\ Doing(w, "flipPublished")
  /\ FlipIf(ItemAt(w), "scheduled", "published")
  /\ Goto(w, "complete")
  /\ UNCHANGED <<tickVars, job, row, live, announced, faults>>

\* Mutant: the catch block does not update the row.
MarkFailedNowhere(w) ==
  /\ Doing(w, "markFailed")
  /\ Goto(w, IF worker[w].fatal \/ worker[w].final
             THEN "flipFailed" ELSE "throw")
  /\ UNCHANGED <<approvalVars, tickVars, job, row, live, announced, faults>>

\* Mutant: the item moves to failed only after the last attempt.
MarkFailedUnlessFatal(w) ==
  /\ Doing(w, "markFailed")
  /\ MarkRow(w, "failed")
  /\ Goto(w, IF worker[w].final THEN "flipFailed" ELSE "throw")
  /\ UNCHANGED <<approvalVars, tickVars, job, live, announced, faults>>

\* The catch block. The item moves to failed only if there is no next attempt.
MarkFailed(w) ==
  /\ Doing(w, "markFailed")
  /\ MarkRow(w, "failed")
  /\ Goto(w, IF worker[w].fatal \/ worker[w].final
             THEN "flipFailed" ELSE "throw")
  /\ UNCHANGED <<approvalVars, tickVars, job, live, announced, faults>>

FlipFailed(w) ==
  /\ Doing(w, "flipFailed")
  /\ FlipIf(ItemAt(w), "scheduled", "failed")
  /\ Goto(w, "throw")
  /\ UNCHANGED <<tickVars, job, row, live, announced, faults>>

\* Mutant: the outcome of a run that has lost its lock counts all the same.
SettleAnyway(w, j, events) ==
  /\ job' = [job EXCEPT ![KeyOf(w)] = j]
  /\ announced' = announced \cup events
  /\ worker' = [worker EXCEPT ![w] = IdleWorker]
  /\ UNCHANGED <<approvalVars, tickVars, row, live, faults>>

\* What the queue accepts of a finished run. A worker that lost the lock is
\* refused, and none of its event handlers runs.
Settle(w, j, events) ==
  /\ IF worker[w].lost
     THEN UNCHANGED <<job, announced>>
     ELSE /\ job' = [job EXCEPT ![KeyOf(w)] = j]
          /\ announced' = announced \cup events
  /\ worker' = [worker EXCEPT ![w] = IdleWorker]
  /\ UNCHANGED <<approvalVars, tickVars, row, live, faults>>

\* The processor returned: the handler of "completed" fans out the webhook.
Complete(w) ==
  /\ Doing(w, "complete")
  /\ Settle(w, Completed(job[KeyOf(w)]), {<<"publish.succeeded", KeyOf(w)>>})

\* The processor threw, an UnrecoverableError if the error was fatal. The
\* handler of "failed" alerts only when the attempts are used up.
Throw(w) ==
  /\ Doing(w, "throw")
  /\ LET j == Thrown(job[KeyOf(w)], worker[w].fatal)
     IN Settle(w, j, IF j.attempts >= MaxAttempts
                     THEN {<<"publish.failed", KeyOf(w)>>} ELSE {})

\* A database call throws. Before the try block, and inside the catch block,
\* the error leaves runPublishJob; inside the try block the catch block runs.
\* It is a plain Error, hence retryable.
DatabaseFails(w) ==
  /\ Fault
  /\ \/ /\ worker[w].pc \in {"preflight", "createRow", "markFailed", "flipFailed"}
        /\ Failing(w, "throw", FALSE)
     \/ /\ worker[w].pc \in {"markPublished", "flipPublished"}
        /\ Failing(w, "markFailed", FALSE)
  /\ UNCHANGED <<approvalVars, tickVars, job, row, live, announced>>

\* The worker process dies, a deploy or a crash; its job stays active.
WorkerDies(w) ==
  /\ Busy(w)
  /\ Fault
  /\ worker' = [worker EXCEPT ![w] = IdleWorker]
  /\ UNCHANGED <<approvalVars, tickVars, job, row, live, announced>>

\* BullMQ finds an active job whose worker no longer renews the lock.
Stall(k) ==
  /\ job[k].state = "active"
  /\ ~ \E w \in Worker : Holds(w, k)
  /\ job' = [job EXCEPT ![k] = Stalled(@)]
  /\ UNCHANGED <<approvalVars, tickVars, workVars, announced, faults>>

\* The worker is alive but too slow to renew the lock.
LockExpires(w) ==
  /\ Busy(w)
  /\ ~worker[w].lost
  /\ Fault
  /\ worker' = [worker EXCEPT ![w].lost = TRUE]
  /\ UNCHANGED <<approvalVars, tickVars, job, row, live, announced>>

\* removeOnComplete, removeOnFail: enough later jobs have finished.
Evict(k) ==
  /\ MayEvict
  /\ job[k].state \in {"completed", "failed"}
  /\ job' = [job EXCEPT ![k] = NoJob]
  /\ UNCHANGED <<approvalVars, tickVars, workVars, announced, faults>>

----------------------------------------------------------------------------

TickStep(t) ==
  \/ \E batch \in SUBSET Due : FindDueItems(t, batch)
  \/ \E i \in Item : Claim(t, i)
  \/ TickEnqueues(t)

WorkerStep(w) ==
  \/ \E k \in Key : Take(w, k)
  \/ Preflight(w)
  \/ \E r \in Row : CreateRow(w, r)
  \/ Publish(w)
  \/ \E fatal \in BOOLEAN : PostRejected(w, fatal)
  \/ MarkPublished(w)
  \/ FlipPublished(w)
  \/ MarkFailed(w)
  \/ FlipFailed(w)
  \/ Complete(w)
  \/ Throw(w)

Faulty ==
  \/ \E r \in Request : RequestFails(r)
  \/ \E t \in Tick : TickEnqueueFails(t) \/ TickDies(t)
  \/ \E w \in Worker : \/ PostUnacknowledged(w) \/ DatabaseFails(w)
                       \/ WorkerDies(w) \/ LockExpires(w)

Next ==
  \/ ApprovalStep /\ UNCHANGED publishVars
  \/ \E r \in Request, a \in Account : RouteEnqueues(r, a)
  \/ TimePasses
  \/ \E t \in Tick : TickStep(t)
  \/ \E w \in Worker : WorkerStep(w)
  \/ \E k \in Key : Stall(k) \/ Evict(k)
  \/ Faulty

Spec == Init /\ [][Next]_vars

\* Node keeps running a handler it has started, the repeatable job keeps
\* ticking, an idle worker takes waiting jobs, and BullMQ looks for stalled ones.
\* Nothing makes a person press a button, so ReadItem has no fairness.
Fairness ==
  /\ \A r \in Request :
       WF_vars(RequestStep(r) /\ UNCHANGED publishVars)
       /\ WF_vars(\E a \in Account : RouteEnqueues(r, a))
  /\ \A t \in Tick : WF_vars(TickStep(t))
  /\ \A w \in Worker : WF_vars(WorkerStep(w))
  /\ \A k \in Key : WF_vars(Stall(k))

FairSpec == Spec /\ Fairness

----------------------------------------------------------------------------
(* What the subsystem promises.                                             *)

Posted(r) == live[r] # NoCopy
PostsOf(i) == {r \in Row : Posted(r) /\ ItemOf(row[r].key) = i}

\* Refinement: under every fault and interleaving the status moves along the
\* table, only items a person approved are posted, and a published item has a
\* post. (approval gate of job.ts:87-90, conditional updates of the stores)
Gate == INSTANCE HumanGate WITH
          stage <- status,
          approved <- {i \in Item : signed[i] # {}},
          Post <- Row,
          posts <- {<<r, ItemOf(row[r].key)>> : r \in {x \in Row : Posted(x)}}

HumanGateHolds == Gate!Spec

\* A post never reaches another client's account, whichever way the job came
\* into the queue: scheduler targets are not checked when they are enqueued.
\* (job.ts:83-86)
PostsStayWithClient == \A r \in Row : Posted(r) => SameClient(row[r].key)

\* A published item is on a platform, whatever failed and was retried on the
\* way there. (job.ts:94-101)
PublishedIsLive == \A i \in Item : status[i] = "published" => PostsOf(i) # {}

\* "publish.succeeded" is only fanned out for an item that is on a platform,
\* also when the run found the item published already. (worker.ts:143-147)
AnnouncedIsLive ==
  \A k \in Key : <<"publish.succeeded", k>> \in announced => PostsOf(ItemOf(k)) # {}

\* What is told of a job is final, as long as finished jobs are retained: once
\* "publish.succeeded" is out the job is completed, once "publish.failed" is out it
\* has failed, so that nobody is ever told both, whichever of the runs of a stalled
\* job comes to its end first. (worker.ts:143-160)
OneVerdictPerJob ==
  ~MayEvict => \A k \in Key :
    /\ <<"publish.succeeded", k>> \in announced => job[k].state = "completed"
    /\ <<"publish.failed", k>> \in announced => job[k].state = "failed"

\* What the status and the events tell of posts and jobs is true.
NewsIsTrue == PublishedIsLive /\ AnnouncedIsLive /\ OneVerdictPerJob

\* As long as nothing fails and finished jobs are retained, an item is posted
\* to an account once, however many ticks, requests and cancellations race.
\* (publish-queue.ts:17-25)
PostedOncePerAccount ==
  faults = 0 /\ ~MayEvict =>
    \A r1, r2 \in Row :
      Posted(r1) /\ Posted(r2) /\ row[r1].key = row[r2].key => r1 = r2

PostsAt(k) == {r \in Row : Posted(r) /\ row[r].key = k}

\* How often an item can be posted to an account at worst, as long as finished jobs
\* are retained: each time but one is paid for with a fault, and there are never more
\* than the runs that attempts and stalls allow. (publish-queue.ts:17-25, job.ts:73)
RepeatsAreCounted ==
  ~MayEvict => \A k \in Key :
    /\ Cardinality(PostsAt(k)) <= 1 + faults
    /\ Cardinality(PostsAt(k)) <= MaxAttempts + MaxStalls

\* The PublishJob table is an audit trail: a published row has a post, and as
\* long as nothing fails a failed row has none and a posting row has a worker
\* behind it. (job.ts:76-80, 100, 112)
RowsTellTheTruth ==
  \A r \in Row :
    /\ row[r].state = "published" => Posted(r)
    /\ faults = 0 /\ row[r].state = "failed" => ~Posted(r)
    /\ faults = 0 /\ row[r].state = "posting" =>
         \E w \in Worker : Busy(w) /\ worker[w].row = r

\* A job that waits for a worker brings its item out of scheduled, retries and
\* terminal errors included, as long as nothing fails. (job.ts:59-120)
Waiting(i) == \E a \in Account : job[<<i, a>>].state = "waiting"

ScheduledWithJobSettles ==
  \A i \in Item :
    status[i] = "scheduled" /\ Waiting(i) ~> status[i] # "scheduled" \/ faults > 0

\* No job is forgotten: whatever fails, it ends completed or failed.
JobsEnd == \A k \in Key : InFlight(job[k]) ~> ~InFlight(job[k])

\* The due item with the earliest scheduled time does not stay due: some tick
\* claims it, unless a person takes it back first. Later ones can be starved by
\* an item that is claimed and cancelled for ever. (scheduler/index.ts:50-73,
\* orderBy scheduledAt asc)
First(i) == \A j \in Item : ScheduledAt[i] <= ScheduledAt[j]

FirstDueIsClaimed == \A i \in Item : First(i) /\ i \in Due ~> i \notin Due

----------------------------------------------------------------------------
(* What comments and documents say, and the code does not do.               *)

\* "retry or edit" (state-machine.ts:22), "dedupes duplicate enqueues ... while
\* a job is in flight" (publish-queue.ts:17): a scheduled item always has a job
\* in flight, or somebody about to enqueue one.
ScheduledHasJob ==
  \A i \in Item : status[i] = "scheduled" =>
    \/ \E a \in Account : InFlight(job[<<i, a>>])
    \/ \E r \in Request : At(r, "after") /\ req[r].item = i
    \/ \E t \in Tick : tick[t].pc = "enqueue" /\ tick[t].item = i

\* "never double-post an item that already went live" (job.ts:73)
NeverDoublePosted == \A i \in Item : Cardinality(PostsOf(i)) <= 1

\* "human approval gates every publish" (docs/02-architecture.md:65): the
\* caption that was posted is one somebody approved.
PostedWasApproved ==
  \A r \in Row : Posted(r) => live[r] \in signed[ItemOf(row[r].key)]
==============================================================================
