# Verification of the Firstwave agency platform

Firstwave is a multi-tenant platform with which an agency plans, produces,
approves and publishes social-media content for its clients: a Next.js
application (route handlers and pages), a set of services under `src/src/lib`,
Postgres through Prisma, Redis with BullMQ queues, and worker processes. This
directory holds TLA+ models of it, the TLC configurations that check them on
small instances, and TLAPS proofs of the most important safety properties for
every size of instance.

Contents: [1 the system](#1-the-system), [2 modules](#2-modules-and-how-they-correspond-to-the-code),
[3 runs](#3-runs), [4 fairness](#4-fairness), [5 proofs](#5-proofs),
[6 what the checks found](#6-what-the-checks-found), [7 not modelled](#7-not-modelled),
[8 plan](#8-plan).

## 1 The system

Every service is a class over a store interface. The stores used in production
are in `lib/repositories/prisma-stores.ts`; nearly every update is a single SQL
statement, made conditional (`updateMany ... where status = from`) where the
authors expected races. Only a few saves are transactions (plans, competitor and
trend rows). Concurrency therefore comes from

* HTTP requests, several at a time, each an async function that may be
  interleaved at every `await`;
* BullMQ workers (publishing, metrics, the scheduler's tick, sweeps, videos,
  digests, retention) in one or more worker processes, whose jobs are retried,
  may stall, and may run twice;
* people and services outside: a reviewer with a portal link, a browser that
  comes back from an OAuth consent, Stripe's webhooks, the platforms.

| component | state it keeps | what makes it correct | modules |
|---|---|---|---|
| Approval workflow (`approval/`, routes submit, approve, reject) | `ContentItem.status` | only table moves; no decision on an item that has moved on | `ApprovalRules`, `Approval` |
| Scheduler (`scheduler/`, `queue/scheduler-*`) | the claim (approved to scheduled) | one claim per item; the earliest due item is claimed | `Publishing` |
| Publish queue, job, worker (`publish/job.ts`, `queue/publish-queue.ts`, `queue/worker.ts`) | a BullMQ job per item and account; `PublishJob` rows | gated by approval, the right client, rows and events tell the truth, nobody hangs | `PublishQueue`, `Publishing`, `HumanGate` |
| Publishers (`publishers/`) | the platforms' posts | what an adapter reports is what the platform made of the call | `Publishers` |
| Compliance (`compliance/`) | the agency's rules | no rule weakens another | `ComplianceRules`, `Approval` |
| Review portal (`review/`), API keys (`api-keys/`) | links, notes, keys | one decision per round, with its reason; revoked stays revoked | `ReviewPortal` |
| Team, authentication, sessions (`team/`, `auth/`) | agencies, users, tokens | an agency keeps an admin; power lapses; e-mails stay distinct | `Accounts` |
| Clients, tenancy (`repositories/client-repository.ts`, `db/tenancy.ts`) | clients and their agencies | pages of the list are complete; rows stay in their agency | `Clients`, `Tenancy` |
| Connections (`connections/`, `crypto/`) | OAuth cookie and state, connected accounts | an account is connected where, and for whom, its owner agreed to | `Connections` |
| Billing (`billing/`) | the `Subscription` row | it shows what Stripe has sold to this agency | `Billing` |
| Media library, retention (`media/`) | `Asset` rows that may share stored objects; version groups | rows keep their bytes, assets their client, versions differ | `MediaLibrary` |
| Creative studio (`creative/`) | assets and blobs | the same | `MediaLibrary` |
| Copy, plans, brand profile, design, video (`copy/`, `planner/`, `brand-intel/`, `design/`, `video/`) | what the generators save | everything saved is on record in the audit; a job makes one video | `Studio`, `Drafting` |
| Audit (`audit/`) | `AiAuditLog` | an answer that a caller gets is on record | `Audit` |
| Research, competitors, trends (`research/`, `competitor/`, `trend/`) | briefs, channels, topics, their metrics | a channel is tracked once; a brief has the rows it speaks of | `Sweeps`, `Insights` |
| Notifications, webhooks, analytics (`notifications/`, `webhooks/`, `analytics/`) | settings, endpoints, snapshots | events reach who asked for them, and set nothing else off | `Feedback`, `Insights` |
| Reporting (`reporting/`) | what was mailed | every report reaches its agency, and no other | `Reports`, `Insights` |
| Rate limiter (`security/`) | a window per key | neither too many calls nor too few | `RateLimiter` |

**Interactions.** Four parties write `ContentItem.status`: the dashboard's
requests, the portal's, the scheduler's ticks (`markScheduled`) and the publish
worker. They share nothing but that column and its conditional update. The
publish route and the ticks feed the publish queue through `enqueuePublish`,
whose job id is the item and the account; the worker takes the job, re-reads the
item, and decides on what it read. The copy engine and the compliance settings
write what the approval gate and the worker read. The worker's completed and
failed handlers feed webhooks and notifications; so does a metrics refresh. The
creative studio, the video worker and the public API write the `Asset` rows that
the media library re-attaches, archives and purges; retention spares the items
that are approved, scheduled or published. Every generator calls a model through
the audit wrapper.

**What is hard.** Status read before an await and used after it; a flip and an
enqueue that are not one transaction; a post on a platform that cannot be made
atomic with the row that records it; BullMQ's retained job ids; a run that lost
its lock and goes on beside the one that replaces it; webhooks out of order;
tokens and links that outlive the right they were given for; and the interplay of
all that with people who cancel, retry, revoke or rewrite. `PROJECT.json` lists
each hazard at its line.

## 2 Modules and how they correspond to the code

Each component has a module; `*Proofs` modules hold its theorems, `MC*` modules
the constants of the TLC instances. State is the tables, and what each request,
worker or tick keeps in local variables across an `await` (a record with `pc`, the
await it is at). One action is what runs between two awaits. History variables,
marked as such where they are declared, only serve to state properties.

**ApprovalRules, Approval** (`approval/`, `review/index.ts` decide,
`compliance/index.ts` gate). `status` and `copy` are columns of `ContentItem`,
`blocked` is the compliance config reduced to the set of captions it blocks.
`ReadItem` is `get` with `assertTransition`; `GateLoadsCopy` and `GateEvaluates` are
the two awaits of the gate; `Flip` is the conditional update, and a lost one is the
`ConflictError`; `Respond` is whatever follows. `ReadForReview` is the portal's way
in. `signed` is history: the copy an item had at each approval.

**PublishQueue** is one BullMQ job as operators on a record: `Added`, `Taken`,
`Completed`, `Thrown`, `Stalled`. Every queue of the system uses it. The code fixes
the job ids, so there is one job per id and a retained one swallows an `add`.

**Publishing** composes `Approval` with the route's enqueue, ticks, queue and workers.
`tick` holds the locals of overlapping scheduler passes (`FindDueItems`, then for
each item `Claim` and `TickEnqueues`); `worker` the locals of `runPublishJob` and its
processor (`Take`, `Preflight`, `CreateRow`, `Publish` or `PostRejected`,
`MarkPublished`, `FlipPublished`, and in the catch block `MarkFailed`, `FlipFailed`);
`Complete` and `Throw` hand the outcome to the queue and run the event handlers.
`row` is the `PublishJob` table; `live` the platforms, each post named by the row of
the run that made it; `announced` what was fanned out. A worker that lost its lock
goes on with `lost` set: its result is refused by BullMQ, its writes are not. The
faults are actions of their own (`RequestFails`, `TickDies`, `TickEnqueueFails`,
`PostUnacknowledged`, `DatabaseFails`, `WorkerDies`, `LockExpires`), counted against
`MaxFaults`. A rejected post is no fault: it is an ordinary answer of a platform.

**HumanGate** is the abstract specification of the whole: people approve, approved
items are posted, posted items are called published. `Publishing` refines it with
`stage <- status`, `approved` the items somebody signed and `posts` the rows with a
post (`HumanGateHolds`).

**MediaLibrary** (`media/`, `creative/`, `video/` storage, retention worker). `asset` is
the `Asset` table, `blob` the object storage, whose keys are fresh. Rows share an
object after deduplication (`FindByHash`, archived rows too) and re-attachment
(`Reattach`, `AnchorGroup`, `NextVersion`, `CreateAsset`). A purge is `FindPurgeable`,
`DeleteAssets`, then for each url `CountByUrl` and `DeleteByUrl`. `archiveStale` is one
statement, `RunRetention`. Which rows are old enough is a free choice, and so is
which items are in use (`ItemMoves`).

**Accounts** (`auth/`, `team/`). `user` is the `User` table; `token` the
signed session tokens that were handed out, copies of them included, each with
the role of its login and its expiry: nothing on the server can take one back.
`Signup`, `Login` and `VerifyPassword`, `Invite`, and a change of the team:
`StartChange`, `FindTarget`, `AssertNotLastAdmin`, then `UpdateRole` or `RemoveUser`.
`raced` remembers the agencies two of whose team changes overlapped.

**ReviewPortal** (`review/`, `api-keys/`, routes of the public API). `visit` is a
request through a link (`Resolve`, `GetItem`, `Gate`, `Decide`, `AddComment`) or with a
key (`FindKey`, then `Touch`), which may die at each await, while the agency creates and
revokes links and keys and moves items about.

**Billing** (`billing/`, the Stripe gateway and routes). A checkout finds or makes a
customer and asks for a session (`StartCheckout`, `CreateCustomer`, `PersistCustomer`,
`Pay`); Stripe makes customers and contracts, changes and cancels them
(`MadeByHand`, `ChangeContract`), and sends webhooks, which arrive in any order and
more than once. `Status` and `Price` are what Stripe has, not what the code knows: a
subscription may be unpaid or paused, at a price of neither plan. `EventOf` is
`normalizeEvent`, which drops such a status (`NormalStatus`); `ResolveAgency` the look-up
by customer, an await of its own, for an event without metadata; `HandleWebhook` the
upsert, whose patch (`Patched`) has "active" for a missing status and leaves the plan
for a price that `PlanForPrice` does not know. `untidy` and `crossed` remember where
the order, or two first checkouts, were mixed up; `had` the prices of a contract.

**Connections** (`connections/`, callback route). `jar` is each browser's session and
`oauth_state` cookie, `consent` what the signed state parameters carry, `code` the
platform's codes, which can be spent once, and `return` a callback on its way.

**Clients, Tenancy** (`repositories/client-repository.ts`, `db/pagination.ts`, `db/tenancy.ts`): rows
ordered by creation and id, and readers that go on from the last id they were
shown while rows appear, some with a time that has passed already. A page is the set
of the rows with fewer than so many before them; `shown` counts how often a reader
was shown a client.

**RateLimiter**: `hits` as `rate-limiter.ts` keeps them, each numbered where the code has
its place in an array; every call drops what has left the window, and is admitted or
told when to come back.

**Audit**: `withAudit` in front of a sink that may fail before or after it has stored
the row. A failure after a success lands in the same catch block, so a call may leave
no record, one, or a success and an error; `missed` is history, the records at which
the sink failed.

**Sweeps** (`research/`, `competitor/`, `trend/` and their queues). Two runs of a job,
one of which has lost its lock, fetch, ask the model and save side by side; the
save is the transaction of the stores, whose first statement locks the client.

**Feedback** (`notifications/`, `webhooks/`, `analytics/`, submit route). `task` is one
of four tellers (a submission, the completed and failed handlers, a metrics
refresh), a phase at a time: save, read the settings, send to each channel; read
the hooks, call each. Settings and hooks are edited meanwhile, any step may fail.

**Reports** (`reporting/`, digest queue): the run that mails each client's report to
the address its agency has at that moment; it may die and start again.

**Studio** (`copy/`, `planner/`, `brand-intel/`, `design/`, `video/` with its queue). A
run asks agents, stage by stage, each an audited call that leaves a row in `log`,
and then saves. Videos are made by workers in a temporary directory; locks
expire, processes die.

**Publishers** (one module for the seven adapters). `Steps(n)` is the requests of a call in
turn: container and publish at Meta, upload and post elsewhere, one for the token
exchange and the metrics. `wire` holds requests a platform has yet to act on, also
after the adapter has given up on them.

**Drafting, Insights, ComplianceRules** are calculations: a behaviour is one sample
from a set of inputs. Numbers are scaled to whole ones (hundredths of a second; growth
and rates in `GrowthParts` and `RateParts` of 1). `RateParts` is any common multiple of
the posts' views, which makes every post's rate whole without making it coarse; the
code's floating-point numbers are taken as the exact fractions they stand for. The mean
rate of a rival and the average of its views are rounded as in `competitor/metrics.ts`,
before the ranking. `PlaceIn` is TikTok's own rank of a topic, or the place in the list
where it gives none. **Lists** has what the first two do to
lists: filters with a limit (`Kept`), a stable sort by two keys (`Sorted`), `Math.round`. `Within` gives for each word the terms that are found inside it,
because `evaluate` looks for substrings.

## 3 Runs

Every mutant named in `PROJECT.json` is a plausible bug in the mapped code that
makes TLC violate the property it is listed under.

| run | question | result |
|---|---|---|
| `publishing_faults` | is what is called or announced published on a platform, is a job told of once, do the rows agree, and how often at most is an item posted, whatever dies? | holds |
| `publishing_races` | one post per account and client, and the human gate, with ticks and a request racing for two accounts of two clients? | holds |
| `publishing_ends` | does every job end, and does a scheduled item with a job leave scheduled? | holds |
| `publishing_due` | is the earliest due item claimed? | holds |
| `media_library` | do rows keep their bytes and their client, do purges take archived rows only, is nothing stored or numbered twice? | holds |
| `accounts_and_approval` | can overlapping team changes, logins and old tokens leave an agency without an admin or give power to a stranger? can overlapping decisions make a move that is not in the table? | holds |
| `services` | portal and keys, billing, connections, rate limiter, audit, client list: one property each, two for the portal | holds |
| `loops` | sweeps, feedback, digests: do they save, tell and mail what they should, and do their jobs end? | holds |
| `studios` | is everything generated on record and made once? do adapters tell the truth? are plans, clips, rankings, briefs, reports and verdicts right for every small input? | holds |
| `scheduled_without_job` | has a scheduled item a job? | violated, see 6 |
| `posted_twice` | is an item posted once? | violated, see 6 |
| `unapproved_caption` | is the posted caption an approved one? | violated, see 6 |

**Instances of several components.** `accounts_and_approval`, `services`, `loops` and
`studios` each check components that share no state. Their modules (`MCAccounts`,
`MCServices`, `MCLoops`, `MCStudios`) choose in the initial state the one `part` that
moves; the others keep a fixed initial state. TLC's states are then the sum of the
components' and not the product, and nothing is lost: no property relates two
of them. Components that do interact (`Approval` with the queue, the scheduler and
the worker) are composed in `Publishing`, step by step.

**Composite properties.** Several properties are conjunctions of named parts, defined
and explained in their modules: `OneReasonedDecision`, `LinksKeepTheirTerms`
(ReviewPortal); `BillingFollowsStripe` = `RowFollowsStripe`, `RowsAreTheAgencysOwn`,
`OneCustomerPerAgency`; `AccountsAsAgreed` = `AccountsStayWithAgency`,
`OneAccountPerConsent`, `FinishedWhereBegun`; `LimitIsExact` = `NoWindowOverrun`,
`WaitIsExact`; `SweepsKeepTheirRows` = `OneRowPerRival`, `BriefHasItsRows`;
`EventsReachWhoAsked` = `NoSilentReview`, `OnlyWhereWanted`, `NoneLeftOut`,
`SnapshotsPerRefresh`; `ReportsArrive` = `ReportsStayHome`, `DigestReachesAll`;
`QueuedJobsEnd` = `SweepEnds`, `MetricsJobEnds`, `DigestEnds`; `OnlyWorkRemains` =
`WorkIsOnRecord`, `NoTempLeft`; `AnswersAreTrue` = `FinalMeansNothingSent`,
`DoneMeansMade`, `OnePostPerCall`; `DraftsFit`, `BestComesFirst`, `GateIsStrict`
likewise; `NothingIsLost` = `RowsHaveBlobs`, `PurgesTakeArchived`; `NothingTwice` =
`VersionsDistinct`, `BytesAreStoredOnce`; `NewsIsTrue` = `PublishedIsLive`,
`AnnouncedIsLive`, `OneVerdictPerJob`.

**Bounds.** `Request`, `Call`, `Visit`, `Checkout`, `Return`, `Tick`, `Worker`, `Runner`, `Slot`,
`Op`: two of a kind are enough for a race between them; `Approval` has three requests,
for a decision on a status that was left and re-entered. Two agencies, clients
and accounts, so that rows can end up with the wrong one; three users, so that an
agency has two admins and a third who once was. `Row` bounds the runs of one
behaviour: three allow a failure and its retry after a cancelled schedule.
`MaxAttempts` is 2 (the publish queue's 3 adds another middle attempt), `MaxStalls` 1,
BullMQ's default. `MaxFaults` and `MaxOutages` bound failures that the component
does not survive unharmed: one, and two for the sink, which is asked twice, and in
`publishing_faults`, where a job has runs for three posts and each after the first
costs a fault. `MayEvict` says whether enough later jobs finish for BullMQ to forget a
retained one; the only run in which they do is `publishing_due`, with one row, since
claims do not wait for runs. `TTL` is 0 in `accounts_and_approval`: a token lasts for the moment of its login, so
that expiry happens within `MaxSeconds` 1. Media: three rows are an original, its copy
and one more version; two objects allow the same bytes to be stored twice;
`MaxOps` 3 is one operation that makes the rows and two that race. Billing:
`MaxSent` 3 webhooks are a purchase, a change and a cancellation; one contract; a
status that is passed on besides active and canceled, and one that is dropped; a price
on sale and one that no plan has; one agency buys at a time, the deliveries of one
webhook are handled one after the other, and a contract changes its status or its price
at a time (`OneAtATime`, `OneChange` in `MCServices`; the proofs have no such bounds). Rate limiter:
`Limit` 2 in `Window` 2, five ticks and four calls of two keys. Clients: pages of two,
four rows. Sweeps, feedback, reports: one trigger or one edit beyond the initial
choice, two topics, hooks, addresses, three clients. The samples of `studios` are
chosen around the limits of the code (0, 1, 60 and 61 days; 15, 180 and 200
seconds; lists of up to three or four entries). `RateParts` is 20000 with posts of 0, 4,
10000 and 20000 views: means of rates that round to one value are among them.

**Conditions.** Some properties are conditional, because the code has no transaction
or lock that would make them hold otherwise. `AgencyKeepsAdmin` excepts agencies two
of whose team changes overlapped; `RowFollowsStripe` those with more than one
subscription, and those whose webhooks were applied out of order or whose first
checkouts overlapped, and it says of a status and a price that the code does not know
what the code makes of them: "active", and the plan that was there; `OneCustomerPerAgency` those whose first checkouts overlapped;
`RowsHaveBlobs` a purge at the same time as something that makes a row;
`PurgesTakeArchived` a row restored between its listing and its deletion;
`VersionsDistinct` two re-attachments that overlapped; `BytesAreStoredOnce` any
overlap; `ReturnedWithReason` (in `OneReasonedDecision`) requests that died;
`PostedOncePerAccount` and half of `RowsTellTheTruth` any fault at all;
`PostedOncePerAccount`, `OneVerdictPerJob` and `RepeatsAreCounted` a finished job that
BullMQ forgets. The
interleavings themselves are part of the models, and what holds of all others is checked
with them. `ReuseStaysWithClient`, `PowerLapses`, `TeamsAreRunByTheirAdmins`,
`EmailsAreUnique`, `AccountsAsAgreed`, `LinksKeepTheirTerms`, `PublishedIsLive`,
`AnnouncedIsLive`, `PostsStayWithClient` and `HumanGateHolds` have no condition.

**Deadlock** is not checked where everything may be said and done: `services`,
`loops` and `studios`, whose components may stop at their bounds or have no steps. It
is checked in the others, and says little there, because an admin may save the
compliance rules again at any time; that nobody waits for ever is what the liveness
properties show.

## 4 Fairness

All fairness is weak, and of two sorts only: a process goes on with what it has
started, and the infrastructure turns up.

* `Publishing`: a handler that has started (Node runs its continuations), a
  scheduler pass (the repeatable job of `registerSchedulerTick` fires every minute
  and its failures are caught), a worker (BullMQ hands waiting jobs to idle workers),
  and BullMQ's stalled check. People are not fair: no request is ever bound to come.
  Neither are faults, nor the clock. An item that is claimed and cancelled again
  and again can take every place of a tick, which is why only the *earliest* due
  item is shown to be claimed.
* `Sweeps`, `Feedback`, `Reports`: an idle worker takes its job, a run that has begun
  goes on (all its calls have timeouts), the stalled check finds a job whose holder
  is gone. Deaths and lost locks are bounded by the stalls BullMQ allows.

## 5 Proofs

Every theorem is for all values of the constants, under the named assumptions of
the modules (sentinels outside their sets, bounds natural, at least one attempt,
every item's client has an account, Stripe's, customers' and agencies' ids apart; answers
are lists whose whole entries have days from 1 on, as `PlanItemSchema` asks, and scripts
have scenes, each of a word at least, as `wordCount` has it; growth and rates are counted
in parts fine enough to be whole, which for any finite number of posts there are).
All have the same shape: an invariant that
TLC has found to hold too is shown to hold initially, to be kept by each action, and to
imply the property.

| module | theorem | says |
|---|---|---|
| `PublishingProofs` | `TypeCorrect` | `[]TypeOK`; attempts and stalls stay within their limits |
| | `Invariance` | `[]IInv` |
| | `PostsOnlyForTheClient` | no post on an account of another client |
| | `NewsStaysTrue` | `[]NewsIsTrue`: published or announced implies a post on a platform, and a job is told of in one way only |
| | `StatusesStayInTable` | `StatusFollowsRules` also with ticks and workers |
| | `HumanGateImplemented` | the composed system refines `HumanGate` |
| | `ApprovalTypeCorrect`, `StatusKeepsToTable` | types, and `StatusFollowsRules` of the workflow alone |
| | `RowsAreTrue` | `[]RowsTellTheTruth` |
| | `PostsAreMadeOncePerAccount` | `[]PostedOncePerAccount` |
| | `RepeatsStayCounted` | `[]RepeatsAreCounted`: at most one post and one more for each fault, and no more than the attempts and stalls allow |
| `MediaProofs` | `MediaTypeCorrect`, `AssetsStayWithClient` | types, and `[]ReuseStaysWithClient` |
| | `LibraryInvariance` | `[]LibraryInv` |
| | `NothingGetsLost`, `NothingIsMadeTwice` | `[]NothingIsLost`, `[]NothingTwice` |
| `AccountsProofs` | `AgenciesKeepAnAdmin`, `TeamsStayWithTheirAdmins`, `PowerDoesLapse`, `EmailsStayDistinct` | the four properties of `Accounts` |
| | `OfficeTypesHold` | `[]OfficeTypeOK`, for accounts and approval beside each other |
| `PortalProofs` | `DecisionsAreSingle`, `TermsStayKept` | `[]OneReasonedDecision`, `LinksKeepTheirTerms` |
| `ServicesProofs` | `AccountsAreAsAgreed` | `[]AccountsAsAgreed` |
| | `AnswersGoOnRecord` | `[]AnswersAreOnRecord` |
| | `BillingInvariance`, `BillingIsTrue` | `[]BillingInv`, and from it `[]BillingFollowsStripe` |
| | `TheLimitIsExact` | `LimitIsExact`: no window overrun, and the wait that is told is the right one |
| | `ListIsComplete` | `[]PagesAreComplete` |
| | `ServicesTypesHold` | `[]ServicesTypeOK` |
| `QueuesProofs` | `SweepsKeepRows` | `[]SweepsKeepTheirRows` |
| | `ReportsAreMailed` | `[]ReportsArrive` |
| | `EventsAreTold` | `[]EventsReachWhoAsked` |
| | `LoopsTypesHold` | `[]LoopsTypeOK` |
| `StudiosProofs` | `PublishersAreTrue` | `[]AnswersAreTrue` |
| | `GateStaysStrict` | `[]GateIsStrict` |
| | `StudioLeavesOnlyWork`, `StudioFilmsOnce` | `[]OnlyWorkRemains`, `[]OneVideoPerJob` |
| | `StudiosTypesHold` | `[]StudiosTypeOK` |
| `CalculationsProofs` | `DraftsAreFitting` | `[]DraftsFit` |
| | `BestAlwaysComesFirst` | `[]BestComesFirst` |

**Publishing.** `TypeOK` is not inductive: `attempts <= MaxAttempts` needs that a job
which can still run has attempts left (`JobsHaveAttempts`), which needs that a worker
reporting an outcome runs an *active* job (`HoldersAreActive`) and is the only one
holding it (`HoldersAreAlone`), and a worker's row to be one of its key
(`RunsHaveRows`). On top of these `GateInv` says what survives an await: a handler
carries a legal move; an item past approval has been signed; a worker that read
`scheduled` works on a signed item although the status may have changed since
(`signed` only grows); a post is gated. `LiveInv` says that a run about to report
success has a post. The refinement maps `Flip`, `Claim`, `FlipPublished` and
`FlipFailed` to `Move`, `Publish` and `PostUnacknowledged` to `GoLive`, and every other
step to a stutter.

**Rows and single posts.** `RowsInv` is about the time before the first fault: a run
owns the row it has made (`RunsOwnRows`), the row's state says how far the run has
come (`RowsMatchRuns`), and a post's job is completed or its run about to complete it
(`PostsAreSettled`). A second post would need a run of the same job beside that one,
which `HoldersAreAlone` excludes, or a job taken after its completion, which the
retained id excludes. `CleanSteps` reduces `Next` to what one run does to its row
(`Works`) and what everybody else does (`NoRowMoves`).

**Repeated posts.** After a fault the same item may be posted again, and the question is
how often. `CountInv` counts. `BegunRuns` are the runs of a job: the rows it has used, and
the runs that have yet to make one. There are never more than the attempts and stalls
used up and the run that is active (`RunsAreBounded`). `SpentRuns` are the posts of a
job and the runs that lost their lock and may still post. Each of them has had a fault,
but for one at most, and that one only when the run with the lock has posted, or the
job is completed (`HasPosted`, `RepeatsArePaid`). A run that loses its lock is counted
before it posts, because the fault came then; and a retry needs a run that failed after
its post, which only a fault makes. Both counts are of finite sets, and a step changes
them by one element at most, so the library's facts about cardinality are enough.
`OneVerdictPerJob` is part of the same invariant: a job told of is completed or failed for
good, because as long as it is retained nothing adds it again.

**Media library.** The property is not inductive: an operation that read an url or a
group before the row was purged still carries it, and will make a row of it.
`ClaimsInv` therefore speaks of whoever *holds* an url or a group, a row or an
operation on its way, and says that all holders are of one client and that a key
or an id not yet used is held by nobody. `LibraryInv` adds what the conditional
properties need. Each is bound to pairs of kinds of operations that have not run
together (`clashes`, of which `OverlapsAreKnown` says that no pair escapes it).
Without a purge beside a maker, an url that a maker carries or a row has is in the
object storage, and a purge deletes only what no row refers to any more
(`ObjectsAreSafe`). What a purge has listed is archived, and only a restoration can
bring it back, which `clashes` notes as well (`PurgesTakeArchived`). Without two
re-attachments, the version that one has taken is
above every one in its group (`VersionIsNext`); this needs the group to be *founded*:
its original is in the group or gone for good, because an original that could join
later would bring a version of its own. Without any overlap, an operation on its way
to store bytes is over the only object that its client has with them
(`BytesAreShared`).

**Accounts.** What tokens and requests carry was true once (`RolesWereHeld`,
`AgenciesExist`); a change that has counted the admins and is about to write leaves
another one (`OthersRemain`), unless a second change of that agency is or was under
way (`RacesAreKnown`), in which case the agency is in `raced`.

**Portal.** A visit keeps what its checks have found, up to the note
(`VisitsWereAdmitted`); an item in review has no decision in this round
(`ReviewsAreUndecided`), and the conditional update makes it so for the second of
two reviewers. **Connections.** Whoever has a nonce (the cookie, a callback, a row) has
it from the browser that started that connection, and one callback at most can
have spent its code (`NoncesComeFromTheirBrowser`, `CodesAreSpentOnce`). **Audit.** Nothing is
recorded before its time (`RecordsAreDue`), from which follow the bounds, of one success
and one error, and what each combination of the two tells of the sink.

**Billing.** The set of Stripe's statuses and prices is arbitrary. Customers, contracts and webhooks belong to the agency that the row will be
found by (`StripeKnows`). `CustomerIsOne` follows a first checkout through its two
awaits: until the customer is on the row, one checkout at most is making it, and
nothing can have been bought. `LastWebhookCounts` carries the main property: of an agency with one
contract, whose webhooks have been applied in order so far, the *youngest* webhook
either waits, and then tells what the contract has come to, as far as
`normalizeEvent` passes it on (`Awaited`), or is what the row shows, with "active" for a
status that was dropped and any plan for an unknown price, and then only its duplicates may come again in order (`Shown`).

**Rate limiter.** `HitsAreRemembered`: what a key has forgotten has left the window, so
the hits counted in a call are all admitted ones of its window. `RefusalsAreTold`:
the told moment is that of the oldest of exactly `Limit` hits, so before it as many are in the
window, and from then on one less.

**List of clients.** `CursorParts`: the cursor parts what has been shown from what is
still to come. A client created meanwhile may sort before the cursor, and is then
not shown, or after it; but none that was there at the beginning can move to the
shown side. That a page is not empty, and that its last row is the last of its
order, rests on every set of numbers having a least one, taken
from the library's well-founded relations, which needs no induction over data.

**Sweeps, digests, events.** The attempts and stalls left bound the runs still to come
(`RunsAreCounted`), which keeps the numbers of runs within their type. No row is of
a run that has yet to save (`UnsavedIsUnseen`), and the lock makes what a
transaction found missing stay so until its commit (`LockHolds`); from that, one row
per channel and all rows of a brief. For digests, the histories
have every agency's present address since the run began (`KnownIsCurrent`), and
whoever kept it is among those still to be mailed or those who were
(`NobodyIsForgotten`); a client is mailed again only by a run after a death
(`MailsAreCounted`). For events, `PhasesLeft` lists what can be left to do, and what
was done is told by that list: a submission past its save has stored, whoever was
chosen has been tried or is next, and no attempt of a refresh is made after one
that stored a snapshot.

**Generators and videos.** `StagesInTurn`: a run has rows in the audit for all stages
but those it has left, counted down for the stills of a video, so that what it saves
at last is on record. `LocksAreHeld`: of the runs of an item's latest job only one has
not lost its lock, and a job that has its video is not tried again unless
its run had.

**Publishers.** Whatever is on its way, was made or was answered belongs to a step of a
call that the adapter let through (`RequestsAreOfCalls`), and a call to publish is
past no step that came to nothing (`StepsAreMade`).

**Plans and clips.** Filters and loops are one operator, `Kept`, a fold of the community
modules. A fold is a function on the subsets of the indices, chosen by its recursive
equation; that there is one is shown by taking the least size at which there is none
(`LeastNumber`, `UpTo`), which is first-order. `KeptOfBeginnings` then unfolds `Kept` one
element at a time, and `KeptAreFirst` says what the loop of `parsePlan` keeps. Sums are
unfolded in the same way (`SumsAreOverSubsets`, `OneByOne`): each rounded share is within
half of the exact one (`RoundedIsNear`), so all of them are within half for each
(`SharesAddUp`).

**Rankings, briefs and reports.** `SortedIsInOrder`: what a stable sort returns is a
permutation of the list in which whatever is ahead comes first; the place of an element
is the number of those not behind it, which no two share. Sums over sets are shown to
add up in any order (`TotalsGrow`), hence by parts (`PartsAddUp`), which is why the rows
of a report come to its totals. `LoopsRun` says that the function a loop is written as
exists, so the loops can be followed step by step: `Merges` is what the feed is after so
many observations, `FirstAreNamed` what a brief names after so many posts. For scores and
rates the question is whether rounding can turn an order round. For topics it cannot:
`ScoresGrow` has it for two of which one is larger and faster. For rivals it can: two whose
rates round to one value are ordered by their views. `MeansDiffer` has the means of two
rivals one of whom is better in every post, by how much one likes; `WiderMargins` that
a margin of a ten-thousandth, the last place that is rounded to, survives the rounding,
and any smaller one is never turned round in the rate itself, so that only a tie is left
to the views (`BetterRates`, `RankedByRate`).

**Components side by side.** `LoopsAreThree`, `ServicesAreSix`, `StudiosAreBoth` and
`OfficeIsBoth` show that the specifications which the runs check imply those of the
components; so every theorem about a component's specification speaks of the runs' too.

**Only model-checked:** the liveness properties (`JobsEnd`,
`ScheduledWithJobSettles`, `FirstDueIsClaimed`, `QueuedJobsEnd`), which need fairness
and ENABLED.

## 6 What the checks found

* **A retry after a failure can hang** (`scheduled_without_job`). The failed job of
  an item and account is retained under its id, so the enqueue after "retry" is a
  no-op and the item stays scheduled.
* **A post can be repeated** (`posted_twice`). If the row update or the flip after a
  successful post fails, the error counts as retryable and the next attempt posts
  again: the check for `published` does not see a post that was never recorded.
  `RepeatsAreCounted` says how bad it can get: one more post for each fault, up to the
  attempts and stalls of the job.
* **The caption that is posted need not be the one approved** (`unapproved_caption`).
  Copy can be saved in every status, and the worker posts what it finds.

Others were seen while modelling; no run is spent on them, but the models have
them, and the properties above are conditional where they matter, or say what the
code does instead:

* A subscription that is not paid is shown as active: `normalizeEvent` drops every
  status outside its own five (`stripe-gateway.ts:136-137`), and `applyWebhook` stores
  `event.status ?? "active"` (`billing/index.ts:125`). So do unpaid, paused and
  incomplete_expired subscriptions become active ones in the row that
  `schema.prisma:50` says mirrors them. `RowFollowsStripe` has it so; that a row is
  active only if the subscription is was checked and refuted, by a subscription that
  becomes unpaid.
* A call may leave two audit records, or none: a sink that stores the success and
  then fails lands in the catch block, which records an error
  (`audit/index.ts:58-81`), and one that fails there leaves nothing. The comment above
  (`audit/index.ts:44-46`) says exactly one; that was checked and refuted too.
  `AnswersAreOnRecord` says which records there may be.
* The failed handler alerts only when the attempts are used up (`worker.ts:151`); an
  unrecoverable error or a job stalled too often ends before.
* A purge looks at the archive date and the id only (`prisma-stores.ts:381`): a row
  restored, or an item taken into use, after it was listed is deleted all the
  same. A purge that finds an object unreferenced, and a re-attachment that read
  the url before, leave a row without its bytes.
* Two admins who demote or remove each other at the same time leave none
  (`team-service.ts:130`), and `updateRole` reports the role it read before the write
  (`team-service.ts:87`).
* A Stripe update that arrives after the deletion gives the plan back; two first
  checkouts make two customers; a change to a price that is neither plan's leaves the
  old plan in the row (`billing/index.ts:51-56`, `127-128`).
* Rivals' rates are rounded to four decimals before they are ranked
  (`competitor/metrics.ts:23`, `62`): one that engages better by less than that may tie
  with another, and then stands below it if it is viewed less.
* A finished sweep or video job is retained under its id, so that a request after it
  is answered "queued" and nothing is run (`research-queue.ts:24`, `video-queue.ts:24`).
* `runPublishJob` passes no media (`job.ts:94`), without which the adapters of Meta's
  Instagram, YouTube, TikTok and Pinterest always end in a validation error.
* A trend that collapses still scores up to 60 (`trend/metrics.ts:19`); a disclosure tag
  counts as given when it is part of another word ("#ad" in "#adventure").
* `approve` is accepted for a scheduled item and silently cancels the schedule; the
  copy may be rewritten between the gate and the flip; connecting an account again
  makes a second row; an object whose row was never made is never collected.

## 7 Not modelled

* Fakes and wiring (`*/fakes.ts`, `api/_lib/deps.ts`): test doubles, and constructors
  that pass stores to services.
* The dashboard's pages: they call the routes modelled here and keep no state.
* The crawler of brand intelligence, what it reads off style sheets and logos, and its
  guard of addresses; the image and speech providers beyond an audited call that
  succeeds or fails; prompts; the layout of reports; the custom domain of the
  white label; `authorizeUrl`, which builds an address. They work on text that no
  property here tells apart, or are pure input and output.
* The text of captions, pages, prompts and answers: captions are model values, an
  answer is the list of its usable parts.
* A database statement that times out but was committed: a failed call is taken
  not to have changed anything, except at the audit's sink.
* Configuration, logging and error classes: no state of their own.
* Passwords, ciphers and signatures: model values that cannot be forged.

## 8 Plan

Done: every component of the table in section 1 is modelled and checked; every
safety property of every run is proved.

Left, in the order of weight:

1. The feed of `Feedback` composed with `Publishing`: which end of a job is told.
2. An abstract queue that `PublishQueue`'s users refine.
3. The crawler's queue of pages, and the verification of a custom domain, if they
   come to keep state.
