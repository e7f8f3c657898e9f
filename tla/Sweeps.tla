------------------------------- MODULE Sweeps -------------------------------
(***************************************************************************)
(* The research, competitor and trend sweeps of one client. A route queues  *)
(* a job, a worker fetches, asks the model for a brief and saves it. A      *)
(* worker that loses its lock on the job goes on with its run beside the    *)
(* one that replaces it. The three kinds share no column and no table, so   *)
(* a behaviour is about one of them.                                        *)
(***************************************************************************)
EXTENDS PublishQueue, FiniteSets

CONSTANTS Topic,        \* channels of competitors, or trending topics
          Runner,       \* runs of the processor at a time
          NoRunner,
          MaxTriggers   \* requests accepted

ASSUME SweepsAssumption == MaxTriggers \in Nat /\ NoRunner \notin Runner

VARIABLES
  kind,      \* which engine
  niche,     \* whether the client's niche is set
  sweepJob,  \* the job <kind>:<agency>:<client>
  asked,     \* its data
  holder,    \* the run that holds its lock
  sweep,     \* the runs
  brief,     \* the client's brief column
  rows,      \* Competitor or Trend rows of each topic
  latest,    \* the run of each topic's newest row of metrics
  accepted,  \* history: requests answered 202 "queued"
  started    \* history: runs started, which numbers them

sweepVars == <<kind, niche, sweepJob, asked, holder, sweep, brief, rows, latest, accepted, started>>
client == <<kind, niche>>
saved == <<brief, rows, latest>>

MaxStarted == MaxTriggers * (MaxAttempts + MaxStalls)
NotSweeping == [pc |-> "idle"]
Sweeping ==
  [pc : {"get", "fetch", "synthesize", "save", "done"}, no : 1 .. MaxStarted, found : SUBSET Topic]
    \cup [pc : {"rows"}, no : 1 .. MaxStarted, found : SUBSET Topic, new : SUBSET Topic]
NoBrief == [no |-> 0, found |-> {}]

SweepsTypeOK ==
  /\ kind \in {"research", "competitor", "trend"} /\ niche \in BOOLEAN
  /\ sweepJob \in Job /\ asked \subseteq Topic
  /\ holder \in Runner \cup {NoRunner}
  /\ holder # NoRunner <=> sweepJob.state = "active"
  /\ sweep \in [Runner -> {NotSweeping} \cup Sweeping]
  /\ brief \in [no : 0 .. MaxStarted, found : SUBSET Topic]
  /\ rows \in [Topic -> Nat] /\ latest \in [Topic -> 0 .. MaxStarted]
  /\ accepted \in 0 .. MaxTriggers /\ started \in 0 .. MaxStarted

SweepsInit ==
  /\ kind \in {"research", "competitor", "trend"}
  /\ niche \in BOOLEAN
  /\ sweepJob = NoJob /\ asked = {} /\ holder = NoRunner
  /\ sweep = [r \in Runner |-> NotSweeping]
  /\ brief = NoBrief
  /\ rows = [t \in Topic |-> 0] /\ latest = [t \in Topic |-> 0]
  /\ accepted = 0 /\ started = 0

SetNiche ==
  /\ niche' = ~niche
  /\ UNCHANGED <<kind, sweepJob, asked, holder, sweep, saved, accepted, started>>

\* What each route's schema lets through: seed urls and keywords find nothing
\* by themselves, competitors must be named.
ResearchBody(d) == kind = "research" /\ d = {}
CompetitorBody(d) == kind = "competitor" /\ d # {}
TrendBody(d) == kind = "trend" /\ d = {}

\* queue.add: a job that exists keeps its own data.
EnqueueSweep(d) ==
  /\ sweepJob' = Added(sweepJob)
  /\ asked' = IF sweepJob.state = "absent" THEN d ELSE asked

\* POST, by the client's own agency.
Trigger(d) ==
  /\ accepted < MaxTriggers
  /\ ResearchBody(d) \/ CompetitorBody(d) \/ TrendBody(d)
  /\ EnqueueSweep(d)
  /\ accepted' = accepted + 1
  /\ UNCHANGED <<client, holder, sweep, saved, started>>

\* removeOnComplete, removeOnFail: enough later jobs have finished.
ForgetJob ==
  /\ sweepJob.state \in {"completed", "failed"}
  /\ sweepJob' = NoJob
  /\ UNCHANGED <<client, asked, holder, sweep, saved, accepted, started>>

SweepAt(r, pc) == sweep[r].pc = pc

TakeSweep(r) ==
  /\ SweepAt(r, "idle") /\ sweepJob.state = "waiting"
  /\ sweepJob' = Taken(sweepJob) /\ holder' = r
  /\ started' = started + 1
  /\ sweep' = [sweep EXCEPT ![r] = [pc |-> "get", no |-> started + 1, found |-> {}]]
  /\ UNCHANGED <<client, asked, saved, accepted>>

\* Mutant: the failure of a run that lost its lock counts.
FailUnheld(r) ==
  /\ sweep' = [sweep EXCEPT ![r] = NotSweeping]
  /\ sweepJob' = Thrown(sweepJob, FALSE) /\ holder' = NoRunner
  /\ UNCHANGED saved

\* The processor throws, whatever the error: no sweep is unrecoverable. A run
\* that has lost its lock is ignored.
Fail(r) ==
  /\ sweep' = [sweep EXCEPT ![r] = NotSweeping]
  /\ IF holder = r
     THEN sweepJob' = Thrown(sweepJob, FALSE) /\ holder' = NoRunner
     ELSE UNCHANGED <<sweepJob, holder>>
  /\ UNCHANGED saved

GoOn(r, pc) ==
  /\ sweep' = [sweep EXCEPT ![r].pc = pc]
  /\ UNCHANGED <<sweepJob, holder, saved>>

\* Mutant: waits for the niche to be set.
GetClientWithNiche(r) ==
  /\ SweepAt(r, "get")
  /\ niche /\ GoOn(r, "fetch")

\* clients.get and the niche.
GetClient(r) ==
  /\ SweepAt(r, "get")
  /\ IF niche THEN GoOn(r, "fetch") ELSE Fail(r)

\* What the sources give: the pages of the seed urls, the named channels, any
\* topics at all but at least one.
SeedPages(f) == kind = "research" /\ f = {}
RivalChannels(f) == kind = "competitor" /\ f = asked
Signals(f) == kind = "trend" /\ f # {}

Fetch(r) ==
  /\ SweepAt(r, "fetch")
  /\ \/ \E f \in SUBSET Topic :
          /\ SeedPages(f) \/ RivalChannels(f) \/ Signals(f)
          /\ sweep' = [sweep EXCEPT ![r].pc = "synthesize", ![r].found = f]
          /\ UNCHANGED <<sweepJob, holder, saved>>
     \/ Fail(r)

\* The audited call of the model and its schema.
Synthesize(r) ==
  /\ SweepAt(r, "synthesize")
  /\ GoOn(r, "save") \/ Fail(r)

BriefOf(r) == [no |-> sweep[r].no, found |-> sweep[r].found]

\* updateMany, alone.
SaveResearchBrief(r) ==
  /\ SweepAt(r, "save") /\ kind = "research"
  /\ \/ /\ brief' = BriefOf(r)
        /\ sweep' = [sweep EXCEPT ![r].pc = "done"]
        /\ UNCHANGED <<sweepJob, holder, rows, latest>>
     \/ Fail(r)

\* Mutant: the rows of the channels are looked up before the client is updated.
RowUnlocked(r) == TRUE

\* The update of the client's row keeps it locked to the end of the transaction.
RowLocked(r) == \A s \in Runner : ~SweepAt(s, "rows")

WithNew(r) == [pc |-> "rows", no |-> sweep[r].no, found |-> sweep[r].found,
               new |-> {t \in sweep[r].found : rows[t] = 0}]

\* Mutant: the brief is saved first, and not in the transaction.
BriefSavedFirst(r) ==
  /\ SweepAt(r, "save") /\ kind # "research" /\ RowLocked(r)
  /\ sweep' = [sweep EXCEPT ![r] = WithNew(r)]
  /\ brief' = BriefOf(r)
  /\ UNCHANGED <<sweepJob, holder, rows, latest>>

\* The transaction up to its last read.
UpdateClientRow(r) ==
  /\ SweepAt(r, "save") /\ kind # "research" /\ RowLocked(r)
  /\ \/ /\ sweep' = [sweep EXCEPT ![r] = WithNew(r)]
        /\ UNCHANGED <<sweepJob, holder, saved>>
     \/ Fail(r)

\* A channel gets a row only if it had none; its metrics are appended.
CompetitorRows(r) == kind = "competitor" /\ rows' = [t \in Topic |-> rows[t] + IF t \in sweep[r].new THEN 1 ELSE 0]

\* A row for each signal, every time.
TrendRows(r) == kind = "trend" /\ rows' = [t \in Topic |-> rows[t] + IF t \in sweep[r].found THEN 1 ELSE 0]

Commit(r) ==
  /\ SweepAt(r, "rows")
  /\ \/ /\ CompetitorRows(r) \/ TrendRows(r)
        /\ latest' = [t \in Topic |-> IF t \in sweep[r].found THEN sweep[r].no ELSE latest[t]]
        /\ brief' = BriefOf(r)
        /\ sweep' = [sweep EXCEPT ![r] = [pc |-> "done", no |-> @.no, found |-> @.found]]
        /\ UNCHANGED <<sweepJob, holder>>
     \/ Fail(r)

\* The worker completes the job, if it still holds the lock.
Return(r) ==
  /\ SweepAt(r, "done")
  /\ sweep' = [sweep EXCEPT ![r] = NotSweeping]
  /\ IF holder = r
     THEN sweepJob' = Completed(sweepJob) /\ holder' = NoRunner
     ELSE UNCHANGED <<sweepJob, holder>>
  /\ UNCHANGED saved

Proceed(r) ==
  /\ \/ GetClient(r) \/ Fetch(r) \/ Synthesize(r) \/ SaveResearchBrief(r)
     \/ UpdateClientRow(r) \/ Commit(r) \/ Return(r)
  /\ UNCHANGED <<client, asked, accepted, started>>

\* The process dies: an open transaction is rolled back, the job stays active.
Die(r) ==
  /\ sweep[r] # NotSweeping
  /\ sweep' = [sweep EXCEPT ![r] = NotSweeping]
  /\ UNCHANGED <<client, sweepJob, asked, holder, saved, accepted, started>>

\* The lock expires: the process is dead, or did not renew it in time.
LoseLock ==
  /\ sweepJob.state = "active"
  /\ sweepJob' = Stalled(sweepJob) /\ holder' = NoRunner
  /\ UNCHANGED <<client, asked, sweep, saved, accepted, started>>

LockOfTheDead == sweepJob.state = "active" /\ sweep[holder] = NotSweeping /\ LoseLock

SweepsNext ==
  \/ SetNiche
  \/ \E d \in SUBSET Topic : Trigger(d)
  \/ ForgetJob
  \/ \E r \in Runner : TakeSweep(r) \/ Proceed(r) \/ Die(r)
  \/ LoseLock

\* Workers keep running and the stalled checker keeps checking; every call has
\* a timeout.
SweepsFairness ==
  /\ WF_sweepVars(\E r \in Runner : TakeSweep(r))
  /\ \A r \in Runner : WF_sweepVars(Proceed(r))
  /\ WF_sweepVars(LockOfTheDead)

SweepsSpec == SweepsInit /\ [][SweepsNext]_sweepVars /\ SweepsFairness

----------------------------------------------------------------------------
(* Properties.                                                              *)

\* A channel is tracked once, although nothing makes its row unique and the run
\* of a worker that lost its lock saves beside the retry's: the transaction has
\* locked the client before it looks. (prisma-stores.ts:989-1010)
OneRowPerRival == kind = "competitor" => \A t \in Topic : rows[t] <= 1

\* The brief the client carries is the one of the newest metrics, topic by
\* topic, whichever of two runs saved last and wherever one failed.
\* (prisma-stores.ts:982-1025, 1037-1064)
BriefHasItsRows ==
  kind # "research" /\ brief # NoBrief =>
    \A t \in Topic : t \in brief.found <=> latest[t] = brief.no

\* A queued sweep comes to an end, over failures of the sources and the model,
\* deaths and lost locks. (worker.ts:167-285)
SweepEnds == [](InFlight(sweepJob) => <>~InFlight(sweepJob))

\* What overlapping sweeps save is the work of one of them.
SweepsKeepTheirRows == OneRowPerRival /\ BriefHasItsRows

----------------------------------------------------------------------------
(* The inductive invariant behind SweepsKeepTheirRows and the types: runs   *)
(* are numbered, and what a run has not saved yet carries no other's number. *)

\* The runs that the attempts and stalls of a job still allow.
RunsLeft(j) ==
  IF ~InFlight(j) THEN 0
  ELSE (MaxAttempts - j.attempts) + (MaxStalls - j.stalls) - (IF j.state = "active" THEN 1 ELSE 0)

\* No request starts more runs than the attempts and stalls of its job.
RunsAreCounted ==
  /\ InFlight(sweepJob) => sweepJob.attempts < MaxAttempts
  /\ started + RunsLeft(sweepJob) <= accepted * (MaxAttempts + MaxStalls)

UnderWay(r) == sweep[r] # NotSweeping

RunsAreNumbered ==
  /\ \A r \in Runner : UnderWay(r) => sweep[r].no <= started
  /\ \A r, s \in Runner : UnderWay(r) /\ UnderWay(s) /\ r # s => sweep[r].no # sweep[s].no
  /\ brief.no <= started
  /\ \A t \in Topic : latest[t] <= started

\* Neither the brief nor a row is of a run that has yet to save.
UnsavedIsUnseen ==
  \A r \in Runner : UnderWay(r) /\ ~SweepAt(r, "done") =>
    /\ brief.no # sweep[r].no
    /\ \A t \in Topic : latest[t] # sweep[r].no

\* Between a transaction's last read and its commit no other one is there, and
\* what it found missing is missing still.
LockHolds ==
  /\ \A r, s \in Runner : SweepAt(r, "rows") /\ SweepAt(s, "rows") => r = s
  /\ kind = "competitor" =>
       \A r \in Runner : SweepAt(r, "rows") => \A t \in sweep[r].new : rows[t] = 0

SweepsInv ==
  /\ SweepsTypeOK /\ RunsAreCounted /\ RunsAreNumbered
  /\ UnsavedIsUnseen /\ LockHolds /\ SweepsKeepTheirRows
=============================================================================
