---------------------------- MODULE QueuesProofs ----------------------------
(***************************************************************************)
(* Proofs about the queues beside the publish queue: what retries, lost     *)
(* locks and deaths of workers do to the sweeps, the report digest, and the *)
(* telling of events.                                                       *)
(***************************************************************************)
EXTENDS MCLoops, SequenceTheorems, TLAPS

----------------------------------------------------------------------------
(* Jobs.                                                                    *)

LEMMA JobTypes ==
  ASSUME NEW j \in Job
  PROVE  /\ NoJob \in Job /\ FreshJob \in Job
         /\ Added(j) \in Job /\ Taken(j) \in Job /\ Completed(j) \in Job /\ Stalled(j) \in Job
         /\ \A u \in BOOLEAN : j.attempts < MaxAttempts => Thrown(j, u) \in Job
<1> USE AttemptsAssumption, StallsAssumption
<1>1. NoJob \in Job /\ FreshJob \in Job
  BY DEF Job, JobState, NoJob, FreshJob
<1>2. Added(j) \in Job
  BY <1>1 DEF Added
<1>3. Taken(j) \in Job /\ Completed(j) \in Job
  BY DEF Job, JobState, Taken, Completed
<1>4. Stalled(j) \in Job
  <2>1. CASE j.stalls < MaxStalls
    <3>1. j.stalls + 1 \in 0 .. MaxStalls
      BY <2>1 DEF Job
    <3>2. Stalled(j) = [state |-> "waiting", attempts |-> j.attempts, stalls |-> j.stalls + 1]
      BY <2>1 DEF Job, Stalled
    <3> QED
      BY <3>1, <3>2 DEF Job, JobState
  <2>2. CASE ~(j.stalls < MaxStalls)
    BY <2>2 DEF Job, JobState, Stalled
  <2> QED
    BY <2>1, <2>2
<1>5. ASSUME NEW u \in BOOLEAN, j.attempts < MaxAttempts
      PROVE  Thrown(j, u) \in Job
  <2>1. j.attempts + 1 \in 0 .. MaxAttempts
    BY <1>5 DEF Job
  <2>2. \A n \in 0 .. MaxAttempts, s \in JobState :
          [j EXCEPT !.attempts = n, !.state = s] \in Job
    BY DEF Job
  <2>3. (IF u \/ LastAttempt(j) THEN "failed" ELSE "waiting") \in JobState
    BY DEF JobState
  <2> QED
    BY <2>1, <2>2, <2>3 DEF Thrown
<1> QED
  BY <1>1, <1>2, <1>3, <1>4, <1>5

\* What each step does to a job's state and counts.
LEMMA JobFields ==
  ASSUME NEW j \in Job
  PROVE  /\ Taken(j).state = "active"
         /\ Taken(j).attempts = j.attempts /\ Taken(j).stalls = j.stalls
         /\ Completed(j).state = "completed" /\ Completed(j).stalls = j.stalls
         /\ Added(j) = j \/ Added(j) = FreshJob
         /\ j.stalls < MaxStalls =>
              /\ Stalled(j).state = "waiting"
              /\ Stalled(j).attempts = j.attempts
              /\ Stalled(j).stalls = j.stalls + 1
         /\ j.stalls >= MaxStalls =>
              Stalled(j).state = "failed" /\ Stalled(j).stalls = j.stalls
         /\ \A u \in BOOLEAN :
              /\ Thrown(j, u).attempts = j.attempts + 1
              /\ Thrown(j, u).stalls = j.stalls
              /\ Thrown(j, u).state \in {"waiting", "failed"}
              /\ Thrown(j, u).state = "waiting" => j.attempts + 1 < MaxAttempts
              /\ u => Thrown(j, u).state = "failed"
  BY AttemptsAssumption, StallsAssumption
  DEF Job, Taken, Completed, Added, Stalled, Thrown, LastAttempt, FreshJob

----------------------------------------------------------------------------
(* Sweeps.                                                                  *)

Budget == MaxAttempts + MaxStalls

LEMMA Products ==
  ASSUME NEW m \in Nat, NEW n \in Nat, NEW k \in Nat
  PROVE  /\ (m + 1) * k = m * k + k
         /\ m * k \in Nat
         /\ m <= n => m * k <= n * k
  OBVIOUS

LEMMA RunLocals ==
  ASSUME SweepsTypeOK, NEW r \in Runner
  PROVE  /\ UnderWay(r) => sweep[r] \in Sweeping
         /\ UnderWay(r) => sweep[r].no \in 1 .. MaxStarted /\ sweep[r].found \in SUBSET Topic
         /\ UnderWay(r) <=> ~SweepAt(r, "idle")
         /\ SweepAt(r, "rows") => sweep[r].new \in SUBSET Topic
  BY DEF SweepsTypeOK, UnderWay, Sweeping, NotSweeping, SweepAt

\* What the runs do to the tables comes down to four sorts of steps.
Becomes(r, locals) ==
  /\ sweep' \in [Runner -> {NotSweeping} \cup Sweeping]
  /\ sweep'[r] \in locals
  /\ \A s \in Runner : s # r => sweep'[s] = sweep[s]

Advances(r) ==
  /\ sweep[r].pc \in {"get", "fetch", "synthesize"}
  /\ Becomes(r, [pc : {"fetch", "synthesize", "save"}, no : {sweep[r].no}, found : SUBSET Topic])
  /\ UNCHANGED <<sweepJob, holder, saved>>

Leaves(r) ==
  /\ UnderWay(r)
  /\ Becomes(r, {NotSweeping})
  /\ \/ /\ holder = r /\ holder' = NoRunner
        /\ sweepJob' = Thrown(sweepJob, FALSE) \/ sweepJob' = Completed(sweepJob)
     \/ UNCHANGED <<sweepJob, holder>>
  /\ UNCHANGED saved

Locks(r) ==
  /\ SweepAt(r, "save") /\ RowLocked(r)
  /\ Becomes(r, {WithNew(r)})
  /\ UNCHANGED <<sweepJob, holder, saved>>

Saves(r) ==
  /\ brief' = BriefOf(r)
  /\ Becomes(r, [pc : {"done"}, no : {sweep[r].no}, found : {sweep[r].found}])
  /\ \/ SweepAt(r, "save") /\ kind = "research" /\ UNCHANGED <<rows, latest>>
     \/ /\ SweepAt(r, "rows")
        /\ CompetitorRows(r) \/ TrendRows(r)
        /\ latest' = [t \in Topic |-> IF t \in sweep[r].found THEN sweep[r].no ELSE latest[t]]
  /\ UNCHANGED <<sweepJob, holder>>

RunStep(r) ==
  /\ Advances(r) \/ Leaves(r) \/ Locks(r) \/ Saves(r)
  /\ UNCHANGED <<client, asked, accepted, started>>

LEMMA RunSteps ==
  ASSUME SweepsTypeOK, NEW r \in Runner, Proceed(r) \/ Die(r)
  PROVE  RunStep(r)
<1>1. ASSUME NEW locals \in {NotSweeping} \cup Sweeping, NEW S, locals \in S,
             sweep' = [sweep EXCEPT ![r] = locals]
      PROVE  Becomes(r, S)
  BY <1>1 DEF Becomes, SweepsTypeOK
<1>2. ASSUME sweep' = [sweep EXCEPT ![r] = NotSweeping]
      PROVE  Becomes(r, {NotSweeping})
  BY <1>1, <1>2
<1>3. ASSUME Fail(r), UnderWay(r)
      PROVE  Leaves(r)
  BY <1>2, <1>3 DEF Fail, Leaves
<1>4. ASSUME NEW pc \in {"fetch", "synthesize", "save", "done"}, NEW f \in SUBSET Topic,
             UnderWay(r), ~SweepAt(r, "rows")
      PROVE  /\ [sweep[r] EXCEPT !.pc = pc] \in Sweeping
             /\ [sweep[r] EXCEPT !.pc = pc]
                  \in [pc : {pc}, no : {sweep[r].no}, found : {sweep[r].found}]
             /\ [sweep[r] EXCEPT !.pc = pc, !.found = f] \in Sweeping
             /\ [sweep[r] EXCEPT !.pc = pc, !.found = f]
                  \in [pc : {pc}, no : {sweep[r].no}, found : SUBSET Topic]
  <2>1. sweep[r] \in [pc : {"get", "fetch", "synthesize", "save", "done"},
                      no : 1 .. MaxStarted, found : SUBSET Topic]
    BY <1>4, RunLocals DEF Sweeping, SweepAt
  <2> QED
    BY <2>1 DEF Sweeping
<1>5. ASSUME NEW pc \in {"fetch", "save"}, GoOn(r, pc), sweep[r].pc \in {"get", "synthesize"}
      PROVE  Advances(r)
  <2>1. UnderWay(r) /\ ~SweepAt(r, "rows")
    BY <1>5, RunLocals DEF SweepAt
  <2>2. sweep' = [sweep EXCEPT ![r] = [sweep[r] EXCEPT !.pc = pc]]
    BY <1>5 DEF GoOn, SweepsTypeOK
  <2>3. [sweep[r] EXCEPT !.pc = pc]
          \in [pc : {"fetch", "synthesize", "save"}, no : {sweep[r].no}, found : SUBSET Topic]
    BY <1>4, <2>1, RunLocals
  <2>4. [sweep[r] EXCEPT !.pc = pc] \in {NotSweeping} \cup Sweeping
    BY <1>4, <2>1, RunLocals
  <2>5. Becomes(r, [pc : {"fetch", "synthesize", "save"}, no : {sweep[r].no}, found : SUBSET Topic])
    BY <1>1, <2>2, <2>3, <2>4
  <2> QED
    BY <1>5, <2>5 DEF GoOn, Advances
<1>6. CASE GetClient(r) /\ UNCHANGED <<client, asked, accepted, started>>
  BY <1>3, <1>5, <1>6, RunLocals DEF GetClient, SweepAt, RunStep
<1>7. CASE Fetch(r) /\ UNCHANGED <<client, asked, accepted, started>>
  <2>1. UnderWay(r) /\ sweep[r].pc = "fetch" /\ ~SweepAt(r, "rows")
    BY <1>7, RunLocals DEF Fetch, SweepAt
  <2>2. CASE Fail(r)
    BY <1>3, <1>7, <2>1, <2>2 DEF RunStep
  <2>3. ASSUME NEW f \in SUBSET Topic,
               sweep' = [sweep EXCEPT ![r].pc = "synthesize", ![r].found = f],
               UNCHANGED <<sweepJob, holder, saved>>
        PROVE  Advances(r)
    <3>1. sweep' = [sweep EXCEPT ![r] = [sweep[r] EXCEPT !.pc = "synthesize", !.found = f]]
      BY <2>3 DEF SweepsTypeOK
    <3>2. [sweep[r] EXCEPT !.pc = "synthesize", !.found = f]
            \in [pc : {"fetch", "synthesize", "save"}, no : {sweep[r].no}, found : SUBSET Topic]
      BY <1>4, <2>1, RunLocals
    <3>3. [sweep[r] EXCEPT !.pc = "synthesize", !.found = f] \in {NotSweeping} \cup Sweeping
      BY <1>4, <2>1
    <3>4. Becomes(r, [pc : {"fetch", "synthesize", "save"}, no : {sweep[r].no}, found : SUBSET Topic])
      BY <1>1, <3>1, <3>2, <3>3
    <3> QED
      BY <2>1, <2>3, <3>4 DEF Advances
  <2> QED
    BY <1>7, <2>2, <2>3 DEF Fetch, RunStep
<1>8. CASE Synthesize(r) /\ UNCHANGED <<client, asked, accepted, started>>
  BY <1>3, <1>5, <1>8, RunLocals DEF Synthesize, SweepAt, RunStep
<1>9. CASE SaveResearchBrief(r) /\ UNCHANGED <<client, asked, accepted, started>>
  <2>1. UnderWay(r) /\ SweepAt(r, "save") /\ ~SweepAt(r, "rows") /\ kind = "research"
    BY <1>9, RunLocals DEF SaveResearchBrief, SweepAt
  <2>2. CASE Fail(r)
    BY <1>3, <1>9, <2>1, <2>2 DEF RunStep
  <2>3. CASE /\ brief' = BriefOf(r)
             /\ sweep' = [sweep EXCEPT ![r].pc = "done"]
             /\ UNCHANGED <<sweepJob, holder, rows, latest>>
    <3>1. sweep' = [sweep EXCEPT ![r] = [sweep[r] EXCEPT !.pc = "done"]]
      BY <2>3 DEF SweepsTypeOK
    <3>2. Becomes(r, [pc : {"done"}, no : {sweep[r].no}, found : {sweep[r].found}])
      <4>1. /\ [sweep[r] EXCEPT !.pc = "done"] \in {NotSweeping} \cup Sweeping
            /\ [sweep[r] EXCEPT !.pc = "done"]
                 \in [pc : {"done"}, no : {sweep[r].no}, found : {sweep[r].found}]
        BY <1>4, <2>1
      <4> QED
        BY <1>1, <3>1, <4>1
    <3> QED
      BY <1>9, <2>1, <2>3, <3>2 DEF Saves, RunStep
  <2> QED
    BY <1>9, <2>2, <2>3 DEF SaveResearchBrief
<1>10. CASE UpdateClientRow(r) /\ UNCHANGED <<client, asked, accepted, started>>
  <2>1. UnderWay(r) /\ SweepAt(r, "save") /\ RowLocked(r)
    BY <1>10, RunLocals DEF UpdateClientRow, SweepAt
  <2>2. WithNew(r) \in Sweeping
    BY <2>1, RunLocals DEF WithNew, Sweeping
  <2> QED
    BY <1>1, <1>3, <1>10, <2>1, <2>2 DEF UpdateClientRow, Locks, RunStep
<1>11. CASE Commit(r) /\ UNCHANGED <<client, asked, accepted, started>>
  <2>1. UnderWay(r) /\ SweepAt(r, "rows")
    BY <1>11, RunLocals DEF Commit, SweepAt
  <2>2. CASE Fail(r)
    BY <1>3, <1>11, <2>1, <2>2 DEF RunStep
  <2>3. CASE sweep' = [sweep EXCEPT ![r] = [pc |-> "done", no |-> @.no, found |-> @.found]]
    <3>1. sweep' = [sweep EXCEPT ![r] =
                      [pc |-> "done", no |-> sweep[r].no, found |-> sweep[r].found]]
      BY <2>3 DEF SweepsTypeOK
    <3>2. Becomes(r, [pc : {"done"}, no : {sweep[r].no}, found : {sweep[r].found}])
      <4>1. [pc |-> "done", no |-> sweep[r].no, found |-> sweep[r].found] \in Sweeping
        <5>1. sweep[r].no \in 1 .. MaxStarted /\ sweep[r].found \in SUBSET Topic
          BY <2>1, RunLocals DEF SweepAt
        <5>2. \A n \in 1 .. MaxStarted, f \in SUBSET Topic :
                [pc |-> "done", no |-> n, found |-> f] \in Sweeping
          BY DEF Sweeping
        <5> QED
          BY <5>1, <5>2
      <4>2. [pc |-> "done", no |-> sweep[r].no, found |-> sweep[r].found]
              \in [pc : {"done"}, no : {sweep[r].no}, found : {sweep[r].found}]
        OBVIOUS
      <4> QED
        BY <1>1, <3>1, <4>1, <4>2, Zenon
    <3> QED
      BY <1>3, <1>11, <2>1, <3>2 DEF Commit, Saves, RunStep
  <2> QED
    BY <1>11, <2>2, <2>3 DEF Commit
<1>12. CASE Return(r) /\ UNCHANGED <<client, asked, accepted, started>>
  <2>1. UnderWay(r)
    BY <1>12, RunLocals DEF Return, SweepAt
  <2> QED
    BY <1>2, <1>12, <2>1 DEF Return, Leaves, RunStep
<1>13. CASE Die(r)
  BY <1>2, <1>13 DEF Die, Leaves, RunStep, UnderWay
<1> QED
  BY <1>6, <1>7, <1>8, <1>9, <1>10, <1>11, <1>12, <1>13 DEF Proceed

LEMMA SweepsSteps ==
  ASSUME SweepsTypeOK, SweepsNext
  PROVE  \/ SetNiche
         \/ \E d \in SUBSET Topic : Trigger(d)
         \/ ForgetJob
         \/ \E r \in Runner : TakeSweep(r)
         \/ \E r \in Runner : RunStep(r)
         \/ LoseLock
  BY RunSteps DEF SweepsNext

\* Taking, losing and ending a job never gives it more runs than it had.
LEMMA RunsLeftSteps ==
  ASSUME NEW j \in Job, InFlight(j) => j.attempts < MaxAttempts
  PROVE  /\ RunsLeft(j) \in Nat
         /\ RunsLeft(NoJob) = 0
         /\ RunsLeft(FreshJob) = MaxAttempts + MaxStalls
         /\ j.state = "waiting" => RunsLeft(Taken(j)) + 1 = RunsLeft(j)
         /\ j.state = "active" =>
              /\ RunsLeft(Completed(j)) <= RunsLeft(j)
              /\ RunsLeft(Thrown(j, FALSE)) <= RunsLeft(j)
              /\ RunsLeft(Stalled(j)) <= RunsLeft(j)
<1> USE AttemptsAssumption, StallsAssumption
<1>1. /\ j.attempts \in 0 .. MaxAttempts /\ j.stalls \in 0 .. MaxStalls
      /\ j.state \in JobState
  BY DEF Job
<1>2. RunsLeft(j) \in Nat
  BY <1>1 DEF RunsLeft, InFlight
<1>3. RunsLeft(NoJob) = 0 /\ RunsLeft(FreshJob) = MaxAttempts + MaxStalls
  BY DEF RunsLeft, InFlight, NoJob, FreshJob
<1>4. ASSUME j.state = "waiting"
      PROVE  RunsLeft(Taken(j)) + 1 = RunsLeft(j)
  BY <1>1, <1>4, JobFields DEF RunsLeft, InFlight
<1>5. ASSUME j.state = "active"
      PROVE  RunsLeft(Completed(j)) <= RunsLeft(j)
  BY <1>1, <1>2, <1>5, JobFields DEF RunsLeft, InFlight
<1>6. ASSUME j.state = "active"
      PROVE  RunsLeft(Thrown(j, FALSE)) <= RunsLeft(j)
  <2> DEFINE t == Thrown(j, FALSE)
  <2>1. /\ t.attempts = j.attempts + 1
        /\ t.stalls = j.stalls
        /\ t.state \in {"waiting", "failed"}
    BY FALSE \in BOOLEAN, JobFields
  <2> HIDE DEF t
  <2>2. RunsLeft(t) = 0 \/ RunsLeft(t) = (MaxAttempts - (j.attempts + 1)) + (MaxStalls - j.stalls)
    BY <1>1, <2>1 DEF RunsLeft, InFlight
  <2>3. RunsLeft(j) = (MaxAttempts - j.attempts) + (MaxStalls - j.stalls) - 1
    BY <1>6 DEF RunsLeft, InFlight
  <2>4. RunsLeft(t) <= RunsLeft(j)
    BY <1>1, <1>2, <2>2, <2>3
  <2> QED
    BY <2>4 DEF t
<1>7. ASSUME j.state = "active"
      PROVE  RunsLeft(Stalled(j)) <= RunsLeft(j)
  BY <1>1, <1>2, <1>7, JobFields DEF RunsLeft, InFlight
<1> QED
  BY <1>2, <1>3, <1>4, <1>5, <1>6, <1>7

\* The job, its lock, and how many runs it may still have.
LEMMA SweepJobKept ==
  ASSUME SweepsInv, SweepsNext
  PROVE  /\ sweepJob' \in Job /\ asked' \subseteq Topic
         /\ holder' \in Runner \cup {NoRunner}
         /\ holder' # NoRunner <=> sweepJob'.state = "active"
         /\ accepted' \in 0 .. MaxTriggers /\ started' \in 0 .. MaxStarted
         /\ RunsAreCounted'
<1> DEFINE Counted(j, a, n) ==
      /\ InFlight(j) => j.attempts < MaxAttempts
      /\ n + RunsLeft(j) <= a * Budget
<1> USE SweepsAssumption, AttemptsAssumption, StallsAssumption
<1>1. /\ sweepJob \in Job /\ asked \subseteq Topic
      /\ holder \in Runner \cup {NoRunner}
      /\ holder # NoRunner <=> sweepJob.state = "active"
      /\ accepted \in 0 .. MaxTriggers /\ started \in 0 .. MaxStarted
      /\ Counted(sweepJob, accepted, started)
  BY DEF SweepsInv, SweepsTypeOK, RunsAreCounted, Budget
<1>2. Budget \in Nat /\ MaxStarted = MaxTriggers * Budget /\ MaxStarted \in Nat
  BY Products DEF Budget, MaxStarted
<1>3. ASSUME NEW j \in Job, NEW a \in 0 .. MaxTriggers, NEW n \in Nat, Counted(j, a, n)
      PROVE  n \in 0 .. MaxStarted
  <2>1. RunsLeft(j) \in Nat
    BY <1>3, RunsLeftSteps
  <2>2. a * Budget \in Nat /\ a * Budget <= MaxStarted
    BY <1>2, Products
  <2> QED
    BY <1>2, <1>3, <2>1, <2>2
<1>4. (/\ sweepJob' \in Job /\ accepted' \in 0 .. MaxTriggers /\ started' \in Nat
       /\ Counted(sweepJob', accepted', started'))
        => RunsAreCounted' /\ started' \in 0 .. MaxStarted
  BY <1>3 DEF RunsAreCounted, Budget
<1>5. RunsLeft(sweepJob) \in Nat
  BY <1>1, RunsLeftSteps
<1>6. ASSUME InFlight(sweepJob) \/ sweepJob' = sweepJob, UNCHANGED <<accepted, started>>,
             sweepJob' \in Job, InFlight(sweepJob') => sweepJob'.attempts < MaxAttempts,
             RunsLeft(sweepJob') <= RunsLeft(sweepJob)
      PROVE  RunsAreCounted' /\ started' \in 0 .. MaxStarted
  <2>1. RunsLeft(sweepJob') \in Nat
    BY <1>6, RunsLeftSteps
  <2>2. accepted * Budget \in Nat
    BY <1>1, <1>2, Products
  <2>3. Counted(sweepJob', accepted', started')
    BY <1>1, <1>5, <1>6, <2>1, <2>2
  <2> QED
    BY <1>1, <1>4, <1>6, <2>3
<1>7. CASE SetNiche
  BY <1>1, <1>6, <1>7 DEF SetNiche, SweepsInv, RunsAreCounted
<1>8. ASSUME NEW d \in SUBSET Topic, Trigger(d)
      PROVE  /\ sweepJob' \in Job /\ asked' \subseteq Topic
             /\ holder' = holder /\ (sweepJob'.state = "active" <=> sweepJob.state = "active")
             /\ accepted' \in 0 .. MaxTriggers /\ started' \in 0 .. MaxStarted
             /\ RunsAreCounted'
  <2>1. accepted' = accepted + 1 /\ accepted' \in 0 .. MaxTriggers /\ started' = started /\ holder' = holder
    BY <1>1, <1>8 DEF Trigger
  <2>2. sweepJob' \in Job /\ asked' \subseteq Topic
    BY <1>1, <1>8, JobTypes DEF Trigger, EnqueueSweep
  <2>3. \/ sweepJob' = sweepJob
        \/ sweepJob.state = "absent" /\ sweepJob' = FreshJob
    BY <1>1, <1>8, JobFields DEF Trigger, EnqueueSweep, Added
  <2>4. accepted' * Budget = accepted * Budget + Budget /\ accepted * Budget \in Nat
    BY <1>1, <1>2, <2>1, Products
  <2>5. InFlight(sweepJob') => sweepJob'.attempts < MaxAttempts
    BY <1>1, <2>3 DEF FreshJob
  <2>6. started + RunsLeft(sweepJob') <= accepted' * Budget
    <3>1. CASE sweepJob' = sweepJob
      BY <1>1, <1>2, <1>5, <2>4, <3>1
    <3>2. CASE sweepJob.state = "absent" /\ sweepJob' = FreshJob
      <4>1. RunsLeft(sweepJob) = 0 /\ RunsLeft(FreshJob) = Budget
        BY <1>1, <3>2, RunsLeftSteps DEF RunsLeft, InFlight, Budget
      <4> QED
        BY <1>1, <1>2, <2>4, <3>2, <4>1
    <3> QED
      BY <2>3, <3>1, <3>2
  <2>7. started' \in Nat
    BY <1>1, <2>1
  <2>8. Counted(sweepJob', accepted', started')
    BY <2>1, <2>5, <2>6
  <2>9. sweepJob'.state = "active" <=> sweepJob.state = "active"
    BY <2>3 DEF FreshJob
  <2> QED
    BY <1>4, <2>1, <2>2, <2>7, <2>8, <2>9
<1>9. CASE ForgetJob
  <2>1. sweepJob' \in Job /\ sweepJob'.state = "absent" /\ sweepJob.state # "active"
    BY <1>1, <1>9, JobTypes DEF ForgetJob, NoJob
  <2>2. started + RunsLeft(sweepJob') <= accepted * Budget /\ ~InFlight(sweepJob')
    <3>1. RunsLeft(sweepJob) = 0 /\ RunsLeft(sweepJob') = 0
      BY <1>9, <2>1 DEF ForgetJob, RunsLeft, InFlight
    <3> QED
      BY <1>1, <2>1, <3>1 DEF InFlight
  <2>3. Counted(sweepJob', accepted', started')
    BY <1>9, <2>2 DEF ForgetJob
  <2> QED
    BY <1>1, <1>4, <1>9, <2>1, <2>3 DEF ForgetJob
<1>10. ASSUME NEW r \in Runner, TakeSweep(r)
       PROVE  /\ sweepJob' \in Job /\ holder' = r /\ sweepJob'.state = "active"
              /\ started' \in 0 .. MaxStarted /\ RunsAreCounted'
  <2>1. /\ sweepJob.state = "waiting" /\ sweepJob' = Taken(sweepJob)
        /\ started' = started + 1 /\ accepted' = accepted /\ holder' = r
    BY <1>10 DEF TakeSweep
  <2>2. sweepJob' \in Job /\ sweepJob'.state = "active" /\ sweepJob'.attempts = sweepJob.attempts
    BY <1>1, <2>1, JobTypes, JobFields
  <2>3. RunsLeft(sweepJob') + 1 = RunsLeft(sweepJob)
    BY <1>1, <2>1, RunsLeftSteps
  <2>4. InFlight(sweepJob') => sweepJob'.attempts < MaxAttempts
    BY <1>1, <2>1, <2>2 DEF InFlight
  <2>5. RunsLeft(sweepJob') \in Nat
    BY <2>2, <2>4, RunsLeftSteps
  <2>6. accepted * Budget \in Nat
    BY <1>1, <1>2, Products
  <2>7. Counted(sweepJob', accepted', started')
    BY <1>1, <1>5, <2>1, <2>3, <2>4, <2>5, <2>6
  <2>8. started' \in Nat
    BY <1>1, <2>1
  <2> QED
    BY <1>1, <1>4, <2>1, <2>2, <2>7, <2>8
<1>11. ASSUME NEW r \in Runner, RunStep(r)
       PROVE  /\ sweepJob' \in Job /\ holder' \in Runner \cup {NoRunner}
              /\ holder' # NoRunner <=> sweepJob'.state = "active"
              /\ started' \in 0 .. MaxStarted /\ RunsAreCounted'
  <2>1. UNCHANGED <<accepted, started>>
    BY <1>11 DEF RunStep
  <2>2. CASE UNCHANGED <<sweepJob, holder>>
    BY <1>1, <1>5, <1>6, <2>1, <2>2
  <2>3. CASE /\ holder = r /\ holder' = NoRunner
             /\ sweepJob' = Thrown(sweepJob, FALSE) \/ sweepJob' = Completed(sweepJob)
    <3>1. sweepJob.state = "active" /\ InFlight(sweepJob) /\ sweepJob.attempts < MaxAttempts
      BY <1>1, <2>3 DEF InFlight
    <3>2. sweepJob' \in Job /\ sweepJob'.state # "active"
      BY <1>1, <2>3, <3>1, FALSE \in BOOLEAN, JobTypes, JobFields
    <3>3. InFlight(sweepJob') => sweepJob'.attempts < MaxAttempts
      BY <1>1, <2>3, FALSE \in BOOLEAN, JobFields DEF InFlight
    <3>4. RunsLeft(sweepJob') <= RunsLeft(sweepJob)
      BY <1>1, <2>3, <3>1, RunsLeftSteps
    <3>5. RunsAreCounted' /\ started' \in 0 .. MaxStarted
      BY <1>6, <2>1, <3>1, <3>2, <3>3, <3>4
    <3> QED
      BY <2>3, <3>2, <3>5
  <2> QED
    BY <1>11, <2>2, <2>3 DEF RunStep, Advances, Leaves, Locks, Saves
<1>12. CASE LoseLock
  <2>1. /\ sweepJob.state = "active" /\ sweepJob' = Stalled(sweepJob) /\ holder' = NoRunner
        /\ UNCHANGED <<accepted, started, asked>>
    BY <1>12 DEF LoseLock
  <2>2. InFlight(sweepJob) /\ sweepJob.attempts < MaxAttempts
    BY <1>1, <2>1 DEF InFlight
  <2>3. sweepJob' \in Job
    BY <1>1, <2>1, JobTypes
  <2>4. sweepJob'.state # "active" /\ (InFlight(sweepJob') => sweepJob'.attempts < MaxAttempts)
    <3>1. sweepJob.stalls < MaxStalls \/ sweepJob.stalls >= MaxStalls
      BY <1>1 DEF Job
    <3> QED
      BY <1>1, <2>1, <2>2, <3>1, JobFields DEF InFlight
  <2>5. RunsLeft(sweepJob') <= RunsLeft(sweepJob)
    BY <1>1, <2>1, RunsLeftSteps
  <2>6. RunsAreCounted' /\ started' \in 0 .. MaxStarted
    BY <1>6, <2>1, <2>2, <2>3, <2>4, <2>5
  <2> QED
    BY <1>1, <2>1, <2>3, <2>4, <2>6
<1> QED
  <2>1. SweepsTypeOK
    BY DEF SweepsInv
  <2>2. CASE SetNiche
    BY <1>1, <1>7, <2>2 DEF SetNiche, SweepsInv, RunsAreCounted
  <2>3. CASE \E d \in SUBSET Topic : Trigger(d)
    BY <1>1, <1>8, <2>3
  <2>4. CASE ForgetJob
    BY <1>1, <1>9, <2>4
  <2>5. CASE \E r \in Runner : TakeSweep(r)
    BY <1>1, <1>10, <2>5 DEF TakeSweep
  <2>6. CASE \E r \in Runner : RunStep(r)
    BY <1>1, <1>11, <2>6 DEF RunStep
  <2>7. CASE LoseLock
    BY <1>12, <2>7
  <2> QED
    BY <2>1, <2>2, <2>3, <2>4, <2>5, <2>6, <2>7, SweepsSteps

\* Runs and what they saved are numbered by the runs started.
LEMMA SweepNumbersKept ==
  ASSUME SweepsInv, SweepsNext, started' \in 0 .. MaxStarted
  PROVE  /\ sweep' \in [Runner -> {NotSweeping} \cup Sweeping]
         /\ brief' \in [no : 0 .. MaxStarted, found : SUBSET Topic]
         /\ rows' \in [Topic -> Nat] /\ latest' \in [Topic -> 0 .. MaxStarted]
         /\ RunsAreNumbered'
<1>1. /\ SweepsTypeOK
      /\ sweep \in [Runner -> {NotSweeping} \cup Sweeping]
      /\ brief \in [no : 0 .. MaxStarted, found : SUBSET Topic]
      /\ rows \in [Topic -> Nat] /\ latest \in [Topic -> 0 .. MaxStarted]
      /\ started \in 0 .. MaxStarted
      /\ RunsAreNumbered
  BY DEF SweepsInv, SweepsTypeOK
<1>2. CASE UNCHANGED <<sweep, saved, started>>
  BY <1>1, <1>2 DEF saved, RunsAreNumbered, UnderWay
<1>3. ASSUME NEW r \in Runner, TakeSweep(r)
      PROVE  sweep' \in [Runner -> {NotSweeping} \cup Sweeping] /\ RunsAreNumbered'
  <2>1. /\ started' = started + 1 /\ started + 1 \in 1 .. MaxStarted
        /\ UNCHANGED <<brief, rows, latest>>
    BY <1>1, <1>3 DEF TakeSweep, saved
  <2>2. [pc |-> "get", no |-> started + 1, found |-> {}] \in Sweeping
    BY <2>1 DEF Sweeping
  <2>3. /\ sweep' \in [Runner -> {NotSweeping} \cup Sweeping]
        /\ sweep'[r].no = started + 1
        /\ \A s \in Runner : s # r => sweep'[s] = sweep[s]
    BY <1>1, <1>3, <2>2 DEF TakeSweep
  <2>4. \A s \in Runner : UnderWay(s) => sweep[s].no \in 1 .. MaxStarted /\ sweep[s].no <= started
    BY <1>1, RunLocals DEF RunsAreNumbered
  <2>5. brief.no \in 0 .. MaxStarted
    BY <1>1
  <2> QED
    BY <1>1, <2>1, <2>3, <2>4, <2>5 DEF RunsAreNumbered, UnderWay
<1>4. ASSUME NEW r \in Runner, RunStep(r)
      PROVE  /\ sweep' \in [Runner -> {NotSweeping} \cup Sweeping]
             /\ brief' \in [no : 0 .. MaxStarted, found : SUBSET Topic]
             /\ rows' \in [Topic -> Nat] /\ latest' \in [Topic -> 0 .. MaxStarted]
             /\ RunsAreNumbered'
  <2>1. started' = started
    BY <1>4 DEF RunStep
  <2>2. /\ sweep' \in [Runner -> {NotSweeping} \cup Sweeping]
        /\ \A s \in Runner : s # r => sweep'[s] = sweep[s]
        /\ UnderWay(r)
        /\ UnderWay(r)' => sweep'[r].no = sweep[r].no
    <3>1. CASE Advances(r)
      BY <1>1, <3>1, RunLocals DEF Advances, Becomes, SweepAt
    <3>2. CASE Leaves(r)
      BY <3>2 DEF Leaves, Becomes, UnderWay
    <3>3. CASE Locks(r)
      BY <1>1, <3>3, RunLocals DEF Locks, Becomes, SweepAt, WithNew
    <3>4. CASE Saves(r)
      BY <1>1, <3>4, RunLocals DEF Saves, Becomes, SweepAt
    <3> QED
      BY <1>4, <3>1, <3>2, <3>3, <3>4 DEF RunStep
  <2>3. /\ UNCHANGED brief \/ (brief' = BriefOf(r))
        /\ UNCHANGED latest \/ latest' = [t \in Topic |-> IF t \in sweep[r].found THEN sweep[r].no ELSE latest[t]]
        /\ UNCHANGED rows \/ CompetitorRows(r) \/ TrendRows(r)
    BY <1>4 DEF RunStep, Advances, Leaves, Locks, Saves, saved
  <2>4. sweep[r].no \in 1 .. MaxStarted /\ sweep[r].no <= started /\ sweep[r].found \in SUBSET Topic
    BY <1>1, <2>2, RunLocals DEF RunsAreNumbered
  <2>5. brief' \in [no : 0 .. MaxStarted, found : SUBSET Topic] /\ brief'.no <= started
    BY <1>1, <2>3, <2>4 DEF BriefOf, RunsAreNumbered
  <2>6. latest' \in [Topic -> 0 .. MaxStarted] /\ \A t \in Topic : latest'[t] <= started
    BY <1>1, <2>3, <2>4 DEF RunsAreNumbered
  <2>7. rows' \in [Topic -> Nat]
    BY <1>1, <2>3 DEF CompetitorRows, TrendRows
  <2>8. \A s \in Runner : UnderWay(s)' => sweep'[s].no = sweep[s].no /\ UnderWay(s)
    BY <2>2 DEF UnderWay
  <2>9. RunsAreNumbered'
    BY <1>1, <2>1, <2>5, <2>6, <2>8 DEF RunsAreNumbered
  <2> QED
    BY <2>2, <2>5, <2>6, <2>7, <2>9
<1>5. ASSUME NEW r \in Runner, TakeSweep(r)
      PROVE  UNCHANGED saved
  BY <1>5 DEF TakeSweep
<1> QED
  <2>1. \/ UNCHANGED <<sweep, saved, started>>
        \/ \E r \in Runner : TakeSweep(r)
        \/ \E r \in Runner : RunStep(r)
    BY <1>1, SweepsSteps DEF SetNiche, Trigger, ForgetJob, LoseLock
  <2>2. CASE \E r \in Runner : TakeSweep(r)
    BY <1>1, <1>3, <1>5, <2>2 DEF saved
  <2> QED
    BY <1>1, <1>2, <1>4, <2>1, <2>2 DEF saved

\* A number is unseen until its own run saves, and the lock is one run's.
LEMMA SweepSavesKept ==
  ASSUME SweepsInv, SweepsNext
  PROVE  UnsavedIsUnseen' /\ LockHolds' /\ SweepsKeepTheirRows'
<1>1. /\ SweepsTypeOK
      /\ sweep \in [Runner -> {NotSweeping} \cup Sweeping]
      /\ rows \in [Topic -> Nat] /\ latest \in [Topic -> 0 .. MaxStarted]
      /\ started \in 0 .. MaxStarted
      /\ brief \in [no : 0 .. MaxStarted, found : SUBSET Topic]
      /\ kind \in {"research", "competitor", "trend"}
      /\ RunsAreNumbered /\ UnsavedIsUnseen /\ LockHolds /\ OneRowPerRival /\ BriefHasItsRows
  BY DEF SweepsInv, SweepsTypeOK, SweepsKeepTheirRows
<1>2. kind' = kind
  BY SweepsSteps, <1>1 DEF SetNiche, Trigger, ForgetJob, TakeSweep, RunStep, LoseLock, client
<1>3. CASE UNCHANGED <<sweep, saved>>
  BY <1>1, <1>2, <1>3
  DEF saved, UnsavedIsUnseen, LockHolds, OneRowPerRival, BriefHasItsRows, SweepsKeepTheirRows,
      UnderWay, SweepAt
\* A step of a run r that leaves the tables alone.
<1>4. ASSUME NEW r \in Runner, UNCHANGED saved,
             \A s \in Runner : s # r => sweep'[s] = sweep[s],
             \/ sweep'[r] = NotSweeping
             \/ /\ ~SweepAt(r, "rows")'
                /\ \/ sweep'[r].no = started + 1
                   \/ UnderWay(r) /\ ~SweepAt(r, "done") /\ sweep'[r].no = sweep[r].no
      PROVE  UnsavedIsUnseen' /\ LockHolds' /\ SweepsKeepTheirRows'
  <2>1. UNCHANGED <<brief, rows, latest>>
    BY <1>4 DEF saved
  <2>2. SweepsKeepTheirRows'
    BY <1>1, <1>2, <2>1 DEF OneRowPerRival, BriefHasItsRows, SweepsKeepTheirRows
  <2>3. \A s \in Runner : SweepAt(s, "rows")' => s # r /\ SweepAt(s, "rows") /\ sweep'[s] = sweep[s]
    BY <1>4 DEF SweepAt, NotSweeping
  <2>4. LockHolds'
    BY <1>1, <1>2, <2>1, <2>3 DEF LockHolds
  <2>5. brief.no \in Nat /\ brief.no <= started /\ \A t \in Topic : latest[t] \in Nat /\ latest[t] <= started
    BY <1>1 DEF RunsAreNumbered
  <2>6. ASSUME NEW s \in Runner, UnderWay(s)', ~SweepAt(s, "done")'
        PROVE  /\ brief'.no # sweep'[s].no
               /\ \A t \in Topic : latest'[t] # sweep'[s].no
    <3>1. CASE s # r
      BY <1>1, <1>4, <2>1, <2>6, <3>1 DEF UnsavedIsUnseen, UnderWay, SweepAt
    <3>2. CASE s = r /\ sweep'[r].no = started + 1
      BY <1>1, <2>1, <2>5, <3>2
    <3>3. CASE s = r /\ UnderWay(r) /\ ~SweepAt(r, "done") /\ sweep'[r].no = sweep[r].no
      BY <1>1, <2>1, <3>3 DEF UnsavedIsUnseen
    <3> QED
      BY <1>4, <2>6, <3>1, <3>2, <3>3 DEF UnderWay
  <2> QED
    BY <2>2, <2>4, <2>6 DEF UnsavedIsUnseen
<1>5. CASE \E r \in Runner : TakeSweep(r)
  <2> PICK r \in Runner : TakeSweep(r)
    BY <1>5
  <2>1. /\ UNCHANGED saved
        /\ sweep'[r] = [pc |-> "get", no |-> started + 1, found |-> {}]
        /\ \A s \in Runner : s # r => sweep'[s] = sweep[s]
    BY <1>1 DEF TakeSweep
  <2> QED
    BY <1>4, <2>1 DEF SweepAt
<1>6. ASSUME NEW r \in Runner, Advances(r)
      PROVE  UnsavedIsUnseen' /\ LockHolds' /\ SweepsKeepTheirRows'
  <2>1. /\ UNCHANGED saved /\ UnderWay(r) /\ ~SweepAt(r, "done")
        /\ sweep'[r].no = sweep[r].no /\ ~SweepAt(r, "rows")'
        /\ \A s \in Runner : s # r => sweep'[s] = sweep[s]
    BY <1>1, <1>6, RunLocals DEF Advances, Becomes, SweepAt
  <2> QED
    BY <1>4, <2>1
<1>7. ASSUME NEW r \in Runner, Leaves(r)
      PROVE  UnsavedIsUnseen' /\ LockHolds' /\ SweepsKeepTheirRows'
  BY <1>4, <1>7 DEF Leaves, Becomes
<1>8. ASSUME NEW r \in Runner, Locks(r)
      PROVE  UnsavedIsUnseen' /\ LockHolds' /\ SweepsKeepTheirRows'
  <2>1. /\ UNCHANGED <<brief, rows, latest>> /\ UnderWay(r) /\ ~SweepAt(r, "done")
        /\ sweep'[r].no = sweep[r].no
        /\ sweep'[r].new = {t \in sweep[r].found : rows[t] = 0}
        /\ \A s \in Runner : s # r => sweep'[s] = sweep[s]
    BY <1>1, <1>8, RunLocals DEF Locks, Becomes, SweepAt, saved, WithNew
  <2>2. SweepsKeepTheirRows'
    BY <1>1, <1>2, <2>1 DEF OneRowPerRival, BriefHasItsRows, SweepsKeepTheirRows
  <2>3. \A s \in Runner : SweepAt(s, "rows")' => s = r
    BY <1>8, <2>1 DEF Locks, RowLocked, SweepAt
  <2>4. LockHolds'
    BY <2>1, <2>3 DEF LockHolds
  <2>5. UnsavedIsUnseen'
    BY <1>1, <2>1 DEF UnsavedIsUnseen, UnderWay, SweepAt
  <2> QED
    BY <2>2, <2>4, <2>5
<1>9. ASSUME NEW r \in Runner, Saves(r)
      PROVE  UnsavedIsUnseen' /\ LockHolds' /\ SweepsKeepTheirRows'
  <2>1. /\ sweep'[r].pc = "done" /\ sweep'[r].no = sweep[r].no
        /\ \A s \in Runner : s # r => sweep'[s] = sweep[s]
        /\ brief' = BriefOf(r) /\ UnderWay(r) /\ ~SweepAt(r, "done")
    BY <1>1, <1>9, RunLocals DEF Saves, Becomes, SweepAt
  <2>2. brief'.no = sweep[r].no /\ brief'.found = sweep[r].found /\ sweep[r].found \in SUBSET Topic
    BY <1>1, <2>1, RunLocals DEF BriefOf
  <2>3. \/ UNCHANGED <<rows, latest>> /\ kind = "research"
        \/ /\ SweepAt(r, "rows")
           /\ CompetitorRows(r) \/ TrendRows(r)
           /\ latest' = [t \in Topic |-> IF t \in sweep[r].found THEN sweep[r].no ELSE latest[t]]
    BY <1>9 DEF Saves
  <2>4. ASSUME NEW s \in Runner, UnderWay(s)', ~SweepAt(s, "done")'
        PROVE  /\ brief'.no # sweep'[s].no
               /\ \A t \in Topic : latest'[t] # sweep'[s].no
    <3>1. s # r /\ sweep'[s] = sweep[s] /\ UnderWay(s) /\ ~SweepAt(s, "done")
      BY <2>1, <2>4 DEF UnderWay, SweepAt
    <3>2. sweep[s].no # sweep[r].no /\ \A t \in Topic : latest[t] # sweep[s].no
      BY <1>1, <2>1, <3>1 DEF RunsAreNumbered, UnsavedIsUnseen
    <3> QED
      BY <2>2, <2>3, <3>1, <3>2
  <2>5. \A s \in Runner : SweepAt(s, "rows")' => s # r /\ SweepAt(s, "rows") /\ sweep'[s] = sweep[s]
    BY <2>1 DEF SweepAt
  <2>6. LockHolds'
    <3>1. CASE UNCHANGED rows
      BY <1>1, <1>2, <2>5, <3>1 DEF LockHolds
    <3>2. CASE SweepAt(r, "rows")
      BY <1>1, <2>5, <3>2 DEF LockHolds
    <3> QED
      BY <2>3, <3>1, <3>2
  <2>7. OneRowPerRival'
    <3>1. CASE UNCHANGED rows
      BY <1>1, <1>2, <3>1 DEF OneRowPerRival
    <3>2. CASE SweepAt(r, "rows") /\ kind = "competitor"
      <4>1. \A t \in sweep[r].new : rows[t] = 0
        BY <1>1, <3>2 DEF LockHolds
      <4>2. \A t \in Topic : rows[t] \in Nat /\ rows[t] <= 1
        BY <1>1, <3>2 DEF OneRowPerRival
      <4>3. rows' = rows \/ rows' = [t \in Topic |-> rows[t] + IF t \in sweep[r].new THEN 1 ELSE 0]
        BY <2>3, <3>2 DEF CompetitorRows, TrendRows
      <4>4. \A t \in Topic : rows'[t] <= 1
        BY <4>1, <4>2, <4>3
      <4> QED
        BY <4>4 DEF OneRowPerRival
    <3>3. CASE kind # "competitor"
      BY <1>2, <3>3 DEF OneRowPerRival
    <3> QED
      BY <2>3, <3>1, <3>2, <3>3
  <2>8. BriefHasItsRows'
    <3>1. CASE kind = "research"
      BY <1>2, <3>1 DEF BriefHasItsRows
    <3>2. CASE kind # "research"
      <4>1. \A t \in Topic : latest[t] # sweep[r].no
        BY <1>1, <2>1 DEF UnsavedIsUnseen
      <4> QED
        BY <2>2, <2>3, <3>2, <4>1 DEF BriefHasItsRows
    <3> QED
      BY <3>1, <3>2
  <2> QED
    BY <2>4, <2>6, <2>7, <2>8 DEF UnsavedIsUnseen, SweepsKeepTheirRows
<1> QED
  <2>1. \/ UNCHANGED <<sweep, saved>>
        \/ \E r \in Runner : TakeSweep(r)
        \/ \E r \in Runner : RunStep(r)
    BY <1>1, SweepsSteps DEF SetNiche, Trigger, ForgetJob, LoseLock
  <2> QED
    BY <1>3, <1>5, <1>6, <1>7, <1>8, <1>9, <2>1 DEF RunStep

LEMMA SweepsInitially == SweepsInit => SweepsInv
<1> SUFFICES ASSUME SweepsInit PROVE SweepsInv
  OBVIOUS
<1> USE SweepsAssumption, AttemptsAssumption, StallsAssumption
<1>1. MaxStarted \in Nat /\ MaxTriggers * Budget = MaxStarted /\ 0 * Budget = 0
  BY Products DEF MaxStarted, Budget
<1>2. sweepJob = NoJob /\ NoJob.state = "absent" /\ NoJob \in Job /\ RunsLeft(NoJob) = 0
  BY DEF SweepsInit, NoJob, Job, JobState, RunsLeft, InFlight
<1>3. SweepsTypeOK
  <2>1. NoBrief \in [no : 0 .. MaxStarted, found : SUBSET Topic]
    BY <1>1 DEF NoBrief
  <2> QED
    BY <1>1, <1>2, <2>1 DEF SweepsInit, SweepsTypeOK
<1>4. RunsAreCounted
  BY <1>1, <1>2 DEF SweepsInit, RunsAreCounted, Budget, InFlight
<1>5. \A r \in Runner : ~UnderWay(r) /\ ~SweepAt(r, "rows")
  BY DEF SweepsInit, UnderWay, SweepAt, NotSweeping
<1>6. RunsAreNumbered /\ UnsavedIsUnseen /\ LockHolds /\ SweepsKeepTheirRows
  BY <1>5 DEF SweepsInit, RunsAreNumbered, UnsavedIsUnseen, LockHolds, SweepsKeepTheirRows,
              OneRowPerRival, BriefHasItsRows, NoBrief
<1> QED
  BY <1>3, <1>4, <1>6 DEF SweepsInv

\* The numbering of the runs, the lock and the tables hold together.
THEOREM SweepsInvariance == SweepsSpec => []SweepsInv
<1>1. SweepsInv /\ [SweepsNext]_sweepVars => SweepsInv'
  <2> SUFFICES ASSUME SweepsInv, [SweepsNext]_sweepVars PROVE SweepsInv'
    OBVIOUS
  <2>1. CASE SweepsNext
    <3>1. /\ sweepJob' \in Job /\ asked' \subseteq Topic
          /\ holder' \in Runner \cup {NoRunner}
          /\ holder' # NoRunner <=> sweepJob'.state = "active"
          /\ accepted' \in 0 .. MaxTriggers /\ started' \in 0 .. MaxStarted
          /\ RunsAreCounted'
      BY <2>1, SweepJobKept
    <3>2. /\ sweep' \in [Runner -> {NotSweeping} \cup Sweeping]
          /\ brief' \in [no : 0 .. MaxStarted, found : SUBSET Topic]
          /\ rows' \in [Topic -> Nat] /\ latest' \in [Topic -> 0 .. MaxStarted]
          /\ RunsAreNumbered'
      BY <2>1, <3>1, SweepNumbersKept
    <3>3. kind' \in {"research", "competitor", "trend"} /\ niche' \in BOOLEAN
      BY <2>1, SweepsSteps
      DEF SweepsInv, SweepsTypeOK, SetNiche, Trigger, ForgetJob, TakeSweep, RunStep, LoseLock, client
    <3>4. SweepsTypeOK'
      BY <3>1, <3>2, <3>3 DEF SweepsTypeOK
    <3> QED
      BY <2>1, <3>1, <3>2, <3>4, SweepSavesKept DEF SweepsInv
  <2>2. CASE UNCHANGED sweepVars
    BY <2>2 DEF sweepVars, SweepsInv, SweepsTypeOK, RunsAreCounted, RunsAreNumbered,
                UnsavedIsUnseen, LockHolds, SweepsKeepTheirRows, OneRowPerRival, BriefHasItsRows,
                UnderWay, SweepAt
  <2> QED
    BY <2>1, <2>2
<1> QED
  BY <1>1, SweepsInitially, PTL DEF SweepsSpec

\* One row per tracked channel, and a brief with the metrics of its own run:
\* saveCompetitorSweep and saveTrendSweep, over retries and lost locks.
THEOREM SweepsKeepRows == SweepsSpec => []SweepsKeepTheirRows
<1>1. SweepsInv => SweepsKeepTheirRows
  BY DEF SweepsInv
<1> QED
  BY <1>1, SweepsInvariance, PTL

\* A lock has a holder exactly while the job is active, and no sweep runs more
\* often than its attempts and stalls allow.
THEOREM SweepsTypeCorrect == SweepsSpec => []SweepsTypeOK
<1>1. SweepsInv => SweepsTypeOK
  BY DEF SweepsInv
<1> QED
  BY <1>1, SweepsInvariance, PTL

----------------------------------------------------------------------------
(* Reports.                                                                 *)

\* The facts every step starts from, with the mails of one client.
LEMMA ReportsFacts ==
  ASSUME ReportsInv
  PROVE  /\ support \in [Agency -> Address \cup {NoAddress}]
         /\ digestJob \in Job /\ digestJob.stalls \in 0 .. MaxStalls
         /\ digest \in [pc : {"idle", "targets", "mailing"}, todo : SUBSET Target, done : SUBSET Target]
         /\ digest.pc # "idle" => digestJob.state = "active"
         /\ mails \in [Client -> 0 .. 1 + MaxStalls]
         /\ known \in [Agency -> SUBSET (Address \cup {NoAddress})]
         /\ InFlight(digestJob) => digestJob.attempts = 0
         /\ \A t \in Target : t.client \in Client /\ t.to \in Address
         /\ \A c \in Client : AgencyOf[c] \in Agency
         /\ MaxStalls \in Nat /\ MaxAttempts \in Nat /\ 0 < MaxAttempts
  BY TenancyAssumption, AttemptsAssumption, StallsAssumption
  DEF ReportsInv, ReportsTypeOK, DigestsAreNotRetried, Target, Job

LEMMA UpdateBrandingKept ==
  ASSUME ReportsInv, NEW a \in Agency, NEW x \in Address \cup {NoAddress}, UpdateBranding(a, x)
  PROVE  ReportsInv'
<1>1. /\ UNCHANGED <<digestJob, digest, mails>>
      /\ support[a] # x
      /\ support' = [support EXCEPT ![a] = x]
      /\ known' = [known EXCEPT ![a] = @ \cup {x}]
  BY DEF UpdateBranding
<1>2. ReportsTypeOK'
  BY <1>1, ReportsFacts DEF ReportsTypeOK, ReportsInv
<1>3. \A b \in Agency : known[b] \subseteq known'[b] /\ (b # a => known'[b] = known[b])
  BY <1>1, ReportsFacts
<1>4. KnownIsCurrent'
  BY <1>1, ReportsFacts DEF ReportsInv, KnownIsCurrent
<1>5. TargetsAreKnown' /\ ReportsStayHome'
  BY <1>1, <1>3, ReportsFacts DEF ReportsInv, TargetsAreKnown, ReportsArrive, ReportsStayHome
\* An edit leaves no agency with the one address it had all along.
<1>6. ASSUME digest.pc # "idle" \/ digestJob.state = "completed", NEW b \in Agency, NEW y \in Address,
             known'[b] = {y}
      PROVE  known[b] = {y}
  <2>1. support[b] \in known[b]
    BY <1>6 DEF ReportsInv, KnownIsCurrent
  <2>2. CASE b = a
    <3>1. known'[a] = known[a] \cup {x}
      BY <1>1, ReportsFacts
    <3> QED
      BY <1>1, <1>6, <2>1, <2>2, <3>1
  <2> QED
    BY <1>3, <1>6, <2>2
<1>7. NobodyIsForgotten'
  BY <1>1, <1>6, ReportsFacts DEF ReportsInv, NobodyIsForgotten
<1>8. DigestReachesAll'
  BY <1>1, <1>6, ReportsFacts DEF ReportsInv, ReportsArrive, DigestReachesAll
<1>9. DigestsAreNotRetried' /\ MailsAreCounted'
  BY <1>1 DEF ReportsInv, DigestsAreNotRetried, MailsAreCounted
<1> QED
  BY <1>2, <1>4, <1>5, <1>7, <1>8, <1>9 DEF ReportsInv, ReportsArrive

LEMMA HeartbeatKept ==
  ASSUME ReportsInv, Heartbeat
  PROVE  ReportsInv'
<1>1. /\ UNCHANGED <<support, digest, known>> /\ ~InFlight(digestJob)
      /\ digestJob' = FreshJob /\ mails' = [c \in Client |-> 0]
  BY DEF Heartbeat
<1>2. digest.pc = "idle" /\ FreshJob \in Job /\ FreshJob.state = "waiting"
      /\ FreshJob.attempts = 0 /\ FreshJob.stalls = 0
  BY <1>1, ReportsFacts, JobTypes DEF InFlight, FreshJob
<1>3. ReportsTypeOK'
  BY <1>1, <1>2, ReportsFacts DEF ReportsTypeOK
<1>4. DigestsAreNotRetried' /\ KnownIsCurrent' /\ NobodyIsForgotten'
  BY <1>1, <1>2 DEF DigestsAreNotRetried, KnownIsCurrent, NobodyIsForgotten
<1>5. TargetsAreKnown' /\ digest.todo = {}
  BY <1>1, <1>2 DEF ReportsInv, TargetsAreKnown
<1>6. MailsAreCounted' /\ ReportsStayHome' /\ DigestReachesAll'
  BY <1>1, <1>2, <1>5 DEF ReportsInv, MailsAreCounted, ReportsArrive, ReportsStayHome, DigestReachesAll
<1> QED
  BY <1>3, <1>4, <1>5, <1>6 DEF ReportsInv, ReportsArrive

LEMMA TakeDigestKept ==
  ASSUME ReportsInv, TakeDigest
  PROVE  ReportsInv'
<1>1. /\ UNCHANGED <<support, mails>> /\ digestJob.state = "waiting"
      /\ digestJob' = Taken(digestJob)
      /\ digest' = [pc |-> "targets", todo |-> {}, done |-> {}]
      /\ known' = [a \in Agency |-> {support[a]}]
  BY DEF TakeDigest, NoDigest
<1>2. digestJob' \in Job /\ digestJob'.state = "active" /\ digestJob'.attempts = digestJob.attempts
      /\ digestJob'.stalls = digestJob.stalls
  BY <1>1, ReportsFacts, JobTypes, JobFields
<1>3. ReportsTypeOK'
  BY <1>1, <1>2, ReportsFacts DEF ReportsTypeOK
<1>4. DigestsAreNotRetried' /\ KnownIsCurrent' /\ NobodyIsForgotten' /\ TargetsAreKnown'
  BY <1>1, <1>2, ReportsFacts DEF InFlight, DigestsAreNotRetried, KnownIsCurrent, NobodyIsForgotten, TargetsAreKnown
<1>5. \A c \in Client : mails[c] <= digestJob.stalls /\ mails[c] <= 1 + digestJob.stalls
  BY <1>1, ReportsFacts DEF ReportsInv, MailsAreCounted
<1>6. MailsAreCounted' /\ ReportsStayHome' /\ DigestReachesAll'
  BY <1>1, <1>2, <1>5, ReportsFacts DEF MailsAreCounted, ReportsStayHome, DigestReachesAll
<1> QED
  BY <1>3, <1>4, <1>6 DEF ReportsInv, ReportsArrive

\* A run that is abandoned, or ends by throwing, leaves no targets behind.
LEMMA NoDigestKept ==
  ASSUME ReportsInv, digest.pc # "idle", digest' = NoDigest, UNCHANGED <<support, mails, known>>,
         digestJob' = digestJob \/ digestJob' = Thrown(digestJob, TRUE)
  PROVE  ReportsInv'
<1>1. digest'.pc = "idle" /\ digest'.todo = {} /\ digest'.done = {}
      /\ digest' \in [pc : {"idle", "targets", "mailing"}, todo : SUBSET Target, done : SUBSET Target]
  BY DEF NoDigest
<1>2. digestJob.state = "active" /\ digestJob.attempts = 0
  BY ReportsFacts DEF InFlight
<1>3. digestJob' \in Job /\ digestJob'.stalls = digestJob.stalls
      /\ digestJob'.state \in {"active", "failed"} /\ (InFlight(digestJob') => digestJob'.attempts = 0)
  <2>1. CASE digestJob' = Thrown(digestJob, TRUE)
    <3>1. TRUE \in BOOLEAN
      OBVIOUS
    <3>2. digestJob' \in Job
      BY <1>2, <2>1, <3>1, ReportsFacts, JobTypes
    <3>3. digestJob'.stalls = digestJob.stalls /\ digestJob'.state = "failed"
      BY <2>1, <3>1, ReportsFacts, JobFields
    <3> QED
      BY <3>2, <3>3 DEF InFlight
  <2> QED
    BY <1>2, <2>1, ReportsFacts
<1>4. ReportsTypeOK'
  BY <1>1, <1>3, ReportsFacts DEF ReportsTypeOK
<1>5. DigestsAreNotRetried' /\ KnownIsCurrent' /\ NobodyIsForgotten' /\ TargetsAreKnown'
  BY <1>1, <1>3 DEF DigestsAreNotRetried, KnownIsCurrent, NobodyIsForgotten, TargetsAreKnown
<1>6. MailsAreCounted' /\ ReportsStayHome' /\ DigestReachesAll'
  BY <1>1, <1>3 DEF ReportsInv, ReportsArrive, MailsAreCounted, ReportsStayHome, DigestReachesAll
<1> QED
  BY <1>4, <1>5, <1>6 DEF ReportsInv, ReportsArrive

LEMMA ReadTargetsKept ==
  ASSUME ReportsInv, ReadTargets
  PROVE  ReportsInv'
<1>1. digest.pc = "targets" /\ UNCHANGED <<support, mails, known>>
  BY DEF ReadTargets
<1>2. CASE digest' = NoDigest /\ digestJob' = Thrown(digestJob, TRUE)
  BY <1>1, <1>2, NoDigestKept
<1>3. CASE /\ digest' = [digest EXCEPT !.pc = "mailing", !.todo = DigestTargets]
           /\ UNCHANGED digestJob
  <2>1. DigestTargets \in SUBSET Target
    BY ReportsFacts DEF DigestTargets, Target
  <2>2. /\ digest'.pc = "mailing" /\ digest'.todo = DigestTargets /\ digest'.done = digest.done
        /\ digest' \in [pc : {"idle", "targets", "mailing"}, todo : SUBSET Target, done : SUBSET Target]
    BY <1>3, <2>1, ReportsFacts
  <2>3. ReportsTypeOK'
    BY <1>1, <1>3, <2>2, ReportsFacts DEF ReportsTypeOK
  <2>4. \A a \in Agency : support[a] \in known[a]
    BY <1>1 DEF ReportsInv, KnownIsCurrent
  <2>5. DigestsAreNotRetried' /\ KnownIsCurrent'
    BY <1>1, <1>3, <2>4, ReportsFacts DEF DigestsAreNotRetried, KnownIsCurrent
  <2>6. TargetsAreKnown' /\ ReportsStayHome'
    BY <1>1, <2>2, <2>4, ReportsFacts
    DEF DigestTargets, TargetsAreKnown, ReportsInv, ReportsArrive, ReportsStayHome
  <2>7. NobodyIsForgotten'
    <3>1. ASSUME NEW c \in Client, NEW x \in Address, known[AgencyOf[c]] = {x}
          PROVE  [client |-> c, to |-> x] \in DigestTargets
      <4>1. support[AgencyOf[c]] = x /\ x # NoAddress
        BY <2>4, <3>1, ReportsFacts, ReportsAssumption
      <4> QED
        BY <4>1 DEF DigestTargets
    <3> QED
      BY <1>1, <2>2, <3>1 DEF NobodyIsForgotten
  <2>8. MailsAreCounted' /\ DigestReachesAll'
    BY <1>1, <1>3, <2>1, <2>2, ReportsFacts DEF ReportsInv, ReportsArrive, MailsAreCounted, DigestReachesAll
  <2> QED
    BY <2>3, <2>5, <2>6, <2>7, <2>8 DEF ReportsInv, ReportsArrive
<1> QED
  BY <1>2, <1>3 DEF ReadTargets

LEMMA MailTargetKept ==
  ASSUME ReportsInv, NEW t \in digest.todo, MailTarget(t)
  PROVE  ReportsInv'
<1>1. /\ digest.pc = "mailing" /\ UNCHANGED <<support, digestJob, known>>
      /\ digest' = [digest EXCEPT !.todo = @ \ {t}, !.done = @ \cup {t}]
      /\ mails' = [mails EXCEPT ![t.client] = @ + 1] \/ mails' = mails
  BY DEF MailTarget, Mail, Mailed
<1>2. t \in Target /\ t.client \in Client /\ mails[t.client] <= digestJob.stalls
  BY ReportsFacts DEF ReportsInv, MailsAreCounted
<1>3. /\ digest'.pc = "mailing" /\ digest'.todo = digest.todo \ {t} /\ digest'.done = digest.done \cup {t}
      /\ digest' \in [pc : {"idle", "targets", "mailing"}, todo : SUBSET Target, done : SUBSET Target]
  BY <1>1, <1>2, ReportsFacts
<1>4. \A c \in Client : /\ mails'[c] \in 0 .. 1 + MaxStalls
                        /\ c # t.client => mails'[c] = mails[c]
                        /\ c = t.client => mails'[c] <= 1 + digestJob.stalls
  BY <1>1, <1>2, ReportsFacts
<1>5. mails' \in [Client -> 0 .. 1 + MaxStalls]
  BY <1>1, <1>4, ReportsFacts
<1>6. ReportsTypeOK'
  BY <1>1, <1>3, <1>5, ReportsFacts DEF ReportsTypeOK
<1>7. DigestsAreNotRetried' /\ KnownIsCurrent' /\ NobodyIsForgotten'
  BY <1>1, <1>3 DEF ReportsInv, DigestsAreNotRetried, KnownIsCurrent, NobodyIsForgotten
<1>8. TargetsAreKnown' /\ ReportsStayHome'
  BY <1>1, <1>3 DEF ReportsInv, TargetsAreKnown, ReportsArrive, ReportsStayHome
<1>9. \A u \in digest'.todo : u.client # t.client /\ u.client \in Client
  BY <1>3, ReportsFacts DEF ReportsInv, TargetsAreKnown
<1>10. MailsAreCounted'
  BY <1>1, <1>3, <1>4, <1>9, ReportsFacts DEF ReportsInv, MailsAreCounted
<1>11. DigestReachesAll'
  BY <1>1, <1>3, <1>4, ReportsFacts DEF ReportsInv, ReportsArrive, DigestReachesAll
<1> QED
  BY <1>6, <1>7, <1>8, <1>10, <1>11 DEF ReportsInv, ReportsArrive

LEMMA EndDigestKept ==
  ASSUME ReportsInv, EndDigest
  PROVE  ReportsInv'
<1>1. /\ digest.pc = "mailing" /\ digest.todo = {} /\ UNCHANGED <<support, mails, known>>
      /\ digestJob' = Completed(digestJob)
      /\ digest' = [digest EXCEPT !.pc = "idle"]
  BY DEF EndDigest
<1>2. digestJob' \in Job /\ digestJob'.state = "completed" /\ digestJob'.stalls = digestJob.stalls
  BY <1>1, ReportsFacts, JobTypes, JobFields
<1>3. /\ digest'.pc = "idle" /\ digest'.todo = {} /\ digest'.done = digest.done
      /\ digest' \in [pc : {"idle", "targets", "mailing"}, todo : SUBSET Target, done : SUBSET Target]
  BY <1>1, ReportsFacts
<1>4. ReportsTypeOK'
  BY <1>1, <1>2, <1>3, ReportsFacts DEF ReportsTypeOK
<1>5. DigestsAreNotRetried' /\ KnownIsCurrent' /\ NobodyIsForgotten' /\ TargetsAreKnown'
  BY <1>1, <1>2, <1>3
  DEF InFlight, ReportsInv, DigestsAreNotRetried, KnownIsCurrent, NobodyIsForgotten, TargetsAreKnown
<1>6. MailsAreCounted' /\ ReportsStayHome' /\ DigestReachesAll'
  BY <1>1, <1>2, <1>3
  DEF ReportsInv, ReportsArrive, MailsAreCounted, ReportsStayHome, DigestReachesAll, NobodyIsForgotten
<1> QED
  BY <1>4, <1>5, <1>6 DEF ReportsInv, ReportsArrive

LEMMA StallDigestKept ==
  ASSUME ReportsInv, StallDigest
  PROVE  ReportsInv'
<1>1. /\ digestJob.state = "active" /\ digest.pc = "idle" /\ UNCHANGED <<support, digest, mails, known>>
      /\ digestJob' = Stalled(digestJob)
  BY DEF StallDigest
<1>2. digestJob' \in Job
  BY <1>1, ReportsFacts, JobTypes
<1>3. \/ /\ digestJob'.state = "waiting" /\ digestJob'.attempts = 0
         /\ digestJob'.stalls = digestJob.stalls + 1
      \/ digestJob'.state = "failed" /\ digestJob'.stalls = digestJob.stalls
  <2>1. digestJob.stalls < MaxStalls \/ digestJob.stalls >= MaxStalls
    BY ReportsFacts
  <2>2. digestJob.attempts = 0
    BY <1>1, ReportsFacts DEF InFlight
  <2> QED
    BY <1>1, <2>1, <2>2, ReportsFacts, JobFields
<1>4. ReportsTypeOK'
  BY <1>1, <1>2, ReportsFacts DEF ReportsTypeOK
<1>5. DigestsAreNotRetried' /\ KnownIsCurrent' /\ NobodyIsForgotten' /\ TargetsAreKnown'
  BY <1>1, <1>3
  DEF InFlight, ReportsInv, DigestsAreNotRetried, KnownIsCurrent, NobodyIsForgotten, TargetsAreKnown
<1>6. \A c \in Client : mails[c] \in Nat /\ mails[c] <= 1 + digestJob.stalls
  BY ReportsFacts DEF ReportsInv, ReportsArrive, DigestReachesAll
<1>7. digest.todo = {}
  BY <1>1 DEF ReportsInv, TargetsAreKnown
<1>8. MailsAreCounted' /\ ReportsStayHome' /\ DigestReachesAll'
  BY <1>1, <1>3, <1>6, <1>7, ReportsFacts
  DEF ReportsInv, ReportsArrive, MailsAreCounted, ReportsStayHome, DigestReachesAll
<1> QED
  BY <1>4, <1>5, <1>8 DEF ReportsInv, ReportsArrive

LEMMA ReportsInitially == ReportsInit => ReportsInv
<1> SUFFICES ASSUME ReportsInit PROVE ReportsInv
  OBVIOUS
<1>1. NoJob \in Job /\ NoJob.state = "absent" /\ MaxStalls \in Nat /\ NoJob.stalls = 0
  BY AttemptsAssumption, StallsAssumption DEF NoJob, Job, JobState
<1>2. NoDigest.pc = "idle" /\ NoDigest.todo = {} /\ NoDigest.done = {}
      /\ NoDigest \in [pc : {"idle", "targets", "mailing"}, todo : SUBSET Target, done : SUBSET Target]
  BY DEF NoDigest
<1>3. ReportsTypeOK
  BY <1>1, <1>2 DEF ReportsInit, ReportsTypeOK
<1>4. DigestsAreNotRetried /\ KnownIsCurrent /\ NobodyIsForgotten /\ TargetsAreKnown /\ MailsAreCounted
  BY <1>1, <1>2
  DEF ReportsInit, InFlight, DigestsAreNotRetried, KnownIsCurrent, NobodyIsForgotten, TargetsAreKnown, MailsAreCounted
<1>5. ReportsArrive
  BY <1>1, <1>2 DEF ReportsInit, ReportsArrive, ReportsStayHome, DigestReachesAll
<1> QED
  BY <1>3, <1>4, <1>5 DEF ReportsInv

\* What a digest has mailed, has still to mail and may mail again.
THEOREM ReportsInvariance == ReportsSpec => []ReportsInv
<1>1. ReportsInv /\ [ReportsNext]_reportVars => ReportsInv'
  <2> SUFFICES ASSUME ReportsInv, [ReportsNext]_reportVars PROVE ReportsInv'
    OBVIOUS
  <2>1. CASE UNCHANGED reportVars
    BY <2>1 DEF reportVars, ReportsInv, ReportsTypeOK, DigestsAreNotRetried, KnownIsCurrent,
                TargetsAreKnown, NobodyIsForgotten, MailsAreCounted, ReportsArrive,
                ReportsStayHome, DigestReachesAll
  <2>2. CASE DigestDies
    BY <2>2, NoDigestKept DEF DigestDies
  <2> QED
    BY <2>1, <2>2, UpdateBrandingKept, HeartbeatKept, TakeDigestKept, ReadTargetsKept, MailTargetKept,
       EndDigestKept, StallDigestKept DEF ReportsNext, DigestStep
<1> QED
  BY <1>1, ReportsInitially, PTL DEF ReportsSpec

\* runReportDigest: a report for every client whose agency kept its address, to
\* no other address, and no more of them than times the digest was begun.
THEOREM ReportsAreMailed == ReportsSpec => []ReportsArrive
<1>1. ReportsInv => ReportsArrive
  BY DEF ReportsInv
<1> QED
  BY <1>1, ReportsInvariance, PTL

\* A digest runs only under an active job, and no client's mails outgrow the
\* job's stalls.
THEOREM ReportsTypeCorrect == ReportsSpec => []ReportsTypeOK
<1>1. ReportsInv => ReportsTypeOK
  BY DEF ReportsInv
<1> QED
  BY <1>1, ReportsInvariance, PTL

----------------------------------------------------------------------------
(* Feedback: the phases of a task.                                          *)

LEMMA Joined ==
  ASSUME NEW S, NEW s \in Seq(S), NEW t \in Seq(S), NEW u \in Seq(S),
         Len(u) = Len(s) + Len(t),
         \A i \in 1 .. Len(u) : u[i] = IF i <= Len(s) THEN s[i] ELSE t[i - Len(s)]
  PROVE  s \o t = u
<1>1. /\ s \o t \in Seq(S) /\ Len(s \o t) = Len(s) + Len(t)
      /\ \A i \in 1 .. Len(s) + Len(t) : (s \o t)[i] = IF i <= Len(s) THEN s[i] ELSE t[i - Len(s)]
  BY ConcatProperties
<1>2. \A i \in 1 .. Len(u) : (s \o t)[i] = u[i]
  BY <1>1
<1> QED
  BY <1>1, <1>2, SeqEqual

LEMMA TuplesJoined ==
  /\ \A a, b, c, d : <<a>> \o <<b, c, d>> = <<a, b, c, d>>
  /\ \A a, b, c, d, e : <<a, b, c>> \o <<d, e>> = <<a, b, c, d, e>>
  /\ \A a, b, c, d, e : <<a, b>> \o <<c, d, e>> = <<a, b, c, d, e>>
  /\ \A a, b : <<a, b>> \o <<>> = <<a, b>>
<1>1. ASSUME NEW a, NEW b, NEW c, NEW d
      PROVE  <<a>> \o <<b, c, d>> = <<a, b, c, d>>
  <2> DEFINE S == {a, b, c, d}
  <2> DEFINE s == <<a>>  t == <<b, c, d>>  u == <<a, b, c, d>>
  <2>1. s \in Seq(S) /\ t \in Seq(S) /\ u \in Seq(S)
    OBVIOUS
  <2>2. Len(s) = 1 /\ Len(t) = 3 /\ Len(u) = 4
    OBVIOUS
  <2>3. \A i \in 1 .. 4 : u[i] = IF i <= 1 THEN s[i] ELSE t[i - 1]
    <3>1. \A i \in 1 .. 4 : i = 1 \/ i = 2 \/ i = 3 \/ i = 4
      OBVIOUS
    <3> QED
      BY <3>1
  <2> HIDE DEF S, s, t, u
  <2>4. Len(u) = Len(s) + Len(t)
    BY <2>2
  <2>5. \A i \in 1 .. Len(u) : u[i] = IF i <= Len(s) THEN s[i] ELSE t[i - Len(s)]
    BY <2>2, <2>3
  <2>6. s \o t = u
    BY <2>1, <2>4, <2>5, Joined
  <2> QED
    BY <2>6 DEF s, t, u
<1>2. ASSUME NEW a, NEW b, NEW c, NEW d, NEW e
      PROVE  <<a, b, c>> \o <<d, e>> = <<a, b, c, d, e>>
  <2> DEFINE S == {a, b, c, d, e}
  <2> DEFINE s == <<a, b, c>>  t == <<d, e>>  u == <<a, b, c, d, e>>
  <2>1. s \in Seq(S) /\ t \in Seq(S) /\ u \in Seq(S)
    OBVIOUS
  <2>2. Len(s) = 3 /\ Len(t) = 2 /\ Len(u) = 5
    OBVIOUS
  <2>3. \A i \in 1 .. 5 : u[i] = IF i <= 3 THEN s[i] ELSE t[i - 3]
    OBVIOUS
  <2> HIDE DEF S, s, t, u
  <2>4. Len(u) = Len(s) + Len(t)
    BY <2>2
  <2>5. \A i \in 1 .. Len(u) : u[i] = IF i <= Len(s) THEN s[i] ELSE t[i - Len(s)]
    BY <2>2, <2>3
  <2>6. s \o t = u
    BY <2>1, <2>4, <2>5, Joined
  <2> QED
    BY <2>6 DEF s, t, u
<1>3. ASSUME NEW a, NEW b, NEW c, NEW d, NEW e
      PROVE  <<a, b>> \o <<c, d, e>> = <<a, b, c, d, e>>
  <2> DEFINE S == {a, b, c, d, e}
  <2> DEFINE s == <<a, b>>  t == <<c, d, e>>  u == <<a, b, c, d, e>>
  <2>1. s \in Seq(S) /\ t \in Seq(S) /\ u \in Seq(S)
    OBVIOUS
  <2>2. Len(s) = 2 /\ Len(t) = 3 /\ Len(u) = 5
    OBVIOUS
  <2>3. \A i \in 1 .. 5 : u[i] = IF i <= 2 THEN s[i] ELSE t[i - 2]
    OBVIOUS
  <2> HIDE DEF S, s, t, u
  <2>4. Len(u) = Len(s) + Len(t)
    BY <2>2
  <2>5. \A i \in 1 .. Len(u) : u[i] = IF i <= Len(s) THEN s[i] ELSE t[i - Len(s)]
    BY <2>2, <2>3
  <2>6. s \o t = u
    BY <2>1, <2>4, <2>5, Joined
  <2> QED
    BY <2>6 DEF s, t, u
<1>4. ASSUME NEW a, NEW b
      PROVE  <<a, b>> \o <<>> = <<a, b>>
  <2>1. <<a, b>> \in Seq({a, b})
    OBVIOUS
  <2> QED
    BY <2>1, ConcatEmptySeq
<1> QED
  BY <1>1, <1>2, <1>3, <1>4

LEMMA PhasesOfTasks ==
  /\ DOMAIN Phases = {"submit", "completed", "failed", "metrics"}
  /\ Phases["submit"] = <<"move", "save", "settings", "channels">>
  /\ Phases["completed"] = <<"hooks", "post">>
  /\ Phases["failed"] = <<"save", "settings", "channels", "hooks", "post">>
  /\ Phases["metrics"] = <<"refresh">>
  /\ Dispatching = <<"hooks", "post">>
  /\ Dispatching \o <<>> = <<"hooks", "post">>
  /\ Dispatching \o Notifying = <<"hooks", "post", "save", "settings", "channels">>
<1>1. <<"move">> \o <<"save", "settings", "channels">> = <<"move", "save", "settings", "channels">>
  BY TuplesJoined
<1>2. /\ <<"save", "settings", "channels">> \o <<"hooks", "post">>
           = <<"save", "settings", "channels", "hooks", "post">>
      /\ <<"hooks", "post">> \o <<"save", "settings", "channels">>
           = <<"hooks", "post", "save", "settings", "channels">>
      /\ <<"hooks", "post">> \o <<>> = <<"hooks", "post">>
  BY TuplesJoined
<1> QED
  BY <1>1, <1>2 DEF Phases, Dispatching, Notifying

\* A queue of phases begins with the first, and goes on with the others.
LEMMA PhasesInTurn ==
  /\ \A p : ~StartsWith(<<>>, p) /\ ~Includes(<<>>, p)
  /\ \A a, p : (StartsWith(<<a>>, p) <=> p = a) /\ (Includes(<<a>>, p) <=> p = a)
  /\ \A a, b, p : /\ StartsWith(<<a, b>>, p) <=> p = a
                  /\ Includes(<<a, b>>, p) <=> p \in {a, b}
  /\ \A a, b, c, p : /\ StartsWith(<<a, b, c>>, p) <=> p = a
                     /\ Includes(<<a, b, c>>, p) <=> p \in {a, b, c}
  /\ \A a, b, c, d, p : /\ StartsWith(<<a, b, c, d>>, p) <=> p = a
                        /\ Includes(<<a, b, c, d>>, p) <=> p \in {a, b, c, d}
  /\ \A a, b, c, d, e, p : /\ StartsWith(<<a, b, c, d, e>>, p) <=> p = a
                           /\ Includes(<<a, b, c, d, e>>, p) <=> p \in {a, b, c, d, e}
<1>1. \A a, b, c, p : /\ StartsWith(<<a, b, c>>, p) <=> p = a
                     /\ Includes(<<a, b, c>>, p) <=> p \in {a, b, c}
  BY DEF StartsWith, Includes
<1>2. \A a, b, c, d, p : /\ StartsWith(<<a, b, c, d>>, p) <=> p = a
                     /\ Includes(<<a, b, c, d>>, p) <=> p \in {a, b, c, d}
  BY DEF StartsWith, Includes
<1>3. \A a, b, c, d, e, p : /\ StartsWith(<<a, b, c, d, e>>, p) <=> p = a
                           /\ Includes(<<a, b, c, d, e>>, p) <=> p \in {a, b, c, d, e}
  BY DEF StartsWith, Includes
<1> QED
  BY <1>1, <1>2, <1>3 DEF StartsWith, Includes

\* A phase is over when it is done, or has failed; what is left is in order.
LEMMA PhasesGoOn ==
  ASSUME NEW by \in DOMAIN Phases, NEW q \in PhasesLeft[by]
  PROVE  /\ q # <<>> =>
              \E p \in {"move", "save", "settings", "channels", "hooks", "post", "refresh"} : StartsWith(q, p)
         /\ \A p : StartsWith(q, p) =>
              /\ p # "refresh" => Tail(q) \in PhasesLeft[by]
              /\ \A r : Includes(Tail(q), r) => Includes(q, r)
              /\ Includes(q, p) /\ ~Includes(Tail(q), p)
         /\ StartsWith(q, "move") => by = "submit" /\ StartsWith(Tail(q), "save")
         /\ StartsWith(q, "save") => by # "completed" /\ StartsWith(Tail(q), "settings")
         /\ StartsWith(q, "settings") => by # "completed" /\ StartsWith(Tail(q), "channels")
         /\ StartsWith(q, "channels") =>
              by # "completed" /\ (Tail(q) = <<>> \/ StartsWith(Tail(q), "hooks"))
         /\ StartsWith(q, "hooks") =>
              /\ by # "submit" /\ StartsWith(Tail(q), "post")
              /\ Tail(Tail(q)) \in PhasesLeft[by]
              /\ Tail(Tail(q)) = <<>> \/ StartsWith(Tail(Tail(q)), "save")
              /\ \A r : Includes(Tail(Tail(q)), r) => Includes(q, r)
         /\ StartsWith(q, "post") =>
              by # "submit" /\ (Tail(q) = <<>> \/ StartsWith(Tail(q), "save"))
         /\ StartsWith(q, "refresh") => by = "metrics"
         /\ ~StartsWith(q, "refresh") => ~Includes(q, "refresh")
         /\ by = "failed" /\ (StartsWith(q, "save") \/ StartsWith(q, "settings")) =>
              Includes(q, "hooks") /\ Includes(q, "post")
<1>1. \A a, b, c, d, e :
        /\ Tail(<<a>>) = <<>> /\ Tail(<<a, b>>) = <<b>> /\ Tail(<<a, b, c>>) = <<b, c>>
        /\ Tail(<<a, b, c, d>>) = <<b, c, d>> /\ Tail(<<a, b, c, d, e>>) = <<b, c, d, e>>
  OBVIOUS
<1>2. CASE by = "submit"
  <2>1. PhasesLeft[by] = {<<"move", "save", "settings", "channels">>, <<"save", "settings", "channels">>,
               <<"settings", "channels">>, <<"channels">>, <<>>}
    BY <1>2 DEF PhasesLeft
  <2>2. CASE q = <<"move", "save", "settings", "channels">>
    BY <1>1, <1>2, <2>1, <2>2, PhasesInTurn
  <2>3. CASE q = <<"save", "settings", "channels">>
    BY <1>1, <1>2, <2>1, <2>3, PhasesInTurn
  <2>4. CASE q = <<"settings", "channels">>
    BY <1>1, <1>2, <2>1, <2>4, PhasesInTurn
  <2>5. CASE q = <<"channels">>
    BY <1>1, <1>2, <2>1, <2>5, PhasesInTurn
  <2>6. CASE q = <<>>
    BY <1>1, <1>2, <2>1, <2>6, PhasesInTurn
  <2> QED
    BY <2>1, <2>2, <2>3, <2>4, <2>5, <2>6
<1>3. CASE by = "completed"
  <2>1. PhasesLeft[by] = {<<"hooks", "post">>,
               <<"post">>,
               <<>>}
    BY <1>3 DEF PhasesLeft
  <2>2. CASE q = <<"hooks", "post">>
    BY <1>1, <1>3, <2>1, <2>2, PhasesInTurn
  <2>3. CASE q = <<"post">>
    BY <1>1, <1>3, <2>1, <2>3, PhasesInTurn
  <2>4. CASE q = <<>>
    BY <1>1, <1>3, <2>1, <2>4, PhasesInTurn
  <2> QED
    BY <2>1, <2>2, <2>3, <2>4
<1>4. CASE by = "failed"
  <2>1. PhasesLeft[by] = {<<"save", "settings", "channels", "hooks", "post">>,
               <<"settings", "channels", "hooks", "post">>,
               <<"channels", "hooks", "post">>,
               <<"hooks", "post">>,
               <<"post">>,
               <<>>}
    BY <1>4 DEF PhasesLeft
  <2>2. CASE q = <<"save", "settings", "channels", "hooks", "post">>
    BY <1>1, <1>4, <2>1, <2>2, PhasesInTurn
  <2>3. CASE q = <<"settings", "channels", "hooks", "post">>
    BY <1>1, <1>4, <2>1, <2>3, PhasesInTurn
  <2>4. CASE q = <<"channels", "hooks", "post">>
    BY <1>1, <1>4, <2>1, <2>4, PhasesInTurn
  <2>5. CASE q = <<"hooks", "post">>
    BY <1>1, <1>4, <2>1, <2>5, PhasesInTurn
  <2>6. CASE q = <<"post">>
    BY <1>1, <1>4, <2>1, <2>6, PhasesInTurn
  <2>7. CASE q = <<>>
    BY <1>1, <1>4, <2>1, <2>7, PhasesInTurn
  <2> QED
    BY <2>1, <2>2, <2>3, <2>4, <2>5, <2>6, <2>7
<1>5. CASE by = "metrics"
  <2>1. PhasesLeft[by] = {<<"refresh">>,
               <<"hooks", "post">>,
               <<"post">>,
               <<"hooks", "post", "save", "settings", "channels">>,
               <<"post", "save", "settings", "channels">>,
               <<"save", "settings", "channels">>,
               <<"settings", "channels">>,
               <<"channels">>,
               <<>>}
    BY <1>5 DEF PhasesLeft
  <2>2. CASE q = <<"refresh">>
    BY <1>1, <1>5, <2>1, <2>2, PhasesInTurn
  <2>3. CASE q = <<"hooks", "post">>
    BY <1>1, <1>5, <2>1, <2>3, PhasesInTurn
  <2>4. CASE q = <<"post">>
    BY <1>1, <1>5, <2>1, <2>4, PhasesInTurn
  <2>5. CASE q = <<"hooks", "post", "save", "settings", "channels">>
    BY <1>1, <1>5, <2>1, <2>5, PhasesInTurn
  <2>6. CASE q = <<"post", "save", "settings", "channels">>
    BY <1>1, <1>5, <2>1, <2>6, PhasesInTurn
  <2>7. CASE q = <<"save", "settings", "channels">>
    BY <1>1, <1>5, <2>1, <2>7, PhasesInTurn
  <2>8. CASE q = <<"settings", "channels">>
    BY <1>1, <1>5, <2>1, <2>8, PhasesInTurn
  <2>9. CASE q = <<"channels">>
    BY <1>1, <1>5, <2>1, <2>9, PhasesInTurn
  <2>10. CASE q = <<>>
    BY <1>1, <1>5, <2>1, <2>10, PhasesInTurn
  <2> QED
    BY <2>1, <2>2, <2>3, <2>4, <2>5, <2>6, <2>7, <2>8, <2>9, <2>10
<1> QED
  BY <1>2, <1>3, <1>4, <1>5, PhasesOfTasks

LEMMA FeedbackFacts ==
  ASSUME FeedbackInv
  PROVE  /\ settings \in [there : BOOLEAN, targets : SUBSET Channel, muted : SUBSET Kind]
         /\ hooks \in [Hook -> SUBSET Event]
         /\ readable \in BOOLEAN /\ metricsJob \in Job
         /\ metricsJob.attempts \in 0 .. MaxAttempts /\ metricsJob.stalls \in 0 .. MaxStalls
         /\ Refreshing => metricsJob.state = "active" /\ metricsJob.attempts < MaxAttempts
         /\ snaps \in 0 .. MaxAttempts + MaxStalls /\ snaps <= 1 + metricsJob.stalls
         /\ edits \in 0 .. MaxEdits
         /\ MaxAttempts \in Nat /\ 0 < MaxAttempts /\ MaxStalls \in Nat /\ MaxEdits \in Nat
         /\ \A k : Wanted(settings, k) \in SUBSET Channel
         /\ \A e : Subscribed(hooks, e) \in SUBSET Hook
  BY AttemptsAssumption, StallsAssumption, FeedbackAssumption
  DEF FeedbackInv, FeedbackTypeOK, EventsReachWhoAsked, SnapshotsPerRefresh, SnapshotsAreCounted,
      InFlight, Job, Wanted, Subscribed

LEMMA TaskFacts ==
  ASSUME FeedbackInv, Telling
  PROVE  /\ task \in Task /\ task.by \in DOMAIN Phases
         /\ task.todo \in PhasesLeft[task.by]
         /\ \A p : At(p) <=> StartsWith(task.todo, p)
         /\ \A p : Ahead(p) <=> Includes(task.todo, p)
  BY DEF FeedbackInv, TasksAreInPhase, Task, At, Ahead

\* What a task owes, read off one moment of it, or off the next one.
LEMMA TellingIsRight ==
  ASSUME TasksAreInPhase, SubmitsAreInOrder, ChosenAreWanted
  PROVE  NoSilentReview /\ OnlyWhereWanted /\ NoneLeftOut
<1>1. \A p : ~StartsWith(<<>>, p)
  BY PhasesInTurn
<1>2. ASSUME Telling, task.end = "ok"
      PROVE  \A p : ~At(p)
  BY <1>1, <1>2 DEF TasksAreInPhase, At
<1>3. NoSilentReview /\ NoneLeftOut
  BY <1>2 DEF NoSilentReview, NoneLeftOut, SubmitsAreInOrder, ChosenAreWanted, Telling
<1>4. OnlyWhereWanted
  BY DEF OnlyWhereWanted, ChosenAreWanted, Telling
<1> QED
  BY <1>3, <1>4

LEMMA TellingIsRightNext ==
  ASSUME TasksAreInPhase', SubmitsAreInOrder', ChosenAreWanted'
  PROVE  NoSilentReview' /\ OnlyWhereWanted' /\ NoneLeftOut'
<1>1. \A p : ~StartsWith(<<>>, p)
  BY PhasesInTurn
<1>2. ASSUME Telling', task'.end = "ok"
      PROVE  \A p : ~StartsWith(task'.todo, p)
  BY <1>1, <1>2 DEF TasksAreInPhase
<1>3. NoSilentReview' /\ NoneLeftOut'
  BY <1>2 DEF NoSilentReview, NoneLeftOut, SubmitsAreInOrder, ChosenAreWanted, Telling, At
<1>4. OnlyWhereWanted'
  BY DEF OnlyWhereWanted, ChosenAreWanted, Telling
<1> QED
  BY <1>3, <1>4

\* The part of the invariant that is about the task.
TaskInv == TasksAreInPhase /\ SubmitsAreInOrder /\ ChosenAreWanted

\* The part that is about the job.
JobInv ==
  /\ metricsJob \in Job
  /\ Refreshing => metricsJob.state = "active"
  /\ snaps \in 0 .. MaxAttempts + MaxStalls
  /\ SnapshotsAreCounted /\ SnapshotsPerRefresh

LEMMA TaskAndJob ==
  ASSUME TaskInv', JobInv',
         settings' \in [there : BOOLEAN, targets : SUBSET Channel, muted : SUBSET Kind],
         hooks' \in [Hook -> SUBSET Event], readable' \in BOOLEAN, edits' \in 0 .. MaxEdits
  PROVE  FeedbackInv'
<1>1. NoSilentReview' /\ OnlyWhereWanted' /\ NoneLeftOut'
  BY TellingIsRightNext DEF TaskInv
<1>2. ASSUME Telling'
      PROVE  /\ task'.by \in DOMAIN Phases /\ task'.end \in {"running", "ok", "error"}
             /\ task'.tried \subseteq task'.chosen /\ task'.called \subseteq task'.chosenHooks
             /\ task'.to \subseteq task'.chosen /\ task'.calls \subseteq task'.chosenHooks
  <2>1. task' \in Task
    BY <1>2 DEF TaskInv, TasksAreInPhase
  <2> QED
    BY <1>2, <2>1 DEF TaskInv, ChosenAreWanted, Task
<1>3. FeedbackTypeOK'
  BY <1>2 DEF FeedbackTypeOK, JobInv, Telling
<1> QED
  BY <1>1, <1>3 DEF FeedbackInv, TaskInv, JobInv, EventsReachWhoAsked

\* A step that leaves the job and the phases of a task alone keeps the job's part.
LEMMA JobInvKept ==
  ASSUME FeedbackInv, UNCHANGED <<metricsJob, snaps>>,
         Refreshing' => Refreshing /\ (At("refresh")' => At("refresh"))
  PROVE  JobInv'
  BY DEF JobInv, FeedbackInv, FeedbackTypeOK, EventsReachWhoAsked, SnapshotsAreCounted, SnapshotsPerRefresh

\* With nobody telling there is nothing to show of the task.
LEMMA NobodyTelling ==
  ASSUME task' = NotTelling
  PROVE  TaskInv' /\ ~Refreshing'
  BY DEF TaskInv, TasksAreInPhase, SubmitsAreInOrder, ChosenAreWanted, Telling, Refreshing

----------------------------------------------------------------------------
(* Edits of settings and hooks.                                              *)

LEMMA WitnessKept ==
  ASSUME FeedbackInv, Witness(settings', hooks'),
         settings' \in [there : BOOLEAN, targets : SUBSET Channel, muted : SUBSET Kind],
         hooks' \in [Hook -> SUBSET Event]
  PROVE  TaskInv' /\ (Refreshing' => Refreshing /\ (At("refresh")' => At("refresh")))
<1>1. CASE task = NotTelling
  BY <1>1, NobodyTelling DEF Witness
<1>2. CASE Telling
  <2> DEFINE w == Wanted(settings', Tells[task.by])
             s == Subscribed(hooks', Fires[task.by])
  <2>1. task' = [task EXCEPT !.known = @ \cup w, !.subscribers = @ \cup s]
    BY <1>2 DEF Witness, Telling
  <2>2. w \in SUBSET Channel /\ s \in SUBSET Hook
    BY DEF Wanted, Subscribed
  <2> HIDE DEF w, s
  <2>3. /\ task' \in Task
        /\ task'.by = task.by /\ task'.todo = task.todo /\ task'.end = task.end
        /\ task'.moved = task.moved /\ task'.stored = task.stored
        /\ task'.to = task.to /\ task'.tried = task.tried /\ task'.chosen = task.chosen
        /\ task'.calls = task.calls /\ task'.called = task.called /\ task'.chosenHooks = task.chosenHooks
        /\ task'.known = task.known \cup w /\ task'.subscribers = task.subscribers \cup s
    BY <1>2, <2>1, <2>2, TaskFacts DEF Task
  <2>4. \A p : (StartsWith(task'.todo, p) <=> At(p)) /\ (Includes(task'.todo, p) <=> Ahead(p))
    BY <2>3 DEF At, Ahead
  <2>5. TasksAreInPhase'
    BY <1>2, <2>3 DEF FeedbackInv, TasksAreInPhase
  <2>6. SubmitsAreInOrder'
    BY <1>2, <2>3, <2>4 DEF FeedbackInv, SubmitsAreInOrder, At
  <2>7. w = Wanted(settings', Tells[task'.by]) /\ s = Subscribed(hooks', Fires[task'.by])
    BY <2>3 DEF w, s
  <2>8. ChosenAreWanted'
    BY <1>2, <2>3, <2>4, <2>7 DEF FeedbackInv, ChosenAreWanted, At, Ahead
  <2>9. Refreshing' => Refreshing /\ (At("refresh")' => At("refresh"))
    BY <1>2, <2>3, <2>4 DEF Refreshing, At, Telling
  <2> QED
    BY <2>5, <2>6, <2>8, <2>9 DEF TaskInv
<1> QED
  BY <1>1, <1>2 DEF Telling

LEMMA EditsKept ==
  ASSUME FeedbackInv,
         \/ \E s \in SUBSET Channel, m \in Muting : UpdateSettings(s, m)
         \/ \E h \in Hook : \E e \in Subscription : CreateHook(h, e)
  PROVE  FeedbackInv'
<1>1. /\ edits' = edits + 1 /\ edits < MaxEdits /\ Witness(settings', hooks')
      /\ UNCHANGED <<readable, metricsJob, snaps>>
      /\ settings' \in [there : BOOLEAN, targets : SUBSET Channel, muted : SUBSET Kind]
      /\ hooks' \in [Hook -> SUBSET Event]
  <2>1. CASE \E s \in SUBSET Channel, m \in Muting : UpdateSettings(s, m)
    BY <2>1, FeedbackFacts, FeedbackAssumption DEF UpdateSettings
  <2>2. CASE \E h \in Hook : \E e \in Subscription : CreateHook(h, e)
    BY <2>2, FeedbackFacts, FeedbackAssumption DEF CreateHook
  <2> QED
    BY <2>1, <2>2
<1>2. edits' \in 0 .. MaxEdits /\ readable' \in BOOLEAN
  BY <1>1, FeedbackFacts
<1>3. TaskInv' /\ JobInv'
  BY <1>1, WitnessKept, JobInvKept
<1> QED
  BY <1>1, <1>2, <1>3, TaskAndJob

LEMMA RemoveHookKept ==
  ASSUME FeedbackInv, NEW h \in Hook, RemoveHook(h)
  PROVE  FeedbackInv'
<1>1. /\ UNCHANGED <<settings, task, readable, metricsJob, snaps>>
      /\ edits' \in 0 .. MaxEdits /\ hooks' \in [Hook -> SUBSET Event]
      /\ hooks' = [hooks EXCEPT ![h] = {}]
  BY FeedbackFacts DEF RemoveHook
<1>2. \A e : Subscribed(hooks', e) \subseteq Subscribed(hooks, e)
  BY <1>1, FeedbackFacts DEF Subscribed
<1>3. TaskInv'
  BY <1>1, <1>2
  DEF FeedbackInv, TaskInv, TasksAreInPhase, SubmitsAreInOrder, ChosenAreWanted, Telling, At, Ahead
<1>4. JobInv'
  BY <1>1, JobInvKept DEF Refreshing, At
<1> QED
  BY <1>1, <1>3, <1>4, FeedbackFacts, TaskAndJob

----------------------------------------------------------------------------
(* The job of a refresh, and the ends of tasks.                             *)

\* A step that leaves the task, the settings and the hooks alone.
LEMMA TaskLeftAlone ==
  ASSUME FeedbackInv, UNCHANGED <<task, settings, hooks>>
  PROVE  TaskInv' /\ (Refreshing' <=> Refreshing) /\ (At("refresh")' <=> At("refresh"))
  BY DEF FeedbackInv, TaskInv, TasksAreInPhase, SubmitsAreInOrder, ChosenAreWanted, Telling, At, Ahead,
         Refreshing

LEMMA MetricsJobKept ==
  ASSUME FeedbackInv, ChangeAccount \/ TriggerMetrics \/ ForgetMetricsJob \/ StallMetricsJob
  PROVE  FeedbackInv'
<1>1. /\ UNCHANGED <<task, settings, hooks, edits>> /\ readable' \in BOOLEAN
  BY FeedbackFacts DEF ChangeAccount, TriggerMetrics, ForgetMetricsJob, StallMetricsJob
<1>2. TaskInv' /\ (Refreshing' <=> Refreshing) /\ (At("refresh")' <=> At("refresh"))
  BY <1>1, TaskLeftAlone
<1>3. ASSUME ChangeAccount
      PROVE  JobInv'
  BY <1>2, <1>3, JobInvKept DEF ChangeAccount
<1>4. ASSUME TriggerMetrics
      PROVE  JobInv'
  <2>1. metricsJob' = FreshJob /\ metricsJob.state = "absent" /\ snaps' = 0
    BY <1>4 DEF TriggerMetrics, Added
  <2>2. ~Refreshing' /\ FreshJob \in Job /\ FreshJob.attempts = 0 /\ FreshJob.stalls = 0
    BY <1>2, <2>1, FeedbackFacts, JobTypes DEF FreshJob
  <2> QED
    BY <2>1, <2>2, FeedbackFacts DEF JobInv, SnapshotsAreCounted, SnapshotsPerRefresh
<1>5. ASSUME ForgetMetricsJob
      PROVE  JobInv'
  <2>1. metricsJob' = NoJob /\ metricsJob.state # "active" /\ snaps' = 0
    BY <1>5 DEF ForgetMetricsJob
  <2>2. ~Refreshing' /\ NoJob \in Job /\ NoJob.state = "absent" /\ NoJob.stalls = 0
    BY <1>2, <2>1, FeedbackFacts, JobTypes DEF NoJob
  <2> QED
    BY <2>1, <2>2, FeedbackFacts DEF JobInv, SnapshotsAreCounted, SnapshotsPerRefresh, InFlight
<1>6. ASSUME StallMetricsJob
      PROVE  JobInv'
  <2>1. metricsJob.state = "active" /\ ~Refreshing /\ metricsJob' = Stalled(metricsJob) /\ snaps' = snaps
    BY <1>6 DEF StallMetricsJob
  <2>2. metricsJob' \in Job /\ metricsJob.attempts < MaxAttempts
    BY <2>1, FeedbackFacts, JobTypes DEF FeedbackInv, SnapshotsAreCounted, InFlight
  <2>3. \/ /\ metricsJob'.state = "waiting" /\ metricsJob'.attempts = metricsJob.attempts
           /\ metricsJob'.stalls = metricsJob.stalls + 1
        \/ metricsJob'.state = "failed" /\ metricsJob'.stalls = metricsJob.stalls
    <3>1. metricsJob.stalls < MaxStalls \/ metricsJob.stalls >= MaxStalls
      BY FeedbackFacts
    <3> QED
      BY <2>1, <3>1, FeedbackFacts, JobFields
  <2>4. snaps' <= 1 + metricsJob'.stalls /\ (metricsJob'.state = "waiting" => snaps' <= metricsJob'.stalls)
    BY <2>1, <2>3, FeedbackFacts
  <2> QED
    BY <1>2, <2>1, <2>2, <2>3, <2>4, FeedbackFacts
    DEF JobInv, SnapshotsAreCounted, SnapshotsPerRefresh, InFlight
<1>7. JobInv'
  BY <1>3, <1>4, <1>5, <1>6
<1> QED
  BY <1>1, <1>2, <1>7, FeedbackFacts, TaskAndJob

\* A task begins with nothing done, and with all its phases.
LEMMA BegunKept ==
  ASSUME FeedbackInv, NEW by \in DOMAIN Phases, task' = Begun(by), UNCHANGED <<settings, hooks>>
  PROVE  TaskInv' /\ task'.by = by /\ task'.todo = Phases[by]
<1>1. Phases[by] \in PhasesLeft[by] /\ Phases[by] # <<>> /\ ~StartsWith(Phases[by], "settings")
      /\ (by = "submit" => StartsWith(Phases[by], "move"))
  <2>1. CASE by = "submit"
    BY <2>1, PhasesOfTasks, PhasesInTurn DEF PhasesLeft
  <2>2. CASE by = "completed"
    BY <2>2, PhasesOfTasks, PhasesInTurn DEF PhasesLeft
  <2>3. CASE by = "failed"
    BY <2>3, PhasesOfTasks, PhasesInTurn DEF PhasesLeft
  <2>4. CASE by = "metrics"
    BY <2>4, PhasesOfTasks, PhasesInTurn DEF PhasesLeft
  <2> QED
    BY <2>1, <2>2, <2>3, <2>4, PhasesOfTasks
<1>2. /\ Wanted(settings, Tells[by]) \in SUBSET Channel
      /\ Subscribed(hooks, Fires[by]) \in SUBSET Hook
  BY FeedbackFacts
<1>3. DOMAIN PhasesLeft = DOMAIN Phases
  BY PhasesOfTasks DEF PhasesLeft
<1>4. Phases[by] \in UNION {PhasesLeft[b] : b \in DOMAIN Phases}
  BY <1>1
<1>5. task' \in Task
  BY <1>2, <1>4 DEF Begun, Task
<1>6. /\ task'.by = by /\ task'.todo = Phases[by] /\ task'.end = "running"
      /\ task'.to = {} /\ task'.tried = {} /\ task'.chosen = {}
      /\ task'.calls = {} /\ task'.called = {} /\ task'.chosenHooks = {}
      /\ task'.known = Wanted(settings, Tells[by]) /\ task'.subscribers = Subscribed(hooks, Fires[by])
  BY DEF Begun
<1>7. TasksAreInPhase'
  BY <1>1, <1>5, <1>6 DEF TasksAreInPhase
<1>8. SubmitsAreInOrder'
  BY <1>1, <1>6 DEF SubmitsAreInOrder, At
<1>9. ChosenAreWanted'
  BY <1>1, <1>6 DEF ChosenAreWanted, At
<1> QED
  BY <1>6, <1>7, <1>8, <1>9 DEF TaskInv

LEMMA BeginKept ==
  ASSUME FeedbackInv, NEW by \in DOMAIN Phases, Begin(by)
  PROVE  FeedbackInv'
<1>1. /\ by # "metrics" /\ task' = Begun(by)
      /\ UNCHANGED <<settings, hooks, readable, metricsJob, snaps, edits>>
  BY DEF Begin
<1>2. TaskInv' /\ task'.by = by
  BY <1>1, BegunKept
<1>3. JobInv'
  BY <1>1, <1>2, JobInvKept DEF Refreshing
<1> QED
  BY <1>1, <1>2, <1>3, FeedbackFacts, TaskAndJob

LEMMA TakeMetricsJobKept ==
  ASSUME FeedbackInv, TakeMetricsJob
  PROVE  FeedbackInv'
<1>1. /\ metricsJob.state = "waiting" /\ metricsJob' = Taken(metricsJob) /\ task' = Begun("metrics")
      /\ UNCHANGED <<settings, hooks, readable, snaps, edits>>
  BY DEF TakeMetricsJob
<1>2. TaskInv'
  BY <1>1, BegunKept, PhasesOfTasks
<1>3. /\ metricsJob' \in Job /\ metricsJob'.state = "active"
      /\ metricsJob'.attempts = metricsJob.attempts /\ metricsJob'.stalls = metricsJob.stalls
  BY <1>1, FeedbackFacts, JobTypes, JobFields
<1>4. snaps <= metricsJob.stalls /\ metricsJob.attempts < MaxAttempts
  BY <1>1 DEF FeedbackInv, SnapshotsAreCounted, InFlight
<1>5. JobInv'
  BY <1>1, <1>3, <1>4, FeedbackFacts DEF JobInv, SnapshotsAreCounted, SnapshotsPerRefresh
<1> QED
  BY <1>1, <1>2, <1>5, FeedbackFacts, TaskAndJob

LEMMA DieOrLeaveKept ==
  ASSUME FeedbackInv, DieTelling \/ Leave
  PROVE  FeedbackInv'
<1>1. task' = NotTelling /\ UNCHANGED <<settings, hooks, readable, metricsJob, snaps, edits>>
  BY DEF DieTelling, Leave
<1>2. TaskInv' /\ JobInv'
  BY <1>1, NobodyTelling, JobInvKept
<1> QED
  BY <1>1, <1>2, FeedbackFacts, TaskAndJob

----------------------------------------------------------------------------
(* The phases of a task.                                                    *)

\* What no phase touches, and what there is to begin with.
LEMMA PhaseFacts ==
  ASSUME FeedbackInv, NEW p, TaskAt(p)
  PROVE  /\ Telling /\ task.end = "running" /\ At(p) /\ Ahead(p)
         /\ task \in Task /\ task.by \in DOMAIN Phases /\ task.todo \in PhasesLeft[task.by]
         /\ Tail(task.todo) \in UNION {PhasesLeft[b] : b \in DOMAIN Phases} \/ p = "refresh"
         /\ <<>> \in UNION {PhasesLeft[b] : b \in DOMAIN Phases} /\ <<>> \in PhasesLeft[task.by]
         /\ \A r : At(r) => r = p
         /\ \A r : Includes(Tail(task.todo), r) => Ahead(r)
         /\ ~Includes(Tail(task.todo), p)
         /\ ChosenAreWanted /\ SubmitsAreInOrder
<1>1. Telling /\ task.end = "running" /\ At(p)
  BY DEF TaskAt, Telling, At, StartsWith
<1>2. task \in Task /\ task.by \in DOMAIN Phases /\ task.todo \in PhasesLeft[task.by] /\ StartsWith(task.todo, p)
  BY <1>1, TaskFacts
<1>3. \A r : At(r) => r = p
  BY <1>2 DEF At, StartsWith
<1>4. /\ Tail(task.todo) \in PhasesLeft[task.by] \/ p = "refresh"
      /\ \A r : Includes(Tail(task.todo), r) => Includes(task.todo, r)
      /\ Includes(task.todo, p) /\ ~Includes(Tail(task.todo), p)
  BY <1>2, PhasesGoOn
<1>5. <<>> \in PhasesLeft[task.by]
  BY <1>2, PhasesOfTasks DEF PhasesLeft
<1> QED
  BY <1>1, <1>2, <1>3, <1>4, <1>5 DEF FeedbackInv, Ahead

\* The phases of another job's task, and those of a refresh that is past it.
LEMMA PhaseInvKept ==
  ASSUME FeedbackInv, NEW p, TaskAt(p), UNCHANGED <<metricsJob, snaps>>, task'.by = task.by,
         ~StartsWith(task'.todo, "refresh")
  PROVE  JobInv'
  BY PhaseFacts, JobInvKept DEF Refreshing, At, Telling

\* The request answers with an error, and everything stays as it was.
LEMMA ErrorKept ==
  ASSUME FeedbackInv, NEW p, TaskAt(p), task' = [task EXCEPT !.end = "error"],
         UNCHANGED <<settings, hooks>>
  PROVE  TaskInv' /\ ~Refreshing' /\ task'.by = task.by /\ task'.todo = task.todo
<1>1. /\ task' \in Task
      /\ task'.by = task.by /\ task'.todo = task.todo /\ task'.end = "error"
      /\ task'.moved = task.moved /\ task'.stored = task.stored
      /\ task'.to = task.to /\ task'.tried = task.tried /\ task'.chosen = task.chosen
      /\ task'.calls = task.calls /\ task'.called = task.called /\ task'.chosenHooks = task.chosenHooks
      /\ task'.known = task.known /\ task'.subscribers = task.subscribers
  BY PhaseFacts DEF Task
<1>2. TasksAreInPhase'
  BY <1>1, PhaseFacts DEF TasksAreInPhase
<1>3. SubmitsAreInOrder'
  BY <1>1, PhaseFacts DEF SubmitsAreInOrder, At
<1>4. ChosenAreWanted'
  BY <1>1, PhaseFacts DEF ChosenAreWanted, At, Ahead
<1> QED
  BY <1>1, <1>2, <1>3, <1>4 DEF TaskInv, Refreshing

LEMMA MoveItemKept ==
  ASSUME FeedbackInv, MoveItem, UNCHANGED <<settings, hooks>>
  PROVE  TaskInv' /\ JobInv'
<1>1. TaskAt("move") /\ UNCHANGED <<metricsJob, snaps>>
  BY DEF MoveItem, Refuse
<1>2. CASE task' = [task EXCEPT !.end = "error"]
  BY <1>1, <1>2, ErrorKept, JobInvKept
<1>3. CASE task' = [task EXCEPT !.moved = TRUE, !.todo = Tail(@)]
  <2>1. /\ task' \in Task
        /\ task'.by = task.by /\ task'.todo = Tail(task.todo) /\ task'.end = "running"
        /\ task'.moved = TRUE /\ task'.stored = task.stored
        /\ task'.to = task.to /\ task'.tried = task.tried /\ task'.chosen = task.chosen
        /\ task'.calls = task.calls /\ task'.called = task.called /\ task'.chosenHooks = task.chosenHooks
        /\ task'.known = task.known /\ task'.subscribers = task.subscribers
    <3>1. Tail(task.todo) \in UNION {PhasesLeft[b] : b \in DOMAIN Phases} /\ TRUE \in BOOLEAN
      BY <1>1, PhaseFacts
    <3>2. task \in Task /\ task.end = "running"
      BY <1>1, PhaseFacts
    <3> QED
      BY <1>3, <3>1, <3>2 DEF Task
  <2>2. task.by = "submit" /\ StartsWith(Tail(task.todo), "save") /\ Tail(task.todo) \in PhasesLeft[task.by]
    BY <1>1, PhaseFacts, PhasesGoOn DEF At
  <2>3. \A r : StartsWith(Tail(task.todo), r) => r = "save"
    BY <2>2 DEF StartsWith
  <2>4. TasksAreInPhase'
    BY <2>1, <2>2 DEF TasksAreInPhase
  <2>5. SubmitsAreInOrder'
    BY <2>1, <2>2, <2>3 DEF SubmitsAreInOrder, At
  <2>6. task.to = {} /\ task.calls = {} /\ ~At("settings")
    BY <1>1, PhaseFacts DEF ChosenAreWanted
  <2>7. ChosenAreWanted'
    BY <1>1, <2>1, <2>3, <2>6, PhaseFacts DEF ChosenAreWanted, At, Ahead
  <2>8. JobInv'
    BY <1>1, <2>1, <2>3, PhaseInvKept
  <2> QED
    BY <2>4, <2>5, <2>7, <2>8 DEF TaskInv
<1> QED
  BY <1>2, <1>3 DEF MoveItem, Refuse

\* A phase gives way to a later one and nothing else changes.
LEMMA SkipKept ==
  ASSUME FeedbackInv, NEW p, TaskAt(p), UNCHANGED <<settings, hooks, metricsJob, snaps>>,
         NEW q \in PhasesLeft[task.by], task' = [task EXCEPT !.todo = q],
         \A r : Includes(q, r) => Ahead(r),
         \A r : StartsWith(q, r) => r \in {"save", "hooks"},
         task.to = {}, task.calls = {},
         task.by = "submit" => p \notin {"move", "save"}
  PROVE  TaskInv' /\ JobInv'
<1>1. q \in UNION {PhasesLeft[b] : b \in DOMAIN Phases}
  BY PhaseFacts
<1>2. /\ task' \in Task
      /\ task'.by = task.by /\ task'.todo = q /\ task'.end = "running"
      /\ task'.moved = task.moved /\ task'.stored = task.stored
      /\ task'.to = {} /\ task'.tried = task.tried /\ task'.chosen = task.chosen
      /\ task'.calls = {} /\ task'.called = task.called /\ task'.chosenHooks = task.chosenHooks
      /\ task'.known = task.known /\ task'.subscribers = task.subscribers
  BY <1>1, PhaseFacts DEF Task
<1>3. TasksAreInPhase'
  BY <1>2 DEF TasksAreInPhase
<1>4. task.by = "submit" => task.moved /\ task.stored
  BY PhaseFacts DEF SubmitsAreInOrder
<1>5. SubmitsAreInOrder'
  BY <1>2, <1>4 DEF SubmitsAreInOrder
<1>6. ~StartsWith(q, "settings") /\ ~StartsWith(q, "refresh")
  OBVIOUS
<1>7. ChosenAreWanted'
  BY <1>2, <1>6, PhaseFacts DEF ChosenAreWanted, At, Ahead
<1>8. JobInv'
  BY <1>2, <1>6, PhaseInvKept
<1> QED
  BY <1>3, <1>5, <1>7, <1>8 DEF TaskInv

LEMMA EmitFailsKept ==
  ASSUME FeedbackInv, NEW p \in {"save", "settings"}, TaskAt(p), EmitFails,
         UNCHANGED <<settings, hooks, snaps>>
  PROVE  TaskInv' /\ JobInv'
<1>1. UNCHANGED metricsJob
  BY DEF EmitFails, Refuse
<1>2. CASE task.by = "submit"
  <2>1. task' = [task EXCEPT !.end = "error"]
    BY <1>2 DEF EmitFails, Refuse
  <2> QED
    BY <1>1, <2>1, ErrorKept, JobInvKept
<1>3. CASE task.by # "submit"
  <2> DEFINE q == IF task.by = "failed" THEN Dispatching ELSE <<>>
  <2>1. task' = [task EXCEPT !.todo = q]
    BY <1>3 DEF EmitFails
  <2>2. q \in PhasesLeft[task.by]
    <3>1. task.by = "failed" => Dispatching \in PhasesLeft[task.by]
      BY PhasesOfTasks DEF PhasesLeft
    <3> QED
      BY <3>1, PhaseFacts
  <2>3. \A r : Includes(q, r) => Ahead(r)
    <3>1. CASE task.by = "failed"
      <4>1. \A r : Includes(q, r) => r \in {"hooks", "post"}
        BY <3>1, PhasesOfTasks, PhasesInTurn
      <4>2. StartsWith(task.todo, "save") \/ StartsWith(task.todo, "settings")
        BY PhaseFacts DEF At
      <4>3. Includes(task.todo, "hooks") /\ Includes(task.todo, "post")
        BY <3>1, <4>2, PhaseFacts, PhasesGoOn
      <4> QED
        BY <4>1, <4>3 DEF Ahead
    <3>2. CASE task.by # "failed"
      BY <3>2, PhasesInTurn
    <3> QED
      BY <3>1, <3>2
  <2>4. \A r : StartsWith(q, r) => r \in {"save", "hooks"}
    BY PhasesOfTasks, PhasesInTurn
  <2>5. task.to = {} /\ task.calls = {}
    BY PhaseFacts DEF ChosenAreWanted
  <2> HIDE DEF q
  <2> QED
    BY <1>1, <1>3, <2>1, <2>2, <2>3, <2>4, <2>5, SkipKept
<1> QED
  BY <1>2, <1>3

LEMMA SaveNotificationKept ==
  ASSUME FeedbackInv, SaveNotification, UNCHANGED <<settings, hooks>>
  PROVE  TaskInv' /\ JobInv'
<1>1. TaskAt("save") /\ UNCHANGED snaps
  BY DEF SaveNotification
<1>2. CASE EmitFails
  BY <1>1, <1>2, EmitFailsKept
<1>3. CASE task' = [task EXCEPT !.stored = TRUE, !.todo = Tail(@)] /\ UNCHANGED metricsJob
  <2>1. /\ task' \in Task
        /\ task'.by = task.by /\ task'.todo = Tail(task.todo) /\ task'.end = "running"
        /\ task'.moved = task.moved /\ task'.stored = TRUE
        /\ task'.to = task.to /\ task'.tried = task.tried /\ task'.chosen = task.chosen
        /\ task'.calls = task.calls /\ task'.called = task.called /\ task'.chosenHooks = task.chosenHooks
        /\ task'.known = task.known /\ task'.subscribers = task.subscribers
    <3>1. Tail(task.todo) \in UNION {PhasesLeft[b] : b \in DOMAIN Phases} /\ TRUE \in BOOLEAN
      BY <1>1, PhaseFacts
    <3>2. task \in Task /\ task.end = "running"
      BY <1>1, PhaseFacts
    <3> QED
      BY <1>3, <3>1, <3>2 DEF Task
  <2>2. StartsWith(Tail(task.todo), "settings") /\ Tail(task.todo) \in PhasesLeft[task.by]
    BY <1>1, PhaseFacts, PhasesGoOn DEF At
  <2>3. \A r : StartsWith(Tail(task.todo), r) => r = "settings"
    BY <2>2 DEF StartsWith
  <2>4. TasksAreInPhase'
    BY <2>1, <2>2 DEF TasksAreInPhase
  <2>5. ~At("move") /\ task.to = {} /\ task.calls = {}
    BY <1>1, PhaseFacts DEF ChosenAreWanted
  <2>6. SubmitsAreInOrder'
    BY <2>1, <2>5, <1>1, PhaseFacts DEF SubmitsAreInOrder
  <2>7. ChosenAreWanted'
    BY <1>1, <2>1, <2>3, <2>5, PhaseFacts DEF ChosenAreWanted, At, Ahead
  <2>8. JobInv'
    BY <1>1, <1>3, <2>1, <2>3, PhaseInvKept
  <2> QED
    BY <2>4, <2>6, <2>7, <2>8 DEF TaskInv
<1> QED
  BY <1>2, <1>3 DEF SaveNotification

LEMMA ReadSettingsKept ==
  ASSUME FeedbackInv, ReadSettings, UNCHANGED <<settings, hooks>>
  PROVE  TaskInv' /\ JobInv'
<1> DEFINE w == Wanted(settings, Tells[task.by])
<1>1. TaskAt("settings") /\ UNCHANGED snaps
  BY DEF ReadSettings
<1>2. CASE EmitFails
  BY <1>1, <1>2, EmitFailsKept
<1>3. CASE task' = [task EXCEPT !.to = w, !.chosen = w, !.todo = Tail(@)] /\ UNCHANGED metricsJob
  <2>1. w \in SUBSET Channel /\ w \subseteq task.known
    BY <1>1, FeedbackFacts, PhaseFacts DEF ChosenAreWanted
  <2>2. task'.by = task.by /\ w = Wanted(settings', Tells[task'.by])
    BY <1>1, <1>3, PhaseFacts DEF Task
  <2> HIDE DEF w
  <2>3. /\ task' \in Task
        /\ task'.todo = Tail(task.todo) /\ task'.end = "running"
        /\ task'.moved = task.moved /\ task'.stored = task.stored
        /\ task'.to = w /\ task'.tried = task.tried /\ task'.chosen = w
        /\ task'.calls = task.calls /\ task'.called = task.called /\ task'.chosenHooks = task.chosenHooks
        /\ task'.known = task.known /\ task'.subscribers = task.subscribers
    <3>1. Tail(task.todo) \in UNION {PhasesLeft[b] : b \in DOMAIN Phases}
      BY <1>1, PhaseFacts
    <3>2. task \in Task /\ task.end = "running"
      BY <1>1, PhaseFacts
    <3> QED
      BY <1>3, <2>1, <3>1, <3>2 DEF Task
  <2>4. StartsWith(Tail(task.todo), "channels") /\ Tail(task.todo) \in PhasesLeft[task.by]
    BY <1>1, PhaseFacts, PhasesGoOn DEF At
  <2>5. \A r : StartsWith(Tail(task.todo), r) => r = "channels"
    BY <2>4 DEF StartsWith
  <2>6. TasksAreInPhase'
    BY <2>2, <2>3, <2>4 DEF TasksAreInPhase
  <2>7. /\ ~At("move") /\ ~At("save") /\ ~At("refresh") /\ task.stored /\ task.tried = {} /\ task.calls = {}
        /\ ~Includes(Tail(task.todo), "settings")
    BY <1>1, PhaseFacts DEF ChosenAreWanted
  <2>8. SubmitsAreInOrder'
    BY <1>1, <2>2, <2>3, <2>7, PhaseFacts DEF SubmitsAreInOrder
  <2>9. ~Includes(Tail(task.todo), "refresh")
    <3>1. ~At("refresh")
      BY <1>1, PhaseFacts
    <3>2. ~Includes(task.todo, "refresh")
      BY <1>1, <3>1, PhaseFacts, PhasesGoOn DEF At
    <3> QED
      BY <1>1, <3>2, PhaseFacts DEF Ahead
  <2>10. ChosenAreWanted'
    BY <1>1, <2>1, <2>2, <2>3, <2>4, <2>5, <2>7, <2>9, PhaseFacts DEF ChosenAreWanted, At, Ahead
  <2>11. JobInv'
    BY <1>1, <1>3, <2>2, <2>3, <2>5, PhaseInvKept
  <2> QED
    BY <2>6, <2>8, <2>10, <2>11 DEF TaskInv
<1> QED
  BY <1>2, <1>3 DEF ReadSettings

LEMMA ChannelsKept ==
  ASSUME FeedbackInv, Channels, UNCHANGED <<settings, hooks>>
  PROVE  TaskInv' /\ JobInv'
<1>1. TaskAt("channels") /\ UNCHANGED <<metricsJob, snaps>>
  BY DEF Channels
<1>2. ASSUME task.to = {}, PhaseOver
      PROVE  TaskInv' /\ JobInv'
  <2>1. /\ Tail(task.todo) \in PhasesLeft[task.by]
        /\ Tail(task.todo) = <<>> \/ StartsWith(Tail(task.todo), "hooks")
    BY <1>1, PhaseFacts, PhasesGoOn DEF At
  <2>2. \A r : StartsWith(Tail(task.todo), r) => r \in {"save", "hooks"}
    BY <2>1, PhasesInTurn DEF StartsWith
  <2>3. task.calls = {} /\ \A r : Includes(Tail(task.todo), r) => Ahead(r)
    BY <1>1, PhaseFacts DEF ChosenAreWanted
  <2>4. task' = [task EXCEPT !.todo = Tail(task.todo)]
    BY <1>2 DEF PhaseOver
  <2>5. "channels" \notin {"move", "save"}
    OBVIOUS
  <2> QED
    BY <1>1, <1>2, <2>1, <2>2, <2>3, <2>4, <2>5, SkipKept
<1>3. ASSUME NEW c \in task.to, task' = [task EXCEPT !.to = @ \ {c}, !.tried = @ \cup {c}]
      PROVE  TaskInv' /\ JobInv'
  <2>1. /\ task' \in Task
        /\ task'.by = task.by /\ task'.todo = task.todo /\ task'.end = task.end
        /\ task'.moved = task.moved /\ task'.stored = task.stored
        /\ task'.to = task.to \ {c} /\ task'.tried = task.tried \cup {c} /\ task'.chosen = task.chosen
        /\ task'.calls = task.calls /\ task'.called = task.called /\ task'.chosenHooks = task.chosenHooks
        /\ task'.known = task.known /\ task'.subscribers = task.subscribers
    <3>1. task \in Task
      BY <1>1, PhaseFacts
    <3>2. task.to \ {c} \in SUBSET Channel /\ task.tried \cup {c} \in SUBSET Channel
      BY <1>3, <3>1 DEF Task
    <3> QED
      BY <1>3, <3>1, <3>2 DEF Task
  <2>2. TasksAreInPhase' /\ SubmitsAreInOrder'
    BY <1>1, <2>1, PhaseFacts DEF TasksAreInPhase, SubmitsAreInOrder, At
  <2>3. ChosenAreWanted'
    BY <1>1, <1>3, <2>1, PhaseFacts DEF ChosenAreWanted, At, Ahead
  <2>4. JobInv'
    BY <1>1, <2>1, PhaseFacts, PhaseInvKept DEF At
  <2> QED
    BY <2>2, <2>3, <2>4 DEF TaskInv
<1> QED
  BY <1>1, <1>2, <1>3 DEF Channels, Send

LEMMA ReadHooksKept ==
  ASSUME FeedbackInv, ReadHooks, UNCHANGED <<settings, hooks>>
  PROVE  TaskInv' /\ JobInv'
<1> DEFINE d == DeliverablesFor(Fires[task.by])
<1>1. TaskAt("hooks") /\ UNCHANGED <<metricsJob, snaps>>
  BY DEF ReadHooks
<1>2. /\ Tail(task.todo) \in PhasesLeft[task.by] /\ StartsWith(Tail(task.todo), "post")
      /\ Tail(Tail(task.todo)) \in PhasesLeft[task.by]
      /\ Tail(Tail(task.todo)) = <<>> \/ StartsWith(Tail(Tail(task.todo)), "save")
      /\ \A r : Includes(Tail(Tail(task.todo)), r) => Ahead(r)
      /\ task.by # "submit" /\ task.to = {} /\ task.calls = {}
  <2>1. StartsWith(task.todo, "hooks") /\ task.by \in DOMAIN Phases /\ task.todo \in PhasesLeft[task.by]
    BY <1>1, PhaseFacts DEF At
  <2>2. task.to = {} /\ task.calls = {}
    BY <1>1, PhaseFacts DEF ChosenAreWanted
  <2> QED
    BY <2>1, <2>2, PhasesGoOn DEF Ahead
<1>3. CASE task' = [task EXCEPT !.todo = Tail(Tail(@))]
  <2>1. \A r : StartsWith(Tail(Tail(task.todo)), r) => r \in {"save", "hooks"}
    BY <1>2, PhasesInTurn DEF StartsWith
  <2>2. task' = [task EXCEPT !.todo = Tail(Tail(task.todo))]
    BY <1>3
  <2> QED
    BY <1>1, <1>2, <2>1, <2>2, SkipKept
<1>4. CASE task' = [task EXCEPT !.calls = d, !.chosenHooks = d, !.todo = Tail(@)]
  <2>1. d \in SUBSET Hook /\ d \subseteq task.subscribers
    BY <1>1, FeedbackFacts, PhaseFacts DEF ChosenAreWanted, DeliverablesFor
  <2>2. task'.by = task.by /\ d = Subscribed(hooks', Fires[task'.by])
    BY <1>1, <1>4, PhaseFacts DEF Task, DeliverablesFor
  <2> HIDE DEF d
  <2>3. /\ task' \in Task
        /\ task'.todo = Tail(task.todo) /\ task'.end = "running"
        /\ task'.moved = task.moved /\ task'.stored = task.stored
        /\ task'.to = task.to /\ task'.tried = task.tried /\ task'.chosen = task.chosen
        /\ task'.calls = d /\ task'.called = task.called /\ task'.chosenHooks = d
        /\ task'.known = task.known /\ task'.subscribers = task.subscribers
    <3>1. Tail(task.todo) \in UNION {PhasesLeft[b] : b \in DOMAIN Phases}
      BY <1>1, PhaseFacts
    <3>2. task \in Task /\ task.end = "running"
      BY <1>1, PhaseFacts
    <3> QED
      BY <1>4, <2>1, <3>1, <3>2 DEF Task
  <2>4. \A r : StartsWith(Tail(task.todo), r) => r = "post"
    BY <1>2 DEF StartsWith
  <2>5. TasksAreInPhase' /\ SubmitsAreInOrder'
    BY <1>2, <2>2, <2>3 DEF TasksAreInPhase, SubmitsAreInOrder
  <2>6. task.called = {} /\ ~Includes(Tail(task.todo), "hooks") /\ ~Includes(Tail(task.todo), "refresh")
    <3>1. ~Ahead("refresh")
      <4>1. ~At("refresh")
        BY <1>1, PhaseFacts
      <4> QED
        BY <1>1, <4>1, PhaseFacts, PhasesGoOn DEF At, Ahead
    <3> QED
      BY <1>1, <3>1, PhaseFacts DEF ChosenAreWanted
  <2>7. ChosenAreWanted'
    BY <1>1, <1>2, <2>1, <2>2, <2>3, <2>4, <2>6, PhaseFacts DEF ChosenAreWanted, At, Ahead
  <2>8. JobInv'
    BY <1>1, <2>2, <2>3, <2>4, PhaseInvKept
  <2> QED
    BY <2>5, <2>7, <2>8 DEF TaskInv
<1> QED
  BY <1>3, <1>4 DEF ReadHooks

LEMMA PostHooksKept ==
  ASSUME FeedbackInv, PostHooks, UNCHANGED <<settings, hooks>>
  PROVE  TaskInv' /\ JobInv'
<1>1. TaskAt("post") /\ UNCHANGED <<metricsJob, snaps>>
  BY DEF PostHooks
<1>2. ASSUME task.calls = {}, PhaseOver
      PROVE  TaskInv' /\ JobInv'
  <2>1. /\ Tail(task.todo) \in PhasesLeft[task.by] /\ task.by # "submit"
        /\ Tail(task.todo) = <<>> \/ StartsWith(Tail(task.todo), "save")
    BY <1>1, PhaseFacts, PhasesGoOn DEF At
  <2>2. \A r : StartsWith(Tail(task.todo), r) => r \in {"save", "hooks"}
    BY <2>1, PhasesInTurn DEF StartsWith
  <2>3. task.to = {} /\ \A r : Includes(Tail(task.todo), r) => Ahead(r)
    BY <1>1, PhaseFacts DEF ChosenAreWanted
  <2>4. task' = [task EXCEPT !.todo = Tail(task.todo)]
    BY <1>2 DEF PhaseOver
  <2> QED
    BY <1>1, <1>2, <2>1, <2>2, <2>3, <2>4, SkipKept
<1>3. ASSUME NEW h \in task.calls, task' = [task EXCEPT !.calls = @ \ {h}, !.called = @ \cup {h}]
      PROVE  TaskInv' /\ JobInv'
  <2>1. /\ task' \in Task
        /\ task'.by = task.by /\ task'.todo = task.todo /\ task'.end = task.end
        /\ task'.moved = task.moved /\ task'.stored = task.stored
        /\ task'.to = task.to /\ task'.tried = task.tried /\ task'.chosen = task.chosen
        /\ task'.calls = task.calls \ {h} /\ task'.called = task.called \cup {h}
        /\ task'.chosenHooks = task.chosenHooks
        /\ task'.known = task.known /\ task'.subscribers = task.subscribers
    BY <1>1, <1>3, PhaseFacts DEF Task
  <2>2. TasksAreInPhase' /\ SubmitsAreInOrder'
    BY <1>1, <2>1, PhaseFacts DEF TasksAreInPhase, SubmitsAreInOrder, At
  <2>3. ChosenAreWanted'
    BY <1>1, <1>3, <2>1, PhaseFacts DEF ChosenAreWanted, At, Ahead
  <2>4. JobInv'
    BY <1>1, <2>1, PhaseFacts, PhaseInvKept DEF At
  <2> QED
    BY <2>2, <2>3, <2>4 DEF TaskInv
<1> QED
  BY <1>1, <1>2, <1>3 DEF PostHooks

LEMMA RefreshKept ==
  ASSUME FeedbackInv, Refresh, UNCHANGED <<settings, hooks>>
  PROVE  TaskInv' /\ JobInv'
<1>1. TaskAt("refresh")
  BY DEF Refresh
<1>2. task.by = "metrics" /\ Refreshing
  <2>1. StartsWith(task.todo, "refresh") /\ task.by \in DOMAIN Phases /\ task.todo \in PhasesLeft[task.by]
    BY <1>1, PhaseFacts DEF At
  <2>2. task.by = "metrics"
    BY <2>1, PhasesGoOn
  <2> QED
    BY <1>1, <2>2, PhaseFacts DEF Refreshing, Telling
<1>3. /\ metricsJob.state = "active" /\ metricsJob.attempts < MaxAttempts
      /\ snaps <= metricsJob.stalls
  BY <1>1, <1>2, PhaseFacts, FeedbackFacts DEF FeedbackInv, SnapshotsAreCounted
<1>4. ASSUME NEW u \in BOOLEAN, ThrowMetrics(u), UNCHANGED snaps
      PROVE  TaskInv' /\ JobInv'
  <2>1. TaskInv' /\ ~Refreshing'
    BY <1>1, <1>4, ErrorKept DEF ThrowMetrics
  <2>2. /\ metricsJob' \in Job /\ metricsJob'.attempts = metricsJob.attempts + 1
        /\ metricsJob'.stalls = metricsJob.stalls
        /\ metricsJob'.state \in {"waiting", "failed"}
        /\ metricsJob'.state = "waiting" => metricsJob.attempts + 1 < MaxAttempts
    BY <1>3, <1>4, FeedbackFacts, JobTypes, JobFields DEF ThrowMetrics
  <2>3. JobInv'
    BY <1>3, <1>4, <2>1, <2>2, FeedbackFacts DEF JobInv, SnapshotsAreCounted, SnapshotsPerRefresh, InFlight
  <2> QED
    BY <2>1, <2>3
<1>5. ASSUME NEW milestone \in BOOLEAN, snaps' = snaps + 1, UNCHANGED metricsJob,
             task' = [task EXCEPT !.todo = Dispatching \o IF milestone THEN Notifying ELSE <<>>]
      PROVE  TaskInv' /\ JobInv'
  <2> DEFINE q == Dispatching \o IF milestone THEN Notifying ELSE <<>>
  <2>1. q \in PhasesLeft[task.by] /\ \A r : StartsWith(q, r) => r = "hooks"
    <3>1. q \in PhasesLeft["metrics"]
      BY PhasesOfTasks DEF PhasesLeft
    <3>2. \A r : StartsWith(q, r) => r = "hooks"
      <4>1. q = <<"hooks", "post">> \/ q = <<"hooks", "post", "save", "settings", "channels">>
        BY PhasesOfTasks
      <4>2. \A r : /\ StartsWith(<<"hooks", "post">>, r) => r = "hooks"
                   /\ StartsWith(<<"hooks", "post", "save", "settings", "channels">>, r) => r = "hooks"
        BY PhasesInTurn
      <4> HIDE DEF q
      <4> QED
        BY <4>1, <4>2
    <3> QED
      BY <1>2, <3>1, <3>2
  <2> HIDE DEF q
  <2>2. q \in UNION {PhasesLeft[b] : b \in DOMAIN Phases}
    BY <1>1, <2>1, PhaseFacts
  <2>3. /\ task' \in Task
        /\ task'.by = task.by /\ task'.todo = q /\ task'.end = "running"
        /\ task'.moved = task.moved /\ task'.stored = task.stored
        /\ task'.to = task.to /\ task'.tried = task.tried /\ task'.chosen = task.chosen
        /\ task'.calls = task.calls /\ task'.called = task.called /\ task'.chosenHooks = task.chosenHooks
        /\ task'.known = task.known /\ task'.subscribers = task.subscribers
    <3>1. task' = [task EXCEPT !.todo = q]
      BY <1>5 DEF q
    <3> QED
      BY <1>1, <2>2, <3>1, PhaseFacts DEF Task
  <2>4. task.to = {} /\ task.calls = {} /\ task.chosen = {} /\ task.chosenHooks = {}
    BY <1>1, PhaseFacts DEF ChosenAreWanted
  <2>5. TasksAreInPhase' /\ SubmitsAreInOrder'
    BY <1>2, <2>1, <2>3 DEF TasksAreInPhase, SubmitsAreInOrder
  <2>6. ChosenAreWanted'
    BY <1>1, <2>1, <2>3, <2>4, PhaseFacts DEF ChosenAreWanted, At
  <2>7. JobInv'
    <3>1. ~At("refresh")'
      BY <2>1, <2>3 DEF At
    <3>2. snaps' \in 0 .. MaxAttempts + MaxStalls /\ snaps' <= 1 + metricsJob.stalls
      BY <1>3, <1>5, FeedbackFacts
    <3> QED
      BY <1>3, <1>5, <3>1, <3>2, FeedbackFacts
      DEF JobInv, SnapshotsAreCounted, SnapshotsPerRefresh, InFlight
  <2> QED
    BY <2>5, <2>6, <2>7 DEF TaskInv
<1> QED
  BY <1>4, <1>5 DEF Refresh

LEMMA EndTaskKept ==
  ASSUME FeedbackInv, EndTask, UNCHANGED <<settings, hooks>>
  PROVE  TaskInv' /\ JobInv'
<1>1. /\ Telling /\ task.end = "running" /\ task.todo = <<>>
      /\ task' = [task EXCEPT !.end = "ok"] /\ UNCHANGED snaps
  BY DEF EndTask, Telling
<1>2. /\ task' \in Task
      /\ task'.by = task.by /\ task'.todo = task.todo /\ task'.end = "ok"
      /\ task'.moved = task.moved /\ task'.stored = task.stored
      /\ task'.to = task.to /\ task'.tried = task.tried /\ task'.chosen = task.chosen
      /\ task'.calls = task.calls /\ task'.called = task.called /\ task'.chosenHooks = task.chosenHooks
      /\ task'.known = task.known /\ task'.subscribers = task.subscribers
  BY <1>1, TaskFacts DEF Task
<1>3. TaskInv'
  BY <1>1, <1>2
  DEF FeedbackInv, TaskInv, TasksAreInPhase, SubmitsAreInOrder, ChosenAreWanted, Telling, At, Ahead
<1>4. ~Refreshing'
  BY <1>2 DEF Refreshing
<1>5. CASE task.by = "metrics"
  <2>1. Refreshing /\ metricsJob' = Completed(metricsJob)
    BY <1>1, <1>5 DEF Refreshing, Telling, EndTask
  <2>2. metricsJob' \in Job /\ metricsJob'.state = "completed" /\ metricsJob'.stalls = metricsJob.stalls
    BY <2>1, FeedbackFacts, JobTypes, JobFields
  <2>3. JobInv'
    BY <1>1, <1>4, <2>2, FeedbackFacts DEF JobInv, SnapshotsAreCounted, SnapshotsPerRefresh, InFlight
  <2> QED
    BY <1>3, <2>3
<1>6. CASE task.by # "metrics"
  BY <1>1, <1>3, <1>4, <1>6, JobInvKept DEF EndTask
<1> QED
  BY <1>5, <1>6

LEMMA FeedbackInitially == FeedbackInit => FeedbackInv
<1> SUFFICES ASSUME FeedbackInit PROVE FeedbackInv
  OBVIOUS
<1>1. NoJob \in Job /\ NoJob.state = "absent" /\ NoJob.stalls = 0 /\ MaxStalls \in Nat /\ MaxAttempts \in Nat
  BY AttemptsAssumption, StallsAssumption DEF NoJob, Job, JobState
<1>2. ~Telling /\ ~Refreshing
  BY DEF FeedbackInit, Telling, Refreshing
<1>3. settings \in [there : BOOLEAN, targets : SUBSET Channel, muted : SUBSET Kind]
  BY FeedbackAssumption DEF FeedbackInit
<1>4. hooks \in [Hook -> SUBSET Event]
  BY FeedbackAssumption DEF FeedbackInit
<1>5. FeedbackTypeOK
  BY <1>1, <1>2, <1>3, <1>4, FeedbackAssumption DEF FeedbackInit, FeedbackTypeOK
<1>6. TasksAreInPhase /\ SubmitsAreInOrder /\ ChosenAreWanted
  BY <1>2 DEF TasksAreInPhase, SubmitsAreInOrder, ChosenAreWanted
<1>7. SnapshotsAreCounted /\ SnapshotsPerRefresh
  BY <1>1, <1>2 DEF FeedbackInit, SnapshotsAreCounted, SnapshotsPerRefresh, InFlight
<1> QED
  BY <1>5, <1>6, <1>7, TellingIsRight DEF FeedbackInv, EventsReachWhoAsked

\* What a task has done is told by the phases it has left, and a job's snapshots
\* by its attempts and stalls.
THEOREM FeedbackInvariance == FeedbackSpec => []FeedbackInv
<1>1. FeedbackInv /\ [FeedbackNext]_feedbackVars => FeedbackInv'
  <2> SUFFICES ASSUME FeedbackInv, [FeedbackNext]_feedbackVars PROVE FeedbackInv'
    OBVIOUS
  <2>1. CASE UNCHANGED feedbackVars
    <3>1. UNCHANGED <<task, settings, hooks, readable, metricsJob, snaps, edits>>
      BY <2>1 DEF feedbackVars
    <3>2. TaskInv' /\ JobInv'
      BY <3>1, TaskLeftAlone, JobInvKept
    <3> QED
      BY <3>1, <3>2, FeedbackFacts, TaskAndJob
  <2>2. CASE TaskStep
    <3>1. UNCHANGED <<settings, hooks, readable, edits>>
      BY <2>2 DEF TaskStep
    <3>2. TaskInv' /\ JobInv'
      BY <2>2, <3>1, MoveItemKept, RefreshKept, SaveNotificationKept, ReadSettingsKept, ChannelsKept,
         ReadHooksKept, PostHooksKept, EndTaskKept DEF TaskStep
    <3> QED
      BY <3>1, <3>2, FeedbackFacts, TaskAndJob
  <2>3. CASE \E h \in Hook : RemoveHook(h) \/ \E e \in Subscription : CreateHook(h, e)
    BY <2>3, EditsKept, RemoveHookKept
  <2> QED
    BY <2>1, <2>2, <2>3, EditsKept, MetricsJobKept, BeginKept, TakeMetricsJobKept, DieOrLeaveKept
    DEF FeedbackNext
<1> QED
  BY <1>1, FeedbackInitially, PTL DEF FeedbackSpec

\* emit, dispatch and the metrics worker: nothing waits for review unnoticed,
\* nobody is told who did not ask, nobody who was chosen is left out, and no
\* failure of the telling takes another snapshot.
THEOREM EventsAreTold == FeedbackSpec => []EventsReachWhoAsked
<1>1. FeedbackInv => EventsReachWhoAsked
  BY DEF FeedbackInv
<1> QED
  BY <1>1, FeedbackInvariance, PTL

\* A refresh runs only under an active job, and what was tried had been chosen.
THEOREM FeedbackTypeCorrect == FeedbackSpec => []FeedbackTypeOK
<1>1. FeedbackInv => FeedbackTypeOK
  BY DEF FeedbackInv
<1> QED
  BY <1>1, FeedbackInvariance, PTL

----------------------------------------------------------------------------
(* The three side by side.                                                  *)

\* What moves beside a component leaves its variables alone, so that what holds of
\* the component holds of it in this company too.
LEMMA LoopsAreThree == LoopsSpec => SweepsSpec /\ FeedbackSpec /\ ReportsSpec
<1>1. LoopsInit => SweepsInit /\ FeedbackInit /\ ReportsInit
  BY DEF LoopsInit
<1> DEFINE loopVars == <<part, sweepVars, feedbackVars, reportVars>>
<1>2. [LoopsNext]_loopVars => [SweepsNext]_sweepVars
  BY DEF LoopsNext
<1>3. [LoopsNext]_loopVars => [FeedbackNext]_feedbackVars
  BY DEF LoopsNext
<1>4. [LoopsNext]_loopVars => [ReportsNext]_reportVars
  BY DEF LoopsNext
<1> QED
  BY <1>1, <1>2, <1>3, <1>4, PTL DEF LoopsSpec, SweepsSpec, FeedbackSpec, ReportsSpec

\* What the queues' handlers keep across awaits, beside each other, has its type.
THEOREM LoopsTypesHold == LoopsSpec => []LoopsTypeOK
<1>1. SweepsTypeOK /\ FeedbackTypeOK /\ ReportsTypeOK => LoopsTypeOK
  BY DEF LoopsTypeOK
<1> QED
  BY <1>1, LoopsAreThree, SweepsTypeCorrect, FeedbackTypeCorrect, ReportsTypeCorrect, PTL
=============================================================================
