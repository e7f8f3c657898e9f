--------------------------- MODULE PublishingProofs ---------------------------
(***************************************************************************)
(* What holds of Publishing for any number of items, accounts, requests,    *)
(* ticks, workers, rows and faults, and what does until something fails.     *)
(***************************************************************************)
EXTENDS PublishingInvariant, FiniteSetTheorems, TLAPS

----------------------------------------------------------------------------
(* The approval workflow.                                                   *)

LEMMA ApprovalTypes ==
  ASSUME ApprovalTypeOK, ApprovalStep
  PROVE  ApprovalTypeOK'
<1> USE DEF ApprovalTypeOK, itemVars, Handler, IdleRequest, Copy, At, Serving
<1>1. ASSUME NEW r \in Request, NEW i \in Item, NEW to \in Requestable,
             ReadItem(r, i, to)
      PROVE  ApprovalTypeOK'
  BY <1>1 DEF ReadItem, Handling
<1>2. ASSUME NEW r \in Request, NEW i \in Item, NEW to \in {"approved", "draft"},
             ReadForReview(r, i, to)
      PROVE  ApprovalTypeOK'
  BY <1>2 DEF ReadForReview, Handling, ItemStatus, Requestable
<1>3. ASSUME NEW r \in Request, GateLoadsCopy(r)
      PROVE  ApprovalTypeOK'
  <2>1. req[r] \in Handler
    BY <1>3 DEF GateLoadsCopy
  <2>2. copy[req[r].item] \in Copy
    BY <2>1
  <2>3. [req[r] EXCEPT !.pc = "evaluate", !.caption = copy[req[r].item]] \in Handler
    BY <2>1, <2>2
  <2> QED
    BY <1>3, <2>3 DEF GateLoadsCopy
<1>4. ASSUME NEW r \in Request, GateEvaluates(r)
      PROVE  ApprovalTypeOK'
  BY <1>4 DEF GateEvaluates
<1>5. ASSUME NEW r \in Request, Flip(r)
      PROVE  ApprovalTypeOK'
  BY <1>5 DEF Flip, Requestable, ItemStatus
<1>6. ASSUME NEW r \in Request, Respond(r)
      PROVE  ApprovalTypeOK'
  BY <1>6 DEF Respond
<1>7. ASSUME NEW i \in Item, NEW c \in Caption, SaveCopy(i, c)
      PROVE  ApprovalTypeOK'
  BY <1>7 DEF SaveCopy
<1>8. ASSUME NEW b \in Config, UpdateRules(b)
      PROVE  ApprovalTypeOK'
  BY <1>8, ConfigAssumption DEF UpdateRules
<1> QED
  BY <1>1, <1>2, <1>3, <1>4, <1>5, <1>6, <1>7, <1>8 DEF ApprovalStep, RequestStep

\* What a step of anything can do to the handlers.
RequestsMove ==
  \/ ApprovalStep
  \/ UNCHANGED req
  \/ \E r \in Request : req' = [req EXCEPT ![r] = IdleRequest]

LEMMA HandlersKeepToTable ==
  ASSUME ApprovalTypeOK, HandlersMoveLegally, RequestsMove
  PROVE  HandlersMoveLegally'
<1> USE DEF ApprovalTypeOK
<1> DEFINE Legal(x) == /\ CanTransition(x.from, x.to)
                       /\ x.via = "portal" => x.from = "in_review"
<1>1. ASSUME NEW r \in Request, NEW x, req' = [req EXCEPT ![r] = x],
             x = IdleRequest \/ Legal(x)
      PROVE  HandlersMoveLegally'
  BY <1>1 DEF HandlersMoveLegally, Serving
<1>2. ASSUME NEW r \in Request, Serving(r)
      PROVE  req[r] \in Handler /\ Legal(req[r])
  BY <1>2 DEF HandlersMoveLegally, Serving
<1>3. ASSUME UNCHANGED req
      PROVE  HandlersMoveLegally'
  BY <1>3 DEF HandlersMoveLegally, Serving
<1>4. ASSUME NEW r \in Request, NEW i \in Item, NEW to, ReadItem(r, i, to)
      PROVE  HandlersMoveLegally'
  BY <1>1, <1>4 DEF ReadItem, Handling
<1>5. ASSUME NEW r \in Request, NEW i \in Item, NEW to \in {"approved", "draft"},
             ReadForReview(r, i, to)
      PROVE  HandlersMoveLegally'
  BY <1>1, <1>5 DEF ReadForReview, Handling, CanTransition, Transitions
<1>6. ASSUME NEW r \in Request, RequestStep(r)
      PROVE  HandlersMoveLegally'
  <2>1. CASE Respond(r)
    BY <1>1, <2>1 DEF Respond
  <2>2. CASE GateLoadsCopy(r)
    <3>1. req[r] \in Handler /\ Legal(req[r])
      BY <1>2, <2>2 DEF GateLoadsCopy, At, Serving, IdleRequest
    <3> DEFINE x == [req[r] EXCEPT !.pc = "evaluate", !.caption = copy[req[r].item]]
    <3>2. /\ req' = [req EXCEPT ![r] = x]
          /\ x.from = req[r].from /\ x.to = req[r].to /\ x.via = req[r].via
      BY <2>2, <3>1 DEF GateLoadsCopy, Handler
    <3> QED
      BY <1>1, <3>1, <3>2
  <2>3. ASSUME At(r, "evaluate") \/ At(r, "flip")
        PROVE  Legal([req[r] EXCEPT !.pc = "flip"]) /\ Legal([req[r] EXCEPT !.pc = "after"])
    BY <1>2, <2>3 DEF At, Serving, IdleRequest, Handler
  <2>4. CASE GateEvaluates(r)
    BY <1>1, <2>3, <2>4 DEF GateEvaluates
  <2>5. CASE Flip(r)
    BY <1>1, <2>3, <2>5 DEF Flip
  <2> QED
    BY <1>6, <2>1, <2>2, <2>4, <2>5 DEF RequestStep
<1>7. ASSUME NEW r \in Request, req' = [req EXCEPT ![r] = IdleRequest]
      PROVE  HandlersMoveLegally'
  BY <1>1, <1>7
<1>8. CASE ApprovalStep
  BY <1>3, <1>4, <1>5, <1>6, <1>8 DEF ApprovalStep, SaveCopy, UpdateRules
<1> QED
  BY <1>3, <1>7, <1>8 DEF RequestsMove

\* Only Flip lets a handler go on to what follows a move, and only if the item
\* still has the status it has read.
LEMMA FlipsAreFlips ==
  ASSUME ApprovalTypeOK, RequestsMove, NEW r \in Request, Flips(r)
  PROVE  Flip(r) /\ status[req[r].item] = req[r].from
<1> USE DEF ApprovalTypeOK, Flips, At
<1>1. req[r].pc = "flip" /\ req'[r] # req[r] /\ req[r] # IdleRequest
  BY DEF IdleRequest
<1>2. ASSUME NEW q \in Request, NEW x, req' = [req EXCEPT ![q] = x]
      PROVE  q = r /\ x # IdleRequest /\ x.pc = "after"
  BY <1>1, <1>2
<1>3. ApprovalStep
  BY <1>1, <1>2 DEF RequestsMove
<1>4. ASSUME NEW q \in Request, NEW i, NEW to, ReadItem(q, i, to) \/ ReadForReview(q, i, to)
      PROVE  FALSE
  BY <1>1, <1>2, <1>4 DEF ReadItem, ReadForReview, Serving
<1>5. ASSUME NEW q \in Request, RequestStep(q)
      PROVE  Flip(q) /\ q = r
  <2>1. CASE GateLoadsCopy(q)
    BY <1>1, <1>2, <2>1 DEF GateLoadsCopy
  <2>2. CASE GateEvaluates(q)
    BY <1>1, <1>2, <2>2 DEF GateEvaluates
  <2>3. CASE Respond(q)
    BY <1>1, <1>2, <2>3 DEF Respond
  <2>4. CASE Flip(q)
    <3>1. q # r => req'[r] = req[r]
      BY <2>4 DEF Flip
    <3> QED
      BY <1>1, <2>4, <3>1
  <2> QED
    BY <1>5, <2>1, <2>2, <2>3, <2>4 DEF RequestStep
<1>6. Flip(r)
  BY <1>1, <1>3, <1>4, <1>5 DEF ApprovalStep, SaveCopy, UpdateRules
<1>7. CASE status[req[r].item] # req[r].from
  BY <1>6, <1>7 DEF Flip
<1> QED
  BY <1>6, <1>7

LEMMA ReviewersFlipReviews ==
  ASSUME ApprovalInv, RequestsMove
  PROVE  \A r \in Request : Flips(r) /\ req[r].via = "portal" =>
           status[req[r].item] = "in_review"
<1> TAKE r \in Request
<1> HAVE Flips(r) /\ req[r].via = "portal"
<1>1. Serving(r)
  BY DEF Flips, At, Serving, IdleRequest
<1> QED
  BY <1>1, FlipsAreFlips DEF ApprovalInv, HandlersMoveLegally

LEMMA FlipKeepsToTable ==
  ASSUME ApprovalInv, NEW r \in Request, Flip(r)
  PROVE  \A i \in Item : status'[i] # status[i] => CanTransition(status[i], status'[i])
<1>1. Serving(r) /\ req[r] \in Handler
  BY DEF ApprovalInv, ApprovalTypeOK, Flip, At, Serving, IdleRequest
<1>2. req[r].item \in Item /\ CanTransition(req[r].from, req[r].to)
  BY <1>1 DEF ApprovalInv, HandlersMoveLegally, Handler
<1> QED
  BY <1>2 DEF Flip, ApprovalInv, ApprovalTypeOK

----------------------------------------------------------------------------
(* The workflow on its own.                                                 *)

LEMMA ApprovalInvHolds == ApprovalSpec => []ApprovalInv
<1>1. ApprovalInit => ApprovalInv
  BY ConfigAssumption DEF ApprovalInit, ApprovalInv, ApprovalTypeOK, HandlersMoveLegally,
     Serving, ItemStatus, Copy
<1>2. ASSUME ApprovalInv, [ApprovalNext]_approvalVars
      PROVE  ApprovalInv'
  <2>1. RequestsMove
    BY <1>2 DEF RequestsMove, ApprovalNext, approvalVars, RequestDies, Elsewhere
  <2>2. HandlersMoveLegally'
    BY <1>2, <2>1, HandlersKeepToTable DEF ApprovalInv
  <2>3. CASE ApprovalStep
    BY <1>2, <2>2, <2>3, ApprovalTypes DEF ApprovalInv
  <2>4. CASE \E r \in Request : RequestDies(r)
    BY <1>2, <2>2, <2>4 DEF ApprovalInv, ApprovalTypeOK, RequestDies, itemVars
  <2>5. CASE \E i \in Item, from, to \in ItemStatus : Elsewhere(i, from, to)
    BY <1>2, <2>2, <2>5 DEF ApprovalInv, ApprovalTypeOK, Elsewhere
  <2>6. CASE UNCHANGED approvalVars
    BY <1>2, <2>2, <2>6 DEF ApprovalInv, ApprovalTypeOK, approvalVars
  <2> QED
    BY <1>2, <2>3, <2>4, <2>5, <2>6 DEF ApprovalNext
<1> QED
  BY <1>1, <1>2, PTL DEF ApprovalSpec

\* Types of the items' columns and of what handlers keep across awaits.
THEOREM ApprovalTypeCorrect == ApprovalSpec => []ApprovalTypeOK
<1>1. ApprovalInv => ApprovalTypeOK
  BY DEF ApprovalInv
<1> QED
  BY <1>1, ApprovalInvHolds, PTL

\* However many requests of the dashboard and of reviewers overlap, a status only
\* moves along the table, and a reviewer only moves an item that is in review
\* (approval/index.ts:43-54, review/index.ts:94-118).
THEOREM StatusKeepsToTable == ApprovalSpec => StatusFollowsRules
<1> DEFINE Moves == /\ \A i \in Item : status'[i] # status[i] => CanTransition(status[i], status'[i])
                    /\ \A r \in Request : Flips(r) /\ req[r].via = "portal" =>
                         status[req[r].item] = "in_review"
<1>1. ASSUME ApprovalInv, [ApprovalNext]_approvalVars
      PROVE  [Moves]_approvalVars
  <2>1. RequestsMove
    BY <1>1 DEF RequestsMove, ApprovalNext, approvalVars, RequestDies, Elsewhere
  <2>2. ASSUME NEW i \in Item, status'[i] # status[i]
        PROVE  CanTransition(status[i], status'[i])
    <3>1. CASE \E r \in Request : Flip(r)
      BY <1>1, <2>2, <3>1, FlipKeepsToTable
    <3>2. CASE \E j \in Item, from, to \in ItemStatus : Elsewhere(j, from, to)
      BY <1>1, <2>2, <3>2
      DEF Elsewhere, ApprovalInv, ApprovalTypeOK, CanTransition, Transitions
    <3> QED
      BY <1>1, <2>2, <3>1, <3>2
      DEF ApprovalNext, approvalVars, ApprovalStep, RequestStep, ReadItem, ReadForReview,
          GateLoadsCopy, GateEvaluates, Respond, RequestDies, SaveCopy, UpdateRules, itemVars
  <2> QED
    BY <1>1, <2>1, <2>2, ReviewersFlipReviews
<1> QED
  BY <1>1, ApprovalInvHolds, PTL DEF ApprovalSpec, StatusFollowsRules

----------------------------------------------------------------------------
(* The queue and its workers.                                               *)

LEMMA FlipIfTypes ==
  ASSUME ApprovalTypeOK, NEW i \in Item, NEW from, NEW to \in ItemStatus,
         FlipIf(i, from, to)
  PROVE  ApprovalTypeOK'
  BY DEF FlipIf, ApprovalTypeOK

----------------------------------------------------------------------------
(* Types and locks.                                                         *)

LEMMA BusyRuns ==
  ASSUME TypeOK, NEW w \in Worker, Busy(w)
  PROVE  worker[w] \in Run /\ KeyOf(w) \in Key /\ ItemAt(w) \in Item
  BY DEF TypeOK, Busy, Run, KeyOf, ItemAt, ItemOf, Key

\* The queue's invariant survives every step that leaves the jobs alone and
\* lets no worker take a job or get a lock back.
LocksKept ==
  \A w \in Worker : Busy(w)' /\ ~worker'[w].lost =>
    Busy(w) /\ ~worker[w].lost /\ worker'[w].key = worker[w].key

LEMMA QueueInvKept ==
  ASSUME QueueInv, UNCHANGED job, LocksKept
  PROVE  QueueInv'
  BY DEF QueueInv, JobsHaveAttempts, HoldersAreActive, HoldersAreAlone,
         LocksKept, KeyOf

\* ... and an enqueue, which never touches a job a worker could hold.
LEMMA QueueInvAdd ==
  ASSUME TypeOK, QueueInv, NEW k \in Key, job' = [job EXCEPT ![k] = Added(@)],
         UNCHANGED worker
  PROVE  QueueInv' /\ job' \in [Key -> Job]
<1>1. Added(job[k]) \in Job
  BY AttemptsAssumption, StallsAssumption
  DEF TypeOK, Added, FreshJob, Job, JobState
<1>2. job' \in [Key -> Job]
  BY <1>1 DEF TypeOK
<1>3. JobsHaveAttempts'
  BY AttemptsAssumption
  DEF QueueInv, JobsHaveAttempts, InFlight, Added, FreshJob, TypeOK
<1>4. HoldersAreActive'
  BY BusyRuns DEF QueueInv, HoldersAreActive, Added, FreshJob, TypeOK, Busy, KeyOf
<1>5. HoldersAreAlone'
  BY DEF QueueInv, HoldersAreAlone, Busy, KeyOf
<1> QED
  BY <1>2, <1>3, <1>4, <1>5 DEF QueueInv

LEMMA RouteAndTicks ==
  ASSUME TypeOK, QueueInv,
         \/ ApprovalStep /\ UNCHANGED publishVars
         \/ \E r \in Request, a \in Account : RouteEnqueues(r, a)
         \/ \E r \in Request : RequestFails(r)
         \/ TimePasses
         \/ \E t \in Tick : TickStep(t) \/ TickEnqueueFails(t) \/ TickDies(t)
  PROVE  TypeOK' /\ QueueInv'
<1> USE DEF approvalVars, tickVars, workVars, publishVars
<1>0. UNCHANGED worker => LocksKept
  BY DEF LocksKept, Busy
<1>1. CASE ApprovalStep /\ UNCHANGED publishVars
  <2>1. ApprovalTypeOK'
    BY <1>1, ApprovalTypes DEF TypeOK
  <2> QED
    BY <1>1, <1>0, <2>1, QueueInvKept DEF TypeOK
<1>2. ASSUME NEW r \in Request, NEW a \in Account, RouteEnqueues(r, a)
      PROVE  TypeOK' /\ QueueInv'
  <2> DEFINE k == <<req[r].item, a>>
  <2>1. req[r] \in Handler
    BY <1>2 DEF RouteEnqueues, At, TypeOK, ApprovalTypeOK, IdleRequest
  <2>2. k \in Key
    BY <2>1 DEF Handler, Key
  <2>3. job' \in [Key -> Job] /\ QueueInv'
    BY <1>2, <2>2, QueueInvAdd DEF RouteEnqueues
  <2>4. ApprovalTypeOK'
    BY <1>2 DEF RouteEnqueues, TypeOK, ApprovalTypeOK, itemVars
  <2> QED
    BY <1>2, <2>3, <2>4 DEF RouteEnqueues, TypeOK
<1>3. ASSUME NEW r \in Request, RequestFails(r)
      PROVE  TypeOK' /\ QueueInv'
  <2>1. ApprovalTypeOK'
    BY <1>3 DEF RequestFails, RequestDies, TypeOK, ApprovalTypeOK, itemVars
  <2>2. faults' \in 0 .. MaxFaults
    BY <1>3, BoundsAssumption DEF RequestFails, Fault, TypeOK
  <2> QED
    BY <1>3, <1>0, <2>1, <2>2, QueueInvKept DEF RequestFails, TypeOK
<1>4. CASE TimePasses
  <2>1. now' \in 0 .. MaxTime
    BY <1>4, BoundsAssumption DEF TimePasses, TypeOK
  <2> QED
    BY <1>4, <1>0, <2>1, QueueInvKept DEF TimePasses, TypeOK, ApprovalTypeOK
<1>5. ASSUME NEW t \in Tick, TickStep(t) \/ TickEnqueueFails(t) \/ TickDies(t)
      PROVE  TypeOK' /\ QueueInv'
  <2>0. \A batch \in SUBSET Targeted : Claiming(batch) \in {IdleTick} \cup Pass
    BY DEF Claiming, Pass
  <2>1. ASSUME NEW batch \in SUBSET Due, FindDueItems(t, batch)
        PROVE  TypeOK' /\ QueueInv'
    <3>1. [pc |-> "claim", batch |-> batch] \in Pass
      BY DEF Due, Pass
    <3>2. tick' \in [Tick -> {IdleTick} \cup Pass]
      BY <2>1, <3>1 DEF FindDueItems, TypeOK
    <3> QED
      BY <2>1, <1>0, <3>2, QueueInvKept DEF FindDueItems, TypeOK, ApprovalTypeOK
  <2>2. ASSUME NEW i \in Item, Claim(t, i)
        PROVE  TypeOK' /\ QueueInv'
    <3>1. tick[t] \in Pass
      BY <2>2 DEF Claim, TypeOK, IdleTick
    <3>2. tick[t].batch \in SUBSET Targeted
      BY <3>1 DEF Pass
    <3>3. [pc |-> "enqueue", batch |-> tick[t].batch \ {i}, item |-> i] \in Pass
      BY <2>2, <3>2 DEF Claim, Pass
    <3>4. tick' \in [Tick -> {IdleTick} \cup Pass]
      BY <2>2, <2>0, <3>2, <3>3 DEF Claim, TypeOK
    <3>5. ApprovalTypeOK'
      BY <2>2, FlipIfTypes DEF Claim, TypeOK, ItemStatus
    <3> QED
      BY <2>2, <1>0, <3>4, <3>5, QueueInvKept DEF Claim, TypeOK
  <2>3. ASSUME tick[t].pc = "enqueue"
        PROVE  /\ tick[t].item \in Targeted
               /\ [tick EXCEPT ![t] = Claiming(tick[t].batch)]
                    \in [Tick -> {IdleTick} \cup Pass]
    <3>1. tick[t] \in [pc : {"enqueue"}, batch : SUBSET Targeted, item : Targeted]
      BY <2>3 DEF TypeOK, IdleTick, Pass
    <3> QED
      BY <2>0, <3>1 DEF TypeOK
  <2>4. CASE TickEnqueues(t)
    <3> DEFINE k == <<tick[t].item, Target[tick[t].item]>>
    <3>1. k \in Key
      BY <2>4, <2>3, TargetAssumption DEF TickEnqueues, Targeted, Key
    <3>2. job' \in [Key -> Job] /\ QueueInv'
      BY <2>4, <3>1, QueueInvAdd DEF TickEnqueues
    <3> QED
      BY <2>4, <2>3, <3>2 DEF TickEnqueues, TypeOK, ApprovalTypeOK
  <2>5. CASE TickEnqueueFails(t)
    BY <2>5, <2>3, <1>0, QueueInvKept, BoundsAssumption
    DEF TickEnqueueFails, Fault, TypeOK, ApprovalTypeOK
  <2>6. CASE TickDies(t)
    BY <2>6, <1>0, QueueInvKept, BoundsAssumption
    DEF TickDies, Fault, TypeOK, ApprovalTypeOK
  <2> QED
    BY <1>5, <2>1, <2>2, <2>4, <2>5, <2>6 DEF TickStep
<1> QED
  BY <1>1, <1>2, <1>3, <1>4, <1>5

LEMMA LeaveTypes ==
  ASSUME TypeOK, QueueInv, NEW w \in Worker,
         worker' = [worker EXCEPT ![w] = IdleWorker], UNCHANGED job
  PROVE  QueueInv' /\ worker' \in [Worker -> {IdleWorker} \cup Run]
<1>1. LocksKept
  BY DEF LocksKept, TypeOK, Busy
<1> QED
  BY <1>1, QueueInvKept DEF TypeOK

LEMMA TakeTypes ==
  ASSUME TypeOK, QueueInv, NEW w \in Worker, NEW k \in Key, Take(w, k)
  PROVE  TypeOK' /\ QueueInv'
<1> DEFINE run == [pc |-> "preflight", key |-> k, row |-> NoRow, seen |-> "draft",
                   caption |-> NoCopy, final |-> LastAttempt(job[k]),
                   fatal |-> FALSE, lost |-> FALSE]
<1>1. run \in Run
  BY DEF Run, ItemStatus, Copy, LastAttempt
<1>2. worker' = [worker EXCEPT ![w] = run]
  BY DEF Take
<1>3. job' = [job EXCEPT ![k] = Taken(job[k])] /\ job[k].state = "waiting"
  BY DEF Take
<1>4. Taken(job[k]) \in Job /\ Taken(job[k]).state = "active"
      /\ Taken(job[k]).attempts = job[k].attempts
  BY DEF TypeOK, Job, JobState, Taken
<1>5. TypeOK'
  BY <1>1, <1>2, <1>3, <1>4 DEF Take, TypeOK, ApprovalTypeOK, approvalVars, tickVars
<1>6. JobsHaveAttempts'
  BY <1>3, <1>4 DEF QueueInv, JobsHaveAttempts, InFlight, TypeOK
<1>7. \A v \in Worker : Busy(v) /\ ~worker[v].lost => KeyOf(v) # k
  BY <1>3 DEF QueueInv, HoldersAreActive
<1>8. HoldersAreActive'
  BY <1>2, <1>3, <1>4, <1>7, BusyRuns
  DEF QueueInv, HoldersAreActive, TypeOK, Busy, KeyOf
<1>9. HoldersAreAlone'
  BY <1>2, <1>7 DEF QueueInv, HoldersAreAlone, TypeOK, Busy, KeyOf
<1> QED
  BY <1>5, <1>6, <1>8, <1>9 DEF QueueInv

LEMMA SettleTypes ==
  ASSUME TypeOK, QueueInv, NEW w \in Worker, Busy(w), NEW j, NEW events \in SUBSET Event,
         ~worker[w].lost => j \in Job /\ (InFlight(j) => j.attempts < MaxAttempts),
         Settle(w, j, events)
  PROVE  TypeOK' /\ QueueInv'
<1>1. CASE worker[w].lost
  <2>1. UNCHANGED <<job, announced>> /\ worker' = [worker EXCEPT ![w] = IdleWorker]
    BY <1>1 DEF Settle
  <2> QED
    BY <2>1, LeaveTypes DEF Settle, TypeOK, ApprovalTypeOK, approvalVars, tickVars
<1>2. CASE ~worker[w].lost
  <2> DEFINE k == KeyOf(w)
  <2>1. k \in Key /\ j \in Job
    BY <1>2, BusyRuns
  <2>2. /\ job' = [job EXCEPT ![k] = j]
        /\ announced' = announced \cup events
        /\ worker' = [worker EXCEPT ![w] = IdleWorker]
    BY <1>2 DEF Settle
  <2>3. TypeOK'
    BY <2>1, <2>2 DEF Settle, TypeOK, ApprovalTypeOK, approvalVars, tickVars
  <2>4. JobsHaveAttempts'
    BY <1>2, <2>1, <2>2 DEF QueueInv, JobsHaveAttempts, TypeOK, InFlight
  <2>5. \A v \in Worker : Busy(v)' => v # w /\ worker'[v] = worker[v]
    BY <2>2 DEF Busy, TypeOK
  <2>6. \A v \in Worker : v # w /\ Busy(v) /\ ~worker[v].lost => KeyOf(v) # k
    BY <1>2 DEF QueueInv, HoldersAreAlone
  <2>7. HoldersAreActive'
    BY <2>1, <2>2, <2>5, <2>6, BusyRuns
    DEF QueueInv, HoldersAreActive, TypeOK, Busy, KeyOf
  <2>8. HoldersAreAlone'
    BY <2>5 DEF QueueInv, HoldersAreAlone, Busy, KeyOf
  <2> QED
    BY <2>3, <2>4, <2>7, <2>8 DEF QueueInv
<1> QED
  BY <1>1, <1>2

LEMMA JobEndsTypes ==
  ASSUME TypeOK, QueueInv, NEW w \in Worker, Complete(w) \/ Throw(w)
  PROVE  TypeOK' /\ QueueInv'
<1> DEFINE k == KeyOf(w)
           j == Thrown(job[k], worker[w].fatal)
<1>1. Busy(w)
  BY DEF Complete, Throw, Doing, Busy, IdleWorker
<1>2. worker[w] \in Run /\ k \in Key /\ job[k] \in Job
  BY <1>1, BusyRuns DEF TypeOK
<1>3. ~worker[w].lost => job[k].state = "active" /\ job[k].attempts < MaxAttempts
  BY <1>1, <1>2 DEF QueueInv, HoldersAreActive, JobsHaveAttempts, InFlight
<1>4. CASE Complete(w)
  <2>1. Completed(job[k]) \in Job /\ ~InFlight(Completed(job[k]))
    BY <1>2 DEF Job, JobState, Completed, InFlight
  <2>2. {<<"publish.succeeded", k>>} \in SUBSET Event
    BY <1>2 DEF Event
  <2> QED
    BY <1>1, <1>4, <2>1, <2>2, SettleTypes DEF Complete
<1>5. CASE Throw(w)
  <2>1. ASSUME ~worker[w].lost
        PROVE  j \in Job /\ (InFlight(j) => j.attempts < MaxAttempts)
    <3>1. /\ job[k].attempts \in Nat
          /\ job[k].attempts + 1 \in 0 .. MaxAttempts
          /\ ~LastAttempt(job[k]) => job[k].attempts + 1 < MaxAttempts
      BY <1>2, <1>3, <2>1, AttemptsAssumption DEF Job, LastAttempt
    <3>2. /\ j.attempts = job[k].attempts + 1
          /\ j.state \in {"failed", "waiting"}
          /\ j.state = "waiting" => ~LastAttempt(job[k])
      BY <1>2 DEF Thrown, Job
    <3>3. j \in Job
      BY <1>2, <3>1, <3>2 DEF Thrown, Job, JobState
    <3> QED
      BY <3>1, <3>2, <3>3 DEF InFlight
  <2>2. {<<"publish.failed", k>>} \in SUBSET Event /\ {} \in SUBSET Event
    BY <1>2 DEF Event
  <2> QED
    BY <1>1, <1>5, <2>1, <2>2, SettleTypes DEF Throw
<1> QED
  BY <1>4, <1>5

\* The steps of a run between Take and its outcome.
InRun(w) ==
  \/ Preflight(w)
  \/ \E r \in Row : CreateRow(w, r)
  \/ Publish(w)
  \/ \E fatal \in BOOLEAN : PostRejected(w, fatal)
  \/ PostUnacknowledged(w)
  \/ MarkPublished(w)
  \/ FlipPublished(w)
  \/ MarkFailed(w)
  \/ FlipFailed(w)
  \/ DatabaseFails(w)
  \/ LockExpires(w)

LEMMA InRunIsBusy ==
  ASSUME NEW w \in Worker, InRun(w)
  PROVE  Busy(w)
<1>1. worker[w].pc # "idle" => Busy(w)
  BY DEF Busy, IdleWorker
<1>2. CASE LockExpires(w)
  BY <1>2 DEF LockExpires
<1>3. CASE DatabaseFails(w)
  <2>1. worker[w].pc # "idle"
    BY <1>3 DEF DatabaseFails
  <2> QED
    BY <1>1, <2>1
<1>4. CASE ~LockExpires(w) /\ ~DatabaseFails(w)
  <2>1. \E pc : pc # "idle" /\ Doing(w, pc)
    BY <1>4 DEF InRun, Preflight, CreateRow, Publish, PostRejected,
                PostUnacknowledged, MarkPublished, FlipPublished, MarkFailed,
                FlipFailed
  <2> QED
    BY <1>1, <2>1 DEF Doing
<1> QED
  BY <1>2, <1>3, <1>4

\* Every one of them changes locals of the run, and nothing of the queue.
LEMMA InRunTypes ==
  ASSUME TypeInv, NEW w \in Worker, InRun(w)
  PROVE  TypeOK' /\ QueueInv'
<1> USE DEF approvalVars, tickVars, TypeInv
<1>0. Busy(w)
  BY InRunIsBusy
<1>1. worker[w] \in Run /\ KeyOf(w) \in Key /\ ItemAt(w) \in Item
  BY <1>0, BusyRuns
<1>2. \A pc : pc \in {"preflight", "createRow", "post", "markPublished",
              "flipPublished", "markFailed", "flipFailed", "complete", "throw"} =>
        [worker[w] EXCEPT !.pc = pc] \in Run
  BY <1>1 DEF Run
<1>3. \A pc, fatal : pc \in {"markFailed", "throw"} /\ fatal \in BOOLEAN =>
        [worker[w] EXCEPT !.pc = pc, !.fatal = fatal] \in Run
  BY <1>1 DEF Run
<1>4. ASSUME NEW run \in Run, run.key = worker[w].key,
             run.lost = worker[w].lost \/ run.lost,
             worker' = [worker EXCEPT ![w] = run], UNCHANGED job
      PROVE  QueueInv' /\ worker' \in [Worker -> {IdleWorker} \cup Run]
  <2>1. LocksKept
    BY <1>0, <1>4 DEF LocksKept, TypeOK, Busy
  <2> QED
    BY <1>4, <2>1, QueueInvKept DEF TypeOK
<1>5. CASE Preflight(w)
  <2> DEFINE run == [worker[w] EXCEPT
        !.seen = status[ItemAt(w)], !.caption = copy[ItemAt(w)],
        !.pc = IF status[ItemAt(w)] = "published" THEN "complete" ELSE "createRow"]
  <2>1. run \in Run /\ run.key = worker[w].key /\ run.lost = worker[w].lost
    BY <1>1 DEF Run, TypeOK, ApprovalTypeOK
  <2>2. worker' = [worker EXCEPT ![w] = run] /\ UNCHANGED job
    BY <1>5 DEF Preflight
  <2> QED
    BY <1>4, <1>5, <2>1, <2>2 DEF Preflight, TypeOK, ApprovalTypeOK
<1>6. ASSUME NEW r \in Row, CreateRow(w, r)
      PROVE  TypeOK' /\ QueueInv'
  <2> DEFINE run == [worker[w] EXCEPT
        !.row = r, !.pc = IF MayPost(w) THEN "post" ELSE "markFailed",
        !.fatal = ~MayPost(w)]
  <2>1. run \in Run /\ run.key = worker[w].key /\ run.lost = worker[w].lost
    BY <1>1 DEF Run, MayPost
  <2>2. worker' = [worker EXCEPT ![w] = run] /\ UNCHANGED job
    BY <1>6 DEF CreateRow
  <2>3. [state |-> "posting", key |-> KeyOf(w)] \in RowOf
    BY <1>1 DEF RowOf
  <2> QED
    BY <1>4, <1>6, <2>1, <2>2, <2>3 DEF CreateRow, TypeOK, ApprovalTypeOK
<1>7. ASSUME NEW pc, Goto(w, pc), UNCHANGED job,
             pc \in {"preflight", "createRow", "post", "markPublished",
              "flipPublished", "markFailed", "flipFailed", "complete", "throw"}
      PROVE  QueueInv' /\ worker' \in [Worker -> {IdleWorker} \cup Run]
  <2> DEFINE run == [worker[w] EXCEPT !.pc = pc]
  <2>1. run \in Run /\ run.key = worker[w].key /\ run.lost = worker[w].lost
    BY <1>1, <1>2, <1>7 DEF Run
  <2>2. worker' = [worker EXCEPT ![w] = run]
    BY <1>7 DEF Goto
  <2> QED
    BY <1>4, <1>7, <2>1, <2>2
<1>8. ASSUME NEW pc, NEW fatal, Failing(w, pc, fatal), UNCHANGED job,
             pc \in {"markFailed", "throw"}, fatal \in BOOLEAN
      PROVE  QueueInv' /\ worker' \in [Worker -> {IdleWorker} \cup Run]
  <2> DEFINE run == [worker[w] EXCEPT !.pc = pc, !.fatal = fatal]
  <2>1. run \in Run /\ run.key = worker[w].key /\ run.lost = worker[w].lost
    BY <1>1, <1>3, <1>8 DEF Run
  <2>2. worker' = [worker EXCEPT ![w] = run]
    BY <1>8 DEF Failing
  <2> QED
    BY <1>4, <1>8, <2>1, <2>2
<1>9. Fault => faults' \in 0 .. MaxFaults
  BY BoundsAssumption DEF Fault, TypeOK
<1>10. live \in [Row -> Copy]
         => [live EXCEPT ![worker[w].row] = worker[w].caption] \in [Row -> Copy]
  BY <1>1 DEF Run
<1>11. CASE Publish(w)
  BY <1>7, <1>10, <1>11 DEF Publish, TypeOK, ApprovalTypeOK
<1>12. ASSUME NEW fatal \in BOOLEAN, PostRejected(w, fatal)
       PROVE  TypeOK' /\ QueueInv'
  BY <1>8, <1>12 DEF PostRejected, TypeOK, ApprovalTypeOK
<1>13. CASE PostUnacknowledged(w)
  BY <1>8, <1>9, <1>10, <1>13 DEF PostUnacknowledged, TypeOK, ApprovalTypeOK
<1>14. ASSUME NEW state \in {"published", "failed"}, MarkRow(w, state),
              worker[w].pc \in {"markPublished", "markFailed"}
       PROVE  row' \in [Row -> {UnusedRow} \cup RowOf]
  <2>1. worker[w].row \in Row /\ row[worker[w].row] \in RowOf
    BY <1>14 DEF RunsHaveRows, TypeOK
  <2>2. [row[worker[w].row] EXCEPT !.state = state] \in RowOf
    BY <2>1, <1>14 DEF RowOf
  <2> QED
    BY <1>14, <2>1, <2>2 DEF MarkRow, TypeOK
<1>15. CASE MarkPublished(w)
  BY <1>7, <1>14, <1>15 DEF MarkPublished, Doing, TypeOK, ApprovalTypeOK
<1>16. CASE MarkFailed(w)
  BY <1>7, <1>14, <1>16 DEF MarkFailed, Doing, TypeOK, ApprovalTypeOK
<1>17. CASE FlipPublished(w)
  <2>1. ApprovalTypeOK'
    BY <1>1, <1>17, FlipIfTypes DEF FlipPublished, TypeOK, ItemStatus
  <2> QED
    BY <1>7, <1>17, <2>1 DEF FlipPublished, TypeOK
<1>18. CASE FlipFailed(w)
  <2>1. ApprovalTypeOK'
    BY <1>1, <1>18, FlipIfTypes DEF FlipFailed, TypeOK, ItemStatus
  <2> QED
    BY <1>7, <1>18, <2>1 DEF FlipFailed, TypeOK
<1>19. CASE DatabaseFails(w)
  BY <1>8, <1>9, <1>19 DEF DatabaseFails, TypeOK, ApprovalTypeOK
<1>20. CASE LockExpires(w)
  <2> DEFINE run == [worker[w] EXCEPT !.lost = TRUE]
  <2>1. run \in Run /\ run.key = worker[w].key /\ run.lost
    BY <1>1 DEF Run
  <2>2. worker' = [worker EXCEPT ![w] = run] /\ UNCHANGED job
    BY <1>20 DEF LockExpires
  <2> QED
    BY <1>4, <1>9, <1>20, <2>1, <2>2 DEF LockExpires, TypeOK, ApprovalTypeOK
<1> QED
  BY <1>5, <1>6, <1>11, <1>12, <1>13, <1>15, <1>16, <1>17, <1>18, <1>19, <1>20
  DEF InRun

LEMMA QueueSideTypes ==
  ASSUME TypeInv,
         \/ \E w \in Worker : WorkerDies(w)
         \/ \E k \in Key : Stall(k) \/ Evict(k)
  PROVE  TypeOK' /\ QueueInv'
<1> USE DEF approvalVars, tickVars, workVars, TypeInv
<1>1. ASSUME NEW w \in Worker, WorkerDies(w)
      PROVE  TypeOK' /\ QueueInv'
  <2>1. faults' \in 0 .. MaxFaults
    BY <1>1, BoundsAssumption DEF WorkerDies, Fault, TypeOK
  <2>2. QueueInv' /\ worker' \in [Worker -> {IdleWorker} \cup Run]
    BY <1>1, LeaveTypes DEF WorkerDies
  <2> QED
    BY <1>1, <2>1, <2>2 DEF WorkerDies, TypeOK, ApprovalTypeOK
<1>2. ASSUME NEW k \in Key, NEW j \in Job, InFlight(j) => j.attempts < MaxAttempts,
             job' = [job EXCEPT ![k] = j], ~ \E w \in Worker : Holds(w, k),
             UNCHANGED <<approvalVars, tickVars, workVars, announced, faults>>
      PROVE  TypeOK' /\ QueueInv'
  <2>1. TypeOK'
    BY <1>2 DEF TypeOK, ApprovalTypeOK
  <2>2. JobsHaveAttempts'
    BY <1>2 DEF QueueInv, JobsHaveAttempts, InFlight, TypeOK
  <2>3. HoldersAreActive'
    BY <1>2, BusyRuns DEF QueueInv, HoldersAreActive, Holds, Busy, KeyOf, TypeOK
  <2>4. HoldersAreAlone'
    BY <1>2 DEF QueueInv, HoldersAreAlone, Busy, KeyOf
  <2> QED
    BY <2>1, <2>2, <2>3, <2>4 DEF QueueInv
<1>3. ASSUME NEW k \in Key, Stall(k)
      PROVE  TypeOK' /\ QueueInv'
  <2> DEFINE j == Stalled(job[k])
  <2>1. job[k] \in Job /\ job[k].attempts < MaxAttempts
    BY <1>3 DEF Stall, TypeOK, QueueInv, JobsHaveAttempts, InFlight
  <2>2. j \in Job /\ j.attempts = job[k].attempts
    <3>1. CASE job[k].stalls < MaxStalls
      <4>1. job[k].stalls + 1 \in 0 .. MaxStalls
        BY <2>1, <3>1, StallsAssumption DEF Job
      <4>2. j = [state |-> "waiting", attempts |-> job[k].attempts,
                 stalls |-> job[k].stalls + 1]
        BY <2>1, <3>1 DEF Stalled, Job
      <4> QED
        BY <2>1, <4>1, <4>2 DEF Job, JobState
    <3>2. CASE ~(job[k].stalls < MaxStalls)
      BY <2>1, <3>2 DEF Stalled, Job, JobState
    <3> QED
      BY <3>1, <3>2
  <2> QED
    BY <1>2, <1>3, <2>1, <2>2 DEF Stall
<1>4. ASSUME NEW k \in Key, Evict(k)
      PROVE  TypeOK' /\ QueueInv'
  <2>1. NoJob \in Job /\ ~InFlight(NoJob)
    BY AttemptsAssumption, StallsAssumption DEF NoJob, Job, JobState, InFlight
  <2>2. ~ \E w \in Worker : Holds(w, k)
    BY <1>4 DEF Evict, QueueInv, HoldersAreActive, Holds
  <2> QED
    BY <1>2, <1>4, <2>1, <2>2 DEF Evict
<1> QED
  BY <1>1, <1>3, <1>4

\* Who moves: a run, or everybody else, and they leave runs and rows alone.
LEMMA StepCases ==
  ASSUME [Next]_vars
  PROVE  \/ UNCHANGED <<worker, row, live>>
         \/ \E w \in Worker : \/ InRun(w) \/ WorkerDies(w) \/ Complete(w) \/ Throw(w)
                            \/ \E k \in Key : Take(w, k)
  BY DEF Next, vars, publishVars, RouteEnqueues, TimePasses, TickStep, FindDueItems,
         Claim, TickEnqueues, TickEnqueueFails, TickDies, RequestFails, workVars,
         Stall, Evict, WorkerStep, Faulty, InRun

\* Rows are never handed back, and keep the key they were created for.
RowsPersist ==
  \A r \in Row : row[r] # UnusedRow =>
    row'[r] # UnusedRow /\ row'[r].key = row[r].key

LEMMA MarkKeepsRows ==
  ASSUME TypeInv, NEW w \in Worker, NEW state \in {"published", "failed"},
         worker[w].pc \in {"markPublished", "markFailed"}, MarkRow(w, state)
  PROVE  RowsPersist
<1>1. worker[w].row \in Row /\ row[worker[w].row] \in RowOf
  BY DEF TypeInv, TypeOK, RunsHaveRows
<1>2. \A x \in RowOf : [x EXCEPT !.state = state] # UnusedRow
                     /\ [x EXCEPT !.state = state].key = x.key
  BY DEF RowOf, UnusedRow
<1> QED
  BY <1>1, <1>2 DEF MarkRow, RowsPersist, TypeInv, TypeOK

LEMMA RowsDoPersist ==
  ASSUME TypeInv, [Next]_vars
  PROVE  RowsPersist
<1>1. CASE UNCHANGED row
  BY <1>1 DEF RowsPersist
<1>2. ASSUME NEW w \in Worker, NEW r \in Row, CreateRow(w, r)
      PROVE  RowsPersist
  BY <1>2 DEF CreateRow, RowsPersist, TypeInv, TypeOK
<1>3. ASSUME NEW w \in Worker, MarkPublished(w) \/ MarkFailed(w)
      PROVE  RowsPersist
  BY <1>3, MarkKeepsRows DEF MarkPublished, MarkFailed, Doing
<1> QED
  BY <1>1, <1>2, <1>3, StepCases
  DEF InRun, Preflight, Publish, PostRejected, PostUnacknowledged, FlipPublished,
      FlipFailed, DatabaseFails, LockExpires, WorkerDies, Complete, Throw, Settle, Take

\* A run past CreateRow has a row of its key.
LEMMA RunsKeepRows ==
  ASSUME TypeInv, [Next]_vars
  PROVE  RunsHaveRows'
<1> DEFINE Past == {"post", "markPublished", "flipPublished", "markFailed"}
<1>1. RowsPersist
  BY RowsDoPersist
<1>2. ASSUME NEW v \in Worker, worker[v].pc \in Past,
             worker'[v].row = worker[v].row, worker'[v].key = worker[v].key
      PROVE  /\ worker'[v].row \in Row
             /\ row'[worker'[v].row] # UnusedRow
             /\ row'[worker'[v].row].key = worker'[v].key
  BY <1>1, <1>2 DEF RowsPersist, TypeInv, RunsHaveRows, KeyOf
<1>3. ASSUME NEW w \in Worker,
             \A v \in Worker : v # w => worker'[v] = worker[v],
             \/ worker'[w].pc \notin Past
             \/ /\ worker[w].pc \in Past
                /\ worker'[w].row = worker[w].row
                /\ worker'[w].key = worker[w].key
      PROVE  RunsHaveRows'
  BY <1>2, <1>3 DEF RunsHaveRows, KeyOf
<1>4. CASE UNCHANGED <<worker, row, live>>
  BY <1>1, <1>2, <1>4 DEF RunsHaveRows, KeyOf
<1>5. ASSUME NEW w \in Worker, NEW r \in Row, CreateRow(w, r)
      PROVE  RunsHaveRows'
  <2>1. /\ worker'[w].row = r /\ worker'[w].key = worker[w].key
        /\ row'[r] = [state |-> "posting", key |-> KeyOf(w)]
        /\ \A v \in Worker : v # w => worker'[v] = worker[v]
    BY <1>5 DEF CreateRow, TypeInv, TypeOK, Run, IdleWorker, Doing
  <2> QED
    BY <1>2, <2>1 DEF RunsHaveRows, KeyOf, UnusedRow
<1>6. ASSUME NEW w \in Worker, worker[w] \in Run, NEW pc, NEW fatal,
             \/ Goto(w, pc) \/ Failing(w, pc, fatal),
             pc \in Past => worker[w].pc \in Past
      PROVE  RunsHaveRows'
  <2>1. /\ worker'[w].row = worker[w].row /\ worker'[w].key = worker[w].key
        /\ worker'[w].pc = pc
        /\ \A v \in Worker : v # w => worker'[v] = worker[v]
    BY <1>6 DEF Goto, Failing, TypeInv, TypeOK, Run
  <2> QED
    BY <1>3, <1>6, <2>1
<1>7. ASSUME NEW w \in Worker, InRun(w), ~ \E r \in Row : CreateRow(w, r)
      PROVE  RunsHaveRows'
  <2>1. worker[w] \in Run
    BY <1>7, InRunIsBusy, BusyRuns DEF TypeInv
  <2>2. CASE Preflight(w)
    <3>1. /\ worker'[w].pc \notin Past
          /\ \A v \in Worker : v # w => worker'[v] = worker[v]
      BY <2>1, <2>2 DEF Preflight, TypeInv, TypeOK, Run
    <3> QED
      BY <1>3, <3>1
  <2>3. CASE LockExpires(w)
    <3>1. /\ worker'[w].pc = worker[w].pc /\ worker'[w].row = worker[w].row
          /\ worker'[w].key = worker[w].key
          /\ \A v \in Worker : v # w => worker'[v] = worker[v]
      BY <2>1, <2>3 DEF LockExpires, TypeInv, TypeOK, Run
    <3> QED
      BY <1>3, <3>1
  <2>4. CASE DatabaseFails(w)
    BY <1>6, <2>1, <2>4 DEF DatabaseFails
  <2>5. CASE MarkFailed(w)
    BY <1>6, <2>1, <2>5 DEF MarkFailed
  <2> QED
    BY <1>6, <1>7, <2>1, <2>2, <2>3, <2>4, <2>5
    DEF InRun, Doing, Publish, PostRejected, PostUnacknowledged, MarkPublished,
        FlipPublished, FlipFailed
<1>8. ASSUME NEW w \in Worker,
             \/ WorkerDies(w) \/ Complete(w) \/ Throw(w)
             \/ \E k \in Key : Take(w, k)
      PROVE  RunsHaveRows'
  <2>1. /\ worker'[w].pc \notin Past
        /\ \A v \in Worker : v # w => worker'[v] = worker[v]
    BY <1>8 DEF WorkerDies, Complete, Throw, Settle, Take, IdleWorker, TypeInv, TypeOK
  <2> QED
    BY <1>3, <2>1
<1> QED
  BY <1>4, <1>5, <1>7, <1>8, StepCases

LEMMA TypeInvInit ==
  ASSUME Init
  PROVE  TypeInv
<1> USE DEF Init, ApprovalInit
<1>1. NoJob \in Job /\ ~InFlight(NoJob)
  BY AttemptsAssumption, StallsAssumption DEF NoJob, Job, JobState, InFlight
<1>2. ApprovalTypeOK
  BY ConfigAssumption DEF ApprovalTypeOK, ItemStatus, Copy
<1>3. TypeOK
  BY <1>1, <1>2, BoundsAssumption DEF TypeOK, Copy
<1>4. QueueInv
  BY <1>1 DEF QueueInv, JobsHaveAttempts, HoldersAreActive, HoldersAreAlone, Busy
<1>5. RunsHaveRows
  BY DEF RunsHaveRows, IdleWorker
<1> QED
  BY <1>3, <1>4, <1>5 DEF TypeInv

LEMMA TypeInvStep ==
  ASSUME TypeInv, [Next]_vars
  PROVE  TypeInv'
<1>1. RunsHaveRows'
  BY RunsKeepRows
<1>2. TypeOK' /\ QueueInv'
  <2>1. CASE UNCHANGED vars
    <3>1. LocksKept
      BY <2>1 DEF vars, publishVars, LocksKept, Busy
    <3> QED
      BY <2>1, <3>1, QueueInvKept
      DEF vars, approvalVars, publishVars, TypeInv, TypeOK, ApprovalTypeOK
  <2>2. ASSUME NEW w \in Worker, WorkerStep(w)
        PROVE  TypeOK' /\ QueueInv'
    BY <2>2, TakeTypes, JobEndsTypes, InRunTypes DEF WorkerStep, InRun, TypeInv
  <2>3. CASE Faulty
    BY <2>3, RouteAndTicks, InRunTypes, QueueSideTypes DEF Faulty, InRun, TypeInv
  <2> QED
    BY <2>1, <2>2, <2>3, RouteAndTicks, QueueSideTypes DEF Next, TypeInv
<1> QED
  BY <1>1, <1>2 DEF TypeInv

\* Every variable keeps its type in every behaviour: no reachable combination
\* of retries, lost locks, stalls and evictions drives a job past its attempts,
\* an unused PublishJob row into a result, or a tick to an item without target.
THEOREM TypeCorrect == Spec => []TypeOK
<1>1. Init => TypeInv
  BY TypeInvInit
<1>2. TypeInv /\ [Next]_vars => TypeInv'
  BY TypeInvStep
<1>3. TypeInv => TypeOK
  BY DEF TypeInv
<1> QED
  BY <1>1, <1>2, <1>3, PTL DEF Spec

----------------------------------------------------------------------------
(* The human gate.                                                          *)

\* What a change of status means for item i: an allowed move to s, recorded
\* if it is an approval, and to "published" only by a run about to finish.
StatusMove(i, s) ==
  /\ CanTransition(status[i], s)
  /\ s = "published" =>
       \E w \in Worker : worker[w].pc = "flipPublished" /\ ItemAt(w) = i
  /\ status' = [status EXCEPT ![i] = s]
  /\ signed' = IF s = "approved" THEN [signed EXCEPT ![i] = @ \cup {copy[i]}] ELSE signed
  /\ UNCHANGED <<row, live>>

LEMMA FlipMoves ==
  ASSUME ApprovalTypeOK, HandlersMoveLegally, NEW r \in Request, Flip(r),
         UNCHANGED <<row, live>>
  PROVE  \/ UNCHANGED <<status, signed>>
         \/ \E i \in Item, s \in ItemStatus : StatusMove(i, s)
<1>1. req[r] \in Handler /\ Serving(r)
  BY DEF Flip, At, ApprovalTypeOK, IdleRequest, Serving
<1>2. req[r].item \in Item /\ req[r].to \in Requestable
  BY <1>1 DEF Handler
<1>3. req[r].to \in ItemStatus /\ req[r].to # "published"
  BY <1>2 DEF Requestable, ItemStatus
<1>4. CASE status[req[r].item] = req[r].from
  <2>1. StatusMove(req[r].item, req[r].to)
    BY <1>1, <1>2, <1>3, <1>4 DEF Flip, StatusMove, HandlersMoveLegally
  <2> QED
    BY <1>2, <1>3, <2>1
<1>5. CASE status[req[r].item] # req[r].from
  BY <1>5 DEF Flip
<1> QED
  BY <1>4, <1>5

LEMMA FlipIfMoves ==
  ASSUME NEW i \in Item, NEW from \in ItemStatus, NEW to \in ItemStatus,
         FlipIf(i, from, to), CanTransition(from, to), to # "approved",
         to = "published" =>
           \E w \in Worker : worker[w].pc = "flipPublished" /\ ItemAt(w) = i,
         UNCHANGED <<row, live>>
  PROVE  UNCHANGED <<status, signed>> \/ StatusMove(i, to)
  BY DEF FlipIf, StatusMove

LEMMA StatusMoves ==
  ASSUME TypeInv, HandlersMoveLegally, [Next]_vars
  PROVE  \/ UNCHANGED <<status, signed>>
         \/ \E i \in Item, s \in ItemStatus : StatusMove(i, s)
<1> USE DEF TypeInv, TypeOK
<1>1. CASE ApprovalStep /\ UNCHANGED publishVars
  <2>1. UNCHANGED <<row, live>>
    BY <1>1 DEF publishVars
  <2>2. ASSUME NEW r \in Request, Flip(r)
        PROVE  \/ UNCHANGED <<status, signed>>
               \/ \E i \in Item, s \in ItemStatus : StatusMove(i, s)
    BY <2>1, <2>2, FlipMoves
  <2> QED
    BY <1>1, <2>2 DEF ApprovalStep, RequestStep, ReadItem, ReadForReview,
       GateLoadsCopy, GateEvaluates, Respond, SaveCopy, UpdateRules, itemVars
<1>2. ASSUME NEW t \in Tick, NEW i \in Item, Claim(t, i)
      PROVE  UNCHANGED <<status, signed>> \/ StatusMove(i, "scheduled")
  BY <1>2, FlipIfMoves DEF Claim, workVars, ItemStatus, CanTransition, Transitions
<1>3. ASSUME NEW w \in Worker, FlipPublished(w)
      PROVE  /\ ItemAt(w) \in Item
             /\ UNCHANGED <<status, signed>> \/ StatusMove(ItemAt(w), "published")
  <2>1. ItemAt(w) \in Item
    BY <1>3, InRunIsBusy, BusyRuns DEF InRun
  <2> QED
    BY <1>3, <2>1, FlipIfMoves
    DEF FlipPublished, Doing, ItemStatus, CanTransition, Transitions
<1>4. ASSUME NEW w \in Worker, FlipFailed(w)
      PROVE  /\ ItemAt(w) \in Item
             /\ UNCHANGED <<status, signed>> \/ StatusMove(ItemAt(w), "failed")
  <2>1. ItemAt(w) \in Item
    BY <1>4, InRunIsBusy, BusyRuns DEF InRun
  <2> QED
    BY <1>4, <2>1, FlipIfMoves
    DEF FlipFailed, ItemStatus, CanTransition, Transitions
<1>5. {"scheduled", "published", "failed"} \subseteq ItemStatus
  BY DEF ItemStatus
<1>6. CASE \E t \in Tick, i \in Item : Claim(t, i)
  BY <1>2, <1>5, <1>6
<1>7. CASE \E w \in Worker : FlipPublished(w) \/ FlipFailed(w)
  BY <1>3, <1>4, <1>5, <1>7
<1>8. CASE /\ ~ \E t \in Tick, i \in Item : Claim(t, i)
           /\ ~ \E w \in Worker : FlipPublished(w) \/ FlipFailed(w)
           /\ ~(ApprovalStep /\ UNCHANGED publishVars)
  <2>1. CASE UNCHANGED vars
    BY <2>1 DEF vars, approvalVars
  <2>2. ASSUME NEW r \in Request,
               RequestFails(r) \/ \E a \in Account : RouteEnqueues(r, a)
        PROVE  UNCHANGED <<status, signed>>
    BY <2>2 DEF RouteEnqueues, RequestFails, RequestDies, itemVars
  <2>3. ASSUME NEW t \in Tick, TickStep(t) \/ TickEnqueueFails(t) \/ TickDies(t)
        PROVE  UNCHANGED <<status, signed>>
    <3>1. ~ \E i \in Item : Claim(t, i)
      BY <1>8
    <3> QED
      BY <2>3, <3>1
      DEF TickStep, FindDueItems, TickEnqueues, TickEnqueueFails, TickDies, approvalVars
  <2>4. ASSUME NEW w \in Worker, InRun(w)
        PROVE  UNCHANGED <<status, signed>>
    <3>1. ~(FlipPublished(w) \/ FlipFailed(w))
      BY <1>8
    <3> QED
      BY <2>4, <3>1
      DEF InRun, Preflight, CreateRow, Publish, PostRejected, PostUnacknowledged,
          MarkPublished, MarkFailed, DatabaseFails, LockExpires, approvalVars
  <2>5. ASSUME NEW w \in Worker,
               WorkerDies(w) \/ Complete(w) \/ Throw(w) \/ \E k \in Key : Take(w, k)
        PROVE  UNCHANGED <<status, signed>>
    BY <2>5 DEF WorkerDies, Complete, Throw, Settle, Take, approvalVars
  <2>6. ASSUME TimePasses \/ \E k \in Key : Stall(k) \/ Evict(k)
        PROVE  UNCHANGED <<status, signed>>
    BY <2>6 DEF TimePasses, Stall, Evict, approvalVars
  <2>7. \/ UNCHANGED vars \/ TimePasses \/ \E k \in Key : Stall(k) \/ Evict(k)
        \/ \E r \in Request : RequestFails(r) \/ \E a \in Account : RouteEnqueues(r, a)
        \/ \E t \in Tick : TickStep(t) \/ TickEnqueueFails(t) \/ TickDies(t)
        \/ \E w \in Worker : \/ InRun(w) \/ WorkerDies(w) \/ Complete(w) \/ Throw(w)
                             \/ \E k \in Key : Take(w, k)
    BY <1>8 DEF Next, WorkerStep, Faulty, InRun
  <2> QED
    BY <2>1, <2>2, <2>3, <2>4, <2>5, <2>6, <2>7
<1> QED
  BY <1>1, <1>6, <1>7, <1>8

\* Once approved, always on record as approved.
SignedGrows == \A i \in Item : signed[i] \subseteq signed'[i]

LEMMA SignedDoesGrow ==
  ASSUME TypeInv, HandlersMoveLegally, [Next]_vars
  PROVE  SignedGrows
<1>1. ASSUME NEW i \in Item, NEW s \in ItemStatus, StatusMove(i, s)
      PROVE  SignedGrows
  BY <1>1 DEF StatusMove, SignedGrows, TypeInv, TypeOK, ApprovalTypeOK
<1> QED
  BY <1>1, StatusMoves DEF SignedGrows

LEMMA SignedOffStaysSigned ==
  ASSUME TypeInv, HandlersMoveLegally, SignedOffIsSigned, [Next]_vars
  PROVE  SignedOffIsSigned'
<1>1. ASSUME NEW i \in Item, NEW s \in ItemStatus, StatusMove(i, s)
      PROVE  SignedOffIsSigned'
  <2>1. s \in SignedOff => s = "approved" \/ status[i] \in SignedOff
    BY <1>1 DEF StatusMove, CanTransition, Transitions, SignedOff
  <2>2. s = "approved" => signed'[i] # {}
    BY <1>1 DEF StatusMove, TypeInv, TypeOK, ApprovalTypeOK
  <2>3. SignedGrows
    BY SignedDoesGrow
  <2> QED
    BY <1>1, <2>1, <2>2, <2>3
    DEF SignedOffIsSigned, SignedGrows, StatusMove, TypeInv, TypeOK, ApprovalTypeOK
<1> QED
  BY <1>1, StatusMoves DEF SignedOffIsSigned

LEMMA RequestsAreMoved ==
  ASSUME [Next]_vars
  PROVE  RequestsMove
  BY DEF RequestsMove, Next, vars, approvalVars, RouteEnqueues, TimePasses, TickStep,
     FindDueItems, Claim, TickEnqueues, TickEnqueueFails, TickDies, RequestFails,
     RequestDies, Stall, Evict, WorkerStep, Faulty, Take, Preflight, CreateRow,
     Publish, PostRejected, PostUnacknowledged, MarkPublished, MarkFailed,
     DatabaseFails, WorkerDies, LockExpires, Complete, Throw, Settle, FlipPublished,
     FlipFailed, FlipIf

LEMMA HandlersStayLegal ==
  ASSUME TypeInv, HandlersMoveLegally, [Next]_vars
  PROVE  HandlersMoveLegally'
  BY RequestsAreMoved, HandlersKeepToTable DEF TypeInv, TypeOK

\* What a step can do to the run of worker v, as far as the gate looks at it.
SameRun(v) ==
  /\ worker'[v].pc = worker[v].pc
  /\ worker'[v].key = worker[v].key
  /\ worker'[v].row = worker[v].row
  /\ worker'[v].seen = worker[v].seen
  /\ worker'[v].caption = worker[v].caption

Gated == {"createRow", "post", "markPublished", "flipPublished", "complete"}

LEMMA RunSteps ==
  ASSUME TypeInv, [Next]_vars, NEW v \in Worker
  PROVE  \/ SameRun(v)
         \/ Preflight(v)
         \/ \E r \in Row : CreateRow(v, r)
         \/ Publish(v)
         \/ MarkPublished(v)
         \/ FlipPublished(v)
         \/ worker'[v].pc \notin Gated
<1> USE DEF TypeInv, TypeOK
<1>1. worker'[v] = worker[v] => SameRun(v)
  BY DEF SameRun
<1>2. CASE UNCHANGED <<worker, row, live>>
  BY <1>1, <1>2
<1>3. ASSUME NEW w \in Worker,
             \/ InRun(w) \/ WorkerDies(w) \/ Complete(w) \/ Throw(w)
             \/ \E k \in Key : Take(w, k)
      PROVE  v # w => worker'[v] = worker[v]
  BY <1>3 DEF InRun, WorkerDies, Complete, Throw, Settle, Take, Preflight,
     CreateRow, Publish, PostRejected, PostUnacknowledged, MarkPublished,
     FlipPublished, MarkFailed, FlipFailed, DatabaseFails, LockExpires, Goto, Failing
<1>4. CASE \/ WorkerDies(v) \/ Complete(v) \/ Throw(v)
           \/ \E k \in Key : Take(v, k)
  <2>1. worker'[v].pc \in {"idle", "preflight"}
    BY <1>4 DEF WorkerDies, Complete, Throw, Settle, Take, IdleWorker
  <2> QED
    BY <2>1 DEF Gated
<1>5. CASE InRun(v)
  <2>1. worker[v] \in Run
    BY <1>5, InRunIsBusy, BusyRuns
  <2>2. ASSUME NEW pc, NEW fatal, Failing(v, pc, fatal) \/ Goto(v, pc)
        PROVE  worker'[v].pc = pc
    BY <2>1, <2>2 DEF Failing, Goto, Run
  <2>3. ASSUME LockExpires(v)
        PROVE  SameRun(v)
    BY <2>1, <2>3 DEF LockExpires, SameRun, Run
  <2>4. CASE \/ \E fatal \in BOOLEAN : PostRejected(v, fatal)
             \/ PostUnacknowledged(v) \/ DatabaseFails(v)
    <3>1. \E pc \in {"markFailed", "throw"}, fatal \in BOOLEAN : Failing(v, pc, fatal)
      BY <2>4 DEF PostRejected, PostUnacknowledged, DatabaseFails
    <3>2. worker'[v].pc \in {"markFailed", "throw"}
      BY <2>2, <3>1
    <3> QED
      BY <3>2 DEF Gated
  <2>5. CASE MarkFailed(v) \/ FlipFailed(v)
    <3>1. \E pc \in {"flipFailed", "throw"} : Goto(v, pc)
      BY <2>5 DEF MarkFailed, FlipFailed
    <3>2. worker'[v].pc \in {"flipFailed", "throw"}
      BY <2>2, <3>1
    <3> QED
      BY <3>2 DEF Gated
  <2> QED
    BY <1>5, <2>3, <2>4, <2>5 DEF InRun
<1> QED
  BY <1>1, <1>2, <1>3, <1>4, <1>5, StepCases

\* Only a run that is at its post changes the platforms.
LEMMA WhoPosts ==
  ASSUME [Next]_vars
  PROVE  UNCHANGED live \/ \E w \in Worker : Publish(w) \/ PostUnacknowledged(w)
<1>1. CASE UNCHANGED <<worker, row, live>>
  BY <1>1
<1>2. ASSUME NEW w \in Worker,
             WorkerDies(w) \/ Complete(w) \/ Throw(w) \/ \E k \in Key : Take(w, k)
      PROVE  UNCHANGED live
  BY <1>2 DEF WorkerDies, Complete, Throw, Settle, Take
<1>3. ASSUME NEW w \in Worker, InRun(w), ~Publish(w), ~PostUnacknowledged(w)
      PROVE  UNCHANGED live
  BY <1>3 DEF InRun, Preflight, CreateRow, PostRejected, MarkPublished,
     FlipPublished, MarkFailed, FlipFailed, DatabaseFails, LockExpires
<1> QED
  BY <1>1, <1>2, <1>3, StepCases

\* What a step can do to the platforms: nothing, or post what a run has read.
LEMMA LiveMoves ==
  ASSUME [Next]_vars
  PROVE  \/ UNCHANGED live
         \/ \E w \in Worker :
              /\ Doing(w, "post")
              /\ live' = [live EXCEPT ![worker[w].row] = worker[w].caption]
              /\ UNCHANGED <<row, status, signed>>
<1>1. ASSUME NEW w \in Worker, Publish(w) \/ PostUnacknowledged(w)
      PROVE  /\ Doing(w, "post")
             /\ live' = [live EXCEPT ![worker[w].row] = worker[w].caption]
             /\ UNCHANGED <<row, status, signed>>
  BY <1>1 DEF Publish, PostUnacknowledged, approvalVars
<1> QED
  BY <1>1, WhoPosts

LEMMA GateStaysPassed ==
  ASSUME TypeInv, GateInv, [Next]_vars
  PROVE  GateIsPassed'
<1> USE DEF TypeInv, TypeOK
<1> SUFFICES ASSUME NEW v \in Worker
             PROVE  /\ (worker'[v].pc = "createRow" /\ worker'[v].seen = "scheduled") =>
                         signed'[ItemOf(worker'[v].key)] # {}
                    /\ worker'[v].pc = "post" =>
                         /\ SameClient(worker'[v].key)
                         /\ worker'[v].caption # NoCopy
                         /\ signed'[ItemOf(worker'[v].key)] # {}
  BY DEF GateIsPassed, Doing, ItemAt, KeyOf
<1>1. \A i \in Item : signed[i] # {} => signed'[i] # {}
  BY SignedDoesGrow DEF GateInv, SignedGrows
<1>2. CASE SameRun(v)
  <2>1. worker[v].pc \in {"createRow", "post"} => ItemOf(worker[v].key) \in Item
    BY BusyRuns DEF Busy, IdleWorker, ItemAt, KeyOf
  <2> QED
    BY <1>1, <1>2, <2>1 DEF SameRun, GateInv, GateIsPassed, Doing, ItemAt, KeyOf
<1>3. CASE Preflight(v)
  <2>1. worker[v] \in Run /\ ItemAt(v) \in Item
    BY <1>3, InRunIsBusy, BusyRuns DEF InRun
  <2>2. /\ worker'[v].key = worker[v].key
        /\ worker'[v].seen = status[ItemAt(v)]
        /\ worker'[v].pc # "post"
    BY <1>3, <2>1 DEF Preflight, Run
  <2>3. status[ItemAt(v)] = "scheduled" => signed[ItemAt(v)] # {}
    BY <2>1 DEF GateInv, SignedOffIsSigned, SignedOff
  <2> QED
    BY <1>1, <2>1, <2>2, <2>3 DEF ItemAt, KeyOf
<1>4. ASSUME NEW r \in Row, CreateRow(v, r)
      PROVE  /\ worker'[v].pc # "createRow"
             /\ worker'[v].pc = "post" =>
                  /\ SameClient(worker'[v].key)
                  /\ worker'[v].caption # NoCopy
                  /\ signed'[ItemOf(worker'[v].key)] # {}
  <2>1. worker[v] \in Run /\ ItemAt(v) \in Item
    BY <1>4, InRunIsBusy, BusyRuns DEF InRun
  <2>2. /\ worker'[v].key = worker[v].key
        /\ worker'[v].caption = worker[v].caption
        /\ worker'[v].pc = IF MayPost(v) THEN "post" ELSE "markFailed"
    BY <1>4, <2>1 DEF CreateRow, Run
  <2>3. MayPost(v) => signed[ItemAt(v)] # {}
    BY <1>4 DEF MayPost, CreateRow, GateInv, GateIsPassed
  <2> QED
    BY <1>1, <2>1, <2>2, <2>3 DEF MayPost, ItemAt, KeyOf
<1>5. CASE Publish(v) \/ MarkPublished(v) \/ FlipPublished(v)
  <2>1. worker[v] \in Run
    BY <1>5, InRunIsBusy, BusyRuns DEF InRun
  <2>2. worker'[v].pc \in {"markPublished", "flipPublished", "complete"}
    BY <1>5, <2>1 DEF Publish, MarkPublished, FlipPublished, Goto, Run
  <2> QED
    BY <2>2
<1> QED
  BY <1>2, <1>3, <1>4, <1>5, RunSteps DEF Gated

\* A post stays, with the row it was made for.
PostsPersist ==
  \A r \in Row : Posted(r) => live'[r] # NoCopy /\ row'[r].key = row[r].key

LEMMA PostsDoPersist ==
  ASSUME TypeInv, GateInv, [Next]_vars
  PROVE  PostsPersist
<1>1. ASSUME NEW r \in Row, Posted(r)
      PROVE  row'[r].key = row[r].key
  BY <1>1, RowsDoPersist DEF RowsPersist, GateInv, PostsAreGated
<1>2. ASSUME NEW w \in Worker, Doing(w, "post"), NEW r \in Row, Posted(r),
             live' = [live EXCEPT ![worker[w].row] = worker[w].caption]
      PROVE  live'[r] # NoCopy
  BY <1>2 DEF GateInv, GateIsPassed, Posted, TypeInv, TypeOK
<1> QED
  BY <1>1, <1>2, LiveMoves DEF PostsPersist, Posted

LEMMA PostsStayGated ==
  ASSUME TypeInv, GateInv, [Next]_vars
  PROVE  PostsAreGated'
<1> USE DEF TypeInv, TypeOK
<1>1. \A i \in Item : signed[i] # {} => signed'[i] # {}
  BY SignedDoesGrow DEF GateInv, SignedGrows
<1>2. ASSUME NEW r \in Row, Posted(r)
      PROVE  /\ row'[r] # UnusedRow
             /\ SameClient(row'[r].key)
             /\ signed'[ItemOf(row'[r].key)] # {}
  <2>1. row[r] \in RowOf /\ SameClient(row[r].key) /\ signed[ItemOf(row[r].key)] # {}
    BY <1>2 DEF GateInv, PostsAreGated
  <2>2. ItemOf(row[r].key) \in Item
    BY <2>1 DEF RowOf, Key, ItemOf
  <2>3. row'[r] # UnusedRow /\ row'[r].key = row[r].key
    BY <1>2, RowsDoPersist DEF RowsPersist, GateInv, PostsAreGated
  <2> QED
    BY <1>1, <2>1, <2>2, <2>3
<1>3. ASSUME NEW w \in Worker, Doing(w, "post"), UNCHANGED <<row, status, signed>>
      PROVE  /\ row'[worker[w].row] # UnusedRow
             /\ SameClient(row'[worker[w].row].key)
             /\ signed'[ItemOf(row'[worker[w].row].key)] # {}
  BY <1>3 DEF RunsHaveRows, GateInv, GateIsPassed, Doing, ItemAt, KeyOf
<1>4. CASE UNCHANGED live
  BY <1>2, <1>4 DEF PostsAreGated, Posted
<1>5. ASSUME NEW w \in Worker, Doing(w, "post"),
             live' = [live EXCEPT ![worker[w].row] = worker[w].caption],
             UNCHANGED <<row, status, signed>>
      PROVE  PostsAreGated'
  <2>1. \A r \in Row : live'[r] # NoCopy => Posted(r) \/ r = worker[w].row
    BY <1>5 DEF Posted
  <2> QED
    BY <1>2, <1>3, <1>5, <2>1 DEF PostsAreGated, Posted
<1> QED
  BY <1>4, <1>5, LiveMoves

LEMMA GateInvInit ==
  ASSUME Init
  PROVE  GateInv
<1> USE DEF Init, ApprovalInit
<1>1. HandlersMoveLegally
  BY DEF HandlersMoveLegally, Serving
<1>2. SignedOffIsSigned
  BY DEF SignedOffIsSigned, SignedOff
<1>3. GateIsPassed
  BY DEF GateIsPassed, Doing, IdleWorker
<1>4. PostsAreGated
  BY DEF PostsAreGated, Posted
<1> QED
  BY <1>1, <1>2, <1>3, <1>4 DEF GateInv

LEMMA GateInvStep ==
  ASSUME TypeInv, GateInv, [Next]_vars
  PROVE  GateInv'
  BY HandlersStayLegal, SignedOffStaysSigned, GateStaysPassed, PostsStayGated
  DEF GateInv

\* Whoever put the job into the queue, and whatever was retried, recovered or
\* cancelled meanwhile, a post is never made on another client's account
\* (job.ts:83-86).
THEOREM PostsOnlyForTheClient == Spec => []PostsStayWithClient
<1>1. Init => TypeInv /\ GateInv
  BY TypeInvInit, GateInvInit
<1>2. TypeInv /\ GateInv /\ [Next]_vars => TypeInv' /\ GateInv'
  BY TypeInvStep, GateInvStep
<1>3. GateInv => PostsStayWithClient
  BY DEF GateInv, PostsAreGated, PostsStayWithClient
<1> QED
  BY <1>1, <1>2, <1>3, PTL DEF Spec

----------------------------------------------------------------------------
(* Success is real.                                                         *)

LEMMA PostsOfGrow ==
  ASSUME TypeInv, GateInv, [Next]_vars, NEW i
  PROVE  PostsOf(i) # {} => PostsOf(i)' # {}
  BY PostsDoPersist DEF PostsPersist, PostsOf, Posted

LEMMA SuccessStaysLive ==
  ASSUME TypeInv, GateInv, LiveInv, [Next]_vars
  PROVE  SuccessIsLive'
<1> USE DEF TypeInv, TypeOK
<1> DEFINE Marking == {"markPublished", "flipPublished"}
           PostsNext(i) == {r \in Row : live'[r] # NoCopy /\ ItemOf(row'[r].key) = i}
<1> SUFFICES ASSUME NEW v \in Worker
             PROVE  /\ worker'[v].pc \in Marking => live'[worker'[v].row] # NoCopy
                    /\ worker'[v].pc = "complete" =>
                         PostsNext(ItemOf(worker'[v].key)) # {}
  BY DEF SuccessIsLive, Doing, Posted, ItemAt, KeyOf, PostsOf
<1>1. ASSUME NEW r \in Row, Posted(r)
      PROVE  live'[r] # NoCopy
  BY <1>1, PostsDoPersist DEF PostsPersist
<1>2. worker[v].pc \in {"post", "markPublished", "flipPublished"} =>
        /\ worker[v].row \in Row
        /\ row[worker[v].row].key = worker[v].key
  BY DEF RunsHaveRows, KeyOf
<1>3. worker[v].pc \in Marking => Posted(worker[v].row)
  BY DEF LiveInv, SuccessIsLive
<1>4. worker[v].pc = "flipPublished" => PostsOf(ItemOf(worker[v].key)) # {}
  BY <1>2, <1>3 DEF PostsOf
<1>5. worker[v].pc = "complete" => PostsOf(ItemOf(worker[v].key)) # {}
  BY DEF LiveInv, SuccessIsLive, Doing, ItemAt, KeyOf
<1>6. \A i : PostsOf(i) # {} => PostsNext(i) # {}
  BY PostsDoPersist DEF PostsPersist, PostsOf
<1> HIDE DEF PostsNext
<1>7. CASE SameRun(v)
  BY <1>1, <1>2, <1>3, <1>5, <1>6, <1>7 DEF SameRun
<1>8. CASE Preflight(v)
  <2>1. worker[v] \in Run /\ ItemAt(v) \in Item
    BY <1>8, InRunIsBusy, BusyRuns DEF InRun
  <2>2. /\ worker'[v].key = worker[v].key
        /\ worker'[v].pc \notin Marking
        /\ worker'[v].pc = "complete" => status[ItemAt(v)] = "published"
    BY <1>8, <2>1 DEF Preflight, Run
  <2>3. status[ItemAt(v)] = "published" => PostsOf(ItemAt(v)) # {}
    BY <2>1 DEF LiveInv, PublishedIsLive
  <2> QED
    BY <1>6, <2>2, <2>3 DEF ItemAt, KeyOf
<1>9. ASSUME NEW r \in Row, CreateRow(v, r)
      PROVE  worker'[v].pc \in {"post", "markFailed"}
  <2>1. worker[v] \in Run
    BY <1>9, InRunIsBusy, BusyRuns DEF InRun
  <2> QED
    BY <1>9, <2>1 DEF CreateRow, Run
<1>10. CASE Publish(v)
  <2>1. worker[v] \in Run
    BY <1>10, InRunIsBusy, BusyRuns DEF InRun
  <2>2. worker'[v].pc = "markPublished" /\ worker'[v].row = worker[v].row
    BY <1>10, <2>1 DEF Publish, Goto, Run
  <2>3. live'[worker[v].row] # NoCopy
    BY <1>2, <1>10 DEF Publish, Doing, GateInv, GateIsPassed
  <2> QED
    BY <2>2, <2>3
<1>11. CASE MarkPublished(v) \/ FlipPublished(v)
  <2>1. worker[v] \in Run
    BY <1>11, InRunIsBusy, BusyRuns DEF InRun
  <2>2. /\ worker'[v].row = worker[v].row
        /\ worker'[v].key = worker[v].key
        /\ worker'[v].pc \in {"flipPublished", "complete"}
        /\ worker[v].pc \in Marking
        /\ worker'[v].pc = "complete" => worker[v].pc = "flipPublished"
    BY <1>11, <2>1 DEF MarkPublished, FlipPublished, Goto, Run, Doing
  <2> QED
    BY <1>1, <1>2, <1>3, <1>4, <1>6, <2>2
<1> QED
  BY <1>7, <1>8, <1>9, <1>10, <1>11, RunSteps DEF Gated

LEMMA PublishedStaysLive ==
  ASSUME TypeInv, GateInv, LiveInv, [Next]_vars
  PROVE  PublishedIsLive'
<1> SUFFICES ASSUME NEW i \in Item, status'[i] = "published"
             PROVE  PostsOf(i)' # {}
  BY DEF PublishedIsLive, PostsOf, Posted
<1>1. status[i] = "published" => PostsOf(i) # {}
  BY DEF LiveInv, PublishedIsLive
<1>2. ASSUME NEW w \in Worker, worker[w].pc = "flipPublished", ItemAt(w) = i
      PROVE  PostsOf(i) # {}
  BY <1>2 DEF TypeInv, RunsHaveRows, LiveInv, SuccessIsLive, PostsOf, ItemAt, KeyOf
<1>3. ASSUME NEW j \in Item, NEW s \in ItemStatus, StatusMove(j, s)
      PROVE  PostsOf(i) # {}
  BY <1>1, <1>2, <1>3 DEF StatusMove, TypeInv, TypeOK, ApprovalTypeOK
<1>4. PostsOf(i) # {}
  BY <1>1, <1>3, StatusMoves DEF GateInv
<1> QED
  BY <1>4, PostsOfGrow

\* Only the end of a run is told to anybody.
LEMMA NewsIsMade ==
  ASSUME [Next]_vars
  PROVE  \/ UNCHANGED announced
         \/ \E w \in Worker : Complete(w) \/ Throw(w)
  BY DEF Next, vars, publishVars, RouteEnqueues, TimePasses, TickStep, FindDueItems,
     Claim, TickEnqueues, TickEnqueueFails, TickDies, RequestFails, Stall, Evict,
     WorkerStep, Faulty, Take, Preflight, CreateRow, Publish, PostRejected,
     PostUnacknowledged, MarkPublished, MarkFailed, DatabaseFails, WorkerDies,
     LockExpires, FlipPublished, FlipFailed

LEMMA AnnouncedStaysLive ==
  ASSUME TypeInv, GateInv, LiveInv, [Next]_vars
  PROVE  AnnouncedIsLive'
<1> SUFFICES ASSUME NEW k \in Key, <<"publish.succeeded", k>> \in announced'
             PROVE  PostsOf(ItemOf(k))' # {}
  BY DEF AnnouncedIsLive, PostsOf, Posted
<1>1. ASSUME <<"publish.succeeded", k>> \in announced
      PROVE  PostsOf(ItemOf(k)) # {}
  BY <1>1 DEF LiveInv, AnnouncedIsLive
<1>2. CASE UNCHANGED announced
  BY <1>1, <1>2, PostsOfGrow
<1>3. ASSUME NEW w \in Worker, Complete(w)
      PROVE  PostsOf(ItemOf(k)) # {}
  <2>1. <<"publish.succeeded", k>> \in announced \/ k = KeyOf(w)
    BY <1>3 DEF Complete, Settle
  <2>2. PostsOf(ItemOf(KeyOf(w))) # {}
    BY <1>3 DEF Complete, LiveInv, SuccessIsLive, ItemAt
  <2> QED
    BY <1>1, <2>1, <2>2
<1>4. ASSUME NEW w \in Worker, Throw(w)
      PROVE  PostsOf(ItemOf(k)) # {}
  <2>1. <<"publish.succeeded", k>> \in announced
    BY <1>4 DEF Throw, Settle
  <2> QED
    BY <1>1, <2>1
<1>5. \/ UNCHANGED announced
      \/ \E w \in Worker : Complete(w) \/ Throw(w)
  BY NewsIsMade
<1> QED
  BY <1>2, <1>3, <1>4, <1>5, PostsOfGrow

LEMMA LiveInvInit ==
  ASSUME Init
  PROVE  LiveInv
<1> USE DEF Init, ApprovalInit
<1>1. SuccessIsLive
  BY DEF SuccessIsLive, Doing, IdleWorker
<1>2. PublishedIsLive /\ AnnouncedIsLive
  BY DEF PublishedIsLive, AnnouncedIsLive
<1> QED
  BY <1>1, <1>2 DEF LiveInv

\* The whole invariant, which the model checker also checks, is inductive.
THEOREM Invariance == Spec => []IInv
<1>1. Init => IInv
  BY TypeInvInit, GateInvInit, LiveInvInit DEF IInv
<1>2. IInv /\ [Next]_vars => IInv'
  BY TypeInvStep, GateInvStep, SuccessStaysLive, PublishedStaysLive,
     AnnouncedStaysLive DEF IInv, LiveInv
<1> QED
  BY <1>1, <1>2, PTL DEF Spec

\* Whatever the scheduler, the queue and the workers do in between, a status only
\* moves along the table, and a reviewer only moves an item that is in review
\* (approval/index.ts:43-54, scheduler/index.ts:58, job.ts:101-119).
THEOREM StatusesStayInTable == Spec => StatusFollowsRules
<1> DEFINE Moves == /\ \A i \in Item : status'[i] # status[i] => CanTransition(status[i], status'[i])
                    /\ \A r \in Request : Flips(r) /\ req[r].via = "portal" =>
                         status[req[r].item] = "in_review"
<1>1. ASSUME IInv, [Next]_vars
      PROVE  [Moves]_approvalVars
  <2> USE DEF IInv, TypeInv, TypeOK, GateInv
  <2>1. ASSUME NEW i \in Item, NEW s \in ItemStatus, StatusMove(i, s)
        PROVE  \A j \in Item : status'[j] # status[j] => CanTransition(status[j], status'[j])
    BY <1>1, <2>1 DEF StatusMove, ApprovalTypeOK
  <2>2. \A j \in Item : status'[j] # status[j] => CanTransition(status[j], status'[j])
    BY <1>1, <2>1, StatusMoves
  <2>3. ApprovalInv
    BY <1>1 DEF ApprovalInv
  <2> QED
    BY <1>1, <2>2, <2>3, RequestsAreMoved, ReviewersFlipReviews
<1> QED
  BY <1>1, Invariance, PTL DEF Spec, StatusFollowsRules

----------------------------------------------------------------------------
(* The subsystem implements the human gate.                                 *)

ApprovedItems == {i \in Item : signed[i] # {}}
PostPairs == {<<r, ItemOf(row[r].key)>> : r \in {x \in Row : Posted(x)}}

LEMMA SameRules ==
  /\ Gate!ItemStatus = ItemStatus
  /\ \A from, to : Gate!CanTransition(from, to) <=> CanTransition(from, to)
  BY DEF Gate!ItemStatus, ItemStatus, Gate!CanTransition, CanTransition,
         Gate!Transitions, Transitions

LEMMA GateInit ==
  ASSUME Init
  PROVE  Gate!Init
  BY DEF Init, ApprovalInit, Gate!Init, Posted

\* Without a post the pairs stay as they are, whatever happens to the rows.
LEMMA PairsKept ==
  ASSUME TypeInv, GateInv, [Next]_vars, UNCHANGED live
  PROVE  PostPairs' = PostPairs
<1>1. \A r \in Row : Posted(r) => row'[r].key = row[r].key
  BY PostsDoPersist DEF PostsPersist
<1> QED
  BY <1>1 DEF PostPairs, Posted

LEMMA PostIsGoLive ==
  ASSUME TypeInv, GateInv, NEW w \in Worker, Doing(w, "post"),
         live' = [live EXCEPT ![worker[w].row] = worker[w].caption],
         UNCHANGED <<row, status, signed>>
  PROVE  \E p \in Row, i \in Item : Gate!GoLive(p, i)
<1>1. PICK p \in Row : p = worker[w].row /\ row[p].key = KeyOf(w)
  BY DEF TypeInv, RunsHaveRows, Doing
<1>2. PICK i \in Item : i = ItemAt(w)
  BY BusyRuns DEF TypeInv, Busy, IdleWorker, Doing
<1>3. i \in ApprovedItems /\ worker[w].caption # NoCopy
  BY <1>2 DEF GateInv, GateIsPassed, ApprovedItems
<1>4. PostPairs' = PostPairs \cup {<<p, i>>}
  <2>1. \A r \in Row : Posted(r)' <=> Posted(r) \/ r = p
    BY <1>1, <1>3 DEF Posted, TypeInv, TypeOK
  <2> QED
    BY <1>1, <1>2, <2>1 DEF PostPairs, ItemAt
<1>5. Gate!GoLive(p, i)
  BY <1>3, <1>4 DEF Gate!GoLive, ApprovedItems, PostPairs
<1> QED
  BY <1>5

LEMMA FlipIsMove ==
  ASSUME TypeInv, LiveInv, NEW i \in Item, NEW s \in ItemStatus, StatusMove(i, s),
         PostPairs' = PostPairs
  PROVE  Gate!Move(i, s)
<1>1. Gate!CanTransition(status[i], s)
  BY SameRules DEF StatusMove
<1>2. s = "published" => \E p \in Row : <<p, i>> \in PostPairs
  <2>1. ASSUME NEW w \in Worker, worker[w].pc = "flipPublished", ItemAt(w) = i
        PROVE  /\ worker[w].row \in Row
               /\ <<worker[w].row, i>> \in PostPairs
    BY <2>1 DEF TypeInv, RunsHaveRows, LiveInv, SuccessIsLive, PostPairs, ItemAt
  <2> QED
    BY <2>1 DEF StatusMove
<1>3. ApprovedItems' = IF s = "approved" THEN ApprovedItems \cup {i} ELSE ApprovedItems
  BY DEF StatusMove, ApprovedItems, TypeInv, TypeOK, ApprovalTypeOK
<1> QED
  BY <1>1, <1>2, <1>3 DEF Gate!Move, StatusMove, ApprovedItems, PostPairs

LEMMA GateNext ==
  ASSUME IInv, [Next]_vars
  PROVE  [Gate!Next]_(Gate!gateVars)
<1> USE DEF IInv
<1>1. CASE UNCHANGED live
  <2>1. PostPairs' = PostPairs
    BY <1>1, PairsKept
  <2>2. CASE UNCHANGED <<status, signed>>
    BY <2>1, <2>2 DEF Gate!gateVars, PostPairs
  <2>3. ASSUME NEW i \in Item, NEW s \in ItemStatus, StatusMove(i, s)
        PROVE  Gate!Next
    <3>1. Gate!Move(i, s)
      BY <2>1, <2>3, FlipIsMove
    <3> QED
      BY <3>1, SameRules DEF Gate!Next
  <2> QED
    BY <2>2, <2>3, StatusMoves DEF GateInv
<1>2. ASSUME NEW w \in Worker, Doing(w, "post"),
             live' = [live EXCEPT ![worker[w].row] = worker[w].caption],
             UNCHANGED <<row, status, signed>>
      PROVE  Gate!Next
  BY <1>2, PostIsGoLive DEF Gate!Next
<1> QED
  BY <1>1, <1>2, LiveMoves

\* Requests, ticks, workers and the queue together implement the human gate:
\* the status moves along the table, only items that somebody approved are
\* posted, and none is called published without a post (state-machine.ts:16-23,
\* job.ts:87-109).
THEOREM HumanGateImplemented == Spec => HumanGateHolds
<1>1. Init => Gate!Init
  BY GateInit
<1>2. IInv /\ [Next]_vars => [Gate!Next]_(Gate!gateVars)
  BY GateNext
<1>3. Spec => []IInv
  BY Invariance
<1> QED
  BY <1>1, <1>2, <1>3, PTL DEF Spec, HumanGateHolds, Gate!Spec

----------------------------------------------------------------------------
(* What the PublishJob table says of the posts, and how often an item is     *)
(* posted. Both hold until something fails, so these proofs are about the    *)
(* steps without a fault.                                                   *)

\* What a step of one worker does to the worker, its row and its job.
Stage(w, from, to) ==
  /\ worker[w].pc = from
  /\ worker'[w].pc \in to

Keeps(w) == worker'[w].row = worker[w].row

RowMarked(w, state) == row' = [row EXCEPT ![worker[w].row].state = state]

Starts(w) ==
  /\ ~Busy(w)
  /\ worker'[w].pc = "preflight" /\ worker'[w].row = NoRow /\ ~worker'[w].lost
  /\ UNCHANGED <<row, live>>
  /\ \E k \in Key : job[k].state = "waiting" /\ job' = [job EXCEPT ![k] = Taken(@)]

Reads(w) ==
  /\ Stage(w, "preflight", {"createRow", "complete"})
  /\ Keeps(w)
  /\ UNCHANGED <<row, live>>

Opens(w) ==
  /\ Stage(w, "createRow", {"post", "markFailed"})
  /\ worker'[w].row \in Row
  /\ row[worker'[w].row] = UnusedRow
  /\ row' = [row EXCEPT ![worker'[w].row] = [state |-> "posting", key |-> KeyOf(w)]]
  /\ UNCHANGED live

GoesLive(w) ==
  /\ Stage(w, "post", {"markPublished"})
  /\ Keeps(w)
  /\ live' = [live EXCEPT ![worker[w].row] = worker[w].caption]
  /\ UNCHANGED row

GivesUp(w) ==
  /\ Stage(w, "post", {"markFailed"})
  /\ Keeps(w)
  /\ UNCHANGED <<row, live>>

Marks(w) ==
  /\ \/ Stage(w, "markPublished", {"flipPublished"}) /\ RowMarked(w, "published")
     \/ Stage(w, "markFailed", {"flipFailed", "throw"}) /\ RowMarked(w, "failed")
  /\ Keeps(w)
  /\ UNCHANGED live

FlipsItem(w) ==
  /\ Stage(w, "flipPublished", {"complete"}) \/ Stage(w, "flipFailed", {"throw"})
  /\ Keeps(w)
  /\ UNCHANGED <<row, live>>

GoesOn(w) ==
  /\ Busy(w) /\ Busy(w)'
  /\ worker'[w].key = worker[w].key
  /\ worker'[w].lost = worker[w].lost
  /\ UNCHANGED job
  /\ Reads(w) \/ Opens(w) \/ GoesLive(w) \/ GivesUp(w) \/ Marks(w) \/ FlipsItem(w)

Ends(w) ==
  /\ Busy(w) /\ worker'[w] = IdleWorker
  /\ UNCHANGED <<row, live>>
  /\ \/ worker[w].pc = "complete" /\ (~worker[w].lost => job'[KeyOf(w)].state = "completed")
     \/ worker[w].pc = "throw"
  /\ \A k \in Key : k # KeyOf(w) => job'[k] = job[k]

Works(w) ==
  /\ \A v \in Worker : v # w => worker'[v] = worker[v]
  /\ Starts(w) \/ GoesOn(w) \/ Ends(w)

\* A step of somebody else: no job that is done is done again.
NoRowMoves ==
  /\ UNCHANGED <<worker, row, live>>
  /\ ~MayEvict => \A k \in Key :
       job[k].state = "completed" => job'[k].state = "completed"

LEMMA Work ==
  ASSUME TypeInv, NEW w \in Worker, WorkerStep(w)
  PROVE  Works(w)
<1> USE DEF TypeInv, TypeOK
<1>1. ASSUME NEW k \in Key, Take(w, k)
      PROVE  Works(w)
  BY <1>1 DEF Take, Works, Starts, Busy
<1>2. ASSUME Complete(w) \/ Throw(w)
      PROVE  Works(w)
  <2>1. Busy(w)
    BY <1>2 DEF Complete, Throw, Doing, Busy, IdleWorker
  <2>2. KeyOf(w) \in Key
    BY <2>1, BusyRuns
  <2>3. Completed(job[KeyOf(w)]).state = "completed"
    BY <2>2 DEF Completed, Job
  <2> QED
    BY <1>2, <2>1, <2>2, <2>3 DEF Complete, Throw, Settle, Doing, Works, Ends
<1>3. ASSUME ~ \E k \in Key : Take(w, k), ~Complete(w), ~Throw(w)
      PROVE  Works(w)
  <2>1. InRun(w)
    BY <1>3 DEF WorkerStep, InRun
  <2>2. Busy(w) /\ worker[w] \in Run
    BY <2>1, InRunIsBusy, BusyRuns
  <2>3. \A pc : pc # "idle" => [worker[w] EXCEPT !.pc = pc] # IdleWorker
    BY <2>2 DEF Run, IdleWorker
  <2>4. ASSUME NEW pc, pc # "idle", Goto(w, pc)
        PROVE  /\ worker'[w].pc = pc /\ Keeps(w)
               /\ worker'[w].key = worker[w].key
               /\ worker'[w].lost = worker[w].lost
               /\ worker'[w] # IdleWorker
               /\ \A v \in Worker : v # w => worker'[v] = worker[v]
    BY <2>2, <2>3, <2>4 DEF Goto, Run, Keeps
  <2>5. CASE Preflight(w)
    <3>1. /\ worker'[w].pc \in {"createRow", "complete"} /\ Keeps(w)
          /\ worker'[w].key = worker[w].key
          /\ worker'[w].lost = worker[w].lost
          /\ \A v \in Worker : v # w => worker'[v] = worker[v]
      BY <2>2, <2>5 DEF Preflight, Run, Keeps
    <3>2. worker'[w] # IdleWorker
      BY <3>1 DEF IdleWorker
    <3> QED
      BY <2>2, <2>5, <3>1, <3>2 DEF Preflight, Doing, Works, GoesOn, Reads, Stage, Busy
  <2>6. ASSUME NEW r \in Row, CreateRow(w, r)
        PROVE  Works(w)
    <3>1. /\ worker'[w].pc \in {"post", "markFailed"} /\ worker'[w].row = r
          /\ worker'[w].key = worker[w].key
          /\ worker'[w].lost = worker[w].lost
          /\ \A v \in Worker : v # w => worker'[v] = worker[v]
      BY <2>2, <2>6 DEF CreateRow, Run
    <3>2. worker'[w] # IdleWorker
      BY <3>1 DEF IdleWorker
    <3> QED
      BY <2>2, <2>6, <3>1, <3>2 DEF CreateRow, Doing, Works, GoesOn, Opens, Stage, Busy
  <2>7. CASE Publish(w)
    BY <2>2, <2>4, <2>7 DEF Publish, Doing, Works, GoesOn, GoesLive, Stage, Busy
  <2>8. ASSUME NEW fatal \in BOOLEAN, PostRejected(w, fatal)
        PROVE  Works(w)
    <3>1. /\ worker'[w].pc = "markFailed" /\ Keeps(w)
          /\ worker'[w].key = worker[w].key
          /\ worker'[w].lost = worker[w].lost
          /\ \A v \in Worker : v # w => worker'[v] = worker[v]
      BY <2>2, <2>8 DEF PostRejected, Failing, Run, Keeps
    <3>2. worker'[w] # IdleWorker
      BY <3>1 DEF IdleWorker
    <3> QED
      BY <2>2, <2>8, <3>1, <3>2 DEF PostRejected, Doing, Works, GoesOn, GivesUp, Stage, Busy
  <2>9. CASE MarkPublished(w)
    BY <2>2, <2>4, <2>9
    DEF MarkPublished, MarkRow, RowMarked, Doing, Works, GoesOn, Marks, Stage, Busy
  <2>10. CASE FlipPublished(w)
    BY <2>2, <2>4, <2>10 DEF FlipPublished, Doing, Works, GoesOn, FlipsItem, Stage, Busy
  <2>11. CASE MarkFailed(w)
    BY <2>2, <2>4, <2>11
    DEF MarkFailed, MarkRow, RowMarked, Doing, Works, GoesOn, Marks, Stage, Busy
  <2>12. CASE FlipFailed(w)
    BY <2>2, <2>4, <2>12 DEF FlipFailed, Doing, Works, GoesOn, FlipsItem, Stage, Busy
  <2> QED
    BY <1>3, <2>5, <2>6, <2>7, <2>8, <2>9, <2>10, <2>11, <2>12 DEF WorkerStep
<1> QED
  BY <1>1, <1>2, <1>3

LEMMA CleanSteps ==
  ASSUME TypeInv, [Next]_vars, faults' = 0
  PROVE  faults = 0 /\ (NoRowMoves \/ \E w \in Worker : Works(w))
<1> USE DEF TypeInv, TypeOK
<1>0. \A k \in Key : job[k].state = "completed" => Added(job[k]) = job[k]
  BY DEF Added
<1>1. CASE UNCHANGED vars
  BY <1>1 DEF vars, publishVars, NoRowMoves
<1>2. CASE ApprovalStep /\ UNCHANGED publishVars
  BY <1>2 DEF publishVars, NoRowMoves
<1>3. ASSUME NEW r \in Request, NEW a \in Account, RouteEnqueues(r, a)
      PROVE  faults = 0 /\ NoRowMoves
  BY <1>0, <1>3 DEF RouteEnqueues, workVars, NoRowMoves
<1>4. CASE TimePasses
  BY <1>4 DEF TimePasses, workVars, NoRowMoves
<1>5. ASSUME NEW t \in Tick, TickStep(t)
      PROVE  faults = 0 /\ NoRowMoves
  BY <1>0, <1>5 DEF TickStep, FindDueItems, Claim, TickEnqueues, workVars, NoRowMoves
<1>6. ASSUME NEW w \in Worker, WorkerStep(w)
      PROVE  faults = 0 /\ Works(w)
  <2>1. UNCHANGED faults
    BY <1>6 DEF WorkerStep, Take, Preflight, CreateRow, Publish, PostRejected,
       MarkPublished, FlipPublished, MarkFailed, FlipFailed, Complete, Throw, Settle
  <2> QED
    BY <1>6, <2>1, Work
<1>7. ASSUME NEW k \in Key, Stall(k) \/ Evict(k)
      PROVE  faults = 0 /\ NoRowMoves
  BY <1>7 DEF Stall, Evict, workVars, NoRowMoves
<1>8. CASE Faulty
  <2>1. Fault
    BY <1>8 DEF Faulty, RequestFails, TickEnqueueFails, TickDies,
       PostUnacknowledged, DatabaseFails, WorkerDies, LockExpires
  <2>2. faults \in Nat
    BY DEF TypeOK
  <2> QED
    BY <2>1, <2>2 DEF Fault
<1> QED
  BY <1>1, <1>2, <1>3, <1>4, <1>5, <1>6, <1>7, <1>8 DEF Next

----------------------------------------------------------------------------
(* Nobody writes the row of a run but the run.                              *)

LEMMA OtherRunsStay ==
  ASSUME TypeInv, RunsOwnRows, NEW w \in Worker, Works(w),
         NEW v \in Worker, v # w, Busy(v), worker[v].row # NoRow
  PROVE  /\ worker'[v] = worker[v]
         /\ row'[worker[v].row] = row[worker[v].row]
         /\ live'[worker[v].row] = live[worker[v].row]
<1> USE DEF TypeInv, TypeOK
<1>1. worker[v].row \in Row /\ row[worker[v].row] # UnusedRow
  BY BusyRuns DEF Run, RunsOwnRows
<1>2. Busy(w) => worker[w].row # worker[v].row
  BY DEF RunsOwnRows
<1>3. worker'[v] = worker[v]
  BY DEF Works
<1>4. row'[worker[v].row] = row[worker[v].row]
  BY <1>1, <1>2 DEF Works, Starts, GoesOn, Ends, Reads, Opens, GoesLive, GivesUp,
     Marks, FlipsItem, RowMarked
<1>5. live'[worker[v].row] = live[worker[v].row]
  BY <1>1, <1>2 DEF Works, Starts, GoesOn, Ends, Reads, Opens, GoesLive, GivesUp,
     Marks, FlipsItem
<1> QED
  BY <1>3, <1>4, <1>5

\* The row a worker has after its step: none, the one it had, or a new one.
LEMMA RowOfStep ==
  ASSUME TypeInv, RunsOwnRows, RowsMatchRuns, NEW w \in Worker, Works(w), Busy(w)'
  PROVE  \/ worker'[w].row = NoRow
         \/ /\ Busy(w) /\ Keeps(w)
            /\ worker'[w].key = worker[w].key
         \/ /\ worker'[w].row \in Row
            /\ row[worker'[w].row] = UnusedRow
            /\ row'[worker'[w].row] = [state |-> "posting", key |-> worker'[w].key]
  BY DEF Works, Starts, GoesOn, Ends, Reads, Opens, GoesLive, GivesUp, Marks,
         FlipsItem, Busy, TypeInv, TypeOK, KeyOf

LEMMA RunsStayOwners ==
  ASSUME TypeInv, RunsOwnRows, RowsMatchRuns, RowsPersist,
         NEW w \in Worker, Works(w)
  PROVE  RunsOwnRows'
<1> USE DEF TypeInv, TypeOK
<1>1. ASSUME NEW v \in Worker, v # w, Busy(v)', worker'[v].row # NoRow
      PROVE  /\ Busy(v) /\ worker'[v] = worker[v]
             /\ worker[v].row \in Row
             /\ row[worker[v].row] # UnusedRow
             /\ row'[worker[v].row] = row[worker[v].row]
             /\ row[worker[v].row].key = worker[v].key
  <2>1. worker'[v] = worker[v]
    BY <1>1 DEF Works
  <2>2. Busy(v) /\ worker[v].row # NoRow
    BY <1>1, <2>1 DEF Busy
  <2>3. worker[v].row \in Row
    BY <2>2, BusyRuns DEF Run
  <2> QED
    BY <1>1, <2>1, <2>2, <2>3, OtherRunsStay DEF RunsOwnRows, KeyOf
<1>2. ASSUME Busy(w)', worker'[w].row # NoRow
      PROVE  /\ row'[worker'[w].row] # UnusedRow
             /\ row'[worker'[w].row].key = worker'[w].key
             /\ \/ Busy(w) /\ worker'[w].row = worker[w].row
                \/ row[worker'[w].row] = UnusedRow
  <2>1. CASE Busy(w) /\ Keeps(w) /\ worker'[w].key = worker[w].key
    <3>1. worker[w].row \in Row /\ row[worker[w].row] # UnusedRow
          /\ row[worker[w].row].key = worker[w].key
      BY <1>2, <2>1, BusyRuns DEF Run, Keeps, RunsOwnRows, KeyOf
    <3> QED
      BY <2>1, <3>1 DEF RowsPersist, Keeps
  <2>2. CASE /\ worker'[w].row \in Row
             /\ row[worker'[w].row] = UnusedRow
             /\ row'[worker'[w].row] = [state |-> "posting", key |-> worker'[w].key]
    BY <2>2 DEF UnusedRow
  <2> QED
    BY <1>2, <2>1, <2>2, RowOfStep
<1>3. ASSUME NEW v \in Worker, v # w, Busy(v)', Busy(w)', worker'[v].row # NoRow
      PROVE  worker'[w].row # worker'[v].row
  BY <1>1, <1>2, <1>3 DEF RunsOwnRows
<1>4. ASSUME NEW v \in Worker, NEW u \in Worker, v # w, u # w, Busy(v)', Busy(u)',
             worker'[v].row # NoRow, worker'[u].row = worker'[v].row
      PROVE  u = v
  BY <1>1, <1>4 DEF RunsOwnRows
<1> QED
  BY <1>1, <1>2, <1>3, <1>4 DEF RunsOwnRows, KeyOf

LEMMA RowsStayMatched ==
  ASSUME TypeInv, RunsOwnRows, RowsMatchRuns, GateInv, NEW w \in Worker, Works(w)
  PROVE  RowsMatchRuns'
<1> USE DEF TypeInv, TypeOK
<1> DEFINE Fits(v) ==
      /\ ~worker'[v].lost
      /\ worker'[v].pc \in {"preflight", "createRow"} => worker'[v].row = NoRow
      /\ worker'[v].pc \in {"post", "markPublished", "markFailed"} =>
           row'[worker'[v].row].state = "posting"
      /\ worker'[v].pc \in {"post", "markFailed"} => live'[worker'[v].row] = NoCopy
      /\ worker'[v].pc \in {"flipPublished", "flipFailed", "complete", "throw"} =>
           worker'[v].row = NoRow \/ row'[worker'[v].row].state # "posting"
<1> SUFFICES ASSUME NEW v \in Worker, Busy(v)'
             PROVE  Fits(v)
  BY DEF RowsMatchRuns, Posted
<1>1. ASSUME v # w
      PROVE  Fits(v)
  <2>1. worker'[v] = worker[v] /\ Busy(v)
    BY <1>1 DEF Works, Busy
  <2>2. worker[v].pc \in {"post", "markPublished", "markFailed"} => worker[v].row # NoRow
    BY RowAssumption DEF RunsHaveRows
  <2>3. worker[v].row # NoRow => row'[worker[v].row] = row[worker[v].row]
                               /\ live'[worker[v].row] = live[worker[v].row]
    BY <1>1, <2>1, OtherRunsStay
  <2> QED
    BY <2>1, <2>2, <2>3 DEF RowsMatchRuns, Posted
<1>2. CASE Starts(w) /\ v = w
  BY <1>2 DEF Starts
<1>3. ASSUME GoesOn(w), v = w
      PROVE  Fits(v)
  <2>1. worker[w] \in Run /\ ~worker[w].lost /\ ~worker'[w].lost
    BY <1>3, BusyRuns DEF GoesOn, RowsMatchRuns
  <2>2. worker[w].pc \in {"post", "markPublished", "flipPublished", "markFailed"} =>
          worker[w].row \in Row /\ row[worker[w].row] \in RowOf
    BY DEF RunsHaveRows
  <2>3. CASE Reads(w)
    BY <1>3, <2>1, <2>3 DEF GoesOn, Reads, Stage, Keeps, RowsMatchRuns
  <2>4. CASE Opens(w)
    <3>1. live[worker'[w].row] = NoCopy
      BY <2>4 DEF Opens, GateInv, PostsAreGated, Posted
    <3> QED
      BY <1>3, <2>1, <2>4, <3>1 DEF Opens, Stage
  <2>5. CASE GoesLive(w)
    BY <1>3, <2>1, <2>2, <2>5 DEF GoesOn, GoesLive, Stage, Keeps, RowsMatchRuns
  <2>6. CASE GivesUp(w)
    BY <1>3, <2>1, <2>2, <2>6 DEF GoesOn, GivesUp, Stage, Keeps, RowsMatchRuns, Posted
  <2>7. CASE Marks(w)
    <3>1. row'[worker[w].row].state # "posting"
      BY <2>2, <2>7 DEF Marks, Stage, RowMarked, RowOf
    <3> QED
      BY <1>3, <2>1, <2>7, <3>1 DEF Marks, Stage, Keeps
  <2>8. CASE FlipsItem(w)
    BY <1>3, <2>1, <2>8 DEF GoesOn, FlipsItem, Stage, Keeps, RowsMatchRuns
  <2> QED
    BY <1>3, <2>3, <2>4, <2>5, <2>6, <2>7, <2>8 DEF GoesOn
<1>4. CASE Ends(w) /\ v = w
  BY <1>4 DEF Ends, Busy
<1> QED
  BY <1>1, <1>2, <1>3, <1>4 DEF Works

----------------------------------------------------------------------------
(* Nobody posts what has been posted.                                       *)

LEMMA PostsStaySettled ==
  ASSUME TypeInv, GateInv, RunsOwnRows, RowsMatchRuns, PostsAreSettled, ~MayEvict,
         PostsPersist, NEW w \in Worker, Works(w)
  PROVE  PostsAreSettled'
<1> USE DEF TypeInv, TypeOK
<1> DEFINE Done == {"markPublished", "flipPublished", "complete"}
           Settled(r) == \/ job'[row'[r].key].state = "completed"
                         \/ \E v \in Worker : /\ worker'[v].pc \in Done
                                              /\ worker'[v].row = r
<1> SUFFICES ASSUME NEW r \in Row, live'[r] # NoCopy
             PROVE  Settled(r)
  BY DEF PostsAreSettled, Posted
<1>0. \A v \in Worker : worker[v].pc \in Done => Busy(v)
  BY DEF Busy, IdleWorker
<1>1. Posted(r) => row[r] \in RowOf /\ row[r].key \in Key /\ row'[r].key = row[r].key
  BY DEF GateInv, PostsAreGated, PostsPersist, RowOf
<1>2. ASSUME NEW v \in Worker, v # w, worker[v].pc \in Done, worker[v].row = r
      PROVE  Settled(r)
  BY <1>2 DEF Works
<1>3. Posted(r) => \/ job[row[r].key].state = "completed"
                   \/ \E v \in Worker : worker[v].pc \in Done /\ worker[v].row = r
  BY DEF PostsAreSettled
<1>4. CASE Starts(w)
  <2>1. Posted(r)
    BY <1>4 DEF Starts, Posted
  <2>2. job[row[r].key].state = "completed" => job'[row'[r].key].state = "completed"
    BY <1>1, <1>4, <2>1 DEF Starts
  <2>3. ~Busy(w)
    BY <1>4 DEF Starts
  <2> QED
    BY <1>0, <1>2, <1>3, <2>1, <2>2, <2>3
<1>5. CASE GoesOn(w)
  <2>1. job[row[r].key].state = "completed" /\ Posted(r) => job'[row'[r].key].state = "completed"
    BY <1>1, <1>5 DEF GoesOn
  <2>2. worker[w].pc \in Done => worker'[w].pc \in Done /\ worker'[w].row = worker[w].row
    BY <1>5 DEF GoesOn, Reads, Opens, GoesLive, GivesUp, Marks, FlipsItem, Stage,
       Keeps, Ends, Busy
  <2>3. ~Posted(r) => worker'[w].pc \in Done /\ worker'[w].row = r
    BY <1>5 DEF GoesOn, Reads, Opens, GoesLive, GivesUp, Marks, FlipsItem, Stage,
       Keeps, Posted
  <2> QED
    BY <1>2, <1>3, <2>1, <2>2, <2>3
<1>6. CASE Ends(w)
  <2>1. Posted(r)
    BY <1>6 DEF Ends, Posted
  <2>2. job[KeyOf(w)].state = "active" /\ KeyOf(w) \in Key
    BY <1>6, BusyRuns DEF Ends, RowsMatchRuns, QueueInv, HoldersAreActive
  <2>3. job[row[r].key].state = "completed" => job'[row'[r].key].state = "completed"
    BY <1>1, <1>6, <2>1, <2>2 DEF Ends
  <2>4. ASSUME worker[w].pc \in Done, worker[w].row = r
        PROVE  Settled(r)
    <3>1. row[r].key = KeyOf(w)
      BY <1>0, <2>4, RowAssumption DEF RunsOwnRows
    <3>2. job'[KeyOf(w)].state = "completed"
      BY <1>6, <2>4 DEF Ends, RowsMatchRuns
    <3> QED
      BY <1>1, <2>1, <3>1, <3>2
  <2> QED
    BY <1>2, <1>3, <2>1, <2>3, <2>4
<1> QED
  BY <1>4, <1>5, <1>6 DEF Works

LEMMA PostsAreMadeOnce ==
  ASSUME TypeInv, GateInv, RunsOwnRows, RowsMatchRuns, PostsAreSettled, ~MayEvict,
         PostedOncePerAccount, faults = 0, PostsPersist, NEW w \in Worker, Works(w)
  PROVE  PostedOncePerAccount'
<1> USE DEF TypeInv, TypeOK
<1> SUFFICES ASSUME NEW r1 \in Row, NEW r2 \in Row, live'[r1] # NoCopy,
                    live'[r2] # NoCopy, row'[r1].key = row'[r2].key
             PROVE  r1 = r2
  BY DEF PostedOncePerAccount, Posted
<1>1. \A r \in Row : Posted(r) => row'[r].key = row[r].key
  BY DEF PostsPersist
<1>2. Posted(r1) /\ Posted(r2) => r1 = r2
  BY <1>1 DEF PostedOncePerAccount
<1>3. CASE UNCHANGED live
  BY <1>2, <1>3 DEF Posted
<1>4. CASE ~UNCHANGED live
  <2>1. GoesOn(w) /\ GoesLive(w)
    BY <1>4 DEF Works, Starts, GoesOn, Ends, Reads, Opens, GivesUp, Marks, FlipsItem
  <2>2. Busy(w) /\ worker[w].pc = "post" /\ KeyOf(w) \in Key
    BY <2>1, BusyRuns DEF GoesOn, GoesLive, Stage
  <2>3. worker[w].row \in Row /\ row[worker[w].row].key = KeyOf(w)
    BY <2>2 DEF RunsHaveRows
  <2>4. job[KeyOf(w)].state = "active" /\ ~worker[w].lost
    BY <2>2 DEF RowsMatchRuns, QueueInv, HoldersAreActive
  <2>5. ASSUME NEW r \in Row, Posted(r)
        PROVE  row[r].key # KeyOf(w)
    <3>1. CASE job[row[r].key].state = "completed"
      BY <2>4, <3>1
    <3>2. ASSUME NEW v \in Worker, worker[v].row = r,
                 worker[v].pc \in {"markPublished", "flipPublished", "complete"}
          PROVE  row[r].key # KeyOf(w)
      <4>1. Busy(v) /\ v # w
        BY <2>2, <3>2 DEF Busy, IdleWorker
      <4>2. ~worker[v].lost
        BY <4>1 DEF RowsMatchRuns
      <4>3. KeyOf(v) # KeyOf(w)
        BY <2>2, <2>4, <4>1, <4>2 DEF QueueInv, HoldersAreAlone
      <4>4. row[r].key = KeyOf(v)
        BY <3>2, <4>1, RowAssumption DEF RunsOwnRows
      <4> QED
        BY <4>3, <4>4
    <3> QED
      BY <2>5, <3>1, <3>2 DEF PostsAreSettled
  <2>6. UNCHANGED row /\ \A r \in Row : live'[r] # NoCopy => Posted(r) \/ r = worker[w].row
    BY <2>1 DEF GoesLive, Posted
  <2> QED
    BY <1>2, <2>3, <2>5, <2>6
<1> QED
  BY <1>3, <1>4

----------------------------------------------------------------------------
(* The rows tell the truth.                                                 *)

\* A row that says "published" has a post, whatever fails.
PublishedRowsAreLive == \A r \in Row : row[r].state = "published" => Posted(r)

LEMMA PublishedRowsStayLive ==
  ASSUME TypeInv, GateInv, LiveInv, PublishedRowsAreLive, [Next]_vars
  PROVE  PublishedRowsAreLive'
<1> USE DEF TypeInv, TypeOK
<1> SUFFICES ASSUME NEW r \in Row, row'[r].state = "published"
             PROVE  live'[r] # NoCopy
  BY DEF PublishedRowsAreLive, Posted
<1>1. Posted(r) => live'[r] # NoCopy
  BY PostsDoPersist DEF PostsPersist
<1>2. CASE row'[r] = row[r]
  BY <1>1, <1>2 DEF PublishedRowsAreLive
<1>3. ASSUME NEW w \in Worker, NEW x \in Row, CreateRow(w, x)
      PROVE  row'[r] = row[r]
  BY <1>3 DEF CreateRow
<1>4. ASSUME NEW w \in Worker, MarkFailed(w)
      PROVE  row'[r] = row[r]
  <2>1. worker[w].row \in Row /\ row[worker[w].row] \in RowOf
    BY <1>4 DEF MarkFailed, Doing, RunsHaveRows
  <2> QED
    BY <1>4, <2>1 DEF MarkFailed, MarkRow, RowOf
<1>5. ASSUME NEW w \in Worker, MarkPublished(w)
      PROVE  row'[r] = row[r] \/ Posted(r)
  BY <1>5 DEF MarkPublished, MarkRow, Doing, LiveInv, SuccessIsLive, RunsHaveRows
<1>6. \/ UNCHANGED row
      \/ \E w \in Worker : \/ \E x \in Row : CreateRow(w, x)
                           \/ MarkPublished(w) \/ MarkFailed(w)
  BY StepCases
  DEF InRun, Preflight, Publish, PostRejected, PostUnacknowledged, FlipPublished,
      FlipFailed, DatabaseFails, LockExpires, WorkerDies, Complete, Throw, Settle, Take
<1> QED
  BY <1>1, <1>2, <1>3, <1>4, <1>5, <1>6

LEMMA RowsStayTrue ==
  ASSUME TypeInv, GateInv, RunsOwnRows, RowsMatchRuns, RowsTellTheTruth, faults = 0,
         NEW w \in Worker, Works(w), NEW r \in Row
  PROVE  /\ row'[r].state = "failed" => live'[r] = NoCopy
         /\ row'[r].state = "posting" =>
              \E v \in Worker : Busy(v)' /\ worker'[v].row = r
<1> USE DEF TypeInv, TypeOK
<1>1. row[r].state = "failed" => live[r] = NoCopy
  BY DEF RowsTellTheTruth, Posted
<1>2. ASSUME row[r].state = "posting"
      PROVE  \/ \E v \in Worker : Busy(v)' /\ worker'[v].row = r
             \/ Busy(w) /\ worker[w].row = r
  BY <1>2 DEF RowsTellTheTruth, Works, Busy
<1>3. CASE Starts(w)
  BY <1>1, <1>2, <1>3 DEF Starts
<1>4. CASE GoesOn(w)
  <2>1. worker[w].pc \in {"post", "markPublished", "flipPublished", "markFailed"} =>
          worker[w].row \in Row /\ row[worker[w].row] \in RowOf
    BY DEF RunsHaveRows
  <2>2. CASE Reads(w) \/ GivesUp(w) \/ FlipsItem(w)
    BY <1>1, <1>2, <1>4, <2>2 DEF GoesOn, Reads, GivesUp, FlipsItem, Keeps
  <2>3. CASE Opens(w)
    <3>1. worker[w].row = NoRow
      BY <1>4, <2>3 DEF GoesOn, Opens, Stage, RowsMatchRuns
    <3> QED
      BY <1>1, <1>2, <1>4, <2>3, <3>1, RowAssumption DEF GoesOn, Opens
  <2>4. CASE GoesLive(w)
    <3>1. row[worker[w].row].state = "posting"
      BY <1>4, <2>4 DEF GoesOn, GoesLive, Stage, RowsMatchRuns
    <3> QED
      BY <1>1, <1>2, <1>4, <2>4, <3>1 DEF GoesOn, GoesLive, Keeps
  <2>5. CASE Marks(w)
    <3>1. worker[w].pc = "markFailed" => live[worker[w].row] = NoCopy
      BY <1>4 DEF GoesOn, RowsMatchRuns, Posted
    <3> QED
      BY <1>1, <1>2, <1>4, <2>1, <2>5, <3>1 DEF GoesOn, Marks, Stage, RowMarked, Keeps, RowOf
  <2> QED
    BY <1>4, <2>2, <2>3, <2>4, <2>5 DEF GoesOn
<1>5. CASE Ends(w)
  <2>1. worker[w].row = NoRow \/ row[worker[w].row].state # "posting"
    BY <1>5 DEF Ends, RowsMatchRuns
  <2> QED
    BY <1>1, <1>2, <1>5, <2>1, RowAssumption DEF Ends
<1> QED
  BY <1>3, <1>4, <1>5 DEF Works

----------------------------------------------------------------------------

LEMMA RowsInvInit ==
  ASSUME Init
  PROVE  RowsInv
<1>1. RunsOwnRows /\ RowsMatchRuns
  BY DEF Init, RunsOwnRows, RowsMatchRuns, Busy
<1>2. PostsAreSettled /\ PostedOncePerAccount
  BY DEF Init, PostsAreSettled, PostedOncePerAccount, Posted
<1>3. RowsTellTheTruth
  BY DEF Init, RowsTellTheTruth, UnusedRow
<1> QED
  BY <1>1, <1>2, <1>3 DEF RowsInv

LEMMA RowsInvStep ==
  ASSUME IInv, RowsInv, [Next]_vars
  PROVE  RowsInv'
<1>1. TypeInv /\ GateInv /\ LiveInv
  BY DEF IInv
<1>2. PublishedRowsAreLive'
  BY <1>1, PublishedRowsStayLive DEF PublishedRowsAreLive, RowsInv, RowsTellTheTruth
<1>3. CASE faults' # 0
  BY <1>2, <1>3 DEF RowsInv, RowsTellTheTruth, PostedOncePerAccount, PublishedRowsAreLive
<1>4. CASE faults' = 0
  <2>1. faults = 0 /\ RunsOwnRows /\ RowsMatchRuns /\ PostsAreSettled
    BY <1>1, <1>4, CleanSteps DEF RowsInv
  <2>2. RowsTellTheTruth /\ PostedOncePerAccount
    BY DEF RowsInv
  <2>3. RowsPersist /\ PostsPersist
    BY <1>1, RowsDoPersist, PostsDoPersist
  <2>4. CASE NoRowMoves
    <3>1. RunsOwnRows' /\ RowsMatchRuns'
      BY <2>1, <2>4 DEF NoRowMoves, RunsOwnRows, RowsMatchRuns, Busy, KeyOf, Posted
    <3>2. PostsAreSettled'
      <4>1. \A r \in Row : Posted(r) => row[r].key \in Key
        BY <1>1 DEF GateInv, PostsAreGated, TypeInv, TypeOK, RowOf
      <4> QED
        BY <2>1, <2>4, <4>1 DEF NoRowMoves, PostsAreSettled, Posted
    <3>3. RowsTellTheTruth' /\ PostedOncePerAccount'
      BY <1>4, <2>1, <2>2, <2>4
      DEF NoRowMoves, RowsTellTheTruth, PostedOncePerAccount, Posted, Busy
    <3> QED
      BY <3>1, <3>2, <3>3 DEF RowsInv
  <2>5. ASSUME NEW w \in Worker, Works(w)
        PROVE  RowsInv'
    <3>1. RunsOwnRows' /\ RowsMatchRuns'
      BY <1>1, <2>1, <2>3, <2>5, RunsStayOwners, RowsStayMatched
    <3>2. ~MayEvict => PostsAreSettled' /\ PostedOncePerAccount'
      BY <1>1, <2>1, <2>2, <2>3, <2>5, PostsStaySettled, PostsAreMadeOnce
    <3>3. MayEvict => PostsAreSettled' /\ PostedOncePerAccount'
      BY DEF PostsAreSettled, PostedOncePerAccount
    <3>4. RowsTellTheTruth'
      BY <1>1, <1>2, <2>1, <2>2, <2>5, RowsStayTrue
      DEF RowsTellTheTruth, PublishedRowsAreLive, Posted
    <3> QED
      BY <3>1, <3>2, <3>3, <3>4 DEF RowsInv
  <2> QED
    BY <1>1, <1>4, <2>4, <2>5, CleanSteps
<1> QED
  BY <1>3, <1>4

LEMMA RowsInvHolds == Spec => []RowsInv
<1>1. Init => RowsInv
  BY RowsInvInit
<1>2. IInv /\ RowsInv /\ [Next]_vars => RowsInv'
  BY RowsInvStep
<1> QED
  BY <1>1, <1>2, Invariance, PTL DEF Spec

\* The audit trail of the worker: a published row has a post whatever failed,
\* and until something fails a failed row has none and a posting row has a
\* worker behind it (job.ts:76-80, 100, 112).
THEOREM RowsAreTrue == Spec => []RowsTellTheTruth
<1>1. RowsInv => RowsTellTheTruth
  BY DEF RowsInv
<1> QED
  BY <1>1, RowsInvHolds, PTL

\* The job id and the lock of the queue are enough to post once: as long as
\* nothing fails and finished jobs are retained, any number of requests, ticks
\* and workers make one post per item and account (publish-queue.ts:17-25).
THEOREM PostsAreMadeOncePerAccount == Spec => []PostedOncePerAccount
<1>1. RowsInv => PostedOncePerAccount
  BY DEF RowsInv
<1> QED
  BY <1>1, RowsInvHolds, PTL
----------------------------------------------------------------------------
(* Counting.                                                                *)

LEMMA FewerCount ==
  ASSUME NEW S, IsFiniteSet(S), NEW T, T \subseteq S
  PROVE  /\ IsFiniteSet(T) /\ Cardinality(S) \in Nat /\ Cardinality(T) \in Nat
         /\ Cardinality(T) <= Cardinality(S)
<1>1. T \in SUBSET S
  OBVIOUS
<1>2. IsFiniteSet(T) /\ Cardinality(T) <= Cardinality(S)
  BY <1>1, FS_Subset
<1> QED
  BY <1>2, FS_CardinalityType

LEMMA OneMoreCounts ==
  ASSUME NEW S, IsFiniteSet(S), NEW x, NEW T, T \subseteq S \cup {x}
  PROVE  /\ IsFiniteSet(T) /\ Cardinality(S) \in Nat /\ Cardinality(T) \in Nat
         /\ Cardinality(T) <= Cardinality(S) + 1
<1>1. /\ IsFiniteSet(S \cup {x})
      /\ Cardinality(S \cup {x}) = IF x \in S THEN Cardinality(S) ELSE Cardinality(S) + 1
  BY FS_AddElement
<1>2. Cardinality(S) \in Nat
  BY FS_CardinalityType
<1>3. IsFiniteSet(T) /\ Cardinality(T) \in Nat /\ Cardinality(T) <= Cardinality(S \cup {x})
  BY <1>1, FewerCount
<1> QED
  BY <1>1, <1>2, <1>3

LEMMA SwappedCount ==
  ASSUME NEW S, IsFiniteSet(S), NEW y \in S, NEW x, NEW T, T \subseteq (S \ {y}) \cup {x}
  PROVE  /\ IsFiniteSet(T) /\ Cardinality(S) \in Nat /\ Cardinality(T) \in Nat
         /\ Cardinality(T) <= Cardinality(S)
<1>1. IsFiniteSet(S \ {y}) /\ Cardinality(S \ {y}) = Cardinality(S) - 1
  BY FS_RemoveElement
<1>2. Cardinality(S) \in Nat
  BY FS_CardinalityType
<1>3. IsFiniteSet(T) /\ Cardinality(T) \in Nat /\ Cardinality(T) <= Cardinality(S \ {y}) + 1
  BY <1>1, OneMoreCounts
<1> QED
  BY <1>1, <1>2, <1>3

\* A set has as many members as tokens made of them.
LEMMA TokensCount ==
  ASSUME NEW S, NEW tag, NEW U, IsFiniteSet(U), \A x \in S : <<tag, x>> \in U
  PROVE  /\ IsFiniteSet(S) /\ Cardinality(S) \in Nat /\ Cardinality(U) \in Nat
         /\ Cardinality(S) <= Cardinality(U)
<1> DEFINE f == [x \in S |-> <<tag, x>>]
<1>1. f \in Injection(S, U)
  BY DEF Injection, IsInjective
<1>2. IsFiniteSet(S) /\ Cardinality(S) <= Cardinality(U)
  BY <1>1, FS_Injection
<1> QED
  BY <1>2, FS_CardinalityType

----------------------------------------------------------------------------
(* How a job moves while it is retained.                                    *)

\* Taken, ended by the worker that holds the lock, or stalled without a holder.
JobMoves(k) ==
  \/ job'[k] = job[k]
  \/ job[k].state = "absent" /\ job'[k] = FreshJob /\ UNCHANGED worker
  \/ \E w \in Worker : Take(w, k) /\ job'[k] = Taken(job[k])
  \/ \E w \in Worker : Complete(w) /\ Holds(w, k) /\ job'[k] = Completed(job[k])
  \/ \E w \in Worker : Throw(w) /\ Holds(w, k) /\ job'[k] = Thrown(job[k], worker[w].fatal)
  \/ Stall(k) /\ job'[k] = Stalled(job[k])

LEMMA JobsMove ==
  ASSUME TypeInv, ~MayEvict, [Next]_vars, NEW k \in Key
  PROVE  JobMoves(k)
<1> USE DEF TypeInv, TypeOK
<1>1. ASSUME NEW x, job' = [job EXCEPT ![x] = Added(job[x])], UNCHANGED worker
      PROVE  JobMoves(k)
  BY <1>1 DEF JobMoves, Added
<1>2. ASSUME NEW r \in Request, NEW a \in Account, RouteEnqueues(r, a)
      PROVE  JobMoves(k)
  BY <1>1, <1>2 DEF RouteEnqueues, workVars
<1>3. ASSUME NEW t \in Tick, TickEnqueues(t)
      PROVE  JobMoves(k)
  BY <1>1, <1>3 DEF TickEnqueues, workVars
<1>4. ASSUME NEW w \in Worker, NEW x \in Key, Take(w, x)
      PROVE  JobMoves(k)
  BY <1>4 DEF Take, JobMoves
<1>5. ASSUME NEW w \in Worker, Complete(w)
      PROVE  JobMoves(k)
  <2>1. Busy(w)
    BY <1>5 DEF Complete, Doing, Busy, IdleWorker
  <2> QED
    BY <1>5, <2>1 DEF Complete, Settle, JobMoves, Holds
<1>6. ASSUME NEW w \in Worker, Throw(w)
      PROVE  JobMoves(k)
  <2>1. Busy(w)
    BY <1>6 DEF Throw, Doing, Busy, IdleWorker
  <2> QED
    BY <1>6, <2>1 DEF Throw, Settle, JobMoves, Holds
<1>7. ASSUME NEW x \in Key, Stall(x)
      PROVE  JobMoves(k)
  BY <1>7 DEF Stall, JobMoves
<1>8. ASSUME UNCHANGED job
      PROVE  JobMoves(k)
  BY <1>8 DEF JobMoves
<1>9. ASSUME NEW w \in Worker, InRun(w)
      PROVE  UNCHANGED job
  BY <1>9 DEF InRun, Preflight, CreateRow, Publish, PostRejected, PostUnacknowledged,
     MarkPublished, FlipPublished, MarkFailed, FlipFailed, DatabaseFails, LockExpires
<1>10. CASE Faulty
  BY <1>8, <1>9, <1>10
  DEF Faulty, InRun, RequestFails, TickEnqueueFails, TickDies, WorkerDies
<1>11. ASSUME NEW w \in Worker, WorkerStep(w)
       PROVE  JobMoves(k)
  BY <1>4, <1>5, <1>6, <1>8, <1>9, <1>11 DEF WorkerStep, InRun
<1>12. ASSUME NEW t \in Tick, TickStep(t)
       PROVE  JobMoves(k)
  BY <1>3, <1>8, <1>12 DEF TickStep, FindDueItems, Claim
<1>13. CASE UNCHANGED vars \/ TimePasses \/ (ApprovalStep /\ UNCHANGED publishVars)
  BY <1>8, <1>13 DEF vars, publishVars, TimePasses
<1>14. ~ \E x \in Key : Evict(x)
  BY DEF Evict
<1> QED
  BY <1>2, <1>7, <1>10, <1>11, <1>12, <1>13, <1>14 DEF Next

LEMMA JobsKeepVerdicts ==
  ASSUME TypeInv, ~MayEvict, [Next]_vars, NEW k \in Key
  PROVE  /\ job[k].state = "completed" => job'[k].state = "completed"
         /\ job[k].state = "failed" => job'[k].state = "failed"
<1>1. \A w \in Worker : Holds(w, k) => job[k].state = "active"
  BY DEF TypeInv, QueueInv, HoldersAreActive, Holds
<1> QED
  BY <1>1, JobsMove DEF JobMoves, Take, Stall

LEMMA VerdictsStay ==
  ASSUME TypeInv, OneVerdictPerJob, [Next]_vars
  PROVE  OneVerdictPerJob'
<1> USE DEF TypeInv, TypeOK
<1> SUFFICES ASSUME ~MayEvict, NEW k \in Key
             PROVE  /\ <<"publish.succeeded", k>> \in announced' =>
                         job'[k].state = "completed"
                    /\ <<"publish.failed", k>> \in announced' => job'[k].state = "failed"
  BY DEF OneVerdictPerJob
<1>1. /\ <<"publish.succeeded", k>> \in announced => job'[k].state = "completed"
      /\ <<"publish.failed", k>> \in announced => job'[k].state = "failed"
  BY JobsKeepVerdicts DEF OneVerdictPerJob
<1>2. ASSUME NEW w \in Worker, Complete(w), announced' # announced
      PROVE  /\ announced' = announced \cup {<<"publish.succeeded", KeyOf(w)>>}
             /\ job'[KeyOf(w)].state = "completed"
  <2>1. Busy(w)
    BY <1>2 DEF Complete, Doing, Busy, IdleWorker
  <2>2. KeyOf(w) \in Key
    BY <2>1, BusyRuns
  <2>3. Completed(job[KeyOf(w)]).state = "completed"
    BY <2>2 DEF Completed, Job
  <2> QED
    BY <1>2, <2>2, <2>3 DEF Complete, Settle
<1>3. ASSUME NEW w \in Worker, Throw(w), announced' # announced
      PROVE  /\ announced' = announced \cup {<<"publish.failed", KeyOf(w)>>}
             /\ job'[KeyOf(w)].state = "failed"
  <2> DEFINE j == Thrown(job[KeyOf(w)], worker[w].fatal)
  <2>1. Busy(w)
    BY <1>3 DEF Throw, Doing, Busy, IdleWorker
  <2>2. KeyOf(w) \in Key /\ job[KeyOf(w)] \in Job
    BY <2>1, BusyRuns
  <2>3. /\ job' = [job EXCEPT ![KeyOf(w)] = j]
        /\ j.attempts >= MaxAttempts
        /\ announced' = announced \cup {<<"publish.failed", KeyOf(w)>>}
    BY <1>3 DEF Throw, Settle
  <2>4. j.attempts = job[KeyOf(w)].attempts + 1
    BY <2>2 DEF Thrown, Job
  <2>5. LastAttempt(job[KeyOf(w)])
    BY <2>3, <2>4 DEF LastAttempt
  <2>6. j.state = "failed"
    BY <2>2, <2>5 DEF Thrown, Job
  <2> QED
    BY <2>2, <2>3, <2>6
<1>4. \/ UNCHANGED announced
      \/ \E w \in Worker : Complete(w) \/ Throw(w)
  BY NewsIsMade
<1> QED
  BY <1>1, <1>2, <1>3, <1>4
----------------------------------------------------------------------------
(* How often a job runs.                                                    *)

\* There are never more than attempts and stalls allow.
LEMMA MostRunsAre ==
  ASSUME TypeInv, NEW k \in Key
  PROVE  /\ MostRuns(job[k]) \in Nat /\ MaxAttempts + MaxStalls \in Nat
         /\ MostRuns(job[k]) <= MaxAttempts + MaxStalls
<1>1. /\ job[k].state \in JobState /\ job[k].attempts \in 0 .. MaxAttempts
      /\ job[k].stalls \in 0 .. MaxStalls
      /\ MaxAttempts \in Nat /\ MaxStalls \in Nat
  BY AttemptsAssumption, StallsAssumption DEF TypeInv, TypeOK, Job
<1>2. job[k].state = "active" => job[k].attempts + 1 <= MaxAttempts
  BY <1>1 DEF TypeInv, QueueInv, JobsHaveAttempts, InFlight
<1> QED
  BY <1>1, <1>2 DEF MostRuns, JobState

\* A step lets as many runs more begin as the job has used up, which is none
\* unless a worker takes it.
LEMMA MostRunsGrow ==
  ASSUME TypeInv, ~MayEvict, [Next]_vars, NEW k \in Key
  PROVE  /\ MostRuns(job[k]) \in Nat /\ MostRuns(job'[k]) \in Nat
         /\ MostRuns(job[k]) <= MostRuns(job'[k])
         /\ \A w \in Worker : Take(w, k) => MostRuns(job'[k]) = MostRuns(job[k]) + 1
<1> USE DEF TypeInv, TypeOK
<1>1. /\ job[k].state \in JobState /\ job[k].attempts \in 0 .. MaxAttempts
      /\ job[k].stalls \in 0 .. MaxStalls
      /\ MaxAttempts \in Nat /\ MaxStalls \in Nat
  BY AttemptsAssumption, StallsAssumption DEF Job
<1>2. MostRuns(job[k]) \in Nat
  BY <1>1 DEF MostRuns, JobState
<1>3. job[k].state = "active" => job[k].attempts + 1 <= MaxAttempts
  BY <1>1 DEF QueueInv, JobsHaveAttempts, InFlight
<1>4. ASSUME NEW w \in Worker, Take(w, k)
      PROVE  MostRuns(job'[k]) = MostRuns(job[k]) + 1
  <2>1. job[k].state = "waiting" /\ job' = [job EXCEPT ![k] = Taken(job[k])]
    BY <1>4 DEF Take
  <2>2. /\ job'[k].state = "active" /\ job'[k].attempts = job[k].attempts
        /\ job'[k].stalls = job[k].stalls
    BY <2>1 DEF Taken, Job
  <2> QED
    BY <1>1, <2>1, <2>2 DEF MostRuns
<1>5. CASE job'[k] = job[k]
  BY <1>2, <1>5 DEF Take, Taken, Job
<1>6. CASE job[k].state = "absent" /\ job'[k] = FreshJob /\ UNCHANGED worker
  BY <1>6 DEF MostRuns, FreshJob, Take
<1>7. ASSUME NEW w \in Worker, Holds(w, k)
      PROVE  job[k].state = "active"
  BY <1>7 DEF QueueInv, HoldersAreActive, Holds
<1>8. CASE \E w \in Worker : Holds(w, k) /\ job'[k] = Completed(job[k])
  <2>1. job[k].state = "active" /\ job'[k].state = "completed"
    BY <1>7, <1>8 DEF Completed, Job
  <2> QED
    BY <1>1, <1>3, <2>1 DEF MostRuns, Take
<1>9. CASE \E w \in Worker : Holds(w, k) /\ job'[k] = Thrown(job[k], worker[w].fatal)
  <2>1. /\ job[k].state = "active" /\ job'[k].state \in {"failed", "waiting"}
        /\ job'[k].attempts = job[k].attempts + 1 /\ job'[k].stalls = job[k].stalls
    BY <1>7, <1>9 DEF Thrown, Job
  <2> QED
    BY <1>1, <1>3, <2>1 DEF MostRuns, Take
<1>10. CASE Stall(k) /\ job'[k] = Stalled(job[k])
  <2>1. job[k].state = "active"
    BY <1>10 DEF Stall
  <2>2. \/ job'[k].state = "failed"
        \/ /\ job'[k].state = "waiting" /\ job'[k].attempts = job[k].attempts
           /\ job'[k].stalls = job[k].stalls + 1
    BY <1>10 DEF Stalled, Job
  <2> QED
    BY <1>1, <1>3, <2>1, <2>2 DEF MostRuns, Take
<1>11. CASE \E w \in Worker : Take(w, k)
  BY <1>2, <1>4, <1>11
<1> QED
  BY <1>2, <1>4, <1>5, <1>6, <1>8, <1>9, <1>10, <1>11, JobsMove DEF JobMoves

\* What a step does to the rows of a job and to its runs without one.
LEMMA RunsBegin ==
  ASSUME TypeInv, [Next]_vars, NEW k \in Key
  PROVE  \/ RowsFor(k)' \subseteq RowsFor(k) /\ OpenRuns(k)' \subseteq OpenRuns(k)
         \/ \E w \in Worker :
              /\ Take(w, k)
              /\ RowsFor(k)' \subseteq RowsFor(k) /\ OpenRuns(k)' \subseteq OpenRuns(k) \cup {w}
         \/ \E w \in OpenRuns(k), r \in Row :
              /\ RowsFor(k)' \subseteq RowsFor(k) \cup {r}
              /\ OpenRuns(k)' \subseteq OpenRuns(k) \ {w}
<1> USE DEF TypeInv, TypeOK
<1> DEFINE Open == {"preflight", "createRow"}
<1>1. CASE UNCHANGED <<worker, row, live>>
  BY <1>1 DEF RowsFor, OpenRuns, Busy, KeyOf
<1>2. ASSUME NEW w \in Worker, NEW x \in Key, Take(w, x)
      PROVE  /\ RowsFor(k)' = RowsFor(k)
             /\ OpenRuns(k)' \subseteq OpenRuns(k) \cup (IF x = k THEN {w} ELSE {})
  BY <1>2 DEF Take, RowsFor, OpenRuns, Busy, KeyOf
<1>3. ASSUME NEW w \in Worker, NEW r \in Row, CreateRow(w, r)
      PROVE  /\ RowsFor(k)' \subseteq RowsFor(k) \cup (IF KeyOf(w) = k THEN {r} ELSE {})
             /\ OpenRuns(k)' \subseteq OpenRuns(k) \ {w}
             /\ KeyOf(w) = k => w \in OpenRuns(k)
  <2>1. Busy(w) /\ worker[w] \in Run /\ worker[w].pc = "createRow"
    BY <1>3, BusyRuns DEF CreateRow, Doing, Busy, IdleWorker
  <2>2. /\ worker'[w].pc \notin Open
        /\ \A v \in Worker : v # w => worker'[v] = worker[v]
    BY <1>3, <2>1 DEF CreateRow, Run
  <2>3. row' = [row EXCEPT ![r] = [state |-> "posting", key |-> KeyOf(w)]]
    BY <1>3 DEF CreateRow
  <2> QED
    BY <2>1, <2>2, <2>3 DEF RowsFor, OpenRuns, Busy, KeyOf
<1>4. ASSUME NEW w \in Worker, InRun(w), ~ \E r \in Row : CreateRow(w, r)
      PROVE  RowsFor(k)' \subseteq RowsFor(k) /\ OpenRuns(k)' \subseteq OpenRuns(k)
  <2>1. Busy(w) /\ worker[w] \in Run
    BY <1>4, InRunIsBusy, BusyRuns
  <2>2. RowsFor(k)' \subseteq RowsFor(k)
    <3>1. CASE UNCHANGED row
      BY <3>1 DEF RowsFor
    <3>2. CASE MarkPublished(w) \/ MarkFailed(w)
      <4>1. /\ worker[w].row \in Row /\ row[worker[w].row] \in RowOf
            /\ \E state \in {"published", "failed"} : MarkRow(w, state)
        BY <3>2 DEF MarkPublished, MarkFailed, Doing, RunsHaveRows
      <4>2. \A r \in Row : row'[r] # row[r] =>
              row[r] # UnusedRow /\ row'[r].key = row[r].key
        BY <4>1 DEF MarkRow, RowOf, UnusedRow
      <4> QED
        BY <4>2 DEF RowsFor
    <3> QED
      BY <1>4, <3>1, <3>2
      DEF InRun, Preflight, Publish, PostRejected, PostUnacknowledged, FlipPublished,
          FlipFailed, DatabaseFails, LockExpires
  <2>3. \A v \in Worker : v # w => worker'[v] = worker[v]
    BY <1>4
    DEF InRun, Preflight, Publish, PostRejected, PostUnacknowledged, MarkPublished,
        FlipPublished, MarkFailed, FlipFailed, DatabaseFails, LockExpires, Goto, Failing
  <2>4. worker'[w].key = worker[w].key
        /\ (worker'[w].pc \in Open => worker[w].pc \in Open)
    <3>1. CASE Preflight(w) \/ LockExpires(w)
      BY <2>1, <3>1 DEF Preflight, LockExpires, Doing, Run
    <3>2. CASE ~Preflight(w) /\ ~LockExpires(w)
      <4>1. \E pc, fatal : pc \notin Open /\ (Goto(w, pc) \/ Failing(w, pc, fatal))
        BY <1>4, <3>2
        DEF InRun, Publish, PostRejected, PostUnacknowledged, MarkPublished,
            FlipPublished, MarkFailed, FlipFailed, DatabaseFails
      <4> QED
        BY <2>1, <4>1 DEF Goto, Failing, Run
    <3> QED
      BY <3>1, <3>2
  <2> QED
    BY <2>1, <2>2, <2>3, <2>4 DEF OpenRuns, Busy, KeyOf
<1>5. ASSUME NEW w \in Worker, WorkerDies(w) \/ Complete(w) \/ Throw(w)
      PROVE  RowsFor(k)' \subseteq RowsFor(k) /\ OpenRuns(k)' \subseteq OpenRuns(k)
  <2>1. UNCHANGED row /\ worker' = [worker EXCEPT ![w] = IdleWorker]
    BY <1>5 DEF WorkerDies, Complete, Throw, Settle
  <2> QED
    BY <2>1 DEF RowsFor, OpenRuns, Busy, KeyOf
<1> QED
  BY <1>1, <1>2, <1>3, <1>4, <1>5, StepCases

LEMMA RunsStayBounded ==
  ASSUME TypeInv, RunsAreBounded, [Next]_vars
  PROVE  RunsAreBounded'
<1> SUFFICES ASSUME ~MayEvict, NEW k \in Key
             PROVE  /\ IsFiniteSet(BegunRuns(k)')
                    /\ Cardinality(BegunRuns(k)') <= MostRuns(job'[k])
  BY DEF RunsAreBounded
<1> DEFINE S == BegunRuns(k)
           T == BegunRuns(k)'
<1> HIDE DEF S, T
<1>1. IsFiniteSet(S) /\ Cardinality(S) <= MostRuns(job[k])
  BY DEF RunsAreBounded, S
<1>2. /\ MostRuns(job[k]) \in Nat /\ MostRuns(job'[k]) \in Nat
      /\ MostRuns(job[k]) <= MostRuns(job'[k])
  BY MostRunsGrow
<1>3. CASE RowsFor(k)' \subseteq RowsFor(k) /\ OpenRuns(k)' \subseteq OpenRuns(k)
  <2>1. T \subseteq S
    BY <1>3 DEF S, T, BegunRuns
  <2>3. /\ IsFiniteSet(T) /\ Cardinality(S) \in Nat /\ Cardinality(T) \in Nat
        /\ Cardinality(T) <= Cardinality(S)
    BY <1>1, <2>1, FewerCount
  <2> QED
    BY <1>1, <1>2, <2>1, <2>3 DEF T
<1>4. ASSUME NEW w \in Worker, Take(w, k), RowsFor(k)' \subseteq RowsFor(k),
             OpenRuns(k)' \subseteq OpenRuns(k) \cup {w}
      PROVE  IsFiniteSet(T) /\ Cardinality(T) <= MostRuns(job'[k])
  <2>1. T \subseteq S \cup {<<"run", w>>}
    BY <1>4 DEF S, T, BegunRuns
  <2>2. MostRuns(job'[k]) = MostRuns(job[k]) + 1
    BY <1>4, MostRunsGrow
  <2>3. /\ IsFiniteSet(T) /\ Cardinality(S) \in Nat /\ Cardinality(T) \in Nat
        /\ Cardinality(T) <= Cardinality(S) + 1
    BY <1>1, <2>1, OneMoreCounts
  <2> QED
    BY <1>1, <1>2, <2>1, <2>2, <2>3
<1>5. ASSUME NEW w \in OpenRuns(k), NEW r \in Row, RowsFor(k)' \subseteq RowsFor(k) \cup {r},
             OpenRuns(k)' \subseteq OpenRuns(k) \ {w}
      PROVE  IsFiniteSet(T) /\ Cardinality(T) <= MostRuns(job'[k])
  <2>1. T \subseteq (S \ {<<"run", w>>}) \cup {<<"row", r>>} /\ <<"run", w>> \in S
    BY <1>5 DEF S, T, BegunRuns
  <2>3. /\ IsFiniteSet(T) /\ Cardinality(S) \in Nat /\ Cardinality(T) \in Nat
        /\ Cardinality(T) <= Cardinality(S)
    BY <1>1, <2>1, SwappedCount
  <2> QED
    BY <1>1, <1>2, <2>1, <2>3
<1> QED
  BY <1>3, <1>4, <1>5, RunsBegin DEF T
----------------------------------------------------------------------------
(* How often a job posts.                                                   *)

\* Without a post or a lost lock the runs that go on without their lock stay as
\* they are or come to their end.
LostKept(k) == LostRuns(k)' \subseteq LostRuns(k)
PostsKept(k) == PostsAt(k)' \subseteq PostsAt(k)

\* A run that has posted under its lock stays so, or completes its job; else it fails.
SuccessKept(k) == HasPosted(k) => HasPosted(k)' \/ faults' = faults + 1

LEMMA FaultsCount ==
  ASSUME TypeInv, [Next]_vars
  PROVE  faults \in Nat /\ faults' \in {faults, faults + 1}
<1>1. faults \in Nat
  BY BoundsAssumption DEF TypeInv, TypeOK
<1>2. ASSUME NEW w \in Worker, WorkerStep(w)
      PROVE  UNCHANGED faults
  <2>1. CASE Complete(w) \/ Throw(w)
    BY <2>1 DEF Complete, Throw, Settle
  <2>2. CASE \E k \in Key : Take(w, k)
    BY <2>2 DEF Take
  <2>3. CASE ~Complete(w) /\ ~Throw(w) /\ ~ \E k \in Key : Take(w, k)
    BY <1>2, <2>3 DEF WorkerStep, Preflight, CreateRow, Publish, PostRejected,
       MarkPublished, FlipPublished, MarkFailed, FlipFailed
  <2> QED
    BY <2>1, <2>2, <2>3
<1>3. CASE Faulty
  <2>1. Fault
    BY <1>3 DEF Faulty, RequestFails, TickEnqueueFails, TickDies, PostUnacknowledged,
       DatabaseFails, WorkerDies, LockExpires
  <2> QED
    BY <1>1, <2>1 DEF Fault
<1>4. ASSUME NEW t \in Tick, TickStep(t)
      PROVE  UNCHANGED faults
  BY <1>4 DEF TickStep, FindDueItems, Claim, TickEnqueues
<1> QED
  BY <1>1, <1>2, <1>3, <1>4
  DEF Next, vars, publishVars, RouteEnqueues, TimePasses, Stall, Evict

\* A post adds to the posts of the run's own job, and to nobody else's.
LEMMA PostsAtMove ==
  ASSUME TypeInv, GateInv, [Next]_vars, NEW k \in Key
  PROVE  \/ PostsKept(k)
         \/ \E w \in Worker : /\ Publish(w) \/ PostUnacknowledged(w)
                              /\ KeyOf(w) = k
                              /\ PostsAt(k)' \subseteq PostsAt(k) \cup {worker[w].row}
<1> USE DEF TypeInv, TypeOK
<1>1. \A r \in Row : live[r] # NoCopy => row'[r].key = row[r].key
  BY PostsDoPersist DEF PostsPersist, Posted
<1>2. CASE UNCHANGED live
  BY <1>1, <1>2 DEF PostsKept, PostsAt, Posted
<1>3. ASSUME NEW w \in Worker, Publish(w) \/ PostUnacknowledged(w)
      PROVE  /\ KeyOf(w) # k => PostsKept(k)
             /\ PostsAt(k)' \subseteq PostsAt(k) \cup {worker[w].row}
  <2>1. worker[w].row \in Row /\ row[worker[w].row].key = KeyOf(w)
    BY <1>3 DEF Publish, PostUnacknowledged, RunsHaveRows, Doing
  <2>2. /\ live' = [live EXCEPT ![worker[w].row] = worker[w].caption]
        /\ UNCHANGED row
    BY <1>3 DEF Publish, PostUnacknowledged
  <2> QED
    BY <2>1, <2>2 DEF PostsKept, PostsAt, Posted
<1> QED
  BY <1>2, <1>3, WhoPosts

\* The runs of job k while worker w moves.
LEMMA LostMove ==
  ASSUME TypeInv, [Next]_vars, NEW k \in Key
  PROVE  \/ LostKept(k)
         \/ \E w \in Worker : /\ LockExpires(w) /\ KeyOf(w) = k
                              /\ worker[w].pc \in {"preflight", "createRow", "post"}
                              /\ LostRuns(k)' \subseteq LostRuns(k) \cup {w}
<1> USE DEF TypeInv, TypeOK
<1> DEFINE Early == {"preflight", "createRow", "post"}
<1>1. CASE UNCHANGED <<worker, row, live>>
  BY <1>1 DEF LostKept, LostRuns, Busy, KeyOf
<1>2. ASSUME NEW w \in Worker, NEW x \in Key, Take(w, x)
      PROVE  LostKept(k)
  BY <1>2 DEF Take, LostKept, LostRuns, Busy, KeyOf
<1>3. ASSUME NEW w \in Worker, WorkerDies(w) \/ Complete(w) \/ Throw(w)
      PROVE  LostKept(k)
  <2>1. worker' = [worker EXCEPT ![w] = IdleWorker]
    BY <1>3 DEF WorkerDies, Complete, Throw, Settle
  <2> QED
    BY <2>1 DEF LostKept, LostRuns, Busy, KeyOf
<1>4. ASSUME NEW w \in Worker, InRun(w), ~LockExpires(w)
      PROVE  LostKept(k)
  <2>1. Busy(w) /\ worker[w] \in Run
    BY <1>4, InRunIsBusy, BusyRuns
  <2>2. \A v \in Worker : v # w => worker'[v] = worker[v]
    BY <1>4
    DEF InRun, Preflight, CreateRow, Publish, PostRejected, PostUnacknowledged,
        MarkPublished, FlipPublished, MarkFailed, FlipFailed, DatabaseFails, Goto, Failing
  <2>3. /\ worker'[w].key = worker[w].key /\ worker'[w].lost = worker[w].lost
        /\ worker'[w].pc \in Early => worker[w].pc \in Early
    <3>0. Preflight(w) \/ (\E r \in Row : CreateRow(w, r)) => worker[w].pc \in Early
      BY DEF Preflight, CreateRow, Doing
    <3>1. CASE Preflight(w)
      BY <2>1, <3>0, <3>1 DEF Preflight, Run
    <3>3. ASSUME NEW r \in Row, CreateRow(w, r)
          PROVE  worker'[w].key = worker[w].key /\ worker'[w].lost = worker[w].lost
      BY <2>1, <3>3 DEF CreateRow, Run
    <3>2. CASE ~Preflight(w) /\ ~ \E r \in Row : CreateRow(w, r)
      <4>1. \E pc, fatal : pc \notin Early /\ (Goto(w, pc) \/ Failing(w, pc, fatal))
        BY <1>4, <3>2
        DEF InRun, Publish, PostRejected, PostUnacknowledged, MarkPublished,
            FlipPublished, MarkFailed, FlipFailed, DatabaseFails
      <4> QED
        BY <2>1, <4>1 DEF Goto, Failing, Run
    <3> QED
      BY <3>0, <3>1, <3>2, <3>3
  <2> QED
    BY <2>1, <2>2, <2>3 DEF LostKept, LostRuns, Busy, KeyOf
<1>5. ASSUME NEW w \in Worker, LockExpires(w)
      PROVE  \/ LostKept(k)
             \/ /\ KeyOf(w) = k /\ worker[w].pc \in Early
                /\ LostRuns(k)' \subseteq LostRuns(k) \cup {w}
  <2>1. Busy(w) /\ worker[w] \in Run
    BY <1>5, BusyRuns DEF LockExpires
  <2>2. worker' = [worker EXCEPT ![w].lost = TRUE]
    BY <1>5 DEF LockExpires
  <2>3. LostRuns(k)' \subseteq LostRuns(k) \cup {w}
    BY <2>1, <2>2 DEF LostRuns, Busy, KeyOf
  <2>4. KeyOf(w) # k \/ worker[w].pc \notin Early => w \notin LostRuns(k)'
    BY <2>1, <2>2 DEF LostRuns, KeyOf, Run
  <2> QED
    BY <2>3, <2>4 DEF LostKept
<1> QED
  BY <1>1, <1>2, <1>3, <1>4, <1>5, StepCases

LEMMA SuccessMoves ==
  ASSUME TypeInv, ~MayEvict, [Next]_vars, NEW k \in Key
  PROVE  SuccessKept(k)
<1> USE DEF TypeInv, TypeOK
<1> DEFINE Past == {"markPublished", "flipPublished", "complete"}
<1>1. CASE job[k].state = "completed"
  BY <1>1, JobsKeepVerdicts DEF SuccessKept, HasPosted
<1> SUFFICES ASSUME NEW w \in Worker, Holds(w, k), worker[w].pc \in Past
             PROVE  HasPosted(k)' \/ faults' = faults + 1
  BY <1>1 DEF SuccessKept, HasPosted
<1>2. Busy(w) /\ worker[w] \in Run /\ KeyOf(w) = k /\ ~worker[w].lost
  BY BusyRuns DEF Holds
<1>3. ASSUME worker'[w].pc \in Past, worker'[w].key = worker[w].key,
             worker'[w].lost = worker[w].lost
      PROVE  HasPosted(k)'
  BY <1>2, <1>3 DEF HasPosted, Holds, Busy, KeyOf, IdleWorker
<1>4. CASE worker'[w] = worker[w]
  BY <1>3, <1>4
<1>5. CASE Complete(w)
  <2>1. job' = [job EXCEPT ![k] = Completed(job[k])]
    BY <1>2, <1>5 DEF Complete, Settle
  <2>2. job'[k].state = "completed"
    BY <2>1 DEF Completed, Job
  <2> QED
    BY <2>2 DEF HasPosted
<1>6. CASE MarkPublished(w) \/ FlipPublished(w)
  BY <1>2, <1>3, <1>6 DEF MarkPublished, FlipPublished, Goto, Run
<1>7. CASE DatabaseFails(w) \/ WorkerDies(w) \/ LockExpires(w)
  BY <1>7 DEF DatabaseFails, WorkerDies, LockExpires, Fault
<1>8. CASE \/ Preflight(w) \/ Publish(w) \/ PostUnacknowledged(w) \/ MarkFailed(w)
           \/ FlipFailed(w) \/ Throw(w) \/ \E fatal \in BOOLEAN : PostRejected(w, fatal)
           \/ \E r \in Row : CreateRow(w, r)
  BY <1>8 DEF Preflight, Publish, PostUnacknowledged, MarkFailed, FlipFailed, Throw,
     PostRejected, CreateRow, Doing
<1>9. CASE \E x \in Key : Take(w, x)
  BY <1>2, <1>9 DEF Take, Busy
<1>10. ASSUME NEW v \in Worker, v # w,
              \/ InRun(v) \/ WorkerDies(v) \/ Complete(v) \/ Throw(v)
              \/ \E x \in Key : Take(v, x)
       PROVE  worker'[w] = worker[w]
  BY <1>10 DEF InRun, WorkerDies, Complete, Throw, Settle, Take, Preflight,
     CreateRow, Publish, PostRejected, PostUnacknowledged, MarkPublished,
     FlipPublished, MarkFailed, FlipFailed, DatabaseFails, LockExpires, Goto, Failing
<1> QED
  BY <1>4, <1>5, <1>6, <1>7, <1>8, <1>9, <1>10, StepCases DEF InRun

\* Only one run at a time has the lock, and it is the one that posts now.
LEMMA PostingHasNotPosted ==
  ASSUME TypeInv, NEW w \in Worker, Doing(w, "post"), ~worker[w].lost
  PROVE  ~HasPosted(KeyOf(w))
<1>1. Busy(w)
  BY DEF Doing, Busy, IdleWorker
<1>2. job[KeyOf(w)].state = "active"
  BY <1>1 DEF TypeInv, QueueInv, HoldersAreActive
<1>3. ASSUME NEW v \in Worker, Holds(v, KeyOf(w))
      PROVE  v = w
  BY <1>1, <1>3 DEF TypeInv, QueueInv, HoldersAreAlone, Holds
<1> QED
  BY <1>2, <1>3 DEF HasPosted, Doing

\* Who has posted is not undone by a run that has not.
LEMMA SuccessOfOthers ==
  ASSUME NEW w \in Worker, UNCHANGED job, \A v \in Worker : v # w => worker'[v] = worker[v],
         worker[w].pc \in {"preflight", "createRow", "post"}, NEW k \in Key, HasPosted(k)
  PROVE  HasPosted(k)'
  BY DEF HasPosted, Holds, Busy, KeyOf

\* With its post a run is past the point where it counts as lost.
LEMMA PostingEndsLost ==
  ASSUME TypeInv, NEW w \in Worker, Publish(w) \/ PostUnacknowledged(w), NEW k \in Key
  PROVE  /\ LostRuns(k)' \subseteq LostRuns(k) \ {w}
         /\ worker[w] \in Run /\ worker[w].pc = "post" /\ Busy(w)
         /\ UNCHANGED job /\ \A v \in Worker : v # w => worker'[v] = worker[v]
<1> USE DEF TypeInv, TypeOK
<1>0. worker[w].pc = "post"
  BY DEF Publish, PostUnacknowledged, Doing
<1>1. Busy(w) /\ worker[w] \in Run /\ worker[w].pc = "post"
  <2>1. Busy(w)
    BY <1>0 DEF Busy, IdleWorker
  <2> QED
    BY <1>0, <2>1, BusyRuns
<1>2. UNCHANGED job /\ \A v \in Worker : v # w => worker'[v] = worker[v]
  BY DEF Publish, PostUnacknowledged, Goto, Failing
<1>3. worker'[w].pc \in {"markPublished", "markFailed"}
  BY <1>1 DEF Publish, PostUnacknowledged, Goto, Failing, Run
<1> QED
  BY <1>1, <1>2, <1>3 DEF LostRuns, Busy, KeyOf

LEMMA RepeatsStayPaid ==
  ASSUME TypeInv, GateInv, RepeatsArePaid, [Next]_vars
  PROVE  RepeatsArePaid'
<1> SUFFICES ASSUME ~MayEvict, NEW k \in Key
             PROVE  /\ IsFiniteSet(SpentRuns(k)')
                    /\ Cardinality(SpentRuns(k)')
                         <= faults' + (IF HasPosted(k)' THEN 1 ELSE 0)
  BY DEF RepeatsArePaid
<1> DEFINE S == SpentRuns(k)
           T == SpentRuns(k)'
           Paid == IsFiniteSet(T) /\ Cardinality(T) <= faults' + (IF HasPosted(k)' THEN 1 ELSE 0)
<1>1. /\ IsFiniteSet(S)
      /\ Cardinality(S) <= faults + (IF HasPosted(k) THEN 1 ELSE 0)
  BY DEF RepeatsArePaid
<1>2. faults \in Nat /\ faults' \in {faults, faults + 1}
  BY FaultsCount
<1>3. SuccessKept(k)
  BY SuccessMoves
<1>4. ASSUME PostsKept(k), LostKept(k)
      PROVE  Paid
  <2>1. T \subseteq S
    BY <1>4 DEF SpentRuns, PostsKept, LostKept
  <2>2. /\ IsFiniteSet(T) /\ Cardinality(S) \in Nat /\ Cardinality(T) \in Nat
        /\ Cardinality(T) <= Cardinality(S)
    BY <1>1, <2>1, FewerCount
  <2> HIDE DEF S, T
  <2> QED
    BY <1>1, <1>2, <1>3, <2>2 DEF SuccessKept
<1>5. ASSUME PostsKept(k), NEW w \in Worker, LockExpires(w), KeyOf(w) = k,
             worker[w].pc \in {"preflight", "createRow", "post"},
             LostRuns(k)' \subseteq LostRuns(k) \cup {w}
      PROVE  Paid
  <2>1. T \subseteq S \cup {<<"lost", w>>}
    BY <1>5 DEF SpentRuns, PostsKept
  <2>2. /\ IsFiniteSet(T) /\ Cardinality(S) \in Nat /\ Cardinality(T) \in Nat
        /\ Cardinality(T) <= Cardinality(S) + 1
    BY <1>1, <2>1, OneMoreCounts
  <2>3. faults' = faults + 1 /\ UNCHANGED job
        /\ \A v \in Worker : v # w => worker'[v] = worker[v]
    BY <1>5 DEF LockExpires, Fault
  <2>4. HasPosted(k) => HasPosted(k)'
    BY <1>5, <2>3, SuccessOfOthers
  <2> HIDE DEF S, T
  <2> QED
    BY <1>1, <1>2, <2>2, <2>3, <2>4
<1>6. ASSUME NEW w \in Worker, Publish(w) \/ PostUnacknowledged(w), KeyOf(w) = k,
             PostsAt(k)' \subseteq PostsAt(k) \cup {worker[w].row}
      PROVE  Paid
  <2>1. /\ LostRuns(k)' \subseteq LostRuns(k) \ {w}
        /\ worker[w] \in Run /\ worker[w].pc = "post" /\ Busy(w)
        /\ UNCHANGED job /\ \A v \in Worker : v # w => worker'[v] = worker[v]
    BY <1>6, PostingEndsLost
  <2>2. HasPosted(k) => HasPosted(k)'
    BY <2>1, SuccessOfOthers
  <2>3. T \subseteq S \cup {<<"post", worker[w].row>>}
    BY <1>6, <2>1 DEF SpentRuns
  <2>4. /\ IsFiniteSet(T) /\ Cardinality(S) \in Nat /\ Cardinality(T) \in Nat
        /\ Cardinality(T) <= Cardinality(S) + 1
    BY <1>1, <2>3, OneMoreCounts
  <2>5. CASE PostUnacknowledged(w)
    <3>1. faults' = faults + 1
      BY <2>5 DEF PostUnacknowledged, Fault
    <3> HIDE DEF S, T
    <3> QED
      BY <1>1, <1>2, <2>2, <2>4, <3>1
  <2>6. CASE Publish(w) /\ worker[w].lost
    <3>1. w \in LostRuns(k)
      BY <1>6, <2>1, <2>6 DEF LostRuns
    <3>2. /\ T \subseteq (S \ {<<"lost", w>>}) \cup {<<"post", worker[w].row>>}
          /\ <<"lost", w>> \in S
      BY <1>6, <2>1, <3>1 DEF SpentRuns
    <3>3. Cardinality(T) <= Cardinality(S)
      BY <1>1, <3>2, SwappedCount
    <3> HIDE DEF S, T
    <3> QED
      BY <1>1, <1>2, <2>2, <2>4, <3>3
  <2>7. CASE Publish(w) /\ ~worker[w].lost
    <3>1. ~HasPosted(k)
      BY <1>6, <2>1, <2>7, PostingHasNotPosted DEF Doing
    <3>2. worker'[w] = [worker[w] EXCEPT !.pc = "markPublished"]
      BY <2>7 DEF Publish, Goto, TypeInv, TypeOK
    <3>3. HasPosted(k)'
      BY <1>6, <2>1, <2>7, <3>2 DEF HasPosted, Holds, Busy, KeyOf, Run, IdleWorker
    <3> HIDE DEF S, T
    <3> QED
      BY <1>1, <1>2, <2>4, <3>1, <3>3
  <2> QED
    BY <1>6, <2>5, <2>6, <2>7
<1>7. Paid
  BY <1>4, <1>5, <1>6, PostsAtMove, LostMove
<1> QED
  BY <1>7

LEMMA CountInvInit ==
  ASSUME Init
  PROVE  CountInv
<1> USE DEF Init
<1>1. OneVerdictPerJob
  BY DEF OneVerdictPerJob
<1>2. ASSUME NEW k \in Key
      PROVE  BegunRuns(k) = {} /\ SpentRuns(k) = {} /\ MostRuns(job[k]) = 0
  <2>1. RowsFor(k) = {} /\ OpenRuns(k) = {}
    BY DEF RowsFor, OpenRuns, Busy
  <2>2. PostsAt(k) = {} /\ LostRuns(k) = {}
    BY DEF PostsAt, Posted, LostRuns, Busy
  <2>3. MostRuns(job[k]) = 0
    BY DEF MostRuns, NoJob
  <2> QED
    BY <2>1, <2>2, <2>3 DEF BegunRuns, SpentRuns
<1>3. IsFiniteSet({}) /\ Cardinality({}) = 0
  BY FS_EmptySet
<1>4. RunsAreBounded
  BY <1>2, <1>3 DEF RunsAreBounded
<1>5. RepeatsArePaid
  <2>1. \A k \in Key : 0 <= faults + (IF HasPosted(k) THEN 1 ELSE 0)
    OBVIOUS
  <2> QED
    BY <1>2, <1>3, <2>1 DEF RepeatsArePaid
<1> QED
  BY <1>1, <1>4, <1>5 DEF CountInv

LEMMA CountInvHolds == Spec => []CountInv
<1>1. Init => CountInv
  BY CountInvInit
<1>2. IInv /\ CountInv /\ [Next]_vars => CountInv'
  BY VerdictsStay, RunsStayBounded, RepeatsStayPaid DEF IInv, CountInv
<1> QED
  BY <1>1, <1>2, Invariance, PTL DEF Spec

\* What the status and the webhooks tell is true, after any number of database
\* errors, retries, lost locks and dead workers: an item is called published, and
\* "publish.succeeded" is sent, only if one of its posts is on a platform, and nobody
\* is told both that a job has succeeded and that it has failed
\* (job.ts:94-119, worker.ts:143-160).
THEOREM NewsStaysTrue == Spec => []NewsIsTrue
<1>1. IInv /\ CountInv => NewsIsTrue
  BY DEF IInv, LiveInv, CountInv, NewsIsTrue
<1> QED
  BY <1>1, Invariance, CountInvHolds, PTL

\* Every post of an item to an account but one is paid for with a fault, and there
\* are never more than attempts and stalls allow runs, for any number of requests,
\* ticks, workers and faults (publish-queue.ts:17-25, job.ts:73).
THEOREM RepeatsStayCounted == Spec => []RepeatsAreCounted
<1>1. ASSUME IInv, CountInv
      PROVE  RepeatsAreCounted
  <2> SUFFICES ASSUME ~MayEvict, NEW k \in Key
               PROVE  /\ Cardinality(PostsAt(k)) <= 1 + faults
                      /\ Cardinality(PostsAt(k)) <= MaxAttempts + MaxStalls
    BY DEF RepeatsAreCounted
  <2>1. TypeInv /\ GateInv
    BY <1>1 DEF IInv
  <2>2. Cardinality(PostsAt(k)) <= 1 + faults
    <3>1. /\ IsFiniteSet(SpentRuns(k))
          /\ Cardinality(SpentRuns(k)) <= faults + (IF HasPosted(k) THEN 1 ELSE 0)
      BY <1>1 DEF CountInv, RepeatsArePaid
    <3>2. \A r \in PostsAt(k) : <<"post", r>> \in SpentRuns(k)
      BY DEF SpentRuns
    <3>3. /\ Cardinality(PostsAt(k)) \in Nat /\ Cardinality(SpentRuns(k)) \in Nat
          /\ Cardinality(PostsAt(k)) <= Cardinality(SpentRuns(k))
      BY <3>1, <3>2, TokensCount
    <3>4. faults \in Nat
      BY <2>1, BoundsAssumption DEF TypeInv, TypeOK
    <3> QED
      BY <3>1, <3>3, <3>4
  <2>3. Cardinality(PostsAt(k)) <= MaxAttempts + MaxStalls
    <3>1. IsFiniteSet(BegunRuns(k)) /\ Cardinality(BegunRuns(k)) <= MostRuns(job[k])
      BY <1>1 DEF CountInv, RunsAreBounded
    <3>2. \A r \in PostsAt(k) : <<"row", r>> \in BegunRuns(k)
      BY <2>1 DEF PostsAt, BegunRuns, RowsFor, GateInv, PostsAreGated
    <3>3. /\ Cardinality(PostsAt(k)) \in Nat /\ Cardinality(BegunRuns(k)) \in Nat
          /\ Cardinality(PostsAt(k)) <= Cardinality(BegunRuns(k))
      BY <3>1, <3>2, TokensCount
    <3>4. /\ MostRuns(job[k]) \in Nat /\ MaxAttempts + MaxStalls \in Nat
          /\ MostRuns(job[k]) <= MaxAttempts + MaxStalls
      BY <2>1, MostRunsAre
    <3> QED
      BY <3>1, <3>3, <3>4
  <2> QED
    BY <2>2, <2>3
<1> QED
  BY <1>1, Invariance, CountInvHolds, PTL
==============================================================================
