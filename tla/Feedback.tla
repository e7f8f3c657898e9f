------------------------------ MODULE Feedback ------------------------------
(***************************************************************************)
(* What the agency hears: notifications in its feed and on its channels,    *)
(* webhooks, and the metrics of a published post that set them off. A task  *)
(* is a request, an event handler or a job's run that tells, a phase at a   *)
(* time, while settings and webhooks are edited. Tasks change nothing that  *)
(* others read, so there is one at a time.                                  *)
(***************************************************************************)
EXTENDS PublishQueue, FiniteSets, Sequences

CONSTANTS Hook,          \* ids of webhooks
          Subscription,  \* the sets of events hooks are created for
          Muting,        \* the sets of kinds that get muted
          MaxEdits       \* edits of settings and hooks, from any to begin with

Event == {"publish.succeeded", "publish.failed", "metric.snapshot"}
Kind == {"approval_requested", "publish_failed", "metric_milestone"}
Channel == {"slack", "email"}

ASSUME FeedbackAssumption ==
  /\ Subscription \subseteq (SUBSET Event) \ {{}} /\ Muting \subseteq SUBSET Kind
  /\ MaxEdits \in Nat

VARIABLES
  settings,    \* the NotificationSetting row; without it nothing is sent
  hooks,       \* the events each Webhook row is for, {} where there is none
  task,
  readable,    \* the post is published and its client has an account for it
  metricsJob,  \* the job metrics:<agency>:<publish job>
  snaps,       \* snapshots stored since the job was added
  edits        \* history: edits so far

feedbackVars == <<settings, hooks, task, readable, metricsJob, snaps, edits>>

Wanted(s, kind) == IF s.there /\ kind \notin s.muted THEN s.targets ELSE {}
Subscribed(h, event) == {x \in Hook : event \in h[x]}

Notifying == <<"save", "settings", "channels">>
Dispatching == <<"hooks", "post">>
\* What each kind of task does in turn, and what it tells.
Phases == [submit |-> <<"move">> \o Notifying, completed |-> Dispatching,
           failed |-> Notifying \o Dispatching, metrics |-> <<"refresh">>]
Tells == [submit |-> "approval_requested", completed |-> "nothing",
          failed |-> "publish_failed", metrics |-> "metric_milestone"]
Fires == [submit |-> "nothing", completed |-> "publish.succeeded",
          failed |-> "publish.failed", metrics |-> "metric.snapshot"]

NotTelling == [by |-> "nobody"]

Refreshing == task # NotTelling /\ task.by = "metrics" /\ task.end = "running"

FeedbackTypeOK ==
  /\ settings \in [there : BOOLEAN, targets : SUBSET Channel, muted : SUBSET Kind]
  /\ hooks \in [Hook -> SUBSET Event]
  /\ task = NotTelling \/
       /\ task.by \in DOMAIN Phases /\ task.end \in {"running", "ok", "error"}
       /\ task.tried \subseteq task.chosen /\ task.called \subseteq task.chosenHooks
       /\ task.to \subseteq task.chosen /\ task.calls \subseteq task.chosenHooks
  /\ readable \in BOOLEAN
  /\ metricsJob \in Job
  /\ Refreshing => metricsJob.state = "active"
  /\ snaps \in 0 .. MaxAttempts + MaxStalls /\ edits \in 0 .. MaxEdits

FeedbackInit ==
  /\ settings \in [there : {TRUE}, targets : SUBSET Channel, muted : Muting]
                   \cup [there : {FALSE}, targets : {{}}, muted : {{}}]
  /\ hooks \in [Hook -> Subscription \cup {{}}]
  /\ edits = 0
  /\ task = NotTelling
  /\ readable = TRUE
  /\ metricsJob = NoJob /\ snaps = 0

TaskAt(phase) ==
  task # NotTelling /\ task.end = "running" /\ task.todo # <<>> /\ Head(task.todo) = phase

\* A running task sees the settings and hooks of every moment.
Witness(s, h) ==
  task' = IF task = NotTelling THEN NotTelling
          ELSE [task EXCEPT !.known = @ \cup Wanted(s, Tells[task.by]),
                            !.subscribers = @ \cup Subscribed(h, Fires[task.by])]

\* PUT settings; a patch may leave fields out.
UpdateSettings(targets, muted) ==
  /\ edits < MaxEdits /\ edits' = edits + 1
  /\ settings' = [there |-> TRUE, targets |-> targets, muted |-> muted]
  /\ settings' # settings
  /\ Witness(settings', hooks)
  /\ UNCHANGED <<hooks, readable, metricsJob, snaps>>

CreateHook(h, events) ==
  /\ edits < MaxEdits /\ edits' = edits + 1
  /\ hooks[h] = {}
  /\ hooks' = [hooks EXCEPT ![h] = events]
  /\ Witness(settings, hooks')
  /\ UNCHANGED <<settings, readable, metricsJob, snaps>>

RemoveHook(h) ==
  /\ edits < MaxEdits /\ edits' = edits + 1
  /\ hooks[h] # {}
  /\ hooks' = [hooks EXCEPT ![h] = {}]
  /\ UNCHANGED <<settings, task, readable, metricsJob, snaps>>

\* known, subscribers: histories of whom the settings and hooks named meanwhile.
Begun(by) ==
  [by |-> by, todo |-> Phases[by], end |-> "running", moved |-> FALSE, stored |-> FALSE,
   to |-> {}, tried |-> {}, calls |-> {}, called |-> {}, chosen |-> {}, chosenHooks |-> {},
   known |-> Wanted(settings, Tells[by]), subscribers |-> Subscribed(hooks, Fires[by])]

\* POST submit, or the publish worker's completed and failed events; while no
\* refresh is queued, which they do not touch.
Begin(by) ==
  /\ task = NotTelling /\ by # "metrics" /\ metricsJob = NoJob
  /\ task' = Begun(by)
  /\ UNCHANGED <<settings, hooks, readable, metricsJob, snaps, edits>>

\* An account is connected, or its row is removed by hand: nothing in the code does that.
ChangeAccount ==
  /\ readable' = ~readable
  /\ UNCHANGED <<settings, hooks, task, metricsJob, snaps, edits>>

\* POST metrics, for a post that can be read.
TriggerMetrics ==
  /\ readable
  /\ metricsJob' = Added(metricsJob)
  /\ metricsJob' # metricsJob
  /\ snaps' = 0
  /\ UNCHANGED <<settings, hooks, task, readable, edits>>

\* A finished job is forgotten once enough later ones have finished.
ForgetMetricsJob ==
  /\ metricsJob.state \in {"completed", "failed"}
  /\ metricsJob' = NoJob
  /\ snaps' = 0
  /\ UNCHANGED <<settings, hooks, task, readable, edits>>

TakeMetricsJob ==
  /\ task = NotTelling /\ metricsJob.state = "waiting"
  /\ metricsJob' = Taken(metricsJob)
  /\ task' = Begun("metrics")
  /\ UNCHANGED <<settings, hooks, readable, snaps, edits>>

PhaseOver == task' = [task EXCEPT !.todo = Tail(@)]

\* The request answers with an error.
Refuse == task' = [task EXCEPT !.end = "error"] /\ UNCHANGED metricsJob

\* Mutant: what failed is queued afresh.
ThrowAndRequeue(unrecoverable) ==
  /\ task' = [task EXCEPT !.end = "error"]
  /\ metricsJob' = IF unrecoverable THEN Thrown(metricsJob, TRUE) ELSE FreshJob

\* The processor of the metrics job throws.
ThrowMetrics(unrecoverable) ==
  /\ task' = [task EXCEPT !.end = "error"]
  /\ metricsJob' = Thrown(metricsJob, unrecoverable)

MoveItem ==
  /\ TaskAt("move")
  /\ \/ task' = [task EXCEPT !.moved = TRUE, !.todo = Tail(@)] /\ UNCHANGED metricsJob
     \/ Refuse
  /\ UNCHANGED snaps

\* analytics.refresh: the post must be readable (else NotFoundError, which is
\* final), the platform must answer, the snapshot is stored. Enough impressions
\* are a milestone, each time.
Refresh ==
  /\ TaskAt("refresh")
  /\ \/ /\ readable
        /\ snaps' = snaps + 1
        /\ \E milestone \in BOOLEAN :
             task' = [task EXCEPT !.todo = Dispatching \o IF milestone THEN Notifying ELSE <<>>]
        /\ UNCHANGED metricsJob
     \/ readable /\ ThrowMetrics(FALSE) /\ UNCHANGED snaps
     \/ ~readable /\ ThrowMetrics(TRUE) /\ UNCHANGED snaps

\* Mutant: emit is called as it is.
EmitFailsTheJob ==
  IF task.by = "submit" THEN Refuse
  ELSE IF task.by = "metrics" THEN ThrowMetrics(FALSE)
  ELSE task' = [task EXCEPT !.todo = Dispatching] /\ UNCHANGED metricsJob

\* Mutant: the route swallows the error as the worker does.
EmitFailsQuietly ==
  /\ task' = [task EXCEPT !.todo = IF task.by = "failed" THEN Dispatching ELSE <<>>]
  /\ UNCHANGED metricsJob

\* emit throws when the database fails. The workers go on (safeNotify), the
\* route does not.
EmitFails ==
  IF task.by = "submit" THEN Refuse
  ELSE /\ task' = [task EXCEPT !.todo = IF task.by = "failed" THEN Dispatching ELSE <<>>]
       /\ UNCHANGED metricsJob

SaveNotification ==
  /\ TaskAt("save")
  /\ \/ task' = [task EXCEPT !.stored = TRUE, !.todo = Tail(@)] /\ UNCHANGED metricsJob
     \/ EmitFails
  /\ UNCHANGED snaps

ReadSettings ==
  /\ TaskAt("settings")
  /\ \/ LET w == Wanted(settings, Tells[task.by])
        IN task' = [task EXCEPT !.to = w, !.chosen = w, !.todo = Tail(@)]
           /\ UNCHANGED metricsJob
     \/ EmitFails
  /\ UNCHANGED snaps

\* Mutant: the first channel that fails ends the sending.
SendOrStop(c, sent) ==
  task' = [task EXCEPT !.to = IF sent THEN @ \ {c} ELSE {}, !.tried = @ \cup {c}]

\* A channel that throws is logged.
Send(c, sent) ==
  task' = [task EXCEPT !.to = @ \ {c}, !.tried = @ \cup {c}]

Channels ==
  /\ TaskAt("channels")
  /\ \/ \E c \in task.to, sent \in BOOLEAN : Send(c, sent)
     \/ task.to = {} /\ PhaseOver
  /\ UNCHANGED <<metricsJob, snaps>>

\* Mutant: every hook of the agency.
DeliverablesAll(event) == {h \in Hook : hooks[h] # {}}

DeliverablesFor(event) == Subscribed(hooks, event)

\* Mutant: the hooks are read again for the log.
ReadHooksTwice ==
  /\ TaskAt("hooks")
  /\ LET d == DeliverablesFor(Fires[task.by])
     IN task' = [task EXCEPT !.calls = d, !.todo = Tail(@)]
  /\ UNCHANGED <<metricsJob, snaps>>

\* safeDispatch: when the hooks cannot be read none is called.
ReadHooks ==
  /\ TaskAt("hooks")
  /\ \/ LET d == DeliverablesFor(Fires[task.by])
        IN task' = [task EXCEPT !.calls = d, !.chosenHooks = d, !.todo = Tail(@)]
     \/ task' = [task EXCEPT !.todo = Tail(Tail(@))]
  /\ UNCHANGED <<metricsJob, snaps>>

\* Each endpoint is called whatever the others answer.
PostHooks ==
  /\ TaskAt("post")
  /\ \/ \E h \in task.calls :
          task' = [task EXCEPT !.calls = @ \ {h}, !.called = @ \cup {h}]
     \/ task.calls = {} /\ PhaseOver
  /\ UNCHANGED <<metricsJob, snaps>>

EndTask ==
  /\ task # NotTelling /\ task.end = "running" /\ task.todo = <<>>
  /\ task' = [task EXCEPT !.end = "ok"]
  /\ IF task.by = "metrics"
     THEN metricsJob' = Completed(metricsJob)
     ELSE UNCHANGED metricsJob
  /\ UNCHANGED snaps

TaskStep ==
  /\ \/ MoveItem \/ Refresh \/ SaveNotification \/ ReadSettings \/ Channels
     \/ ReadHooks \/ PostHooks \/ EndTask
  /\ UNCHANGED <<settings, hooks, readable, edits>>

\* The process dies.
DieTelling ==
  /\ task # NotTelling /\ task.end = "running"
  /\ task' = NotTelling
  /\ UNCHANGED <<settings, hooks, readable, metricsJob, snaps, edits>>

\* The task is over.
Leave ==
  /\ task # NotTelling /\ task.end # "running"
  /\ task' = NotTelling
  /\ UNCHANGED <<settings, hooks, readable, metricsJob, snaps, edits>>

\* The lock of a dead task's job expires.
StallMetricsJob ==
  /\ metricsJob.state = "active" /\ ~Refreshing
  /\ metricsJob' = Stalled(metricsJob)
  /\ UNCHANGED <<settings, hooks, task, readable, snaps, edits>>

FeedbackNext ==
  \/ \E s \in SUBSET Channel, m \in Muting : UpdateSettings(s, m)
  \/ \E h \in Hook : RemoveHook(h) \/ \E e \in Subscription : CreateHook(h, e)
  \/ ChangeAccount \/ TriggerMetrics \/ ForgetMetricsJob \/ TakeMetricsJob \/ StallMetricsJob
  \/ \E by \in DOMAIN Phases : Begin(by)
  \/ TaskStep \/ DieTelling \/ Leave

\* The metrics worker runs, every call it makes has a timeout, and the stalled
\* checker runs.
FeedbackFairness ==
  /\ WF_feedbackVars(TakeMetricsJob)
  /\ WF_feedbackVars(TaskStep \/ Leave)
  /\ WF_feedbackVars(StallMetricsJob)

FeedbackSpec == FeedbackInit /\ [][FeedbackNext]_feedbackVars /\ FeedbackFairness

----------------------------------------------------------------------------
(* Properties.                                                              *)

\* An item that a submission moved into review is on the agency's feed, unless
\* the caller was told of an error: nobody is left waiting unawares.
\* (submit/route.ts:12-19)
NoSilentReview ==
  task # NotTelling /\ task.by = "submit" /\ task.end = "ok" =>
    task.moved /\ task.stored

\* Whatever reaches a channel is on the feed first, and only a channel or a hook
\* that was wanted at some moment of the telling is used, however settings and
\* hooks are edited meanwhile. (notifications/index.ts:37-46,
\* prisma-stores.ts:650-655)
OnlyWhereWanted ==
  task # NotTelling =>
    /\ task.tried # {} => task.stored
    /\ task.tried \subseteq task.known
    /\ task.called \subseteq task.subscribers

\* Every channel and hook that was chosen is tried, although others fail.
\* (notifications/index.ts:56-72, webhooks/index.ts:114-142)
NoneLeftOut ==
  task # NotTelling /\ task.end = "ok" =>
    task.tried = task.chosen /\ task.called = task.chosenHooks

\* A refresh stores one snapshot, and one more for each time its worker died:
\* telling about it never makes the job run again. (worker.ts:295-325)
SnapshotsPerRefresh == snaps <= 1 + metricsJob.stalls

\* A queued refresh comes to an end. (worker.ts:287-330)
MetricsJobEnds == [](InFlight(metricsJob) => <>~InFlight(metricsJob))

\* An event reaches whoever asked for it, and sets nothing else off.
EventsReachWhoAsked == NoSilentReview /\ OnlyWhereWanted /\ NoneLeftOut /\ SnapshotsPerRefresh

----------------------------------------------------------------------------
(* The inductive invariant behind EventsReachWhoAsked: what a task has done  *)
(* is told by the phases that are left.                                     *)

Telling == task # NotTelling

\* What can be left to do: the phases of a task from some point on.
PhasesLeft ==
  [submit |-> {<<"move", "save", "settings", "channels">>, <<"save", "settings", "channels">>,
               <<"settings", "channels">>, <<"channels">>, <<>>},
   completed |-> {<<"hooks", "post">>, <<"post">>, <<>>},
   failed |-> {<<"save", "settings", "channels", "hooks", "post">>,
               <<"settings", "channels", "hooks", "post">>, <<"channels", "hooks", "post">>,
               <<"hooks", "post">>, <<"post">>, <<>>},
   metrics |-> {<<"refresh">>, <<"hooks", "post">>, <<"post">>,
                <<"hooks", "post", "save", "settings", "channels">>,
                <<"post", "save", "settings", "channels">>,
                <<"save", "settings", "channels">>, <<"settings", "channels">>,
                <<"channels">>, <<>>}]
StartsWith(q, phase) == q # <<>> /\ Head(q) = phase
Includes(q, phase) == \E k \in DOMAIN q : q[k] = phase
At(phase) == StartsWith(task.todo, phase)
Ahead(phase) == Includes(task.todo, phase)

Task == [by : DOMAIN Phases, todo : UNION {PhasesLeft[by] : by \in DOMAIN Phases},
         end : {"running", "ok", "error"}, moved : BOOLEAN, stored : BOOLEAN,
         to : SUBSET Channel, tried : SUBSET Channel, chosen : SUBSET Channel,
         calls : SUBSET Hook, called : SUBSET Hook, chosenHooks : SUBSET Hook,
         known : SUBSET Channel, subscribers : SUBSET Hook]

TasksAreInPhase ==
  Telling =>
    /\ task \in Task
    /\ task.todo \in PhasesLeft[task.by]
    /\ task.end = "ok" => task.todo = <<>>

\* A submission that gets past a phase has done it.
SubmitsAreInOrder ==
  Telling /\ task.by = "submit" =>
    /\ ~At("move") => task.moved
    /\ ~At("move") /\ ~At("save") => task.stored

\* Nobody is chosen before the notification is stored, or who was not wanted;
\* whoever is chosen has been tried or is next.
ChosenAreWanted ==
  Telling =>
    /\ Wanted(settings, Tells[task.by]) \subseteq task.known
    /\ Subscribed(hooks, Fires[task.by]) \subseteq task.subscribers
    /\ task.chosen \subseteq task.known
    /\ task.chosenHooks \subseteq task.subscribers
    /\ At("settings") \/ task.chosen # {} => task.stored
    /\ task.chosen = task.tried \cup task.to
    /\ task.chosenHooks = task.called \cup task.calls
    /\ task.to # {} => At("channels")
    /\ task.calls # {} => At("post")
    /\ Ahead("refresh") \/ Ahead("settings") => task.chosen = {}
    /\ Ahead("refresh") \/ Ahead("hooks") => task.chosenHooks = {}

\* An attempt stores one snapshot, and no attempt is made after one that did.
SnapshotsAreCounted ==
  /\ InFlight(metricsJob) => metricsJob.attempts < MaxAttempts
  /\ metricsJob.state = "waiting" \/ (Refreshing /\ At("refresh")) => snaps <= metricsJob.stalls

FeedbackInv ==
  /\ FeedbackTypeOK /\ TasksAreInPhase /\ SubmitsAreInOrder /\ ChosenAreWanted
  /\ SnapshotsAreCounted /\ EventsReachWhoAsked
=============================================================================
