------------------------------ MODULE MCLoops ------------------------------
(***************************************************************************)
(* Small instances of what the other queues run: sweeps, metrics with the   *)
(* alerts they set off, and the digest. They share no state, so a behaviour *)
(* is one of theirs.                                                        *)
(***************************************************************************)
EXTENDS Sweeps, Feedback, Reports, TLC

CONSTANTS clientA, agencyA, agencyB

\* One agency has one client, the other has the rest.
Owned == [c \in Client |-> IF c = clientA THEN agencyA ELSE agencyB]

VARIABLE part   \* the component that moves

LoopsInit ==
  /\ part \in {"sweeps", "feedback", "reports"}
  /\ SweepsInit /\ FeedbackInit /\ ReportsInit
  \* What does not move starts in one state only.
  /\ part # "sweeps" => kind = "research" /\ niche
  /\ part # "feedback" => ~settings.there /\ hooks = [h \in Hook |-> {}]
  /\ part # "reports" => support = [a \in Agency |-> NoAddress]

LoopsNext ==
  /\ UNCHANGED part
  /\ (part = "sweeps" /\ SweepsNext) \/ UNCHANGED sweepVars
  /\ (part = "feedback" /\ FeedbackNext) \/ UNCHANGED feedbackVars
  /\ (part = "reports" /\ ReportsNext) \/ UNCHANGED reportVars

\* What is fair starts with a request or a heartbeat: where nothing moves the
\* fairness asks for nothing.
LoopsSpec ==
  /\ LoopsInit /\ [][LoopsNext]_<<part, sweepVars, feedbackVars, reportVars>>
  /\ SweepsFairness /\ FeedbackFairness /\ ReportsFairness

\* Types of the tables, the queues and what jobs keep across awaits.
LoopsTypeOK == SweepsTypeOK /\ FeedbackTypeOK /\ ReportsTypeOK

\* Whatever is queued comes to an end: sweeps, refreshes and digests.
\* (worker.ts:167-388)
QueuedJobsEnd == SweepEnds /\ MetricsJobEnds /\ DigestEnds
=============================================================================
