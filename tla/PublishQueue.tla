---------------------------- MODULE PublishQueue ----------------------------
(***************************************************************************)
(* One BullMQ job with a job id of its own, as far as this program relies   *)
(* on BullMQ. A post is a job of the queue "publish", whose id is made of    *)
(* the item and the account; sweeps, metrics refreshes, digests and videos   *)
(* are jobs of queues of their own, with ids made alike. There is at most    *)
(* one job per id: adding a job whose id is still known to its queue, in     *)
(* whatever state, changes nothing.                                          *)
(***************************************************************************)
EXTENDS Naturals

CONSTANTS MaxAttempts,  \* the "attempts" option of the job
          MaxStalls     \* BullMQ's maxStalledCount: recoveries of a lost job

ASSUME AttemptsAssumption == MaxAttempts \in Nat \ {0}
ASSUME StallsAssumption == MaxStalls \in Nat

\* "waiting" stands for the wait list and for the backoff delay before a retry.
JobState == {"absent", "waiting", "active", "completed", "failed"}

Job == [state : JobState, attempts : 0 .. MaxAttempts, stalls : 0 .. MaxStalls]

NoJob    == [state |-> "absent",  attempts |-> 0, stalls |-> 0]
FreshJob == [state |-> "waiting", attempts |-> 0, stalls |-> 0]

InFlight(j) == j.state \in {"waiting", "active"}

\* Mutant: a finished job does not keep its id.
AddedAgain(j) == IF InFlight(j) THEN j ELSE FreshJob

\* queue.add: a known id is left alone, a retained finished job included.
Added(j) == IF j.state = "absent" THEN FreshJob ELSE j

Taken(j) == [j EXCEPT !.state = "active"]

Completed(j) == [j EXCEPT !.state = "completed"]

\* Mutant: compared without counting the running attempt.
LastAttemptOffByOne(j) == j.attempts >= MaxAttempts

\* The attempt that is running now is the last one the queue will give.
LastAttempt(j) == j.attempts + 1 >= MaxAttempts

\* The processor threw. An UnrecoverableError ends the job at once.
Thrown(j, unrecoverable) ==
  [j EXCEPT !.attempts = @ + 1,
            !.state = IF unrecoverable \/ LastAttempt(j) THEN "failed" ELSE "waiting"]

\* Mutant: no stalled checker runs.
StalledForEver(j) == j

\* The worker that held the job is gone: its lock expires.
Stalled(j) ==
  IF j.stalls < MaxStalls
  THEN [j EXCEPT !.state = "waiting", !.stalls = @ + 1]
  ELSE [j EXCEPT !.state = "failed"]
==============================================================================
