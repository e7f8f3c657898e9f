------------------------- MODULE PublishingInvariant -------------------------
(***************************************************************************)
(* The inductive invariant behind the safety properties of Publishing. Each *)
(* conjunct says what a process may rely on after an await.                 *)
(***************************************************************************)
EXTENDS Publishing

\* A job that can still run has attempts left.
JobsHaveAttempts ==
  \A k \in Key : InFlight(job[k]) => job[k].attempts < MaxAttempts

\* The lock: a worker that has not lost it runs an active job, alone.
HoldersAreActive ==
  \A w \in Worker : Busy(w) /\ ~worker[w].lost => job[KeyOf(w)].state = "active"

HoldersAreAlone ==
  \A w1, w2 \in Worker :
    /\ Busy(w1) /\ ~worker[w1].lost
    /\ Busy(w2) /\ ~worker[w2].lost
    /\ KeyOf(w1) = KeyOf(w2)
    => w1 = w2

\* From CreateRow to the end of the catch block a run has a row of its key.
RunsHaveRows ==
  \A w \in Worker :
    worker[w].pc \in {"post", "markPublished", "flipPublished", "markFailed"} =>
      /\ worker[w].row \in Row
      /\ row[worker[w].row] # UnusedRow
      /\ row[worker[w].row].key = KeyOf(w)

\* The locks and the attempts of the queue.
QueueInv == JobsHaveAttempts /\ HoldersAreActive /\ HoldersAreAlone

TypeInv == TypeOK /\ QueueInv /\ RunsHaveRows

\* An item only has a status past approval if somebody approved it.
SignedOffIsSigned ==
  \A i \in Item : status[i] \in SignedOff => signed[i] # {}

\* The status a worker has read stays good for the gate, and a worker past the
\* gate posts something, for the right client, that somebody approved.
GateIsPassed ==
  \A w \in Worker :
    /\ Doing(w, "createRow") /\ worker[w].seen = "scheduled" =>
         signed[ItemAt(w)] # {}
    /\ Doing(w, "post") =>
         /\ SameClient(KeyOf(w))
         /\ worker[w].caption # NoCopy
         /\ signed[ItemAt(w)] # {}

\* Only a row in use has a post, and it is one the gate let through.
PostsAreGated ==
  \A r \in Row : Posted(r) =>
    /\ row[r] # UnusedRow
    /\ SameClient(row[r].key)
    /\ signed[ItemOf(row[r].key)] # {}

\* A run that is about to report success has something to show for it.
SuccessIsLive ==
  \A w \in Worker :
    /\ worker[w].pc \in {"markPublished", "flipPublished"} => Posted(worker[w].row)
    /\ Doing(w, "complete") => PostsOf(ItemAt(w)) # {}

GateInv ==
  /\ HandlersMoveLegally
  /\ SignedOffIsSigned
  /\ GateIsPassed
  /\ PostsAreGated

LiveInv ==
  /\ SuccessIsLive
  /\ PublishedIsLive
  /\ AnnouncedIsLive

IInv == TypeInv /\ GateInv /\ LiveInv

(***************************************************************************)
(* What is true until the first fault: a run owns the row it has made, and   *)
(* the row says how far the run has come.                                    *)
(***************************************************************************)

RunsOwnRows ==
  \A w \in Worker : Busy(w) /\ worker[w].row # NoRow =>
    /\ row[worker[w].row] # UnusedRow
    /\ row[worker[w].row].key = KeyOf(w)
    /\ \A v \in Worker : Busy(v) /\ worker[v].row = worker[w].row => v = w

RowsMatchRuns ==
  \A w \in Worker : Busy(w) =>
    /\ ~worker[w].lost
    /\ worker[w].pc \in {"preflight", "createRow"} => worker[w].row = NoRow
    /\ worker[w].pc \in {"post", "markPublished", "markFailed"} =>
         row[worker[w].row].state = "posting"
    /\ worker[w].pc \in {"post", "markFailed"} => ~Posted(worker[w].row)
    /\ worker[w].pc \in {"flipPublished", "flipFailed", "complete", "throw"} =>
         worker[w].row = NoRow \/ row[worker[w].row].state # "posting"

\* The run behind a post is about to complete its job, or has done so.
PostsAreSettled ==
  ~MayEvict => \A r \in Row : Posted(r) =>
    \/ job[row[r].key].state = "completed"
    \/ \E w \in Worker :
         /\ worker[w].pc \in {"markPublished", "flipPublished", "complete"}
         /\ worker[w].row = r

RowsInv ==
  /\ faults = 0 => RunsOwnRows /\ RowsMatchRuns /\ PostsAreSettled
  /\ RowsTellTheTruth
  /\ PostedOncePerAccount

(***************************************************************************)
(* How often a job can run, and post, as long as it is retained. Both are    *)
(* counted in tokens: one for each post or row, one for each run that may    *)
(* still come to it.                                                         *)
(***************************************************************************)

\* The rows a job has used, and its runs that have not made their row yet.
RowsFor(k) == {r \in Row : row[r] # UnusedRow /\ row[r].key = k}
OpenRuns(k) ==
  {w \in Worker : /\ Busy(w) /\ KeyOf(w) = k
                  /\ worker[w].pc \in {"preflight", "createRow"}}

BegunRuns(k) ==
  {<<"row", r>> : r \in RowsFor(k)} \cup {<<"run", w>> : w \in OpenRuns(k)}

\* Every run but the one that goes on has used up an attempt or a stall.
MostRuns(j) ==
  CASE j.state = "absent"  -> 0
    [] j.state = "waiting" -> j.attempts + j.stalls
    [] j.state = "active"  -> j.attempts + j.stalls + 1
    [] OTHER               -> MaxAttempts + MaxStalls

RunsAreBounded ==
  ~MayEvict => \A k \in Key :
    IsFiniteSet(BegunRuns(k)) /\ Cardinality(BegunRuns(k)) <= MostRuns(job[k])

\* The runs that go on to post without the lock, and those that have posted.
LostRuns(k) ==
  {w \in Worker : /\ Busy(w) /\ KeyOf(w) = k /\ worker[w].lost
                  /\ worker[w].pc \in {"preflight", "createRow", "post"}}

SpentRuns(k) ==
  {<<"post", r>> : r \in PostsAt(k)} \cup {<<"lost", w>> : w \in LostRuns(k)}

\* The run with the lock has posted, or the job is completed.
HasPosted(k) ==
  \/ job[k].state = "completed"
  \/ \E w \in Worker :
       Holds(w, k) /\ worker[w].pc \in {"markPublished", "flipPublished", "complete"}

\* Each of them has had its fault, but for one that made the job complete.
RepeatsArePaid ==
  ~MayEvict => \A k \in Key :
    /\ IsFiniteSet(SpentRuns(k))
    /\ Cardinality(SpentRuns(k)) <= faults + (IF HasPosted(k) THEN 1 ELSE 0)

CountInv == OneVerdictPerJob /\ RunsAreBounded /\ RepeatsArePaid
==============================================================================
