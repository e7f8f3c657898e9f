---------------------------- MODULE RateLimiter ----------------------------
(***************************************************************************)
(* The sliding window in front of the routes: so many calls for a key in a   *)
(* window of time, remembered in a process's memory.                        *)
(***************************************************************************)
EXTENDS Integers, FiniteSets

CONSTANTS LimitKey,   \* what calls are counted by: an agency, an item, an address
          Limit,      \* calls admitted in a window
          Window,     \* its length
          MaxClock,   \* bound: the clock stops here
          MaxCalls    \* bound: calls for a key

ASSUME LimiterAssumption ==
  /\ Limit \in Nat \ {0}
  /\ Window \in Nat \ {0}
  /\ MaxClock \in Nat
  /\ MaxCalls \in Nat

VARIABLES
  clock,     \* Date.now()
  hits,      \* the admitted calls remembered for each key
  admitted,  \* history: all of them
  told,      \* history: when the last refused call was told to come back
  calls      \* how often each key was used

limiterVars == <<clock, hits, admitted, told, calls>>

Clock == 0 .. MaxClock
NeverTold == -1

\* Calls are numbered as they are pushed, and carry their times.
Hit == [no : 1 .. MaxCalls, at : Clock]

LimiterTypeOK ==
  /\ clock \in Clock
  /\ hits \in [LimitKey -> SUBSET Hit]
  /\ admitted \in [LimitKey -> SUBSET Hit]
  /\ told \in [LimitKey -> {NeverTold} \cup Nat]
  /\ calls \in [LimitKey -> 0 .. MaxCalls]
  /\ \A k \in LimitKey : Cardinality(hits[k]) <= Limit

LimiterInit ==
  /\ clock = 0
  /\ hits = [k \in LimitKey |-> {}]
  /\ admitted = [k \in LimitKey |-> {}]
  /\ told = [k \in LimitKey |-> NeverTold]
  /\ calls = [k \in LimitKey |-> 0]

\* Mutant: a hit is forgotten a moment early.
RecentTooShort(k) == {h \in hits[k] : h.at > clock - Window + 1}

\* Mutant: a hit counts for a moment longer.
RecentInclusive(k) == {h \in hits[k] : h.at >= clock - Window}

\* The hits after windowStart.
Recent(k) == {h \in hits[k] : h.at > clock - Window}

\* Mutant: one more than the limit.
ExhaustedOffByOne(recent) == Cardinality(recent) > Limit

Exhausted(recent) == Cardinality(recent) >= Limit

\* recent[0]
Oldest(recent) == CHOOSE h \in recent : \A g \in recent : h.no <= g.no

\* consume, and enforceLimit's refusal: the key is told when to come back.
Consume(k) ==
  /\ calls[k] < MaxCalls
  /\ calls' = [calls EXCEPT ![k] = @ + 1]
  /\ LET recent == Recent(k)
         hit == [no |-> calls[k] + 1, at |-> clock]
     IN IF Exhausted(recent)
        THEN /\ hits' = [hits EXCEPT ![k] = recent]
             /\ told' = [told EXCEPT ![k] = Oldest(recent).at + Window]
             /\ UNCHANGED admitted
        ELSE /\ hits' = [hits EXCEPT ![k] = recent \cup {hit}]
             /\ admitted' = [admitted EXCEPT ![k] = @ \cup {hit}]
             /\ told' = [told EXCEPT ![k] = NeverTold]
  /\ UNCHANGED clock

ClockTicksOn ==
  /\ clock < MaxClock
  /\ clock' = clock + 1
  /\ UNCHANGED <<hits, admitted, told, calls>>

LimiterNext == ClockTicksOn \/ \E k \in LimitKey : Consume(k)

LimiterSpec == LimiterInit /\ [][LimiterNext]_limiterVars

----------------------------------------------------------------------------
(* Properties.                                                              *)

\* The admitted calls of a window that begins at time t.
InWindow(k, t) == {a \in admitted[k] : t <= a.at /\ a.at < t + Window}

\* Wherever a window is laid over the calls, it holds at most Limit admitted
\* ones. (rate-limiter.ts:30-44)
NoWindowOverrun ==
  \A k \in LimitKey, t \in Clock : Cardinality(InWindow(k, t)) <= Limit

\* Who was refused is admitted after the wait that the refusal named, and not
\* before. (rate-limiter.ts:36-37)
WaitIsExact ==
  [][\A k \in LimitKey :
       calls'[k] > calls[k] /\ told[k] # NeverTold =>
         (admitted'[k] # admitted[k] <=> clock >= told[k])]_limiterVars

\* The limit admits neither too many nor too few.
LimitIsExact == []NoWindowOverrun /\ WaitIsExact

----------------------------------------------------------------------------
(* The inductive invariant behind LimitIsExact.                             *)

\* Later calls have higher numbers.
HitsAreInOrder ==
  \A k \in LimitKey : \A a, b \in admitted[k] :
    a.at <= clock /\ a.no <= calls[k] /\ (a.no <= b.no => a.at <= b.at)

\* Only what has left the window is forgotten.
HitsAreRemembered ==
  \A k \in LimitKey :
    /\ hits[k] \subseteq admitted[k]
    /\ \A a \in admitted[k] : a.at > clock - Window => a \in hits[k]

\* Who was told to come back is to wait for the oldest of as many as are allowed.
RefusalsAreTold ==
  \A k \in LimitKey : told[k] # NeverTold =>
    /\ Cardinality(hits[k]) = Limit
    /\ \E h \in hits[k] : /\ told[k] = h.at + Window
                         /\ \A g \in hits[k] : h.at <= g.at

LimiterInv ==
  /\ LimiterTypeOK
  /\ \A k \in LimitKey : IsFiniteSet(admitted[k])
  /\ HitsAreInOrder
  /\ HitsAreRemembered
  /\ RefusalsAreTold
  /\ NoWindowOverrun
============================================================================
