---------------------------- MODULE MCPublishing ----------------------------
(***************************************************************************)
(* Small instances of Publishing for TLC.                                   *)
(***************************************************************************)
EXTENDS PublishingInvariant, TLC

CONSTANTS i1, i2, a1, a2, clientA, clientB

\* Both accounts belong to the client of the items.
OneClient == [x \in {i1, i2, a1, a2} |-> clientA]

\* a2 is an account of another client.
TwoClients == [x \in {i1, i2, a1, a2} |-> IF x = a2 THEN clientB ELSE clientA]

\* The account the scheduler would publish to.
ToA1 == [i \in Item |-> a1]
ToA2 == [i \in Item |-> a2]

\* i1 is due first; in the instances that do not look at time, at once.
Early == [i \in Item |-> 0]
OneByOne == [i \in Item |-> IF i = i1 THEN 0 ELSE 1]

\* An agency without compliance rules: module Approval looks at those.
NoRules == {{}}

Interchangeable ==
  Permutations(Row) \cup Permutations(Worker) \cup Permutations(Tick)
    \cup Permutations(Request) \cup Permutations(Caption)
==============================================================================
