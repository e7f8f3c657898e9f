------------------------------ MODULE HumanGate ------------------------------
(***************************************************************************)
(* What the approval and publishing subsystem promises, without a word     *)
(* about requests, queues or workers: an item's status moves along the      *)
(* table, a post goes out only for an item a person has approved, and an    *)
(* item is called published only when one of its posts is on the platform.  *)
(***************************************************************************)
EXTENDS ApprovalRules

CONSTANTS Item,   \* content items
          Post    \* identities of posts on the platforms

VARIABLES stage,     \* the status of each item
          approved,  \* the items some person approved at least once
          posts      \* the posts that went live, as <<post, item>> pairs

gateVars == <<stage, approved, posts>>

Init ==
  /\ stage = [i \in Item |-> "draft"]
  /\ approved = {}
  /\ posts = {}

\* An item changes status. Approving it is recorded; calling it published
\* needs a post of it.
Move(i, s) ==
  /\ CanTransition(stage[i], s)
  /\ s = "published" => \E p \in Post : <<p, i>> \in posts
  /\ stage' = [stage EXCEPT ![i] = s]
  /\ approved' = IF s = "approved" THEN approved \cup {i} ELSE approved
  /\ UNCHANGED posts

\* A post of an approved item goes live.
GoLive(p, i) ==
  /\ i \in approved
  /\ posts' = posts \cup {<<p, i>>}
  /\ UNCHANGED <<stage, approved>>

Next ==
  \/ \E i \in Item, s \in ItemStatus : Move(i, s)
  \/ \E p \in Post, i \in Item : GoLive(p, i)

Spec == Init /\ [][Next]_gateVars
==============================================================================
