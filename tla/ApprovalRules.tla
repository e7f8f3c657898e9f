---------------------------- MODULE ApprovalRules ----------------------------
(***************************************************************************)
(* The statuses of a content item and the moves between them: the pure     *)
(* rules of src/lib/approval/state-machine.ts, used by every module that    *)
(* changes a status.                                                        *)
(***************************************************************************)

ItemStatus ==
  {"draft", "in_review", "approved", "scheduled", "published", "failed"}

\* The table of allowed moves, as a set of <<from, to>> pairs.
Transitions ==
  { <<"draft", "in_review">>,
    <<"in_review", "approved">>, <<"in_review", "draft">>,
    <<"approved", "scheduled">>, <<"approved", "draft">>,
    <<"scheduled", "published">>, <<"scheduled", "failed">>,
    <<"scheduled", "approved">>,
    <<"failed", "scheduled">>, <<"failed", "draft">> }

CanTransition(from, to) == <<from, to>> \in Transitions

\* The statuses an item can only have once somebody approved it.
SignedOff == {"approved", "scheduled", "published", "failed"}
==============================================================================
