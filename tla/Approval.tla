------------------------------ MODULE Approval ------------------------------
(***************************************************************************)
(* The approval workflow: dashboard requests (submit, approve, reject, and  *)
(* the status flip of publish) and reviewer-portal decisions, each an async *)
(* handler that reads the item, for an approval runs the compliance gate,   *)
(* and then flips the status with a conditional update. Between any two of  *)
(* those steps other requests run, the copy engine saves a new caption, or  *)
(* the agency edits its compliance rules.                                   *)
(***************************************************************************)
EXTENDS ApprovalRules

CONSTANTS Item,     \* content items
          Caption,  \* captions the copy engine can produce
          NoCopy,   \* an item without generated copy
          Config,   \* compliance configs: the captions each one blocks
          Request   \* HTTP requests being served at the same time

ASSUME NoCopyAssumption == NoCopy \notin Caption
ASSUME ConfigAssumption == Config \subseteq SUBSET Caption

VARIABLES
  status,    \* ContentItem.status
  copy,      \* the caption in ContentItem.copy
  blocked,   \* captions the agency's current compliance config blocks
  req,       \* the handler each request slot is executing
  signed     \* history: the captions an item had when it was approved

itemVars == <<status, copy, blocked>>
approvalVars == <<status, copy, blocked, req, signed>>

Copy == Caption \cup {NoCopy}

\* The statuses ApprovalService has a method for: submit, approve, reject,
\* schedule.
Requestable == {"in_review", "approved", "draft", "scheduled"}

\* What a handler keeps in its local variables across awaits.
IdleRequest == [pc |-> "idle"]
Handler == [pc : {"loadCopy", "evaluate", "flip", "after"},
            via : {"dashboard", "portal"}, item : Item,
            from : ItemStatus, to : Requestable, caption : Copy]

ApprovalTypeOK ==
  /\ status \in [Item -> ItemStatus]
  /\ copy \in [Item -> Copy]
  /\ blocked \subseteq Caption
  /\ req \in [Request -> {IdleRequest} \cup Handler]
  /\ signed \in [Item -> SUBSET Copy]

ApprovalInit ==
  /\ status = [i \in Item |-> "draft"]
  /\ copy = [i \in Item |-> NoCopy]
  /\ blocked \in Config
  /\ req = [r \in Request |-> IdleRequest]
  /\ signed = [i \in Item |-> {}]

----------------------------------------------------------------------------
(* Steps of a request.                                                      *)

Serving(r) == req[r] # IdleRequest

At(r, pc) == req[r].pc = pc

Handling(via, i, to, pc) ==
  [pc |-> pc, via |-> via, item |-> i, from |-> status[i], to |-> to,
   caption |-> NoCopy]

\* store.get and assertTransition. An illegal move is a ConflictError here.
ReadItem(r, i, to) ==
  /\ ~Serving(r)
  /\ CanTransition(status[i], to)
  /\ req' = [req EXCEPT ![r] =
       Handling("dashboard", i, to, IF to = "approved" THEN "loadCopy" ELSE "flip")]
  /\ UNCHANGED <<itemVars, signed>>

\* Mutant: the portal relies on the move being in the table, as the dashboard.
ReadForReviewOfAnything(r, i, to) ==
  /\ ~Serving(r)
  /\ CanTransition(status[i], to)
  /\ req' = [req EXCEPT ![r] =
       Handling("portal", i, to, IF to = "approved" THEN "loadCopy" ELSE "flip")]
  /\ UNCHANGED <<itemVars, signed>>

\* decide: a reviewer holding a link approves or requests changes. Only an
\* item awaiting review is accepted.
ReadForReview(r, i, to) ==
  /\ ~Serving(r)
  /\ status[i] = "in_review"
  /\ req' = [req EXCEPT ![r] =
       Handling("portal", i, to, IF to = "approved" THEN "loadCopy" ELSE "flip")]
  /\ UNCHANGED <<itemVars, signed>>

\* evaluateItem, first await: the gate loads the item's copy.
GateLoadsCopy(r) ==
  /\ At(r, "loadCopy")
  /\ req' = [req EXCEPT ![r].pc = "evaluate", ![r].caption = copy[req[r].item]]
  /\ UNCHANGED <<itemVars, signed>>

\* evaluateItem, second await: the config, then the verdict. An item without
\* copy passes; a blocking violation is a ValidationError.
GateEvaluates(r) ==
  /\ At(r, "evaluate")
  /\ req' = [req EXCEPT ![r] =
       IF @.caption \in blocked THEN IdleRequest ELSE [@ EXCEPT !.pc = "flip"]]
  /\ UNCHANGED <<itemVars, signed>>

\* Mutant: UPDATE ... WHERE id, without the status.
FlipWithoutWhere(r) ==
  /\ At(r, "flip")
  /\ status' = [status EXCEPT ![req[r].item] = req[r].to]
  /\ req' = [req EXCEPT ![r].pc = "after"]
  /\ UNCHANGED <<copy, blocked, signed>>

\* store.transition: UPDATE ... WHERE status = from. No row: ConflictError.
Flip(r) ==
  /\ At(r, "flip")
  /\ LET i == req[r].item
         to == req[r].to
     IN IF status[i] = req[r].from
        THEN /\ status' = [status EXCEPT ![i] = to]
             /\ req' = [req EXCEPT ![r].pc = "after"]
             /\ signed' = IF to = "approved"
                          THEN [signed EXCEPT ![i] = @ \cup {copy[i]}]
                          ELSE signed
        ELSE /\ req' = [req EXCEPT ![r] = IdleRequest]
             /\ UNCHANGED <<status, signed>>
  /\ UNCHANGED <<copy, blocked>>

\* What follows a successful flip, except for publish: the notification of
\* submit, the reviewer's comment, the response. None touches the item.
Respond(r) ==
  /\ At(r, "after")
  /\ req[r].to # "scheduled"
  /\ req' = [req EXCEPT ![r] = IdleRequest]
  /\ UNCHANGED <<itemVars, signed>>

\* The handler throws or its process dies at any await.
RequestDies(r) ==
  /\ Serving(r)
  /\ req' = [req EXCEPT ![r] = IdleRequest]
  /\ UNCHANGED <<itemVars, signed>>

----------------------------------------------------------------------------
(* The other writers of what the gate reads.                                *)

\* The copy engine's save. It is not conditional on the item's status.
SaveCopy(i, c) ==
  /\ copy[i] # c
  /\ copy' = [copy EXCEPT ![i] = c]
  /\ UNCHANGED <<status, blocked, req, signed>>

\* An admin changes the compliance config: which captions it blocks.
UpdateRules(b) ==
  /\ blocked' = b
  /\ UNCHANGED <<status, copy, req, signed>>

RequestStep(r) ==
  \/ GateLoadsCopy(r)
  \/ GateEvaluates(r)
  \/ Flip(r)
  \/ Respond(r)

ApprovalStep ==
  \/ \E r \in Request, i \in Item, to \in Requestable : ReadItem(r, i, to)
  \/ \E r \in Request, i \in Item, to \in {"approved", "draft"} :
       ReadForReview(r, i, to)
  \/ \E r \in Request : RequestStep(r)
  \/ \E i \in Item, c \in Caption : SaveCopy(i, c)
  \/ \E b \in Config : UpdateRules(b)

----------------------------------------------------------------------------
(* The workflow on its own: module Publishing composes it with the          *)
(* scheduler, the queue and the worker; here their conditional updates of   *)
(* the status are single steps.                                             *)

\* Mutant: the status of the PublishJob is written to the item.
ElsewhereWritesJobStatus(i, from, to) ==
  /\ <<from, to>> = <<"approved", "scheduled">>
  /\ status[i] = from
  /\ status' = [status EXCEPT ![i] = "posting"]
  /\ UNCHANGED <<copy, blocked, req, signed>>

Elsewhere(i, from, to) ==
  /\ <<from, to>> \in { <<"approved", "scheduled">>,
                        <<"scheduled", "published">>,
                        <<"scheduled", "failed">> }
  /\ status[i] = from
  /\ status' = [status EXCEPT ![i] = to]
  /\ UNCHANGED <<copy, blocked, req, signed>>

ApprovalNext ==
  \/ ApprovalStep
  \/ \E r \in Request : RequestDies(r)
  \/ \E i \in Item, from, to \in ItemStatus : Elsewhere(i, from, to)

ApprovalSpec == ApprovalInit /\ [][ApprovalNext]_approvalVars

----------------------------------------------------------------------------
(* Properties.                                                              *)

Flips(r) == At(r, "flip") /\ req'[r] # IdleRequest /\ req'[r].pc = "after"

\* Whatever the handlers read before they awaited, and however long ago, the
\* status only moves along the table: nobody's decision is applied to an item
\* that has moved on. And the holder of a review link never moves an item that is
\* not in review at that moment, in particular not one that is scheduled by then.
\* (approval/index.ts:49, review/index.ts:94-118)
StatusFollowsRules ==
  [][/\ \A i \in Item : status'[i] # status[i] => CanTransition(status[i], status'[i])
     /\ \A r \in Request : Flips(r) /\ req[r].via = "portal" =>
          status[req[r].item] = "in_review"]_approvalVars

----------------------------------------------------------------------------
(* The inductive invariant behind StatusFollowsRules.                       *)

\* A handler carries a move that the table allows from the status it has read; a
\* reviewer's moves out of review only.
HandlersMoveLegally ==
  \A r \in Request : Serving(r) =>
    /\ CanTransition(req[r].from, req[r].to)
    /\ req[r].via = "portal" => req[r].from = "in_review"

ApprovalInv == ApprovalTypeOK /\ HandlersMoveLegally
==============================================================================
