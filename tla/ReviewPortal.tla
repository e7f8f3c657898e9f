---------------------------- MODULE ReviewPortal ----------------------------
(***************************************************************************)
(* The two doors that open without a session: links with which an agency's  *)
(* client reviews its content items, and keys for the public API. Decisions *)
(* and API calls are sequences of statements with awaits between them; the  *)
(* agency meanwhile moves items about and revokes links and keys.           *)
(***************************************************************************)
EXTENDS ApprovalRules, Tenancy, Integers

CONSTANTS Item,
          ClientOf,    \* the client of each item, through its plan
          Link, Key,   \* ids of ReviewShare and ApiKey rows
          Visit,       \* requests through either door running at a time
          MaxRounds,   \* bound: how often an item is submitted
          MaxFaults    \* bound: requests that die

ASSUME PortalAssumption ==
  /\ ClientOf \in [Item -> Client]
  /\ MaxRounds \in Nat
  /\ MaxFaults \in Nat

VARIABLES
  status,    \* ContentItem.status
  reasons,   \* the reviewers' notes on each item, by the round of review
  link, key, \* the ReviewShare and ApiKey tables
  visit,     \* what each request keeps across awaits
  round,     \* history: how often each item has come to review
  decisions, \* history: decisions through the portal in each round
  sentBack,  \* history: items that lie where a reviewer returned them
  faults     \* how many requests have died

portalVars == <<status, reasons, link, key, visit, round, decisions,
                sentBack, faults>>

NotMinted == [state |-> "none"]
LinkRow == [state : {"live", "revoked"}, client : Client]
KeyRow == [state : {"live", "revoked"}, agency : Agency, used : BOOLEAN]

Decision == {"approve", "request_changes"}
IdleVisit == [pc |-> "idle"]
\* noted: the reviewer wrote a comment. row: the key as it was looked up.
Deciding == [pc : {"getItem", "gate", "flip", "comment"}, client : Client,
             item : Item, decision : Decision, noted : BOOLEAN]
Calling == [pc : {"touch"}, key : Key, row : KeyRow]

Rounds == 0 .. MaxRounds

PortalTypeOK ==
  /\ status \in [Item -> ItemStatus]
  /\ reasons \in [Item -> SUBSET Rounds]
  /\ link \in [Link -> {NotMinted} \cup LinkRow]
  /\ key \in [Key -> {NotMinted} \cup KeyRow]
  /\ visit \in [Visit -> {IdleVisit} \cup Deciding \cup Calling]
  /\ round \in [Item -> Rounds]
  /\ decisions \in [Item -> Nat]
  /\ sentBack \subseteq Item
  /\ faults \in 0 .. MaxFaults

PortalInit ==
  /\ status = [i \in Item |-> "draft"]
  /\ reasons = [i \in Item |-> {}]
  /\ link = [l \in Link |-> NotMinted]
  /\ key = [k \in Key |-> NotMinted]
  /\ visit = [v \in Visit |-> IdleVisit]
  /\ round = [i \in Item |-> 0]
  /\ decisions = [i \in Item |-> 0]
  /\ sentBack = {}
  /\ faults = 0

VisitAt(v, pc) == visit[v].pc = pc
GoOn(v, locals) == visit' = [visit EXCEPT ![v] = locals]
Leave(v) == GoOn(v, IdleVisit)

----------------------------------------------------------------------------
(* The agency: links and keys, and everything that moves an item.           *)

\* createShare: only for a client that the agency owns.
CreateLink(a, l, c) ==
  /\ link[l] = NotMinted
  /\ Owns(a, c)
  /\ link' = [link EXCEPT ![l] = [state |-> "live", client |-> c]]
  /\ UNCHANGED <<status, reasons, key, visit, round, decisions, sentBack, faults>>

RevokeLink(a, l) ==
  /\ link[l].state = "live"
  /\ Owns(a, link[l].client)
  /\ link' = [link EXCEPT ![l].state = "revoked"]
  /\ UNCHANGED <<status, reasons, key, visit, round, decisions, sentBack, faults>>

MintKey(a, k) ==
  /\ key[k] = NotMinted
  /\ key' = [key EXCEPT ![k] = [state |-> "live", agency |-> a, used |-> FALSE]]
  /\ UNCHANGED <<status, reasons, link, visit, round, decisions, sentBack, faults>>

RevokeKey(a, k) ==
  /\ key[k].state = "live"
  /\ key[k].agency = a
  /\ key' = [key EXCEPT ![k].state = "revoked"]
  /\ UNCHANGED <<status, reasons, link, visit, round, decisions, sentBack, faults>>

\* Every other move, see modules Approval and Publishing; a submission starts a
\* round of review.
AgencyMoves(i, to) ==
  /\ CanTransition(status[i], to)
  /\ to = "in_review" => round[i] < MaxRounds
  /\ status' = [status EXCEPT ![i] = to]
  /\ IF to = "in_review"
     THEN round' = [round EXCEPT ![i] = @ + 1] /\ decisions' = [decisions EXCEPT ![i] = 0]
     ELSE UNCHANGED <<round, decisions>>
  /\ sentBack' = sentBack \ {i}
  /\ UNCHANGED <<reasons, link, key, visit, faults>>

----------------------------------------------------------------------------
(* A reviewer's decision.                                                   *)

\* Mutant: the client is taken from the item that the reviewer names.
ResolveByItem(v, l, i, d, noted) ==
  /\ visit[v] = IdleVisit
  /\ link[l].state = "live"
  /\ GoOn(v, [pc |-> "getItem", client |-> ClientOf[i], item |-> i,
              decision |-> d, noted |-> noted])
  /\ UNCHANGED <<status, reasons, link, key, round, decisions, sentBack, faults>>

\* resolveShare: a live link, and what the reviewer posts with it.
Resolve(v, l, i, d, noted) ==
  /\ visit[v] = IdleVisit
  /\ link[l].state = "live"
  /\ GoOn(v, [pc |-> "getItem", client |-> link[l].client, item |-> i,
              decision |-> d, noted |-> noted])
  /\ UNCHANGED <<status, reasons, link, key, round, decisions, sentBack, faults>>

\* getItem(clientId, itemId), and awaiting review.
AwaitsReview(c, i) == ClientOf[i] = c /\ status[i] = "in_review"

\* Mutant: the note is asked for when approving.
HasReasonSwapped(d, noted) == d = "approve" => noted

\* Changes are not requested without a note.
HasReason(d, noted) == d = "request_changes" => noted

GetItem(v) ==
  /\ VisitAt(v, "getItem")
  /\ LET d == visit[v]
     IN IF AwaitsReview(d.client, d.item) /\ HasReason(d.decision, d.noted)
        THEN GoOn(v, [d EXCEPT !.pc = IF d.decision = "approve" THEN "gate" ELSE "flip"])
        ELSE Leave(v)
  /\ UNCHANGED <<status, reasons, link, key, round, decisions, sentBack, faults>>

\* assertApprovable: module Approval has the gate; here it may say either.
Gate(v) ==
  /\ VisitAt(v, "gate")
  /\ GoOn(v, [visit[v] EXCEPT !.pc = "flip"]) \/ Leave(v)
  /\ UNCHANGED <<status, reasons, link, key, round, decisions, sentBack, faults>>

\* Mutant: UPDATE ... WHERE id, without the status.
StillAwaitsAnyhow(c, i) == ClientOf[i] = c

\* UPDATE ... WHERE status = in_review
StillAwaits(c, i) == ClientOf[i] = c /\ status[i] = "in_review"

\* Mutant: the decision's own name is written.
OutcomeAsSaid(d) == d.decision

Outcome(d) == IF d.decision = "approve" THEN "approved" ELSE "draft"

Decide(v) ==
  /\ VisitAt(v, "flip")
  /\ LET d == visit[v]
         i == d.item
     IN \/ /\ ~StillAwaits(d.client, i)
           /\ Leave(v)
           /\ UNCHANGED <<status, decisions, sentBack>>
        \/ /\ StillAwaits(d.client, i)
           /\ status' = [status EXCEPT ![i] = Outcome(d)]
           /\ decisions' = [decisions EXCEPT ![i] = @ + 1]
           /\ sentBack' = IF Outcome(d) = "draft" THEN sentBack \cup {i} ELSE sentBack
           /\ IF d.noted THEN GoOn(v, [d EXCEPT !.pc = "comment"]) ELSE Leave(v)
  /\ UNCHANGED <<reasons, link, key, round, faults>>

\* addComment
AddComment(v) ==
  /\ VisitAt(v, "comment")
  /\ LET i == visit[v].item
     IN reasons' = IF ClientOf[i] = visit[v].client
                   THEN [reasons EXCEPT ![i] = @ \cup {round[i]}] ELSE reasons
  /\ Leave(v)
  /\ UNCHANGED <<status, link, key, round, decisions, sentBack, faults>>

----------------------------------------------------------------------------
(* A call of the public API.                                                *)

\* authenticate: a live key with this hash.
FindKey(v, k) ==
  /\ visit[v] = IdleVisit
  /\ key[k].state = "live"
  /\ GoOn(v, [pc |-> "touch", key |-> k, row |-> key[k]])
  /\ UNCHANGED <<status, reasons, link, key, round, decisions, sentBack, faults>>

\* Mutant: the row that was looked up is written back.
TouchRow(v) ==
  /\ VisitAt(v, "touch")
  /\ key' = [key EXCEPT ![visit[v].key] = [visit[v].row EXCEPT !.used = TRUE]]
  /\ Leave(v)
  /\ UNCHANGED <<status, reasons, link, round, decisions, sentBack, faults>>

\* touch sets lastUsedAt, of a key that may have been revoked since. What the
\* call then does with its agency's data belongs to the other modules.
Touch(v) ==
  /\ VisitAt(v, "touch")
  /\ key' = [key EXCEPT ![visit[v].key].used = TRUE]
  /\ Leave(v)
  /\ UNCHANGED <<status, reasons, link, round, decisions, sentBack, faults>>

----------------------------------------------------------------------------

\* A request dies at an await, or a statement of it fails.
VisitDies(v) ==
  /\ visit[v] # IdleVisit
  /\ faults < MaxFaults
  /\ faults' = faults + 1
  /\ Leave(v)
  /\ UNCHANGED <<status, reasons, link, key, round, decisions, sentBack>>

VisitStep(v) ==
  \/ \E l \in Link, i \in Item, d \in Decision, noted \in BOOLEAN :
       Resolve(v, l, i, d, noted)
  \/ GetItem(v)
  \/ Gate(v)
  \/ Decide(v)
  \/ AddComment(v)
  \/ \E k \in Key : FindKey(v, k)
  \/ Touch(v)
  \/ VisitDies(v)

PortalNext ==
  \/ \E v \in Visit : VisitStep(v)
  \/ \E a \in Agency, l \in Link : RevokeLink(a, l) \/ \E c \in Client : CreateLink(a, l, c)
  \/ \E a \in Agency, k \in Key : MintKey(a, k) \/ RevokeKey(a, k)
  \/ \E i \in Item, to \in ItemStatus : AgencyMoves(i, to)

PortalSpec == PortalInit /\ [][PortalNext]_portalVars

----------------------------------------------------------------------------
(* Properties.                                                              *)

\* However many reviewers answer through however many links, each round of
\* review takes one decision at most; and an item that was sent back carries the
\* note of that round, unless a request died: the note is stored after the move.
\* (review/index.ts:106-123)
OneReasonedDecision ==
  /\ \A i \in Item : decisions[i] <= 1
  /\ faults = 0 =>
       \A i \in sentBack :
         \/ round[i] \in reasons[i]
         \/ \E v \in Visit : VisitAt(v, "comment") /\ visit[v].item = i

\* A link reaches the items of its client only, from its look-up to the note; and
\* a link or a key that was revoked stays so, whatever call was under way.
\* (prisma-stores.ts:877-912, 612-622)
LinksKeepTheirTerms ==
  [][/\ \A i \in Item :
          decisions'[i] > decisions[i] \/ reasons'[i] # reasons[i] =>
            \E l \in Link : link[l] # NotMinted /\ link[l].client = ClientOf[i]
     /\ \A l \in Link : link[l].state = "revoked" => link'[l] = link[l]
     /\ \A k \in Key : key[k].state = "revoked" => key'[k].state = "revoked"]_portalVars

----------------------------------------------------------------------------
(* The inductive invariant behind these properties: a reviewer's request    *)
(* keeps what its checks found, up to the note, and the item it may still   *)
(* decide on has not been decided.                                          *)

Opened(c) == \E l \in Link : link[l] # NotMinted /\ link[l].client = c

Admitted(x) ==
  /\ x.pc \in {"getItem", "gate", "flip", "comment"} => Opened(x.client)
  /\ x.pc \in {"gate", "flip"} => HasReason(x.decision, x.noted)
  /\ x.pc = "comment" => ClientOf[x.item] = x.client
  /\ x.pc = "touch" => key[x.key] # NotMinted

VisitsWereAdmitted == \A v \in Visit : Admitted(visit[v])

ReviewsAreUndecided == \A i \in Item : status[i] = "in_review" => decisions[i] = 0

PortalInv ==
  /\ PortalTypeOK
  /\ VisitsWereAdmitted
  /\ ReviewsAreUndecided
  /\ OneReasonedDecision
==============================================================================
