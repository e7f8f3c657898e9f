----------------------------- MODULE PortalProofs -----------------------------
(***************************************************************************)
(* What holds of the review portal and the public API for any number of     *)
(* items, links, keys, reviewers and rounds of review.                      *)
(***************************************************************************)
EXTENDS ReviewPortal, TLAPS

\* A visit is where its locals say it is.
LEMMA VisitLocals ==
  ASSUME PortalTypeOK, NEW v \in Visit
  PROVE  /\ visit[v].pc \in {"getItem", "gate", "flip", "comment"} => visit[v] \in Deciding
         /\ visit[v].pc = "touch" => visit[v] \in Calling
         /\ visit[v] # IdleVisit => visit[v] \in Deciding \cup Calling
  BY DEF PortalTypeOK, Deciding, Calling, IdleVisit

LEMMA PortalInvInit ==
  ASSUME PortalInit
  PROVE  PortalInv
<1> USE DEF PortalInit
<1>1. PortalTypeOK
  BY PortalAssumption DEF PortalTypeOK, ItemStatus, Rounds
<1> QED
  BY <1>1 DEF PortalInv, VisitsWereAdmitted, Admitted, IdleVisit, ReviewsAreUndecided,
     OneReasonedDecision

LEMMA PortalTypes ==
  ASSUME PortalInv, PortalNext
  PROVE  PortalTypeOK'
<1> USE DEF PortalInv, PortalTypeOK
<1> DEFINE Visiting == {IdleVisit} \cup Deciding \cup Calling
<1>0. ASSUME NEW v \in Visit, NEW x \in Visiting, GoOn(v, x)
      PROVE  visit' \in [Visit -> Visiting]
  BY <1>0 DEF GoOn
<1>1. ASSUME NEW v \in Visit, NEW l \in Link, NEW i \in Item, NEW d \in Decision,
             NEW noted \in BOOLEAN, Resolve(v, l, i, d, noted)
      PROVE  PortalTypeOK'
  <2>1. [pc |-> "getItem", client |-> link[l].client, item |-> i, decision |-> d,
         noted |-> noted] \in Deciding
    BY <1>1 DEF Resolve, Deciding, LinkRow, NotMinted
  <2> QED
    BY <1>0, <1>1, <2>1 DEF Resolve
<1>2. ASSUME NEW v \in Visit, visit[v] \in Deciding, NEW p \in {"gate", "flip", "comment"}
      PROVE  [visit[v] EXCEPT !.pc = p] \in Deciding
  BY <1>2 DEF Deciding
<1>3. ASSUME NEW v \in Visit, GetItem(v)
      PROVE  PortalTypeOK'
  <2>1. visit[v] \in Deciding
    BY <1>3, VisitLocals DEF GetItem, VisitAt
  <2>2. visit' \in [Visit -> Visiting]
    BY <1>0, <1>2, <1>3, <2>1 DEF GetItem, Leave
  <2> QED
    BY <1>3, <2>2 DEF GetItem
<1>4. ASSUME NEW v \in Visit, Gate(v)
      PROVE  PortalTypeOK'
  <2>1. visit[v] \in Deciding
    BY <1>4, VisitLocals DEF Gate, VisitAt
  <2>2. visit' \in [Visit -> Visiting]
    BY <1>0, <1>2, <1>4, <2>1 DEF Gate, Leave
  <2> QED
    BY <1>4, <2>2 DEF Gate
<1>5. ASSUME NEW v \in Visit, Decide(v)
      PROVE  PortalTypeOK'
  <2>1. visit[v] \in Deciding
    BY <1>5, VisitLocals DEF Decide, VisitAt
  <2>2. visit' \in [Visit -> Visiting]
    BY <1>0, <1>2, <1>5, <2>1 DEF Decide, Leave
  <2>3. visit[v].item \in Item /\ Outcome(visit[v]) \in ItemStatus
    BY <2>1 DEF Deciding, Outcome, ItemStatus
  <2>4. status' \in [Item -> ItemStatus] /\ decisions' \in [Item -> Nat] /\ sentBack' \subseteq Item
    BY <1>5, <2>3 DEF Decide
  <2> QED
    BY <1>5, <2>2, <2>4 DEF Decide
<1>6. ASSUME NEW v \in Visit, AddComment(v)
      PROVE  PortalTypeOK'
  <2>1. visit[v].item \in Item
    BY <1>6, VisitLocals DEF AddComment, VisitAt, Deciding
  <2>2. reasons' \in [Item -> SUBSET Rounds]
    BY <1>6, <2>1 DEF AddComment
  <2> QED
    BY <1>0, <1>6, <2>2 DEF AddComment, Leave
<1>7. ASSUME NEW v \in Visit, NEW k \in Key, FindKey(v, k)
      PROVE  PortalTypeOK'
  <2>1. [pc |-> "touch", key |-> k, row |-> key[k]] \in Calling
    BY <1>7 DEF FindKey, Calling, NotMinted
  <2> QED
    BY <1>0, <1>7, <2>1 DEF FindKey
<1>8. ASSUME NEW v \in Visit, Touch(v)
      PROVE  PortalTypeOK'
  <2>1. key' \in [Key -> {NotMinted} \cup KeyRow]
    <3>1. visit[v].key \in Key /\ key[visit[v].key] # NotMinted
      BY <1>8, VisitLocals DEF Touch, VisitAt, Calling, VisitsWereAdmitted, Admitted
    <3>2. [key[visit[v].key] EXCEPT !.used = TRUE] \in KeyRow
      <4>1. key[visit[v].key] \in KeyRow
        BY <3>1
      <4>2. \A x \in KeyRow : [x EXCEPT !.used = TRUE] \in KeyRow
        BY DEF KeyRow
      <4> QED
        BY <4>1, <4>2
    <3>3. key' = [key EXCEPT ![visit[v].key] = [key[visit[v].key] EXCEPT !.used = TRUE]]
      BY <1>8, Zenon DEF Touch
    <3>4. \A x \in {NotMinted} \cup KeyRow :
            [key EXCEPT ![visit[v].key] = x] \in [Key -> {NotMinted} \cup KeyRow]
      BY <1>0
    <3> QED
      BY <3>2, <3>3, <3>4
  <2> QED
    BY <1>0, <1>8, <2>1 DEF Touch, Leave
<1>9. ASSUME NEW v \in Visit, VisitDies(v)
      PROVE  PortalTypeOK'
  BY <1>0, <1>9, PortalAssumption DEF VisitDies, Leave
<1>10. ASSUME NEW a \in Agency, NEW l \in Link, RevokeLink(a, l)
       PROVE  PortalTypeOK'
  BY <1>10 DEF RevokeLink, LinkRow, NotMinted
<1>11. ASSUME NEW a \in Agency, NEW l \in Link, NEW c \in Client, CreateLink(a, l, c)
       PROVE  PortalTypeOK'
  BY <1>11 DEF CreateLink, LinkRow
<1>12. ASSUME NEW a \in Agency, NEW k \in Key, MintKey(a, k)
       PROVE  PortalTypeOK'
  BY <1>12 DEF MintKey, KeyRow
<1>13. ASSUME NEW a \in Agency, NEW k \in Key, RevokeKey(a, k)
       PROVE  PortalTypeOK'
  BY <1>13 DEF RevokeKey, KeyRow, NotMinted
<1>14. ASSUME NEW i \in Item, NEW to \in ItemStatus, AgencyMoves(i, to)
       PROVE  PortalTypeOK'
  <2>1. round' \in [Item -> Rounds] /\ decisions' \in [Item -> Nat]
    BY <1>14, PortalAssumption DEF AgencyMoves, Rounds
  <2> QED
    BY <1>14, <2>1 DEF AgencyMoves
<1> QED
  BY <1>1, <1>3, <1>4, <1>5, <1>6, <1>7, <1>8, <1>9, <1>10, <1>11, <1>12, <1>13, <1>14
  DEF PortalNext, VisitStep

\* Links and keys do not go away, and what they are for stays.
LEMMA RowsStay ==
  ASSUME PortalTypeOK, PortalNext
  PROVE  /\ \A l \in Link : link[l] # NotMinted =>
              link'[l] # NotMinted /\ link'[l].client = link[l].client
         /\ \A l \in Link : link[l].state = "revoked" => link'[l] = link[l]
         /\ \A k \in Key : key[k] # NotMinted => key'[k] # NotMinted
         /\ \A k \in Key : key[k].state = "revoked" => key'[k].state = "revoked"
<1> USE DEF PortalTypeOK, LinkRow, KeyRow, NotMinted
<1>1. ASSUME NEW a, NEW l \in Link, RevokeLink(a, l)
      PROVE  /\ \A m \in Link : link[m] # NotMinted =>
                  link'[m] # NotMinted /\ link'[m].client = link[m].client
             /\ \A m \in Link : link[m].state = "revoked" => link'[m] = link[m]
  BY <1>1 DEF RevokeLink
<1>2. ASSUME NEW a, NEW k \in Key, RevokeKey(a, k)
      PROVE  /\ \A m \in Key : key[m] # NotMinted => key'[m] # NotMinted
             /\ \A m \in Key : key[m].state = "revoked" => key'[m].state = "revoked"
  BY <1>2 DEF RevokeKey
<1>3. ASSUME NEW v \in Visit, Touch(v)
      PROVE  /\ \A m \in Key : key[m] # NotMinted => key'[m] # NotMinted
             /\ \A m \in Key : key[m].state = "revoked" => key'[m].state = "revoked"
  <2>1. visit[v].key \in Key
    BY <1>3, VisitLocals DEF Touch, VisitAt, Calling
  <2>2. \A m \in Key : key'[m] = key[m] \/ key'[m] = [key[m] EXCEPT !.used = TRUE]
    BY <1>3, <2>1 DEF Touch
  <2>3. \A m \in Key : key'[m].state = key[m].state
    <3>1. \A x \in {NotMinted} \cup KeyRow : [x EXCEPT !.used = TRUE].state = x.state
      OBVIOUS
    <3> QED
      BY <2>2, <3>1
  <2> QED
    BY <2>3
<1>4. ASSUME NEW a, NEW l \in Link, NEW c, CreateLink(a, l, c)
      PROVE  /\ \A m \in Link : link[m] # NotMinted => link'[m] = link[m]
             /\ \A m \in Link : link[m].state = "revoked" => link'[m] = link[m]
  BY <1>4 DEF CreateLink
<1>5. ASSUME NEW a, NEW k \in Key, MintKey(a, k)
      PROVE  /\ \A m \in Key : key[m] # NotMinted => key'[m] # NotMinted
             /\ \A m \in Key : key[m].state = "revoked" => key'[m].state = "revoked"
  BY <1>5 DEF MintKey
<1>6. CASE UNCHANGED link
  BY <1>6, <1>2, <1>3, <1>5 DEF PortalNext, VisitStep, Resolve, GetItem, Gate, Decide, AddComment,
     FindKey, VisitDies, RevokeLink, CreateLink, AgencyMoves
<1>7. CASE UNCHANGED key
  BY <1>7, <1>1, <1>4 DEF PortalNext, VisitStep, Resolve, GetItem, Gate, Decide, AddComment,
     FindKey, Touch, VisitDies, RevokeKey, MintKey, AgencyMoves
<1>8. UNCHANGED link \/ UNCHANGED key
  BY DEF PortalNext, VisitStep, Resolve, GetItem, Gate, Decide, AddComment, FindKey, Touch,
     VisitDies, RevokeLink, CreateLink, RevokeKey, MintKey, AgencyMoves
<1> QED
  BY <1>6, <1>7, <1>8

LEMMA VisitsStayAdmitted ==
  ASSUME PortalInv, PortalNext
  PROVE  VisitsWereAdmitted'
<1> USE DEF PortalInv
<1> DEFINE Visiting == {IdleVisit} \cup Deciding \cup Calling
<1>0. ASSUME NEW x \in Visiting, Admitted(x)
      PROVE  /\ x.pc \in {"getItem", "gate", "flip", "comment"} => Opened(x.client)'
             /\ x.pc \in {"gate", "flip"} => HasReason(x.decision, x.noted)
             /\ x.pc = "comment" => ClientOf[x.item] = x.client
             /\ x.pc = "touch" => key'[x.key] # NotMinted
  <2>1. x.pc = "touch" => x.key \in Key
    BY DEF Deciding, Calling, IdleVisit
  <2> QED
    BY <1>0, <2>1, RowsStay DEF Admitted, Opened
<1>a. ASSUME \A v \in Visit : visit'[v] \in Visiting /\ Admitted(visit'[v])
      PROVE  VisitsWereAdmitted'
  BY <1>0, <1>a DEF VisitsWereAdmitted, Admitted, Opened
<1>b. \A v \in Visit : visit[v] \in Visiting /\ Admitted(visit[v])
  BY DEF PortalTypeOK, VisitsWereAdmitted
<1>c. IdleVisit \in Visiting /\ Admitted(IdleVisit)
  BY DEF IdleVisit, Admitted
<1>d. CASE UNCHANGED visit
  BY <1>a, <1>b, <1>d
<1>e. ASSUME NEW v \in Visit, NEW x \in Visiting, Admitted(x), GoOn(v, x)
      PROVE  VisitsWereAdmitted'
  <2>1. \A w \in Visit : visit'[w] = x \/ visit'[w] = visit[w]
    BY <1>e DEF GoOn, PortalTypeOK
  <2> QED
    BY <1>a, <1>b, <1>e, <2>1
<1>f. ASSUME NEW v \in Visit, Leave(v)
      PROVE  VisitsWereAdmitted'
  BY <1>c, <1>e, <1>f DEF Leave
<1>g. ASSUME NEW v \in Visit, visit[v] \in Deciding, NEW p \in {"gate", "flip", "comment"}
      PROVE  LET x == [visit[v] EXCEPT !.pc = p]
             IN /\ x \in Deciding /\ x.pc = p /\ x.item = visit[v].item
                /\ x.client = visit[v].client /\ x.decision = visit[v].decision
                /\ x.noted = visit[v].noted
  BY <1>g DEF Deciding
<1>1. ASSUME NEW v \in Visit, NEW l \in Link, NEW i \in Item, NEW d \in Decision,
             NEW noted \in BOOLEAN, Resolve(v, l, i, d, noted)
      PROVE  VisitsWereAdmitted'
  <2> DEFINE x == [pc |-> "getItem", client |-> link[l].client, item |-> i, decision |-> d,
                   noted |-> noted]
  <2>1. x \in Deciding
    BY <1>1 DEF Resolve, PortalTypeOK, Deciding, LinkRow, NotMinted
  <2>2. Admitted(x)
    BY <1>1 DEF Resolve, Admitted, Opened, NotMinted
  <2> QED
    BY <1>1, <1>e, <2>1, <2>2 DEF Resolve
<1>2. ASSUME NEW v \in Visit, GetItem(v)
      PROVE  VisitsWereAdmitted'
  <2>1. visit[v] \in Deciding /\ visit[v].pc = "getItem" /\ Admitted(visit[v])
    BY <1>2, <1>b, VisitLocals DEF GetItem, VisitAt
  <2>2. CASE Leave(v)
    BY <1>f, <2>2
  <2>3. CASE /\ HasReason(visit[v].decision, visit[v].noted)
             /\ \E p \in {"gate", "flip"} : GoOn(v, [visit[v] EXCEPT !.pc = p])
    <3>1. PICK p \in {"gate", "flip"} : GoOn(v, [visit[v] EXCEPT !.pc = p])
      BY <2>3
    <3> DEFINE x == [visit[v] EXCEPT !.pc = p]
    <3>2. x \in Deciding /\ x.pc = p /\ x.client = visit[v].client
          /\ x.decision = visit[v].decision /\ x.noted = visit[v].noted
      <4>1. p \in {"gate", "flip", "comment"}
        OBVIOUS
      <4> HIDE DEF Visiting
      <4> QED
        BY <1>g, <2>1, <4>1
    <3> HIDE DEF x
    <3>3. Admitted(x)
      BY <2>1, <2>3, <3>2 DEF Admitted
    <3>4. GoOn(v, x)
      BY <3>1 DEF x
    <3> QED
      BY <1>e, <3>2, <3>3, <3>4
  <2> QED
    BY <1>2, <2>2, <2>3 DEF GetItem
<1>3. ASSUME NEW v \in Visit, Gate(v)
      PROVE  VisitsWereAdmitted'
  <2>1. visit[v] \in Deciding /\ visit[v].pc = "gate" /\ Admitted(visit[v])
    BY <1>3, <1>b, VisitLocals DEF Gate, VisitAt
  <2> DEFINE x == [visit[v] EXCEPT !.pc = "flip"]
  <2>2. x \in Visiting /\ x.pc = "flip" /\ x.client = visit[v].client
        /\ x.decision = visit[v].decision /\ x.noted = visit[v].noted
    BY <1>g, <2>1
  <2>3. Admitted(x)
    <3> HIDE DEF x
    <3> QED
      BY <2>1, <2>2 DEF Admitted
  <2> QED
    BY <1>3, <1>e, <1>f, <2>2, <2>3 DEF Gate
<1>4. ASSUME NEW v \in Visit, Decide(v)
      PROVE  VisitsWereAdmitted'
  <2>1. visit[v] \in Deciding /\ visit[v].pc = "flip" /\ Admitted(visit[v])
    BY <1>4, <1>b, VisitLocals DEF Decide, VisitAt
  <2>2. CASE Leave(v)
    BY <1>f, <2>2
  <2> DEFINE x == [visit[v] EXCEPT !.pc = "comment"]
  <2>3. CASE StillAwaits(visit[v].client, visit[v].item) /\ GoOn(v, x)
    <3>1. x \in Visiting /\ x.pc = "comment" /\ x.client = visit[v].client
          /\ x.item = visit[v].item
      BY <1>g, <2>1
    <3>2. Admitted(x)
      <4> HIDE DEF x
      <4> QED
        BY <2>1, <2>3, <3>1 DEF Admitted, StillAwaits
    <3> QED
      BY <1>e, <2>3, <3>1, <3>2
  <2> QED
    BY <1>4, <2>2, <2>3 DEF Decide
<1>5. ASSUME NEW v \in Visit, NEW k \in Key, FindKey(v, k)
      PROVE  VisitsWereAdmitted'
  <2> DEFINE x == [pc |-> "touch", key |-> k, row |-> key[k]]
  <2>1. x \in Calling
    BY <1>5 DEF FindKey, PortalTypeOK, Calling, NotMinted
  <2>2. Admitted(x)
    BY <1>5 DEF FindKey, Admitted, NotMinted
  <2> QED
    BY <1>5, <1>e, <2>1, <2>2 DEF FindKey
<1> QED
  BY <1>1, <1>2, <1>3, <1>4, <1>5, <1>d, <1>f DEF PortalNext, VisitStep, AddComment, Touch, VisitDies,
     RevokeLink, CreateLink, MintKey, RevokeKey, AgencyMoves

LEMMA DecisionsStaySingle ==
  ASSUME PortalInv, PortalNext
  PROVE  ReviewsAreUndecided' /\ \A i \in Item : decisions'[i] <= 1
<1> USE DEF PortalInv
<1>0. \A i \in Item : decisions[i] \in Nat /\ decisions[i] <= 1
  BY DEF PortalTypeOK, OneReasonedDecision
<1>1. ASSUME NEW v \in Visit, Decide(v)
      PROVE  ReviewsAreUndecided' /\ \A i \in Item : decisions'[i] <= 1
  <2> DEFINE i == visit[v].item
  <2>1. i \in Item
    BY <1>1, VisitLocals DEF Decide, VisitAt, Deciding
  <2>2. CASE UNCHANGED <<status, decisions>>
    BY <1>0, <2>2 DEF ReviewsAreUndecided
  <2>3. CASE /\ status[i] = "in_review"
             /\ status' = [status EXCEPT ![i] = Outcome(visit[v])]
             /\ decisions' = [decisions EXCEPT ![i] = @ + 1]
    <3>1. decisions[i] = 0
      BY <2>1, <2>3 DEF ReviewsAreUndecided
    <3>2. \A j \in Item : decisions'[j] = IF j = i THEN 1 ELSE decisions[j]
      BY <2>3, <3>1 DEF PortalTypeOK
    <3>3. Outcome(visit[v]) # "in_review"
      BY DEF Outcome
    <3>4. \A j \in Item : status'[j] = IF j = i THEN Outcome(visit[v]) ELSE status[j]
      BY <2>3 DEF PortalTypeOK
    <3> QED
      BY <1>0, <3>2, <3>3, <3>4 DEF ReviewsAreUndecided
  <2> QED
    BY <1>1, <2>2, <2>3 DEF Decide, StillAwaits
<1>2. ASSUME NEW i \in Item, NEW to \in ItemStatus, AgencyMoves(i, to)
      PROVE  ReviewsAreUndecided' /\ \A j \in Item : decisions'[j] <= 1
  BY <1>0, <1>2 DEF AgencyMoves, PortalTypeOK, ReviewsAreUndecided
<1>3. CASE UNCHANGED <<status, decisions>>
  BY <1>0, <1>3 DEF ReviewsAreUndecided
<1> QED
  BY <1>1, <1>2, <1>3 DEF PortalNext, VisitStep, Resolve, GetItem, Gate, AddComment, FindKey, Touch,
     VisitDies, RevokeLink, CreateLink, MintKey, RevokeKey

\* The second part of OneReasonedDecision.
ReturnedWithReason ==
  faults = 0 =>
    \A i \in sentBack :
      \/ round[i] \in reasons[i]
      \/ \E v \in Visit : VisitAt(v, "comment") /\ visit[v].item = i

LEMMA ReasonsStay ==
  ASSUME PortalInv, PortalNext
  PROVE  ReturnedWithReason'
<1> USE DEF PortalInv
<1>0. ReturnedWithReason
  BY DEF OneReasonedDecision, ReturnedWithReason
\* Who is about to note still is, whatever another visit goes on to.
<1>1. ASSUME NEW v \in Visit, NEW x, GoOn(v, x), visit[v].pc # "comment",
             UNCHANGED <<faults, sentBack, round, reasons>>
      PROVE  ReturnedWithReason'
  <2>1. \A w \in Visit : visit[w].pc = "comment" => visit'[w] = visit[w]
    BY <1>1 DEF GoOn, PortalTypeOK
  <2> QED
    BY <1>0, <1>1, <2>1 DEF ReturnedWithReason, VisitAt
<1>2. ASSUME NEW v \in Visit, Decide(v)
      PROVE  ReturnedWithReason'
  <2> DEFINE d == visit[v]
             i == visit[v].item
  <2>1. d \in Deciding /\ d.pc = "flip" /\ HasReason(d.decision, d.noted)
    BY <1>2, VisitLocals DEF Decide, VisitAt, VisitsWereAdmitted, Admitted
  <2>2. CASE UNCHANGED sentBack
    <3>1. \E x : GoOn(v, x)
      BY <1>2 DEF Decide, Leave
    <3> QED
      BY <1>1, <1>2, <2>1, <2>2, <3>1 DEF Decide
  <2>3. CASE /\ Outcome(d) = "draft" /\ sentBack' = sentBack \cup {i}
             /\ IF d.noted THEN GoOn(v, [d EXCEPT !.pc = "comment"]) ELSE Leave(v)
    <3>1. d.noted
      BY <2>1, <2>3 DEF Outcome, HasReason, Deciding, Decision
    <3>2. visit'[v].pc = "comment" /\ visit'[v].item = i
      BY <2>1, <2>3, <3>1 DEF GoOn, PortalTypeOK, Deciding
    <3>3. \A w \in Visit : visit[w].pc = "comment" => visit'[w] = visit[w]
      BY <2>1, <2>3, <3>1 DEF GoOn, PortalTypeOK
    <3>4. UNCHANGED <<reasons, round, faults>>
      BY <1>2 DEF Decide
    <3>5. ASSUME NEW j \in sentBack', faults = 0
          PROVE  \/ round[j] \in reasons[j]
                 \/ \E w \in Visit : visit'[w].pc = "comment" /\ visit'[w].item = j
      <4>1. CASE j = i
        BY <3>2, <4>1
      <4>2. CASE j \in sentBack
        BY <1>0, <3>3, <3>5, <4>2 DEF ReturnedWithReason, VisitAt
      <4> QED
        BY <2>3, <4>1, <4>2
    <3> QED
      BY <3>4, <3>5 DEF ReturnedWithReason, VisitAt
  <2> QED
    BY <1>2, <2>2, <2>3 DEF Decide
<1>3. ASSUME NEW v \in Visit, AddComment(v)
      PROVE  ReturnedWithReason'
  <2> DEFINE i == visit[v].item
  <2>1. i \in Item /\ ClientOf[i] = visit[v].client
    BY <1>3, VisitLocals DEF AddComment, VisitAt, Deciding, VisitsWereAdmitted, Admitted
  <2>2. \A j \in Item : reasons[j] \subseteq reasons'[j]
    BY <1>3, <2>1 DEF AddComment, PortalTypeOK
  <2>3. round[i] \in reasons'[i]
    BY <1>3, <2>1 DEF AddComment, PortalTypeOK
  <2>4. \A w \in Visit : w # v => visit'[w] = visit[w]
    BY <1>3 DEF AddComment, Leave, GoOn, PortalTypeOK
  <2>5. UNCHANGED <<sentBack, round, faults>> /\ sentBack \subseteq Item
    BY <1>3 DEF AddComment, PortalTypeOK
  <2>6. ASSUME NEW j \in sentBack, faults = 0
        PROVE  \/ round[j] \in reasons'[j]
               \/ \E w \in Visit : visit'[w].pc = "comment" /\ visit'[w].item = j
    <3>1. CASE round[j] \in reasons[j]
      BY <2>2, <2>5, <3>1
    <3>2. CASE \E w \in Visit : visit[w].pc = "comment" /\ visit[w].item = j
      BY <2>3, <2>4, <3>2
    <3> QED
      BY <1>0, <2>6, <3>1, <3>2 DEF ReturnedWithReason, VisitAt
  <2> QED
    BY <2>5, <2>6 DEF ReturnedWithReason, VisitAt
<1>4. ASSUME NEW v \in Visit, VisitDies(v)
      PROVE  ReturnedWithReason'
  <2>1. faults' # 0
    BY <1>4, PortalAssumption DEF VisitDies, PortalTypeOK
  <2> QED
    BY <2>1 DEF ReturnedWithReason
<1>5. ASSUME NEW i \in Item, NEW to \in ItemStatus, AgencyMoves(i, to)
      PROVE  ReturnedWithReason'
  <2>1. /\ UNCHANGED <<reasons, visit, faults>> /\ sentBack' = sentBack \ {i}
        /\ \A j \in Item : j # i => round'[j] = round[j]
    BY <1>5 DEF AgencyMoves, PortalTypeOK
  <2> QED
    BY <1>0, <2>1 DEF ReturnedWithReason, VisitAt, PortalTypeOK
<1>6. ASSUME NEW v \in Visit, GetItem(v) \/ Gate(v) \/ Touch(v)
      PROVE  ReturnedWithReason'
  <2>1. \E x : GoOn(v, x)
    BY <1>6 DEF GetItem, Gate, Touch, Leave
  <2> QED
    BY <1>1, <1>6, <2>1 DEF GetItem, Gate, Touch, VisitAt
<1>7. ASSUME NEW v \in Visit, visit[v] = IdleVisit, NEW x, GoOn(v, x),
             UNCHANGED <<faults, sentBack, round, reasons>>
      PROVE  ReturnedWithReason'
  BY <1>1, <1>7 DEF IdleVisit
<1>8. CASE UNCHANGED <<visit, faults, sentBack, round, reasons>>
  BY <1>0, <1>8 DEF ReturnedWithReason, VisitAt
<1> QED
  BY <1>2, <1>3, <1>4, <1>5, <1>6, <1>7, <1>8 DEF PortalNext, VisitStep, Resolve, FindKey,
     RevokeLink, CreateLink, MintKey, RevokeKey

\* PortalInv holds in every state.
LEMMA PortalInvariance == PortalSpec => []PortalInv
<1>1. PortalInit => PortalInv
  BY PortalInvInit
<1>2. ASSUME PortalInv, [PortalNext]_portalVars
      PROVE  PortalInv'
  <2>1. CASE PortalNext
    BY <1>2, <2>1, PortalTypes, VisitsStayAdmitted, DecisionsStaySingle, ReasonsStay
    DEF PortalInv, OneReasonedDecision, ReturnedWithReason
  <2>2. CASE UNCHANGED portalVars
    BY <1>2, <2>2 DEF portalVars, PortalInv, PortalTypeOK, VisitsWereAdmitted, Admitted, Opened,
       ReviewsAreUndecided, OneReasonedDecision, VisitAt
  <2> QED
    BY <1>2, <2>1, <2>2
<1> QED
  BY <1>1, <1>2, PTL DEF PortalSpec

\* Each round of review takes one decision at most, and what was sent back
\* carries the note of its round, unless a request died. (review/index.ts:106-123)
THEOREM DecisionsAreSingle == PortalSpec => []OneReasonedDecision
<1>1. PortalInv => OneReasonedDecision
  BY DEF PortalInv
<1> QED
  BY <1>1, PortalInvariance, PTL

\* The condition LinksKeepTheirTerms puts on a step.
TermsAreKept ==
  /\ \A i \in Item :
       decisions'[i] > decisions[i] \/ reasons'[i] # reasons[i] =>
         \E l \in Link : link[l] # NotMinted /\ link[l].client = ClientOf[i]
  /\ \A l \in Link : link[l].state = "revoked" => link'[l] = link[l]
  /\ \A k \in Key : key[k].state = "revoked" => key'[k].state = "revoked"

LEMMA StepsKeepTerms ==
  ASSUME PortalInv, PortalNext
  PROVE  TermsAreKept
<1> USE DEF PortalInv
<1>0. \A i \in Item : decisions[i] \in Nat
  BY DEF PortalTypeOK
<1> DEFINE Reached == \A i \in Item :
             decisions'[i] > decisions[i] \/ reasons'[i] # reasons[i] => Opened(ClientOf[i])
<1>1. ASSUME NEW v \in Visit, Decide(v)
      PROVE  Reached
  <2>1. Opened(visit[v].client)
    BY <1>1 DEF Decide, VisitAt, VisitsWereAdmitted, Admitted
  <2>2. CASE UNCHANGED decisions
    BY <1>0, <1>1, <2>2 DEF Decide
  <2>3. CASE StillAwaits(visit[v].client, visit[v].item)
    <3>1. \A i \in Item : i # visit[v].item => decisions'[i] = decisions[i]
      BY <1>1 DEF Decide, PortalTypeOK
    <3> QED
      BY <1>0, <1>1, <2>1, <2>3, <3>1 DEF Decide, StillAwaits
  <2> QED
    BY <1>1, <2>2, <2>3 DEF Decide
<1>2. ASSUME NEW v \in Visit, AddComment(v)
      PROVE  Reached
  <2>1. Opened(visit[v].client) /\ ClientOf[visit[v].item] = visit[v].client
    BY <1>2 DEF AddComment, VisitAt, VisitsWereAdmitted, Admitted
  <2>2. \A i \in Item : i # visit[v].item => reasons'[i] = reasons[i]
    BY <1>2 DEF AddComment, PortalTypeOK
  <2> QED
    BY <1>0, <1>2, <2>1, <2>2 DEF AddComment
<1>3. ASSUME NEW i \in Item, NEW to \in ItemStatus, AgencyMoves(i, to)
      PROVE  Reached
  <2>1. \A j \in Item : decisions'[j] = 0 \/ decisions'[j] = decisions[j]
    BY <1>3 DEF AgencyMoves, PortalTypeOK
  <2> QED
    BY <1>0, <1>3, <2>1 DEF AgencyMoves
<1>4. ASSUME UNCHANGED <<decisions, reasons>>
      PROVE  Reached
  BY <1>0, <1>4
<1>5. Reached
  BY <1>1, <1>2, <1>3, <1>4 DEF PortalNext, VisitStep, Resolve, GetItem, Gate, FindKey, Touch,
     VisitDies, RevokeLink, CreateLink, MintKey, RevokeKey
<1> QED
  BY <1>5, RowsStay DEF TermsAreKept, Opened

\* A link reaches the items of its client only, and what was revoked stays so,
\* whatever call was under way. (prisma-stores.ts:877-912, 612-622)
THEOREM TermsStayKept == PortalSpec => LinksKeepTheirTerms
<1>1. PortalInv /\ [PortalNext]_portalVars => [TermsAreKept]_portalVars
  BY StepsKeepTerms
<1> QED
  BY <1>1, PortalInvariance, PTL DEF PortalSpec, LinksKeepTheirTerms, TermsAreKept

=============================================================================
