------------------------------- MODULE Billing -------------------------------
(***************************************************************************)
(* The subscriptions of agencies: checkouts started by their admins, what    *)
(* Stripe makes of them, and Stripe's webhooks, which arrive late, twice or  *)
(* in another order than they were sent.                                    *)
(***************************************************************************)
EXTENDS Tenancy, Integers, FiniteSets

CONSTANTS Customer,     \* ids of Stripe customers, never used twice
          Contract,     \* ids of Stripe subscriptions, never used twice
          Checkout,     \* requests running at a time
          NoId,
          OnSale,       \* the plans that are bought at checkouts
          Status,       \* what Stripe says of a subscription
          Price,        \* Stripe's prices: a paid plan's is called as the plan is
          MaxSent       \* bound: webhooks Stripe sends

ASSUME BillingAssumption ==
  /\ NoId \notin Customer \cup Contract \cup Agency
  /\ OnSale \subseteq {"starter", "pro"}
  /\ OnSale \subseteq Price
  /\ "active" \in Status /\ "none" \notin Status
  /\ MaxSent \in Nat

VARIABLES
  sub,       \* the Subscription table
  checkout,  \* what each checkout request keeps across awaits
  customer,  \* Stripe's customers: the agency each was made for
  contract,  \* Stripe's subscriptions
  event,     \* webhooks on their way or being handled
  sent,      \* how many webhooks Stripe has sent
  applied,   \* history: the youngest webhook applied to each agency
  untidy,    \* history: agencies whose webhooks were applied out of order
  crossed    \* history: agencies whose first checkouts overlapped, or one of
             \* which failed with its customer made

billingVars == <<sub, checkout, customer, contract, event, sent, applied,
                 untidy, crossed>>

Paid == {"starter", "pro"}
Plan == Paid \cup {"free"}
SubscriptionStatus == {"active", "trialing", "past_due", "canceled", "incomplete"}

NoSub == [plan |-> "none"]
Sub == [plan : Plan, status : SubscriptionStatus,
        customer : Customer \cup {NoId}, contract : Contract \cup {NoId}]
FreshSub == [plan |-> "free", status |-> "active", customer |-> NoId, contract |-> NoId]

IdleCheckout == [pc |-> "idle"]
\* first: the agency had no customer when the row was read.
Checking == [pc : {"createCustomer", "upsert", "paying"},
             payer : Agency, plan : OnSale, customer : Customer \cup {NoId}, first : BOOLEAN]

NoContract == [state |-> "none"]
\* named: it carries the agency's id, as those bought at a checkout do.
\* had: history, the plans of the prices it has had.
ContractRow == [state : Status, payer : Agency, price : Price, had : SUBSET Paid,
                customer : Customer, named : BOOLEAN]

\* StripeWebhookEvent: what it does not carry is "absent".
\* agency: whose it is, as far as the request that handles it knows.
EventType == {"completed", "changed", "deleted"}
Event == [type : EventType, at : 1 .. MaxSent, payer : Agency, named : BOOLEAN,
          customer : Customer, contract : Contract,
          status : SubscriptionStatus \cup {"absent"}, price : Price \cup {"absent"},
          agency : Agency \cup {NoId}]

BillingTypeOK ==
  /\ sub \in [Agency -> {NoSub} \cup Sub]
  /\ checkout \in [Checkout -> {IdleCheckout} \cup Checking]
  /\ customer \in [Customer -> Agency \cup {NoId}]
  /\ contract \in [Contract -> {NoContract} \cup ContractRow]
  /\ event \subseteq Event
  /\ sent \in 0 .. MaxSent
  /\ applied \in [Agency -> 0 .. MaxSent]
  /\ untidy \subseteq Agency
  /\ crossed \subseteq Agency

BillingInit ==
  /\ sub = [p \in Agency |-> NoSub]
  /\ checkout = [k \in Checkout |-> IdleCheckout]
  /\ customer = [c \in Customer |-> NoId]
  /\ contract = [s \in Contract |-> NoContract]
  /\ event = {}
  /\ sent = 0
  /\ applied = [p \in Agency |-> 0]
  /\ untidy = {}
  /\ crossed = {}

----------------------------------------------------------------------------
(* A checkout.                                                              *)

CheckoutAt(k, pc) == checkout[k].pc = pc
Proceeding(k, locals) == checkout' = [checkout EXCEPT ![k] = locals]
FirstCheckouts(p) ==
  {k \in Checkout : checkout[k] # IdleCheckout /\ checkout[k].payer = p /\ checkout[k].first}

\* Mutant: every checkout makes a customer.
CustomerOfNone(p) == NoId

\* getStatus: an agency without a row is on the free plan.
PlanShown(p) == IF sub[p] = NoSub THEN "free" ELSE sub[p].plan

\* existing?.stripeCustomerId
CustomerOf(p) == IF sub[p] = NoSub THEN NoId ELSE sub[p].customer

\* getByAgency: the customer on the row is used again, if there is one.
StartCheckout(k, p, plan) ==
  /\ checkout[k] = IdleCheckout
  /\ LET known == CustomerOf(p)
     IN /\ Proceeding(k, [pc |-> IF known = NoId THEN "createCustomer" ELSE "paying",
                          payer |-> p, plan |-> plan, customer |-> known,
                          first |-> known = NoId])
        /\ crossed' = IF known = NoId /\ FirstCheckouts(p) # {} THEN crossed \cup {p} ELSE crossed
  /\ UNCHANGED <<sub, customer, contract, event, sent, applied, untidy>>

CreateCustomer(k, c) ==
  /\ CheckoutAt(k, "createCustomer")
  /\ customer[c] = NoId
  /\ customer' = [customer EXCEPT ![c] = checkout[k].payer]
  /\ Proceeding(k, [checkout[k] EXCEPT !.pc = "upsert", !.customer = c])
  /\ UNCHANGED <<sub, contract, event, sent, applied, untidy, crossed>>

RowToPatch(p) == IF sub[p] = NoSub THEN FreshSub ELSE sub[p]

\* Mutant: the plan is stored before it is paid.
PersistCustomerAndPlan(k) ==
  /\ CheckoutAt(k, "upsert")
  /\ LET c == checkout[k]
     IN /\ sub' = [sub EXCEPT ![c.payer] =
                     [RowToPatch(c.payer) EXCEPT !.customer = c.customer, !.plan = c.plan]]
        /\ Proceeding(k, [c EXCEPT !.pc = "paying", !.first = FALSE])
  /\ UNCHANGED <<customer, contract, event, sent, applied, untidy, crossed>>

PersistCustomer(k) ==
  /\ CheckoutAt(k, "upsert")
  /\ LET c == checkout[k]
     IN /\ sub' = [sub EXCEPT ![c.payer] =
                     [RowToPatch(c.payer) EXCEPT !.customer = c.customer]]
        /\ Proceeding(k, [c EXCEPT !.pc = "paying", !.first = FALSE])
  /\ UNCHANGED <<customer, contract, event, sent, applied, untidy, crossed>>

\* A call to Stripe or the database throws, or the admin does not pay.
AbandonCheckout(k) ==
  /\ checkout[k] # IdleCheckout
  /\ crossed' = IF CheckoutAt(k, "upsert") THEN crossed \cup {checkout[k].payer} ELSE crossed
  /\ Proceeding(k, IdleCheckout)
  /\ UNCHANGED <<sub, customer, contract, event, sent, applied, untidy>>

----------------------------------------------------------------------------
(* Stripe.                                                                  *)

\* Mutant: whatever Stripe calls the status is passed on.
AnyStatus(raw) == raw

\* A status that is none of ours is dropped.
NormalStatus(raw) == IF raw \in SubscriptionStatus THEN raw ELSE "absent"

\* normalizeEvent: a session's status is "complete", and it carries no price.
\* The agency is known at once if it is in the metadata.
EventOf(type, s, row, at) ==
  [type |-> type, at |-> at, payer |-> row.payer, named |-> row.named,
   customer |-> row.customer, contract |-> s,
   status |-> NormalStatus(IF type = "completed" THEN "complete" ELSE row.state),
   price |-> IF type = "completed" THEN "absent" ELSE row.price,
   agency |-> IF row.named THEN row.payer ELSE NoId]

\* createCheckoutSession sends the admin to Stripe with the agency, its customer
\* and the price. It is paid: the subscription begins, two webhooks are sent.
Pay(k, s) ==
  /\ CheckoutAt(k, "paying")
  /\ contract[s] = NoContract
  /\ sent + 2 <= MaxSent
  /\ LET c == checkout[k]
         row == [state |-> "active", payer |-> c.payer, price |-> c.plan, had |-> {c.plan},
                 customer |-> c.customer, named |-> TRUE]
     IN /\ contract' = [contract EXCEPT ![s] = row]
        /\ event' = event \cup {EventOf("completed", s, row, sent + 1),
                                EventOf("changed", s, row, sent + 2)}
  /\ sent' = sent + 2
  /\ Proceeding(k, IdleCheckout)
  /\ UNCHANGED <<sub, customer, applied, untidy, crossed>>

\* A subscription that someone makes in Stripe's dashboard, at any price, for a
\* customer that the agency is known by does not carry the agency's id.
MadeByHand(s, p, state, price) ==
  /\ contract[s] = NoContract
  /\ CustomerOf(p) # NoId
  /\ state \in {"active", "trialing", "incomplete"}
  /\ sent < MaxSent
  /\ LET row == [state |-> state, payer |-> p, price |-> price, had |-> {price} \cap Paid,
                 customer |-> CustomerOf(p), named |-> FALSE]
     IN /\ contract' = [contract EXCEPT ![s] = row]
        /\ event' = event \cup {EventOf("changed", s, row, sent + 1)}
  /\ sent' = sent + 1
  /\ UNCHANGED <<sub, checkout, customer, applied, untidy, crossed>>

\* What has ended stays; only a first payment is incomplete, and only one that
\* is incomplete expires.
MayBecome(old, new) ==
  /\ old \notin {"canceled", "incomplete_expired"}
  /\ new \in {"incomplete", "incomplete_expired"} => old = "incomplete"

\* A payment fails or comes after all, the price is changed, collection is
\* paused, or the subscription ends.
ChangeContract(s, state, price) ==
  /\ contract[s] # NoContract
  /\ MayBecome(contract[s].state, state)
  /\ sent < MaxSent
  /\ contract' = [contract EXCEPT ![s].state = state, ![s].price = price,
                                  ![s].had = @ \cup ({price} \cap Paid)]
  /\ contract' # contract
  /\ event' = event \cup
       {EventOf(IF state = "canceled" THEN "deleted" ELSE "changed", s, contract'[s], sent + 1)}
  /\ sent' = sent + 1
  /\ UNCHANGED <<sub, checkout, customer, applied, untidy, crossed>>

----------------------------------------------------------------------------
(* handleWebhook. The signature was checked: only Stripe's events arrive.   *)

\* A request has done with an event. again: it was delivered twice, or our
\* answer was lost, so that it is handled once more from the start.
Delivered(e, again) ==
  (event \ {e}) \cup
    IF again THEN {[e EXCEPT !.agency = IF e.named THEN e.payer ELSE NoId]} ELSE {}

\* resolveAgencyId without metadata: the agency of the customer, if a row has it.
ResolveAgency(e, again) ==
  /\ e \in event
  /\ e.agency = NoId
  /\ event' = Delivered(e, again) \cup
       {[e EXCEPT !.agency = p] : p \in {q \in Agency : CustomerOf(q) = e.customer}}
  /\ UNCHANGED <<sub, checkout, customer, contract, sent, applied, untidy, crossed>>

PlanForPrice(price) == IF price \in Paid THEN price ELSE "absent"

\* Mutant: a deleted subscription keeps its plan.
PatchedKeepsPlan(row, e) ==
  LET plan == PlanForPrice(e.price)
  IN [row EXCEPT !.status = IF e.status = "absent" THEN "active" ELSE e.status,
                 !.plan = IF plan = "absent" THEN @ ELSE plan,
                 !.contract = e.contract,
                 !.customer = e.customer]

\* applyWebhook: the row after an event. No status counts as "active"; a price
\* of no plan of ours leaves the plan.
Patched(row, e) ==
  IF e.type = "deleted"
  THEN [row EXCEPT !.plan = "free", !.status = "canceled", !.contract = NoId]
  ELSE LET plan == PlanForPrice(e.price)
       IN [row EXCEPT !.status = IF e.status = "absent" THEN "active" ELSE e.status,
                      !.plan = IF plan = "absent" THEN @ ELSE plan,
                      !.contract = e.contract,
                      !.customer = e.customer]

\* The upsert, of the agency that the event was found to be of.
HandleWebhook(e, again) ==
  /\ e \in event
  /\ e.agency # NoId
  /\ event' = Delivered(e, again)
  /\ sub' = [sub EXCEPT ![e.agency] = Patched(RowToPatch(e.agency), e)]
  /\ applied' = [applied EXCEPT ![e.agency] = IF @ < e.at THEN e.at ELSE @]
  /\ untidy' = IF applied[e.agency] > e.at THEN untidy \cup {e.agency} ELSE untidy
  /\ UNCHANGED <<checkout, customer, contract, sent, crossed>>

----------------------------------------------------------------------------

CheckoutStep(k) ==
  \/ \E p \in Agency, plan \in OnSale : StartCheckout(k, p, plan)
  \/ \E c \in Customer : CreateCustomer(k, c)
  \/ PersistCustomer(k)
  \/ AbandonCheckout(k)
  \/ \E s \in Contract : Pay(k, s)

SubscriptionStep ==
  \E s \in Contract, state \in Status, price \in Price :
    \/ \E p \in Agency : MadeByHand(s, p, state, price)
    \/ ChangeContract(s, state, price)

WebhookStep == \E e \in event, again \in BOOLEAN : ResolveAgency(e, again) \/ HandleWebhook(e, again)

BillingNext ==
  \/ \E k \in Checkout : CheckoutStep(k)
  \/ SubscriptionStep
  \/ WebhookStep

BillingSpec == BillingInit /\ [][BillingNext]_billingVars

----------------------------------------------------------------------------
(* Properties.                                                              *)

ContractsOf(p) == {s \in Contract : contract[s].state # "none" /\ contract[s].payer = p}

\* p has one subscription, s, whose webhooks were all applied, and in order.
Settled(p, s) ==
  /\ ContractsOf(p) = {s}
  /\ p \notin untidy \cup crossed
  /\ \A e \in event : e.payer # p

\* Once its webhooks are all in, the row of an agency with one subscription has
\* the status that Stripe has, or "active" for a status that is none of ours, and
\* the plan of the price at Stripe, if there is one, provided its webhooks were
\* not applied out of order: an update after the deletion gives the plan back.
\* (billing/index.ts:51-56, 118-155)
RowFollowsStripe ==
  \A p \in Agency, s \in Contract :
    Settled(p, s) =>
      LET row == contract[s] IN
      /\ sub[p].status = IF row.state \in SubscriptionStatus THEN row.state ELSE "active"
      /\ row.state = "canceled" => sub[p].plan = "free"
      /\ row.state # "canceled" /\ row.price \in Paid => sub[p].plan = row.price

\* Whatever the order of its webhooks, an agency's row names customers and
\* subscriptions that Stripe made for that agency, and shows a paid plan only if
\* a subscription of that agency has had its price. (billing/index.ts:51-56, 118-172)
RowsAreTheAgencysOwn ==
  \A p \in Agency :
    sub[p] # NoSub =>
      /\ sub[p].customer # NoId => customer[sub[p].customer] = p
      /\ sub[p].contract # NoId => sub[p].contract \in ContractsOf(p)
      /\ PlanShown(p) # "free" => \E s \in ContractsOf(p) : PlanShown(p) \in contract[s].had

\* An agency has one customer at Stripe, unless two of its first checkouts
\* overlapped or one failed half-way. (billing/index.ts:79-93)
OneCustomerPerAgency ==
  \A p \in Agency \ crossed : Cardinality({c \in Customer : customer[c] = p}) <= 1

\* The agency's row follows what Stripe has sold to that agency, as far as its
\* status and its price are known to the code.
BillingFollowsStripe == RowFollowsStripe /\ RowsAreTheAgencysOwn /\ OneCustomerPerAgency

----------------------------------------------------------------------------
(* The inductive invariant behind BillingFollowsStripe.                     *)

Belongs(c, p) == c \in Customer /\ customer[c] = p

\* A checkout is an agency's first until its customer is stored; the customer
\* it holds was made for its agency.
CheckoutFits(k) ==
  /\ checkout[k] # IdleCheckout => (checkout[k].first <=> ~CheckoutAt(k, "paying"))
  /\ CheckoutAt(k, "upsert") \/ CheckoutAt(k, "paying") =>
       Belongs(checkout[k].customer, checkout[k].payer)

\* Two requests handle one webhook.
SameWebhook(e, f) ==
  /\ e.type = f.type /\ e.at = f.at /\ e.payer = f.payer /\ e.named = f.named
  /\ e.customer = f.customer /\ e.contract = f.contract
  /\ e.status = f.status /\ e.price = f.price

\* A webhook is of the customer and of a subscription of its agency, and found
\* to be, and of a price that the subscription has had.
WebhookFits(e) ==
  /\ Belongs(e.customer, e.payer)
  /\ e.contract \in ContractsOf(e.payer)
  /\ e.price \in Paid => e.price \in contract[e.contract].had
  /\ e.agency \in {e.payer, NoId} /\ (e.named => e.agency = e.payer)
  /\ e.at <= sent

\* Subscriptions and webhooks are of the customers of their agencies; no two
\* webhooks are of the same age.
StripeKnows ==
  /\ \A k \in Checkout : CheckoutFits(k)
  /\ \A s \in Contract :
       contract[s] # NoContract => Belongs(contract[s].customer, contract[s].payer)
  /\ \A e \in event : WebhookFits(e)
  /\ \A e, f \in event : e.at = f.at => SameWebhook(e, f)
  /\ \A p \in Agency : applied[p] <= sent

\* Until the customer of an agency is on its row, one checkout at most is making
\* it, and nothing has been bought; then everything goes by it.
CustomerIsOne(p) ==
  /\ \A k, l \in FirstCheckouts(p) : k = l
  /\ FirstCheckouts(p) # {} => CustomerOf(p) = NoId
  /\ \A k \in FirstCheckouts(p) :
       CheckoutAt(k, "createCustomer") => \A c \in Customer : customer[c] # p
  /\ \A c \in Customer : customer[c] = p =>
       \/ CustomerOf(p) = c
       \/ \E k \in FirstCheckouts(p) : CheckoutAt(k, "upsert") /\ checkout[k].customer = c
  /\ \A k \in Checkout :
       CheckoutAt(k, "paying") /\ checkout[k].payer = p => checkout[k].customer = CustomerOf(p)
  /\ \A s \in ContractsOf(p) : contract[s].customer = CustomerOf(p)
  /\ \A e \in event : e.payer = p => e.customer = CustomerOf(p)

\* Webhook e says what contract s has come to, as far as it is passed on.
Tells(e, s) ==
  /\ e.type = IF contract[s].state = "canceled" THEN "deleted" ELSE "changed"
  /\ e.status = NormalStatus(contract[s].state)
  /\ e.price = contract[s].price

Matches(p, s) ==
  LET row == contract[s] IN
  /\ sub[p] # NoSub
  /\ sub[p].status = IF row.state \in SubscriptionStatus THEN row.state ELSE "active"
  /\ row.state = "canceled" => sub[p].plan = "free"
  /\ row.state # "canceled" /\ row.price \in Paid => sub[p].plan = row.price

\* The webhook that tells of contract s is on its way, the youngest of all ...
Awaited(p, s) ==
  \E e \in event : /\ e.payer = p /\ e.at > applied[p] /\ Tells(e, s)
                   /\ \A f \in event : f.payer = p => f.at <= e.at

\* ... or it has been applied, and only itself may come again in order.
Shown(p, s) ==
  /\ Matches(p, s)
  /\ \A f \in event : f.payer = p =>
       f.at <= applied[p] /\ (f.at = applied[p] => Tells(f, s))

LastWebhookCounts ==
  \A p \in Agency, s \in Contract :
    ContractsOf(p) = {s} /\ p \notin untidy \cup crossed => Awaited(p, s) \/ Shown(p, s)

BillingInv ==
  /\ BillingTypeOK
  /\ StripeKnows
  /\ RowsAreTheAgencysOwn
  /\ \A p \in Agency \ crossed : CustomerIsOne(p)
  /\ LastWebhookCounts
=============================================================================
