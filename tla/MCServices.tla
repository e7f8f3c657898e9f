---------------------------- MODULE MCServices ----------------------------
(***************************************************************************)
(* Small instances of the components around the workflow. They share no      *)
(* state, so a behaviour exercises one of them: TLC's states are the sum of  *)
(* theirs, not the product.                                                 *)
(***************************************************************************)
EXTENDS ReviewPortal, Billing, Connections, RateLimiter, Audit, Clients, TLC

CONSTANTS i1, clientA, agencyA, agencyB

\* Each item is the one of its client, each client the one of its agency.
OneEach == [i \in Item |-> IF i = i1 THEN clientA ELSE CHOOSE c \in Client : c # clientA]
Owned == [c \in Client |-> IF c = clientA THEN agencyA ELSE agencyB]

\* Requests, and ids that are never used twice, are interchangeable; one
\* permutation for all of a kind keeps the group small.
Other(S, x) == CHOOSE y \in S : y # x
SwapRequests ==
  [x \in Checkout \cup Visit \cup Return \cup AiCall |->
     CASE x \in Checkout -> Other(Checkout, x) [] x \in Visit -> Other(Visit, x)
       [] x \in Return -> Other(Return, x) [] x \in AiCall -> Other(AiCall, x)]
SwapIds ==
  [x \in Customer \cup Nonce \cup LimitKey \cup House |->
     CASE x \in Customer -> Other(Customer, x) [] x \in Nonce -> Other(Nonce, x)
       [] x \in LimitKey -> Other(LimitKey, x) [] x \in House -> Other(House, x)]
Interchangeable == {SwapRequests, SwapIds}

VARIABLE part   \* the component that moves

\* Every browser begins in one agency's session: logging in leads to the others.
ServicesInit ==
  /\ part \in {"portal", "billing", "connections", "limiter", "audit", "clients"}
  /\ PortalInit /\ BillingInit /\ ConnectionsInit /\ LimiterInit /\ AuditInit /\ ClientsInit
  /\ \A b \in Browser : jar[b].agency = agencyA

PortalMoves == part = "portal" /\ PortalNext
\* Bounds: one agency at a time buys, agencyA is the first to have a customer, which
\* leaves nothing out, of the deliveries of a webhook one is handled at a time, and a
\* subscription changes its status or its price at a time.
Buyers == {checkout[k].payer : k \in {l \in Checkout : checkout[l] # IdleCheckout}}
            \cup {contract[s].payer : s \in {r \in Contract : contract[r] # NoContract}}
OneAtATime ==
  /\ \A p, q \in Buyers : p = q
  /\ (\E c \in Customer : customer[c] = agencyB) => \E c \in Customer : customer[c] = agencyA
  /\ \A e, f \in event : e.at = f.at => e = f
OneChange ==
  \A s \in Contract : contract[s] # NoContract =>
    contract'[s].state = contract[s].state \/ contract'[s].price = contract[s].price
BillingMoves == part = "billing" /\ BillingNext /\ OneAtATime' /\ OneChange
ConnectionsMove == part = "connections" /\ ConnectionsNext
LimiterMoves == part = "limiter" /\ LimiterNext
AuditMoves == part = "audit" /\ AuditNext
ClientsMove == part = "clients" /\ ClientsNext

ServicesNext ==
  /\ UNCHANGED part
  /\ PortalMoves \/ UNCHANGED portalVars
  /\ BillingMoves \/ UNCHANGED billingVars
  /\ ConnectionsMove \/ UNCHANGED connectionVars
  /\ LimiterMoves \/ UNCHANGED limiterVars
  /\ AuditMoves \/ UNCHANGED auditVars
  /\ ClientsMove \/ UNCHANGED clientVars

ServicesSpec ==
  ServicesInit /\ [][ServicesNext]_<<part, portalVars, billingVars, connectionVars,
                                     limiterVars, auditVars, clientVars>>

\* Types of the tables, of Stripe's and the platforms' side, and of what requests
\* keep across awaits.
ServicesTypeOK ==
  PortalTypeOK /\ BillingTypeOK /\ ConnectionsTypeOK /\ LimiterTypeOK /\ AuditTypeOK /\ ClientsTypeOK
============================================================================
