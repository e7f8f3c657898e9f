----------------------------- MODULE MCAccounts -----------------------------
(***************************************************************************)
(* Small instances of Accounts and Approval. They share no state, so a       *)
(* behaviour exercises one of them.                                         *)
(***************************************************************************)
EXTENDS Accounts, Approval, TLC

CONSTANTS u1, u2, u3, r1, r2, r3

\* The agency blocks nothing, one caption or every caption.
AnyRules == SUBSET Caption

\* Users and requests are permuted together, to keep the group small.
Paired == (u1 :> r1) @@ (u2 :> r2) @@ (u3 :> r3)
Together(p) == p @@ [r \in Request |-> Paired[p[CHOOSE u \in User : Paired[u] = r]]]
Interchangeable ==
  {Together(p) : p \in Permutations(User)}
    \cup Permutations(Agency) \cup Permutations(Email) \cup Permutations(Call)

VARIABLE part   \* the component that moves

\* What does not move starts in one state only.
OfficeInit ==
  /\ part \in {"accounts", "approval"}
  /\ AccountsInit /\ ApprovalInit
  /\ part # "approval" => blocked = {}

OfficeNext ==
  /\ UNCHANGED part
  /\ (part = "accounts" /\ AccountsNext) \/ UNCHANGED accountVars
  /\ (part = "approval" /\ ApprovalNext) \/ UNCHANGED approvalVars

OfficeSpec == OfficeInit /\ [][OfficeNext]_<<part, accountVars, approvalVars>>

\* Types of the tables and of what requests keep across awaits.
OfficeTypeOK == AccountsTypeOK /\ ApprovalTypeOK
=============================================================================
