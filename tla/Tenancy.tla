------------------------------ MODULE Tenancy ------------------------------
(***************************************************************************)
(* Agencies and their clients, which every row outside this module belongs  *)
(* to directly or through the rows between.                                 *)
(***************************************************************************)
CONSTANTS Agency,   \* agencies
          Client,   \* clients
          AgencyOf  \* the agency of each client

ASSUME TenancyAssumption == AgencyOf \in [Client -> Agency]

\* where: { id: clientId, agencyId }
Owns(a, c) == AgencyOf[c] = a
=============================================================================
