------------------------------ MODULE MCTenancy ------------------------------
(***************************************************************************)
(* Both parts of the tenants, checked as a sum and not as a product: they  *)
(* meet only in the settings a request runs with, which Tenancy bounds     *)
(* (TenantIsolation) and Organisation takes as its input (Settings).  A    *)
(* behaviour takes the steps of one part while the other stays as it began.*)
(***************************************************************************)
EXTENDS Tenancy, Organisation, TLC

\* Not the row that is neither: what it refuses an inactive primary one refuses,
\* too, and what it does not stand in the way of an active one does not.
ActiveOrPrimary == {m \in Membership : m.active \/ m.primary}

Init == TenancyInit /\ OrganisationInit

Next ==
  \/ OrganisationInit /\ TenancyNext /\ UNCHANGED organisation
  \/ TenancyInit /\ OrganisationNext /\ UNCHANGED tenancy

Spec == Init /\ [][Next]_<<tenancy, organisation>>

Symmetry ==
  Permutations(Institutions) \cup Permutations(Workers) \cup Permutations(Requests)
==============================================================================
