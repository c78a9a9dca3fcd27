----------------------------- MODULE RowSecurity -----------------------------
(* The policies of row level security, over the settings of a connection. *)

CONSTANTS Institutions, Users, Nowhere, Anonymous

Anyone == Users \cup {Anonymous}
Anywhere == Institutions \cup {Nowhere}

ASSUME RowSecurityAssumption == Nowhere \notin Institutions /\ Anonymous \notin Users

Context == [institution : Anywhere, user : Anyone, bypass : BOOLEAN]
Scope(i, u, b) == [institution |-> i, user |-> u, bypass |-> b]
Deny == Scope(Nowhere, Anonymous, FALSE)

\* tenant_isolation and superadmin_bypass, on a row of institution i.
InReach(g, i) == g.bypass \/ g.institution = i
Reach(g) == {i \in Institutions : InReach(g, i)}

\* own_memberships: users see theirs wherever they are.
TenantOnly(g, u, i) == InReach(g, i)  \* wrong: no such policy
MembershipVisible(g, u, i) == InReach(g, i) \/ g.user = u

\* Audit events of no institution may always be appended.
Auditable(g, i) == i = Nowhere \/ InReach(g, i)
==============================================================================
