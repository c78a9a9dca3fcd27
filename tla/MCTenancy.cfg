SPECIFICATION Spec
CONSTANTS
  Institutions = {i1, i2}
  Users = {u1, root}
  Superusers = {root}
  Members = {u1}
  Sessions = {s1}
  WebWorkers = {w1, w2}
  TaskWorkers = {w1, w2}
  MaxFaults = 1
  Forms <- ActiveOrPrimary
  Nowhere = Nowhere
  Anonymous = Anonymous
  NoContext = NoContext
  NoRow = NoRow
  Idle = Idle
  Sedes = {sede}
  Facultades = {}
  Centers = {center}
  Groups = {group}
  Lines = {}
  Researchers = {researcher}
  Affiliations = {affiliation}
  Requests = {r1, r2}
  MaxMoved = 1
  Missing = Missing
  Waiting = Waiting
SYMMETRY Symmetry
INVARIANT TenancyTypeOK
INVARIANT OrganisationTypeOK
INVARIANT TenantIsolation
INVARIANT OnePrimary
INVARIANT ParentsAreLocal
