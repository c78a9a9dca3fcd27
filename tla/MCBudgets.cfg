SPECIFICATION Spec
CONSTANTS
  Projects = {p1}
  Budgets = {b1, b2}
  Lines = {l1}
  Executions = {e1, e2}
  Attachments = {x1}
  FundingSources = {s1}
  Amounts = {0, 1, 2}
  Requests = {r1, r2}
  NoRow = NoRow
  Nobody = Nobody
SYMMETRY Symmetry
INVARIANT TypeOK
INVARIANT UnauthorizedFits
CHECK_DEADLOCK FALSE
