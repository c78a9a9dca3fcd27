SPECIFICATION ApprovalSpec
CONSTANTS
  Projects = {p1}
  Requests = {r1}
  Items = {}
  Members = {}
  Shared = {s1, s2}
  Contents = {full, blank}
  EndDates = {NoDate}
  NoDate = NoDate
  NoRow = NoRow
  NoItem = NoItem
  MaxLog = 5
  Instances = {w1, w2}
  Templates = {t1}
  CenterScoped = {}
  Editable = {t1}
  MaxSteps = 2
  Complete = {full}
  NoInstance = NoInstance
SYMMETRY Symmetry
INVARIANT FlowTypeOK
INVARIANT OneActiveInstance
INVARIANT StepsApprovedInOrder
PROPERTY CompletionIsEarned
PROPERTY ReviewHasInstance
