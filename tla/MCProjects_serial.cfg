SPECIFICATION Spec
CONSTANTS
  Projects = {p1}
  Requests = {r1}
  Items = {i1}
  Members = {i1}
  Shared = {s1, s2}
  Contents = {c1}
  EndDates = {NoDate, d1}
  NoDate = NoDate
  NoRow = NoRow
  NoItem = NoItem
  MaxLog = 7
PROPERTY ImplementsRecord
CHECK_DEADLOCK FALSE
