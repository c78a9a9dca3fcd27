SPECIFICATION Spec
CONSTANTS
  Projects = {p1}
  Requests = {r1, r2}
  Items = {i1}
  Members = {i1}
  Shared = {s1, s2}
  Contents = {c1}
  EndDates = {NoDate}
  NoDate = NoDate
  NoRow = NoRow
  NoItem = NoItem
  MaxLog = 3
SYMMETRY Symmetry
INVARIANT TypeOK
INVARIANT StatusAccountedFor
INVARIANT HistoryGrounded
INVARIANT OneObservationPerEntry
INVARIANT NothingOutlivesItsProject
PROPERTY ClosedIsFinal
CHECK_DEADLOCK FALSE
