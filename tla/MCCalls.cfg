SPECIFICATION Spec
CONSTANTS
  Calls = {c1, c2}
  Projects = {p1}
  Documents = {d1}
  Requests = {r1, r2}
  NoRow = NoRow
  NoEntry = NoEntry
  NoItem = NoItem
SYMMETRY Symmetry
INVARIANT TypeOK
INVARIANT LinksAreEarned
PROPERTY LoggedAsTaken
PROPERTY ArchivedIsFinal
CHECK_DEADLOCK FALSE
