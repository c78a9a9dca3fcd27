SPECIFICATION ReportsSpec
CONSTANTS
  Advances = {a1}
  Requests = {r1, r2}
  Documents = {d1}
  Percents = {1}
  NoRow = NoRow
  NoItem = NoItem
  Actors = {"member", "director"}
  Stages = {"execution"}
  MaxLog = 1
  MaxReviews = 1
  Kinds = {"project"}
  MaxIssued = 1
SYMMETRY Symmetry
INVARIANT ReportsTypeOK
INVARIANT LogIsTruthful
INVARIANT ReviewedBeforeLogged
INVARIANT ApprovalsLoggedAreCounted
INVARIANT ProgressWasGranted
 
INVARIANT ApprovedIsSigned
CHECK_DEADLOCK FALSE
