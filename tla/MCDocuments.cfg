SPECIFICATION Spec
CONSTANTS
  Documents = {d1, d2}
  Minutes = {m1}
  Contents = {h1, h2}
  Titles = {t1}
  ActaTypes = {inicio, cierre}
  Requests = {r1, r2}
  Unborn = Unborn
  Deleted = Deleted
  Bereft = Bereft
  NoObject = NoObject
  NoMinutes = NoMinutes
  MaxVersion = 2
  Objects <- OneObject
SYMMETRY Symmetry
INVARIANT TypeOK
INVARIANT SignatureVouches
PROPERTY VersionsAreUploaded
PROPERTY SignedStaysFrozen
CHECK_DEADLOCK FALSE
