SPECIFICATION Spec
CONSTANTS
  Objects = {o1}
  Notifications = {n1}
  Workers = {w1, w2}
  Unborn = Unborn
  Deleted = Deleted
  Absent = Absent
  NoLog = NoLog
  Idle = Idle
  MAX_RETRIES = 1
  MaxWrites = 2
  MaxCopies = 1
INVARIANT TypeOK
INVARIANT StaleIsPending
INVARIANT MailedOnce
PROPERTY MailSettles
CHECK_DEADLOCK FALSE
