SPECIFICATION Spec
CONSTANTS
  t1 = t1  t2 = t2  t3 = t3  t4 = t4
  Tasks = {t1, t2}
  MaxTasks = 3
  MaxAttempts = 2
INVARIANTS SucceededWasApproved
CHECK_DEADLOCK FALSE
