SPECIFICATION FairSpec
CONSTANTS
  t1 = t1  t2 = t2  t3 = t3  w1 = w1  w2 = w2
  Tasks = {t1, t2, t3}
  Workers = {w1}
  Rankings <- MCRankings
  QueueSize = 1
  NoTask = NoTask
INVARIANTS SchedTypeOK QueueInOrder HandedOnce
PROPERTIES ImplementsFairLifecycle
