SPECIFICATION Spec
CONSTANTS
  t1 = t1  t2 = t2  t3 = t3  w1 = w1  w2 = w2
  Rankings <- PairRankings
  QueueSize = 2
  NoTask = NoTask
  Tasks = {t1, t2}
  Workers = {w1}
INVARIANTS BusyKeepsQueue
