SPECIFICATION PoolSpec
CONSTANTS
  t1 = t1  t2 = t2  w1 = w1  w2 = w2
  QueueSize = 1
  NoTask = NoTask
  Tasks = {t1, t2}
  Workers = {w1}
INVARIANTS WaitCoversAnswers
