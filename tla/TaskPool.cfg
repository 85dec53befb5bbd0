SPECIFICATION FairPoolSpec
CONSTANTS
  t1 = t1  t2 = t2  w1 = w1  w2 = w2
  Tasks = {t1, t2}
  Workers = {w1, w2}
  QueueSize = 1
  NoTask = NoTask
INVARIANTS
  TypeOK CountersExact OnePlace AnswerMatchesStatus
  WaitCoversHandlers CrashOnlyByLateAdd
PROPERTIES ImplementsLifecycle PoolEnds
