SPECIFICATION Spec
CONSTANTS
  q1 = q1  q2 = q2  q3 = q3  q4 = q4
  Turns = {q1, q2, q3}
  DefaultLimit = 4
  Limits = {0, 2, 3}
  TranscriptLimit = 3
  MaxManual = 2
SYMMETRY Symmetry
INVARIANTS TypeOK OneSummariser MemoryIsRecent NothingTwice
PROPERTIES SummaryKept
