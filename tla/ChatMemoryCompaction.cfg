SPECIFICATION Spec
CONSTANTS
  q1 = q1  q2 = q2  q3 = q3  q4 = q4
  Turns = {q1, q2, q3}
  DefaultLimit = 4
  Limits = {0}
  TranscriptLimit = 8
  MaxManual = 0
PROPERTIES CompactionDropsSummarized
