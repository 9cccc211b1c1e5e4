SPECIFICATION MCSpec
CONSTANTS
  Captures = {c1, c2}
  Posts = {p1}
  Batches <- AllBatches
  Unlabelled = {c1, c2}
  Synthesized = {c1, c2}
  Workers = {w1, w2}
  SinkOrder <- AllSinks
  QueueSize = 1
SYMMETRY Symmetry
INVARIANTS
  Conservation
  NotYetWritten
  OnlyRedacted
  LossCounted
  CleanDrain
  AnswersTruthful
  EveryCaptureCounted
