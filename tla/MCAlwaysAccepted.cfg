SPECIFICATION Spec
CONSTANTS
  Captures = {c1}
  Posts = {}
  Batches = {}
  Unlabelled = {}
  Synthesized = {c1}
  Workers = {w1}
  SinkOrder <- OneSink
  QueueSize = 1
INVARIANT AlwaysAccepted
