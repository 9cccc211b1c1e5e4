SPECIFICATION ScrapeSpec
CONSTANTS
  Captures = {c1}
  Posts = {}
  Batches = {}
  Unlabelled = {c1}
  Synthesized = {c1}
  Workers = {w1}
  SinkOrder <- OneSink
  QueueSize = 1
INVARIANT PossibleRatios
