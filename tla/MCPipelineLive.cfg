SPECIFICATION HangingSinkSpec
CONSTANTS
  Captures = {c1}
  Posts = {p1}
  Batches <- SingleEvent
  Unlabelled = {}
  Synthesized = {c1}
  Workers = {w1}
  SinkOrder <- OneSink
  QueueSize = 1
PROPERTIES
  HandlersFinish
  ShutdownTerminates
  RecordsFinish
