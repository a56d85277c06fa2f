SPECIFICATION FairSpec
CONSTANTS
  Orders = 9
  Sentinel = Sentinel
  NoItem = NoItem
  Requested = 3
CHECK_DEADLOCK FALSE
INVARIANTS TypeOK StreamInOrder ReportComplete
PROPERTY PipelineEnds
