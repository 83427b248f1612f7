SPECIFICATION Spec
CONSTANTS
    w1 = w1
    w2 = w2
    Workers = {w1, w2}
    Depth = 2
    SegmentSize = 2
    Capacity = 4
    Sources <- MCSources
INVARIANTS
  PipelineInv
  SnapshotComplete
PROPERTIES
  EveryRunEnds
CHECK_DEADLOCK FALSE
