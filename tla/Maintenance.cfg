CONSTANTS
  Slots = {1, 2}
  RecordBytes = 2
  TombstoneBytes = 1
  MaxJournalBytes = 6
  Thresholds = {0, 3, 7}
  Retentions = {0, 1}
  FaultBound = 2
  RetryBound = 1
  SizeBound = 8
  LagBound = 1
SPECIFICATION Spec
INVARIANTS TypeOK CompactionNeverGrows
PROPERTIES Repaired HistoryExpires RedundancyReclaimed JournalReopens
\* without maintenance a store whose disk failed refuses every mutation
CHECK_DEADLOCK FALSE
