CONSTANTS
  Ids = {1}
  Keys = {}
  NoKey = NoKey
  t1 = t1
  t2 = t2
  w1 = w1
  w2 = w2
  w3 = w3
  once = once
  twice = twice
  other = other
  Contents = {once}
  Targets = {t1, t2}
  TargetOf <- MCTargetOf
  LimitOf <- MCLimitOf
  Workers = {w1, w2}
  PerTarget = 2
  LeaseDuration = 2
  Backoffs = {1}
  Hung = {}
  Now = 2
  Times = {1, 2}
  Absent = Absent
  NoJob = NoJob
  Faults = {"slow"}
  FaultBound = 1
  RetryBound = 1
  AttemptBound = 3
SPECIFICATION Spec
PROPERTY LateWorkerCannotOverwrite
