CONSTANTS
  Ids = {1, 2}
  Keys = {}
  NoKey = NoKey
  t1 = t1
  t2 = t2
  w1 = w1
  w2 = w2
  w3 = w3
  once = once
  twice = twice
  other = other
  Contents = {once, other}
  Targets = {t1, t2}
  TargetOf <- MCTargetOf
  LimitOf <- MCLimitOf
  Workers = {w1, w2}
  PerTarget = 1
  LeaseDuration = 2
  Backoffs = {1}
  Hung = {t1}
  Now = 2
  Times = {1, 2}
  Absent = Absent
  NoJob = NoJob
  Faults = {}
  FaultBound = 0
  RetryBound = 0
  AttemptBound = 3
SPECIFICATION FairSpec
PROPERTY EveryDeliveryEnds
