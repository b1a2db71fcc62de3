CONSTANTS
  Ids = {1, 2}
  Keys = {k1}
  NoKey = NoKey
  Contents = {c1}
  LeaseDuration = 1
  Times = {1}
  Absent = Absent
  NoFile = NoFile
  Faults = {"io", "kill"}
  MaxJournal = 2
  JournalBound = 3
  AttemptBound = 1
  ShadowBound = 1
SPECIFICATION Spec
INVARIANT KeyIndexAgrees
PROPERTY ImplementsSpool
