CONSTANTS
  Ids = {1}
  Keys = {k1}
  NoKey = NoKey
  Contents = {c1}
  LeaseDuration = 1
  Times = {1}
  Absent = Absent
  NoFile = NoFile
  Faults = {"io"}
  MaxJournal = 0
  JournalBound = 3
  AttemptBound = 1
  ShadowBound = 1
SPECIFICATION Spec
INVARIANT MutationsWaitForRepair
