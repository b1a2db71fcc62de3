CONSTANTS
  Ids = {1, 2}
  Keys = {}
  NoKey = NoKey
  Contents = {c1}
  LeaseDuration = 1
  Times = {1, 2}
  Absent = Absent
  NoFile = NoFile
  Faults = {}
  MaxJournal = 0
  JournalBound = 4
  AttemptBound = 2
  ShadowBound = 1
SPECIFICATION Spec
INVARIANT EveryCrashRecoverable
PROPERTY ClaimsInOrder
