CONSTANTS
  Ids = {1, 2}
  Keys = {}
  NoKey = NoKey
  Contents = {c1}
  LeaseDuration = 1
  Times = {1}
  Absent = Absent
  NoFile = NoFile
  Faults = {"io", "kill", "power", "torn"}
  MaxJournal = 0
  JournalBound = 2
  AttemptBound = 1
  ShadowBound = 2
SPECIFICATION Spec
INVARIANTS TypeOK EveryCrashRecoverable MemoryMatchesJournal
PROPERTY RecoveryKeepsPromises
\* a journal no Open can read stops the daemon for good
CHECK_DEADLOCK FALSE
