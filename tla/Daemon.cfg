CONSTANTS
  Processes = {1, 2}
  Ids = {1, 2}
  Files = {11, 12, 13}
  NoFile = 0
  NoSocket = 0
  NotASocket = 99
SPECIFICATION FairSpec
INVARIANTS TypeOK OneOwner AcknowledgedKept EnqueuedOnce
PROPERTIES StartFailsForRivalsOnly ListenerKeepsName ShutdownEnds
