\* Audits by the bot and by the daily job overlap; two failures or restarts.
SPECIFICATION Spec
CONSTANTS
  LastUpdate = 3
  Kind <- MCKind
  Slots = {r1, r2}
  None = None
  MaxDay = 1
  MaxIngests = 1
  MaxDaily = 1
  MaxFaults = 2
CHECK_DEADLOCK FALSE
INVARIANTS
  TypeOK
  ConfirmedHandled
  StoredSurvives
  OneSnapshotPerDay
PROPERTIES
  EveryUpdateHandled
