\* A published list stands in the feed beside the diary.
SPECIFICATION Spec
CONSTANTS
  Films = {"f", "g"}
  Watchers = {"w"}
  SyncWatcher = "w"
  Syncers = {"/sync", "cron"}
  Entries <- DiaryWithList
  MaxRates = 0
  MaxWeek = 0
  MaxFaults = 0
CHECK_DEADLOCK FALSE
INVARIANTS
  NewEntriesFiled
