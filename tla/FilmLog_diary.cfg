\* Two syncs at once, the bot's own saves and deletions, two weeks, one failure.
SPECIFICATION Spec
CONSTANTS
  Films = {"f"}
  Watchers = {"w"}
  SyncWatcher = "w"
  Syncers = {"/sync", "cron"}
  Entries <- Diary
  MaxRates = 2
  MaxWeek = 1
  MaxFaults = 1
CHECK_DEADLOCK FALSE
INVARIANTS
  TypeOK
  NotesAgree
  NewEntriesFiled
  AnnouncedOnce
