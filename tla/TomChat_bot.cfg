\* Two turns of three viewers in one channel, or of Sauron, with one failure
\* or restart and one slash command.
SPECIFICATION Spec
CONSTANTS
  Turns = {t1, t2}
  Users = {"owner", "guest", "dispatch"}
  Scopes = {"channel", "dispatch"}
  None = None
  NoName = "nobody"
  DispatchUser = "dispatch"
  DispatchScope = "dispatch"
  Names <- MCNames
  Configured <- MCConfigured
  Overrides <- MCOverrides
  Messages <- MCMessages
  PrefValues = {"yes", "junk"}
  Attempts = 2
  HistoryMax = 1
  MaxTokens = 1
  MaxFaults = 1
  MaxCommands = 1
CHECK_DEADLOCK FALSE
INVARIANTS
  TypeOK
  DraftsSettleOnce
  HistoryPaired
  ConsentKept
PROPERTIES
  EveryTurnEnds
