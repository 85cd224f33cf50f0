SPECIFICATION FairSpec
CONSTANTS
  Runs = {s1, s2}
  Threads = {t1}
  Results = {"completed", "failed"}
  MaxIterations = 2
  MaxUses = 2
  MaxCrashes = 1
INVARIANTS TypeOK CompletedIsOwn ThreadUsable TurnsKept
PROPERTIES EveryRunEnds
CHECK_DEADLOCK FALSE
