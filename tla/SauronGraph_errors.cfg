SPECIFICATION Spec
CONSTANTS
  Runs = {s1}
  Threads = {t1}
  Results = {"completed", "failed"}
  MaxIterations = 3
  MaxUses = 2
  MaxCrashes = 1
INVARIANTS LoopsUntilDone
CHECK_DEADLOCK FALSE
