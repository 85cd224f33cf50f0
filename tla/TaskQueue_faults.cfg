SPECIFICATION Spec
CONSTANTS
  c1 = c1
  c2 = c2
  none = none
  other = other
  Requests = {r1, r2}
  Workers = {w1, w2}
  ShellCommands <- MCShell
  EmptyCommands <- MCEmpty
  OtherTasks <- MCOther
  Plans <- MCSinglePlans
  Policies <- MCPolicies
  NoRequest = NoRequest
  MaxTasks = 1
  ResultTTL = 2
  CommandTimeout = 1
  WaitTimeout = 1
  MaxFaults = 1
SYMMETRY Symmetry
INVARIANTS
  TypeOK
  EntryInOnePlace
  StatusTruthful
PROPERTIES
  NeverRunTwice
  StatusForward
  ImplementsTaskService
