SPECIFICATION FairSpec
CONSTANTS
  c1 = c1
  c2 = c2
  none = none
  other = other
  Requests = {r1}
  Workers = {w1, w2}
  ShellCommands <- MCShell
  EmptyCommands <- MCEmpty
  OtherTasks <- MCOther
  Plans <- MCPlans
  Policies <- MCPolicies
  NoRequest = NoRequest
  MaxTasks = 2
  ResultTTL = 2
  CommandTimeout = 1
  WaitTimeout = 1
  MaxFaults = 1
INVARIANTS
  WorkflowOrder
  CompletedAnswerSound
PROPERTIES
  EveryRequestAnswered
  EveryTaskSettles
