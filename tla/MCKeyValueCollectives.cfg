CONSTANTS
  a = a long = long
  MaxProcesses = 3
  SizeOf <- MCSizeOf
  Undefined = 99
  SortKeys = {0, 1}
  Groups <- MCGroups
  Workloads <- MCWorkloads
SPECIFICATION FairSpec
INVARIANTS SameNameSameContext BroadcastFromRoot
PROPERTIES GathersRounds GatherCompletes
CHECK_DEADLOCK FALSE
