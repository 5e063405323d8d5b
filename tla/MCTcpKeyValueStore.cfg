CONSTANTS
  Clients = {c1, c2}
  Keys = {k1}
  Values = {v1, v2}
  NoValue = NoValue
  Zeros = Zeros
  FailureSets = {{"timeout"}, {"timeout", "death", "exit"}}
SPECIFICATION FairSpec
PROPERTIES ImplementsStore EveryRequestEnds
CHECK_DEADLOCK FALSE
