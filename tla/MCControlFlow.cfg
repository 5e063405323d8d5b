SPECIFICATION FlowSpec
CONSTANTS
  Carries = {i, x}
  Values <- EndsAndSmall
  HalfRange = 4
  Word = 32
  NoCarry = none
  MaxNames = 3
  MaxTensors = 3
  MaxDepth = 2
  LoopInputs = 2
  CaseInputs = 1
INVARIANTS NothingNamedIsFreed
PROPERTIES ImplementsWhile ReplaysOverwriteNothing FlagsComeBack
SYMMETRY Symmetry
