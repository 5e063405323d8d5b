SPECIFICATION Spec
CONSTANTS
  Addrs = {a1, a2, a3, a4, a5, a6}
  NoAddr = NoAddr
  Traces = {1, 2, 3, 4, 5}
  Ops = {"f", "g"}
  Stageable = {"f"}
  MaxVariants = 2
  Workloads <- MCWorkloads
SYMMETRY Symmetry
INVARIANTS NothingDangles SlotsAreApart ReplayReadsTheArgument ReplayOverwritesOnlyLate CapturesSettle
