SPECIFICATION ProcessesSpec
CONSTANTS
  p1 = p1 p2 = p2 p3 = p3
  t1 = t1 u1 = u1 t2 = t2 t3 = t3
  c1 = c1 c2 = c2 c3 = c3
  Processes = {p1, p2, p3}
  Threads = {t1, u1, t2, t3}
  ProcessOf <- MCProcessOf
  Files = 2
  MayFail = TRUE
  NoOne = NoOne
  Callers = {t1, u1}
  Clients = {c1, c2, c3}
  MaxInstances = 3
INVARIANTS ReadyMeansComplete ClientsHaveTheInstance ClosedBeforeTearDown
PROPERTIES EveryThreadGetsThrough ExitCompletes
CHECK_DEADLOCK FALSE
