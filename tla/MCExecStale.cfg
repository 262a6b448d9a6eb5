\* The r3 runs of two trajectories in the same second.
SPECIFICATION Spec
CONSTANTS
  Programs <- MCPrograms
  WritesLp = {p, h}
  Endless = {h}
  Size <- MCSize
  Main = Main
  PoolIdents = {t1, t2}
  MaxWorkers = 2
  Groups <- MCPairs
  Cases = 2
  MaxGroups = 1
  MaxClock = 1
  None = None
  p = p
  q = q
  h = h
  t1 = t1
  t2 = t2
INVARIANTS
  OwnProgramInCases
