\* Duplicate programs in one group, two workers, and what a second group finds.
SPECIFICATION FairSpec
CONSTANTS
  Programs <- MCPrograms
  WritesLp = {p, h}
  Endless = {h}
  Size <- MCSize
  Main = Main
  PoolIdents = {t1, t2}
  MaxWorkers = 2
  Groups <- MCGroups
  Cases = 1
  MaxGroups = 2
  MaxClock = 2
  None = None
  p = p
  q = q
  h = h
  t1 = t1
  t2 = t2
INVARIANTS
  FreshStructure
  OwnProgram
PROPERTIES
  ImplementsMemo
  GroupsAreScored
