CONSTANTS
  N = 4
  PR = {"x", "y"}
  SweepBound = 1000
  FadeBound = 100
  DropBound = 1
  Programs <- MCPrograms
SPECIFICATION FairSpec
INVARIANTS TypeOK SolvedIsLive InsideValuesStayLive FewSweeps
  ReadsSeeTheirVersion OperandsSeeTheirVersion PhisMerge
PROPERTY GetsBuilt
