CONSTANTS
  N = 5
  RefineBound = 20
  MiscBound = 20
  DCEBound = 6
  Programs <- MCPrograms
SPECIFICATION FairSpec
INVARIANTS EdgesMatchCode LoopTreeNests NoDanglingBranch Settles NothingLeft
  BehaviourKeptUnlessStrayed ControlDepsPresent
PROPERTY Terminates
