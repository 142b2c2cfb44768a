CONSTANTS
  N = 5
  RefineBound = 20
  MiscBound = 20
  DCEBound = 6
  Programs <- MCPassedOver
SPECIFICATION Spec
INVARIANT BehaviourKept
