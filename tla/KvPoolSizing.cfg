CONSTANTS
  Configs <- MCConfigs
  Options <- MCOptions
  Lens <- MCLens
  Pools <- MCPools
SPECIFICATION Spec
INVARIANTS
  AdviceSettles
  AcceptedLaunchFits
  PageHoldsState
