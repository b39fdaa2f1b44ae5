SPECIFICATION Spec
CONSTANTS
  GroupSize = 2
  Weights <- MCWeights
  Ratios = {10, 8, 6}
  Whole = 10
  TrunkBits = 1
  ScaleBits = 2
  Exponents <- MCExponents
  Configs = {"B0", "H8"}
  Base = "B0"
  Other = "H8"
  Dense = {"d1"}
  Probes = {"p1"}
  Answers <- MCAnswers
  MaxDeaths = 1
  None = None
INVARIANTS
  LoadableMeansWhole
  HeadMatchesOneGroup
  HeadIsRecovered
  ComparedAreTheConfigs
  DoneMeansStored
CHECK_DEADLOCK FALSE
