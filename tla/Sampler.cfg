SPECIFICATION Spec
CONSTANTS
  HistoryPoints = 2
  Levels = {"used"}
  Pollers <- MCPollers
  MaxTicks = 3
  MaxTokens = 1
  None = None
  NoScrape = NoScrape
  NoView = NoView
INVARIANTS
  CurveInventsNothing
  RatesShowOutages
  ViewsAreWhole
PROPERTIES
  ShownNeverGoesBack
  SamplingGoesOn
CHECK_DEADLOCK FALSE
