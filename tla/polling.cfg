SPECIFICATION Spec
CONSTANTS
  Sensors = 2
  FixedSeries = FALSE
  Recreation = TRUE
  MaxDrops = 2
  MaxPolls = 3
  MaxToggles = 2
INVARIANTS
  PollingInv
  LoggedIsPlotted
PROPERTIES
  ChartCrash
  StuckForGood
  SampledWhileLinked
CHECK_DEADLOCK FALSE
