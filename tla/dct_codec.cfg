SPECIFICATION Spec
CONSTANTS
  Setups <- MCSetups
  Quant <- MCQuant
  Methods = {"ISLOW", "IFAST"}
  Waves <- AllWaves
  CoefSlack = 3
  FastStep = 32
  SampleSlack = 1
INVARIANTS
  CoefsAccurate
  RoundTrip
CHECK_DEADLOCK FALSE
