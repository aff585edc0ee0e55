SPECIFICATION Spec
CONSTANTS
  Setups <- WideSetups
  Quant <- MCQuant
  Methods = {"ISLOW", "IFAST"}
  Waves <- AllWaves
  CoefSlack = 3
  FastStep = 32
  SampleSlack = 1
INVARIANTS
  EveryCoefAccurate
CHECK_DEADLOCK FALSE
