SPECIFICATION FairSpec
CONSTANTS
  light = light
  lamp = lamp
  button = button
  loop = loop
  btnlight = btnlight
  Pins <- MCPins
  Inputs <- MCInputs
  Threads <- MCThreads
  Disturbances = {}
  MaxRestarts = 1
INVARIANT NothingOrphaned
INVARIANT PulseLeavesInactive
PROPERTY AlwaysReleased
