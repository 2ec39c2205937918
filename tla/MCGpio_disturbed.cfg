SPECIFICATION Spec
CONSTANTS
  light = light
  lamp = lamp
  button = button
  loop = loop
  btnlight = btnlight
  Pins <- MCPins
  Inputs <- MCInputs
  Threads <- MCThreads
  Disturbances = {"direction", "spawn", "restart"}
  MaxRestarts = 1
SYMMETRY Symmetry
INVARIANT TypeOK
INVARIANT Exclusive
INVARIANT ButtonsStayReserved
