SPECIFICATION PanelFairSpec
CONSTANTS
  btnlight = btnlight
  reader = reader
  loop = loop
  btn1 = btn1
  btn2 = btn2
  BTN_SCORE = BTN_SCORE
  LIGHT_SCORE = LIGHT_SCORE
  LIGHT_STATUS = LIGHT_STATUS
  Buttons <- MCButtons
  Inputs <- MCInputs
  Pins <- MCPins
  Threads <- MCThreads
  ApiPins <- MCApiPins
  ApiCalls = {"write", "read", "pulse"}
  Disturbances = {"direction", "spawn", "restart"}
  MaxRestarts = 1
INVARIANT PanelTypeOK
INVARIANT LightFollowsModeSinceBoot
PROPERTY OneTogglePerPress
PROPERTY ButtonIsHeard
