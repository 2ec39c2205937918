------------------------------ MODULE MCPanel ------------------------------
(* The board Panel is model-checked with: two score buttons, the mode      *)
(* button and the two lights.                                              *)
EXTENDS Panel

CONSTANTS btn1, btn2

MCButtons == <<btn1, btn2>>
MCInputs == {btn1, btn2, BTN_SCORE}
MCPins == MCInputs \cup {LIGHT_SCORE, LIGHT_STATUS}
(* The pins requests name: a light, and a button they must not be able to   *)
(* mute for good.                                                          *)
MCApiPins == {LIGHT_STATUS, btn1}
MCThreads == {btnlight, reader, loop}
=============================================================================
