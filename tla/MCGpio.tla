------------------------------- MODULE MCGpio -------------------------------
(* The pins and threads Gpio is model-checked with.                        *)
EXTENDS Gpio, TLC

CONSTANTS light, lamp, button, loop, btnlight

MCPins == {light, lamp, button}
MCInputs == {button}
MCThreads == {loop, btnlight}

Symmetry == Permutations(MCThreads) \cup Permutations({light, lamp})
=============================================================================
