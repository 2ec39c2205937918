------------------------------- MODULE Panel -------------------------------
(***************************************************************************)
(* The push buttons and lights of the scanner (src/stumon/stumon_btnlight  *)
(* .c), on top of the GPIO functions of Gpio.  Three threads share the     *)
(* pins: the longrunner that scans the buttons, the tag reader that blinks *)
(* the status light for a tag it found, and the event loop, in which the   *)
(* GPIO requests of the JSON API run.                                      *)
(*                                                                         *)
(* A scan looks at the buttons one after the other; a press, a release and *)
(* the steps of the other threads come in between.                         *)
(***************************************************************************)
EXTENDS Gpio, Sequences

CONSTANTS
    btnlight, reader, loop,   \* the three threads
    Buttons,                  \* BTN1, BTN2, ...: the score buttons in scan order
    BTN_SCORE,                \* the button that toggles the score mode
    LIGHT_SCORE,              \* the light that shows the score mode
    LIGHT_STATUS,             \* the light that blinks for a tag
    ApiPins,                  \* the pins API requests name
    ApiCalls                  \* "write", "read", "pulse": what they do with them

ASSUME ThreadsAssumption ==
    /\ {btnlight, reader, loop} \subseteq Threads
    /\ btnlight # reader /\ reader # loop /\ loop # btnlight
ASSUME PinsAssumption ==
    /\ {LIGHT_SCORE, LIGHT_STATUS} \cup ApiPins \subseteq Pins
    /\ Buttons \in Seq(Inputs) /\ Buttons # <<>>
    /\ BTN_SCORE \in Inputs
ASSUME CallsAssumption == ApiCalls \subseteq {"write", "read", "pulse"}

VARIABLES
    pressed,             \* the buttons held down
    status_score,        \* the score mode is on
    status_score_last,   \* _status_score_last: how the last scan saw BTN_SCORE
    last_score,          \* the score selected last
    scan,                \* what the scan does next
    button,              \* while it looks at score buttons: the one it is at
    letgo                \* history: BTN_SCORE was up since the mode changed

panel == <<status_score, status_score_last, last_score, scan, button, letgo>>
panelVars == <<vars, pressed, panel>>

Scores == 1..Len(Buttons)

PanelTypeOK ==
    /\ TypeOK
    /\ pressed \subseteq Inputs
    /\ status_score \in BOOLEAN
    /\ status_score_last \in Levels
    /\ last_score \in Scores
    /\ scan \in {"score", "mode", "light", "writing"}
    /\ button \in Scores
    /\ letgo \in BOOLEAN

PanelInit ==
    /\ Init
    /\ pressed = {}
    /\ status_score = FALSE
    /\ status_score_last = "low"
    /\ last_score = 1
    /\ scan = "score"
    /\ button = 1
    /\ letgo = TRUE
-----------------------------------------------------------------------------
(* People.                                                                 *)

Press(b) ==
    /\ b \notin pressed
    /\ pressed' = pressed \cup {b}
    /\ UNCHANGED <<vars, panel>>

LetGo(b) ==
    /\ b \in pressed
    /\ pressed' = pressed \ {b}
    /\ letgo' = (letgo \/ b = BTN_SCORE)
    /\ UNCHANGED <<vars, status_score, status_score_last, last_score, scan, button>>
-----------------------------------------------------------------------------
(* The longrunner stumon_btnlight_longrunner_entrypoint.                   *)

(* gpio_get_state: a button that is not exported reads as an error, which  *)
(* counts as not pressed; one turned into an output reads what it drives.  *)
IsHigh(b) ==
    /\ b \in exported
    /\ IF dir[b] = "in" THEN b \in pressed ELSE level[b] = "high"

(* The chain of else-ifs: the first score button that is down selects its  *)
(* score and ends the chain.                                               *)
SelectScore_Short ==
    /\ scan = "score"
    /\ LET found == IsHigh(Buttons[button])
           more  == ~found /\ button + 1 < Len(Buttons)
       IN /\ last_score' = IF found THEN button ELSE last_score
          /\ button' = IF more THEN button + 1 ELSE 1
          /\ scan' = IF more THEN "score" ELSE "mode"
    /\ UNCHANGED <<vars, pressed, status_score, status_score_last, letgo>>
SelectScore_FromZero ==
    /\ scan = "score"
    /\ LET found == IsHigh(Buttons[button])
           more  == ~found /\ button < Len(Buttons)
       IN /\ last_score' = IF found THEN button - 1 ELSE last_score
          /\ button' = IF more THEN button + 1 ELSE 1
          /\ scan' = IF more THEN "score" ELSE "mode"
    /\ UNCHANGED <<vars, pressed, status_score, status_score_last, letgo>>
SelectScore ==
    /\ scan = "score"
    /\ LET found == IsHigh(Buttons[button])
           more  == ~found /\ button < Len(Buttons)
       IN /\ last_score' = IF found THEN button ELSE last_score
          /\ button' = IF more THEN button + 1 ELSE 1
          /\ scan' = IF more THEN "score" ELSE "mode"
    /\ UNCHANGED <<vars, pressed, status_score, status_score_last, letgo>>

(* BTN_SCORE toggles the mode when it is down and was up in the last scan. *)
RisingEdge_Level(now) == now
RisingEdge(now) == now /\ status_score_last = "low"

ToggleMode ==
    /\ scan = "mode"
    /\ LET now  == IsHigh(BTN_SCORE)
           rise == RisingEdge(now)
       IN /\ status_score' = IF rise THEN ~status_score ELSE status_score
          /\ status_score_last' = IF now THEN "high" ELSE "low"
          /\ scan' = IF rise THEN "light" ELSE "score"
          /\ letgo' = IF rise THEN BTN_SCORE \notin pressed
                      ELSE letgo \/ BTN_SCORE \notin pressed
    /\ UNCHANGED <<vars, pressed, last_score, button>>

(* set_light_score writes the light and ignores the result.                *)
ModeLevel_Inverted == IF status_score THEN "low" ELSE "high"
ModeLevel == IF status_score THEN "high" ELSE "low"

ShowMode ==
    /\ scan = "light"
    /\ Reserve(btnlight, "write", LIGHT_SCORE, ModeLevel)
    /\ scan' = "writing"
    /\ UNCHANGED <<pressed, status_score, status_score_last, last_score, button, letgo>>

(* The call has returned; the longrunner sleeps and scans again.           *)
NextScan ==
    /\ scan = "writing"
    /\ job[btnlight] = NoJob
    /\ scan' = "score"
    /\ UNCHANGED <<vars, pressed, status_score, status_score_last, last_score, button, letgo>>

Scan ==
    \/ SelectScore \/ ToggleMode \/ ShowMode \/ NextScan
    \/ CallStep(btnlight) /\ UNCHANGED <<pressed, panel>>
-----------------------------------------------------------------------------
(* The other threads and restarts.                                         *)

(* light_status_blink, for a tag the reader found.                         *)
Blink ==
    /\ \/ Reserve(reader, "pulse", LIGHT_STATUS, "high")
       \/ CallStep(reader)
    /\ UNCHANGED <<pressed, panel>>

(* A GPIO request: gpio_get_status and each pin of gpio_get_overview only   *)
(* reserve and release; gpio_put_direction does not even reserve.          *)
ApiRead == "read" \in ApiCalls /\ \E p \in ApiPins : Reserve(loop, "read", p, "low")
ApiWrite ==
    "write" \in ApiCalls /\ \E p \in ApiPins, v \in Levels : Reserve(loop, "write", p, v)
ApiPulse ==
    "pulse" \in ApiCalls /\ \E p \in ApiPins, v \in Levels : Reserve(loop, "pulse", p, v)
ApiDirection == \E p \in ApiPins, d \in Directions : SetDirection(loop, p, d)

(* The event loop takes the next request when the call has returned.       *)
ApiRequest ==
    /\ ApiRead \/ ApiWrite \/ ApiPulse \/ ApiDirection \/ CallStep(loop)
    /\ UNCHANGED <<pressed, panel>>

Pulses == (\E p \in Pins : PulseStep(p)) /\ UNCHANGED <<pressed, panel>>

(* The statics start over, the pins stay as they were.                     *)
PanelRestart ==
    /\ Restart
    /\ status_score' = FALSE
    /\ status_score_last' = "low"
    /\ last_score' = 1
    /\ scan' = "score"
    /\ button' = 1
    /\ letgo' = TRUE
    /\ UNCHANGED pressed

PanelNext ==
    \/ \E b \in Inputs : Press(b) \/ LetGo(b)
    \/ Scan \/ Blink \/ ApiRequest \/ Pulses \/ PanelRestart

PanelSpec == PanelInit /\ [][PanelNext]_panelVars

(* The longrunner's thread is scheduled.                                   *)
PanelFairSpec == PanelSpec /\ WF_panelVars(Scan)
-----------------------------------------------------------------------------
Lit(p) == dir[p] = "out" /\ level[p] = "high"

(* Between two writes of it, the score light shows the score mode:         *)
(* status_score is documented as "true when the score light is on".        *)
LightFollowsMode ==
    scan \notin {"light", "writing"} => (Lit(LIGHT_SCORE) <=> status_score)

(* It does until the program restarts, if nobody else uses the light: no   *)
(* request names it.  Nor does the display, which Panel leaves out: its     *)
(* reset line (SCREEN_SSD1303_RES of config.h) has the number of           *)
(* LIGHT_SCORE, and setting up the screen would switch the light off or on.*)
LightFollowsModeSinceBoot == restarts = 0 => LightFollowsMode

(* Holding BTN_SCORE down, however long, changes the mode once: it must    *)
(* have been up since the mode last changed.  Requires that no request     *)
(* makes BTN_SCORE an output and drives it (it is not in ApiPins).         *)
OneTogglePerPress ==
    [][status_score' # status_score => restarts' # restarts \/ letgo]_panelVars

(* A score button held down alone is selected in the end and stays so,     *)
(* whatever the other threads do with the pins, as long as the score       *)
(* buttons are inputs.  gpio_put_direction needs no reservation: a request *)
(* that makes a button an output leaves it deaf, or down for good and      *)
(* masking the buttons after it, until a request or restart undoes it.     *)
ButtonIsHeard ==
    \A i \in Scores :
        <>[](/\ pressed \cap {Buttons[j] : j \in Scores} = {Buttons[i]}
            /\ \A j \in Scores : dir[Buttons[j]] = "in")
            => <>[](last_score = i)
=============================================================================
