------------------------------- MODULE Lights -------------------------------
(***************************************************************************)
(* The light HAL (aidl/light/Lights.cpp): backlight, touch keys and one    *)
(* LED that battery, notifications and attention share.  Every call holds  *)
(* mLock from start to end, so each is one step.  A colour has three       *)
(* channels of 0 .. MaxChannel; the mask has taken off the rest.  A write  *)
(* to a node may fail, which set() does not notice.                        *)
(***************************************************************************)
EXTENDS Integers

CONSTANTS
  MaxChannel,            \* 255: MAX_INPUT_BRIGHTNESS and the largest channel
  LightStates,           \* [r, g, b, flashMode, flashOnMs, flashOffMs]: what is asked for
  AdjustR, AdjustG, AdjustB, AdjustOne,   \* LED_ADJUSTMENT_* are AdjustX / AdjustOne
  LedBrightness,         \* LED_BRIGHTNESS_* for each of LedLights
  PanelMaxima            \* what PANEL_MAX_BRIGHTNESS_NODE may hold

LedLights == {"BATTERY", "NOTIFICATIONS", "ATTENTION"}
Channel == 0 .. MaxChannel
FlashModes == {"NONE", "TIMED", "HARDWARE"}
HwLightState == [r : Channel, g : Channel, b : Channel, flashMode : FlashModes,
                 flashOnMs : Nat, flashOffMs : Nat]

ASSUME LightsAssumption ==
  /\ MaxChannel \in Nat \ {0}
  /\ LightStates \subseteq HwLightState
  /\ AdjustOne \in Nat \ {0}
  /\ AdjustR \in 0 .. AdjustOne /\ AdjustG \in 0 .. AdjustOne /\ AdjustB \in 0 .. AdjustOne
  /\ LedBrightness \in [LedLights -> 0 .. MaxChannel]
  /\ PanelMaxima \subseteq Nat

VARIABLES
  state,       \* mBatteryState, mNotificationState, mAttentionState
  led,         \* LED_BLINK_NODE: colour, on and off time
  bln,         \* LED_BLN_NODE
  panel,       \* PANEL_BRIGHTNESS_NODE
  panelMax,    \* PANEL_MAX_BRIGHTNESS_NODE
  buttons,     \* BUTTON_BRIGHTNESS_NODE
  asked,       \* history: the last backlight state
  ledCurrent,  \* history: the last write to the LED went through
  panelCurrent \* history: and the last one to the panel

vars == <<state, led, bln, panel, panelMax, buttons, asked, ledCurrent, panelCurrent>>
ledVars == <<state, led, bln, ledCurrent>>
panelVars == <<panel, panelMax, asked, panelCurrent>>

Off == [r |-> 0, g |-> 0, b |-> 0, flashMode |-> "NONE", flashOnMs |-> 0, flashOffMs |-> 0]
Dark == [color |-> 0, on |-> 0, off |-> 0]

Init ==
  /\ state = [l \in LedLights |-> Off] /\ led = Dark /\ bln = 0
  /\ panel = 0 /\ panelMax \in PanelMaxima /\ buttons = 0 /\ asked = Off
  /\ ledCurrent = TRUE /\ panelCurrent = TRUE

-----------------------------------------------------------------------------
\* color & COLOR_MASK.
Lit(s) == s.r + s.g + s.b > 0

\* The bytes of a colour.
Pack(r, g, b) == (r * (MaxChannel + 1) + g) * (MaxChannel + 1) + b
Blue(c) == c % (MaxChannel + 1)
Green(c) == (c \div (MaxChannel + 1)) % (MaxChannel + 1)
Red(c) == c \div ((MaxChannel + 1) * (MaxChannel + 1))

\* One channel of calibrateColor.
Calibrate(c, adjust, brightness) == (((c * adjust) \div AdjustOne) * brightness) \div MaxChannel

calibrateColor(s, brightness) ==
  Pack(Calibrate(s.r, AdjustR, brightness), Calibrate(s.g, AdjustG, brightness),
       Calibrate(s.b, AdjustB, brightness))

\* Mutant: one weight is wrong.
RgbToBrightnessHeavy(s) == (77 * s.r + 150 * s.g + 129 * s.b) \div 256

\* The weights of rgbToBrightness add up to 256.
rgbToBrightness(s) == (77 * s.r + 150 * s.g + 29 * s.b) \div 256

\* An attention light that flashes by hardware is blue; one that does not
\* flash, or is on all the time, has no colour.
AttentionState(s) ==
  LET steady == s.flashMode = "HARDWARE" /\ s.flashOnMs > 0 /\ s.flashOffMs = 0
      mode == IF steady THEN "NONE" ELSE s.flashMode
      blue == [s EXCEPT !.r = 0, !.g = 0, !.b = MaxChannel]
      coloured == IF s.flashMode = "HARDWARE" THEN blue ELSE s
  IN  IF mode = "NONE" THEN [coloured EXCEPT !.r = 0, !.g = 0, !.b = 0, !.flashMode = mode]
      ELSE coloured

\* What is written for the light that is shown.
LedValue(light, s) ==
  [color |-> calibrateColor(s, LedBrightness[light]),
   on |-> IF s.flashMode = "NONE" THEN 0 ELSE s.flashOnMs,
   off |-> IF s.flashMode = "NONE" THEN 0 ELSE s.flashOffMs]

\* The order of setNotificationLED: notifications, attention, battery.
Shown(st) ==
  CASE Lit(st["NOTIFICATIONS"]) -> "NOTIFICATIONS"
    [] ~Lit(st["NOTIFICATIONS"]) /\ Lit(st["ATTENTION"]) -> "ATTENTION"
    [] ~Lit(st["NOTIFICATIONS"]) /\ ~Lit(st["ATTENTION"]) /\ Lit(st["BATTERY"]) -> "BATTERY"
    [] OTHER -> "none"

ShownState(st, light) ==
  IF light = "ATTENTION" THEN AttentionState(st[light]) ELSE st[light]

Written(st) ==
  IF Shown(st) = "none" THEN Dark ELSE LedValue(Shown(st), ShownState(st, Shown(st)))

\* Mutant: only a light that is lit is shown, the LED is not updated when one
\* goes out.
SetLedStateLitOnly(light, s) ==
  /\ state' = [state EXCEPT ![light] = s]
  /\ IF Lit(s) THEN led' = Written(state') /\ ledCurrent' = TRUE
     ELSE UNCHANGED <<led, ledCurrent>>
  /\ UNCHANGED <<bln, panelVars, buttons>>

\* handleBattery, handleNotifications and handleAttention keep the state and
\* set the LED anew.  The second node is only written for a notification.
SetLedState(light, s) ==
  /\ state' = [state EXCEPT ![light] = s]
  /\ \/ led' = Written(state') /\ ledCurrent' = TRUE
     \/ UNCHANGED led /\ ledCurrent' = FALSE
  /\ bln' \in IF Shown(state') # "NOTIFICATIONS" THEN {bln}
              ELSE {bln, IF Written(state').color # 0 THEN 1 ELSE 0}
  /\ UNCHANGED <<panelVars, buttons>>

\* A maximum that cannot be read counts as MaxChannel.
HandleBacklight(s) ==
  /\ asked' = s
  /\ \E max \in {panelMax, MaxChannel} :
       \/ /\ panel' = IF max = MaxChannel THEN rgbToBrightness(s)
                      ELSE (rgbToBrightness(s) * max) \div MaxChannel
          /\ panelCurrent' = (max = panelMax)
       \/ UNCHANGED panel /\ panelCurrent' = FALSE
  /\ UNCHANGED <<ledVars, panelMax, buttons>>

HandleButtons(s) ==
  /\ buttons' \in {buttons, IF Lit(s) THEN 1 ELSE 0}
  /\ UNCHANGED <<ledVars, panelVars>>

Next ==
  \E s \in LightStates :
    \/ \E light \in LedLights : SetLedState(light, s)
    \/ HandleBacklight(s) \/ HandleButtons(s)

Spec == Init /\ [][Next]_vars

-----------------------------------------------------------------------------
TypeOK ==
  /\ state \in [LedLights -> HwLightState] /\ asked \in HwLightState
  /\ led \in [color : Nat, on : Nat, off : Nat] /\ bln \in {0, 1} /\ buttons \in {0, 1}
  /\ panel \in Nat /\ panelMax \in PanelMaxima
  /\ ledCurrent \in BOOLEAN /\ panelCurrent \in BOOLEAN

\* The lights that come before a light.
Outranks == [NOTIFICATIONS |-> {}, ATTENTION |-> {"NOTIFICATIONS"},
             BATTERY |-> {"NOTIFICATIONS", "ATTENTION"}]

\* An attention light that does not flash is not shown, and still hides the
\* battery light.
Hidden(light) ==
  /\ light = "ATTENTION"
  /\ \/ state[light].flashMode = "NONE"
     \/ /\ state[light].flashMode = "HARDWARE"
        /\ state[light].flashOnMs > 0 /\ state[light].flashOffMs = 0

\* The LED shows a light: its colour with no channel brighter than asked for
\* and none dark unless its factors make it so, its rhythm if it flashes.
Shows(light) ==
  LET s == state[light]
      blue == light = "ATTENTION" /\ s.flashMode = "HARDWARE"
      shade(channel, c, adjust) ==
        /\ channel <= c
        /\ channel = 0 => c * adjust * LedBrightness[light] < 2 * AdjustOne * MaxChannel
  IN  /\ shade(Red(led.color), IF blue THEN 0 ELSE s.r, AdjustR)
      /\ shade(Green(led.color), IF blue THEN 0 ELSE s.g, AdjustG)
      /\ shade(Blue(led.color), IF blue THEN MaxChannel ELSE s.b, AdjustB)
      /\ led.on = (IF s.flashMode = "NONE" THEN 0 ELSE s.flashOnMs)
      /\ led.off = (IF s.flashMode = "NONE" THEN 0 ELSE s.flashOffMs)

\* After every write that went through, the LED shows the first light that is
\* lit and nothing that was shown before it: clearing a notification brings
\* back the light it hid, and no channel runs over into the next one.  It is
\* dark if none is lit, or if the first is an attention light that does not
\* flash.
LedShowsLight ==
  ledCurrent =>
    \/ led = Dark /\ \A light \in LedLights : ~Lit(state[light])
    \/ \E light \in LedLights :
         /\ Lit(state[light])
         /\ \A other \in Outranks[light] : ~Lit(state[other])
         /\ IF Hidden(light) THEN led.color = 0 ELSE Shows(light)

\* The panel is never set brighter than its maximum, and exactly to it by the
\* brightest grey, when the maximum could be read and the write went through.
BacklightInRange ==
  panelCurrent =>
    /\ panel <= panelMax
    /\ {asked.r, asked.g, asked.b} = {MaxChannel} => panel = panelMax
=============================================================================
