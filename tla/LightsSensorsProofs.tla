------------------------- MODULE LightsSensorsProofs -------------------------
(***************************************************************************)
(* Proofs about two components that do not interact: Lights, for all       *)
(* channel widths, adjustments, brightness levels and panel ranges, and    *)
(* SensorEvents, for all queues, batches and streams.                      *)
(***************************************************************************)
EXTENDS Lights, SensorEvents, SequenceTheorems, TLAPS

-----------------------------------------------------------------------------
\* Integer division.

\* The quotient and the remainder of calibrateColor's shifts: a value below
\* the base does not disturb what is packed above it.
LEMMA DivMod ==
  ASSUME NEW a \in Nat, NEW n \in Nat \ {0}, NEW b \in 0 .. n - 1
  PROVE  (a * n + b) \div n = a /\ (a * n + b) % n = b
<1> DEFINE q == (a * n + b) \div n
           r == (a * n + b) % n
<1>1. a * n + b \in Nat
  BY SMT
<1>2. q \in Int /\ r \in 0 .. n - 1 /\ a * n + b = n * q + r
  BY <1>1, SMT
<1> HIDE DEF q, r
<1>3. n * (a - q) = r - b
  BY <1>2, SMT
<1>4. a - q < 1
  <2>1. SUFFICES ASSUME a - q >= 1 PROVE FALSE
    BY <1>2, SMT
  <2>2. n * (a - q) >= n
    BY <2>1, <1>2, SMT
  <2> QED BY <2>2, <1>3, <1>2, SMT
<1>5. a - q > -1
  <2>1. SUFFICES ASSUME a - q <= -1 PROVE FALSE
    BY <1>2, SMT
  <2>2. n * (a - q) <= -n
    BY <2>1, <1>2, SMT
  <2> QED BY <2>2, <1>3, <1>2, SMT
<1>6. a = q
  BY <1>4, <1>5, <1>2, SMT
<1>7. r = b
  BY <1>6, <1>3, <1>2, SMT
<1> QED BY <1>6, <1>7, Zenon DEF q, r

\* Scaling by a factor of at most one does not make a number larger.
LEMMA ScaleDown ==
  ASSUME NEW c \in Nat, NEW n \in Nat \ {0}, NEW a \in 0 .. n
  PROVE  /\ (c * a) \div n \in 0 .. c
         /\ c * a < ((c * a) \div n + 1) * n
<1> DEFINE q == (c * a) \div n
           r == (c * a) % n
<1>1. c * a \in Nat /\ c * a <= c * n
  BY SMT
<1>2. q \in Int /\ r \in 0 .. n - 1 /\ c * a = n * q + r
  BY <1>1, SMT
<1> HIDE DEF q, r
<1>3. q >= 0
  <2>1. SUFFICES ASSUME q <= -1 PROVE FALSE
    BY <1>2, SMT
  <2>2. n * q <= -n
    BY <2>1, <1>2, SMT
  <2> QED BY <2>2, <1>1, <1>2, SMT
<1>4. q <= c
  <2>1. SUFFICES ASSUME q >= c + 1 PROVE FALSE
    BY <1>2, SMT
  <2>2. n * q >= n * c + n
    BY <2>1, <1>2, SMT
  <2> QED BY <2>2, <1>1, <1>2, SMT
<1>5. c * a < (q + 1) * n
  BY <1>2, SMT
<1> QED BY <1>2, <1>3, <1>4, <1>5 DEF q
-----------------------------------------------------------------------------
\* The arithmetic of the HAL.

\* A calibrated channel is at most the channel asked for, and zero only if its
\* factors leave less than two steps of it.
LEMMA CalibrateRange ==
  ASSUME NEW c \in Channel, NEW adjust \in 0 .. AdjustOne, NEW brightness \in 0 .. MaxChannel
  PROVE  /\ Calibrate(c, adjust, brightness) \in 0 .. c
         /\ Calibrate(c, adjust, brightness) = 0 =>
              c * adjust * brightness < 2 * AdjustOne * MaxChannel
<1> USE LightsAssumption DEF Channel
<1> DEFINE x == (c * adjust) \div AdjustOne
           y == (x * brightness) \div MaxChannel
<1>1. x \in 0 .. c /\ c * adjust < (x + 1) * AdjustOne
  BY ScaleDown
<1> HIDE DEF x
<1>2. y \in 0 .. x /\ x * brightness < (y + 1) * MaxChannel
  BY <1>1, ScaleDown
<1> HIDE DEF y
<1>3. ASSUME y = 0
      PROVE  c * adjust * brightness < 2 * AdjustOne * MaxChannel
  <2>1. x * brightness < MaxChannel /\ x * brightness \in Nat
    BY <1>1, <1>2, <1>3, SMT
  <2>2. x * brightness + brightness < 2 * MaxChannel
    BY <2>1, <1>1, SMT
  <2>3. (x * brightness + brightness) * AdjustOne < (2 * MaxChannel) * AdjustOne
    BY <2>1, <2>2, <1>1, SMT
  <2>4. c * adjust * brightness <= ((x + 1) * AdjustOne) * brightness
    BY <1>1, SMT
  <2>5. ((x + 1) * AdjustOne) * brightness = (x * brightness + brightness) * AdjustOne
    BY <1>1, SMT
  <2>6. (2 * MaxChannel) * AdjustOne = 2 * AdjustOne * MaxChannel
    BY SMT
  <2> QED BY <2>1, <2>3, <2>4, <2>5, <2>6, <1>1, SMT
<1>4. Calibrate(c, adjust, brightness) = y
  BY Zenon DEF Calibrate, x, y
<1> QED BY <1>1, <1>2, <1>3, <1>4, SMT

\* The three channels can be taken out of the packed colour again: none runs
\* over into the next.
LEMMA Unpack ==
  ASSUME NEW r \in Channel, NEW g \in Channel, NEW b \in Channel
  PROVE  /\ Pack(r, g, b) \in Nat
         /\ Red(Pack(r, g, b)) = r /\ Green(Pack(r, g, b)) = g /\ Blue(Pack(r, g, b)) = b
<1> USE LightsAssumption DEF Channel
<1> DEFINE n == MaxChannel + 1
           rg == r * n + g
<1>0. n \in Nat \ {0} /\ b \in 0 .. n - 1 /\ g \in 0 .. n - 1 /\ r \in Nat
  BY SMT
<1>1. rg \div n = r /\ rg % n = g
  BY <1>0, DivMod, Zenon
<1>2. rg \in Nat
  BY <1>0, SMT
<1>3. (rg * n + b) \div n = rg /\ (rg * n + b) % n = b
  BY <1>0, <1>2, DivMod, Zenon
<1>4. rg * n + b \in Nat
  BY <1>0, <1>2, SMT
<1>5. (rg * n + b) \div (n * n) = r
  <2> DEFINE rest == g * n + b
  <2>1. rest \in 0 .. n * n - 1 /\ n * n \in Nat \ {0}
    <3>1. g * n <= (n - 1) * n /\ g * n >= 0
      BY <1>0, SMT
    <3> QED BY <3>1, <1>0, SMT
  <2>2. rg * n + b = r * (n * n) + rest
    BY <1>0, SMT
  <2> HIDE DEF rest, n, rg
  <2> QED BY <1>0, <2>1, <2>2, DivMod, Zenon
<1>6. Pack(r, g, b) = rg * n + b
  BY Zenon DEF Pack
<1> HIDE DEF n, rg
<1> QED
  <2>1. Red(Pack(r, g, b)) = r
    BY <1>5, <1>6, Zenon DEF Red, n
  <2>2. Green(Pack(r, g, b)) = g
    BY <1>1, <1>3, <1>6, Zenon DEF Green, n
  <2>3. Blue(Pack(r, g, b)) = b
    BY <1>3, <1>6, Zenon DEF Blue, n
  <2> QED BY <1>4, <1>6, <2>1, <2>2, <2>3, Zenon

\* rgbToBrightness stays in the range of a channel and maps white to its end.
LEMMA BrightnessRange ==
  ASSUME NEW s \in HwLightState
  PROVE  /\ rgbToBrightness(s) \in 0 .. MaxChannel
         /\ {s.r, s.g, s.b} = {MaxChannel} => rgbToBrightness(s) = MaxChannel
<1>1. s.r \in 0 .. MaxChannel /\ s.g \in 0 .. MaxChannel /\ s.b \in 0 .. MaxChannel
  BY Zenon DEF HwLightState, Channel
<1>2. rgbToBrightness(s) \in 0 .. MaxChannel
  BY <1>1, LightsAssumption, SMT DEF rgbToBrightness
<1>3. ASSUME {s.r, s.g, s.b} = {MaxChannel} PROVE rgbToBrightness(s) = MaxChannel
  <2>1. s.r = MaxChannel /\ s.g = MaxChannel /\ s.b = MaxChannel
    BY <1>3, Zenon
  <2> QED BY <2>1, LightsAssumption, SMT DEF rgbToBrightness
<1> QED BY <1>2, <1>3, Zenon
-----------------------------------------------------------------------------
\* What is written for a light that is shown.

\* An attention light that is on all the time by hardware, or does not flash.
Steady(s) ==
  \/ s.flashMode = "NONE"
  \/ s.flashMode = "HARDWARE" /\ s.flashOnMs > 0 /\ s.flashOffMs = 0

\* What setNotificationLED makes of an attention light: nothing if it is steady,
\* blue if it flashes by hardware, itself otherwise.
LEMMA AttentionCases ==
  ASSUME NEW s \in HwLightState
  PROVE  LET a == AttentionState(s)
         IN  /\ a \in HwLightState
             /\ Steady(s) => a.r = 0 /\ a.g = 0 /\ a.b = 0
             /\ ~Steady(s) => /\ a.flashMode = s.flashMode
                              /\ a.flashOnMs = s.flashOnMs /\ a.flashOffMs = s.flashOffMs
             /\ ~Steady(s) /\ s.flashMode = "HARDWARE" => a.r = 0 /\ a.g = 0 /\ a.b = MaxChannel
             /\ ~Steady(s) /\ s.flashMode # "HARDWARE" => a = s
<1> DEFINE a == AttentionState(s)
           blue == [s EXCEPT !.r = 0, !.g = 0, !.b = MaxChannel]
           dark(c) == [c EXCEPT !.r = 0, !.g = 0, !.b = 0, !.flashMode = "NONE"]
<1>1. s.flashMode \in {"NONE", "TIMED", "HARDWARE"}
  BY Zenon DEF HwLightState, FlashModes
<1>2. blue \in HwLightState /\ blue.r = 0 /\ blue.g = 0 /\ blue.b = MaxChannel
      /\ blue.flashMode = s.flashMode
      /\ blue.flashOnMs = s.flashOnMs /\ blue.flashOffMs = s.flashOffMs
  <2>1. 0 \in Channel /\ MaxChannel \in Channel
    BY LightsAssumption DEF Channel
  <2> QED BY <2>1, Zenon DEF HwLightState
<1>3. ASSUME NEW c \in HwLightState
      PROVE  dark(c) \in HwLightState /\ dark(c).r = 0 /\ dark(c).g = 0 /\ dark(c).b = 0
  <2>1. 0 \in Channel /\ "NONE" \in FlashModes
    BY LightsAssumption DEF Channel, FlashModes
  <2> QED BY <2>1, Zenon DEF HwLightState
<1>4. CASE s.flashMode = "NONE"
  <2>1. a = dark(s)
    BY <1>4, Zenon DEF AttentionState
  <2>2. Steady(s)
    BY <1>4, Zenon DEF Steady
  <2> HIDE DEF a, dark
  <2>3. QED BY <2>1, <2>2, <1>3, Zenon DEF a
<1>5. CASE s.flashMode = "HARDWARE" /\ Steady(s)
  <2>1. a = dark(blue)
    BY <1>5, Zenon DEF AttentionState, Steady
  <2> HIDE DEF a, dark, blue
  <2>2. QED BY <2>1, <1>2, <1>3, <1>5, Zenon DEF a
<1>6. CASE s.flashMode = "HARDWARE" /\ ~Steady(s)
  <2>1. a = blue
    BY <1>6, Zenon DEF AttentionState, Steady
  <2> HIDE DEF a, blue
  <2>2. QED BY <2>1, <1>2, <1>6, Zenon DEF a
<1>7. CASE s.flashMode = "TIMED"
  <2>1. a = s
    BY <1>7, Zenon DEF AttentionState
  <2>2. ~Steady(s)
    BY <1>7, Zenon DEF Steady
  <2> HIDE DEF a
  <2>3. QED BY <2>1, <2>2, <1>7, Zenon DEF a
<1> QED BY <1>1, <1>4, <1>5, <1>6, <1>7, Zenon

\* The state setNotificationLED works on is a light state again.
LEMMA ShownStateType ==
  ASSUME NEW st \in [LedLights -> HwLightState], NEW light \in LedLights
  PROVE  ShownState(st, light) \in HwLightState
<1>1. st[light] \in HwLightState
  BY Zenon
<1> QED BY <1>1, AttentionCases, Zenon DEF ShownState

\* Each channel of a calibrated colour is the calibrated channel.
LEMMA ColourChannels ==
  ASSUME NEW s \in HwLightState, NEW brightness \in 0 .. MaxChannel
  PROVE  LET c == calibrateColor(s, brightness)
         IN  /\ c \in Nat
             /\ Red(c) = Calibrate(s.r, AdjustR, brightness)
             /\ Green(c) = Calibrate(s.g, AdjustG, brightness)
             /\ Blue(c) = Calibrate(s.b, AdjustB, brightness)
<1>1. s.r \in Channel /\ s.g \in Channel /\ s.b \in Channel
  BY Zenon DEF HwLightState
<1>2. AdjustR \in 0 .. AdjustOne /\ AdjustG \in 0 .. AdjustOne /\ AdjustB \in 0 .. AdjustOne
  BY LightsAssumption, Zenon
<1>3. /\ Calibrate(s.r, AdjustR, brightness) \in 0 .. s.r
      /\ Calibrate(s.g, AdjustG, brightness) \in 0 .. s.g
      /\ Calibrate(s.b, AdjustB, brightness) \in 0 .. s.b
  BY <1>1, <1>2, CalibrateRange, Zenon
<1>4. /\ Calibrate(s.r, AdjustR, brightness) \in Channel
      /\ Calibrate(s.g, AdjustG, brightness) \in Channel
      /\ Calibrate(s.b, AdjustB, brightness) \in Channel
  BY <1>1, <1>3, LightsAssumption, SMT DEF Channel
<1> QED BY <1>4, Unpack DEF calibrateColor

\* The shown light is one of the lights, or there is none.
LEMMA ShownType ==
  ASSUME NEW st PROVE Shown(st) \in LedLights \cup {"none"}
BY Zenon DEF Shown, LedLights

\* Type of what is written.
LEMMA WrittenType ==
  ASSUME NEW st \in [LedLights -> HwLightState]
  PROVE  Written(st) \in [color : Nat, on : Nat, off : Nat]
<1>1. CASE Shown(st) = "none"
  BY <1>1, Zenon DEF Written, Dark
<1>2. CASE Shown(st) \in LedLights
  <2> DEFINE s == ShownState(st, Shown(st))
  <2>1. s \in HwLightState
    BY <1>2, ShownStateType, Zenon
  <2>2. LedBrightness[Shown(st)] \in 0 .. MaxChannel
    BY <1>2, LightsAssumption, Zenon
  <2>3. calibrateColor(s, LedBrightness[Shown(st)]) \in Nat
    BY <2>1, <2>2, ColourChannels, Zenon
  <2>4. s.flashOnMs \in Nat /\ s.flashOffMs \in Nat
    BY <2>1, Zenon DEF HwLightState
  <2>5. Written(st) = LedValue(Shown(st), s)
    BY <1>2, Zenon DEF Written, LedLights
  <2> HIDE DEF s
  <2> QED BY <2>3, <2>4, <2>5 DEF LedValue
<1> QED BY <1>1, <1>2, ShownType, Zenon

-----------------------------------------------------------------------------
\* The invariant behind LedShowsLight: unless the last write failed, the LED
\* holds what setNotificationLED writes for the current states.
LedInv == ledCurrent => led = Written(state)

IInv == TypeOK /\ LedInv /\ BacklightInRange

\* The lights are off and nothing has been written when the service starts.
LEMMA InitIInv == Init => IInv
<1> SUFFICES ASSUME Init PROVE IInv
  BY Zenon
<1> USE LightsAssumption DEF Init
<1>1. Off \in HwLightState
  BY DEF Off, HwLightState, Channel, FlashModes
<1>2. TypeOK
  BY <1>1, Zenon DEF TypeOK, Dark
<1>3. ~Lit(Off)
  BY DEF Lit, Off
<1>4. Shown(state) = "none"
  BY <1>3, Zenon DEF Shown, LedLights
<1>5. LedInv
  BY <1>4, Zenon DEF LedInv, Written
<1>6. BacklightInRange
  BY <1>2 DEF BacklightInRange, Off, TypeOK
<1> QED BY <1>2, <1>5, <1>6, Zenon DEF IInv

\* Every call of setLightState keeps the invariant, writes that fail included.
LEMMA NextIInv == IInv /\ [Next]_vars => IInv'
<1> SUFFICES ASSUME IInv, [Next]_vars PROVE IInv'
  BY Zenon
<1> USE LightsAssumption
<1>1. ASSUME NEW s \in LightStates, NEW light \in LedLights, SetLedState(light, s) PROVE IInv'
  <2>1. s \in HwLightState
    BY Zenon
  <2>2. state' \in [LedLights -> HwLightState]
    BY <1>1, <2>1, Zenon DEF SetLedState, IInv, TypeOK
  <2>3. Written(state') \in [color : Nat, on : Nat, off : Nat]
    BY <2>2, WrittenType, Zenon
  <2>4. TypeOK'
    BY <1>1, <2>2, <2>3, Zenon DEF SetLedState, IInv, TypeOK, panelVars
  <2>5. LedInv'
    BY <1>1, Zenon DEF SetLedState, LedInv
  <2>6. BacklightInRange'
    BY <1>1, Zenon DEF SetLedState, IInv, BacklightInRange, panelVars
  <2> QED BY <2>4, <2>5, <2>6, Zenon DEF IInv
<1>2. ASSUME NEW s \in LightStates, HandleBacklight(s) PROVE IInv'
  <2>1. s \in HwLightState
    BY Zenon
  <2>2. /\ rgbToBrightness(s) \in 0 .. MaxChannel
        /\ {s.r, s.g, s.b} = {MaxChannel} => rgbToBrightness(s) = MaxChannel
    BY <2>1, BrightnessRange, Zenon
  <2>3. PICK max \in {panelMax, MaxChannel} :
          \/ /\ panel' = IF max = MaxChannel THEN rgbToBrightness(s)
                         ELSE (rgbToBrightness(s) * max) \div MaxChannel
             /\ panelCurrent' = (max = panelMax)
          \/ UNCHANGED panel /\ panelCurrent' = FALSE
    BY <1>2, Zenon DEF HandleBacklight
  <2>4. max \in Nat
    BY <2>3, Zenon DEF IInv, TypeOK
  <2>5. asked' = s /\ panelMax' = panelMax /\ UNCHANGED ledVars /\ buttons' = buttons
    BY <1>2, Zenon DEF HandleBacklight
  <2> DEFINE scaled == (rgbToBrightness(s) * max) \div MaxChannel
  <2>6. /\ scaled \in 0 .. max
        /\ rgbToBrightness(s) = MaxChannel => scaled = max
    <3>1. scaled \in 0 .. max
      BY <2>2, <2>4, ScaleDown
    <3>2. ASSUME rgbToBrightness(s) = MaxChannel PROVE scaled = max
      BY <3>2, <2>4, DivMod
    <3> QED BY <3>1, <3>2, Zenon
  <2> HIDE DEF scaled
  <2>7. \/ /\ panel' = IF max = MaxChannel THEN rgbToBrightness(s) ELSE scaled
           /\ panelCurrent' = (max = panelMax)
        \/ panel' = panel /\ panelCurrent' = FALSE
    BY <2>3, Zenon DEF scaled
  <2>8. panelCurrent' \in BOOLEAN /\ (panelCurrent' => max = panelMax)
    BY <2>7, Zenon
  <2>9. /\ panelCurrent' => panel' = IF max = MaxChannel THEN rgbToBrightness(s) ELSE scaled
        /\ panel' = panel \/ panel' = rgbToBrightness(s) \/ panel' = scaled
    BY <2>7, Zenon
  <2>10. panel' \in Nat
    BY <2>2, <2>4, <2>6, <2>9 DEF IInv, TypeOK
  <2>11. TypeOK'
    BY <2>1, <2>5, <2>8, <2>10, Zenon DEF IInv, TypeOK, ledVars
  <2>12. LedInv'
    BY <2>5, Zenon DEF IInv, LedInv, ledVars
  <2>13. BacklightInRange'
    <3> SUFFICES ASSUME panelCurrent'
                 PROVE  /\ panel' <= panelMax
                        /\ {s.r, s.g, s.b} = {MaxChannel} => panel' = panelMax
      BY <2>5, Zenon DEF BacklightInRange
    <3>1. max = panelMax /\ panel' = IF max = MaxChannel THEN rgbToBrightness(s) ELSE scaled
      BY <2>8, <2>9, Zenon
    <3> QED BY <2>2, <2>4, <2>6, <3>1
  <2> QED BY <2>11, <2>12, <2>13, Zenon DEF IInv
<1>3. ASSUME NEW s \in LightStates, HandleButtons(s) PROVE IInv'
  BY <1>3, Zenon DEF HandleButtons, IInv, TypeOK, LedInv, BacklightInRange, ledVars, panelVars
<1>4. CASE UNCHANGED vars
  BY <1>4, Zenon DEF vars, IInv, TypeOK, LedInv, BacklightInRange
<1> QED BY <1>1, <1>2, <1>3, <1>4, Zenon DEF Next

\* The invariant holds in every reachable state.
THEOREM IInvCorrect == Spec => []IInv
BY InitIInv, NextIInv, PTL DEF Spec

\* handleBacklight: the panel never gets more than its maximum, and white
\* gives exactly it, for all ranges and widths.
THEOREM BacklightInRangeCorrect == Spec => []BacklightInRange
<1>1. IInv => BacklightInRange
  BY Zenon DEF IInv
<1> QED BY <1>1, IInvCorrect, PTL

\* The LED shows what setNotificationLED wrote for a light.
LEMMA WrittenShows ==
  ASSUME TypeOK, NEW light \in LedLights, Shown(state) = light, led = Written(state)
  PROVE  IF Hidden(light) THEN led.color = 0 ELSE Shows(light)
<1> DEFINE s == state[light]
           a == ShownState(state, light)
           y == LedBrightness[light]
<1>1. s \in HwLightState /\ a \in HwLightState
  BY ShownStateType, Zenon DEF TypeOK
<1>2. y \in 0 .. MaxChannel
  BY LightsAssumption, Zenon
<1>3. /\ led.color = calibrateColor(a, y)
      /\ led.on = IF a.flashMode = "NONE" THEN 0 ELSE a.flashOnMs
      /\ led.off = IF a.flashMode = "NONE" THEN 0 ELSE a.flashOffMs
  BY Zenon DEF Written, LedValue, LedLights
<1>4. /\ Red(led.color) = Calibrate(a.r, AdjustR, y)
      /\ Green(led.color) = Calibrate(a.g, AdjustG, y)
      /\ Blue(led.color) = Calibrate(a.b, AdjustB, y)
  BY <1>1, <1>2, <1>3, ColourChannels
<1>5. /\ a.r \in Channel /\ a.g \in Channel /\ a.b \in Channel
      /\ s.r \in Channel /\ s.g \in Channel /\ s.b \in Channel
  BY <1>1, Zenon DEF HwLightState
<1>6. AdjustR \in 0 .. AdjustOne /\ AdjustG \in 0 .. AdjustOne /\ AdjustB \in 0 .. AdjustOne
  BY LightsAssumption, Zenon
<1>7. ASSUME NEW c \in Channel, NEW adjust \in 0 .. AdjustOne
      PROVE  /\ Calibrate(c, adjust, y) <= c
             /\ Calibrate(c, adjust, y) = 0 => c * adjust * y < 2 * AdjustOne * MaxChannel
  <2>1. /\ Calibrate(c, adjust, y) \in 0 .. c
        /\ Calibrate(c, adjust, y) = 0 => c * adjust * y < 2 * AdjustOne * MaxChannel
    BY <1>2, CalibrateRange, Zenon
  <2> QED BY <2>1, LightsAssumption, SMT DEF Channel
<1>8. CASE Hidden(light)
  <2>1. light = "ATTENTION" /\ Steady(s)
    BY <1>8, Zenon DEF Hidden, Steady
  <2>2. a.r = 0 /\ a.g = 0 /\ a.b = 0
    BY <1>1, <2>1, AttentionCases, Zenon DEF ShownState
  <2>3. Calibrate(0, AdjustR, y) = 0 /\ Calibrate(0, AdjustG, y) = 0 /\ Calibrate(0, AdjustB, y) = 0
    <3>1. 0 \in Channel
      BY LightsAssumption DEF Channel
    <3> QED BY <3>1, <1>2, <1>6, CalibrateRange, SMT
  <2>4. led.color = Pack(0, 0, 0)
    BY <1>3, <2>2, <2>3, Zenon DEF calibrateColor
  <2>5. Pack(0, 0, 0) = 0
    BY LightsAssumption, SMT DEF Pack
  <2> QED BY <1>8, <2>4, <2>5, Zenon
<1>9. CASE ~Hidden(light)
  <2> DEFINE blue == light = "ATTENTION" /\ s.flashMode = "HARDWARE"
  <2>1. /\ a.r = (IF blue THEN 0 ELSE s.r) /\ a.g = (IF blue THEN 0 ELSE s.g)
        /\ a.b = (IF blue THEN MaxChannel ELSE s.b)
        /\ a.flashMode = s.flashMode /\ a.flashOnMs = s.flashOnMs /\ a.flashOffMs = s.flashOffMs
    <3>1. CASE light = "ATTENTION"
      <4>1. ~Steady(s) /\ a = AttentionState(s)
        BY <1>9, <3>1, Zenon DEF Hidden, Steady, ShownState
      <4> QED BY <1>1, <3>1, <4>1, AttentionCases
    <3>2. CASE light # "ATTENTION"
      BY <3>2, Zenon DEF ShownState
    <3> QED BY <3>1, <3>2, Zenon
  <2> HIDE DEF a
  <2>2. Shows(light)
    BY <1>3, <1>4, <1>5, <1>6, <1>7, <2>1 DEF Shows
  <2> QED BY <1>9, <2>2, Zenon
<1> QED BY <1>8, <1>9, Zenon

\* setNotificationLED: after a write that went through, the LED shows the first
\* light that is lit, for all colours, adjustments and brightness levels.
THEOREM LedShowsLightCorrect == Spec => []LedShowsLight
<1>1. IInv => LedShowsLight
  <2> SUFFICES ASSUME IInv, ledCurrent
               PROVE  \/ led = Dark /\ \A light \in LedLights : ~Lit(state[light])
                      \/ \E light \in LedLights :
                           /\ Lit(state[light])
                           /\ \A other \in Outranks[light] : ~Lit(state[other])
                           /\ IF Hidden(light) THEN led.color = 0 ELSE Shows(light)
    BY Zenon DEF LedShowsLight
  <2>1. TypeOK /\ led = Written(state)
    BY Zenon DEF IInv, LedInv
  <2>2. CASE Shown(state) = "none"
    <3>1. led = Dark
      BY <2>1, <2>2, Zenon DEF Written
    <3>2. \A light \in LedLights : ~Lit(state[light])
      BY <2>2, Zenon DEF Shown, LedLights
    <3> QED BY <3>1, <3>2, Zenon
  <2>3. ASSUME NEW light \in LedLights, Shown(state) = light
        PROVE  /\ Lit(state[light])
               /\ \A other \in Outranks[light] : ~Lit(state[other])
               /\ IF Hidden(light) THEN led.color = 0 ELSE Shows(light)
    <3>1. Lit(state[light]) /\ \A other \in Outranks[light] : ~Lit(state[other])
      BY <2>3, Zenon DEF Shown, LedLights, Outranks
    <3> QED BY <3>1, <2>1, <2>3, WrittenShows, Zenon
  <2> QED BY <2>2, <2>3, ShownType, Zenon
<1> QED BY <1>1, IInvCorrect, PTL

-----------------------------------------------------------------------------
(* The sensor events.                                                      *)
HidlEvents == {HidlEvent(t) : t \in Listed}
AidlEvents == {convertToAidlEvent(h) : h \in HidlEvents}

\* The queue q holds the conversions of the events h, in order.
Matches(q, h) ==
  /\ q \in Seq(AidlEvents) /\ h \in Seq(HidlEvents) /\ Len(q) = Len(h)
  /\ \A i \in 1 .. Len(h) : q[i] = convertToAidlEvent(h[i])

\* The queue matches the accepted events, and the first slots of the reused
\* array the events of the write that waits.
StreamInv ==
  /\ Matches(mQueue, accepted)
  /\ mIntermediateEventBuffer \in [Slots -> AidlEvents \cup {None}]
  /\ pending \in Seq(HidlEvents) /\ writing = Len(pending) /\ writing \in 0 .. MaxBatch
  /\ \A i \in 1 .. writing : mIntermediateEventBuffer[i] = convertToAidlEvent(pending[i])

\* The cases of the two conversions agree with each other and with what a type's
\* words mean, for every type they list.
LEMMA TypeFacts ==
  ASSUME NEW type \in Listed
  PROVE  /\ Meaning(type) \in 1 .. Words
         /\ WordsToAidl(type) = Meaning(type) /\ WordsToHidl(type) = Meaning(type)
         /\ Room(AidlTag(type)) \in Meaning(type) .. Words
         /\ AidlTag(type) = "additional" <=> type = "ADDITIONAL_INFO"
<1> USE DEF Meaning, WordsToAidl, WordsToHidl, Room, AidlTag, Words
<1>1. CASE type = "META_DATA"  BY <1>1
<1>2. CASE type = "ACCELEROMETER"  BY <1>2
<1>3. CASE type = "GAME_ROTATION_VECTOR"  BY <1>3
<1>4. CASE type = "ROTATION_VECTOR"  BY <1>4
<1>5. CASE type = "ACCELEROMETER_UNCALIBRATED"  BY <1>5
<1>6. CASE type = "LIGHT"  BY <1>6
<1>7. CASE type = "STEP_COUNTER"  BY <1>7
<1>8. CASE type = "HEART_RATE"  BY <1>8
<1>9. CASE type = "POSE_6DOF"  BY <1>9
<1>10. CASE type = "DYNAMIC_SENSOR_META"  BY <1>10
<1>11. CASE type = "ADDITIONAL_INFO"  BY <1>11
<1>12. CASE type = "HEAD_TRACKER"  BY <1>12
<1>13. CASE type = "PRIVATE"  BY <1>13
<1> HIDE DEF Meaning, WordsToAidl, WordsToHidl, Room, AidlTag, Words
<1> QED
  BY <1>1, <1>2, <1>3, <1>4, <1>5, <1>6, <1>7, <1>8, <1>9, <1>10, <1>11, <1>12, <1>13, Zenon
     DEF Listed

\* convertToAidlEvent gives an event that says what the sub-HAL's event meant.
LEMMA ConversionSaysTheSame ==
  ASSUME NEW h \in HidlEvents
  PROVE  SaysTheSame(convertToAidlEvent(h), h)
<1> PICK type \in Listed : h = HidlEvent(type)
  BY Zenon DEF HidlEvents
<1> DEFINE room == Room(AidlTag(type))
           word == WordsToAidl(type)
           a == convertToAidlEvent(h)
<1>1. /\ word \in 1 .. Words /\ room \in word .. Words /\ Meaning(type) = word
      /\ Words \in Nat
  BY TypeFacts, Zenon DEF Words
<1>2. /\ h.type = type
      /\ \A k \in 1 .. Words : h.u[k] = IF k <= Meaning(type) THEN WordOf(type, k) ELSE Junk
  BY Zenon DEF HidlEvent
<1>3. /\ a.type = type /\ a.tag = AidlTag(type)
      /\ a.values = [k \in 1 .. room |-> IF k <= word THEN h.u[k] ELSE Zero]
  BY <1>2, Zenon DEF convertToAidlEvent
<1> HIDE DEF room, word, a
<1>4. Len(a.values) = room
  BY <1>1, <1>3
<1>5. ASSUME NEW k \in 1 .. room
      PROVE  a.values[k] = IF k <= Meaning(type) THEN WordOf(type, k) ELSE Zero
  BY <1>1, <1>2, <1>3
<1>6. SaysTheSame(a, h)
  BY <1>2, <1>3, <1>4, <1>5, Zenon DEF SaysTheSame
<1> QED  BY <1>6, Zenon DEF a

\* Appending matching sequences to a queue and to the events it matches.
LEMMA MatchesAppend ==
  ASSUME NEW q, NEW h, NEW b, NEW events, Matches(q, h), events \in Seq(HidlEvents),
         \A i \in 1 .. Len(events) : b[i] = convertToAidlEvent(events[i])
  PROVE  Matches(q \o SubSeq(b, 1, Len(events)), h \o events)
<1> DEFINE n == Len(events)
           more == SubSeq(b, 1, n)
<1>1. n \in Nat /\ \A i \in 1 .. n : events[i] \in HidlEvents
  BY LenProperties, Zenon
<1>2. \A i \in 1 .. n : b[i] \in AidlEvents
  BY <1>1, Zenon DEF AidlEvents
<1>3. more \in Seq(AidlEvents) /\ Len(more) = n /\ \A i \in 1 .. n : more[i] = b[i]
  BY <1>1, <1>2, SubSeqProperties
<1> HIDE DEF n, more
<1>4. q \in Seq(AidlEvents) /\ h \in Seq(HidlEvents) /\ Len(q) = Len(h) /\ Len(q) \in Nat
  BY LenProperties, Zenon DEF Matches
<1>5. /\ q \o more \in Seq(AidlEvents) /\ Len(q \o more) = Len(q) + n
      /\ \A i \in 1 .. Len(q) + n : (q \o more)[i] = IF i <= Len(q) THEN q[i]
                                                     ELSE more[i - Len(q)]
  <2>1. /\ q \o more \in Seq(AidlEvents) /\ Len(q \o more) = Len(q) + Len(more)
        /\ \A i \in 1 .. Len(q) + Len(more) : (q \o more)[i] = IF i <= Len(q) THEN q[i]
                                                               ELSE more[i - Len(q)]
    BY <1>3, <1>4, ConcatProperties, ZenonT(30)
  <2> QED  BY <1>3, <2>1, Zenon
<1>6. /\ h \o events \in Seq(HidlEvents) /\ Len(h \o events) = Len(q) + n
      /\ \A i \in 1 .. Len(q) + n : (h \o events)[i] = IF i <= Len(q) THEN h[i]
                                                       ELSE events[i - Len(q)]
  <2>1. /\ h \o events \in Seq(HidlEvents) /\ Len(h \o events) = Len(h) + Len(events)
        /\ \A i \in 1 .. Len(h) + Len(events) : (h \o events)[i] = IF i <= Len(h) THEN h[i]
                                                                 ELSE events[i - Len(h)]
    BY <1>4, ConcatProperties, Zenon
  <2> QED  BY <1>4, <2>1, Zenon DEF n
<1>7. ASSUME NEW i \in 1 .. Len(q) + n
      PROVE  (q \o more)[i] = convertToAidlEvent((h \o events)[i])
  <2>1. CASE i <= Len(q)
    <3>1. i \in 1 .. Len(h)
      BY <2>1, <1>4
    <3>2. q[i] = convertToAidlEvent(h[i])
      BY <3>1, Zenon DEF Matches
    <3> QED  BY <2>1, <3>2, <1>5, <1>6, Zenon
  <2>2. CASE i > Len(q)
    <3>1. i - Len(q) \in 1 .. n
      BY <2>2, <1>1, <1>4 DEF n
    <3>2. more[i - Len(q)] = convertToAidlEvent(events[i - Len(q)])
      BY <3>1, <1>3, Zenon DEF n
    <3>3. (q \o more)[i] = more[i - Len(q)]
      BY <2>2, <1>4, <1>5
    <3>4. (h \o events)[i] = events[i - Len(q)]
      BY <2>2, <1>4, <1>6
    <3> QED  BY <3>2, <3>3, <3>4, Zenon
  <2>3. i <= Len(q) \/ i > Len(q)
    BY <1>1, <1>4 DEF n
  <2> QED  BY <2>1, <2>2, <2>3, Zenon
<1> QED  BY <1>5, <1>6, <1>7, Zenon DEF Matches, n, more

\* What the array holds after a batch was converted into it.
LEMMA ConvertedFacts ==
  ASSUME StreamInv, NEW events \in Batches, Knows(events)
  PROVE  /\ events \in Seq(HidlEvents) /\ Len(events) \in 1 .. MaxBatch
         /\ Converted(events) \in [Slots -> AidlEvents \cup {None}]
         /\ \A i \in 1 .. Len(events) : Converted(events)[i] = convertToAidlEvent(events[i])
<1>1. MaxBatch \in Nat /\ 1 .. MaxBatch \subseteq Slots /\ Slots \subseteq Nat
  BY SensorConstants DEF Slots
<1>2. PICK n \in 1 .. MaxBatch : events \in [1 .. n -> {HidlEvent(t) : t \in StreamTypes}]
  BY Zenon DEF Batches
<1>3. \A i \in 1 .. n : events[i] \in HidlEvents
  <2> TAKE i \in 1 .. n
  <2>1. PICK t \in StreamTypes : events[i] = HidlEvent(t)
    BY <1>2, Zenon
  <2>2. events[i].type = t
    BY <2>1 DEF HidlEvent
  <2>3. t \in Listed
    BY <1>2, <2>2, Zenon DEF Knows
  <2> QED  BY <2>1, <2>3, Zenon DEF HidlEvents
<1>4. events \in Seq(HidlEvents) /\ Len(events) = n
  <2>1. events \in [1 .. n -> HidlEvents] /\ n \in Nat
    BY <1>1, <1>2, <1>3
  <2> QED  BY <2>1
<1>5. \A i \in 1 .. n : convertToAidlEvent(events[i]) \in AidlEvents
  BY <1>3, Zenon DEF AidlEvents
<1>6. Converted(events)
        = [i \in Slots |-> IF i <= n THEN convertToAidlEvent(events[i])
                           ELSE mIntermediateEventBuffer[i]]
  BY <1>4, Zenon DEF Converted
<1> HIDE DEF Converted
<1>7. mIntermediateEventBuffer \in [Slots -> AidlEvents \cup {None}]
  BY Zenon DEF StreamInv
<1> QED  BY <1>1, <1>4, <1>5, <1>6, <1>7

\* Every step keeps the queue and the array in line with the events.
LEMMA StreamStep ==
  ASSUME StreamInv, [SensorNext]_sensorVars
  PROVE  StreamInv'
<1>1. MaxBatch \in Nat /\ 1 .. MaxBatch \subseteq Slots /\ Slots \subseteq Nat
  BY SensorConstants DEF Slots
<1>2. Matches(<<>>, <<>>)
  BY DEF Matches
<1>3. CASE Initialize
  BY <1>1, <1>2, <1>3 DEF Initialize, EmptyBuffer, StreamInv
<1>4. ASSUME NEW events \in Batches, Write(events)
      PROVE  StreamInv'
  <2>1. Knows(events) /\ writing = 0 /\ writing' = writing /\ pending' = pending
        /\ mIntermediateEventBuffer' = Converted(events)
    BY <1>4, Zenon DEF Write
  <2>2. Matches(mQueue', accepted')
    <3>1. Matches(mQueue, accepted)
      BY Zenon DEF StreamInv
    <3>2. /\ events \in Seq(HidlEvents)
          /\ \A i \in 1 .. Len(events) : Converted(events)[i] = convertToAidlEvent(events[i])
      BY <2>1, ConvertedFacts, Zenon
    <3>3. Matches(mQueue \o SubSeq(Converted(events), 1, Len(events)), accepted \o events)
      BY <3>1, <3>2, MatchesAppend, Zenon
    <3>4. \/ /\ mQueue' = mQueue \o SubSeq(Converted(events), 1, Len(events))
             /\ accepted' = accepted \o events
          \/ mQueue' = mQueue /\ accepted' = accepted
      BY <1>4, Zenon DEF Write
    <3> QED  BY <3>1, <3>3, <3>4, Zenon
  <2>3. mIntermediateEventBuffer' \in [Slots -> AidlEvents \cup {None}]
    BY <2>1, ConvertedFacts, Zenon
  <2>4. writing' = 0 /\ pending' \in Seq(HidlEvents) /\ Len(pending') = 0
    BY <2>1, Zenon DEF StreamInv
  <2> QED  BY <1>1, <2>2, <2>3, <2>4 DEF StreamInv, Matches
<1>5. ASSUME NEW events \in Batches, WriteBlocking(events)
      PROVE  StreamInv'
  <2>1. /\ Knows(events) /\ writing' = Len(events) /\ pending' = events
        /\ mIntermediateEventBuffer' = Converted(events)
        /\ UNCHANGED <<mQueue, accepted>>
    BY <1>5, Zenon DEF WriteBlocking
  <2>2. /\ events \in Seq(HidlEvents) /\ Len(events) \in 1 .. MaxBatch
        /\ Converted(events) \in [Slots -> AidlEvents \cup {None}]
        /\ \A i \in 1 .. Len(events) : Converted(events)[i] = convertToAidlEvent(events[i])
    BY <2>1, ConvertedFacts, Zenon
  <2> QED  BY <1>1, <2>1, <2>2 DEF StreamInv, Matches
<1>6. CASE WriteBlockingEnds
  <2>1. writing' = 0 /\ pending' = <<>> /\ UNCHANGED mIntermediateEventBuffer
    BY <1>6, Zenon DEF WriteBlockingEnds
  <2>2. Matches(mQueue', accepted')
    <3>1. /\ Matches(mQueue, accepted) /\ pending \in Seq(HidlEvents) /\ writing = Len(pending)
          /\ \A i \in 1 .. writing : mIntermediateEventBuffer[i] = convertToAidlEvent(pending[i])
      BY Zenon DEF StreamInv
    <3>2. Matches(mQueue \o SubSeq(mIntermediateEventBuffer, 1, writing), accepted \o pending)
      BY <3>1, MatchesAppend, Zenon
    <3>3. \/ /\ mQueue' = mQueue \o SubSeq(mIntermediateEventBuffer, 1, writing)
             /\ accepted' = accepted \o pending
          \/ mQueue' = mQueue /\ accepted' = accepted
      BY <1>6, Zenon DEF WriteBlockingEnds
    <3> QED  BY <3>1, <3>2, <3>3, Zenon
  <2>3. mIntermediateEventBuffer' \in [Slots -> AidlEvents \cup {None}]
    BY <2>1, Zenon DEF StreamInv
  <2>4. /\ pending' \in Seq(HidlEvents) /\ writing' = Len(pending')
        /\ writing' \in 0 .. MaxBatch /\ 1 .. writing' = {}
    BY <1>1, <2>1
  <2> QED  BY <2>2, <2>3, <2>4, Zenon DEF StreamInv, Matches
<1>7. CASE FrameworkReads
  <2>1. /\ mQueue # <<>> /\ mQueue' = Tail(mQueue) /\ accepted' = Tail(accepted)
        /\ UNCHANGED <<mIntermediateEventBuffer, writing, pending>>
    BY <1>7, Zenon DEF FrameworkReads
  <2>2. Matches(mQueue', accepted')
    BY <2>1 DEF StreamInv, Matches
  <2> QED  BY <2>1, <2>2, Zenon DEF StreamInv, Matches
<1>8. ASSUME UNCHANGED queueVars PROVE StreamInv'
  BY <1>8, Zenon DEF queueVars, StreamInv, Matches
<1>9. ASSUME CheckFails \/ UNCHANGED sensorVars
             \/ \E type \in Listed : \E inner \in Inner(type) : InjectSensorData(type, inner)
      PROVE  UNCHANGED queueVars
  BY <1>9, Zenon DEF CheckFails, sensorVars, queueVars, InjectSensorData
<1> QED
  BY <1>3, <1>4, <1>5, <1>6, <1>7, <1>8, <1>9, Zenon DEF SensorNext, WriteUnknown, InjectUnknown

\* Converting an event the framework injects to HIDL and back gives it again.
LEMMA InjectionRoundTrip ==
  ASSUME NEW type \in Listed, NEW inner \in Inner(type)
  PROVE  convertToAidlEvent(convertToHidlEvent(AidlEvent(type, inner), Uninitialised))
           = [AidlEvent(type, inner) EXCEPT !.inner = IF @ = "dataFloat" THEN "dataInt32" ELSE @]
<1> DEFINE sent == AidlEvent(type, inner)
           got == convertToHidlEvent(sent, Uninitialised)
           room == Room(AidlTag(type))
           word == WordsToAidl(type)
           back == convertToAidlEvent(got)
<1>1. /\ word \in 1 .. Words /\ room \in word .. Words /\ Words \in Nat
      /\ Meaning(type) = word /\ WordsToHidl(type) = word
      /\ AidlTag(type) = "additional" <=> type = "ADDITIONAL_INFO"
  BY TypeFacts, Zenon DEF Words
<1>2. sent = [type |-> type, tag |-> AidlTag(type), inner |-> inner,
              values |-> [k \in 1 .. room |-> IF k <= word THEN WordOf(type, k) ELSE Zero]]
  BY <1>1, Zenon DEF AidlEvent
<1>3. got = [type |-> type,
             u |-> [k \in 1 .. Words |-> IF k <= word THEN sent.values[k]
                                           ELSE Uninitialised[k]]]
  BY <1>1, <1>2 DEF convertToHidlEvent
<1>4. back = [type |-> type, tag |-> AidlTag(type),
              inner |-> IF AidlTag(type) = "additional" THEN "dataInt32" ELSE "none",
              values |-> [k \in 1 .. room |-> IF k <= word THEN got.u[k] ELSE Zero]]
  BY <1>3 DEF convertToAidlEvent
<1> HIDE DEF sent, got, room, word, back
<1>5. back.values = sent.values
  BY <1>1, <1>2, <1>3, <1>4
<1>6. back.inner = IF inner = "dataFloat" THEN "dataInt32" ELSE inner
  BY <1>1, <1>4, Zenon DEF Inner
<1>7. back = [type |-> type, tag |-> AidlTag(type),
              inner |-> IF inner = "dataFloat" THEN "dataInt32" ELSE inner,
              values |-> sent.values]
  BY <1>4, <1>5, <1>6, Zenon
<1>8. [sent EXCEPT !.inner = IF @ = "dataFloat" THEN "dataInt32" ELSE @]
        = [type |-> type, tag |-> AidlTag(type),
           inner |-> IF inner = "dataFloat" THEN "dataInt32" ELSE inner,
           values |-> sent.values]
  <2> DEFINE tagged == IF inner = "dataFloat" THEN "dataInt32" ELSE inner
  <2>1. sent.inner = inner
    BY <1>2, Zenon
  <2>2. [sent EXCEPT !.inner = tagged]
          = [type |-> type, tag |-> AidlTag(type), inner |-> tagged, values |-> sent.values]
    <3>1. \A r, ty, tg, x, y, v :
            r = [type |-> ty, tag |-> tg, inner |-> x, values |-> v] =>
              [r EXCEPT !.inner = y]
                = [type |-> ty, tag |-> tg, inner |-> y, values |-> r.values]
      OBVIOUS
    <3> HIDE DEF tagged
    <3> QED  BY <1>2, <3>1, ZenonT(30)
  <2> QED  BY <2>1, <2>2, Zenon
<1>9. back = [sent EXCEPT !.inner = IF @ = "dataFloat" THEN "dataInt32" ELSE @]
  BY <1>7, <1>8, Zenon
<1> QED  BY <1>9, Zenon DEF back, got, sent

\* What the framework reads is what the sub-HALs wrote: no event of a failed or
\* timed out write, of an older batch in the reused array, and no word of the
\* union that means nothing, for any queue size, batch size and stream.
THEOREM QueueDeliversWrites == SensorSpec => []StreamIntact
<1>1. SensorInit => StreamInv
  BY SensorConstants DEF SensorInit, EmptyBuffer, StreamInv, Matches
<1>2. StreamInv /\ [SensorNext]_sensorVars => StreamInv'
  BY StreamStep, Zenon
<1>3. StreamInv => StreamIntact
  <2> SUFFICES ASSUME StreamInv PROVE StreamIntact
    BY Zenon
  <2>1. /\ mQueue \in Seq(AidlEvents) /\ accepted \in Seq(HidlEvents)
        /\ Len(mQueue) = Len(accepted)
        /\ \A i \in 1 .. Len(accepted) : mQueue[i] = convertToAidlEvent(accepted[i])
    BY Zenon DEF StreamInv, Matches
  <2>2. /\ DOMAIN mQueue = 1 .. Len(accepted)
        /\ \A i \in 1 .. Len(accepted) : accepted[i] \in HidlEvents
    BY <2>1, LenProperties, Zenon
  <2>3. \A i \in 1 .. Len(accepted) : SaysTheSame(mQueue[i], accepted[i])
    BY <2>1, <2>2, ConversionSaysTheSame, Zenon
  <2> QED  BY <2>1, <2>2, <2>3, Zenon DEF StreamIntact
<1> QED  BY <1>1, <1>2, <1>3, PTL DEF SensorSpec

\* Every event the framework injects reaches the proxy with the meaning it was
\* sent with, although it is converted into an uninitialised variable.
THEOREM InjectedEventsSurvive == SensorSpec => []InjectionIntact
<1>1. SensorInit => InjectionIntact
  BY Zenon DEF SensorInit, InjectionIntact
<1>2. InjectionIntact /\ [SensorNext]_sensorVars => InjectionIntact'
  <2> SUFFICES ASSUME InjectionIntact, [SensorNext]_sensorVars PROVE InjectionIntact'
    BY Zenon
  <2>1. ASSUME NEW type \in Listed, NEW inner \in Inner(type),
               InjectSensorData(type, inner)
        PROVE  InjectionIntact'
    <3>1. /\ injected'.sent = AidlEvent(type, inner)
          /\ injected'.got = convertToHidlEvent(AidlEvent(type, inner), Uninitialised)
      BY <2>1, Zenon DEF InjectSensorData
    <3> QED  BY <3>1, InjectionRoundTrip DEF InjectionIntact
  <2>2. ASSUME UNCHANGED injected PROVE InjectionIntact'
    BY <2>2, Zenon DEF InjectionIntact
  <2>3. UNCHANGED injected \/ \E type \in Listed : \E inner \in Inner(type) :
                                InjectSensorData(type, inner)
    BY Zenon DEF SensorNext, sensorVars, Initialize, Write, WriteBlocking, WriteUnknown, CheckFails,
           WriteBlockingEnds, FrameworkReads, InjectUnknown
  <2> QED  BY <2>1, <2>2, <2>3, Zenon
<1> QED  BY <1>1, <1>2, PTL DEF SensorSpec
=============================================================================
