------------------------------ MODULE Vibrator ------------------------------
(***************************************************************************)
(* The vibrator HAL, aidl/vibrator/Vibrator.cpp.  One binder thread serves *)
(* the calls; each call writes nodes of the timed_output driver one after  *)
(* the other, and a detached thread per call sleeps for the duration and   *)
(* then reports its completion.  Meanwhile the driver counts the motor     *)
(* down.  Time is counted in ticks.                                        *)
(***************************************************************************)
EXTENDS Integers, FiniteSets

CONSTANTS
  Timeouts,      \* durations on() is called with, in ticks
  Effects,       \* effects perform() is called with
  EffectTicks,   \* effectToMs: the duration of each effect, 0 if unsupported
  CpEffects,     \* the keys of CP_TRIGGER_EFFECTS
  CpTicks,       \* the duration of a triggered effect (1000 ms)
  Strengths,     \* strengths perform() is called with, "other" for an unknown one
  Amplitudes,    \* values of setAmplitude, in quarters
  UsPerTick,     \* microseconds in a tick
  UsSpan,        \* 2^32, where the argument of usleep wraps
  WordSpan,      \* 2^32, where the intensity wraps
  MaxCalls       \* bound: calls of on() and perform()

INTENSITY_MAX == 10000
Calls == 1 .. MaxCalls

ASSUME VibratorAssumption ==
  /\ Timeouts \subseteq Nat /\ CpEffects \subseteq Effects /\ CpTicks \in Nat
  /\ EffectTicks \in [Effects -> Nat] /\ Amplitudes \subseteq Nat
  /\ Strengths \subseteq {"LIGHT", "MEDIUM", "STRONG", "other"}
  /\ UsPerTick \in Nat \ {0} /\ UsSpan \in Nat \ {0}
  /\ WordSpan \in Nat \ {0} /\ MaxCalls \in Nat

VARIABLES
  has,       \* which nodes exist: mIsTimedOutVibrator, mHasTimedOutIntensity, ...Effect
  motor,     \* driver: ticks the motor still runs
  trigger,   \* driver: the effect the motor plays, or "none"
  intensity, \* driver: the intensity
  mExternalControl,
  pc,        \* the binder thread: what it does next in the current call
  call,      \* the current call
  threads,   \* per call, what its detached thread has left to sleep, or Gone
  made,      \* how many calls of on() and perform() there were
  completed, \* the calls whose onComplete was called
  latest,    \* the activation that set the motor last: its call, duration and effect
  failed     \* history: of the timeout and the cp_trigger node, those whose last
             \* write failed

vibratorVars == <<has, motor, trigger, intensity, mExternalControl, pc, call, threads, made,
                  completed, latest, failed>>
ghosts == <<made, completed>>
driver == <<motor, trigger, intensity>>

Gone == -1
NoVibration == [ticks |-> 0, effect |-> "none", strength |-> "other", callback |-> FALSE]
Stopped == [call |-> 0, ticks |-> 0, effect |-> "none"]

VibratorInit ==
  /\ has \in [timeout : BOOLEAN, intensity : BOOLEAN, effect : BOOLEAN]
  /\ motor = 0 /\ trigger = "none" /\ intensity = INTENSITY_MAX
  /\ mExternalControl = FALSE /\ pc = "idle" /\ call = NoVibration
  /\ threads = [c \in Calls |-> Gone] /\ made = 0 /\ completed = {}
  /\ latest = Stopped /\ failed = {}

-----------------------------------------------------------------------------
\* writeNode: a node that cannot be opened or written keeps its value.
Written(node) == failed' = failed \ {node}
NotWritten(node) == failed' = failed \cup {node}

\* activate: write the duration to the timeout node, if there is one.
Activate(ticks, by) ==
  \/ ~has.timeout /\ UNCHANGED <<motor, latest, failed>>
  \/ has.timeout /\ Written("timeout") /\ motor' = ticks /\ latest' = by
  \/ has.timeout /\ NotWritten("timeout") /\ UNCHANGED <<motor, latest>>

\* A write to the cp_trigger node, if there is one; on() and perform() go on
\* whatever comes of it.
WriteTrigger(effect) ==
  \/ ~has.effect /\ UNCHANGED <<trigger, failed>>
  \/ has.effect /\ Written("trigger") /\ trigger' = effect
  \/ has.effect /\ NotWritten("trigger") /\ UNCHANGED trigger

\* Mutant: half the time.
SleepTicksHalf(ticks) == ((ticks * UsPerTick) % UsSpan) \div (2 * UsPerTick)

\* The microseconds of usleep, cut to the width of its argument, in ticks.
SleepTicks(ticks) == ((ticks * UsPerTick) % UsSpan) \div UsPerTick

\* lround(x / y) for y > 0: halves go away from zero.
LRound(x, y) ==
  IF x >= 0 THEN (2 * x + y) \div (2 * y) ELSE -((2 * (-x) + y) \div (2 * y))

\* The intensity of an amplitude: converted to uint32_t, then capped.
Intensity(quarters) ==
  LET wide == LRound((quarters - 4) * INTENSITY_MAX, 4 * 254) % WordSpan
  IN IF wide > INTENSITY_MAX THEN INTENSITY_MAX ELSE wide

\* setAmplitude refuses an amplitude or an intensity of zero; its write may
\* fail as well.
WriteAmplitude(quarters) ==
  \/ UNCHANGED intensity
  \/ /\ quarters # 0 /\ Intensity(quarters) # 0 /\ has.intensity
     /\ intensity' = Intensity(quarters)

StrengthToAmplitude == [LIGHT |-> 64, MEDIUM |-> 128, STRONG |-> 255]

-----------------------------------------------------------------------------
Off ==
  /\ pc = "idle"
  /\ Activate(0, Stopped)
  /\ UNCHANGED <<has, trigger, intensity, mExternalControl, pc, call, threads, ghosts>>

SetAmplitude(quarters) ==
  /\ pc = "idle"
  /\ WriteAmplitude(quarters)
  /\ UNCHANGED <<has, motor, trigger, mExternalControl, pc, call, threads, ghosts, latest, failed>>

\* mEnabled is never set.
SetExternalControl(enabled) ==
  /\ pc = "idle"
  /\ mExternalControl' = enabled
  /\ UNCHANGED <<has, driver, pc, call, threads, ghosts, latest, failed>>

\* Mutant: on() leaves the trigger as it is.
OnWithoutClear(ticks, callback) ==
  /\ pc = "idle" /\ made < MaxCalls
  /\ made' = made + 1
  /\ call' = [NoVibration EXCEPT !.ticks = ticks, !.callback = callback]
  /\ pc' = "activate"
  /\ UNCHANGED <<has, driver, mExternalControl, threads, completed, latest, failed>>

\* on(): clear the effect, then activate and start the thread.
On(ticks, callback) ==
  /\ pc = "idle" /\ made < MaxCalls
  /\ made' = made + 1
  /\ call' = [NoVibration EXCEPT !.ticks = ticks, !.callback = callback]
  /\ WriteTrigger("none")
  /\ pc' = "activate"
  /\ UNCHANGED <<has, motor, intensity, mExternalControl, threads, completed, latest>>

\* perform(): a strength that is not known is refused and nothing happens,
\* otherwise the motor is stopped first.
Perform(effect, strength, callback) ==
  /\ pc = "idle" /\ made < MaxCalls
  /\ strength # "other"
  /\ made' = made + 1
  /\ Activate(0, Stopped)
  /\ call' = [ticks |-> CpTicks, effect |-> effect, strength |-> strength,
              callback |-> callback]
  /\ pc' = "amplitude"
  /\ UNCHANGED <<has, trigger, intensity, mExternalControl, threads, completed>>

PerformAmplitude ==
  /\ pc = "amplitude"
  /\ WriteAmplitude(4 * StrengthToAmplitude[call.strength])
  /\ pc' = "effect"
  /\ UNCHANGED <<has, motor, trigger, mExternalControl, call, threads, ghosts, latest, failed>>

\* perform(), continued: the trigger, or the duration of an effect that has
\* none; an effect that is not supported returns here.
PerformEffect ==
  /\ pc = "effect"
  /\ IF has.effect /\ call.effect \in CpEffects
     THEN WriteTrigger(call.effect) /\ pc' = "activate" /\ UNCHANGED call
     ELSE /\ WriteTrigger("none")
          /\ IF EffectTicks[call.effect] = 0
             THEN pc' = "idle" /\ call' = NoVibration
             ELSE pc' = "activate" /\ call' = [call EXCEPT !.ticks = EffectTicks[call.effect]]
  /\ UNCHANGED <<has, motor, intensity, mExternalControl, threads, ghosts, latest>>

\* status = activate(...): a failure is returned, but does not end the call.
ActivateMotor ==
  /\ pc = "activate"
  /\ Activate(call.ticks, [call |-> made, ticks |-> call.ticks, effect |-> call.effect])
  /\ pc' = "thread"
  /\ UNCHANGED <<has, trigger, intensity, mExternalControl, call, threads, ghosts>>

\* Mutant: no thread for a call whose motor has already stopped.
StartThreadIfRunning ==
  /\ pc = "thread"
  /\ threads' = IF call.callback /\ motor > 0
                THEN [threads EXCEPT ![made] = SleepTicks(call.ticks)] ELSE threads
  /\ pc' = "idle" /\ call' = NoVibration
  /\ UNCHANGED <<has, driver, mExternalControl, ghosts, latest, failed>>

\* The detached thread, if there is a callback; the call returns.
StartThread ==
  /\ pc = "thread"
  /\ threads' = IF call.callback THEN [threads EXCEPT ![made] = SleepTicks(call.ticks)]
                ELSE threads
  /\ pc' = "idle" /\ call' = NoVibration
  /\ UNCHANGED <<has, driver, mExternalControl, ghosts, latest, failed>>

\* The thread of call c has slept and calls onComplete.
Complete(c) ==
  /\ threads[c] = 0
  /\ threads' = [threads EXCEPT ![c] = Gone]
  /\ completed' = completed \cup {c}
  /\ UNCHANGED <<has, driver, mExternalControl, pc, call, made, latest, failed>>

\* Time passes for the motor and for the sleeping threads.
Tick ==
  /\ motor > 0 \/ \E c \in Calls : threads[c] > 0
  /\ motor' = IF motor > 0 THEN motor - 1 ELSE 0
  /\ threads' = [c \in Calls |-> IF threads[c] > 0 THEN threads[c] - 1 ELSE threads[c]]
  /\ UNCHANGED <<has, trigger, intensity, mExternalControl, pc, call, ghosts, latest, failed>>

VibratorNext ==
  \/ Off
  \/ \E quarters \in Amplitudes : SetAmplitude(quarters)
  \/ \E enabled \in BOOLEAN : SetExternalControl(enabled)
  \/ \E ticks \in Timeouts, callback \in BOOLEAN : On(ticks, callback)
  \/ \E effect \in Effects, strength \in Strengths, callback \in BOOLEAN :
       Perform(effect, strength, callback)
  \/ PerformAmplitude \/ PerformEffect \/ ActivateMotor \/ StartThread
  \/ \E c \in Calls : Complete(c)
  \/ Tick

\* Calls that were begun proceed, time passes, threads that have slept run.
VibratorFairness ==
  /\ WF_vibratorVars(PerformAmplitude \/ PerformEffect \/ ActivateMotor \/ StartThread)
  /\ WF_vibratorVars(Tick) /\ \A c \in Calls : WF_vibratorVars(Complete(c))

VibratorSpec == VibratorInit /\ [][VibratorNext]_vibratorVars /\ VibratorFairness

-----------------------------------------------------------------------------
\* The sleep of the latest activation is not cut by the width of usleep's argument.
SleepFits == latest.ticks * UsPerTick < UsSpan

\* When the call that started the motor last is reported complete, the motor
\* has stopped, however the driver, the binder thread and the detached threads
\* interleave.
CompleteAfterMotor ==
  [][\A c \in completed' \ completed : latest.call = c /\ SleepFits => motor = 0]_vibratorVars

\* A vibration that on() started never plays an effect an earlier perform()
\* left in the trigger node, as long as the last write to the timeout and to the
\* trigger node came through: one good write each is enough to recover from any
\* number of failures whose results were dropped.
NoStaleEffect ==
  motor > 0 /\ latest.effect = "none" /\ failed = {} => trigger = "none"

\* Every call with a callback that gets as far as starting the motor is
\* reported complete, also when it is stopped or replaced before its end.
EveryCallCompletes ==
  \A c \in Calls : (pc = "thread" /\ made = c /\ call.callback) ~> (c \in completed)
=============================================================================
