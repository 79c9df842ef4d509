---------------------- MODULE FingerprintVibratorProofs ----------------------
(***************************************************************************)
(* Proofs about two components that do not interact.                       *)
(*                                                                         *)
(* Fingerprint, for any clients, flags, messages and results: the          *)
(* constructor against an early message, the client's mutex against        *)
(* setNotify(), and the key events of a gesture.                           *)
(*                                                                         *)
(* Vibrator, for any durations, effects and numbers of calls: what the     *)
(* driver's nodes hold, and the detached threads against the motor.        *)
(***************************************************************************)
EXTENDS Fingerprint, Vibrator, TLAPS

Outside == {"idle", "notify"}
Gesture == {"press", "flush", "release", "flush2"}
Steps == Outside \cup Gesture \cup {"cancel", "call", "return"}

TypeOK ==
  /\ flags \in SUBSET Flags
  /\ main \in {"start", "open", "setup", "serving", "dead"}
  /\ instances \in Nat
  /\ sInstance \in BOOLEAN /\ hooked \in BOOLEAN
  /\ hal \in {"closed", "missing", "open"}
  /\ uinput \in {"closed", "unusable", "ready"}
  /\ mutex \in Threads \cup {"free"}
  /\ mClientCallback \in Clients \cup {NoClient}
  /\ at \in [Threads -> Steps]
  /\ msg \in [Threads -> Msgs]
  /\ target \in [Threads -> Clients \cup {NoClient}]

\* What the constructor has done at each of its places.  A library that did not
\* open never calls notify(), so the process can only die, and be started
\* again, with no thread inside it.
SetUpInv ==
  /\ instances = IF main = "start" THEN 0 ELSE 1
  /\ main # "start" => sInstance
  /\ hooked => main \in {"setup", "serving"} /\ hal # "missing"
  /\ main = "dead" => hal = "missing"
  /\ mClientCallback # NoClient => main = "serving"

\* Who can be inside notify(), and that the holder of the mutex is the only
\* thread past taking it.
NotifyInv ==
  /\ at["vendor"] # "idle" => hooked
  /\ at["binder"] # "idle" => main = "serving"
  /\ \A t \in Threads : mutex = t <=> at[t] \notin Outside
  /\ \A t \in Threads : at[t] \in {"cancel", "call"} => target[t] = mClientCallback
  /\ \A t \in Threads : at[t] \in Gesture => main = "serving"

\* The key that is down is the one of the gesture between its press and release.
KeyInv ==
  "uinput_fails" \notin flags =>
    /\ \A t \in Threads :
         at[t] \in {"flush", "release"} => uinput = "ready" /\ keys = {msg[t].value}
    /\ (\A t \in Threads : at[t] \notin {"flush", "release"}) => keys = {}

IInv == TypeOK /\ SetUpInv /\ NotifyInv /\ KeyInv
-----------------------------------------------------------------------------
\* A fresh process is in the invariant: nothing is constructed, nobody is
\* inside notify().
LEMMA InitIInv == Init => IInv
<1> SUFFICES ASSUME Init PROVE IInv
  BY Zenon
<1>1. NoMsg \in Msgs
  BY Zenon DEF NoMsg, Msgs
<1>2. TypeOK
  BY <1>1, FingerprintAssumption, Zenon DEF Init, TypeOK, Threads, Steps, Outside
<1>3. SetUpInv
  BY Zenon DEF Init, SetUpInv
<1>4. NotifyInv
  BY Zenon DEF Init, NotifyInv, Threads, Outside, Gesture
<1>5. KeyInv
  BY Zenon DEF Init, KeyInv, Threads
<1> QED BY <1>2, <1>3, <1>4, <1>5, Zenon DEF IInv

\* The constructor and init: no step of them meets a thread inside notify()
\* that the step could disturb.
LEMMA SetUpSteps ==
  IInv /\ (Construct \/ OpenHal \/ SetUp \/ Restart) => IInv'
<1> SUFFICES ASSUME IInv, Construct \/ OpenHal \/ SetUp \/ Restart
             PROVE  IInv'
  BY Zenon
<1> USE DEF IInv
<1>1. CASE Construct
  <2>1. TypeOK'
    BY <1>1 DEF Construct, TypeOK
  <2>2. SetUpInv'
    BY <1>1 DEF Construct, SetUpInv, TypeOK
  <2>3. NotifyInv'
    BY <1>1, Zenon DEF Construct, NotifyInv, SetUpInv, TypeOK, Gesture, Threads
  <2>4. KeyInv'
    BY <1>1, Zenon DEF Construct, KeyInv
  <2> QED BY <2>1, <2>2, <2>3, <2>4, Zenon
<1>2. CASE OpenHal
  <2>1. TypeOK'
    BY <1>2, Zenon DEF OpenHal, TypeOK
  <2>2. SetUpInv'
    BY <1>2, Zenon DEF OpenHal, SetUpInv, TypeOK
  <2>3. NotifyInv'
    BY <1>2, Zenon DEF OpenHal, NotifyInv, SetUpInv, TypeOK, Gesture, Threads
  <2>4. KeyInv'
    BY <1>2, Zenon DEF OpenHal, KeyInv
  <2> QED BY <2>1, <2>2, <2>3, <2>4, Zenon
<1>3. CASE SetUp
  <2>1. TypeOK'
    BY <1>3, Zenon DEF SetUp, TypeOK
  <2>2. SetUpInv'
    BY <1>3, Zenon DEF SetUp, SetUpInv, TypeOK
  <2>3. NotifyInv'
    BY <1>3, Zenon DEF SetUp, NotifyInv, SetUpInv, TypeOK, Gesture, Threads
  <2>4. KeyInv'
    BY <1>3, Zenon DEF SetUp, KeyInv, NotifyInv, Gesture
  <2> QED BY <2>1, <2>2, <2>3, <2>4, Zenon
<1>4. CASE Restart
  <2>1. TypeOK'
    BY <1>4, Zenon DEF Restart, TypeOK
  <2>2. SetUpInv'
    BY <1>4, Zenon DEF Restart, SetUpInv, TypeOK
  <2>3. NotifyInv'
    BY <1>4, Zenon DEF Restart, NotifyInv, SetUpInv, TypeOK, Gesture, Threads
  <2>4. KeyInv'
    BY <1>4, Zenon DEF Restart, KeyInv
  <2> QED BY <2>1, <2>2, <2>3, <2>4, Zenon
<1> QED BY <1>1, <1>2, <1>3, <1>4, Zenon

\* The binder thread: setNotify() changes the client only while nobody holds
\* the mutex, and cancel() enters notify() itself.
LEMMA BinderSteps ==
  ASSUME IInv,
         (\E c \in Clients \cup {NoClient} : SetNotify(c)) \/ Request \/ BadStorePath \/ Cancel
  PROVE  IInv'
<1> USE DEF IInv
<1>1. ASSUME NEW c \in Clients \cup {NoClient}, SetNotify(c)
      PROVE  IInv'
  <2>1. TypeOK'
    BY <1>1, Zenon DEF SetNotify, setup, TypeOK
  <2>2. SetUpInv'
    BY <1>1, Zenon DEF SetNotify, setup, SetUpInv
  <2>3. NotifyInv'
    BY <1>1, Zenon DEF SetNotify, setup, NotifyInv, TypeOK, Threads, Outside
  <2>4. KeyInv'
    BY <1>1, Zenon DEF SetNotify, setup, KeyInv
  <2> QED BY <2>1, <2>2, <2>3, <2>4, Zenon
<1>2. CASE Request
  BY <1>2, Zenon DEF Request, setup, TypeOK, SetUpInv, NotifyInv, KeyInv
<1>3. CASE BadStorePath
  BY <1>3 DEF BadStorePath, setup, TypeOK, SetUpInv, NotifyInv, KeyInv
<1>4. CASE Cancel
  <2> DEFINE cancelled == [type |-> "error", value |-> FINGERPRINT_ERROR_CANCELED]
  <2>1. cancelled \in Msgs
    BY Zenon DEF Msgs
  <2>2. \/ /\ at' = [at EXCEPT !["binder"] = "notify"]
           /\ msg' = [msg EXCEPT !["binder"] = cancelled]
        \/ UNCHANGED <<at, msg>>
    BY <1>4, Zenon DEF Cancel
  <2>3. /\ main = "serving" /\ at["binder"] = "idle"
        /\ UNCHANGED <<setup, mutex, mClientCallback, target, keys, inbox>>
    BY <1>4, Zenon DEF Cancel
  <2> HIDE DEF cancelled
  <2>4. TypeOK'
    BY <2>1, <2>2, <2>3 DEF setup, TypeOK, Threads, Steps, Outside
  <2>5. SetUpInv'
    BY <2>3, Zenon DEF setup, SetUpInv
  <2>6. NotifyInv'
    BY <2>2, <2>3, Zenon DEF setup, NotifyInv, TypeOK, Threads, Outside, Gesture
  <2>7. KeyInv'
    BY <2>2, <2>3, Zenon DEF setup, KeyInv, TypeOK, Threads
  <2> QED BY <2>4, <2>5, <2>6, <2>7, Zenon
<1> QED BY <1>1, <1>2, <1>3, <1>4, Zenon

\* The vendor library's message.
LEMMA RaiseStep ==
  ASSUME IInv, NEW m \in Msgs, Raise(m)
  PROVE  IInv'
<1> USE DEF IInv
<1>1. TypeOK'
  BY Zenon DEF Raise, setup, TypeOK, Threads, Steps, Outside
<1>2. SetUpInv'
  BY Zenon DEF Raise, setup, SetUpInv
<1>3. NotifyInv'
  BY Zenon DEF Raise, setup, NotifyInv, TypeOK, Threads, Outside, Gesture
<1>4. KeyInv'
  BY Zenon DEF Raise, setup, KeyInv, TypeOK, Threads
<1> QED BY <1>1, <1>2, <1>3, <1>4, Zenon

\* Taking the mutex: the object exists, and only a registered client is called.
LEMMA NotifyLockStep ==
  ASSUME IInv, NEW t \in Threads, NotifyLock(t)
  PROVE  IInv'
<1> USE DEF IInv
<1>1. sInstance
  BY Zenon DEF NotifyLock, Threads, SetUpInv, NotifyInv
<1>2. NextStep(msg[t]) \in {"return", "press", "cancel", "call"}
  BY Zenon DEF NextStep
<1>3. NextStep(msg[t]) \in {"press", "cancel", "call"} => mClientCallback # NoClient
  BY Zenon DEF NextStep
<1> DEFINE step == NextStep(msg[t])
<1>4. /\ at[t] = "notify" /\ mutex = "free" /\ mutex' = t
      /\ at' = [at EXCEPT ![t] = step]
      /\ target' = [target EXCEPT ![t] = mClientCallback]
      /\ UNCHANGED <<setup, mClientCallback, msg, keys, inbox, status>>
  BY <1>1, Zenon DEF NotifyLock, setup
<1>5. step \in {"return", "press", "cancel", "call"} /\ (step = "press" => mClientCallback # NoClient)
  BY <1>2, <1>3, Zenon
<1> HIDE DEF step
<1>6. TypeOK'
  BY <1>4, <1>5 DEF setup, TypeOK, Steps, Gesture
<1>7. SetUpInv'
  BY <1>4, Zenon DEF setup, SetUpInv
<1>8. NotifyInv'
  BY <1>4, <1>5, Zenon DEF setup, NotifyInv, SetUpInv, TypeOK, Threads, Outside, Gesture
<1>9. KeyInv'
  BY <1>4, <1>5, Zenon DEF setup, KeyInv, TypeOK, Threads
<1> QED BY <1>6, <1>7, <1>8, <1>9, Zenon

\* Calling the library or the client leaves the mutex and the keys alone.
LEMMA CallClientStep ==
  ASSUME IInv, NEW t \in Threads, CancelOnCompletion(t) \/ CallClient(t)
  PROVE  IInv'
<1> USE DEF IInv
<1>1. /\ \/ at[t] = "cancel" /\ at' = [at EXCEPT ![t] = "call"]
         \/ at[t] = "call" /\ at' = [at EXCEPT ![t] = "return"]
      /\ UNCHANGED <<setup, mutex, mClientCallback, msg, target, keys, status>>
  BY Zenon DEF CancelOnCompletion, CallClient
<1>2. TypeOK'
  BY <1>1 DEF setup, TypeOK, Steps
<1>3. SetUpInv'
  BY <1>1, Zenon DEF setup, SetUpInv
<1>4. NotifyInv'
  BY <1>1, Zenon DEF setup, NotifyInv, TypeOK, Threads, Outside, Gesture
<1>5. KeyInv'
  BY <1>1, Zenon DEF setup, KeyInv, TypeOK, Threads
<1> QED BY <1>2, <1>3, <1>4, <1>5, Zenon

\* One write of a gesture: the holder of the mutex is the only thread with a
\* key down, so its release leaves none.
LEMMA WriteKeyStep ==
  ASSUME IInv, NEW t \in Threads, WriteKey(t)
  PROVE  IInv'
<1> USE DEF IInv
<1>1. at[t] \in Gesture /\ UNCHANGED <<setup, mutex, mClientCallback, msg, target>>
  BY Zenon DEF WriteKey, Gesture
<1>2. PICK next \in {"flush", "release", "flush2", "return"} : at' = [at EXCEPT ![t] = next]
  BY Zenon DEF WriteKey, AfterWrite
<1>3. TypeOK'
  BY <1>1, <1>2 DEF setup, TypeOK, Steps, Gesture
<1>4. SetUpInv'
  BY <1>1, Zenon DEF setup, SetUpInv
<1>5. NotifyInv'
  BY <1>1, <1>2, Zenon DEF setup, NotifyInv, TypeOK, Threads, Outside, Gesture
<1>6. KeyInv'
  <2> SUFFICES ASSUME "uinput_fails" \notin flags
               PROVE  KeyInv'
    BY <1>1, Zenon DEF KeyInv, setup
  <2>1. \A u \in Threads : u # t => at[u] \in Outside /\ at'[u] = at[u]
    BY <1>1, <1>2, Zenon DEF NotifyInv, TypeOK, Gesture, Outside
  <2>2. at[t] \in {"flush", "release"} => uinput = "ready" /\ keys = {msg[t].value}
    BY Zenon DEF KeyInv
  <2>3. at[t] \in {"press", "flush2"} => keys = {}
    BY <2>1, Zenon DEF KeyInv, Outside
  <2>4. \/ /\ at[t] = "press" /\ uinput = "ready"
           /\ keys' = keys \cup {msg[t].value} /\ at'[t] = "flush"
        \/ at[t] = "flush" /\ keys' = keys /\ at'[t] = "release"
        \/ at[t] = "release" /\ keys' = keys \ {msg[t].value} /\ at'[t] = "flush2"
        \/ at[t] = "flush2" /\ keys' = keys /\ at'[t] = "return"
        \/ at[t] \in {"press", "flush2"} /\ keys' = keys /\ at'[t] = "return"
    BY <2>2, Zenon DEF WriteKey, AfterWrite, TypeOK
  <2>5. at'[t] \in {"flush", "release"} => uinput = "ready" /\ keys' = {msg[t].value}
    BY <2>2, <2>3, <2>4, Zenon
  <2>6. at'[t] \notin {"flush", "release"} => keys' = {}
    BY <2>2, <2>3, <2>4, Zenon
  <2> QED BY <1>1, <2>1, <2>5, <2>6, Zenon DEF KeyInv, setup, Outside
<1> QED BY <1>3, <1>4, <1>5, <1>6, Zenon

\* Leaving notify() gives the mutex back.
LEMMA NotifyReturnStep ==
  ASSUME IInv, NEW t \in Threads, NotifyReturn(t)
  PROVE  IInv'
<1> USE DEF IInv
<1>1. NoMsg \in Msgs
  BY Zenon DEF NoMsg, Msgs
<1>2. /\ at[t] = "return" /\ at' = [at EXCEPT ![t] = "idle"] /\ mutex' = "free"
      /\ msg' = [msg EXCEPT ![t] = NoMsg] /\ target' = [target EXCEPT ![t] = NoClient]
      /\ UNCHANGED <<setup, mClientCallback, keys, inbox, status>>
  BY Zenon DEF NotifyReturn
<1>3. TypeOK'
  BY <1>1, <1>2, Zenon DEF setup, TypeOK, Steps, Outside
<1>4. SetUpInv'
  BY <1>2, Zenon DEF setup, SetUpInv
<1>5. NotifyInv'
  BY <1>2, Zenon DEF setup, NotifyInv, TypeOK, Threads, Outside, Gesture
<1>6. KeyInv'
  BY <1>2, Zenon DEF setup, KeyInv, TypeOK, Threads
<1> QED BY <1>3, <1>4, <1>5, <1>6, Zenon

\* The inductive invariant holds of every behaviour, whatever the build's flags.
THEOREM InductiveInvariant == Spec => []IInv
<1>1. IInv /\ [Next]_vars => IInv'
  <2> SUFFICES ASSUME IInv, [Next]_vars PROVE IInv'
    BY Zenon
  <2>1. CASE UNCHANGED vars
    BY <2>1 DEF vars, IInv, TypeOK, SetUpInv, NotifyInv, KeyInv
  <2>2. ASSUME NEW t \in Threads, NotifyStep(t) PROVE IInv'
    BY <2>2, NotifyLockStep, CallClientStep, WriteKeyStep, NotifyReturnStep, Zenon DEF NotifyStep
  <2> QED BY <2>1, <2>2, SetUpSteps, BinderSteps, RaiseStep, Zenon DEF Next
<1> QED BY InitIInv, <1>1, PTL DEF Spec

-----------------------------------------------------------------------------
\* A message of the vendor library never makes notify() construct a second
\* object, however early it arrives and however often the process is restarted.
THEOREM OnlyOneInstance == Spec => []OneInstance
<1>1. IInv => OneInstance
  BY DEF IInv, SetUpInv, OneInstance
<1> QED BY InductiveInvariant, <1>1, PTL

\* notify() calls a client only under the mutex, and it is the one registered:
\* setNotify() cannot return while the client it replaces is being called.
THEOREM OnlyCurrentClient == Spec => []CallsCurrentClient
<1>1. IInv => CallsCurrentClient
  BY Zenon DEF IInv, NotifyInv, CallsCurrentClient, Outside
<1> QED BY InductiveInvariant, <1>1, PTL

\* A gesture that the uinput device accepts leaves no key down, and neither do
\* two threads that handle gestures.
THEOREM KeysReleased == Spec => []NoKeyLeftDown
<1>1. IInv => NoKeyLeftDown
  BY Zenon DEF IInv, KeyInv, NoKeyLeftDown
<1> QED BY InductiveInvariant, <1>1, PTL

-----------------------------------------------------------------------------
(* The vibrator.                                                           *)
EffectNames == Effects \cup {"none"}
StrengthNames == Strengths \cup {"other"}

VTypeOK ==
  /\ has \in [timeout : BOOLEAN, intensity : BOOLEAN, effect : BOOLEAN]
  /\ motor \in Nat
  /\ pc \in {"idle", "amplitude", "effect", "activate", "thread"}
  /\ call \in [ticks : Nat, effect : EffectNames, strength : StrengthNames, callback : BOOLEAN]
  /\ threads \in [Calls -> Nat \cup {Gone}]
  /\ made \in 0 .. MaxCalls
  /\ latest \in [call : 0 .. made, ticks : Nat, effect : EffectNames]
  /\ pc \in {"amplitude", "effect"} => call.effect \in Effects

\* What the nodes hold while a call runs: a node that does not exist was never
\* written; unless the write failed, perform() has stopped the motor until it
\* starts it again, and on() has cleared the trigger when it comes to start the
\* motor.
NodeInv ==
  /\ ~has.timeout => motor = 0
  /\ ~has.effect => trigger = "none"
  /\ pc \in {"amplitude", "effect"} => motor = 0 \/ "timeout" \in failed
  /\ pc = "activate" => IF call.effect = "none" THEN trigger = "none" \/ "trigger" \in failed
                        ELSE motor = 0 \/ "timeout" \in failed
  /\ NoStaleEffect

\* The motor runs no longer than the activation said and than the detached
\* thread of its call sleeps. Before a call has started its thread there is none
\* with its number, and before it activates the motor no activation is its own.
SleepInv ==
  /\ pc # "idle" => made > 0
  /\ \A c \in Calls : threads[c] # Gone => c <= made /\ (pc # "idle" => c < made)
  /\ pc \in {"amplitude", "effect", "activate"} => latest.call < made
  /\ pc = "thread" /\ latest.call = made => latest.ticks = call.ticks
  /\ motor <= latest.ticks
  /\ \A c \in Calls :
       latest.call = c /\ SleepFits /\ threads[c] # Gone => motor <= threads[c]

VInv == VTypeOK /\ NodeInv /\ SleepInv

\* A sleep that fits usleep's argument takes as many ticks as were asked for.
LEMMA SleepTicksFacts ==
  ASSUME NEW t \in Nat
  PROVE  SleepTicks(t) \in Nat /\ (t * UsPerTick < UsSpan => SleepTicks(t) = t)
<1> DEFINE us == t * UsPerTick
<1>1. UsPerTick \in Nat \ {0} /\ UsSpan \in Nat \ {0}
  BY VibratorAssumption, Zenon
<1>2. us \in Nat
  BY <1>1
<1>3. us < UsSpan => us % UsSpan = us
  <2> HIDE DEF us
  <2> QED  BY <1>1, <1>2
<1>4. us \div UsPerTick = t
  <2> DEFINE q == us \div UsPerTick
  <2>1. q \in Int /\ us - UsPerTick * q \in 0 .. UsPerTick - 1
    BY <1>1, <1>2
  <2> HIDE DEF q
  <2>2. UsPerTick * (t - q) \in 0 .. UsPerTick - 1
    BY <1>1, <2>1
  <2>3. ~(t > q)
    <3> SUFFICES ASSUME t > q PROVE FALSE
      BY Zenon
    <3>1. t - q - 1 \in Nat
      BY <2>1
    <3>2. UsPerTick * (t - q - 1) >= 0
      BY <1>1, <3>1
    <3>3. UsPerTick * (t - q - 1) = UsPerTick * (t - q) - UsPerTick
      BY <1>1, <2>1
    <3> QED  BY <1>1, <2>2, <3>2, <3>3
  <2>4. ~(t < q)
    <3> SUFFICES ASSUME t < q PROVE FALSE
      BY Zenon
    <3>1. q - t - 1 \in Nat
      BY <2>1
    <3>2. UsPerTick * (q - t - 1) >= 0
      BY <1>1, <3>1
    <3>3. UsPerTick * (q - t - 1) = -(UsPerTick * (t - q)) - UsPerTick
      BY <1>1, <2>1
    <3> QED  BY <1>1, <2>2, <3>2, <3>3
  <2> QED  BY <2>1, <2>3, <2>4 DEF q
<1>5. SleepTicks(t) \in Nat
  <2> DEFINE cut == us % UsSpan
  <2>1. cut \in Nat
    BY <1>1, <1>2
  <2> HIDE DEF cut
  <2>2. cut \div UsPerTick \in Nat
    BY <1>1, <2>1
  <2> QED  BY <2>2, Zenon DEF cut, SleepTicks
<1> QED  BY <1>3, <1>4, <1>5, Zenon DEF SleepTicks

\* Before the first call the nodes are at rest and there are no threads.
LEMMA VInitInv ==
  ASSUME VibratorInit
  PROVE  VInv
BY VibratorAssumption DEF VibratorInit, VInv, VTypeOK, NodeInv, SleepInv, NoStaleEffect,
       SleepFits, NoVibration, Stopped, Gone, Calls, StrengthNames, EffectNames

\* The calls that leave the motor and the threads alone, or stop the motor.
LEMMA VIdleStep ==
  ASSUME VInv,
         Off \/ (\E quarters \in Amplitudes : SetAmplitude(quarters))
           \/ (\E enabled \in BOOLEAN : SetExternalControl(enabled)) \/ UNCHANGED vibratorVars
  PROVE  VInv'
<1> USE DEF VInv, VTypeOK, NodeInv, SleepInv, NoStaleEffect, SleepFits, ghosts, driver
<1>1. CASE Off
  BY <1>1, VibratorAssumption DEF Off, Activate, Written, NotWritten, Stopped, EffectNames, Calls
<1>2. CASE \E quarters \in Amplitudes : SetAmplitude(quarters)
  BY <1>2 DEF SetAmplitude
<1>3. CASE \E enabled \in BOOLEAN : SetExternalControl(enabled)
  BY <1>3 DEF SetExternalControl
<1>4. CASE UNCHANGED vibratorVars
  BY <1>4 DEF vibratorVars
<1> QED  BY <1>1, <1>2, <1>3, <1>4, Zenon

\* on() and perform() begin a call: on() with a cleared trigger, perform() with
\* the motor stopped.
LEMMA VBeginStep ==
  ASSUME VInv,
         \/ \E ticks \in Timeouts, callback \in BOOLEAN : On(ticks, callback)
         \/ \E effect \in Effects, strength \in Strengths, callback \in BOOLEAN :
              Perform(effect, strength, callback)
  PROVE  VInv'
<1>1. Timeouts \subseteq Nat /\ CpTicks \in Nat /\ MaxCalls \in Nat
  BY VibratorAssumption, Zenon
<1>2. VTypeOK /\ NodeInv /\ SleepInv
  BY Zenon DEF VInv
<1>3. ASSUME NEW ticks \in Timeouts, NEW callback \in BOOLEAN, On(ticks, callback)
      PROVE  VInv'
  <2>1. /\ pc = "idle" /\ made' = made + 1 /\ made < MaxCalls
        /\ pc' = "activate" /\ UNCHANGED <<has, motor, threads, latest>>
        /\ WriteTrigger("none")
    BY <1>3, Zenon DEF On
  <2>2. call' = [ticks |-> ticks, effect |-> "none", strength |-> "other",
                 callback |-> callback]
    BY <1>3, Zenon DEF On, NoVibration
  <2>3. VTypeOK'
    BY <1>1, <1>2, <2>1, <2>2 DEF VTypeOK, StrengthNames, EffectNames
  <2>4. NodeInv'
    <3>1. \/ trigger' = "none"
          \/ has.effect /\ trigger' = trigger /\ "trigger" \in failed'
      BY <1>2, <2>1, Zenon DEF WriteTrigger, Written, NotWritten, NodeInv
    <3> QED  BY <1>2, <2>1, <2>2, <3>1, Zenon DEF NodeInv, NoStaleEffect, VTypeOK
  <2>5. SleepInv'
    BY <1>1, <1>2, <2>1 DEF SleepInv, VTypeOK, SleepFits, Calls
  <2> QED  BY <2>3, <2>4, <2>5, Zenon DEF VInv
<1>4. ASSUME NEW effect \in Effects, NEW strength \in Strengths, NEW callback \in BOOLEAN,
             Perform(effect, strength, callback)
      PROVE  VInv'
  <2>1. /\ pc = "idle" /\ made' = made + 1 /\ made < MaxCalls
        /\ pc' = "amplitude" /\ UNCHANGED <<has, trigger, threads>>
        /\ Activate(0, Stopped)
        /\ call' = [ticks |-> CpTicks, effect |-> effect, strength |-> strength,
                    callback |-> callback]
    BY <1>4, Zenon DEF Perform
  <2>2. \/ motor' = 0 /\ latest' \in {latest, Stopped}
        \/ has.timeout /\ "timeout" \in failed' /\ UNCHANGED <<motor, latest>>
    BY <1>2, <2>1, Zenon DEF Activate, NotWritten, NodeInv
  <2>3. VTypeOK'
    <3>1. call' \in [ticks : Nat, effect : EffectNames, strength : StrengthNames,
                     callback : BOOLEAN] /\ call'.effect \in Effects
      BY <1>1, <1>4, <2>1 DEF EffectNames, StrengthNames
    <3>2. motor' \in Nat /\ made' \in 0 .. MaxCalls
      BY <1>1, <1>2, <2>1, <2>2 DEF VTypeOK
    <3>3. latest' \in [call : 0 .. made', ticks : Nat, effect : EffectNames]
      BY <1>1, <1>2, <2>1, <2>2 DEF VTypeOK, EffectNames, Stopped
    <3> QED  BY <1>2, <2>1, <3>1, <3>2, <3>3, Zenon DEF VTypeOK
  <2>4. NodeInv'
    <3>1. NoStaleEffect'
      <4>1. CASE motor' = 0
        BY <4>1, SMT DEF NoStaleEffect
      <4>2. CASE "timeout" \in failed'
        BY <4>2, SMT DEF NoStaleEffect
      <4> QED  BY <2>2, <4>1, <4>2, Zenon
    <3>2. /\ motor' = 0 \/ "timeout" \in failed'
          /\ ~has'.timeout => motor' = 0
      BY <2>1, <2>2, Zenon
    <3>3. ~has'.effect => trigger' = "none"
      BY <1>2, <2>1, Zenon DEF NodeInv
    <3>4. pc' # "activate"
      BY <2>1, SMT
    <3> QED  BY <3>1, <3>2, <3>3, <3>4, Zenon DEF NodeInv
  <2>5. SleepInv'
    BY <1>1, <1>2, <2>1, <2>2 DEF SleepInv, VTypeOK, SleepFits, Calls, Stopped, Gone
  <2> QED  BY <2>3, <2>4, <2>5, Zenon DEF VInv
<1> QED  BY <1>3, <1>4, Zenon

\* perform() goes on: the amplitude, then the trigger or the duration.
LEMMA VPerformStep ==
  ASSUME VInv, PerformAmplitude \/ PerformEffect
  PROVE  VInv'
<1> USE DEF VInv, VTypeOK, NodeInv, SleepInv, NoStaleEffect, SleepFits, ghosts
<1>1. CASE PerformAmplitude
  BY <1>1, Zenon DEF PerformAmplitude
<1>2. CASE PerformEffect
  <2>1. VTypeOK'
    <3>1. EffectTicks[call.effect] \in Nat
      BY <1>2, VibratorAssumption, Zenon DEF PerformEffect
    <3>2. call' \in {call, NoVibration, [call EXCEPT !.ticks = EffectTicks[call.effect]]}
      BY <1>2, Zenon DEF PerformEffect
    <3>3. call' \in [ticks : Nat, effect : EffectNames, strength : StrengthNames,
                     callback : BOOLEAN]
      <4> DEFINE Record == [ticks : Nat, effect : EffectNames, strength : StrengthNames,
                            callback : BOOLEAN]
      <4>1. call \in Record
        BY Zenon
      <4>2. NoVibration \in Record
        BY Zenon DEF NoVibration, StrengthNames, EffectNames
      <4>3. [call EXCEPT !.ticks = EffectTicks[call.effect]] \in Record
        BY <3>1, <4>1, Zenon
      <4> QED  BY <3>2, <4>1, <4>2, <4>3, Zenon
    <3> QED  BY <1>2, <3>3, Zenon DEF PerformEffect
  <2>2. NodeInv'
    BY <1>2 DEF PerformEffect, WriteTrigger, Written, NotWritten
  <2>3. SleepInv'
    BY <1>2, Zenon DEF PerformEffect
  <2> QED  BY <2>1, <2>2, <2>3, Zenon
<1> QED  BY <1>1, <1>2, Zenon

\* The motor is started for the call, then its thread, with the same duration.
LEMMA VStartStep ==
  ASSUME VInv, ActivateMotor \/ StartThread
  PROVE  VInv'
<1> USE DEF VInv, VTypeOK, NodeInv, SleepInv, NoStaleEffect, SleepFits, ghosts, driver
<1>1. CASE ActivateMotor
  BY <1>1, VibratorAssumption DEF ActivateMotor, Activate, Written, NotWritten, Calls
<1>2. CASE StartThread
  <2> DEFINE sleep == SleepTicks(call.ticks)
  <2>1. sleep \in Nat /\ (call.ticks * UsPerTick < UsSpan => sleep = call.ticks)
    BY SleepTicksFacts, Zenon
  <2>2. /\ pc = "thread" /\ pc' = "idle" /\ call' = NoVibration
        /\ threads' = IF call.callback THEN [threads EXCEPT ![made] = sleep] ELSE threads
        /\ UNCHANGED <<has, motor, trigger, made, latest, failed>>
    BY <1>2, Zenon DEF StartThread
  <2>3. made \in Calls
    BY <2>2 DEF Calls
  <2> HIDE DEF sleep
  <2>4. VTypeOK'
    BY <2>1, <2>2, <2>3, Zenon DEF NoVibration, StrengthNames, EffectNames
  <2>5. NodeInv'
    BY <2>2, Zenon
  <2>6. \A c \in Calls : threads'[c] = IF c = made /\ call.callback THEN sleep ELSE threads[c]
    BY <2>2, Zenon
  <2>7. SleepInv'
    BY <2>1, <2>2, <2>3, <2>6 DEF Calls
  <2> QED  BY <2>4, <2>5, <2>7, Zenon
<1> QED  BY <1>1, <1>2, Zenon

\* A thread ends, or time passes for the motor and every sleeping thread alike.
LEMMA VTimeStep ==
  ASSUME VInv, (\E c \in Calls : Complete(c)) \/ Tick
  PROVE  VInv'
<1> USE DEF VInv, VTypeOK, NodeInv, SleepInv, NoStaleEffect, SleepFits, ghosts, driver,
            Gone
<1>1. ASSUME NEW c \in Calls, Complete(c)
      PROVE  VInv'
  BY <1>1 DEF Complete
<1>2. CASE Tick
  <2>1. \A c \in Calls :
          threads'[c] = IF threads[c] > 0 THEN threads[c] - 1 ELSE threads[c]
    BY <1>2, Zenon DEF Tick
  <2>2. VTypeOK' /\ motor' <= motor
    BY <1>2 DEF Tick
  <2>3. NodeInv'
    BY <1>2 DEF Tick
  <2>4. SleepInv'
    BY <1>2, <2>1, <2>2 DEF Tick, Calls
  <2> QED  BY <2>2, <2>3, <2>4, Zenon
<1> QED  BY <1>1, <1>2, Zenon

\* Every step of the vibrator HAL, the driver and the threads keeps the invariant.
LEMMA VNextInv ==
  ASSUME VInv, [VibratorNext]_vibratorVars
  PROVE  VInv'
BY VIdleStep, VBeginStep, VPerformStep, VStartStep, VTimeStep, Zenon DEF VibratorNext

\* The invariant of the vibrator: what the driver's nodes hold at every place of
\* on() and perform(), and how long the detached threads sleep.
THEOREM VibratorInvariant == VibratorSpec => []VInv
<1>1. VibratorInit => VInv
  BY VInitInv, Zenon
<1>2. VInv /\ [VibratorNext]_vibratorVars => VInv'
  BY VNextInv, Zenon
<1> QED  BY <1>1, <1>2, PTL DEF VibratorSpec

\* A vibration that on() started never plays an effect an earlier perform()
\* left in the trigger node, for any effects, durations and nodes, as long as the
\* last write to the timeout and to the trigger node came through.
THEOREM OnPlaysNoEffect == VibratorSpec => []NoStaleEffect
<1>1. VInv => NoStaleEffect
  BY Zenon DEF VInv, NodeInv
<1> QED  BY <1>1, VibratorInvariant, PTL

\* When the call that started the motor last is reported complete the motor has
\* stopped, unless its sleep was cut by the width of usleep's argument.
THEOREM CompletionFollowsMotor == VibratorSpec => CompleteAfterMotor
<1> DEFINE Step == \A c \in completed' \ completed : latest.call = c /\ SleepFits => motor = 0
<1>1. VInv /\ [VibratorNext]_vibratorVars => [Step]_vibratorVars
  <2> SUFFICES ASSUME VInv, VibratorNext PROVE Step
    BY Zenon
  <2>1. ASSUME NEW c \in Calls, Complete(c) PROVE Step
    BY <2>1 DEF Complete, VInv, VTypeOK, SleepInv, Gone
  <2>2. completed' = completed \/ \E c \in Calls : Complete(c)
    BY Zenon DEF VibratorNext, Off, SetAmplitude, SetExternalControl, On, Perform,
           PerformAmplitude, PerformEffect, ActivateMotor, StartThread, Tick, ghosts
  <2> QED  BY <2>1, <2>2, Zenon
<1> QED  BY <1>1, VibratorInvariant, PTL DEF VibratorSpec, CompleteAfterMotor
=============================================================================
