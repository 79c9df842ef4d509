---------------------- MODULE InteractionHandlerProofs ----------------------
(***************************************************************************)
(* Proofs about the interaction handler for every value of its constants.  *)
(* IInv is inductive; the safety properties and the implementation of      *)
(* BoostPromise follow from it.                                            *)
(***************************************************************************)
EXTENDS InteractionHandler, TLAPS

-----------------------------------------------------------------------------
(* Arithmetic of whole milliseconds.                                       *)

(* Ms is the set of the durations that are whole milliseconds.             *)
Ms == {t \in Int : t % TicksPerMs = 0}

(* A whole number of milliseconds is a multiple of TicksPerMs.             *)
LEMMA MsFactor ==
  ASSUME NEW t \in Ms
  PROVE  \E k \in Int : t = k * TicksPerMs
<1> DEFINE q == t \div TicksPerMs
<1>1. q \in Int /\ t = q * TicksPerMs
  BY ConstantsAssumption DEF Ms
<1> HIDE DEF q
<1> QED
  BY <1>1

(* And every multiple of TicksPerMs is a whole number of milliseconds.     *)
LEMMA MsMultiple ==
  ASSUME NEW k \in Int
  PROVE  k * TicksPerMs \in Ms
BY ConstantsAssumption DEF Ms

(* Whole milliseconds are closed under addition.                           *)
LEMMA MsSum ==
  ASSUME NEW s \in Ms, NEW t \in Ms
  PROVE  s + t \in Ms
<1>1. PICK j \in Int : s = j * TicksPerMs
  BY MsFactor
<1>2. PICK k \in Int : t = k * TicksPerMs
  BY MsFactor
<1>3. s + t = (j + k) * TicksPerMs
  BY <1>1, <1>2, ConstantsAssumption
<1> QED
  BY <1>3, MsMultiple

(* The wrap-around of the int arithmetic keeps whole milliseconds whole.   *)
LEMMA MsWrap ==
  ASSUME NEW t \in Ms
  PROVE  t % Word \in Ms
<1>1. Word \in Ms /\ Word \in Nat \ {0}
  BY ConstantsAssumption DEF Ms
<1>2. PICK j \in Int : t = j * TicksPerMs
  BY MsFactor
<1>3. PICK k \in Int : Word = k * TicksPerMs
  BY <1>1, MsFactor
<1> DEFINE q == t \div Word
<1>4. q \in Int /\ t % Word = t - Word * q
  BY <1>1 DEF Ms
<1> HIDE DEF q
<1>5. t % Word = (j - k * q) * TicksPerMs
  BY <1>2, <1>3, <1>4, ConstantsAssumption
<1>6. j - k * q \in Int
  BY <1>4
<1> QED
  BY <1>5, <1>6, MsMultiple

(* Acquire grants a whole number of milliseconds between the limits,       *)
(* whatever int it is passed.                                              *)
LEMMA FinalDurationRange ==
  ASSUME NEW d \in Durations
  PROVE  /\ FinalDuration(d) \in Ms
         /\ FinalDuration(d) \in kMinDurationMs..kMaxDurationMs
<1> DEFINE u == (d + kDurationOffsetMs) % Word
<1>1. /\ d \in Ms /\ kDurationOffsetMs \in Ms
      /\ kMinDurationMs \in Ms /\ kMaxDurationMs \in Ms
  BY ConstantsAssumption DEF Ms
<1>2. u \in Ms
  BY <1>1, MsSum, MsWrap
<1>3. u \in Int /\ kMinDurationMs \in Nat /\ kMaxDurationMs \in Nat
  BY <1>2, ConstantsAssumption DEF Ms
<1> HIDE DEF u
<1>4. FinalDuration(d) = IF u > kMaxDurationMs THEN kMaxDurationMs
                         ELSE IF u > kMinDurationMs THEN u ELSE kMinDurationMs
  BY DEF FinalDuration, u
<1> QED
  BY <1>1, <1>2, <1>3, <1>4, ConstantsAssumption

(* The measured time is off by less than a millisecond.                    *)
LEMMA TimespecDiffsRange ==
  ASSUME elapsed \in Nat, NEW diff \in TimespecDiffs
  PROVE  /\ diff \in Ms
         /\ elapsed - TicksPerMs < diff
         /\ diff < elapsed + TicksPerMs
<1> DEFINE down == elapsed - (elapsed % TicksPerMs)
<1>1. elapsed % TicksPerMs \in 0..(TicksPerMs - 1)
  BY ConstantsAssumption
<1>2. down = (elapsed \div TicksPerMs) * TicksPerMs /\ elapsed \div TicksPerMs \in Int
  BY ConstantsAssumption
<1>3. down \in Ms
  BY <1>2, MsMultiple
<1>4. TicksPerMs = 1 * TicksPerMs
  BY ConstantsAssumption
<1>5. TicksPerMs \in Ms
  BY <1>4, MsMultiple
<1>6. down + TicksPerMs \in Ms
  BY <1>3, <1>5, MsSum
<1>7. diff = down \/ (diff = down + TicksPerMs /\ elapsed # down)
  BY DEF TimespecDiffs
<1> QED
  BY <1>1, <1>3, <1>6, <1>7, ConstantsAssumption

(* Between whole milliseconds, "more than" is "at least one more".         *)
LEMMA MsGap ==
  ASSUME NEW D \in Ms, NEW F \in Ms, NEW r \in Ms, NEW e \in Nat,
         r > D - F, r < e + TicksPerMs
  PROVE  D - F <= e
<1>1. PICK a \in Int : D = a * TicksPerMs
  BY MsFactor
<1>2. PICK b \in Int : F = b * TicksPerMs
  BY MsFactor
<1>3. PICK c \in Int : r = c * TicksPerMs
  BY MsFactor
<1>4. (c - (a - b)) * TicksPerMs > 0
  BY <1>1, <1>2, <1>3, ConstantsAssumption
<1>5. c - (a - b) >= 1
  BY <1>4, ConstantsAssumption
<1>6. (c - (a - b)) * TicksPerMs >= TicksPerMs
  BY <1>5, ConstantsAssumption
<1>7. r - (D - F) >= TicksPerMs
  BY <1>1, <1>2, <1>3, <1>6, ConstantsAssumption
<1> QED
  BY <1>7, ConstantsAssumption DEF Ms
-----------------------------------------------------------------------------
(* Type correctness.                                                       *)

(* The constructor's state is well typed.                                  *)
LEMMA TypeInit == Init => TypeOK
<1>1. Init => perfLock \in BOOLEAN /\ idle \in BOOLEAN /\ idleEvent \in BOOLEAN
  BY Zenon DEF Init
<1> QED
  BY <1>1, ConstantsAssumption
     DEF Init, TypeOK, States, RoutineSteps, EarlyEnds, WaitEnds, BinderSteps,
         ElapsedCap

(* Every step of either thread keeps the types; the clamp of Acquire keeps *)
(* the durations within the configured maximum.                            *)
LEMMA TypeStep == TypeOK /\ [Next]_vars => TypeOK'
<1> SUFFICES ASSUME TypeOK, [Next]_vars PROVE TypeOK'
  OBVIOUS
<1> USE ConstantsAssumption
        DEF TypeOK, States, RoutineSteps, EarlyEnds, WaitEnds, BinderSteps,
            ElapsedCap, Sup, Inf, Notify, AbortWaitLocked, EndWait,
            handlerVars, routineVars, displayVars
<1>1. CASE Acquire
  <2>1. PICK d \in Durations, diff \in TimespecDiffs :
          AcquireFallback(d) \/ AcquireCovered(d, diff) \/ AcquireArm(d, diff)
    BY <1>1 DEF Acquire
  <2>2. FinalDuration(d) \in 0..kMaxDurationMs
    BY FinalDurationRange
  <2>3. CASE AcquireFallback(d)
    BY <2>2, <2>3 DEF AcquireFallback
  <2>4. CASE AcquireCovered(d, diff)
    BY <2>2, <2>4 DEF AcquireCovered
  <2>5. CASE AcquireArm(d, diff)
    BY <2>2, <2>5 DEF AcquireArm
  <2> QED
    BY <2>1, <2>3, <2>4, <2>5
<1>2. CASE HandlerInit
  BY <1>2 DEF HandlerInit
<1>3. CASE ExitLocked
  BY <1>3 DEF ExitLocked
<1>4. CASE ExitNotify
  BY <1>4 DEF ExitNotify
<1>5. CASE ExitJoined
  BY <1>5 DEF ExitJoined
<1>6. CASE RoutineLock
  BY <1>6 DEF RoutineLock
<1>7. CASE WaitForIdleCall
  BY <1>7 DEF WaitForIdleCall
<1>8. CASE PollEventFd
  BY <1>8 DEF PollEventFd
<1>9. CASE ReadIdleState
  <2>1. idleEvent' \in BOOLEAN
    BY <1>9, Zenon DEF ReadIdleState
  <2> QED
    BY <1>9, <2>1 DEF ReadIdleState
<1>10. CASE PollBothCall
  BY <1>10 DEF PollBothCall
<1>11. CASE PollBoth
  BY <1>11 DEF PollBoth
<1>12. CASE Release
  <2>1. perfLock' \in BOOLEAN
    BY <1>12, Zenon DEF Release
  <2> QED
    BY <1>12, <2>1 DEF Release
<1>13. CASE PollFails
  BY <1>13 DEF PollFails
<1>14. CASE SpuriousWakeup
  BY <1>14 DEF SpuriousWakeup
<1>15. CASE DisplayChanges
  BY <1>15 DEF DisplayChanges
<1>16. CASE Tick
  BY <1>16 DEF Tick
<1>17. CASE UNCHANGED vars
  BY <1>17 DEF vars
<1> QED
  BY <1>1, <1>2, <1>3, <1>4, <1>5, <1>6, <1>7, <1>8, <1>9, <1>10, <1>11, <1>12, <1>13, <1>14, <1>15, <1>16, <1>17 DEF Next, Binder, Routine

(* Every variable keeps its type: in particular no duration, owed time or  *)
(* fallback hint ever exceeds the configured maximum.                      *)
THEOREM TypeCorrect == Spec => []TypeOK
BY TypeInit, TypeStep, PTL DEF Spec

-----------------------------------------------------------------------------
(* The inductive invariant, in two halves: who may be where, and how much  *)
(* time has passed.                                                        *)

ControlInv ==
  HintFollowsState /\ AbortReachesWait /\ NoLostWakeup /\ BinderInv /\ EventFdInv

(* Every step keeps the agreement of mState, the hint, the eventfd and the *)
(* places of the two threads.                                              *)
LEMMA ControlStep == TypeOK /\ ControlInv /\ [Next]_vars => ControlInv'
<1> SUFFICES ASSUME TypeOK, ControlInv, [Next]_vars PROVE ControlInv'
  OBVIOUS
<1> USE DEF TypeOK, ControlInv, HintFollowsState, AbortReachesWait, NoLostWakeup,
            BinderInv, EventFdInv, States, RoutineSteps, BinderSteps, InWait,
            Notify, AbortWaitLocked, EndWait, handlerVars, routineVars, displayVars
<1>1. CASE Acquire
  <2>1. PICK d \in Durations, diff \in TimespecDiffs :
          AcquireFallback(d) \/ AcquireCovered(d, diff) \/ AcquireArm(d, diff)
    BY <1>1 DEF Acquire
  <2>2. CASE AcquireFallback(d)
    BY <2>2 DEF AcquireFallback
  <2>3. CASE AcquireCovered(d, diff)
    BY <2>3 DEF AcquireCovered
  <2>4. CASE AcquireArm(d, diff)
    <3>1. mState \in {"IDLE", "INTERACTION", "WAITING"} /\ binder = "serving"
      BY <2>4 DEF AcquireArm
    <3>2. perfLock \/ mState = "IDLE"
      BY <3>1
    <3>3. perfLock'
      BY <2>4, <3>2, Zenon DEF AcquireArm
    <3>4. HintFollowsState'
      BY <2>4, <3>3 DEF AcquireArm
    <3>5. AbortReachesWait' /\ NoLostWakeup' /\ BinderInv' /\ EventFdInv'
      BY <2>4, <3>1 DEF AcquireArm
    <3> QED
      BY <3>4, <3>5
  <2> QED
    BY <2>1, <2>2, <2>3, <2>4
<1>2. CASE HandlerInit
  BY <1>2 DEF HandlerInit
<1>3. CASE ExitLocked
  BY <1>3 DEF ExitLocked
<1>4. CASE ExitNotify
  BY <1>4 DEF ExitNotify
<1>5. CASE ExitJoined
  BY <1>5 DEF ExitJoined
<1>6. CASE RoutineLock
  BY <1>6 DEF RoutineLock
<1>7. CASE WaitForIdleCall
  BY <1>7 DEF WaitForIdleCall
<1>8. CASE PollEventFd
  BY <1>8 DEF PollEventFd
<1>9. CASE ReadIdleState
  BY <1>9 DEF ReadIdleState
<1>10. CASE PollBothCall
  BY <1>10 DEF PollBothCall
<1>11. CASE PollBoth
  BY <1>11 DEF PollBoth
<1>12. CASE Release
  BY <1>12 DEF Release
<1>13. CASE PollFails
  BY <1>13 DEF PollFails
<1>14. CASE SpuriousWakeup
  BY <1>14 DEF SpuriousWakeup
<1>15. CASE DisplayChanges
  BY <1>15 DEF DisplayChanges
<1>16. CASE Tick
  BY <1>16 DEF Tick
<1>17. CASE UNCHANGED vars
  BY <1>17 DEF vars
<1> QED
  BY <1>1, <1>2, <1>3, <1>4, <1>5, <1>6, <1>7, <1>8, <1>9, <1>10, <1>11, <1>12, <1>13, <1>14, <1>15, <1>16, <1>17 DEF Next, Binder, Routine

(* Every step keeps the relation between the time a wait has lasted and    *)
(* the time callers were promised.                                         *)
LEMMA TimingStep ==
  TypeOK /\ ControlInv /\ WaitInv /\ OwedInv /\ [Next]_vars => WaitInv' /\ OwedInv'
<1> SUFFICES ASSUME TypeOK, ControlInv, WaitInv, OwedInv, [Next]_vars
             PROVE  WaitInv' /\ OwedInv'
  OBVIOUS
<1> USE ConstantsAssumption
        DEF TypeOK, WaitInv, OwedInv, EarlyEnds, ElapsedCap, Sup, Inf,
            Notify, AbortWaitLocked, EndWait, handlerVars, routineVars, displayVars
<1>1. CASE Acquire
  <2>1. PICK d \in Durations, diff \in TimespecDiffs :
          AcquireFallback(d) \/ AcquireCovered(d, diff) \/ AcquireArm(d, diff)
    BY <1>1 DEF Acquire
  <2>2. FinalDuration(d) \in Ms /\ FinalDuration(d) \in 0..kMaxDurationMs
    BY FinalDurationRange
  <2>3. /\ diff \in Ms /\ diff \in Int
        /\ elapsed - TicksPerMs < diff /\ diff < elapsed + TicksPerMs
    BY TimespecDiffsRange DEF Ms
  <2>4. CASE AcquireFallback(d)
    BY <2>4 DEF AcquireFallback
  <2>5. CASE AcquireCovered(d, diff)
    <3>1. routine # "none"
      BY <2>5 DEF AcquireCovered, ControlInv, BinderInv
    <3>2. FinalDuration(d) <= mDurationMs - elapsed + TicksPerMs - 1
      BY <2>2, <2>3, <2>5 DEF AcquireCovered, Covered
    <3>3. mState # "IDLE"
      BY <2>5 DEF AcquireCovered, Covered
    <3> QED
      BY <2>2, <2>5, <3>1, <3>2, <3>3 DEF AcquireCovered
  <2>6. CASE AcquireArm(d, diff)
    <3>1. routine # "none" /\ routine' # "none"
      BY <2>6 DEF AcquireArm, ControlInv, BinderInv
    <3>2. owed <= FinalDuration(d) + TicksPerMs - 1
      <4>1. CASE owed = 0
        BY <2>2, <4>1
      <4>2. CASE owed # 0
        <5>1. mState # "IDLE" /\ owed <= mDurationMs - elapsed + TicksPerMs - 1
          BY <4>2
        <5>2. CASE mDurationMs < FinalDuration(d)
          BY <2>2, <5>1, <5>2
        <5>3. CASE FinalDuration(d) <= mDurationMs
          <6>1. diff > mDurationMs - FinalDuration(d)
            BY <2>2, <2>3, <2>6, <5>1, <5>3 DEF AcquireArm, Covered
          <6>2. mDurationMs \in Ms
            BY DEF Ms
          <6>3. mDurationMs - FinalDuration(d) <= elapsed
            <7>1. elapsed \in Nat
              OBVIOUS
            <7> QED
              BY <2>2, <2>3, <6>1, <6>2, <7>1, MsGap, Zenon
          <6> QED
            BY <2>2, <5>1, <6>3
        <5> QED
          BY <2>2, <5>2, <5>3
      <4> QED
        BY <4>1, <4>2
    <3>3. FinalDuration(d) % TicksPerMs = 0
      BY <2>2 DEF Ms
    <3>4. WaitInv'
      BY <2>6 DEF AcquireArm
    <3>5. /\ mDurationMs' = FinalDuration(d) /\ elapsed' = 0
          /\ mState' = "INTERACTION" /\ owed' = Sup(owed, FinalDuration(d))
      BY <2>6 DEF AcquireArm
    <3>6. mDurationMs' % TicksPerMs = 0
      BY <3>3, <3>5
    <3>7. owed' <= mDurationMs' - elapsed' + TicksPerMs - 1
      BY <2>2, <3>2, <3>5
    <3>8. OwedInv'
      BY <3>1, <3>5, <3>6, <3>7
    <3> QED
      BY <3>4, <3>8
  <2> QED
    BY <2>1, <2>4, <2>5, <2>6
<1>2. CASE HandlerInit
  BY <1>2 DEF HandlerInit, ControlInv, BinderInv
<1>3. CASE ExitLocked
  BY <1>3 DEF ExitLocked
<1>4. CASE ExitNotify
  BY <1>4 DEF ExitNotify
<1>5. CASE ExitJoined
  BY <1>5 DEF ExitJoined
<1>6. CASE RoutineLock
  BY <1>6 DEF RoutineLock
<1>7. CASE WaitForIdleCall
  BY <1>7 DEF WaitForIdleCall
<1>8. CASE PollEventFd
  BY <1>8 DEF PollEventFd, ControlInv, AbortReachesWait, InWait
<1>9. CASE ReadIdleState
  BY <1>9 DEF ReadIdleState
<1>10. CASE PollBothCall
  BY <1>10 DEF PollBothCall
<1>11. CASE PollBoth
  BY <1>11 DEF PollBoth, ControlInv, AbortReachesWait, InWait
<1>12. CASE Release
  BY <1>12 DEF Release
<1>13. CASE PollFails
  BY <1>13 DEF PollFails
<1>14. CASE SpuriousWakeup
  BY <1>14 DEF SpuriousWakeup
<1>15. CASE DisplayChanges
  BY <1>15 DEF DisplayChanges
<1>16. CASE Tick
  BY <1>16 DEF Tick
<1>17. CASE UNCHANGED vars
  BY <1>17 DEF vars
<1> QED
  BY <1>1, <1>2, <1>3, <1>4, <1>5, <1>6, <1>7, <1>8, <1>9, <1>10, <1>11, <1>12, <1>13, <1>14, <1>15, <1>16, <1>17 DEF Next, Binder, Routine

(* IInv holds in every reachable state: the locking discipline of the two  *)
(* threads and the bound on what is owed, together.                        *)
THEOREM IInvCorrect == Spec => []IInv
<1>1. Init => IInv
  <2>1. Init => TypeOK /\ perfLock = FALSE
    BY ConstantsAssumption, TypeInit DEF Init
  <2>2. Init => ControlInv /\ WaitInv /\ OwedInv
    BY ConstantsAssumption
       DEF Init, ControlInv, HintFollowsState, AbortReachesWait, NoLostWakeup,
           BinderInv, EventFdInv, WaitInv, OwedInv, InWait
  <2> QED
    BY <2>1, <2>2 DEF IInv, ControlInv
<1>2. IInv /\ [Next]_vars => IInv'
  BY TypeStep, ControlStep, TimingStep DEF IInv, ControlInv
<1> QED
  BY <1>1, <1>2, PTL DEF Spec

(* PerfLock and PerfRel alternate and follow mState.                       *)
THEOREM HintFollowsStateCorrect == Spec => []HintFollowsState
BY IInvCorrect, PTL DEF IInv

(* No abort is lost and none is left over for a later wait.                *)
THEOREM AbortReachesWaitCorrect == Spec => []AbortReachesWait
BY IInvCorrect, PTL DEF IInv

(* The DispIdle thread does not sleep through a state change.              *)
THEOREM NoLostWakeupCorrect == Spec => []NoLostWakeup
BY IInvCorrect, PTL DEF IInv

-----------------------------------------------------------------------------
(* The promise.                                                            *)

(* A wait that expired has outlasted everything that was promised.         *)
LEMMA ExpiredMeansPaid ==
  ASSUME IInv, mState = "WAITING", routine = "release", why \notin EarlyEnds
  PROVE  owed = 0
<1>1. elapsed >= kWaitMs + mDurationMs
  BY DEF IInv, WaitInv
<1>2. owed = 0 \/ owed <= mDurationMs - elapsed + TicksPerMs - 1
  BY DEF IInv, OwedInv
<1>3. mDurationMs \in Nat /\ elapsed \in Nat /\ owed \in Nat
  BY DEF IInv, TypeOK
<1> QED
  BY <1>1, <1>2, <1>3, ConstantsAssumption

(* The hint is given back only when nothing is owed, or when the wait was  *)
(* ended early by the display or by an error.                              *)
THEOREM BoostKeptCorrect == Spec => BoostKeptAsPromised
<1>1. IInv /\ [Next]_vars =>
        [perfLock /\ ~perfLock' => owed = 0 \/ why \in EarlyEnds]_vars
  <2> SUFFICES ASSUME IInv, Next, perfLock, ~perfLock'
               PROVE  owed = 0 \/ why \in EarlyEnds
    OBVIOUS
  <2>1. Release
    BY Zenon DEF Next, Binder, Routine, Acquire, AcquireFallback, AcquireCovered,
       AcquireArm, HandlerInit, ExitLocked, ExitNotify, ExitJoined, RoutineLock,
       WaitForIdleCall, PollEventFd, ReadIdleState, PollBothCall, PollBoth,
       PollFails, SpuriousWakeup, DisplayChanges, Tick, handlerVars
  <2>2. mState = "WAITING" /\ routine = "release"
    BY <2>1 DEF Release
  <2> QED
    BY <2>2, ExpiredMeansPaid
<1> QED
  BY <1>1, IInvCorrect, PTL DEF Spec, BoostKeptAsPromised

(* What the handler maps the abstract variable cut to.                     *)
Cut == mState = "WAITING" /\ routine = "release" /\ why \in EarlyEnds

(* A boost that is being waited for is on.                                 *)
LEMMA BoostingHoldsHint ==
  ASSUME IInv, mState \in {"INTERACTION", "WAITING"}
  PROVE  perfLock = TRUE
<1>1. binder \in {"unborn", "serving"}
  BY DEF IInv, TypeOK, BinderInv, BinderSteps
<1>2. perfLock /\ perfLock \in BOOLEAN
  BY <1>1 DEF IInv, HintFollowsState, TypeOK
<1> QED
  BY <1>2, Zenon

(* Every step of the handler is a step of the promise or changes nothing   *)
(* the promise talks about.                                                *)
LEMMA PromiseStep ==
  ASSUME IInv, [Next]_vars
  PROVE  [Promise!Next]_(Promise!vars)
<1> DEFINE Stutter == perfLock' = perfLock /\ owed' = owed /\ Cut' = Cut
<1>a. Stutter => [Promise!Next]_(Promise!vars)
  BY Zenon DEF Promise!vars, Cut
<1> USE DEF handlerVars, routineVars, displayVars
<1>1. CASE Acquire
  <2>1. PICK d \in Durations, diff \in TimespecDiffs :
          AcquireFallback(d) \/ AcquireCovered(d, diff) \/ AcquireArm(d, diff)
    BY <1>1 DEF Acquire
  <2>2. FinalDuration(d) \in 0..kMaxDurationMs
    BY FinalDurationRange, ConstantsAssumption
  <2>3. CASE AcquireFallback(d)
    BY <2>3, <1>a, Zenon DEF AcquireFallback, Cut
  <2>4. owed' = Sup(owed, FinalDuration(d)) =>
          \E t \in 0..kMaxDurationMs : owed' = Promise!AtLeast(t)
    BY <2>2, Zenon DEF Promise!AtLeast, Sup
  <2>5. CASE AcquireCovered(d, diff)
    <3>1. mState \in {"INTERACTION", "WAITING"}
      BY <2>5 DEF AcquireCovered, Covered, IInv, TypeOK, States
    <3>2. perfLock /\ perfLock' = perfLock /\ Cut' = Cut /\
          owed' = Sup(owed, FinalDuration(d))
      BY <2>5, <3>1, BoostingHoldsHint, Zenon DEF AcquireCovered, Cut
    <3>3. Promise!Cover
      BY <2>4, <3>2, Zenon DEF Promise!Cover, Cut
    <3> QED
      BY <3>3, Zenon DEF Promise!Next
  <2>6. CASE AcquireArm(d, diff)
    <3>1. perfLock' = TRUE
      <4>1. mState \in {"IDLE", "INTERACTION", "WAITING"}
        BY <2>6 DEF AcquireArm, IInv, TypeOK, States
      <4>2. perfLock = TRUE \/ mState = "IDLE"
        BY <4>1, BoostingHoldsHint
      <4> QED
        BY <2>6, <4>2, Zenon DEF AcquireArm
    <3>2. mState' = "INTERACTION" /\ owed' = Sup(owed, FinalDuration(d))
      BY <2>6 DEF AcquireArm
    <3>3. Cut' = FALSE
      BY <3>2 DEF Cut
    <3>4. Promise!Grant
      BY <2>4, <3>1, <3>2, <3>3, Zenon DEF Promise!Grant, Cut
    <3> QED
      BY <3>4, Zenon DEF Promise!Next
  <2> QED
    BY <2>1, <2>3, <2>5, <2>6
<1>2. CASE ExitLocked
  <2>1. perfLock' = perfLock /\ owed' = owed /\ Cut' = FALSE
    <3>1. mState' = "UNINITIALIZED"
      BY <1>2, Zenon DEF ExitLocked
    <3> QED
      BY <1>2, <3>1 DEF ExitLocked, Cut
  <2>2. CASE Cut
    <3>1. perfLock
      BY <2>2, BoostingHoldsHint DEF Cut
    <3>2. Promise!Abandon
      BY <2>1, <3>1, Zenon DEF Promise!Abandon, Cut
    <3> QED
      BY <3>2, Zenon DEF Promise!Next
  <2>3. CASE ~Cut
    <3>1. Cut = FALSE
      BY <2>3 DEF Cut
    <3> QED
      BY <2>1, <3>1, <1>a
  <2> QED
    BY <2>2, <2>3
<1>3. CASE PollEventFd \/ ReadIdleState \/ PollBoth \/ PollFails
  <2>1. perfLock' = perfLock /\ owed' = owed /\ mState' = mState /\ routine # "release"
    BY <1>3, Zenon DEF PollEventFd, ReadIdleState, PollBoth, PollFails
  <2>2. Cut = FALSE
    BY <2>1 DEF Cut
  <2>3. CASE Cut'
    <3>1. Cut' = TRUE /\ mState = "WAITING"
      BY <2>1, <2>3 DEF Cut
    <3>2. perfLock
      BY <3>1, BoostingHoldsHint
    <3>3. Promise!CutShort
      BY <2>1, <3>1, <3>2, Zenon DEF Promise!CutShort, Cut
    <3> QED
      BY <3>3, Zenon DEF Promise!Next
  <2>4. CASE ~Cut'
    <3>1. Cut' = FALSE
      BY <2>4 DEF Cut
    <3> QED
      BY <2>1, <2>2, <3>1, <1>a
  <2> QED
    BY <2>3, <2>4
<1>4. CASE Release
  <2>1. CASE mState = "WAITING"
    <3>1. /\ perfLock' = FALSE /\ owed' = 0 /\ mState' = "IDLE"
          /\ routine = "release"
      BY <1>4, <2>1, Zenon DEF Release
    <3>2. Cut' = FALSE
      BY <3>1 DEF Cut
    <3>3. perfLock
      BY <2>1, BoostingHoldsHint
    <3>4. owed = 0 \/ Cut
      BY <2>1, <3>1, ExpiredMeansPaid DEF Cut
    <3>5. Promise!End
      BY <3>1, <3>2, <3>3, <3>4, Zenon DEF Promise!End, Cut
    <3> QED
      BY <3>5, Zenon DEF Promise!Next
  <2>2. CASE mState # "WAITING"
    <3>1. perfLock' = perfLock /\ owed' = owed /\ mState' = mState
      BY <1>4, <2>2, Zenon DEF Release
    <3>2. Cut = FALSE /\ Cut' = FALSE
      BY <2>2, <3>1 DEF Cut
    <3> QED
      BY <3>1, <3>2, <1>a
  <2> QED
    BY <2>1, <2>2
<1>5. CASE Tick
  <2>1. owed \in Nat
    BY DEF IInv, TypeOK
  <2>2. owed' = IF owed = 0 THEN 0 ELSE owed - 1
    BY <1>5, <2>1 DEF Tick, Sup
  <2>3. perfLock' = perfLock /\ Cut' = Cut
    BY <1>5, Zenon DEF Tick, Cut
  <2>4. Promise!TimePasses
    BY <2>2, <2>3, Zenon DEF Promise!TimePasses, Cut
  <2> QED
    BY <2>4, Zenon DEF Promise!Next
<1>6. CASE HandlerInit \/ ExitNotify \/ ExitJoined \/ RoutineLock \/ WaitForIdleCall
           \/ PollBothCall \/ SpuriousWakeup
  <2>1. perfLock' = perfLock /\ owed' = owed
    BY <1>6, Zenon DEF HandlerInit, ExitNotify, ExitJoined, RoutineLock,
       WaitForIdleCall, PollBothCall, SpuriousWakeup
  <2>2. Cut' = Cut
    <3>1. CASE HandlerInit
      BY <3>1 DEF HandlerInit, Cut, IInv, BinderInv
    <3>2. CASE ExitNotify \/ ExitJoined
      BY <3>2 DEF ExitNotify, ExitJoined, Cut, Notify, IInv, BinderInv
    <3>3. CASE RoutineLock \/ WaitForIdleCall \/ PollBothCall \/ SpuriousWakeup
      BY <3>3 DEF RoutineLock, WaitForIdleCall, PollBothCall, SpuriousWakeup, Cut
    <3> QED
      BY <1>6, <3>1, <3>2, <3>3
  <2> QED
    BY <2>1, <2>2, <1>a
<1>7. CASE DisplayChanges \/ UNCHANGED vars
  BY <1>7, <1>a, Zenon DEF DisplayChanges, vars, Cut
<1> QED
  BY <1>1, <1>2, <1>3, <1>4, <1>5, <1>6, <1>7 DEF Next, Binder, Routine

(* The handler implements BoostPromise.                                    *)
THEOREM PromiseCorrect == Spec => ImplementsPromise
<1>1. Init => Promise!Init
  <2>1. Init => Cut = FALSE
    BY DEF Init, Cut
  <2> QED
    BY <2>1, Zenon DEF Init, Promise!Init, Cut
<1>2. IInv /\ [Next]_vars => [Promise!Next]_(Promise!vars)
  BY PromiseStep
<1> QED
  BY <1>1, <1>2, IInvCorrect, PTL DEF Spec, ImplementsPromise, Promise!Spec

=============================================================================
