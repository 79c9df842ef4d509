------------------------- MODULE InteractionHandler -------------------------
(***************************************************************************)
(* The interaction boost of the power HAL                                  *)
(* (aidl/power-libperfmgr/InteractionHandler.cpp).                         *)
(*                                                                         *)
(* Two threads share the handler: the service's only binder thread, which  *)
(* runs Init, every Acquire and Exit, and the "DispIdle" thread, which     *)
(* runs Routine and ends the boost when the display goes idle or the       *)
(* requested time is over.  They meet in mLock, in the condition variable  *)
(* mCond and in an eventfd that aborts the wait of Routine.  A block that  *)
(* holds mLock from its first to its last shared access is one action;     *)
(* WaitForIdle runs without the lock and is one action per system call.    *)
(*                                                                         *)
(* Durations and times are in ticks, TicksPerMs of them to a millisecond,  *)
(* because CalcTimespecDiffMs drops fractions of a millisecond.            *)
(***************************************************************************)
EXTENDS Integers

CONSTANTS
  TicksPerMs,           \* ticks in one millisecond
  Word,                 \* 2^32 milliseconds, the width of the int arithmetic
  kWaitMs,              \* vendor.powerhal.disp.idle_wait
  kMinDurationMs,       \* vendor.powerhal.interaction.min
  kMaxDurationMs,       \* vendor.powerhal.interaction.max
  kDurationOffsetMs,    \* vendor.powerhal.interaction.offset
  kDisplayIdleSupport,  \* vendor.powerhal.disp.idle_support
  Durations             \* the int32 arguments callers pass to Acquire

(* The properties' defaults are 100, 1400, 5650 and 650 ms.                *)
ASSUME ConstantsAssumption ==
  /\ TicksPerMs \in Nat \ {0}
  /\ kWaitMs \in Nat /\ kWaitMs >= TicksPerMs
  /\ kMinDurationMs \in Nat /\ kMaxDurationMs \in Nat
  /\ kMinDurationMs <= kMaxDurationMs
  /\ Word \in Nat /\ kMaxDurationMs < Word
  /\ kDurationOffsetMs \in Nat
  /\ kDisplayIdleSupport \in BOOLEAN
  /\ Durations \subseteq Int
  /\ \A t \in Durations \cup {kWaitMs, kMinDurationMs, kMaxDurationMs,
                              kDurationOffsetMs, Word} : t % TicksPerMs = 0

VARIABLES
  mState,       \* InteractionState
  mDurationMs,  \* length of the request that armed the boost last
  elapsed,      \* time since mLastTimespec, saturating at ElapsedCap
  eventfd,      \* counter of mEventFd
  perfLock,     \* the last INTERACTION request made was DoHint, not EndHint
  timedHint,    \* length of the last DoHint made by the fallback (0: none)
  routine,      \* where the DispIdle thread is
  timeout_ms,   \* argument of the running WaitForIdle
  pollLeft,     \* time until the running poll expires
  why,          \* what ended the last WaitForIdle
  idle,         \* what the display's idle_state file says
  idleEvent,    \* the file was notified since it was last read
  binder,       \* where the binder thread is
  owed          \* history: time for which callers were still promised a boost

handlerVars == <<mState, mDurationMs, elapsed, eventfd, perfLock, timedHint>>
routineVars == <<routine, timeout_ms, pollLeft, why>>
displayVars == <<idle, idleEvent>>
vars == <<handlerVars, routineVars, displayVars, binder, owed>>

States == {"UNINITIALIZED", "IDLE", "INTERACTION", "WAITING"}
RoutineSteps == {"none", "lock", "sleep", "call", "poll1", "pread", "pollCall",
                 "poll2", "release", "done"}
InWait == {"call", "poll1", "pread", "pollCall", "poll2", "release"}
EarlyEnds == {"idle", "eof", "error"}
WaitEnds == EarlyEnds \cup {"none", "abort", "timeout"}
BinderSteps == {"unborn", "serving", "notify", "join", "dead"}

(* elapsed is only compared with durations, so it stops counting here.     *)
ElapsedCap == kWaitMs + kMaxDurationMs

Sup(a, b) == IF a >= b THEN a ELSE b
Inf(a, b) == IF a <= b THEN a ELSE b

-----------------------------------------------------------------------------
Init ==
  /\ mState = "UNINITIALIZED"
  /\ mDurationMs = 0
  /\ elapsed = 0
  /\ eventfd = 0
  /\ perfLock = FALSE
  /\ timedHint = 0
  /\ routine = "none"
  /\ timeout_ms = 0
  /\ pollLeft = 0
  /\ why = "none"
  /\ idle \in BOOLEAN
  /\ idleEvent = TRUE
  /\ binder = "unborn"
  /\ owed = 0

(* InteractionHandler::Init, which the constructor of Power calls once.    *)
(* Either file may fail to open, and then no thread is started.            *)
HandlerInit ==
  /\ binder = "unborn"
  /\ binder' = "serving"
  /\ \/ UNCHANGED <<mState, routine>>
     \/ mState' = "IDLE" /\ routine' = "lock"
  /\ UNCHANGED <<mDurationMs, elapsed, eventfd, perfLock, timedHint, timeout_ms,
                 pollLeft, why, displayVars, owed>>

(* Mutant: the upper limit is forgotten.                                   *)
FinalDurationUnbounded(d) ==
  LET inputDuration == (d + kDurationOffsetMs) % Word
  IN IF inputDuration > kMinDurationMs THEN inputDuration ELSE kMinDurationMs

(* The clamp of Acquire.  The sum is an int but both comparisons convert   *)
(* it to uint32_t, so that a negative sum counts as a very long one.       *)
FinalDuration(d) ==
  LET inputDuration == (d + kDurationOffsetMs) % Word
  IN IF inputDuration > kMaxDurationMs THEN kMaxDurationMs
     ELSE IF inputDuration > kMinDurationMs THEN inputDuration
     ELSE kMinDurationMs

(* CalcTimespecDiffMs truncates the nanosecond part towards zero, and that *)
(* part may be negative: the result is the elapsed time rounded down or up *)
(* to a millisecond, depending on where in a second the two times lie.     *)
TimespecDiffs ==
  LET down == elapsed - (elapsed % TicksPerMs)
  IN {down, IF elapsed = down THEN down ELSE down + TicksPerMs}

(* Mutant: the state changes and nobody is notified.                       *)
NotifyNobody == routine

(* notify_one and notify_all: the DispIdle thread is the only waiter.      *)
Notify == IF routine = "sleep" THEN "lock" ELSE routine

AbortWaitLocked == eventfd' = eventfd + 1

(* Acquire when the display cannot be watched: a hint with a timeout.      *)
AcquireFallback(d) ==
  /\ binder = "serving"
  /\ ~kDisplayIdleSupport \/ mState = "UNINITIALIZED"
  /\ timedHint' = FinalDuration(d)
  /\ UNCHANGED <<mState, mDurationMs, elapsed, eventfd, perfLock, routineVars,
                 displayVars, binder, owed>>

(* Mutant: the time that has passed since the previous hint is ignored.    *)
CoveredIgnoringElapsed(d, diff) ==
  /\ mState # "IDLE"
  /\ FinalDuration(d) <= mDurationMs

(* The early return of Acquire: "don't hint if previous hint's duration    *)
(* covers this hint's duration".  diff is the measured elapsed time.       *)
Covered(d, diff) ==
  /\ mState # "IDLE"
  /\ FinalDuration(d) <= mDurationMs
  /\ diff <= mDurationMs - FinalDuration(d)

AcquireCovered(d, diff) ==
  /\ binder = "serving"
  /\ kDisplayIdleSupport /\ mState # "UNINITIALIZED"
  /\ Covered(d, diff)
  /\ owed' = Sup(owed, FinalDuration(d))
  /\ UNCHANGED <<handlerVars, routineVars, displayVars, binder>>

(* The rest of Acquire: a running wait is aborted, an idle handler takes   *)
(* the hint (PerfLock).                                                    *)
AcquireArm(d, diff) ==
  /\ binder = "serving"
  /\ kDisplayIdleSupport /\ mState # "UNINITIALIZED"
  /\ ~Covered(d, diff)
  /\ mDurationMs' = FinalDuration(d)
  /\ elapsed' = 0
  /\ IF mState = "WAITING" THEN AbortWaitLocked ELSE UNCHANGED eventfd
  /\ perfLock' = (perfLock \/ mState = "IDLE")
  /\ mState' = "INTERACTION"
  /\ routine' = Notify
  /\ owed' = Sup(owed, FinalDuration(d))
  /\ UNCHANGED <<timedHint, timeout_ms, pollLeft, why, displayVars, binder>>

Acquire ==
  \E d \in Durations, diff \in TimespecDiffs :
    AcquireFallback(d) \/ AcquireCovered(d, diff) \/ AcquireArm(d, diff)

(* Exit, from the destructor: the locked part, notify_all after the unlock,*)
(* and the join.  The hint is not given back.                              *)
ExitLocked ==
  /\ binder = "serving"
  /\ IF mState = "UNINITIALIZED"
       THEN binder' = "dead" /\ UNCHANGED <<mState, eventfd>>
       ELSE binder' = "notify" /\ mState' = "UNINITIALIZED" /\ AbortWaitLocked
  /\ UNCHANGED <<mDurationMs, elapsed, perfLock, timedHint, routineVars,
                 displayVars, owed>>

(* Mutant: Exit joins without notifying.                                   *)
ExitNotifyNobody ==
  /\ binder = "notify"
  /\ binder' = "join"
  /\ UNCHANGED <<handlerVars, routineVars, displayVars, owed>>

ExitNotify ==
  /\ binder = "notify"
  /\ binder' = "join"
  /\ routine' = Notify
  /\ UNCHANGED <<handlerVars, timeout_ms, pollLeft, why, displayVars, owed>>

ExitJoined ==
  /\ binder = "join"
  /\ routine = "done"
  /\ binder' = "dead"
  /\ UNCHANGED <<handlerVars, routineVars, displayVars, owed>>

-----------------------------------------------------------------------------
(* The locked head of Routine's loop: evaluate the predicate of mCond.wait *)
(* and sleep, leave or start a wait.                                       *)
RoutineLock ==
  /\ routine = "lock"
  /\ \/ mState = "IDLE" /\ routine' = "sleep" /\ UNCHANGED mState
     \/ mState = "UNINITIALIZED" /\ routine' = "done" /\ UNCHANGED mState
     \/ /\ mState \in {"INTERACTION", "WAITING"}
        /\ mState' = "WAITING"
        /\ routine' = "call"
  /\ UNCHANGED <<mDurationMs, elapsed, eventfd, perfLock, timedHint, timeout_ms,
                 pollLeft, why, displayVars, binder, owed>>

SpuriousWakeup ==
  /\ routine = "sleep"
  /\ routine' = "lock"
  /\ UNCHANGED <<handlerVars, timeout_ms, pollLeft, why, displayVars, binder, owed>>

(* WaitForIdle(kWaitMs, mDurationMs): mDurationMs is read without mLock.   *)
WaitForIdleCall ==
  /\ routine = "call"
  /\ routine' = "poll1"
  /\ timeout_ms' = mDurationMs
  /\ pollLeft' = kWaitMs
  /\ UNCHANGED <<handlerVars, why, displayVars, binder, owed>>

EndWait(reason) == routine' = "release" /\ why' = reason

(* poll of the eventfd alone: readable or expired.                         *)
PollEventFd ==
  /\ routine = "poll1"
  /\ \/ eventfd > 0 /\ EndWait("abort")
     \/ eventfd = 0 /\ pollLeft = 0 /\ routine' = "pread" /\ UNCHANGED why
  /\ UNCHANGED <<handlerVars, timeout_ms, pollLeft, displayVars, binder, owed>>

(* pread of idle_state.  A failed read is not told from a good one: the    *)
(* comparison then reads an uninitialised buffer and may go either way.    *)
ReadIdleState ==
  /\ routine = "pread"
  /\ \/ EndWait("eof") /\ UNCHANGED idleEvent
     \/ idle /\ EndWait("idle") /\ idleEvent' = FALSE
     \/ ~idle /\ routine' = "pollCall" /\ idleEvent' = FALSE /\ UNCHANGED why
     \/ /\ EndWait("error") \/ (routine' = "pollCall" /\ UNCHANGED why)
        /\ UNCHANGED idleEvent
  /\ UNCHANGED <<handlerVars, timeout_ms, pollLeft, idle, binder, owed>>

PollBothCall ==
  /\ routine = "pollCall"
  /\ routine' = "poll2"
  /\ pollLeft' = timeout_ms
  /\ UNCHANGED <<handlerVars, timeout_ms, why, displayVars, binder, owed>>

(* poll of the eventfd and of idle_state.                                  *)
PollBoth ==
  /\ routine = "poll2"
  /\ \/ eventfd > 0 /\ EndWait("abort")
     \/ eventfd = 0 /\ idleEvent /\ EndWait("idle")
     \/ eventfd = 0 /\ ~idleEvent /\ pollLeft = 0 /\ EndWait("timeout")
  /\ UNCHANGED <<handlerVars, timeout_ms, pollLeft, displayVars, binder, owed>>

(* Either poll may return an error (EINTR, ENOMEM).                        *)
PollFails ==
  /\ routine \in {"poll1", "poll2"}
  /\ EndWait("error")
  /\ UNCHANGED <<handlerVars, timeout_ms, pollLeft, displayVars, binder, owed>>

(* Mutant: the hint is given back before mState is looked at.              *)
ReleaseUnconditionally ==
  /\ routine = "release"
  /\ routine' = "lock"
  /\ perfLock' = FALSE
  /\ IF mState = "WAITING"
       THEN mState' = "IDLE" /\ owed' = 0 /\ UNCHANGED eventfd
       ELSE eventfd' = 0 /\ UNCHANGED <<mState, owed>>
  /\ UNCHANGED <<mDurationMs, elapsed, timedHint, timeout_ms, pollLeft, why,
                 displayVars, binder>>

(* Mutant: the abort that ended the wait is left in the eventfd.           *)
ReleaseKeepingAbort ==
  /\ routine = "release"
  /\ routine' = "lock"
  /\ IF mState = "WAITING"
       THEN perfLock' = FALSE /\ mState' = "IDLE" /\ owed' = 0
       ELSE UNCHANGED <<perfLock, mState, owed>>
  /\ UNCHANGED <<mDurationMs, elapsed, eventfd, timedHint, timeout_ms, pollLeft,
                 why, displayVars, binder>>

(* Release: give the hint back, or clear the abort that ended the wait.    *)
Release ==
  /\ routine = "release"
  /\ routine' = "lock"
  /\ IF mState = "WAITING"
       THEN perfLock' = FALSE /\ mState' = "IDLE" /\ owed' = 0 /\ UNCHANGED eventfd
       ELSE eventfd' = 0 /\ UNCHANGED <<perfLock, mState, owed>>
  /\ UNCHANGED <<mDurationMs, elapsed, timedHint, timeout_ms, pollLeft, why,
                 displayVars, binder>>

-----------------------------------------------------------------------------
(* The kernel changes the idle state and notifies the file.                *)
DisplayChanges ==
  /\ idle' = ~idle
  /\ idleEvent' = TRUE
  /\ UNCHANGED <<handlerVars, routineVars, binder, owed>>

Tick ==
  /\ elapsed' = Inf(elapsed + 1, ElapsedCap)
  /\ pollLeft' = Sup(pollLeft - 1, 0)
  /\ owed' = Sup(owed - 1, 0)
  /\ UNCHANGED <<mState, mDurationMs, eventfd, perfLock, timedHint, routine,
                 timeout_ms, why, displayVars, binder>>

Routine ==
  \/ RoutineLock \/ WaitForIdleCall \/ PollEventFd \/ ReadIdleState
  \/ PollBothCall \/ PollBoth \/ Release

Binder == HandlerInit \/ Acquire \/ ExitLocked \/ ExitNotify \/ ExitJoined

Next == Binder \/ Routine \/ PollFails \/ SpuriousWakeup \/ DisplayChanges \/ Tick

(* The scheduler runs the DispIdle thread, time passes, and a thread that  *)
(* has entered Exit runs on; nothing obliges a client to call, the display *)
(* to go idle, a poll to fail or a sleeping thread to wake up by itself.   *)
Fairness ==
  /\ WF_vars(Routine)
  /\ WF_vars(Tick)
  /\ WF_vars(ExitNotify \/ ExitJoined)

Spec == Init /\ [][Next]_vars /\ Fairness

-----------------------------------------------------------------------------
\* Type correctness; the duration given to poll stays between its two bounds.
TypeOK ==
  /\ mState \in States
  /\ mDurationMs \in 0..kMaxDurationMs
  /\ elapsed \in 0..ElapsedCap
  /\ eventfd \in Nat
  /\ perfLock \in BOOLEAN
  /\ timedHint \in 0..kMaxDurationMs
  /\ routine \in RoutineSteps
  /\ timeout_ms \in 0..kMaxDurationMs
  /\ pollLeft \in Nat
  /\ why \in WaitEnds
  /\ idle \in BOOLEAN
  /\ idleEvent \in BOOLEAN
  /\ binder \in BinderSteps
  /\ owed \in 0..kMaxDurationMs

(* The INTERACTION hint is held exactly while the handler is boosting:     *)
(* PerfLock and PerfRel alternate whatever Acquire and the DispIdle thread *)
(* do to each other.  Exit leaves the hint as it finds it.                 *)
HintFollowsState ==
  binder \in {"unborn", "serving"} =>
    (perfLock <=> mState \in {"INTERACTION", "WAITING"})

(* While WaitForIdle runs, the eventfd is clear exactly if the wait is     *)
(* still wanted: no abort left over from an earlier Acquire cuts a new     *)
(* wait short, and an abort is not cleared before the wait it is for ended.*)
AbortReachesWait ==
  /\ routine \in InWait => (mState = "WAITING" <=> eventfd = 0)
  /\ mState = "WAITING" => routine \in InWait

(* The DispIdle thread never sleeps on mCond while there is work for it,   *)
(* except between the unlock and the notify_all of Exit.                   *)
NoLostWakeup ==
  routine = "sleep" => mState = "IDLE" \/ binder = "notify"

(* PerfRel happens only when every boost promised by Acquire, early        *)
(* returns included, is over, or when the last wait was ended early by the *)
(* display or by an error; never because of an abort.                      *)
BoostKeptAsPromised ==
  [][perfLock /\ ~perfLock' => owed = 0 \/ why \in EarlyEnds]_vars

(* The inductive invariant behind the safety properties.                   *)
BinderInv ==
  /\ binder = "unborn" => mState = "UNINITIALIZED"
  /\ binder \in {"notify", "join", "dead"} => mState = "UNINITIALIZED"
  /\ mState = "UNINITIALIZED" /\ binder \in {"unborn", "serving"} => routine = "none"
  /\ routine = "none" => mState = "UNINITIALIZED"

EventFdInv ==
  routine \notin InWait /\ binder \in {"unborn", "serving"} => eventfd = 0

(* How far the wait for the armed boost has come, in time since it was     *)
(* armed.                                                                  *)
WaitInv ==
  mState = "WAITING" =>
    /\ routine = "poll1" =>
         timeout_ms = mDurationMs /\ elapsed + pollLeft >= kWaitMs
    /\ routine \in {"pread", "pollCall"} =>
         timeout_ms = mDurationMs /\ elapsed >= kWaitMs
    /\ routine = "poll2" => elapsed + pollLeft >= kWaitMs + mDurationMs
    /\ routine = "release" =>
         /\ why \in EarlyEnds \cup {"timeout"}
         /\ why = "timeout" => elapsed >= kWaitMs + mDurationMs

(* What is owed ends less than a millisecond after the armed boost.        *)
OwedInv ==
  /\ mDurationMs % TicksPerMs = 0
  /\ owed = 0 \/ owed <= mDurationMs - elapsed + TicksPerMs - 1
  /\ owed > 0 => routine # "none"
  /\ mState = "IDLE" => owed = 0

IInv ==
  /\ TypeOK /\ HintFollowsState /\ AbortReachesWait /\ NoLostWakeup
  /\ BinderInv /\ EventFdInv /\ WaitInv /\ OwedInv

(* A boost that nobody renewed for the longest possible wait is given back,*)
(* unless it is renewed or the handler is shut down.                       *)
BoostEnds ==
  (perfLock /\ elapsed = ElapsedCap)
    ~> (~perfLock \/ elapsed < ElapsedCap \/ binder \notin {"unborn", "serving"})

(* The destructor returns: the join of Exit finds the DispIdle thread gone *)
(* wherever it was when Exit began.                                        *)
ExitReturns == (binder = "notify") ~> (binder = "dead")

(* The promise of the handler to its callers: see BoostPromise.            *)
Promise == INSTANCE BoostPromise
  WITH MaxBoost <- kMaxDurationMs,
       boosted <- perfLock,
       cut <- mState = "WAITING" /\ routine = "release" /\ why \in EarlyEnds

(* The handler implements the promise: Acquire grants or covers, PerfRel   *)
(* ends a boost that is no longer owed or that was cut short.              *)
ImplementsPromise == Promise!Spec

=============================================================================
