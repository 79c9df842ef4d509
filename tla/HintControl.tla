---------------------------- MODULE HintControl ----------------------------
(***************************************************************************)
(* The control loop of an ADPF hint session                                *)
(* (aidl/power-libperfmgr/PowerHintSession.cpp): a client reports how long *)
(* its work took, a PID controller turns the difference to the target into *)
(* a uclamp.min for the session's threads.  The registry of the sessions,  *)
(* with task profiles that cannot be set, is PowerSessionManager.          *)
(*                                                                         *)
(* One call is one step here; PowerHintSession cuts the same calls into    *)
(* the steps that interleave with the monitor thread and leaves out what   *)
(* the controller computes.  Of the monitor thread this module keeps what  *)
(* it does to a session: a session goes stale, and its handler, if armed,  *)
(* takes the boost away some time later.                                   *)
(*                                                                         *)
(* Durations are counted in fractions of the controller's unit of 100 us.  *)
(* The gains are rational numbers with small denominators; the conversions *)
(* of doubles to integers cut the fraction off, as in the code.            *)
(***************************************************************************)
EXTENDS PowerSessionManager

CONSTANTS
  Controlled,            \* the sessions whose clients do more than open and close them
  Unit,                  \* 100 us
  Targets,               \* target durations, 0 for none yet
  Actuals,               \* reported durations
  MaxBatch,              \* bound: durations in one report
  PWindow, IWindow, DWindow,      \* sPSamplingWindow, ...; 0 takes all samples
  POver, PUnder,                  \* sPidPOver, sPidPUnder
  DOver, DUnder,                  \* sPidDOver, sPidDUnder
  IDivisor,                       \* 1 / sPidI
  IInit, ILowLimit, IHighLimit,   \* sPidIInit, sPidILowLimit, sPidIHighLimit
  LowLimit, HighLimit,            \* sUclampMinLowLimit, sUclampMinHighLimit
  Granularity,                    \* sUclampMinGranularity
  Refusing,                       \* bound: threads for which sched_setattr may fail
  IntSpan                         \* number of values of an int

ASSUME ControlConstants ==
  /\ Controlled \subseteq Sessions /\ Refusing \subseteq Tids
  /\ Unit \in Nat \ {0} /\ Targets \subseteq Nat /\ Actuals \subseteq Int
  /\ MaxBatch \in Nat \ {0} /\ PWindow \in Nat /\ IWindow \in Nat /\ DWindow \in Nat
  /\ POver \in Nat /\ PUnder \in Nat /\ DOver \in Nat /\ DUnder \in Nat
  /\ IDivisor \in Nat \ {0}
  /\ IInit \in Int /\ ILowLimit \in Int /\ IHighLimit \in Int
  /\ ILowLimit <= IInit /\ IInit <= IHighLimit
  /\ LowLimit \in Nat /\ HighLimit \in Nat /\ LowLimit <= HighLimit
  /\ Granularity \in Nat /\ IntSpan \in Nat \ {0}

VARIABLES
  life,             \* "none", "open" or "closed"
  is_active,
  stale,            \* isStale: the last report is too long ago
  mIsMonitoringStale,
  timer,            \* a stale check is queued in the monitor's looper
  duration,         \* the target
  integral_error, previous_error, current_min,
  util,             \* uclamp.min of every thread (kernel state), or Refused
  demand,           \* history: the last boost the controller asked for since the
                    \* clamp was last set otherwise, or NoDemand
  trend,            \* history: "over" or "under" if all samples of the last report
                    \* were so by a unit at least, else "mixed"
  turn              \* history: changes with every report

pidVars == <<duration, integral_error, previous_error>>
historyVars == <<demand, trend, turn>>
staleVars == <<stale, mIsMonitoringStale, timer>>
vars == <<managerVars, life, is_active, staleVars, pidVars, current_min, util, historyVars>>

NoDemand == -1

\* The kernel has refused the last write: the thread keeps what it had before.
Refused == -1

SetIn(f, s, v) == [f EXCEPT ![s] = v]

Init ==
  /\ ManagerInit
  /\ life = [s \in Sessions |-> "none"]
  /\ is_active = [s \in Sessions |-> FALSE] /\ stale = [s \in Sessions |-> FALSE]
  /\ mIsMonitoringStale = [s \in Sessions |-> FALSE] /\ timer = [s \in Sessions |-> FALSE]
  /\ duration = [s \in Sessions |-> 0]
  /\ integral_error = [s \in Sessions |-> 0] /\ previous_error = [s \in Sessions |-> 0]
  /\ current_min = [s \in Sessions |-> 0] /\ util = [t \in Tids |-> 0]
  /\ demand = [s \in Sessions |-> NoDemand] /\ trend = [s \in Sessions |-> "mixed"]
  /\ turn = [s \in Sessions |-> 0]

-----------------------------------------------------------------------------
\* Integer division and the conversion of a double: towards zero.
Quot(a, b) == IF a >= 0 THEN a \div b ELSE -((-a) \div b)

\* ns_to_100us.
ns_to_100us(d) == Quot(d, Unit)

\* static_cast<int> of an int64_t.
ToInt(x) == LET r == x % IntSpan IN IF r >= IntSpan \div 2 THEN r - IntSpan ELSE r

AtLeast(low, x) == IF x < low THEN low ELSE x
AtMost(high, x) == IF x > high THEN high ELSE x

\* The first sample a term of the controller looks at.
WindowStart(window, length) == IF window = 0 \/ window > length THEN 1 ELSE length - window + 1

Dt(s) == ns_to_100us(duration[s])
Error(s, actual) == ns_to_100us(actual - duration[s])

\* Mutant: the initial value is taken for the low limit.
IntegrateFromInit(i, error, dt) == AtLeast(IInit, AtMost(IHighLimit, i + error * dt))

\* Mutant: the low limit cuts the integral off on both sides.
IntegrateToLow(i, error, dt) == AtLeast(ILowLimit, AtMost(ILowLimit, i + error * dt))

\* The integral of the error, cut off on both sides.
Integrate(i, error, dt) == AtLeast(ILowLimit, AtMost(IHighLimit, i + error * dt))

\* One turn of the loop of reportActualWorkDuration: samples before the first
\* one any term looks at are skipped.
Sample(s, actuals, r, k) ==
  LET n == Len(actuals)
      p == WindowStart(PWindow, n)
      i == WindowStart(IWindow, n)
      d == WindowStart(DWindow, n)
      error == Error(s, actuals[k])
  IN  IF k < p /\ k < i /\ k < d THEN r
      ELSE [integral |-> IF k >= i THEN Integrate(r.integral, error, Dt(s)) ELSE r.integral,
            err_sum |-> IF k >= p THEN r.err_sum + error ELSE r.err_sum,
            derivative_sum |-> IF k >= d THEN r.derivative_sum + error - r.previous
                               ELSE r.derivative_sum,
            previous |-> error]

\* The loop over the samples: what it has computed after the last one.
Samples(s, actuals, integral) ==
  LET after[k \in 0 .. Len(actuals)] ==
        IF k = 0 THEN [integral |-> integral, err_sum |-> 0, derivative_sum |-> 0,
                       previous |-> previous_error[s]]
        ELSE Sample(s, actuals, after[k - 1], k)
  IN  after[Len(actuals)]

\* The output for a report of n samples.  The derivative is divided by dt; a
\* target below the unit makes dt zero.
Output(r, n, dt) ==
  LET p == n - WindowStart(PWindow, n) + 1
      d == n - WindowStart(DWindow, n) + 1
      pOut == Quot((IF r.err_sum > 0 THEN POver ELSE PUnder) * r.err_sum, p)
      iOut == Quot(r.integral, IDivisor)
      dOut == Quot((IF r.derivative_sum > 0 THEN DOver ELSE DUnder) * r.derivative_sum, dt * d)
  IN  pOut + iOut + dOut

\* Infinity, not-a-number and what their conversion gives: any value may come.
Outputs(r, n, dt) ==
  IF dt = 0 THEN (LowLimit - 1) .. HighLimit ELSE {Output(r, n, dt)}

\* The boost an output that is not zero asks for.
NextMin(output) == AtLeast(LowLimit, AtMost(HighLimit, ToInt(output)))

\* The test before setUclamp.
TooClose(s, next) == next - current_min[s] \in -Granularity .. Granularity

\* Mutant: the new clamp is not remembered.
SetUclampForgetting(s, min) ==
  /\ current_min' = current_min
  /\ util' = [t \in Tids |-> IF t \in Range(TidsOf[s]) THEN min ELSE util[t]]

\* setUclamp for all threads of the session.  sched_setattr may fail for any of
\* them; the clamp is recorded all the same, so that TooClose keeps the next
\* report from trying again.
SetUclamp(s, min) ==
  /\ current_min' = SetIn(current_min, s, min)
  /\ \E failing \in SUBSET (Range(TidsOf[s]) \cap Refusing) :
       util' = [t \in Tids |-> CASE t \in failing -> Refused
                                 [] t \in Range(TidsOf[s]) \ failing -> min
                                 [] OTHER -> util[t]]

\* The clamp is set by something else than the controller.
Fresh(s) == demand' = SetIn(demand, s, NoDemand) /\ trend' = SetIn(trend, s, "mixed")

-----------------------------------------------------------------------------
\* createHintSession: the session is registered and starts with a full boost.
Create(s, target) ==
  /\ life[s] = "none"
  /\ life' = SetIn(life, s, "open") /\ is_active' = SetIn(is_active, s, TRUE)
  /\ duration' = SetIn(duration, s, target)
  /\ AddPowerSession(s) /\ SetUclamp(s, HighLimit) /\ Fresh(s)
  /\ UNCHANGED <<mActive, taBoostOff, staleVars, integral_error, previous_error, turn>>

Pause(s) ==
  /\ life[s] # "none" /\ is_active[s]
  /\ is_active' = SetIn(is_active, s, FALSE)
  /\ SetUclamp(s, 0) /\ Fresh(s)
  /\ UNCHANGED <<managerVars, life, staleVars, pidVars, turn>>

Resume(s) ==
  /\ life[s] # "none" /\ ~is_active[s]
  /\ is_active' = SetIn(is_active, s, TRUE)
  /\ integral_error' = SetIn(integral_error, s, AtLeast(IInit, integral_error[s]))
  /\ SetUclamp(s, HighLimit) /\ Fresh(s)
  /\ UNCHANGED <<managerVars, life, staleVars, duration, previous_error, turn>>

\* close takes the stale check out of the queue; the flag stays, so that a
\* session which goes on reporting is not watched any more.
Close(s) ==
  /\ life[s] = "open"
  /\ life' = SetIn(life, s, "closed")
  /\ timer' = SetIn(timer, s, FALSE)
  /\ SetUclamp(s, 0) /\ RemovePowerSession(s) /\ Fresh(s)
  /\ UNCHANGED <<mActive, taBoostOff, is_active, stale, mIsMonitoringStale, pidVars, turn>>

\* updateTargetWorkDuration scales the integral by the quotient of the old and
\* the new target, an integer, and keeps it above its initial value; it may
\* leave the range until the next report.
UpdateTargetWorkDuration(s, target) ==
  /\ life[s] # "none" /\ target > 0
  /\ integral_error' = SetIn(integral_error, s,
                             AtLeast(IInit, integral_error[s] * Quot(duration[s], target)))
  /\ duration' = SetIn(duration, s, target)
  /\ trend' = SetIn(trend, s, "mixed")
  /\ UNCHANGED <<managerVars, life, is_active, staleVars, previous_error, current_min, util,
                 demand, turn>>

\* What the samples of a report have in common, if the output fits into an int.
Trend(s, actuals, output) ==
  CASE \A k \in DOMAIN actuals : Error(s, actuals[k]) >= 1 /\ ToInt(output) = output -> "over"
    [] \A k \in DOMAIN actuals : Error(s, actuals[k]) <= -1 /\ ToInt(output) = output -> "under"
    [] OTHER -> "mixed"

\* reportActualWorkDuration of an active session with a target.
ReportActualWorkDuration(s, actuals) ==
  /\ life[s] # "none" /\ is_active[s] /\ duration[s] # 0
  /\ LET woken == IF stale[s] THEN AtLeast(IInit, integral_error[s]) ELSE integral_error[s]
         r == Samples(s, actuals, woken)
     IN  /\ integral_error' = SetIn(integral_error, s, r.integral)
         /\ previous_error' = SetIn(previous_error, s, r.previous)
         /\ \E output \in Outputs(r, Len(actuals), Dt(s)) :
              /\ IF output = 0 \/ TooClose(s, NextMin(output))
                 THEN UNCHANGED <<current_min, util>>
                 ELSE SetUclamp(s, NextMin(output))
              /\ demand' = IF output = 0 THEN demand ELSE SetIn(demand, s, NextMin(output))
              /\ trend' = SetIn(trend, s, Trend(s, actuals, output))
  /\ stale' = SetIn(stale, s, FALSE)
  /\ mIsMonitoringStale' = SetIn(mIsMonitoringStale, s, TRUE)
  /\ timer' = SetIn(timer, s, timer[s] \/ ~mIsMonitoringStale[s])
  /\ turn' = SetIn(turn, s, 1 - turn[s])
  /\ UNCHANGED <<managerVars, life, is_active, duration>>

-----------------------------------------------------------------------------
\* No report for too long ...
GoStale(s) ==
  /\ life[s] # "none" /\ ~stale[s]
  /\ stale' = SetIn(stale, s, TRUE)
  /\ UNCHANGED <<managerVars, life, is_active, mIsMonitoringStale, timer, pidVars, current_min,
                 util, historyVars>>

\* ... and the stale handler takes the boost away.
SetStale(s) ==
  /\ stale[s] /\ timer[s]
  /\ mIsMonitoringStale' = SetIn(mIsMonitoringStale, s, FALSE) /\ timer' = SetIn(timer, s, FALSE)
  /\ SetUclamp(s, 0) /\ Fresh(s)
  /\ UNCHANGED <<managerVars, life, is_active, stale, pidVars, turn>>

Batches == UNION {[1 .. n -> Actuals] : n \in 1 .. MaxBatch}
Report(s) == \E actuals \in Batches : ReportActualWorkDuration(s, actuals)

Next ==
  \/ \E s \in Sessions :
       Close(s) \/ \E target \in IF s \in Controlled THEN Targets ELSE {0} : Create(s, target)
  \/ \E s \in Controlled :
       \/ Pause(s) \/ Resume(s) \/ Report(s) \/ GoStale(s) \/ SetStale(s)
       \/ \E target \in Targets : UpdateTargetWorkDuration(s, target)

Spec == Init /\ [][Next]_vars

-----------------------------------------------------------------------------
\* A thread that belongs to no other session.
OwnThreads(s) == {t \in Range(TidsOf[s]) : \A o \in Sessions \ {s} : t \notin Range(TidsOf[o])}

\* The recorded clamp is never further from the boost the controller asked for
\* last than the granularity, however resets by pause, resume, close and the stale
\* handler come between the reports; and a thread has the recorded clamp unless
\* the kernel refused the last write for it, which nothing in the record shows.
ClampFollowsDemand ==
  \A s \in Controlled : demand[s] # NoDemand =>
    /\ current_min[s] - demand[s] \in -Granularity .. Granularity
    /\ \A t \in OwnThreads(s) : util[t] \in {current_min[s], Refused}

\* A client that goes on reporting work that took at least a unit too long (or
\* was that much too short), with a target of at least a unit.
Reporting(s, how) ==
  /\ <>[](trend[s] = how /\ Dt(s) > 0 /\ ~stale[s])
  /\ []<><<turn'[s] # turn[s]>>_vars

\* The clamps in force: the recorded one, and those the kernel has taken.
Clamps(s) == {current_min[s]} \cup {util[t] : t \in {u \in OwnThreads(s) : util[u] # Refused}}

\* If every report is an overrun, the session ends up with the full boost (up to
\* the granularity) on record and on its threads, those left out for which the
\* kernel refused the write: neither the clamped integral nor the cut-off
\* fractions let the controller settle below it.
OverrunRaises ==
  \A s \in Controlled : Reporting(s, "over") =>
    <>[](\A min \in Clamps(s) : min >= HighLimit - Granularity)

\* If every report is an underrun, the boost goes away however long the
\* overruns before lasted, but for a thread whose write the kernel refused: the
\* integral cannot wind up.
UnderrunLowers ==
  \A s \in Controlled : Reporting(s, "under") =>
    <>[](\A min \in Clamps(s) : min <= LowLimit + Granularity)
=============================================================================
