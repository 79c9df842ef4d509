-------------------------- MODULE PowerHintSession --------------------------
(***************************************************************************)
(* ADPF hint sessions (aidl/power-libperfmgr/PowerHintSession.cpp), their  *)
(* registry (PowerSessionManager) and the monitor thread that runs the     *)
(* stale handlers and the registry's own handler (PowerHintMonitor).       *)
(*                                                                         *)
(* Two threads: the service's single binder thread executes the client's   *)
(* calls one after the other, the monitor thread executes the queue of its *)
(* looper.  A call is cut into steps at every point where it touches state *)
(* the monitor thread also touches; what runs under one mutex is one step. *)
(*                                                                         *)
(* Time is a clock in ticks; age[s] is the time since mLastUpdatedTime,    *)
(* counted up to one tick past StaleTime.  Calls that return an error      *)
(* without changing anything are stuttering steps and not written down.    *)
(* The control output of reportActualWorkDuration is any uclamp value;     *)
(* HintControl has the control loop.                                       *)
(***************************************************************************)
EXTENDS PowerSessionManager, Looper

CONSTANTS
  StaleTime,         \* kAdpfRate * sStaleTimeFactor, in ticks
  HighLimit,         \* sUclampMinHighLimit
  LowLimit,          \* sUclampMinLowLimit
  Granularity,       \* sUclampMinGranularity
  MaxChecks,         \* bound: a call starts while fewer manager checks are queued
  Varied,            \* bound: the sessions whose clients also pause and resume them
                     \* and go on calling after close
  Refusing           \* bound: the threads for which sched_setattr may fail

NoSession == "none"
Manager == "PowerSessionManager"

ASSUME SessionConstants ==
  /\ NoSession \notin Sessions /\ Manager \notin Sessions
  /\ StaleTime \in Nat \ {0}
  /\ LowLimit \in Nat /\ HighLimit \in Nat /\ LowLimit <= HighLimit
  /\ Granularity \in Nat
  /\ MaxChecks \in Nat \ {0}
  /\ Varied \subseteq Sessions /\ Refusing \subseteq Tids

VARIABLES
  life,               \* "none", "open", "closed" (mSessionClosed) or "destroyed"
  is_active,          \* mDescriptor->is_active
  current_min,        \* mDescriptor->current_min
  util,               \* the uclamp.min of every thread (kernel state), or Refused
  age,                \* time since mLastUpdatedTime
  mIsMonitoringStale,
  queue,              \* the looper's envelopes
  binder,             \* what the binder thread does next, for which session
  looper,             \* what the monitor thread does next
  unwatched,          \* history: active since create/resume without stale timer
  overtaken,          \* history: sessions closed while the stale check was running
                      \* that still goes on
  reused              \* history: sessions resumed or reported for after close

clampVars == <<current_min, util>>
sessionVars == <<life, is_active, clampVars, age, mIsMonitoringStale>>
lateVars == <<overtaken, reused>>
history == <<unwatched, lateVars>>
vars == <<managerVars, sessionVars, queue, binder, looper, history>>

At(where, s, min) == [at |-> where, s |-> s, min |-> min]
Idle == At("idle", NoSession, 0)

\* The kernel has refused the last write: the thread keeps what it had before.
Refused == -1

SessionInit ==
  /\ life = [s \in Sessions |-> "none"]
  /\ is_active = [s \in Sessions |-> FALSE]
  /\ current_min = [s \in Sessions |-> 0]
  /\ util = [t \in Tids |-> 0]
  /\ age = [s \in Sessions |-> 0]
  /\ mIsMonitoringStale = [s \in Sessions |-> FALSE]
  /\ queue = <<>>
  /\ binder = Idle
  /\ looper = Idle
  /\ unwatched = [s \in Sessions |-> FALSE]
  /\ overtaken = {} /\ reused = {}

Init == ManagerInit /\ SessionInit

-----------------------------------------------------------------------------
\* Shared helpers.

\* setUclamp for all threads of the session.  sched_setattr may fail for any of
\* them, which changes nothing but the log: the new clamp is recorded all the
\* same.  (With the uclamp property off no thread is reached.)
SetUclamp(s, min) ==
  /\ current_min' = [current_min EXCEPT ![s] = min]
  /\ \E failing \in SUBSET (Range(TidsOf[s]) \cap Refusing) :
       util' = [t \in Tids |-> CASE t \in failing -> Refused
                                 [] t \in Range(TidsOf[s]) \ failing -> min
                                 [] OTHER -> util[t]]

\* isStale and the test of the stale handler differ at the very deadline.
IsStale(s) == age[s] >= StaleTime
PastStaleTime(s) == age[s] > StaleTime

\* mStaleLock of s is held by the monitor thread.
StaleLocked(s) == looper.s = s /\ looper.at \in {"stale_uclamp", "stale_send"}

\* The monitor thread has worked on a destroyed session.
Undefined == looper.at = "undefined"

\* The binder thread is free to take a call; the bound keeps the number of
\* queued manager checks, which the code does not limit, finite.
CallStarts == binder = Idle /\ Waiting(queue, Manager) < MaxChecks /\ ~Undefined

\* pause, resume and reportActualWorkDuration do not ask whether the session is
\* closed; a client can call them as long as it holds the session.
Held(s) == life[s] = "open" \/ (life[s] = "closed" /\ s \in Varied)
Reusing(s) == IF life[s] = "closed" THEN reused \cup {s} ELSE reused

-----------------------------------------------------------------------------
\* The constructor registers the session, then sets the initial boost.
Create(s) ==
  /\ CallStarts /\ life[s] = "none"
  /\ life' = [life EXCEPT ![s] = "open"]
  /\ is_active' = [is_active EXCEPT ![s] = TRUE]
  /\ age' = [age EXCEPT ![s] = 0]
  /\ AddPowerSession(s)
  /\ unwatched' = [unwatched EXCEPT ![s] = TRUE]
  /\ binder' = At("create_uclamp", s, HighLimit)
  /\ UNCHANGED <<mActive, taBoostOff, clampVars, mIsMonitoringStale,
                 queue, looper, lateVars>>

\* The last step of the constructor and of reportActualWorkDuration.
UclampAndReturn ==
  /\ binder.at \in {"create_uclamp", "report_uclamp"}
  /\ SetUclamp(binder.s, binder.min)
  /\ binder' = Idle
  /\ UNCHANGED <<managerVars, life, is_active, age, mIsMonitoringStale, queue,
                 looper, history>>

\* updateUniveralBoostMode is the last step of pause, resume and close.
BoostModeAndReturn ==
  /\ binder.at = "boost_mode"
  /\ queue' = SendMessage(queue, Manager)
  /\ binder' = Idle
  /\ UNCHANGED <<managerVars, sessionVars, looper, history>>

Pause(s) ==
  /\ CallStarts /\ Held(s) /\ s \in Varied /\ is_active[s]
  /\ SetUclamp(s, 0)
  /\ binder' = At("pause_store", s, 0)
  /\ UNCHANGED <<managerVars, life, is_active, age, mIsMonitoringStale, queue,
                 looper, history>>

PauseStore ==
  /\ binder.at = "pause_store"
  /\ is_active' = [is_active EXCEPT ![binder.s] = FALSE]
  /\ unwatched' = [unwatched EXCEPT ![binder.s] = FALSE]
  /\ binder' = At("boost_mode", NoSession, 0)
  /\ UNCHANGED <<managerVars, life, clampVars, age, mIsMonitoringStale,
                 queue, looper, lateVars>>

Resume(s) ==
  /\ CallStarts /\ Held(s) /\ ~is_active[s]
  /\ is_active' = [is_active EXCEPT ![s] = TRUE]
  /\ unwatched' = [unwatched EXCEPT ![s] = life[s] = "open" /\ ~mIsMonitoringStale[s]]
  /\ reused' = Reusing(s)
  /\ binder' = At("resume_uclamp", s, HighLimit)
  /\ UNCHANGED <<managerVars, life, clampVars, age, mIsMonitoringStale,
                 queue, looper, overtaken>>

ResumeUclamp ==
  /\ binder.at = "resume_uclamp"
  /\ SetUclamp(binder.s, binder.min)
  /\ binder' = At("boost_mode", NoSession, 0)
  /\ UNCHANGED <<managerVars, life, is_active, age, mIsMonitoringStale, queue,
                 looper, history>>

\* close: only the first call gets past the exchange on mSessionClosed.
Close(s) ==
  /\ CallStarts /\ life[s] = "open"
  /\ life' = [life EXCEPT ![s] = "closed"]
  /\ queue' = RemoveMessages(queue, s)
  /\ overtaken' = IF looper.s = s THEN overtaken \cup {s} ELSE overtaken
  /\ binder' = At("close_uclamp", s, 0)
  /\ UNCHANGED <<managerVars, is_active, clampVars, age,
                 mIsMonitoringStale, looper, unwatched, reused>>

\* Mutant: close leaves the boost on the threads.
CloseUclampSkipped ==
  /\ binder.at = "close_uclamp"
  /\ binder' = At("close_unregister", binder.s, 0)
  /\ UNCHANGED <<managerVars, sessionVars, queue, looper, history>>

\* ... reset the clamps ...
CloseUclamp ==
  /\ binder.at = "close_uclamp"
  /\ SetUclamp(binder.s, 0)
  /\ binder' = At("close_unregister", binder.s, 0)
  /\ UNCHANGED <<managerVars, life, is_active, age, mIsMonitoringStale, queue,
                 looper, history>>

\* ... and unregister; updateUniveralBoostMode follows.
CloseUnregister ==
  /\ binder.at = "close_unregister"
  /\ RemovePowerSession(binder.s)
  /\ unwatched' = [unwatched EXCEPT ![binder.s] = FALSE]
  /\ binder' = At("boost_mode", NoSession, 0)
  /\ UNCHANGED <<mActive, taBoostOff, sessionVars, queue, looper, lateVars>>

\* The client lets go of the session.  The destructor calls close (Close) and
\* deletes what the session holds; a stale check that is still on its way keeps
\* its pointer to the session.
Destroy(s) ==
  /\ CallStarts /\ life[s] = "closed"
  /\ life' = [life EXCEPT ![s] = "destroyed"]
  /\ is_active' = [is_active EXCEPT ![s] = FALSE]
  /\ current_min' = [current_min EXCEPT ![s] = 0]
  /\ age' = [age EXCEPT ![s] = 0]
  /\ mIsMonitoringStale' = [mIsMonitoringStale EXCEPT ![s] = FALSE]
  /\ UNCHANGED <<managerVars, util, queue, binder, looper, history>>

\* Mutant: a report starts a stale timer although one is running.
UpdateStaleTimerAlways(s) ==
  LET woken == IF PastStaleTime(s) THEN SendMessage(queue, Manager) ELSE queue
  IN  /\ ~StaleLocked(s)
      /\ age' = [age EXCEPT ![s] = 0]
      /\ queue' = SendMessageDelayed(woken, s, StaleTime)
      /\ mIsMonitoringStale' = [mIsMonitoringStale EXCEPT ![s] = TRUE]

\* StaleHandler::updateStaleTimer, under mStaleLock.
UpdateStaleTimer(s) ==
  LET woken == IF PastStaleTime(s) THEN SendMessage(queue, Manager) ELSE queue
  IN  /\ ~StaleLocked(s)
      /\ age' = [age EXCEPT ![s] = 0]
      /\ queue' = IF mIsMonitoringStale[s] THEN woken
                  ELSE SendMessageDelayed(woken, s, StaleTime)
      /\ mIsMonitoringStale' = [mIsMonitoringStale EXCEPT ![s] = TRUE]

\* reportActualWorkDuration up to and including updateStaleTimer.
Report(s) ==
  /\ CallStarts /\ Held(s) /\ is_active[s]
  /\ UpdateStaleTimer(s)
  /\ unwatched' = [unwatched EXCEPT ![s] = FALSE]
  /\ reused' = Reusing(s)
  /\ binder' = At("report_decide", s, 0)
  /\ UNCHANGED <<managerVars, life, is_active, clampVars, looper, overtaken>>

\* The rest: a control output of zero, or one too close to the current value,
\* leaves the clamp alone.
ReportDecide ==
  /\ binder.at = "report_decide"
  /\ \/ binder' = Idle
     \/ \E next_min \in LowLimit .. HighLimit :
          /\ \/ current_min[binder.s] - next_min > Granularity
             \/ next_min - current_min[binder.s] > Granularity
          /\ binder' = At("report_uclamp", binder.s, next_min)
  /\ UNCHANGED <<managerVars, sessionVars, queue, looper, history>>

-----------------------------------------------------------------------------
\* The monitor thread takes the first due envelope.
PollOnce ==
  /\ looper = Idle /\ IsDue(queue)
  /\ looper' = IF Head(queue).to = Manager THEN At("manager", NoSession, 0)
               ELSE At("stale_check", Head(queue).to, 0)
  /\ queue' = Tail(queue)
  /\ UNCHANGED <<managerVars, sessionVars, binder, history>>

\* The monitor thread is inside the stale handler of a session ...
CheckRuns == looper.at \in {"stale_check", "stale_uclamp", "stale_send"}

\* ... that still exists.
Handling(where) == looper.at = where /\ life[looper.s] # "destroyed"

\* StaleHandler::handleMessage takes mStaleLock and either goes on to setStale
\* (keeping the lock) or posts itself again for the time that is left.
StaleCheck ==
  /\ Handling("stale_check")
  /\ \/ /\ PastStaleTime(looper.s)
        /\ looper' = At("stale_uclamp", looper.s, 0)
        /\ queue' = queue
     \/ /\ ~PastStaleTime(looper.s)
        /\ looper' = Idle
        /\ queue' = SendMessageDelayed(queue, looper.s, StaleTime - age[looper.s])
  /\ UNCHANGED <<managerVars, sessionVars, binder, history>>

\* setStale resets the clamp ...
SetStaleUclamp ==
  /\ Handling("stale_uclamp")
  /\ SetUclamp(looper.s, 0)
  /\ looper' = At("stale_send", looper.s, 0)
  /\ UNCHANGED <<managerVars, life, is_active, age, mIsMonitoringStale, queue,
                 binder, history>>

\* Mutant: setStale does not tell the manager.
SetStaleSilently ==
  /\ Handling("stale_send")
  /\ mIsMonitoringStale' = [mIsMonitoringStale EXCEPT ![looper.s] = FALSE]
  /\ looper' = Idle
  /\ UNCHANGED <<managerVars, life, is_active, clampVars, age, queue, binder, history>>

\* Mutant: the handler of a stale session posts itself again.
SetStaleReposting ==
  /\ Handling("stale_send")
  /\ queue' = SendMessageDelayed(SendMessage(queue, Manager), looper.s, StaleTime)
  /\ looper' = Idle
  /\ UNCHANGED <<managerVars, sessionVars, binder, history>>

\* ... and asks the manager to look again; the handler stops monitoring and
\* releases mStaleLock.
SetStaleSend ==
  /\ Handling("stale_send")
  /\ queue' = SendMessage(queue, Manager)
  /\ mIsMonitoringStale' = [mIsMonitoringStale EXCEPT ![looper.s] = FALSE]
  /\ overtaken' = overtaken \ {looper.s}
  /\ looper' = Idle
  /\ UNCHANGED <<managerVars, life, is_active, clampVars, age, binder, unwatched, reused>>

\* A stale check whose session has been destroyed works on freed memory: C++ does
\* not say what happens, and the model does not follow the program any further.
UseDestroyed ==
  /\ CheckRuns /\ life[looper.s] = "destroyed"
  /\ looper' = At("undefined", looper.s, 0)
  /\ UNCHANGED <<managerVars, sessionVars, queue, binder, history>>

\* isActive() and not isStale().
ReallyActive(s) == is_active[s] /\ ~IsStale(s)

\* PowerSessionManager::handleMessage asks isAnySessionActive under mLock ...
ManagerCheck ==
  /\ looper.at = "manager"
  /\ mActive' = IsAnySessionActive({s \in Sessions : ReallyActive(s)})
  /\ looper' = IF mActive' = mActive THEN Idle ELSE At("manager_hint", NoSession, 0)
  /\ UNCHANGED <<mSessions, mTidRefCountMap, resetGrp, taBoostOff, sessionVars,
                 queue, binder, history>>

\* ... and acts on the answer after the lock is released.
ManagerHint ==
  /\ looper.at = "manager_hint"
  /\ SystemTopAppBoost
  /\ looper' = Idle
  /\ UNCHANGED <<mSessions, mTidRefCountMap, resetGrp, mActive, sessionVars,
                 queue, binder, history>>

\* Time passes, whatever the threads are doing.
Tick ==
  /\ age' = [s \in Sessions |-> IF life[s] \in {"open", "closed"} /\ ~PastStaleTime(s)
                                THEN age[s] + 1
                                ELSE age[s]]
  /\ queue' = Elapse(queue)
  /\ UNCHANGED <<managerVars, life, is_active, clampVars,
                 mIsMonitoringStale, binder, looper, history>>

-----------------------------------------------------------------------------
ClientCall == \E s \in Sessions : Create(s) \/ Pause(s) \/ Resume(s) \/ Close(s) \/ Report(s)
                                 \/ Destroy(s)
BinderStep == \/ UclampAndReturn \/ BoostModeAndReturn \/ PauseStore \/ ResumeUclamp
              \/ CloseUclamp \/ CloseUnregister \/ ReportDecide
MonitorStep == \/ PollOnce \/ StaleCheck \/ SetStaleUclamp \/ SetStaleSend \/ UseDestroyed
               \/ ManagerCheck \/ ManagerHint

Next == ClientCall \/ BinderStep \/ MonitorStep \/ Tick

\* A started call runs to its end, the monitor thread polls for ever
\* (threadLoop), and time passes; clients owe nothing.
Fairness == WF_vars(BinderStep) /\ WF_vars(MonitorStep) /\ WF_vars(Tick)

Spec == Init /\ [][Next]_vars /\ Fairness
-----------------------------------------------------------------------------
\* The stale checks of s that are queued or running.
Checks(s) == Waiting(queue, s) + (IF looper.s = s THEN 1 ELSE 0)

\* An open session that believes it is monitored has exactly one stale check
\* queued or running, and one that does not has none: the timer is neither lost
\* nor doubled by a report racing with the handler.  A closed session has at most
\* one, and none at all unless its handler was running during close or the client
\* went on using it: in no other case can a check meet a destroyed session.
OneStaleCheck ==
  \A s \in Sessions :
    /\ life[s] = "open" => Checks(s) = IF mIsMonitoringStale[s] THEN 1 ELSE 0
    /\ life[s] = "closed" /\ Checks(s) > 0 => Checks(s) = 1 /\ mIsMonitoringStale[s]
    /\ life[s] \in {"closed", "destroyed"} /\ Checks(s) > 0 => s \in overtaken \cup reused

\* Unless the kernel refused the last write, the boost of a thread is on the record
\* of a session that lists it, and only active sessions that are open, or used
\* after they were closed, have a boost on record.  So pause, close and the stale
\* handler leave no boost behind, although two threads write clamps; only the
\* destructor of a session used after close takes a record and leaves the boost.
NoBoostLeft ==
  /\ \A t \in Tids : util[t] > 0 =>
       \E s \in Sessions : /\ t \in Range(TidsOf[s])
                          /\ \/ current_min[s] = util[t]
                             \/ life[s] = "destroyed" /\ s \in reused
  /\ \A s \in Sessions : current_min[s] > 0 =>
       /\ is_active[s]
       /\ life[s] = "open" \/ s \in reused \/ binder = At("close_uclamp", s, 0)

\* A session whose activity ended the ordinary way: paused, or stale after its
\* timer was started.
Quiet(s) == ~ReallyActive(s) /\ ~unwatched[s]

\* When all registered sessions have become quiet, the system's top-app boost
\* is eventually given back, unless some session becomes active again first.
BoostGivenBack ==
  (HintSupported /\ \A s \in mSessions : Quiet(s))
    ~> (~taBoostOff \/ (\E s \in mSessions : ~Quiet(s)) \/ Undefined)

\* A stale check that outlives close(), or that a report after close() started,
\* ends by itself once the client stops reporting (age[s] is zero right after a
\* report): eventually nothing of the session is queued or running any more.
LateChecksEnd ==
  \A s \in Sessions :
    <>[](life[s] = "closed" /\ age[s] > 0) => <>[](Checks(s) = 0) \/ <>Undefined
=============================================================================
