---------------------- MODULE PowerHintSessionProofs ----------------------
(***************************************************************************)
(* Proofs about PowerHintSession. The lemmas about its steps come first:   *)
(* they take what they need to know about numbers of envelopes and of      *)
(* thread list entries as hypotheses (QueueFacts, ListFacts). The counting *)
(* that proves these follows, and the theorems put the two together.       *)
(***************************************************************************)
EXTENDS PowerHintSession, TLAPS

Handlers == Sessions \cup {Manager}
Envelopes == [to : Handlers, left : Nat]

\* What the operators on the message queue do to the number of envelopes a
\* handler has in it: a send adds one for its handler, the monitor thread takes
\* one away, RemoveMessages takes all of one handler away, and the passing of
\* time none. LEMMA QueueCounts proves it.
QueueFacts ==
  \A q \in Seq(Envelopes) :
    /\ \A h \in Handlers : Waiting(q, h) \in Nat
    /\ \A to \in Handlers, delay \in Nat :
         /\ SendMessageDelayed(q, to, delay) \in Seq(Envelopes)
         /\ Waiting(SendMessageDelayed(q, to, delay), to) = Waiting(q, to) + 1
         /\ \A h \in Handlers \ {to} :
              Waiting(SendMessageDelayed(q, to, delay), h) = Waiting(q, h)
    /\ q # <<>> =>
         /\ Head(q).to \in Handlers /\ Tail(q) \in Seq(Envelopes)
         /\ \A h \in Handlers : Waiting(q, h) = IF h = Head(q).to THEN Waiting(Tail(q), h) + 1
                                                ELSE Waiting(Tail(q), h)
    /\ \A to \in Handlers :
         /\ RemoveMessages(q, to) \in Seq(Envelopes)
         /\ Waiting(RemoveMessages(q, to), to) = 0
         /\ \A h \in Handlers \ {to} : Waiting(RemoveMessages(q, to), h) = Waiting(q, h)
    /\ Elapse(q) \in Seq(Envelopes)
    /\ \A h \in Handlers : Waiting(Elapse(q), h) = Waiting(q, h)

\* The entries of the thread lists of the sessions S that name t.
Listings(S, t) == UNION {{s} \X Entries(s, t) : s \in S}

\* The number of entries of thread lists. LEMMA ListCounts proves it.
ListFacts ==
  \A t :
    /\ \A s \in Sessions : \A C \in SUBSET Entries(s, t) :
         /\ Cardinality(C) \in 0 .. Cardinality(Entries(s, t))
         /\ Cardinality(C) = 0 <=> C = {}
    /\ \A s \in Sessions : Cardinality(Entries(s, t)) \in Nat
    /\ \A S \in SUBSET Sessions : Cardinality(Listings(S, t)) \in Nat
    /\ \A S \in SUBSET Sessions : \A s \in Sessions \ S :
         Cardinality(Listings(S \cup {s}, t))
           = Cardinality(Listings(S, t)) + Cardinality(Entries(s, t))

\* Where the binder thread can be: in a call that raises or may raise the clamp,
\* in pause(), in close(), or before the last step of pause, resume and close.
Raising == {"create_uclamp", "report_decide", "report_uclamp", "resume_uclamp"}
Closing == {"close_uclamp", "close_unregister"}
Calling == Raising \cup Closing \cup {"pause_store"}
Checking == {"stale_check", "stale_uclamp", "stale_send"}

TypeOK ==
  /\ mSessions \in SUBSET Sessions
  /\ life \in [Sessions -> {"none", "open", "closed", "destroyed"}]
  /\ is_active \in [Sessions -> BOOLEAN]
  /\ current_min \in [Sessions -> Nat] /\ util \in [Tids -> Nat \cup {Refused}]
  /\ age \in [Sessions -> Nat]
  /\ mIsMonitoringStale \in [Sessions -> BOOLEAN]
  /\ queue \in Seq(Envelopes)
  /\ binder \in [at : Calling \cup {"boost_mode", "idle"}, s : Sessions \cup {NoSession},
                 min : Nat]
  /\ looper \in [at : Checking \cup {"manager", "manager_hint", "idle", "undefined"},
                 s : Sessions \cup {NoSession}, min : Nat]
  /\ binder.s \in Sessions <=> binder.at \in Calling
  /\ looper.s \in Sessions <=> looper.at \in Checking \cup {"undefined"}
  /\ reused \in SUBSET Sessions

\* The session is open, or it is closed and the client goes on using it.
InUse(s) == life[s] = "open" \/ s \in reused

\* The call the binder thread is in agrees with the life of its session, and
\* the registered sessions are those that are open or about to be unregistered.
CallInv ==
  /\ binder.at \in Raising => InUse(binder.s) /\ is_active[binder.s]
  /\ binder.at \in Closing => life[binder.s] = "closed"
  /\ binder.at \in Calling => life[binder.s] \in {"open", "closed"}
  /\ mSessions = {s \in Sessions : life[s] = "open" \/ (binder.at \in Closing /\ binder.s = s)}

\* A session that has not been created has no stale check.
TimerInv ==
  /\ OneStaleCheck
  /\ \A s \in Sessions : life[s] = "none" =>
       Waiting(queue, s) = 0 /\ looper.s # s /\ ~mIsMonitoringStale[s]

\* Session s accounts for the clamp of a thread it lists.
Accounts(s, t) ==
  /\ t \in Range(TidsOf[s])
  /\ current_min[s] = util[t] \/ (life[s] = "destroyed" /\ s \in reused)

\* Some session accounts for every boost.
UtilInv == \A t \in Tids : util[t] > 0 => \E s \in Sessions : Accounts(s, t)

\* A session with a boost is active and in use and not being paused, or close()
\* is about to reset it.
MinInv ==
  \A s \in Sessions : current_min[s] > 0 =>
    /\ is_active[s] /\ ~(binder.at = "pause_store" /\ binder.s = s)
    /\ InUse(s) \/ binder = At("close_uclamp", s, 0)

BoostInv == UtilInv /\ MinInv

CountInv ==
  /\ DOMAIN mTidRefCountMap \in SUBSET Tids
  /\ RefCountBounded
  /\ RefCountExact

IInv == TypeOK /\ CallInv /\ TimerInv /\ BoostInv /\ CountInv
-----------------------------------------------------------------------------
\* setUclamp records the clamp of the session, and gives it to those of its
\* threads for which the kernel does not refuse it.
LEMMA UclampFacts ==
  ASSUME TypeOK, NEW s \in Sessions, NEW min \in Nat, SetUclamp(s, min)
  PROVE  /\ current_min' \in [Sessions -> Nat] /\ util' \in [Tids -> Nat \cup {Refused}]
         /\ current_min'[s] = min /\ \A o \in Sessions \ {s} : current_min'[o] = current_min[o]
         /\ \A t \in Tids : IF t \in Range(TidsOf[s]) THEN util'[t] \in {min, Refused}
                            ELSE util'[t] = util[t]
<1>1. PICK failing \in SUBSET (Range(TidsOf[s]) \cap Refusing) :
        util' = [t \in Tids |-> CASE t \in failing -> Refused
                                  [] t \in Range(TidsOf[s]) \ failing -> min
                                  [] OTHER -> util[t]]
  BY Zenon DEF SetUclamp
<1>2. \A t \in Tids : IF t \in Range(TidsOf[s]) THEN util'[t] \in {min, Refused}
                      ELSE util'[t] = util[t]
  BY <1>1
<1>3. util' \in [Tids -> Nat \cup {Refused}]
  BY <1>1 DEF TypeOK
<1>4. current_min' = [current_min EXCEPT ![s] = min]
  BY DEF SetUclamp
<1> QED BY <1>2, <1>3, <1>4 DEF TypeOK

\* A new clamp is accounted for by the session that sets it, and the others
\* by whoever accounted for them.
LEMMA SetUtil ==
  ASSUME TypeOK, UtilInv, NEW s \in Sessions, NEW min \in Nat, SetUclamp(s, min),
         life' = life, reused' = reused
  PROVE  UtilInv'
<1> SUFFICES ASSUME NEW t \in Tids, util'[t] > 0
             PROVE  \E o \in Sessions : Accounts(o, t)'
  BY Zenon DEF UtilInv
<1>1. CASE t \in Range(TidsOf[s])
  <2>1. util'[t] = min /\ current_min'[s] = min
    BY <1>1, UclampFacts DEF Refused
  <2> QED BY <1>1, <2>1, Zenon DEF Accounts
<1>2. CASE t \notin Range(TidsOf[s])
  <2>1. util'[t] = util[t]
    BY <1>2, UclampFacts
  <2>2. PICK o \in Sessions : Accounts(o, t)
    BY <2>1 DEF UtilInv
  <2>3. o # s
    BY <1>2, <2>2 DEF Accounts
  <2>4. current_min'[o] = current_min[o]
    BY <2>3, UclampFacts
  <2>5. Accounts(o, t)'
    BY <2>1, <2>2, <2>4 DEF Accounts
  <2> QED BY <2>5
<1> QED BY <1>1, <1>2

\* A step that touches no clamp and brings no session back keeps UtilInv.
LEMMA KeepUtil ==
  ASSUME UtilInv, UNCHANGED <<util, current_min>>, reused \subseteq reused',
         \A o \in Sessions : life[o] = "destroyed" => life'[o] = "destroyed"
  PROVE  UtilInv'
BY DEF UtilInv, Accounts

\* A reset of the clamp of any session keeps MinInv.
LEMMA ResetMin ==
  ASSUME TypeOK, MinInv, NEW s \in Sessions, SetUclamp(s, 0),
         UNCHANGED <<life, is_active, reused>>,
         \/ binder' = binder
         \/ /\ binder.at # "close_uclamp" \/ binder.s = s
            /\ binder'.at # "pause_store" \/ binder'.s = s
  PROVE  MinInv'
<1> SUFFICES ASSUME NEW o \in Sessions, current_min'[o] > 0
             PROVE  /\ is_active[o] /\ ~(binder'.at = "pause_store" /\ binder'.s = o)
                    /\ InUse(o) \/ binder' = At("close_uclamp", o, 0)
  BY DEF MinInv, InUse
<1>1. o # s /\ current_min[o] > 0
  BY UclampFacts
<1>2. /\ is_active[o] /\ ~(binder.at = "pause_store" /\ binder.s = o)
      /\ InUse(o) \/ binder = At("close_uclamp", o, 0)
  BY <1>1 DEF MinInv
<1>3. binder = At("close_uclamp", o, 0) => binder.at = "close_uclamp" /\ binder.s = o
  BY DEF At
<1> QED BY <1>1, <1>2, <1>3

\* A step that touches no clamp and leaves active sessions in use so, unless
\* it is the end of their pause(), keeps MinInv.
LEMMA KeepMin ==
  ASSUME MinInv, current_min' = current_min,
         binder.at # "close_uclamp", binder'.at # "pause_store",
         \A o \in Sessions :
           /\ InUse(o) => InUse(o)'
           /\ is_active[o] /\ ~(binder.at = "pause_store" /\ binder.s = o) => is_active'[o]
  PROVE  MinInv'
<1> SUFFICES ASSUME NEW o \in Sessions, current_min[o] > 0
             PROVE  InUse(o)' /\ is_active'[o]
  BY DEF MinInv
<1>1. binder # At("close_uclamp", o, 0)
  BY DEF At
<1> QED BY <1>1 DEF MinInv

\* Every step keeps the types.
LEMMA TypeStep ==
  ASSUME QueueFacts, IInv, Next
  PROVE  TypeOK'
<1> USE SMT, Zenon, SMTT(30) DEF IInv, history, lateVars, clampVars
<1>0. /\ \A q \in Seq(Envelopes), h \in Handlers, d \in Nat : SendMessageDelayed(q, h, d) \in Seq(Envelopes)
      /\ \A q \in Seq(Envelopes) : SendMessage(q, Manager) \in Seq(Envelopes)
  BY Zenon DEF QueueFacts, SendMessage, Handlers
<1>1. ASSUME NEW s \in Sessions, Create(s) PROVE TypeOK'
  <2>1. mSessions' = mSessions \cup {s}
    BY <1>1 DEF Create, AddPowerSession
  <2> QED BY <1>1, <2>1, SessionConstants DEF Create, TypeOK, At, Raising, Calling
<1>2. CASE UclampAndReturn
  <2>1. binder.s \in Sessions /\ binder.min \in Nat /\ SetUclamp(binder.s, binder.min)
    BY <1>2 DEF UclampAndReturn, TypeOK, Calling, Raising
  <2> QED BY <1>2, <2>1, UclampFacts, SessionConstants
          DEF UclampAndReturn, TypeOK, Idle, At, Calling, Raising, Closing, managerVars
<1>3. CASE BoostModeAndReturn
  BY <1>0, <1>3, SessionConstants DEF BoostModeAndReturn, TypeOK, Idle, At, Calling, Raising, Closing, managerVars, sessionVars
<1>4. ASSUME NEW s \in Sessions, Pause(s) PROVE TypeOK'
  <2>1. SetUclamp(s, 0)
    BY <1>4 DEF Pause
  <2> QED BY <1>4, <2>1, UclampFacts DEF Pause, TypeOK, At, Calling, managerVars
<1>5. CASE PauseStore
  BY <1>5, SessionConstants DEF PauseStore, TypeOK, At, Calling, Raising, Closing, managerVars
<1>6. ASSUME NEW s \in Sessions, Resume(s) PROVE TypeOK'
  BY <1>6, SessionConstants DEF Resume, Reusing, TypeOK, At, Calling, Raising, managerVars
<1>7. CASE ResumeUclamp
  <2>1. binder.s \in Sessions /\ binder.min \in Nat /\ SetUclamp(binder.s, binder.min)
    BY <1>7 DEF ResumeUclamp, TypeOK, Calling, Raising
  <2> QED BY <1>7, <2>1, UclampFacts, SessionConstants
          DEF ResumeUclamp, TypeOK, At, Calling, Raising, Closing, managerVars
<1>8. ASSUME NEW s \in Sessions, Close(s) PROVE TypeOK'
  <2>1. queue' \in Seq(Envelopes)
    BY <1>8, Zenon DEF QueueFacts, Close, TypeOK, Handlers
  <2> QED BY <1>8, <2>1, Zenon DEF Close, TypeOK, At, Closing, Calling, managerVars
<1>9. CASE CloseUclamp
  <2>1. binder.s \in Sessions /\ SetUclamp(binder.s, 0)
    BY <1>9 DEF CloseUclamp, TypeOK, Calling, Closing
  <2> QED BY <1>9, <2>1, UclampFacts DEF CloseUclamp, TypeOK, At, Closing, Calling, managerVars
<1>10. CASE CloseUnregister
  <2>1. binder.s \in mSessions
    BY <1>10 DEF CloseUnregister, TypeOK, CallInv, Closing, Calling
  <2>2. mSessions' = mSessions \ {binder.s}
    BY <1>10 DEF CloseUnregister, RemovePowerSession
  <2> QED BY <1>10, <2>1, <2>2, SessionConstants
          DEF CloseUnregister, TypeOK, At, Calling, Raising, Closing, sessionVars
<1>11. ASSUME NEW s \in Sessions, Report(s) PROVE TypeOK'
  <2>1. queue' \in Seq(Envelopes)
    BY <1>0, <1>11, SessionConstants, ZenonT(30) DEF Report, UpdateStaleTimer, TypeOK, Handlers
  <2> QED BY <1>11, <2>1 DEF Report, Reusing, UpdateStaleTimer, TypeOK, At, Calling, Raising, managerVars
<1>12. CASE ReportDecide
  <2>1. binder.s \in Sessions /\ \A m \in LowLimit .. HighLimit : m \in Nat
    BY <1>12, SessionConstants DEF ReportDecide, TypeOK, Calling, Raising
  <2> QED BY <1>12, <2>1, SessionConstants
          DEF ReportDecide, TypeOK, Idle, At, Calling, Raising, Closing, managerVars, sessionVars
<1>13. CASE PollOnce
  <2>1. queue # <<>>
    BY <1>13 DEF PollOnce, IsDue
  <2>2. Head(queue).to \in Handlers /\ Tail(queue) \in Seq(Envelopes)
    BY <2>1, Zenon DEF QueueFacts, TypeOK
  <2> QED BY <1>13, <2>2, SessionConstants
          DEF PollOnce, TypeOK, At, Handlers, Checking, managerVars, sessionVars
<1>14. CASE StaleCheck
  <2>1. looper.s \in Sessions
    BY <1>14 DEF StaleCheck, Handling, TypeOK, Checking
  <2>2. ~PastStaleTime(looper.s) => StaleTime - age[looper.s] \in Nat
    BY <2>1, SessionConstants DEF PastStaleTime, TypeOK
  <2>3. queue' \in Seq(Envelopes)
    <3>1. \/ queue' = queue
          \/ /\ ~PastStaleTime(looper.s)
             /\ queue' = SendMessageDelayed(queue, looper.s, StaleTime - age[looper.s])
      BY <1>14 DEF StaleCheck
    <3>2. looper.s \in Handlers /\ queue \in Seq(Envelopes)
      BY <2>1 DEF Handlers, TypeOK
    <3> QED BY <1>0, <2>2, <3>1, <3>2, ZenonT(30)
  <2> QED BY <1>14, <2>1, <2>3, SessionConstants
          DEF StaleCheck, TypeOK, Idle, At, Checking, managerVars, sessionVars
<1>15. CASE SetStaleUclamp
  <2>1. looper.s \in Sessions /\ SetUclamp(looper.s, 0)
    BY <1>15 DEF SetStaleUclamp, Handling, TypeOK, Checking
  <2> QED BY <1>15, <2>1, UclampFacts DEF SetStaleUclamp, TypeOK, At, Checking, managerVars
<1>16. CASE SetStaleSend
  BY <1>0, <1>16, SessionConstants DEF SetStaleSend, TypeOK, Idle, At, Checking, managerVars
<1>20. ASSUME NEW s \in Sessions, Destroy(s) PROVE TypeOK'
  BY <1>20 DEF Destroy, TypeOK, managerVars
<1>21. CASE UseDestroyed
  BY <1>21 DEF UseDestroyed, CheckRuns, TypeOK, At, Checking, managerVars, sessionVars
<1>17. CASE ManagerCheck
  BY <1>17, SessionConstants DEF ManagerCheck, TypeOK, Idle, At, Checking, sessionVars
<1>18. CASE ManagerHint
  BY <1>18, SessionConstants DEF ManagerHint, TypeOK, Idle, At, Checking, sessionVars
<1>19. CASE Tick
  <2>1. queue' \in Seq(Envelopes)
    BY <1>19, Zenon DEF QueueFacts, Tick, TypeOK
  <2>2. age' \in [Sessions -> Nat]
    BY <1>19 DEF Tick, TypeOK
  <2> QED BY <1>19, <2>1, <2>2 DEF Tick, TypeOK, managerVars
<1> QED BY <1>1, <1>2, <1>3, <1>4, <1>5, <1>6, <1>7, <1>8, <1>9, <1>10, <1>11, <1>12, <1>13,
           <1>14, <1>15, <1>16, <1>17, <1>18, <1>19, <1>20, <1>21, Zenon
        DEF Next, ClientCall, BinderStep, MonitorStep

\* Every step keeps the registry, the life of the sessions and the call the
\* binder thread is in together.
LEMMA CallStep ==
  ASSUME IInv, Next
  PROVE  CallInv'
<1> USE SMT, Zenon, SMTT(30) DEF IInv, Raising, Closing, Calling, InUse, history, lateVars
<1>1. ASSUME NEW s \in Sessions, Create(s) PROVE CallInv'
  <2>1. mSessions' = mSessions \cup {s}
    BY <1>1 DEF Create, AddPowerSession
  <2> QED BY <1>1, <2>1 DEF Create, CallStarts, CallInv, TypeOK, At, Idle
<1>2. CASE UclampAndReturn
  BY <1>2 DEF UclampAndReturn, CallInv, TypeOK, Idle, At, managerVars
<1>3. CASE BoostModeAndReturn
  BY <1>3 DEF BoostModeAndReturn, CallInv, TypeOK, Idle, At, managerVars, sessionVars
<1>4. ASSUME NEW s \in Sessions, Pause(s) PROVE CallInv'
  BY <1>4 DEF Pause, Held, CallStarts, CallInv, TypeOK, At, Idle, managerVars
<1>5. CASE PauseStore
  BY <1>5 DEF PauseStore, CallInv, TypeOK, At, managerVars
<1>6. ASSUME NEW s \in Sessions, Resume(s) PROVE CallInv'
  BY <1>6 DEF Resume, Reusing, Held, CallStarts, CallInv, TypeOK, At, Idle, managerVars
<1>7. CASE ResumeUclamp
  BY <1>7 DEF ResumeUclamp, CallInv, TypeOK, At, managerVars
<1>8. ASSUME NEW s \in Sessions, Close(s) PROVE CallInv'
  BY <1>8 DEF Close, CallStarts, CallInv, TypeOK, At, Idle, managerVars
<1>9. CASE CloseUclamp
  BY <1>9 DEF CloseUclamp, CallInv, TypeOK, At, managerVars
<1>10. CASE CloseUnregister
  <2>1. mSessions' = mSessions \ {binder.s}
    BY <1>10 DEF CloseUnregister, RemovePowerSession
  <2> QED BY <1>10, <2>1 DEF CloseUnregister, CallInv, TypeOK, At, sessionVars
<1>11. ASSUME NEW s \in Sessions, Report(s) PROVE CallInv'
  BY <1>11 DEF Report, Reusing, Held, CallStarts, CallInv, TypeOK, At, Idle, managerVars
<1>12. CASE ReportDecide
  BY <1>12 DEF ReportDecide, CallInv, TypeOK, Idle, At, managerVars, sessionVars
<1>13. CASE MonitorStep \/ Tick
  <2>1. UNCHANGED <<mSessions, life, is_active, binder, reused>>
    BY <1>13, ZenonT(30) DEF MonitorStep, PollOnce, StaleCheck, SetStaleUclamp, SetStaleSend,
         UseDestroyed, ManagerCheck, ManagerHint, Tick, managerVars, sessionVars
  <2> QED BY <2>1 DEF CallInv
<1>14. ASSUME NEW s \in Sessions, Destroy(s) PROVE CallInv'
  BY <1>14 DEF Destroy, CallStarts, CallInv, TypeOK, At, Idle, managerVars
<1> QED BY <1>1, <1>2, <1>3, <1>4, <1>5, <1>6, <1>7, <1>8, <1>9, <1>10, <1>11, <1>12, <1>13, <1>14, Zenon
        DEF Next, ClientCall, BinderStep

\* What OneStaleCheck and TimerInv say of one session.
TimerOf(s) ==
  /\ life[s] = "open" => Checks(s) = (IF mIsMonitoringStale[s] THEN 1 ELSE 0)
  /\ life[s] = "closed" /\ Checks(s) > 0 => Checks(s) = 1 /\ mIsMonitoringStale[s]
  /\ life[s] \in {"closed", "destroyed"} /\ Checks(s) > 0 => s \in overtaken \cup reused
  /\ life[s] = "none" => Waiting(queue, s) = 0 /\ looper.s # s /\ ~mIsMonitoringStale[s]

\* Every step keeps one stale check per monitored session.
LEMMA TimerStep ==
  ASSUME QueueFacts, IInv, Next
  PROVE  TimerInv'
<1> USE SMT, Zenon, SMTT(30) DEF IInv, Checks, history, lateVars
<1> SUFFICES ASSUME NEW o \in Sessions PROVE TimerOf(o)'
  BY ZenonT(30) DEF TimerOf, TimerInv, OneStaleCheck
<1>a. TimerOf(o) /\ Waiting(queue, o) \in Nat
  BY Zenon DEF QueueFacts, TimerOf, TimerInv, OneStaleCheck, TypeOK, Handlers
<1>b. o # Manager /\ o # NoSession /\ Manager \in Handlers /\ o \in Handlers
  BY SessionConstants DEF Handlers
<1>c. \A q \in Seq(Envelopes), to \in Handlers, delay \in Nat :
        /\ o = to => Waiting(SendMessageDelayed(q, to, delay), o) = Waiting(q, o) + 1
        /\ o # to => Waiting(SendMessageDelayed(q, to, delay), o) = Waiting(q, o)
  <2> TAKE q \in Seq(Envelopes), to \in Handlers, delay \in Nat
  <2>1. /\ Waiting(SendMessageDelayed(q, to, delay), to) = Waiting(q, to) + 1
        /\ \A h \in Handlers \ {to} :
             Waiting(SendMessageDelayed(q, to, delay), h) = Waiting(q, h)
    BY ZenonT(30) DEF QueueFacts
  <2> QED BY <1>b, <2>1
<1>d. \A q \in Seq(Envelopes) : Waiting(SendMessage(q, Manager), o) = Waiting(q, o)
  BY <1>b, <1>c DEF SendMessage
<1>1. ASSUME NEW s \in Sessions, Create(s) PROVE TimerOf(o)'
  BY <1>a, <1>1 DEF Create, TimerOf, TypeOK
<1>2. CASE UclampAndReturn \/ PauseStore \/ ResumeUclamp \/ CloseUclamp \/ CloseUnregister
           \/ ReportDecide \/ ManagerHint
  <2>1. UNCHANGED <<life, queue, mIsMonitoringStale, overtaken, reused>> /\ looper'.s = looper.s
    BY <1>2, SessionConstants DEF UclampAndReturn, PauseStore, ResumeUclamp, CloseUclamp, CloseUnregister,
         ReportDecide, ManagerHint, sessionVars, TypeOK, Checking, Idle, At
  <2> QED BY <1>a, <2>1 DEF TimerOf
<1>3. CASE BoostModeAndReturn
  BY <1>a, <1>d, <1>3 DEF BoostModeAndReturn, TimerOf, TypeOK, sessionVars
<1>4. ASSUME NEW s \in Sessions, Pause(s) \/ Resume(s) PROVE TimerOf(o)'
  BY <1>a, <1>4 DEF Pause, Resume, Reusing, TimerOf
<1>5. ASSUME NEW s \in Sessions, Close(s) PROVE TimerOf(o)'
  <2>1. o # s => Waiting(queue', o) = Waiting(queue, o)
    <3>1. s \in Handlers /\ queue \in Seq(Envelopes) /\ queue' = RemoveMessages(queue, s)
      BY <1>5 DEF Close, TypeOK, Handlers
    <3> QED BY <1>b, <3>1 DEF QueueFacts
  <2>2. Waiting(queue', s) = 0
    BY <1>5, Zenon DEF QueueFacts, Close, TypeOK, Handlers
  <2>3. CASE o = s
    BY <1>a, <1>5, <2>2, <2>3 DEF Close, TimerOf, TypeOK
  <2>4. CASE o # s
    BY <1>a, <1>5, <2>1, <2>4 DEF Close, TimerOf, TypeOK
  <2> QED BY <2>3, <2>4
<1>6. ASSUME NEW s \in Sessions, Report(s) PROVE TimerOf(o)'
  <2> DEFINE woken == IF PastStaleTime(s) THEN SendMessage(queue, Manager) ELSE queue
  <2>1. woken \in Seq(Envelopes) /\ Waiting(woken, o) = Waiting(queue, o)
    BY <1>b, <1>d, Zenon DEF QueueFacts, SendMessage, TypeOK
  <2>2. queue' = IF mIsMonitoringStale[s] THEN woken ELSE SendMessageDelayed(woken, s, StaleTime)
    BY <1>6 DEF Report, UpdateStaleTimer
  <2> HIDE DEF woken
  <2>3. /\ o = s => Waiting(SendMessageDelayed(woken, s, StaleTime), o) = Waiting(woken, o) + 1
        /\ o # s => Waiting(SendMessageDelayed(woken, s, StaleTime), o) = Waiting(woken, o)
    <3>1. s \in Handlers /\ StaleTime \in Nat
      BY SessionConstants DEF Handlers
    <3> QED BY <1>c, <2>1, <3>1
  <2>4. /\ UNCHANGED <<life, looper, overtaken>> /\ life[s] \in {"open", "closed"}
        /\ reused' = IF life[s] = "closed" THEN reused \cup {s} ELSE reused
        /\ mIsMonitoringStale' = [mIsMonitoringStale EXCEPT ![s] = TRUE]
    BY <1>6 DEF Report, Held, Reusing, UpdateStaleTimer
  <2>5. CASE o = s
    BY <1>a, <2>1, <2>2, <2>3, <2>4, <2>5 DEF TimerOf, TypeOK
  <2>6. CASE o # s
    BY <1>a, <2>1, <2>2, <2>3, <2>4, <2>6 DEF TimerOf, TypeOK
  <2> QED BY <2>5, <2>6
<1>7. CASE PollOnce
  <2>1. queue # <<>> /\ queue \in Seq(Envelopes)
    BY <1>7 DEF PollOnce, IsDue, TypeOK
  <2>2. /\ Waiting(queue, o) = IF o = Head(queue).to THEN Waiting(Tail(queue), o) + 1
                                                     ELSE Waiting(Tail(queue), o)
        /\ Waiting(Tail(queue), o) \in Nat
    BY <1>b, <2>1, Zenon DEF QueueFacts
  <2>3. looper.s # o /\ (looper'.s = o <=> Head(queue).to = o)
    BY <1>7, <1>b DEF PollOnce, Idle, At
  <2> QED BY <1>a, <1>7, <2>2, <2>3 DEF PollOnce, TimerOf, sessionVars
<1>8. CASE StaleCheck
  <2>1. looper.s \in Sessions
    BY <1>8 DEF StaleCheck, Handling, TypeOK, Checking
  <2>2. CASE PastStaleTime(looper.s)
    BY <1>a, <1>8, <2>2 DEF StaleCheck, TimerOf, At, sessionVars
  <2>3. CASE ~PastStaleTime(looper.s)
    <3>1. StaleTime - age[looper.s] \in Nat
      BY <2>1, <2>3, SessionConstants DEF PastStaleTime, TypeOK
    <3>2. queue' = SendMessageDelayed(queue, looper.s, StaleTime - age[looper.s]) /\ looper' = Idle
      BY <1>8, <2>3 DEF StaleCheck
    <3>3. /\ o = looper.s => Waiting(queue', o) = Waiting(queue, o) + 1
          /\ o # looper.s => Waiting(queue', o) = Waiting(queue, o)
      <4>1. looper.s \in Handlers /\ queue \in Seq(Envelopes)
        BY <2>1 DEF Handlers, TypeOK
      <4> QED BY <1>c, <3>1, <3>2, <4>1
    <3>4. looper'.s # o
      BY <1>b, <3>2 DEF Idle, At
    <3> QED BY <1>a, <1>8, <3>3, <3>4 DEF StaleCheck, TimerOf, sessionVars
  <2> QED BY <2>2, <2>3
<1>9. CASE SetStaleUclamp
  BY <1>a, <1>9 DEF SetStaleUclamp, TimerOf, At
<1>10. CASE SetStaleSend
  <2>1. looper.s \in Sessions /\ looper'.s # o /\ Waiting(queue', o) = Waiting(queue, o)
    BY <1>b, <1>d, <1>10 DEF SetStaleSend, Handling, TypeOK, Checking, Idle, At
  <2>2. CASE o = looper.s
    BY <1>a, <1>10, <2>1, <2>2 DEF SetStaleSend, Handling, TimerOf, TypeOK
  <2>3. CASE o # looper.s
    BY <1>a, <1>10, <2>1, <2>3 DEF SetStaleSend, TimerOf, TypeOK
  <2> QED BY <2>2, <2>3
<1>11. CASE ManagerCheck
  <2>1. looper.s # o /\ looper'.s # o
    BY <1>b, <1>11 DEF ManagerCheck, TypeOK, Checking, Idle, At
  <2> QED BY <1>a, <1>11, <2>1 DEF ManagerCheck, TimerOf, sessionVars
<1>12. CASE Tick
  <2>1. Waiting(queue', o) = Waiting(queue, o)
    BY <1>b, <1>12, Zenon DEF QueueFacts, Tick, TypeOK
  <2> QED BY <1>a, <1>12, <2>1, ZenonT(30) DEF Tick, TimerOf
<1>13. ASSUME NEW s \in Sessions, Destroy(s) PROVE TimerOf(o)'
  BY <1>a, <1>13 DEF Destroy, TimerOf, TypeOK
<1>14. CASE UseDestroyed
  BY <1>a, <1>14 DEF UseDestroyed, TimerOf, At, sessionVars
<1> QED BY <1>1, <1>2, <1>3, <1>4, <1>5, <1>6, <1>7, <1>8, <1>9, <1>10, <1>11, <1>12, <1>13, <1>14, ZenonT(30)
        DEF Next, ClientCall, BinderStep, MonitorStep

\* Every step keeps the boosts where they belong.
LEMMA BoostStep ==
  ASSUME IInv, Next
  PROVE  BoostInv'
<1> USE SMT, Zenon, SMTT(30) DEF history, lateVars, clampVars
<1>0. TypeOK /\ CallInv /\ UtilInv /\ MinInv
  BY DEF IInv, BoostInv
<1>1. ASSUME NEW s \in Sessions, Create(s) PROVE BoostInv'
  <2>1. /\ binder.at = "idle" /\ binder'.at = "create_uclamp" /\ life[s] = "none"
        /\ UNCHANGED <<util, current_min, reused>>
    BY <1>1 DEF Create, CallStarts, Idle, At
  <2>2. \A o \in Sessions : /\ life[o] # "none" => life'[o] = life[o]
                            /\ is_active[o] => is_active'[o]
    BY <1>0, <1>1 DEF Create, TypeOK
  <2>3. UtilInv'
    BY <1>0, <2>1, <2>2, KeepUtil
  <2>4. \A o \in Sessions : InUse(o) => InUse(o)'
    BY <2>1, <2>2 DEF InUse
  <2>5. MinInv'
    BY <1>0, <2>1, <2>2, <2>4, KeepMin
  <2> QED BY <2>3, <2>5 DEF BoostInv
<1>2. CASE UclampAndReturn \/ ResumeUclamp
  <2>1. /\ SetUclamp(binder.s, binder.min) /\ binder.at \in Raising
        /\ binder'.at \in {"idle", "boost_mode"} /\ UNCHANGED <<life, is_active, reused>>
    BY <1>2 DEF UclampAndReturn, ResumeUclamp, Raising, Idle, At
  <2>2. binder.s \in Sessions /\ binder.min \in Nat
    BY <1>0, <2>1 DEF TypeOK, Calling
  <2>3. InUse(binder.s) /\ is_active[binder.s]
    BY <1>0, <2>1 DEF CallInv
  <2>4. UtilInv'
    BY <1>0, <2>1, <2>2, SetUtil
  <2>5. MinInv'
    <3> SUFFICES ASSUME NEW o \in Sessions, current_min'[o] > 0
                 PROVE  InUse(o) /\ is_active[o]
      BY <2>1 DEF MinInv, InUse
    <3>1. CASE o # binder.s
      <4>1. current_min[o] > 0
        BY <1>0, <2>1, <2>2, <3>1, UclampFacts
      <4>2. binder # At("close_uclamp", o, 0)
        BY <2>1 DEF At, Raising
      <4> QED BY <1>0, <4>1, <4>2 DEF MinInv
    <3> QED BY <2>3, <3>1
  <2> QED BY <2>4, <2>5 DEF BoostInv
<1>3. CASE BoostModeAndReturn \/ ReportDecide \/ CloseUnregister
  <2>1. /\ binder.at \in {"boost_mode", "report_decide", "close_unregister"}
        /\ binder'.at \in {"idle", "report_uclamp", "boost_mode"}
        /\ UNCHANGED <<util, current_min, life, is_active, reused>>
    <3>1. CASE BoostModeAndReturn
      BY <3>1 DEF BoostModeAndReturn, Idle, At, sessionVars
    <3>2. CASE ReportDecide
      BY <3>2 DEF ReportDecide, Idle, At, sessionVars
    <3>3. CASE CloseUnregister
      BY <3>3 DEF CloseUnregister, At, sessionVars
    <3> QED BY <1>3, <3>1, <3>2, <3>3
  <2>2. UtilInv'
    BY <1>0, <2>1, KeepUtil
  <2>3. MinInv'
    BY <1>0, <2>1, KeepMin DEF InUse
  <2> QED BY <2>2, <2>3 DEF BoostInv
<1>4. ASSUME NEW s \in Sessions, Pause(s) PROVE BoostInv'
  <2>1. /\ SetUclamp(s, 0) /\ binder = Idle /\ binder' = At("pause_store", s, 0)
        /\ UNCHANGED <<life, is_active, reused>>
    BY <1>4 DEF Pause, CallStarts
  <2>2. binder.at = "idle" /\ binder'.at = "pause_store" /\ binder'.s = s
    BY <2>1 DEF Idle, At
  <2>3. UtilInv'
    BY <1>0, <2>1, SetUtil
  <2>4. MinInv'
    BY <1>0, <2>1, <2>2, ResetMin
  <2> QED BY <2>3, <2>4 DEF BoostInv
<1>5. CASE PauseStore
  <2>1. /\ binder.at = "pause_store" /\ binder'.at = "boost_mode"
        /\ UNCHANGED <<util, current_min, life, reused>>
    BY <1>5 DEF PauseStore, At
  <2>2. \A o \in Sessions : is_active[o] /\ binder.s # o => is_active'[o]
    BY <1>0, <1>5 DEF PauseStore, TypeOK
  <2>3. UtilInv'
    BY <1>0, <2>1, KeepUtil
  <2>4. MinInv'
    BY <1>0, <2>1, <2>2, KeepMin DEF InUse
  <2> QED BY <2>3, <2>4 DEF BoostInv
<1>6. ASSUME NEW s \in Sessions, Resume(s) \/ Report(s) PROVE BoostInv'
  <2>1. /\ binder.at = "idle" /\ binder'.at \in {"resume_uclamp", "report_decide"}
        /\ UNCHANGED <<util, current_min, life>> /\ reused \subseteq reused'
    BY <1>6 DEF Resume, Report, Reusing, CallStarts, Idle, At
  <2>2. \A o \in Sessions : is_active[o] => is_active'[o]
    BY <1>0, <1>6, Zenon DEF Resume, Report, TypeOK
  <2>3. UtilInv'
    BY <1>0, <2>1, KeepUtil
  <2>4. MinInv'
    BY <1>0, <2>1, <2>2, KeepMin DEF InUse
  <2> QED BY <2>3, <2>4 DEF BoostInv
<1>7. ASSUME NEW s \in Sessions, Close(s) PROVE BoostInv'
  <2>1. /\ binder = Idle /\ binder' = At("close_uclamp", s, 0) /\ life[s] = "open"
        /\ UNCHANGED <<util, current_min, is_active, reused>>
    BY <1>7 DEF Close, CallStarts
  <2>2. binder.at = "idle" /\ binder'.at = "close_uclamp"
    BY <2>1 DEF Idle, At
  <2>3. \A o \in Sessions : o # s => life'[o] = life[o]
    BY <1>0, <1>7 DEF Close, TypeOK
  <2>4. UtilInv'
    BY <1>0, <2>1, <2>3, KeepUtil
  <2>5. MinInv'
    <3> SUFFICES ASSUME NEW o \in Sessions, current_min[o] > 0
                 PROVE  is_active[o] /\ (InUse(o)' \/ o = s)
      BY <2>1, <2>2 DEF MinInv
    <3>1. binder # At("close_uclamp", o, 0)
      BY <2>2 DEF At
    <3>2. is_active[o] /\ InUse(o)
      BY <1>0, <3>1 DEF MinInv
    <3> QED BY <2>1, <2>3, <3>2 DEF InUse
  <2> QED BY <2>4, <2>5 DEF BoostInv
<1>8. CASE CloseUclamp
  <2>1. /\ SetUclamp(binder.s, 0) /\ binder.at = "close_uclamp"
        /\ binder'.at = "close_unregister" /\ binder'.s = binder.s
        /\ UNCHANGED <<life, is_active, reused>>
    BY <1>8 DEF CloseUclamp, At
  <2>2. binder.s \in Sessions
    BY <1>0, <2>1 DEF TypeOK, Calling, Closing
  <2>3. UtilInv'
    BY <1>0, <2>1, <2>2, SetUtil
  <2>4. MinInv'
    BY <1>0, <2>1, <2>2, ResetMin
  <2> QED BY <2>3, <2>4 DEF BoostInv
<1>9. ASSUME NEW s \in Sessions, Destroy(s) PROVE BoostInv'
  <2>1. /\ binder = Idle /\ binder' = binder /\ life[s] = "closed" /\ life'[s] = "destroyed"
        /\ UNCHANGED <<util, reused>> /\ current_min'[s] = 0
        /\ \A o \in Sessions \ {s} : /\ life'[o] = life[o] /\ is_active'[o] = is_active[o]
                                    /\ current_min'[o] = current_min[o]
    BY <1>0, <1>9 DEF Destroy, CallStarts, TypeOK
  <2>2. current_min[s] > 0 => s \in reused
    <3>1. binder # At("close_uclamp", s, 0)
      BY <2>1 DEF Idle, At
    <3> QED BY <1>0, <2>1, <3>1 DEF MinInv, InUse
  <2>3. UtilInv'
    <3> SUFFICES ASSUME NEW t \in Tids, util[t] > 0
                 PROVE  \E o \in Sessions : Accounts(o, t)'
      BY <2>1 DEF UtilInv
    <3>1. PICK o \in Sessions : Accounts(o, t)
      BY <1>0 DEF UtilInv
    <3>2. CASE o = s
      <4>1. t \in Range(TidsOf[s]) /\ current_min[s] > 0
        BY <2>1, <3>1, <3>2 DEF Accounts
      <4>2. Accounts(s, t)'
        BY <2>1, <2>2, <4>1 DEF Accounts
      <4> QED BY <4>2
    <3>3. CASE o # s
      <4>1. Accounts(o, t)'
        BY <2>1, <3>1, <3>3 DEF Accounts
      <4> QED BY <4>1
    <3> QED BY <3>2, <3>3
  <2>4. MinInv'
    <3> SUFFICES ASSUME NEW o \in Sessions \ {s}, current_min[o] > 0
                 PROVE  /\ is_active[o] /\ ~(binder.at = "pause_store" /\ binder.s = o)
                        /\ InUse(o) \/ binder = At("close_uclamp", o, 0)
      BY <2>1 DEF MinInv, InUse
    <3> QED BY <1>0 DEF MinInv
  <2> QED BY <2>3, <2>4 DEF BoostInv
<1>10. CASE SetStaleUclamp
  <2>1. /\ SetUclamp(looper.s, 0) /\ looper.at \in Checking
        /\ UNCHANGED <<life, is_active, binder, reused>>
    BY <1>10 DEF SetStaleUclamp, Handling, Checking
  <2>2. looper.s \in Sessions
    BY <1>0, <2>1 DEF TypeOK
  <2>3. UtilInv'
    BY <1>0, <2>1, <2>2, SetUtil
  <2>4. MinInv'
    BY <1>0, <2>1, <2>2, ResetMin
  <2> QED BY <2>3, <2>4 DEF BoostInv
<1>11. CASE PollOnce \/ StaleCheck \/ SetStaleSend \/ UseDestroyed \/ ManagerCheck
            \/ ManagerHint \/ Tick
  <2>1. UNCHANGED <<life, is_active, binder, util, current_min, reused>>
    BY <1>11, ZenonT(30) DEF PollOnce, StaleCheck, SetStaleSend, UseDestroyed, ManagerCheck,
         ManagerHint, Tick, sessionVars
  <2>2. UtilInv'
    BY <1>0, <2>1 DEF UtilInv, Accounts
  <2>3. MinInv'
    BY <1>0, <2>1 DEF MinInv, InUse
  <2> QED BY <2>2, <2>3 DEF BoostInv
<1> QED BY <1>1, <1>2, <1>3, <1>4, <1>5, <1>6, <1>7, <1>8, <1>9, <1>10, <1>11, ZenonT(30)
        DEF Next, ClientCall, BinderStep, MonitorStep


\* addPowerSession keeps the counts right.
LEMMA AddCounts ==
  ASSUME ListFacts, TypeOK, CountInv, NEW s \in Sessions, s \notin mSessions, AddPowerSession(s)
  PROVE  CountInv'
<1> USE SMT, Zenon, SMTT(30)
<1> DEFINE map == mTidRefCountMap
           old == DOMAIN map
<1>1. PICK bad \in IF ProfilesMayFail THEN SUBSET DOMAIN TidsOf[s] ELSE {{}} :
        LET new == {t \in Tids \ old : Counted(s, t, bad) # {}}
            more == [t \in Tids |-> Cardinality(Counted(s, t, bad))]
        IN  /\ map' = [t \in old \cup new |-> IF t \in new THEN more[t]
                                              ELSE IF map[t] <= 0 THEN map[t]
                                              ELSE map[t] + more[t]]
            /\ resetGrp' = resetGrp \cup new
            /\ mSessions' = mSessions \cup {s}
  BY Zenon DEF AddPowerSession
<1> DEFINE e(t) == Cardinality(Entries(s, t))
           c(t) == Cardinality(Counted(s, t, bad))
           new == {t \in Tids \ old : Counted(s, t, bad) # {}}
<1>2. /\ DOMAIN map' = old \cup new /\ resetGrp' = resetGrp \cup new
      /\ \A t \in new : map'[t] = c(t)
      /\ \A t \in old : map[t] > 0 => map'[t] = map[t] + c(t)
  <2>1. old \in SUBSET Tids /\ old \cap new = {}
    BY DEF CountInv
  <2>2. ASSUME NEW t \in old PROVE map[t] \in Int
    <3>1. map[t] \in 1 .. Listed(t)
      BY DEF CountInv, RefCountBounded
    <3> QED BY <3>1
  <2>3. /\ map' = [t \in old \cup new |-> IF t \in new THEN c(t)
                                          ELSE IF map[t] <= 0 THEN map[t]
                                          ELSE map[t] + c(t)]
        /\ resetGrp' = resetGrp \cup new
    BY <1>1, <2>1
  <2> HIDE DEF c, new
  <2>4. DOMAIN map' = old \cup new
    BY <2>3
  <2>5. ASSUME NEW t \in new PROVE map'[t] = c(t)
    BY <2>3
  <2>6. ASSUME NEW t \in old, map[t] > 0 PROVE map'[t] = map[t] + c(t)
    <3>1. t \in old \cup new /\ t \notin new /\ ~(map[t] <= 0)
      BY <2>1, <2>2, <2>6
    <3> QED BY <2>3, <3>1
  <2> QED BY <2>3, <2>4, <2>5, <2>6
<1>3. ASSUME NEW t
      PROVE  Listed(t) \in Nat /\ e(t) \in Nat /\ Listed(t)' = Listed(t) + e(t)
  <2>1. Listed(t) = Cardinality(Listings(mSessions, t))
    BY DEF Listed, Listings
  <2>2. Listed(t)' = Cardinality(Listings(mSessions \cup {s}, t))
    BY <1>1 DEF Listed, Listings
  <2>3. mSessions \in SUBSET Sessions /\ s \in Sessions \ mSessions
    BY DEF TypeOK
  <2>4. Listed(t) \in Nat
    BY <2>1, <2>3, Zenon DEF ListFacts
  <2>5. e(t) \in Nat
    BY Zenon DEF ListFacts
  <2>6. Listed(t)' = Listed(t) + e(t)
    BY <2>1, <2>2, <2>3, Zenon DEF ListFacts
  <2> QED BY <2>4, <2>5, <2>6
<1>4. ASSUME NEW t
      PROVE  /\ c(t) \in 0 .. e(t) /\ (Counted(s, t, bad) # {} => c(t) > 0)
             /\ t \in old => c(t) = e(t)
             /\ ~ProfilesMayFail => c(t) = e(t) /\ (e(t) > 0 => Counted(s, t, bad) # {})
  <2>1. Counted(s, t, bad) \in SUBSET Entries(s, t)
    BY DEF Counted
  <2>2. e(t) \in Nat /\ c(t) \in 0 .. e(t)
    BY <2>1, Zenon DEF ListFacts
  <2>3. Entries(s, t) \in SUBSET Entries(s, t)
    BY Zenon
  <2>4. c(t) = 0 <=> Counted(s, t, bad) = {}
    BY <2>1, Zenon DEF ListFacts
  <2>5. t \in old => Counted(s, t, bad) = Entries(s, t)
    BY DEF Counted
  <2>6. ~ProfilesMayFail => Counted(s, t, bad) = Entries(s, t)
    <3> SUFFICES ASSUME ~ProfilesMayFail PROVE Counted(s, t, bad) = Entries(s, t)
      OBVIOUS
    <3>1. bad = {}
      BY <1>1
    <3>2. \A i \in Entries(s, t) : i <= i
      <4>1. TidsOf[s] \in Seq(Tids)
        BY ManagerConstants
      <4> QED BY <4>1 DEF Entries
    <3> QED BY <3>1, <3>2, Zenon DEF Counted
  <2>7. e(t) = 0 <=> Entries(s, t) = {}
    BY <2>3, Zenon DEF ListFacts
  <2> QED BY <2>2, <2>4, <2>5, <2>6, <2>7
<1> HIDE DEF e, c, new, map
<1>5. RefCountBounded'
  <2> SUFFICES ASSUME NEW t \in DOMAIN map' PROVE map'[t] \in 1 .. Listed(t)'
    BY DEF RefCountBounded, map
  <2>1. CASE t \in new
    BY <1>2, <1>3, <1>4, <2>1 DEF new
  <2>2. CASE t \in old
    <3>1. map[t] \in 1 .. Listed(t)
      BY <2>2 DEF CountInv, RefCountBounded, map
    <3>2. map'[t] = map[t] + c(t)
      BY <1>2, <2>2, <3>1
    <3>3. c(t) = e(t) /\ e(t) \in Nat /\ Listed(t) \in Nat /\ Listed(t)' = Listed(t) + e(t)
      BY <1>3, <1>4, <2>2, Zenon
    <3> HIDE DEF old
    <3> QED BY <3>1, <3>2, <3>3
  <2> QED BY <1>2, <2>1, <2>2
<1>6. RefCountExact'
  <2> SUFFICES ASSUME ~ProfilesMayFail
               PROVE  /\ \A t \in Tids : IF Listed(t)' = 0 THEN t \notin DOMAIN map'
                                         ELSE t \in DOMAIN map' /\ map'[t] = Listed(t)'
                      /\ resetGrp' = DOMAIN map'
    BY DEF RefCountExact, map
  <2>1. resetGrp' = DOMAIN map'
    BY <1>2 DEF CountInv, RefCountExact, map
  <2>2. ASSUME NEW t \in Tids
        PROVE  IF Listed(t)' = 0 THEN t \notin DOMAIN map'
               ELSE t \in DOMAIN map' /\ map'[t] = Listed(t)'
    <3>1. IF Listed(t) = 0 THEN t \notin old ELSE t \in old /\ map[t] = Listed(t)
      BY DEF CountInv, RefCountExact, map
    <3>2. t \in new <=> t \notin old /\ Counted(s, t, bad) # {}
      BY DEF new
    <3>3. c(t) = e(t) /\ (Counted(s, t, bad) # {} <=> e(t) > 0)
      BY <1>3, <1>4
    <3> QED BY <1>2, <1>3, <3>1, <3>2, <3>3
  <2> QED BY <2>1, <2>2
<1>7. DOMAIN map' \in SUBSET Tids
  BY <1>2 DEF new, CountInv, map
<1> QED BY <1>5, <1>6, <1>7 DEF CountInv, map

\* So does removePowerSession.
LEMMA RemoveCounts ==
  ASSUME ListFacts, TypeOK, CountInv, NEW s \in mSessions, RemovePowerSession(s)
  PROVE  CountInv'
<1> USE SMT, Zenon, SMTT(30)
<1> DEFINE map == mTidRefCountMap
           e(t) == Cardinality(Entries(s, t))
           left == [t \in DOMAIN map |-> map[t] - e(t)]
           gone == {t \in DOMAIN map : Entries(s, t) # {} /\ left[t] <= 0}
<1>1. /\ map' = [t \in DOMAIN map \ gone |-> left[t]]
      /\ \E bad \in IF ProfilesMayFail THEN SUBSET gone ELSE {{}} : resetGrp' = resetGrp \ (gone \ bad)
      /\ mSessions' = mSessions \ {s}
  BY Zenon DEF RemovePowerSession
<1>2. DOMAIN map' = DOMAIN map \ gone /\ \A t \in DOMAIN map' : map'[t] = map[t] - e(t)
  BY <1>1
<1>3. ASSUME NEW t
      PROVE  /\ e(t) \in Nat /\ Listed(t)' \in Nat /\ Listed(t) = Listed(t)' + e(t)
             /\ Entries(s, t) = {} <=> e(t) = 0
  <2>1. Listed(t) = Cardinality(Listings(mSessions, t))
    BY DEF Listed, Listings
  <2>2. Listed(t)' = Cardinality(Listings(mSessions \ {s}, t))
    BY <1>1 DEF Listed, Listings
  <2>3. mSessions \ {s} \in SUBSET Sessions /\ s \in Sessions /\ s \notin mSessions \ {s}
    BY DEF TypeOK
  <2>4. mSessions = (mSessions \ {s}) \cup {s}
    OBVIOUS
  <2>5. Listed(t) = Cardinality(Listings((mSessions \ {s}) \cup {s}, t))
    BY <2>1, <2>4
  <2>6. Listed(t)' \in Nat
    BY <2>2, <2>3, Zenon DEF ListFacts
  <2>7. e(t) \in Nat /\ (Entries(s, t) = {} <=> e(t) = 0)
    <3>1. Entries(s, t) \in SUBSET Entries(s, t)
      BY Zenon
    <3> QED BY <2>3, <3>1, Zenon DEF ListFacts
  <2>8. Listed(t) = Listed(t)' + e(t)
    BY <2>2, <2>3, <2>5, Zenon DEF ListFacts
  <2> QED BY <2>6, <2>7, <2>8
<1>4. \A t \in DOMAIN map : t \in gone <=> e(t) # 0 /\ map[t] - e(t) <= 0
  BY <1>3
<1>5. ~ProfilesMayFail => resetGrp' = resetGrp \ gone
  BY <1>1
<1> HIDE DEF e, gone, map
<1>6. RefCountBounded'
  <2> SUFFICES ASSUME NEW t \in DOMAIN map' PROVE map'[t] \in 1 .. Listed(t)'
    BY DEF RefCountBounded, map
  <2>1. map[t] \in 1 .. Listed(t)
    BY <1>2 DEF CountInv, RefCountBounded, map
  <2> QED BY <1>2, <1>3, <1>4, <2>1
<1>7. RefCountExact'
  <2> SUFFICES ASSUME ~ProfilesMayFail
               PROVE  /\ \A t \in Tids : IF Listed(t)' = 0 THEN t \notin DOMAIN map'
                                         ELSE t \in DOMAIN map' /\ map'[t] = Listed(t)'
                      /\ resetGrp' = DOMAIN map'
    BY DEF RefCountExact, map
  <2>1. resetGrp' = DOMAIN map'
    BY <1>2, <1>5 DEF CountInv, RefCountExact, map
  <2>2. ASSUME NEW t \in Tids
        PROVE  IF Listed(t)' = 0 THEN t \notin DOMAIN map'
               ELSE t \in DOMAIN map' /\ map'[t] = Listed(t)'
    <3>1. IF Listed(t) = 0 THEN t \notin DOMAIN map ELSE t \in DOMAIN map /\ map[t] = Listed(t)
      BY DEF CountInv, RefCountExact, map
    <3> QED BY <1>2, <1>3, <1>4, <3>1
  <2> QED BY <2>1, <2>2
<1>8. DOMAIN map' \in SUBSET Tids
  BY <1>2 DEF CountInv, map
<1> QED BY <1>6, <1>7, <1>8 DEF CountInv, map

\* Every step keeps the reference counts.
LEMMA CountStep ==
  ASSUME ListFacts, IInv, Next
  PROVE  CountInv'
<1> USE SMT, Zenon, SMTT(30) DEF IInv
<1>1. ASSUME NEW s \in Sessions, Create(s) PROVE CountInv'
  <2>1. s \notin mSessions
    BY <1>1 DEF Create, CallStarts, CallInv, Idle, At, Closing
  <2> QED BY <1>1, <2>1, AddCounts DEF Create
<1>2. CASE CloseUnregister
  <2>1. binder.s \in mSessions
    BY <1>2 DEF CloseUnregister, TypeOK, CallInv, Closing, Calling
  <2> QED BY <1>2, <2>1, RemoveCounts DEF CloseUnregister
<1>3. ASSUME UNCHANGED <<mSessions, mTidRefCountMap, resetGrp>> PROVE CountInv'
  BY <1>3 DEF CountInv, RefCountBounded, RefCountExact, Listed
<1>4. ASSUME NEW s \in Sessions, Pause(s) \/ Resume(s) \/ Close(s) \/ Report(s)
                                    \/ Destroy(s) PROVE CountInv'
  BY <1>3, <1>4, ZenonT(30) DEF Pause, Resume, Close, Report, Destroy, managerVars
<1>5. CASE UclampAndReturn \/ BoostModeAndReturn \/ PauseStore \/ ResumeUclamp \/ CloseUclamp
           \/ ReportDecide
  BY <1>3, <1>5, ZenonT(30) DEF UclampAndReturn, BoostModeAndReturn, PauseStore, ResumeUclamp, CloseUclamp,
                    ReportDecide, managerVars
<1>6. CASE MonitorStep \/ Tick
  BY <1>3, <1>6, ZenonT(30) DEF MonitorStep, PollOnce, StaleCheck, SetStaleUclamp, SetStaleSend,
                    UseDestroyed, ManagerCheck, ManagerHint, Tick, managerVars
<1> QED BY <1>1, <1>2, <1>4, <1>5, <1>6, ZenonT(30) DEF Next, ClientCall, BinderStep
-----------------------------------------------------------------------------
\* The theorems about finite sets, for what follows: counting the envelopes in
\* the queue and the entries of the thread lists.
INSTANCE FiniteSetTheorems

\* Two sets with a bijection between them have the same number of elements.
LEMMA SameSize ==
  ASSUME NEW S, IsFiniteSet(S), NEW T, NEW f \in [S -> T],
         \A a, b \in S : f[a] = f[b] => a = b,
         \A t \in T : \E a \in S : f[a] = t
  PROVE  IsFiniteSet(T) /\ Cardinality(T) = Cardinality(S)
<1>1. f \in Bijection(S, T)
  BY Zenon DEF Bijection, Injection, Surjection, IsInjective
<1>2. ExistsBijection(S, T)
  BY <1>1, Zenon DEF ExistsBijection
<1> QED BY <1>2, FS_Bijection, Zenon


\* A queue has finitely many positions, and so few envelopes for a handler.
LEMMA Positions ==
  ASSUME NEW q \in Seq(Envelopes)
  PROVE  /\ Len(q) \in Nat /\ DOMAIN q = 1 .. Len(q)
         /\ \A i \in DOMAIN q : q[i] \in Envelopes
         /\ \A P \in SUBSET DOMAIN q : IsFiniteSet(P) /\ Cardinality(P) \in 0 .. Len(q)
<1>1. Len(q) \in Nat /\ DOMAIN q = 1 .. Len(q)
  OBVIOUS
<1>2. IsFiniteSet(1 .. Len(q)) /\ Cardinality(1 .. Len(q)) = Len(q)
  BY <1>1, FS_Interval, SMTT(30)
<1>3. ASSUME NEW P \in SUBSET DOMAIN q
      PROVE  IsFiniteSet(P) /\ Cardinality(P) \in 0 .. Len(q)
  <2>1. IsFiniteSet(P) /\ Cardinality(P) <= Len(q)
    BY <1>1, <1>2, FS_Subset
  <2>2. Cardinality(P) \in Nat
    BY <2>1, FS_CardinalityType
  <2> QED BY <1>1, <2>1, <2>2
<1>4. \A i \in DOMAIN q : q[i] \in Envelopes
  OBVIOUS
<1> QED BY <1>1, <1>3, <1>4

\* A message that is sent is one envelope more for its handler, and none more
\* for the others.
LEMMA SendCount ==
  ASSUME NEW q \in Seq(Envelopes), NEW to \in Handlers, NEW delay \in Nat, NEW h
  PROVE  /\ SendMessageDelayed(q, to, delay) \in Seq(Envelopes)
         /\ h = to => Waiting(SendMessageDelayed(q, to, delay), h) = Waiting(q, h) + 1
         /\ h # to => Waiting(SendMessageDelayed(q, to, delay), h) = Waiting(q, h)
<1> DEFINE before == Cardinality({i \in DOMAIN q : q[i].left <= delay})
           n == Len(q)
           r == SendMessageDelayed(q, to, delay)
           W == {i \in DOMAIN q : q[i].to = h}
           V == {i \in DOMAIN r : r[i].to = h}
           f == [i \in W |-> IF i <= before THEN i ELSE i + 1]
<1>1. n \in Nat /\ DOMAIN q = 1 .. n /\ before \in 0 .. n
  BY Positions
<1>2. r = [i \in 1 .. n + 1 |-> IF i <= before THEN q[i]
                                ELSE IF i = before + 1 THEN Envelope(to, delay)
                                ELSE q[i - 1]]
  BY DEF SendMessageDelayed
<1>3. IsFiniteSet(W) /\ Cardinality(W) \in Nat
  BY Positions
<1> HIDE DEF before, n, r
<1>4. \A i \in 1 .. n : q[i] \in Envelopes
  BY <1>1
<1>5. Envelope(to, delay) \in Envelopes
  BY DEF Envelope, Envelopes
<1>6. \A i \in 1 .. n + 1 : r[i] \in Envelopes
  BY <1>1, <1>2, <1>4, <1>5
<1>7. r \in Seq(Envelopes)
  BY <1>1, <1>2, <1>6
<1>8. DOMAIN r = 1 .. n + 1
  BY <1>2
<1>9. /\ \A i \in 1 .. n : i <= before => r[i] = q[i]
      /\ \A i \in 1 .. n : ~(i <= before) => r[i + 1] = q[i]
      /\ r[before + 1].to = to
  BY <1>1, <1>2 DEF Envelope
<1>10. f \in [W -> V \ {before + 1}]
  BY <1>1, <1>8, <1>9
<1>11. \A a, b \in W : f[a] = f[b] => a = b
  BY <1>1
<1>12. \A v \in V \ {before + 1} : \E a \in W : f[a] = v
  <2> TAKE v \in V \ {before + 1}
  <2>1. v \in 1 .. n + 1 /\ v # before + 1 /\ r[v].to = h
    BY <1>8
  <2>2. CASE v <= before
    BY <1>1, <1>9, <2>1, <2>2
  <2>3. CASE ~(v <= before)
    <3>1. v - 1 \in 1 .. n /\ ~(v - 1 <= before) /\ (v - 1) + 1 = v
      BY <1>1, <2>1, <2>3
    <3>2. q[v - 1].to = h
      BY <1>9, <2>1, <3>1
    <3>3. v - 1 \in W /\ f[v - 1] = v
      BY <1>1, <3>1, <3>2
    <3> QED BY <3>3
  <2> QED BY <2>2, <2>3
<1>13. IsFiniteSet(V \ {before + 1}) /\ Cardinality(V \ {before + 1}) = Cardinality(W)
  <2> HIDE DEF W, V, f
  <2> QED BY <1>3, <1>10, <1>11, <1>12, SameSize
<1>14. Cardinality(V) = Cardinality(W) + (IF h = to THEN 1 ELSE 0)
  <2>1. before + 1 \in V <=> h = to
    BY <1>1, <1>8, <1>9
  <2>2. CASE h = to
    <3>1. V = (V \ {before + 1}) \cup {before + 1}
      BY <2>1, <2>2
    <3> HIDE DEF V, W
    <3>2. Cardinality(V) = Cardinality(V \ {before + 1}) + 1
      BY <1>13, <3>1, FS_AddElement, Zenon
    <3> QED BY <1>13, <2>2, <3>2
  <2>3. CASE h # to
    <3>1. V = V \ {before + 1}
      BY <2>1, <2>3
    <3>2. Cardinality(V) = Cardinality(W)
      BY <1>13, <3>1, Zenon
    <3> HIDE DEF V, W
    <3> QED BY <1>3, <2>3, <3>2
  <2> QED BY <2>2, <2>3
<1>15. h = to => Cardinality(V) = Cardinality(W) + 1
  BY <1>14
<1>16. h # to => Cardinality(V) = Cardinality(W)
  <2> HIDE DEF V, W
  <2> QED BY <1>3, <1>14
<1> QED BY <1>7, <1>15, <1>16, Zenon DEF Waiting, r

\* The monitor thread takes the first envelope: one less for its handler.
LEMMA TailCount ==
  ASSUME NEW q \in Seq(Envelopes), q # <<>>, NEW h
  PROVE  /\ Head(q).to \in Handlers /\ Tail(q) \in Seq(Envelopes)
         /\ Waiting(q, h) = Waiting(Tail(q), h) + (IF h = Head(q).to THEN 1 ELSE 0)
         /\ Waiting(Tail(q), h) \in Nat
<1> DEFINE n == Len(q)
           r == Tail(q)
           W == {i \in DOMAIN q : q[i].to = h}
           V == {i \in DOMAIN r : r[i].to = h}
           f == [i \in V |-> i + 1]
<1>1. n \in Nat /\ n > 0 /\ DOMAIN q = 1 .. n
  OBVIOUS
<1>2. Len(r) = n - 1 /\ r \in Seq(Envelopes) /\ \A i \in 1 .. n - 1 : r[i] = q[i + 1]
  OBVIOUS
<1>3. DOMAIN r = 1 .. n - 1
  BY <1>2
<1>4. IsFiniteSet(V) /\ Cardinality(V) \in Nat
  BY <1>2, Positions
<1>5. Head(q) = q[1] /\ q[1].to \in Handlers
  <2>1. q[1] \in Envelopes
    BY <1>1, Positions
  <2> QED BY <2>1 DEF Envelopes
<1> HIDE DEF n, r
<1>6. f \in [V -> W \ {1}]
  BY <1>1, <1>2, <1>3
<1>7. \A a, b \in V : f[a] = f[b] => a = b
  BY <1>3
<1>8. \A w \in W \ {1} : \E a \in V : f[a] = w
  <2> TAKE w \in W \ {1}
  <2>1. w - 1 \in 1 .. n - 1 /\ (w - 1) + 1 = w
    BY <1>1
  <2>2. w - 1 \in V /\ f[w - 1] = w
    BY <1>2, <1>3, <2>1
  <2> QED BY <2>2
<1>9. 1 \in W <=> h = Head(q).to
  BY <1>1, <1>5
<1>10. IsFiniteSet(W \ {1}) /\ Cardinality(W \ {1}) = Cardinality(V)
  <2> HIDE DEF W, V, f
  <2> QED BY <1>4, <1>6, <1>7, <1>8, SameSize
<1>11. Cardinality(W) = Cardinality(V) + (IF h = Head(q).to THEN 1 ELSE 0)
  <2>2. CASE h = Head(q).to
    <3>1. W = (W \ {1}) \cup {1}
      BY <1>9, <2>2
    <3> HIDE DEF V, W
    <3>2. Cardinality(W) = Cardinality(W \ {1}) + 1
      BY <1>10, <3>1, FS_AddElement, Zenon
    <3> QED BY <1>10, <2>2, <3>2
  <2>3. CASE h # Head(q).to
    <3>1. W = W \ {1}
      BY <1>9, <2>3
    <3>2. Cardinality(V) = Cardinality(W)
      BY <1>10, <3>1, Zenon
    <3> HIDE DEF V, W
    <3> QED BY <1>4, <2>3, <3>2
  <2> QED BY <2>2, <2>3
<1> QED BY <1>2, <1>4, <1>5, <1>11, Zenon DEF Waiting, r

\* The envelopes that are not removed keep their number; the handler whose
\* envelopes are removed has none left.
LEMMA RemoveCount ==
  ASSUME NEW q \in Seq(Envelopes), NEW to, NEW h
  PROVE  /\ RemoveMessages(q, to) \in Seq(Envelopes)
         /\ h # to => Waiting(RemoveMessages(q, to), h) = Waiting(q, h)
         /\ h = to => Waiting(RemoveMessages(q, to), h) = 0
<1> DEFINE kept == {i \in DOMAIN q : q[i].to # to}
           n == Cardinality(kept)
           r == RemoveMessages(q, to)
           W == {i \in DOMAIN q : q[i].to = h}
           V == {i \in DOMAIN r : r[i].to = h}
           place == [i \in kept |-> Place(kept, i)]
           f == [i \in W |-> place[i]]
<1>1. /\ IsFiniteSet(kept) /\ n \in Nat /\ kept \subseteq Nat
      /\ IsFiniteSet(W)
  BY Positions
<1>2. r = [k \in 1 .. n |-> q[CHOOSE i \in kept : Place(kept, i) = k]]
  BY DEF RemoveMessages
<1>3. \A i \in kept : q[i] \in Envelopes /\ q[i].to # to
  BY Positions
<1>4. W \subseteq DOMAIN q /\ \A i \in W : q[i].to = h
  OBVIOUS
<1>5. \A i \in DOMAIN q : q[i].to # to => i \in kept
  OBVIOUS
<1> HIDE DEF kept, n, r
<1>6. ASSUME NEW i \in kept PROVE Place(kept, i) \in 1 .. n
  <2> DEFINE K == {j \in kept : j <= i}
  <2>1. K \in SUBSET kept /\ i \in K
    BY <1>1
  <2>2. IsFiniteSet(K) /\ Cardinality(K) <= n
    BY <1>1, <2>1, FS_Subset DEF n
  <2>3. Cardinality(K) \in Nat /\ Cardinality(K) # 0
    BY <2>1, <2>2, FS_CardinalityType, FS_EmptySet
  <2> QED BY <1>1, <2>2, <2>3 DEF Place
<1>7. ASSUME NEW i \in kept, NEW j \in kept, i < j
      PROVE  Place(kept, i) < Place(kept, j)
  <2> DEFINE I == {k \in kept : k <= i}
             J == {k \in kept : k <= j}
  <2>1. I \in SUBSET J /\ j \in J /\ j \notin I
    <3>1. \A k \in kept : k \in Nat /\ (k <= i => k <= j) /\ j <= j /\ ~(j <= i)
      BY <1>1, <1>7
    <3> QED BY <3>1, Zenon
  <2>2. IsFiniteSet(J)
    BY <1>1, FS_Subset
  <2>3. Cardinality(I) <= Cardinality(J) /\ Cardinality(I) # Cardinality(J) /\ IsFiniteSet(I)
    <3> HIDE DEF I, J
    <3> QED BY <2>1, <2>2, FS_Subset
  <2>4. Cardinality(I) \in Nat /\ Cardinality(J) \in Nat
    BY <2>2, <2>3, FS_CardinalityType
  <2>5. Cardinality(I) < Cardinality(J)
    <3> HIDE DEF I, J
    <3> QED BY <2>3, <2>4
  <2> QED BY <2>5 DEF Place
<1>8. \A i, j \in kept : Place(kept, i) = Place(kept, j) => i = j
  <2> SUFFICES ASSUME NEW i \in kept, NEW j \in kept, Place(kept, i) = Place(kept, j), i # j
               PROVE  FALSE
    OBVIOUS
  <2>1. i < j \/ j < i
    BY <1>1
  <2>2. Place(kept, i) \in Nat
    BY <1>1, <1>6
  <2> QED BY <1>7, <2>1, <2>2
<1>9. place \in Injection(kept, 1 .. n)
  BY <1>6, <1>8, Zenon DEF Injection, IsInjective
<1>10. IsFiniteSet(1 .. n) /\ Cardinality(1 .. n) = n
  BY <1>1, FS_Interval
<1>11. place \in Surjection(kept, 1 .. n)
  <2> HIDE DEF place
  <2> QED BY <1>9, <1>10, FS_Injection DEF n
<1>12. \A k \in 1 .. n : \E i \in kept : Place(kept, i) = k
  BY <1>11, Zenon DEF Surjection
<1>13. \A i \in kept : Place(kept, i) \in 1 .. n /\ r[Place(kept, i)] = q[i]
  <2> TAKE i \in kept
  <2> DEFINE j == CHOOSE j \in kept : Place(kept, j) = Place(kept, i)
  <2>1. j \in kept /\ Place(kept, j) = Place(kept, i)
    OBVIOUS
  <2>2. j = i
    BY <1>8, <2>1, Zenon
  <2> HIDE DEF j
  <2>3. r[Place(kept, i)] = q[j]
    BY <1>2, <1>6 DEF j
  <2> QED BY <1>6, <2>2, <2>3
<1>14. \A k \in 1 .. n : \E i \in kept : Place(kept, i) = k /\ r[k] = q[i]
  BY <1>12, <1>13, Zenon
<1>15. DOMAIN r = 1 .. n
  BY <1>2
<1>16. r \in Seq(Envelopes)
  <2>1. \A k \in 1 .. n : r[k] \in Envelopes
    BY <1>3, <1>14
  <2> QED BY <1>1, <1>2, <2>1
<1>17. ASSUME h # to PROVE Cardinality(V) = Cardinality(W)
  <2>1. W \subseteq kept
    BY <1>4, <1>5, <1>17
  <2>2. f \in [W -> V]
    BY <1>4, <1>13, <1>15, <2>1
  <2>3. \A a, b \in W : f[a] = f[b] => a = b
    BY <1>8, <2>1
  <2>4. \A v \in V : \E a \in W : f[a] = v
    <3> TAKE v \in V
    <3>1. v \in 1 .. n /\ r[v].to = h
      BY <1>15
    <3>2. PICK i \in kept : Place(kept, i) = v /\ r[v] = q[i]
      BY <1>14, <3>1
    <3>3. i \in W
      BY <3>1, <3>2 DEF kept
    <3> QED BY <2>1, <3>2, <3>3
  <2> HIDE DEF W, V, f
  <2> QED BY <1>1, <2>2, <2>3, <2>4, SameSize
<1>18. ASSUME h = to PROVE Cardinality(V) = 0
  <2>1. \A k \in 1 .. n : r[k].to # to
    BY <1>3, <1>14
  <2>2. V = {}
    BY <1>15, <1>18, <2>1
  <2> QED BY <2>2, FS_EmptySet
<1> QED BY <1>16, <1>17, <1>18 DEF Waiting, r

\* The passing of time moves no envelope.
LEMMA ElapseCount ==
  ASSUME NEW q \in Seq(Envelopes), NEW h
  PROVE  Elapse(q) \in Seq(Envelopes) /\ Waiting(Elapse(q), h) = Waiting(q, h)
<1> DEFINE r == Elapse(q)
<1>1. Len(q) \in Nat /\ DOMAIN q = 1 .. Len(q) /\ DOMAIN r = DOMAIN q
  BY DEF Elapse
<1>2. \A i \in DOMAIN q : q[i] \in Envelopes
  OBVIOUS
<1>3. \A i \in DOMAIN q : r[i] \in Envelopes /\ r[i].to = q[i].to
  BY <1>1, <1>2 DEF Elapse, Envelopes
<1>4. r \in Seq(Envelopes)
  BY <1>1, <1>3 DEF Elapse
<1>5. {i \in DOMAIN r : r[i].to = h} = {i \in DOMAIN q : q[i].to = h}
  BY <1>1, <1>3
<1> QED BY <1>4, <1>5, Zenon DEF Waiting

\* The message queue does as QueueFacts says.
LEMMA QueueCounts == QueueFacts
<1> SUFFICES ASSUME NEW q \in Seq(Envelopes)
    PROVE  /\ \A h \in Handlers : Waiting(q, h) \in Nat
           /\ \A to \in Handlers, delay \in Nat :
                /\ SendMessageDelayed(q, to, delay) \in Seq(Envelopes)
                /\ Waiting(SendMessageDelayed(q, to, delay), to) = Waiting(q, to) + 1
                /\ \A h \in Handlers \ {to} :
                     Waiting(SendMessageDelayed(q, to, delay), h) = Waiting(q, h)
           /\ q # <<>> =>
                /\ Head(q).to \in Handlers /\ Tail(q) \in Seq(Envelopes)
                /\ \A h \in Handlers : Waiting(q, h) = IF h = Head(q).to THEN Waiting(Tail(q), h) + 1
                                                       ELSE Waiting(Tail(q), h)
           /\ \A to \in Handlers :
                /\ RemoveMessages(q, to) \in Seq(Envelopes)
                /\ Waiting(RemoveMessages(q, to), to) = 0
                /\ \A h \in Handlers \ {to} : Waiting(RemoveMessages(q, to), h) = Waiting(q, h)
           /\ Elapse(q) \in Seq(Envelopes)
           /\ \A h \in Handlers : Waiting(Elapse(q), h) = Waiting(q, h)
  BY Zenon DEF QueueFacts
<1>1. \A h \in Handlers : Waiting(q, h) \in Nat
  BY Positions DEF Waiting
<1>2. ASSUME NEW to \in Handlers, NEW delay \in Nat
      PROVE  /\ SendMessageDelayed(q, to, delay) \in Seq(Envelopes)
             /\ Waiting(SendMessageDelayed(q, to, delay), to) = Waiting(q, to) + 1
             /\ \A h \in Handlers \ {to} :
                  Waiting(SendMessageDelayed(q, to, delay), h) = Waiting(q, h)
  BY SendCount
<1>3. q # <<>> => /\ Head(q).to \in Handlers /\ Tail(q) \in Seq(Envelopes)
                  /\ \A h \in Handlers : Waiting(q, h) = IF h = Head(q).to THEN Waiting(Tail(q), h) + 1
                                                         ELSE Waiting(Tail(q), h)
  BY TailCount
<1>4. ASSUME NEW to \in Handlers
      PROVE  /\ RemoveMessages(q, to) \in Seq(Envelopes)
             /\ Waiting(RemoveMessages(q, to), to) = 0
             /\ \A h \in Handlers \ {to} : Waiting(RemoveMessages(q, to), h) = Waiting(q, h)
  BY RemoveCount, Zenon
<1>5. Elapse(q) \in Seq(Envelopes) /\ \A h \in Handlers : Waiting(Elapse(q), h) = Waiting(q, h)
  BY ElapseCount, Zenon
<1> QED BY <1>1, <1>2, <1>3, <1>4, <1>5, Zenon
-----------------------------------------------------------------------------
\* A thread list is finite.
LEMMA EntriesFinite ==
  ASSUME NEW s \in Sessions, NEW t
  PROVE  IsFiniteSet(Entries(s, t)) /\ Cardinality(Entries(s, t)) \in Nat
<1>1. Len(TidsOf[s]) \in Nat /\ DOMAIN TidsOf[s] = 1 .. Len(TidsOf[s])
  <2>1. TidsOf[s] \in Seq(Tids)
    BY ManagerConstants
  <2> QED BY <2>1
<1>2. IsFiniteSet(1 .. Len(TidsOf[s]))
  BY <1>1, FS_Interval
<1>3. Entries(s, t) \in SUBSET (1 .. Len(TidsOf[s]))
  BY <1>1 DEF Entries
<1> QED BY <1>2, <1>3, FS_Subset, FS_CardinalityType

\* So are the thread lists of a set of sessions together.
LEMMA ListingsFinite ==
  ASSUME NEW S \in SUBSET Sessions, NEW t
  PROVE  IsFiniteSet(S) /\ IsFiniteSet(Listings(S, t)) /\ Cardinality(Listings(S, t)) \in Nat
<1> DEFINE lists == {{s} \X Entries(s, t) : s \in S}
           f == [s \in S |-> {s} \X Entries(s, t)]
<1>1. IsFiniteSet(S)
  BY ManagerConstants, FS_Subset
<1>2. f \in Surjection(S, lists)
  BY Zenon DEF Surjection
<1>3. IsFiniteSet(lists)
  <2> HIDE DEF f, lists
  <2> QED BY <1>1, <1>2, FS_Surjection
<1>4. ASSUME NEW s \in S PROVE IsFiniteSet({s} \X Entries(s, t))
  BY FS_Singleton, EntriesFinite, FS_Product, Zenon
<1>5. \A l \in lists : IsFiniteSet(l)
  BY <1>4
<1>6. IsFiniteSet(UNION lists)
  <2> HIDE DEF lists
  <2> QED BY <1>3, <1>5, FS_UNION
<1>7. IsFiniteSet(Listings(S, t))
  BY <1>6 DEF Listings
<1> QED BY <1>1, <1>7, FS_CardinalityType

\* A session more lists a thread as many times more as its own list does.
LEMMA ListingsAdd ==
  ASSUME NEW S \in SUBSET Sessions, NEW s \in Sessions \ S, NEW t
  PROVE  Cardinality(Listings(S \cup {s}, t))
           = Cardinality(Listings(S, t)) + Cardinality(Entries(s, t))
<1> DEFINE A == Listings(S, t)
           E == Entries(s, t)
           B == {s} \X E
<1>1. Listings(S \cup {s}, t) = A \cup B
  <2> DEFINE lists == {{x} \X Entries(x, t) : x \in S}
  <2>1. {{x} \X Entries(x, t) : x \in S \cup {s}} = lists \cup {B}
    BY Zenon
  <2>2. UNION (lists \cup {B}) = (UNION lists) \cup B
    <3> HIDE DEF lists, B
    <3> QED BY Zenon
  <2>3. A = UNION lists
    BY Zenon DEF Listings
  <2>4. Listings(S \cup {s}, t) = UNION {{x} \X Entries(x, t) : x \in S \cup {s}}
    BY Zenon DEF Listings
  <2> HIDE DEF A, B, lists
  <2> QED BY <2>1, <2>2, <2>3, <2>4, Zenon
<1>2. A \cap B = {}
  <2> SUFFICES ASSUME NEW e \in A, e \in B PROVE FALSE
    OBVIOUS
  <2>1. PICK x \in S : e \in {x} \X Entries(x, t)
    BY Zenon DEF Listings
  <2>2. e[1] = x /\ e[1] = s
    BY <2>1
  <2> QED BY <2>2
<1>3. IsFiniteSet(A) /\ Cardinality(A) \in Nat
  BY ListingsFinite
<1>4. IsFiniteSet(E) /\ Cardinality(E) \in Nat
  BY EntriesFinite
<1>5. IsFiniteSet(B) /\ Cardinality(B) = Cardinality(E)
  <2>1. IsFiniteSet({s}) /\ Cardinality({s}) = 1
    BY FS_Singleton, Zenon
  <2> HIDE DEF E
  <2>2. IsFiniteSet(B) /\ Cardinality(B) = 1 * Cardinality(E)
    BY <1>4, <2>1, FS_Product
  <2> QED BY <1>4, <2>2
<1>6. Cardinality(A \cup B) = Cardinality(A) + Cardinality(B) - Cardinality(A \cap B)
  <2> HIDE DEF A, B
  <2> QED BY <1>3, <1>5, FS_Union
<1>7. Cardinality(A \cap B) = 0
  BY <1>2, FS_EmptySet
<1> HIDE DEF A, B, E
<1>8. Cardinality(A \cup B) = Cardinality(A) + Cardinality(E)
  BY <1>3, <1>4, <1>5, <1>6, <1>7
<1> QED BY <1>1, <1>8 DEF A, E

\* The thread lists are as ListFacts says.
LEMMA ListCounts == ListFacts
<1> SUFFICES ASSUME NEW t
    PROVE  /\ \A s \in Sessions : \A C \in SUBSET Entries(s, t) :
                /\ Cardinality(C) \in 0 .. Cardinality(Entries(s, t))
                /\ Cardinality(C) = 0 <=> C = {}
           /\ \A s \in Sessions : Cardinality(Entries(s, t)) \in Nat
           /\ \A S \in SUBSET Sessions : Cardinality(Listings(S, t)) \in Nat
           /\ \A S \in SUBSET Sessions : \A s \in Sessions \ S :
                Cardinality(Listings(S \cup {s}, t))
                  = Cardinality(Listings(S, t)) + Cardinality(Entries(s, t))
  BY Zenon DEF ListFacts
<1>1. ASSUME NEW s \in Sessions, NEW C \in SUBSET Entries(s, t)
      PROVE  /\ Cardinality(C) \in 0 .. Cardinality(Entries(s, t))
             /\ Cardinality(C) = 0 <=> C = {}
  <2>1. IsFiniteSet(Entries(s, t)) /\ Cardinality(Entries(s, t)) \in Nat
    BY EntriesFinite, Zenon
  <2>2. IsFiniteSet(C) /\ Cardinality(C) <= Cardinality(Entries(s, t))
    BY <2>1, FS_Subset, Zenon
  <2>3. Cardinality(C) \in Nat /\ (Cardinality(C) = 0 <=> C = {})
    BY <2>2, FS_CardinalityType, FS_EmptySet, Zenon
  <2> QED BY <2>1, <2>2, <2>3
<1>2. \A s \in Sessions : Cardinality(Entries(s, t)) \in Nat
  BY EntriesFinite, Zenon
<1>3. \A S \in SUBSET Sessions : Cardinality(Listings(S, t)) \in Nat
  BY ListingsFinite, Zenon
<1>4. ASSUME NEW S \in SUBSET Sessions, NEW s \in Sessions \ S
      PROVE  Cardinality(Listings(S \cup {s}, t))
               = Cardinality(Listings(S, t)) + Cardinality(Entries(s, t))
  BY ListingsAdd, Zenon
<1> QED BY <1>1, <1>2, <1>3, <1>4, Zenon
-----------------------------------------------------------------------------
\* The initial state satisfies the invariant.
LEMMA InitIInv ==
  ASSUME Init
  PROVE  IInv
<1> USE SMT, Zenon, SMTT(30) DEF Init, ManagerInit, SessionInit
<1>1. TypeOK
  BY ManagerConstants, SessionConstants DEF TypeOK, EmptyMap, Idle, At, Calling, Raising, Closing, Checking
<1>2. CallInv
  BY DEF CallInv, Idle, At, Calling, Raising, Closing
<1>3. TimerInv
  <2>1. \A h : Waiting(queue, h) = 0
    <3>1. \A h : {i \in DOMAIN queue : queue[i].to = h} = {}
      OBVIOUS
    <3> QED BY <3>1, FS_EmptySet DEF Waiting
  <2>2. \A s \in Sessions : looper.s # s /\ life[s] = "none" /\ ~mIsMonitoringStale[s]
    BY SessionConstants DEF Idle, At
  <2> QED BY <2>1, <2>2 DEF TimerInv, OneStaleCheck, Checks
<1>4. BoostInv
  BY DEF BoostInv, UtilInv, MinInv
<1>5. CountInv
  <2>1. DOMAIN mTidRefCountMap = {}
    BY DEF EmptyMap
  <2>2. \A t \in Tids : Listed(t) = 0
    <3>1. \A t \in Tids : UNION {{s} \X Entries(s, t) : s \in mSessions} = {}
      BY Zenon
    <3> QED BY <3>1, FS_EmptySet, Zenon DEF Listed
  <2> QED BY <2>1, <2>2 DEF CountInv, RefCountBounded, RefCountExact
<1> QED BY <1>1, <1>2, <1>3, <1>4, <1>5 DEF IInv

\* The invariant holds in every reachable state, for any sessions, thread lists
\* (with threads shared between sessions or listed twice), limits and times.
THEOREM InductiveInvariant == Spec => []IInv
<1> USE SMT, Zenon, SMTT(30)
<1>1. IInv /\ UNCHANGED vars => IInv'
  <2> SUFFICES ASSUME IInv, UNCHANGED vars PROVE IInv'
    OBVIOUS
  <2> USE DEF IInv, vars, managerVars, sessionVars, clampVars, history, lateVars
  <2>1. TypeOK'
    BY DEF TypeOK
  <2>2. CallInv'
    BY ZenonT(30) DEF CallInv, InUse
  <2>3. TimerInv'
    BY ZenonT(30) DEF TimerInv, OneStaleCheck, Checks
  <2>4. BoostInv'
    BY ZenonT(30) DEF BoostInv, UtilInv, Accounts, MinInv, InUse
  <2>5. CountInv'
    BY DEF CountInv, RefCountBounded, RefCountExact, Listed
  <2> QED BY <2>1, <2>2, <2>3, <2>4, <2>5
<1>2. IInv /\ [Next]_vars => IInv'
  <2>1. IInv /\ Next => IInv'
    <3> SUFFICES ASSUME IInv, Next PROVE IInv'
      OBVIOUS
    <3>1. TypeOK' /\ CallInv' /\ TimerInv' /\ BoostInv' /\ CountInv'
      BY QueueCounts, ListCounts, TypeStep, CallStep, TimerStep, BoostStep, CountStep
    <3> QED BY <3>1 DEF IInv
  <2> QED BY <1>1, <2>1
<1>3. Init => IInv
  BY InitIInv
<1> QED BY <1>2, <1>3, PTL DEF Spec

\* An open session that is monitored has exactly one stale check queued or
\* running, and one that is not has none, however reports and the monitor thread
\* interleave; a closed or destroyed session has none unless its handler was
\* running during close() or the client went on using it.
THEOREM OneCheckPerSession == Spec => []OneStaleCheck
<1>1. IInv => OneStaleCheck
  BY Zenon DEF IInv, TimerInv
<1> QED BY <1>1, InductiveInvariant, PTL

\* Unless the kernel refused the last write, a session that lists a boosted thread
\* has the boost on record, or was destroyed after it had been used after close();
\* and only active sessions that are open, or used after close(), have one.
THEOREM BoostsAreTakenAway == Spec => []NoBoostLeft
<1>1. IInv => NoBoostLeft
  BY Zenon DEF IInv, BoostInv, UtilInv, Accounts, MinInv, InUse, NoBoostLeft
<1> QED BY <1>1, InductiveInvariant, PTL

\* The reference counts are exact as long as task profiles can be set.
THEOREM CountsAreExact == Spec => []RefCountExact
<1>1. IInv => RefCountExact
  BY DEF IInv, CountInv
<1> QED BY <1>1, InductiveInvariant, PTL

\* Otherwise they are positive and never too large.
THEOREM CountsAreBounded == Spec => []RefCountBounded
<1>1. IInv => RefCountBounded
  BY DEF IInv, CountInv
<1> QED BY <1>1, InductiveInvariant, PTL
=============================================================================
