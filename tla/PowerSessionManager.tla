------------------------ MODULE PowerSessionManager ------------------------
(***************************************************************************)
(* PowerSessionManager (aidl/power-libperfmgr/PowerSessionManager.cpp):    *)
(* the registry of ADPF hint sessions.  It counts, for every thread id, by *)
(* how many session entries the thread is listed, moves the thread to the  *)
(* ResetUclampGrp task profile when the first entry appears and back to    *)
(* NoResetUclampGrp when the last one goes, and switches the system's      *)
(* top-app boost off while some session is active.                         *)
(*                                                                         *)
(* addPowerSession, removePowerSession and isAnySessionActive hold mLock,  *)
(* so each is one step.                                                    *)
(***************************************************************************)
EXTENDS Integers, Sequences, FiniteSets, Functions

CONSTANTS
  Sessions,          \* the PowerHintSession objects that will ever exist
  Tids,              \* thread ids
  TidsOf,            \* TidsOf[s]: the thread list of session s, in order
  ProfilesMayFail,   \* whether SetTaskProfiles can fail (a thread that is gone)
  HintSupported      \* IsHintSupported("ADPF_DISABLE_TA_BOOST")

ASSUME ManagerConstants ==
  /\ IsFiniteSet(Sessions)
  /\ TidsOf \in [Sessions -> Seq(Tids)]
  /\ \A s \in Sessions : TidsOf[s] # <<>>     \* Power::createHintSession
  /\ ProfilesMayFail \in BOOLEAN
  /\ HintSupported \in BOOLEAN

VARIABLES
  mSessions,         \* registered sessions
  mTidRefCountMap,   \* tid -> count, a partial function
  resetGrp,          \* threads whose task profile is ResetUclampGrp
  mActive,           \* the last answer of isAnySessionActive
  taBoostOff         \* the hint ADPF_DISABLE_TA_BOOST is held

managerVars == <<mSessions, mTidRefCountMap, resetGrp, mActive, taBoostOff>>

EmptyMap == [t \in {} |-> 0]

ManagerInit ==
  /\ mSessions = {}
  /\ mTidRefCountMap = EmptyMap
  /\ resetGrp = {}
  /\ mActive = FALSE
  /\ taBoostOff = FALSE

-----------------------------------------------------------------------------
\* The entries of s's thread list that name t.
Entries(s, t) == {i \in DOMAIN TidsOf[s] : TidsOf[s][i] = t}

\* Mutant: the count of a thread another session already lists is not raised.
CountedOnce(s, t, bad) ==
  {i \in Entries(s, t) : t \notin DOMAIN mTidRefCountMap /\ \E j \in Entries(s, t) \ bad : j <= i}

\* The entries addPowerSession's loop counts: all of a thread that has a count
\* already, otherwise those from the first on for which SetTaskProfiles does
\* not fail, which starts the count.
Counted(s, t, bad) ==
  {i \in Entries(s, t) : t \in DOMAIN mTidRefCountMap \/ \E j \in Entries(s, t) \ bad : j <= i}

\* addPowerSession; bad are the entries for which SetTaskProfiles would fail.
\* A count that is not positive is left alone.
AddPowerSession(s) ==
  \E bad \in IF ProfilesMayFail THEN SUBSET DOMAIN TidsOf[s] ELSE {{}} :
    LET old == DOMAIN mTidRefCountMap
        new == {t \in Tids \ old : Counted(s, t, bad) # {}}
        more == [t \in Tids |-> Cardinality(Counted(s, t, bad))]
    IN  /\ mTidRefCountMap' = [t \in old \cup new |->
                                 IF t \in new THEN more[t]
                                 ELSE IF mTidRefCountMap[t] <= 0 THEN mTidRefCountMap[t]
                                 ELSE mTidRefCountMap[t] + more[t]]
        /\ resetGrp' = resetGrp \cup new
        /\ mSessions' = mSessions \cup {s}

\* Mutant: the entry of a thread nobody lists any more is not erased.
RemovePowerSessionKeeping(s) ==
  /\ mTidRefCountMap' = [t \in DOMAIN mTidRefCountMap |->
                           mTidRefCountMap[t] - Cardinality(Entries(s, t))]
  /\ mSessions' = mSessions \ {s}
  /\ UNCHANGED resetGrp

\* removePowerSession: every entry lowers the count of its thread, which is
\* erased when none is left, even when SetTaskProfiles fails.
RemovePowerSession(s) ==
  LET left == [t \in DOMAIN mTidRefCountMap |-> mTidRefCountMap[t] - Cardinality(Entries(s, t))]
      gone == {t \in DOMAIN mTidRefCountMap : Entries(s, t) # {} /\ left[t] <= 0}
  IN  /\ mTidRefCountMap' = [t \in DOMAIN mTidRefCountMap \ gone |-> left[t]]
      /\ \E bad \in IF ProfilesMayFail THEN SUBSET gone ELSE {{}} : resetGrp' = resetGrp \ (gone \ bad)
      /\ mSessions' = mSessions \ {s}

\* isAnySessionActive, given which sessions are active and not stale; the
\* caller keeps the answer in mActive and acts only when it has changed.
IsAnySessionActive(really) == mSessions \cap really # {}

\* enableSystemTopAppBoost / disableSystemTopAppBoost.
SystemTopAppBoost == taBoostOff' = IF HintSupported THEN mActive ELSE taBoostOff

-----------------------------------------------------------------------------
\* How many entries of the registered thread lists name t.
Listed(t) == Cardinality(UNION {{s} \X Entries(s, t) : s \in mSessions})

\* Every reference count equals the number of registered entries that name the
\* thread, and threads nobody lists have no count: what addPowerSession and
\* removePowerSession keep, whatever the order of creation and closing and
\* with duplicate thread ids, as long as SetTaskProfiles succeeds.  Exactly the
\* counted threads have the ResetUclampGrp profile.
RefCountExact ==
  ~ProfilesMayFail =>
    /\ \A t \in Tids : IF Listed(t) = 0 THEN t \notin DOMAIN mTidRefCountMap
                       ELSE t \in DOMAIN mTidRefCountMap /\ mTidRefCountMap[t] = Listed(t)
    /\ resetGrp = DOMAIN mTidRefCountMap

\* With failing SetTaskProfiles calls a count may be too small, but it is never
\* zero, negative, or larger than the number of registered entries: the branch
\* "Unexpected zero/negative RefCount" of addPowerSession is never taken, and no
\* thread keeps a count after its last session has gone.
RefCountBounded ==
  \A t \in DOMAIN mTidRefCountMap : mTidRefCountMap[t] \in 1 .. Listed(t)
=============================================================================
