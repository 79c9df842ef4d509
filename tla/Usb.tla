-------------------------------- MODULE Usb --------------------------------
(***************************************************************************)
(* The USB HAL (aidl/usb/Usb.cpp): role switches, the callback the         *)
(* framework registers, and the worker thread that listens to uevents.     *)
(*                                                                         *)
(* The service has one binder thread.  Registering a callback creates the  *)
(* worker, unregistering it kills the worker with SIGUSR1 and joins it     *)
(* while mLock is held.  A mode switch writes port_type and waits on       *)
(* mPartnerCV until the worker sees the partner come back or 8 seconds     *)
(* have passed.                                                            *)
(*                                                                         *)
(* A block under a mutex is one step whose guard is that the mutex is      *)
(* free.  Who holds a mutex follows from where the threads are:            *)
(*   mLock            the binder thread in "cb_kill" and "cb_join";        *)
(*   mRoleSwitchLock  the binder thread in a switchRole, or the worker in  *)
(*                    "scan" and "drp";                                    *)
(*   mPartnerLock     the binder thread in "sw_locked".                    *)
(* One port; the type-C driver and its uevent socket are the environment.  *)
(***************************************************************************)
EXTENDS Naturals, Sequences

CONSTANTS
  MaxUevents,   \* size of the uevent socket: further messages are lost
  MaxSpurious   \* bound: spurious wake-ups of one mode switch

ASSUME UsbAssumption == MaxUevents \in Nat \ {0} /\ MaxSpurious \in Nat

VARIABLES
  mCallback,      \* a callback is registered
  mPartnerUp,
  destroyThread,
  binder,         \* where the binder thread is
  switching,      \* the kind of the running switchRole: "mode", "role" or "none"
  roleSwitch,     \* its result so far
  spurious,       \* spurious wake-ups it has had
  sections,       \* how many sections under mLock a short call still has
  worker,         \* where the worker thread is
  signal,         \* SIGUSR1 is pending for the worker
  portType,       \* the driver's port_type
  partner,        \* a partner is attached
  uevents,        \* messages in the uevent socket
  news,           \* history: a partner-added message was unread when port_type was
                  \* written for a switch, or came later
  refused         \* history: the driver refused a write of port_type since the last
                  \* switch began

binderVars == <<mCallback, binder, switching, roleSwitch, spurious, sections>>
driverVars == <<portType, partner, uevents, news, refused>>
vars == <<binderVars, mPartnerUp, destroyThread, worker, signal, driverVars>>

\* The role a mode switch asks for, and what a port does when left alone.
Roles == {"sink", "source"}
DRP == "dual"

InSwitch == {"sw_open", "sw_locked", "sw_wait", "sw_signalled", "sw_timedout", "sw_drp", "sw_notify"}
Unregistering == {"cb_kill", "cb_join"}
mLockFree == binder \notin Unregistering
RoleLockFree == binder \notin InSwitch

Init ==
  /\ mCallback = FALSE /\ mPartnerUp = FALSE /\ destroyThread = FALSE
  /\ binder = "idle" /\ switching = "none" /\ roleSwitch = FALSE /\ spurious = 0
  /\ sections = 0
  /\ worker = "none" /\ signal = FALSE
  /\ portType = DRP /\ partner \in BOOLEAN /\ uevents = <<>>
  /\ news = FALSE /\ refused = FALSE

-----------------------------------------------------------------------------
\* switchRole takes mRoleSwitchLock; a role without a node returns at once.
SwitchRole(kind) ==
  /\ binder = "idle" /\ worker \notin {"scan", "drp"}
  /\ binder' = "sw_open"
  /\ switching' = kind
  /\ roleSwitch' = FALSE
  /\ spurious' = 0 /\ refused' = FALSE
  /\ UNCHANGED <<mCallback, sections, mPartnerUp, destroyThread, worker, signal, portType, partner,
                 uevents, news>>

\* A data or power role is written and read back.
SwitchDataOrPower ==
  /\ binder = "sw_open" /\ switching = "role"
  /\ roleSwitch' \in BOOLEAN
  /\ binder' = "sw_notify"
  /\ UNCHANGED <<mCallback, switching, spurious, sections, mPartnerUp, destroyThread, worker,
                 signal, driverVars>>

\* fputs into port_type.  stdio hands the text to the driver in fclose, whose
\* result nobody looks at, so that a refusal goes unnoticed.
WritePortType(types) ==
  \/ portType' \in types /\ UNCHANGED refused
  \/ refused' = TRUE /\ UNCHANGED portType

\* A partner-added message that uevent_event has not dealt with yet.
Unread == worker = "partner" \/ \E i \in DOMAIN uevents : uevents[i] = "add"

\* Mutant: mPartnerUp keeps its value from the last switch.
SwitchModeWriteKeepingFlag ==
  /\ binder = "sw_open" /\ switching = "mode"
  /\ WritePortType(Roles)
  /\ news' = Unread
  /\ binder' = "sw_locked"
  /\ UNCHANGED <<mCallback, switching, roleSwitch, spurious, sections, mPartnerUp, destroyThread,
                 worker, signal, partner, uevents>>

\* switchMode clears mPartnerUp and writes port_type, holding mPartnerLock; or
\* it cannot open the node or fputs fails.
SwitchModeWrite ==
  /\ binder = "sw_open" /\ switching = "mode"
  /\ \/ /\ mPartnerUp' = FALSE
        /\ WritePortType(Roles)
        /\ news' = Unread
        /\ binder' = "sw_locked"
     \/ /\ mPartnerUp' \in {mPartnerUp, FALSE}
        /\ binder' = "sw_drp"
        /\ UNCHANGED <<portType, news, refused>>
  /\ UNCHANGED <<mCallback, switching, roleSwitch, spurious, sections, destroyThread, worker,
                 signal, partner, uevents>>

\* pthread_cond_timedwait gives mPartnerLock up and waits ...
SwitchModeWait ==
  /\ binder = "sw_locked"
  /\ binder' = "sw_wait"
  /\ UNCHANGED <<mCallback, switching, roleSwitch, spurious, sections, mPartnerUp, destroyThread,
                 worker, signal, driverVars>>

\* ... until the time is over or without any reason (a signal: WorkerPartner).
TimedOut ==
  /\ binder = "sw_wait"
  /\ binder' = "sw_timedout"
  /\ UNCHANGED <<mCallback, switching, roleSwitch, spurious, sections, mPartnerUp, destroyThread,
                 worker, signal, driverVars>>

SpuriousWakeup ==
  /\ binder = "sw_wait" /\ spurious < MaxSpurious
  /\ spurious' = spurious + 1
  /\ binder' = "sw_signalled"
  /\ UNCHANGED <<mCallback, switching, roleSwitch, sections, mPartnerUp, destroyThread,
                 worker, signal, driverVars>>

\* Mutant: a timeout without a partner starts the wait again.
SwitchModeWokenRetrying ==
  /\ binder \in {"sw_timedout", "sw_signalled"}
  /\ IF mPartnerUp THEN binder' = "sw_notify" /\ roleSwitch' = TRUE
                   ELSE binder' = "sw_locked" /\ UNCHANGED roleSwitch
  /\ UNCHANGED <<mCallback, switching, spurious, sections, mPartnerUp, destroyThread, worker,
                 signal, driverVars>>

\* With mPartnerLock taken again: ETIMEDOUT is a failure whatever mPartnerUp
\* says, a signal counts only if mPartnerUp is set.
SwitchModeWoken ==
  /\ \/ /\ binder = "sw_timedout"
        /\ binder' = "sw_drp" /\ UNCHANGED roleSwitch
     \/ /\ binder = "sw_signalled" /\ mPartnerUp
        /\ binder' = "sw_notify" /\ roleSwitch' = TRUE
     \/ /\ binder = "sw_signalled" /\ ~mPartnerUp
        /\ binder' = "sw_locked" /\ UNCHANGED roleSwitch
  /\ UNCHANGED <<mCallback, switching, spurious, sections, mPartnerUp, destroyThread, worker,
                 signal, driverVars>>

\* A failed mode switch puts the port back (switchToDrp).
SwitchModeDrp ==
  /\ binder = "sw_drp"
  /\ WritePortType({DRP})
  /\ binder' = "sw_notify"
  /\ UNCHANGED <<mCallback, switching, roleSwitch, spurious, sections, mPartnerUp, destroyThread,
                 worker, signal, partner, uevents, news>>

\* notifyRoleSwitchStatus under mLock, then mRoleSwitchLock is released.
SwitchRoleNotify ==
  /\ binder = "sw_notify"
  /\ binder' = "idle"
  /\ switching' = "none"
  /\ UNCHANGED <<mCallback, roleSwitch, spurious, sections, mPartnerUp, destroyThread, worker,
                 signal, driverVars>>

-----------------------------------------------------------------------------
\* The other calls notify the callback in one section under mLock
\* (enableUsbDataWhileDocked, resetUsbPort, limitPowerTransfer) or in two, one
\* of which is queryVersionHelper (enableUsbData, queryPortStatus,
\* enableContaminantPresenceDetection).
ShortCall(n) ==
  /\ binder = "idle"
  /\ binder' = "short" /\ sections' = n
  /\ UNCHANGED <<mCallback, switching, roleSwitch, spurious, mPartnerUp, destroyThread, worker,
                 signal, driverVars>>

ShortCallSection ==
  /\ binder = "short"
  /\ sections' = sections - 1
  /\ binder' = IF sections' = 0 THEN "idle" ELSE "short"
  /\ UNCHANGED <<mCallback, switching, roleSwitch, spurious, mPartnerUp, destroyThread, worker,
                 signal, driverVars>>

-----------------------------------------------------------------------------
\* setCallback from NULL to a callback creates the worker; if that fails the
\* callback is dropped.  (Replacing one callback by another, or NULL by NULL,
\* changes nothing here.)
RegisterCallback ==
  /\ binder = "idle" /\ ~mCallback
  /\ destroyThread' = FALSE
  /\ \/ mCallback' = TRUE /\ worker' = "start"
     \/ UNCHANGED <<mCallback, worker>>
  /\ UNCHANGED <<binder, switching, roleSwitch, spurious, sections, mPartnerUp, signal, driverVars>>

\* setCallback(NULL) keeps mLock from here to the end of the join.
UnregisterCallback ==
  /\ binder = "idle" /\ mCallback
  /\ mCallback' = FALSE
  /\ binder' = "cb_kill"
  /\ UNCHANGED <<switching, roleSwitch, spurious, sections, mPartnerUp, destroyThread, worker,
                 signal, driverVars>>

\* pthread_kill fails only for a thread that has ended.
KillWorker ==
  /\ binder = "cb_kill"
  /\ \/ binder' = "cb_join" /\ signal' = (worker # "done")
     \/ worker = "done" /\ binder' = "idle" /\ UNCHANGED signal
  /\ UNCHANGED <<mCallback, switching, roleSwitch, spurious, sections, mPartnerUp, destroyThread,
                 worker, driverVars>>

JoinWorker ==
  /\ binder = "cb_join" /\ worker = "done"
  /\ worker' = "none" /\ signal' = FALSE
  /\ binder' = "idle"
  /\ UNCHANGED <<mCallback, switching, roleSwitch, spurious, sections, mPartnerUp, destroyThread,
                 driverVars>>

-----------------------------------------------------------------------------
WorkerAlive == worker \notin {"none", "done"}

\* The signal handler runs on the worker, wherever it is; it only ends a wait
\* in epoll_wait that has already begun.  In "enter", after the test of
\* destroyThread and before the wait, it comes too late for both.
SignalHandler ==
  /\ signal /\ WorkerAlive
  /\ signal' = FALSE /\ destroyThread' = TRUE
  /\ worker' = IF worker = "epoll" THEN "check" ELSE worker
  /\ UNCHANGED <<binderVars, mPartnerUp, driverVars>>

GoTo(where) ==
  /\ worker' = where
  /\ UNCHANGED <<binderVars, mPartnerUp, destroyThread, signal, driverVars>>

\* work opens a new, empty uevent socket.
WorkerStart ==
  /\ worker = "start"
  /\ worker' = "check" /\ uevents' = <<>>
  /\ UNCHANGED <<binderVars, mPartnerUp, destroyThread, signal, portType, partner, news,
                 refused>>

\* The head of the loop; then, not atomically with it, epoll_wait is entered and
\* waits for a message.
WorkerCheck == worker = "check" /\ GoTo(IF destroyThread THEN "done" ELSE "enter")
WorkerEnter == worker = "enter" /\ GoTo("epoll")
WorkerEpoll == worker = "epoll" /\ uevents # <<>> /\ GoTo("recv")

\* A socket that cannot be opened and an epoll_wait that fails end the thread.
WorkerFails == worker \in {"start", "epoll"} /\ GoTo("done")

\* uevent_event reads one message; one that is too long, or about something
\* else than the type-C port, is dropped.
WorkerRecv ==
  /\ worker = "recv"
  /\ worker' \in {IF Head(uevents) = "add" THEN "partner" ELSE "query", "check"}
  /\ uevents' = Tail(uevents)
  /\ UNCHANGED <<binderVars, mPartnerUp, destroyThread, signal, portType, partner, news,
                 refused>>

\* Mutant: the flag is set without mPartnerLock and nobody is signalled.
WorkerPartnerSilent ==
  /\ worker = "partner"
  /\ mPartnerUp' = TRUE
  /\ worker' = "query"
  /\ UNCHANGED <<binderVars, destroyThread, signal, driverVars>>

\* "partner added", under mPartnerLock.
WorkerPartner ==
  /\ worker = "partner" /\ binder # "sw_locked"
  /\ mPartnerUp' = TRUE
  /\ binder' = IF binder = "sw_wait" THEN "sw_signalled" ELSE binder
  /\ worker' = "query"
  /\ UNCHANGED <<mCallback, switching, roleSwitch, spurious, sections, destroyThread, signal, driverVars>>

\* queryVersionHelper, under mLock.
WorkerQuery == worker = "query" /\ mLockFree /\ GoTo("trylock")

\* Mutant: the worker does not look whether a role switch is in progress.
WorkerNoTryLock == worker = "trylock" /\ GoTo("scan")

\* pthread_mutex_trylock: not while a role switch is in progress.
WorkerTryLock == worker = "trylock" /\ GoTo(IF RoleLockFree THEN "scan" ELSE "check")

\* The loop over the ports: one without a partner goes back to dual role.
\* The list is empty if the type-C directory could not be read.
WorkerScan ==
  /\ worker = "scan"
  /\ \/ ~partner /\ GoTo("drp")
     \/ GoTo("check")

WorkerDrp ==
  /\ worker = "drp"
  /\ WritePortType({DRP})
  /\ worker' = "check"
  /\ UNCHANGED <<binderVars, mPartnerUp, destroyThread, signal, partner, uevents, news>>

-----------------------------------------------------------------------------
\* The driver.  A message that does not fit into the socket is lost; nobody
\* listens when there is no worker.
Post(msg) == IF WorkerAlive /\ worker # "start" /\ Len(uevents) < MaxUevents
             THEN Append(uevents, msg) ELSE uevents

PartnerAttached ==
  /\ ~partner /\ partner' = TRUE /\ news' = TRUE
  /\ uevents' = Post("add")
  /\ UNCHANGED <<binderVars, mPartnerUp, destroyThread, worker, signal, portType, refused>>

PartnerDetached ==
  /\ partner /\ partner' = FALSE
  /\ uevents' = Post("change")
  /\ UNCHANGED <<binderVars, mPartnerUp, destroyThread, worker, signal, portType, news,
                 refused>>

\* CCIC=WATER, CCIC=DRY and other type-C messages.
OtherUevent ==
  /\ uevents' = Post("change")
  /\ UNCHANGED <<binderVars, mPartnerUp, destroyThread, worker, signal, portType, partner, news,
                 refused>>

-----------------------------------------------------------------------------
ClientCall ==
  \/ \E kind \in {"mode", "role"} : SwitchRole(kind)
  \/ \E n \in {1, 2} : ShortCall(n)
  \/ RegisterCallback \/ UnregisterCallback

BinderStep ==
  \/ SwitchDataOrPower \/ SwitchModeWrite \/ SwitchModeWait \/ TimedOut \/ SwitchModeWoken
  \/ SwitchModeDrp \/ SwitchRoleNotify \/ ShortCallSection \/ KillWorker \/ JoinWorker

WorkerStep ==
  \/ WorkerStart \/ WorkerCheck \/ WorkerEnter \/ WorkerEpoll \/ WorkerRecv \/ WorkerPartner
  \/ WorkerQuery \/ WorkerTryLock \/ WorkerScan \/ WorkerDrp

Driver == PartnerAttached \/ PartnerDetached \/ OtherUevent

Next ==
  \/ ClientCall \/ BinderStep \/ SignalHandler \/ WorkerStep \/ SpuriousWakeup
  \/ WorkerFails \/ Driver

\* Both threads run, a timed wait ends, and a pending signal is delivered however
\* busy the worker is; clients, the driver, spurious wake-ups and failures owe
\* nothing.
Fairness == WF_vars(BinderStep) /\ WF_vars(WorkerStep) /\ WF_vars(SignalHandler)

Spec == Init /\ [][Next]_vars /\ Fairness
-----------------------------------------------------------------------------
\* Type correctness; uevent_event never reads from an empty socket.
TypeOK ==
  /\ mCallback \in BOOLEAN /\ mPartnerUp \in BOOLEAN /\ destroyThread \in BOOLEAN
  /\ binder \in {"idle", "short"} \cup InSwitch \cup Unregistering
  /\ switching \in {"none", "mode", "role"} /\ roleSwitch \in BOOLEAN
  /\ spurious \in 0 .. MaxSpurious /\ sections \in 0 .. 2
  /\ worker \in {"none", "start", "check", "enter", "epoll", "recv", "partner", "query",
                 "trylock", "scan", "drp", "done"}
  /\ signal \in BOOLEAN
  /\ portType \in Roles \cup {DRP} /\ partner \in BOOLEAN
  /\ uevents \in Seq({"add", "change"}) /\ news \in BOOLEAN
  /\ refused \in BOOLEAN
  /\ worker = "recv" => uevents # <<>>

\* "Hold the lock here to prevent loosing connected signals": switchMode never
\* sleeps on mPartnerCV while mPartnerUp is already set, however the partner's
\* return races with the write and the wait.
PartnerSignalNotLost == binder \in {"sw_locked", "sw_wait"} => ~mPartnerUp

\* mRoleSwitchLock keeps the two writers of port_type apart: the worker never
\* resets a port while a role switch is running.  While a mode switch waits
\* port_type is what it wrote, and a failed one is reported with the port back
\* in dual role, unless the driver refused.
PortTypeOwned ==
  /\ worker \in {"scan", "drp"} => RoleLockFree
  /\ binder \in {"sw_locked", "sw_wait", "sw_signalled", "sw_timedout"} /\ ~refused
       => portType \in Roles
  /\ binder = "sw_notify" /\ switching = "mode" /\ ~roleSwitch /\ ~refused => portType = DRP

\* A worker exists only for a registered callback or one being unregistered.
WorkerBelongsToCallback ==
  WorkerAlive => mCallback \/ binder \in Unregistering

\* Every role switch comes to its end: neither the locks nor the wait for the
\* partner can block it for ever.
RoleSwitchReturns == (binder \in InSwitch) ~> (binder = "idle")

\* A mode switch is reported as successful only because of a partner-added
\* message that was unread when port_type was written or came afterwards; what
\* an earlier switch or an earlier connection left in mPartnerUp does not count.
SuccessNeedsNews ==
  binder = "sw_notify" /\ switching = "mode" /\ roleSwitch => news

\* destroyThread is "Set by the signal handler to destroy the thread"
\* (Usb.cpp:54): unregistering the callback ends with the worker gone.
UnregisterReturns == (binder \in Unregistering) ~> (binder = "idle")
=============================================================================
