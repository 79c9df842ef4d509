----------------------------- MODULE UsbProofs -----------------------------
(***************************************************************************)
(* Proofs about the USB HAL, for any size of the uevent socket and any     *)
(* number of spurious wake-ups.  Most safety properties of Usb are together*)
(* inductive once a short call in progress is known to have a section left;*)
(* that a success needs news of the partner is proved on top of them.      *)
(* The second part is about UsbPortStatus: a wrong port status is never    *)
(* the last one, for any set of partners and any number of changes.        *)
(***************************************************************************)
EXTENDS Usb, UsbPortStatus, TLAPS

(* The invariant: types, the condition variable's protocol, and who may    *)
(* write port_type when.                                                   *)
UsbInv ==
  /\ TypeOK
  /\ PartnerSignalNotLost
  /\ PortTypeOwned
  /\ WorkerBelongsToCallback
  /\ binder = "short" => sections > 0

(* The Boolean part of TypeOK.                                             *)
Flags ==
  /\ mCallback \in BOOLEAN /\ mPartnerUp \in BOOLEAN /\ destroyThread \in BOOLEAN
  /\ roleSwitch \in BOOLEAN /\ signal \in BOOLEAN /\ partner \in BOOLEAN
  /\ news \in BOOLEAN /\ refused \in BOOLEAN

(* What makes SuccessNeedsNews inductive: until the switch knows its       *)
(* result, whatever could make it a success is recorded as news.           *)
Waiting == {"sw_locked", "sw_wait", "sw_signalled", "sw_timedout"}
NewsInv ==
  /\ SuccessNeedsNews
  /\ binder \in Waiting /\ (mPartnerUp \/ Unread) => news
  /\ binder \in Waiting \cup {"sw_open", "sw_drp"} => ~roleSwitch

(* A message put into the uevent socket never empties it.                  *)
LEMMA PostKeepsMessages ==
  ASSUME uevents \in Seq({"add", "change"}), NEW msg \in {"add", "change"}
  PROVE  /\ Post(msg) \in Seq({"add", "change"})
         /\ uevents # <<>> => Post(msg) # <<>>
BY DEF Post

(* The service's first state satisfies the invariant.                      *)
LEMMA UsbInvInit == Init => UsbInv
<1> SUFFICES ASSUME Init PROVE UsbInv
  BY Zenon
<1>1. Flags
  BY Zenon DEF Init, Flags
<1> QED
  BY <1>1, UsbAssumption
     DEF Init, Flags, UsbInv, TypeOK, PartnerSignalNotLost, PortTypeOwned,
         WorkerBelongsToCallback, WorkerAlive, RoleLockFree,
         InSwitch, Unregistering, Roles, DRP

(* Every step of the binder thread, the worker and the driver keeps it.    *)
LEMMA UsbInvStep == UsbInv /\ [Next]_vars => UsbInv'
<1> SUFFICES ASSUME UsbInv, [Next]_vars PROVE UsbInv'
  BY Zenon
<1> USE UsbAssumption
    DEF UsbInv, TypeOK, PartnerSignalNotLost, PortTypeOwned,
        WorkerBelongsToCallback, WorkerAlive, RoleLockFree,
        InSwitch, Unregistering, Roles, DRP, binderVars, driverVars
<1>1. CASE UNCHANGED vars
  BY <1>1 DEF vars
<1>2. ASSUME NEW kind \in {"mode", "role"}, SwitchRole(kind) PROVE UsbInv'
  <2>1. Flags'
    BY <1>2, Zenon DEF Flags, SwitchRole
  <2>2. TypeOK'
    BY <1>2, <2>1 DEF Flags, SwitchRole
  <2>3. PartnerSignalNotLost'
    BY <1>2, <2>1, Zenon DEF Flags, SwitchRole
  <2>4. PortTypeOwned'
    BY <1>2, <2>1, Zenon DEF Flags, SwitchRole
  <2>5. WorkerBelongsToCallback'
    BY <1>2, <2>1, Zenon DEF Flags, SwitchRole
  <2> QED
    BY <1>2, <2>2, <2>3, <2>4, <2>5, Zenon DEF SwitchRole
<1>3. CASE SwitchDataOrPower
  <2>1. Flags'
    BY <1>3, Zenon DEF Flags, SwitchDataOrPower
  <2>2. TypeOK'
    BY <1>3, <2>1, Zenon DEF Flags, SwitchDataOrPower
  <2>3. PartnerSignalNotLost'
    BY <1>3, <2>1, Zenon DEF Flags, SwitchDataOrPower
  <2>4. PortTypeOwned'
    BY <1>3, <2>1, Zenon DEF Flags, SwitchDataOrPower
  <2>5. WorkerBelongsToCallback'
    BY <1>3, <2>1, Zenon DEF Flags, SwitchDataOrPower
  <2> QED
    BY <1>3, <2>2, <2>3, <2>4, <2>5, Zenon DEF SwitchDataOrPower
<1>4. CASE SwitchModeWrite
  <2>1. Flags'
    BY <1>4, Zenon DEF Flags, SwitchModeWrite, WritePortType, Unread
  <2>2. TypeOK'
    BY <1>4, <2>1, Zenon DEF Flags, SwitchModeWrite, WritePortType
  <2>3. PartnerSignalNotLost'
    BY <1>4, <2>1, Zenon DEF Flags, SwitchModeWrite, WritePortType
  <2>4. PortTypeOwned'
    BY <1>4, <2>1, Zenon DEF Flags, SwitchModeWrite, WritePortType
  <2>5. WorkerBelongsToCallback'
    BY <1>4, <2>1, Zenon DEF Flags, SwitchModeWrite, WritePortType
  <2> QED
    BY <1>4, <2>2, <2>3, <2>4, <2>5, Zenon DEF SwitchModeWrite
<1>5. CASE SwitchModeWait
  BY <1>5 DEF SwitchModeWait
<1>6. CASE TimedOut
  BY <1>6 DEF TimedOut
<1>7. CASE SpuriousWakeup
  BY <1>7 DEF SpuriousWakeup
<1>8. CASE SwitchModeWoken
  <2>1. Flags'
    BY <1>8, Zenon DEF Flags, SwitchModeWoken
  <2>2. TypeOK'
    BY <1>8, <2>1 DEF Flags, SwitchModeWoken
  <2>3. PartnerSignalNotLost'
    BY <1>8, <2>1, Zenon DEF Flags, SwitchModeWoken
  <2>4. PortTypeOwned'
    BY <1>8, <2>1, Zenon DEF Flags, SwitchModeWoken
  <2>5. WorkerBelongsToCallback'
    BY <1>8, <2>1, Zenon DEF Flags, SwitchModeWoken
  <2> QED
    BY <1>8, <2>2, <2>3, <2>4, <2>5, Zenon DEF SwitchModeWoken
<1>9. CASE SwitchModeDrp
  <2>1. Flags'
    BY <1>9, Zenon DEF Flags, SwitchModeDrp, WritePortType
  <2>2. TypeOK'
    BY <1>9, <2>1, Zenon DEF Flags, SwitchModeDrp, WritePortType
  <2>3. PartnerSignalNotLost'
    BY <1>9, <2>1, Zenon DEF Flags, SwitchModeDrp, WritePortType
  <2>4. PortTypeOwned'
    BY <1>9, <2>1, Zenon DEF Flags, SwitchModeDrp, WritePortType
  <2>5. WorkerBelongsToCallback'
    BY <1>9, <2>1, Zenon DEF Flags, SwitchModeDrp, WritePortType
  <2> QED
    BY <1>9, <2>2, <2>3, <2>4, <2>5, Zenon DEF SwitchModeDrp
<1>10. CASE SwitchRoleNotify
  BY <1>10 DEF SwitchRoleNotify
<1>11. ASSUME NEW n \in {1, 2}, ShortCall(n) PROVE UsbInv'
  BY <1>11 DEF ShortCall
<1>12. CASE ShortCallSection
  BY <1>12 DEF ShortCallSection
<1>13. CASE RegisterCallback
  <2>1. Flags'
    BY <1>13, Zenon DEF Flags, RegisterCallback
  <2>2. TypeOK'
    BY <1>13, <2>1, Zenon DEF Flags, RegisterCallback
  <2>3. PartnerSignalNotLost'
    BY <1>13, <2>1, Zenon DEF Flags, RegisterCallback
  <2>4. PortTypeOwned'
    BY <1>13, <2>1, Zenon DEF Flags, RegisterCallback
  <2>5. WorkerBelongsToCallback'
    BY <1>13, <2>1, Zenon DEF Flags, RegisterCallback
  <2> QED
    BY <1>13, <2>2, <2>3, <2>4, <2>5, Zenon DEF RegisterCallback
<1>14. CASE UnregisterCallback
  <2>1. Flags'
    BY <1>14, Zenon DEF Flags, UnregisterCallback
  <2>2. TypeOK'
    BY <1>14, <2>1, Zenon DEF Flags, UnregisterCallback
  <2>3. PartnerSignalNotLost'
    BY <1>14, <2>1, Zenon DEF Flags, UnregisterCallback
  <2>4. PortTypeOwned'
    BY <1>14, <2>1, Zenon DEF Flags, UnregisterCallback
  <2>5. WorkerBelongsToCallback'
    BY <1>14, <2>1, Zenon DEF Flags, UnregisterCallback
  <2> QED
    BY <1>14, <2>2, <2>3, <2>4, <2>5, Zenon DEF UnregisterCallback
<1>15. CASE KillWorker
  <2>1. Flags'
    BY <1>15, Zenon DEF Flags, KillWorker
  <2>2. TypeOK'
    BY <1>15, <2>1, Zenon DEF Flags, KillWorker
  <2>3. PartnerSignalNotLost'
    BY <1>15, <2>1, Zenon DEF Flags, KillWorker
  <2>4. PortTypeOwned'
    BY <1>15, <2>1, Zenon DEF Flags, KillWorker
  <2>5. WorkerBelongsToCallback'
    BY <1>15, <2>1, Zenon DEF Flags, KillWorker
  <2> QED
    BY <1>15, <2>2, <2>3, <2>4, <2>5, Zenon DEF KillWorker
<1>16. CASE JoinWorker
  <2>1. Flags'
    BY <1>16, Zenon DEF Flags, JoinWorker
  <2>2. TypeOK'
    BY <1>16, <2>1, Zenon DEF Flags, JoinWorker
  <2>3. PartnerSignalNotLost'
    BY <1>16, <2>1, Zenon DEF Flags, JoinWorker
  <2>4. PortTypeOwned'
    BY <1>16, <2>1, Zenon DEF Flags, JoinWorker
  <2>5. WorkerBelongsToCallback'
    BY <1>16, <2>1, Zenon DEF Flags, JoinWorker
  <2> QED
    BY <1>16, <2>2, <2>3, <2>4, <2>5, Zenon DEF JoinWorker
<1>17. CASE SignalHandler
  <2>1. Flags'
    BY <1>17, Zenon DEF Flags, SignalHandler
  <2>2. TypeOK'
    BY <1>17, <2>1 DEF Flags, SignalHandler
  <2>3. PartnerSignalNotLost'
    BY <1>17, <2>1, Zenon DEF Flags, SignalHandler
  <2>4. PortTypeOwned'
    BY <1>17, <2>1, Zenon DEF Flags, SignalHandler
  <2>5. WorkerBelongsToCallback'
    BY <1>17, <2>1, Zenon DEF Flags, SignalHandler
  <2> QED
    BY <1>17, <2>2, <2>3, <2>4, <2>5, Zenon DEF SignalHandler
<1>18. CASE WorkerCheck \/ WorkerEnter \/ WorkerEpoll \/ WorkerFails
  BY <1>18 DEF WorkerCheck, WorkerEnter, WorkerEpoll, WorkerFails, GoTo
<1>26. CASE WorkerStart
  BY <1>26 DEF WorkerStart
<1>19. CASE WorkerRecv
  BY <1>19 DEF WorkerRecv
<1>20. CASE WorkerPartner
  <2>1. Flags'
    BY <1>20, Zenon DEF Flags, WorkerPartner
  <2>2. TypeOK'
    BY <1>20, <2>1, Zenon DEF Flags, WorkerPartner
  <2>3. PartnerSignalNotLost'
    BY <1>20, <2>1, Zenon DEF Flags, WorkerPartner
  <2>4. PortTypeOwned'
    BY <1>20, <2>1, Zenon DEF Flags, WorkerPartner
  <2>5. WorkerBelongsToCallback'
    BY <1>20, <2>1, Zenon DEF Flags, WorkerPartner
  <2> QED
    BY <1>20, <2>2, <2>3, <2>4, <2>5, Zenon DEF WorkerPartner
<1>21. CASE WorkerQuery \/ WorkerTryLock \/ WorkerScan
  BY <1>21 DEF WorkerQuery, WorkerTryLock, WorkerScan, GoTo
<1>22. CASE WorkerDrp
  <2>1. Flags'
    BY <1>22, Zenon DEF Flags, WorkerDrp, WritePortType
  <2>2. TypeOK'
    BY <1>22, <2>1, Zenon DEF Flags, WorkerDrp, WritePortType
  <2>3. PartnerSignalNotLost'
    BY <1>22, <2>1, Zenon DEF Flags, WorkerDrp, WritePortType
  <2>4. PortTypeOwned'
    BY <1>22, <2>1, Zenon DEF Flags, WorkerDrp, WritePortType
  <2>5. WorkerBelongsToCallback'
    BY <1>22, <2>1, Zenon DEF Flags, WorkerDrp, WritePortType
  <2> QED
    BY <1>22, <2>2, <2>3, <2>4, <2>5, Zenon DEF WorkerDrp
<1>23. CASE PartnerAttached
  <2>1. Flags'
    BY <1>23, Zenon DEF Flags, PartnerAttached
  <2>2. TypeOK'
    BY <1>23, PostKeepsMessages, <2>1 DEF Flags, PartnerAttached
  <2>3. PartnerSignalNotLost'
    BY <1>23, PostKeepsMessages, <2>1, Zenon DEF Flags, PartnerAttached
  <2>4. PortTypeOwned'
    BY <1>23, PostKeepsMessages, <2>1, Zenon DEF Flags, PartnerAttached
  <2>5. WorkerBelongsToCallback'
    BY <1>23, PostKeepsMessages, <2>1, Zenon DEF Flags, PartnerAttached
  <2> QED
    BY <1>23, PostKeepsMessages, <2>2, <2>3, <2>4, <2>5, Zenon DEF PartnerAttached
<1>24. CASE PartnerDetached
  <2>1. Flags'
    BY <1>24, Zenon DEF Flags, PartnerDetached
  <2>2. TypeOK'
    BY <1>24, PostKeepsMessages, <2>1 DEF Flags, PartnerDetached
  <2>3. PartnerSignalNotLost'
    BY <1>24, PostKeepsMessages, <2>1, Zenon DEF Flags, PartnerDetached
  <2>4. PortTypeOwned'
    BY <1>24, PostKeepsMessages, <2>1, Zenon DEF Flags, PartnerDetached
  <2>5. WorkerBelongsToCallback'
    BY <1>24, PostKeepsMessages, <2>1, Zenon DEF Flags, PartnerDetached
  <2> QED
    BY <1>24, PostKeepsMessages, <2>2, <2>3, <2>4, <2>5, Zenon DEF PartnerDetached
<1>25. CASE OtherUevent
  BY <1>25, PostKeepsMessages DEF OtherUevent
<1> QED
  BY <1>1, <1>2, <1>3, <1>4, <1>5, <1>6, <1>7, <1>8, <1>9, <1>10, <1>11, <1>12,
     <1>13, <1>14, <1>15, <1>16, <1>17, <1>18, <1>19, <1>20, <1>21, <1>22, <1>23,
     <1>24, <1>25, <1>26, Zenon
     DEF Next, ClientCall, BinderStep, WorkerStep, Driver

(* The invariant holds in every reachable state.                           *)
THEOREM UsbInvCorrect == Spec => []UsbInv
BY UsbInvInit, UsbInvStep, PTL DEF Spec

(* Reading a message leaves no more unread partner-added messages, and a   *)
(* message of another kind adds none.                                      *)
LEMMA NoNewUnread ==
  ASSUME uevents \in Seq({"add", "change"})
  PROVE  /\ uevents # <<>> => \A i \in DOMAIN Tail(uevents) :
              Tail(uevents)[i] = "add" => \E k \in DOMAIN uevents : uevents[k] = "add"
         /\ \A i \in DOMAIN Post("change") :
              Post("change")[i] = "add" => \E k \in DOMAIN uevents : uevents[k] = "add"
<1>1. ASSUME uevents # <<>>, NEW i \in DOMAIN Tail(uevents), Tail(uevents)[i] = "add"
      PROVE  \E k \in DOMAIN uevents : uevents[k] = "add"
  <2>1. i + 1 \in DOMAIN uevents /\ uevents[i + 1] = "add"
    BY <1>1
  <2> QED
    BY <2>1, Zenon
<1>2. ASSUME NEW i \in DOMAIN Post("change"), Post("change")[i] = "add"
      PROVE  \E k \in DOMAIN uevents : uevents[k] = "add"
  <2>1. i \in DOMAIN uevents /\ uevents[i] = "add"
    BY <1>2 DEF Post
  <2> QED
    BY <2>1, Zenon
<1> QED
  BY <1>1, <1>2, Zenon

(* Every step keeps the record of the news.                                *)
LEMMA NewsStep == UsbInv /\ NewsInv /\ [Next]_vars => NewsInv'
<1> SUFFICES ASSUME UsbInv, NewsInv, [Next]_vars PROVE NewsInv'
  BY Zenon
<1> USE DEF NewsInv, SuccessNeedsNews, Waiting, Unread, binderVars, driverVars
<1>0. /\ uevents \in Seq({"add", "change"})
      /\ worker = "recv" => uevents # <<>>
  BY Zenon DEF UsbInv, TypeOK
<1>1. CASE UNCHANGED vars
  BY <1>1, Zenon DEF vars
<1>2. ASSUME NEW kind \in {"mode", "role"}, SwitchRole(kind) PROVE NewsInv'
  BY <1>2, Zenon DEF SwitchRole
<1>3. CASE SwitchDataOrPower
  BY <1>3, Zenon DEF SwitchDataOrPower
<1>4. CASE SwitchModeWrite
  BY <1>4, Zenon DEF SwitchModeWrite
<1>5. CASE SwitchModeWait \/ TimedOut \/ SpuriousWakeup \/ SwitchModeDrp \/ SwitchRoleNotify
  BY <1>5 DEF SwitchModeWait, TimedOut, SpuriousWakeup, SwitchModeDrp, SwitchRoleNotify
<1>6. CASE SwitchModeWoken
  BY <1>6 DEF SwitchModeWoken
<1>7. CASE ShortCallSection \/ \E n \in {1, 2} : ShortCall(n)
  BY <1>7, Zenon DEF ShortCall, ShortCallSection
<1>8. CASE RegisterCallback \/ UnregisterCallback \/ KillWorker \/ JoinWorker
  BY <1>8, Zenon DEF RegisterCallback, UnregisterCallback, KillWorker, JoinWorker
<1>9. CASE SignalHandler \/ WorkerCheck \/ WorkerEnter \/ WorkerEpoll \/ WorkerFails
           \/ WorkerQuery \/ WorkerTryLock \/ WorkerScan
  BY <1>9 DEF SignalHandler, WorkerCheck, WorkerEnter, WorkerEpoll, WorkerFails,
              WorkerQuery, WorkerTryLock, WorkerScan, GoTo
<1>10. CASE WorkerStart
  BY <1>10 DEF WorkerStart
<1>11. CASE WorkerRecv
  <2>1. uevents # <<>> /\ uevents' = Tail(uevents)
    BY <1>0, <1>11, Zenon DEF WorkerRecv
  <2>2. worker' = "partner" => uevents[1] = "add" /\ 1 \in DOMAIN uevents
    BY <1>0, <1>11, <2>1 DEF WorkerRecv
  <2>3. Unread' => Unread
    BY <1>0, <2>1, <2>2, NoNewUnread, Zenon
  <2> QED
    BY <1>11, <2>3, Zenon DEF WorkerRecv
<1>12. CASE WorkerPartner
  BY <1>12, Zenon DEF WorkerPartner
<1>13. CASE WorkerDrp
  BY <1>13, Zenon DEF WorkerDrp
<1>14. CASE PartnerAttached
  BY <1>14, Zenon DEF PartnerAttached
<1>15. CASE PartnerDetached \/ OtherUevent
  <2>1. uevents' = Post("change") /\ worker' = worker
    BY <1>15, Zenon DEF PartnerDetached, OtherUevent
  <2>2. Unread' => Unread
    BY <1>0, <2>1, NoNewUnread, Zenon
  <2> QED
    BY <1>15, <2>2 DEF PartnerDetached, OtherUevent
<1> QED
  BY <1>1, <1>2, <1>3, <1>4, <1>5, <1>6, <1>7, <1>8, <1>9, <1>10, <1>11, <1>12, <1>13,
     <1>14, <1>15, Zenon
     DEF Next, ClientCall, BinderStep, WorkerStep, Driver

(* A mode switch succeeds only on news of the partner that were unread when*)
(* port_type was written, or came later.                                   *)
THEOREM SuccessNeedsNewsCorrect == Spec => []SuccessNeedsNews
<1>1. Init => NewsInv
  BY Zenon DEF Init, NewsInv, SuccessNeedsNews, Waiting
<1>2. NewsInv => SuccessNeedsNews
  BY Zenon DEF NewsInv
<1> QED
  BY <1>1, <1>2, UsbInvCorrect, NewsStep, PTL DEF Spec

(* switchMode never sleeps through the return of the partner.              *)
THEOREM PartnerSignalNotLostCorrect == Spec => []PartnerSignalNotLost
BY UsbInvCorrect, PTL DEF UsbInv

(* Nothing resets port_type under a mode switch, and a failed one is       *)
(* reported with the port back in dual role.                               *)
THEOREM PortTypeOwnedCorrect == Spec => []PortTypeOwned
BY UsbInvCorrect, PTL DEF UsbInv

(* The worker lives no longer than the callback it was created for.        *)
THEOREM WorkerBelongsToCallbackCorrect == Spec => []WorkerBelongsToCallback
BY UsbInvCorrect, PTL DEF UsbInv

-----------------------------------------------------------------------------
(* The port status, UsbPortStatus.                                         *)
QuerySteps == {"names", "power", "data", "accessory", "mode", "canChangeData", "canChangePower",
          "usbData", "contaminant", "notify"}

Statuses ==
  [result : {"ERROR", "SUCCESS"}, power : Powers \cup {"none"}, data : Datas \cup {"none"},
   mode : {"none", "audio_accessory", "debug_accessory", "dfp", "ufp"},
   canChangeData : BOOLEAN, canChangePower : BOOLEAN,
   usbData : {"unset", "ENABLED", "DISABLED_FORCE"},
   contaminant : {"unset", "DISABLED", "DETECTED", "NOT_DETECTED"}]

StatusTypes == StatusTypeOK /\ portStatus \in Statuses /\ step \in QuerySteps

\* What the running query has read so far is still what the files hold.
Agrees ==
  /\ step # "names" => connected = attached
  /\ step \notin {"names", "power"} => portStatus.power = PortNow.power
  /\ step \notin {"names", "power", "data"} => portStatus.data = PortNow.data
  /\ step = "mode" => attached /\ AccessoryMode = "none"
  /\ step \notin {"names", "power", "data", "accessory", "mode"} =>
       portStatus.mode = PortNow.mode
  /\ step \in {"canChangePower", "usbData", "contaminant", "notify"} =>
       portStatus.canChangeData = PortNow.canChangeData
  /\ step \in {"usbData", "contaminant", "notify"} =>
       portStatus.canChangePower = PortNow.canChangePower
  /\ step \in {"contaminant", "notify"} =>
       portStatus.usbData = PortNow.usbData /\ portStatus.result = "SUCCESS"
  /\ step = "notify" => portStatus.contaminant = PortNow.contaminant

\* A query nothing will follow has seen no change behind its back.
QueryInv == ~QueryAhead /\ mLock # "free" => Agrees

StatusInv == StatusTypes /\ QueryInv /\ StaleIsTemporary

-----------------------------------------------------------------------------
\* The fields of the status that the files stand for.
LEMMA PortFields ==
  /\ PortNow.result = "SUCCESS"
  /\ PortNow.power = (IF attached THEN PowerRole ELSE "none")
  /\ PortNow.data = (IF attached THEN DataRole ELSE "none")
  /\ PortNow.mode = (IF ~attached THEN "none"
                     ELSE IF AccessoryMode # "none" THEN AccessoryMode ELSE ModeOfDataRole)
  /\ PortNow.canChangeData = canSwitchRole
  /\ PortNow.canChangePower = canSwitchRole
  /\ PortNow.usbData = UsbDataStatus
  /\ PortNow.contaminant = Contaminant
BY Zenon DEF PortNow

\* A status with the fields of the port's is the port's.
LEMMA SameStatus ==
  ASSUME NEW s \in Statuses,
         s.result = PortNow.result, s.power = PortNow.power, s.data = PortNow.data,
         s.mode = PortNow.mode, s.canChangeData = PortNow.canChangeData,
         s.canChangePower = PortNow.canChangePower, s.usbData = PortNow.usbData,
         s.contaminant = PortNow.contaminant
  PROVE  s = PortNow
<1>1. s = [result |-> s.result, power |-> s.power, data |-> s.data, mode |-> s.mode,
           canChangeData |-> s.canChangeData, canChangePower |-> s.canChangePower,
           usbData |-> s.usbData, contaminant |-> s.contaminant]
  BY Zenon DEF Statuses
<1> QED BY <1>1, PortFields, Zenon DEF PortNow

\* The status the files stand for changes only with the files.
LEMMA PortSame ==
  ASSUME UNCHANGED <<attached, partnerFiles, usbData, water>>
  PROVE  /\ PortNow' = PortNow /\ PowerRole' = PowerRole /\ DataRole' = DataRole
         /\ AccessoryMode' = AccessoryMode /\ ModeOfDataRole' = ModeOfDataRole
         /\ canSwitchRole' = canSwitchRole /\ UsbDataStatus' = UsbDataStatus
         /\ Contaminant' = Contaminant
BY DEF PortNow, PowerRole, DataRole, AccessoryMode, ModeOfDataRole, canSwitchRole,
       UsbDataStatus, Contaminant

\* What the files can be turned into.
LEMMA ReadTypes ==
  ASSUME StatusTypeOK
  PROVE  /\ PowerRole \in Powers /\ DataRole \in Datas
         /\ AccessoryMode \in {"none", "audio_accessory", "debug_accessory"}
         /\ ModeOfDataRole \in {"dfp", "ufp"} /\ canSwitchRole \in BOOLEAN
         /\ UsbDataStatus \in {"ENABLED", "DISABLED_FORCE"}
         /\ Contaminant \in {"DISABLED", "DETECTED", "NOT_DETECTED"}
BY Zenon DEF StatusTypeOK, PowerRole, DataRole, AccessoryMode, ModeOfDataRole, canSwitchRole,
       UsbDataStatus, Contaminant

\* The service starts without a query, and nothing has been reported.
LEMMA StatusInit ==
  ASSUME PortInit
  PROVE  StatusInv
<1> USE PortAssumption DEF PortInit
<1>1. StatusTypeOK
  <2>1. partnerFiles \in [power : Powers, data : Datas, accessory : Accessories, pd : BOOLEAN]
    BY Zenon
  <2>2. usbData \in BOOLEAN /\ water \in BOOLEAN /\ owes \in BOOLEAN /\ connected \in BOOLEAN
    BY Zenon
  <2>3. messages \in 0 .. MaxMessages /\ changes \in 0 .. MaxChanges
    OBVIOUS
  <2> QED BY <2>1, <2>2, <2>3, Zenon DEF StatusTypeOK
<1>2. portStatus \in Statuses /\ step \in QuerySteps
  BY Zenon DEF Statuses, QuerySteps, Blank
<1> QED BY <1>1, <1>2, Zenon DEF StatusInv, StatusTypes, QueryInv, StaleIsTemporary

-----------------------------------------------------------------------------
\* A read sets its field to what the file holds now and goes on.
LEMMA ReadKeeps ==
  ASSUME StatusInv, QueryStep, ~Notify
  PROVE  StatusInv'
<1> USE DEF Query, Set
<1>1. /\ mLock # "free" /\ mLock' = mLock
      /\ UNCHANGED <<attached, partnerFiles, usbData, water, owes, changes, messages,
                     workThread, binderThread, reported>>
  BY Zenon DEF QueryStep, ReadNames, ReadPower, ReadData, ReadAccessory, ReadMode,
         ReadCanChangeData, ReadCanChangePower, ReadUsbData, ReadContaminant, fileVars
<1>2. connected' \in BOOLEAN /\ portStatus' \in Statuses /\ step' \in QuerySteps
  <2>1. /\ connected \in BOOLEAN /\ attached \in BOOLEAN
        /\ portStatus \in Statuses /\ step \in QuerySteps
    BY Zenon DEF StatusInv, StatusTypes, StatusTypeOK
  <2>2. StatusTypeOK
    BY Zenon DEF StatusInv, StatusTypes
  <2> USE ReadTypes, <2>1, <2>2 DEF QuerySteps
  <2>3. CASE ReadNames BY <2>3 DEF ReadNames
  <2>4. CASE ReadPower BY <2>4 DEF ReadPower, Statuses
  <2>5. CASE ReadData BY <2>5 DEF ReadData, Statuses
  <2>6. CASE ReadAccessory BY <2>6 DEF ReadAccessory, Statuses
  <2>7. CASE ReadMode BY <2>7 DEF ReadMode, Statuses
  <2>8. CASE ReadCanChangeData BY <2>8 DEF ReadCanChangeData, Statuses
  <2>9. CASE ReadCanChangePower BY <2>9 DEF ReadCanChangePower, Statuses
  <2>10. CASE ReadUsbData BY <2>10, ZenonT(30) DEF ReadUsbData, Statuses
  <2>11. CASE ReadContaminant BY <2>11 DEF ReadContaminant, Statuses
  <2> QED BY <2>3, <2>4, <2>5, <2>6, <2>7, <2>8, <2>9, <2>10, <2>11, Zenon DEF QueryStep
<1>3. StatusTypes'
  BY <1>1, <1>2, Zenon DEF StatusInv, StatusTypes, StatusTypeOK
<1>4. ASSUME Agrees PROVE Agrees'
  <2>1. /\ portStatus \in Statuses /\ connected \in BOOLEAN /\ attached \in BOOLEAN
        /\ StatusTypeOK
    BY Zenon DEF StatusInv, StatusTypes, StatusTypeOK
  <2>2. PortNow' = PortNow /\ AccessoryMode' = AccessoryMode
    BY <1>1, PortSame, Zenon
  <2> USE <1>1, <1>4, <2>1, <2>2, PortFields DEF Agrees, Statuses
  <2>3. CASE ReadNames BY <2>3 DEF ReadNames
  <2>4. CASE ReadPower BY <2>4 DEF ReadPower
  <2>5. CASE ReadData BY <2>5 DEF ReadData
  <2>6. CASE ReadAccessory BY <2>6 DEF ReadAccessory
  <2>7. CASE ReadMode BY <2>7 DEF ReadMode
  <2>8. CASE ReadCanChangeData BY <2>8 DEF ReadCanChangeData, canSwitchRole
  <2>9. CASE ReadCanChangePower BY <2>9 DEF ReadCanChangePower, canSwitchRole
  <2>10. CASE ReadUsbData BY <2>10 DEF ReadUsbData
  <2>11. CASE ReadContaminant BY <2>11 DEF ReadContaminant
  <2> QED BY <2>3, <2>4, <2>5, <2>6, <2>7, <2>8, <2>9, <2>10, <2>11, Zenon DEF QueryStep
<1>5. QueryInv'
  BY <1>1, <1>4, Zenon DEF StatusInv, QueryInv, QueryAhead
<1>6. StaleIsTemporary'
  BY <1>1, Zenon DEF StaleIsTemporary
<1> QED BY <1>3, <1>5, <1>6, Zenon DEF StatusInv

\* notifyPortStatusChange: the status reported is right unless a query follows.
LEMMA NotifyKeeps ==
  ASSUME StatusInv, Notify
  PROVE  StatusInv'
<1> USE DEF Notify, fileVars
<1>1. StatusTypes'
  BY Zenon DEF StatusInv, StatusTypes, StatusTypeOK
<1>2. QueryInv'
  BY Zenon DEF QueryInv
<1>3. StaleIsTemporary'
  <2> SUFFICES ASSUME ~QueryAhead' PROVE reported' = PortNow'
    BY Zenon DEF StaleIsTemporary
  <2>1. ~QueryAhead
    BY Zenon DEF QueryAhead, StatusInv, StatusTypes, StatusTypeOK
  <2>2. Agrees /\ portStatus \in Statuses
    BY <2>1, Zenon DEF StatusInv, QueryInv, StatusTypes
  <2>3. portStatus = PortNow
    BY <2>2, SameStatus, PortFields, Zenon DEF Agrees
  <2>4. PortNow' = PortNow
    BY PortSame, Zenon
  <2> QED BY <2>3, <2>4, Zenon
<1> QED BY <1>1, <1>2, <1>3, Zenon DEF StatusInv

\* A query that begins has read nothing that could be out of date.
LEMMA BeginKeeps ==
  ASSUME StatusInv, WorkerLock \/ BinderLock
  PROVE  StatusInv'
<1> USE DEF WorkerLock, BinderLock, BeginQuery, fileVars
<1>1. StatusTypes'
  <2>1. portStatus' \in Statuses /\ step' \in QuerySteps
    <3>1. Blank \in Statuses
      BY Zenon DEF Blank, Statuses
    <3> QED BY <3>1, Zenon DEF QuerySteps
  <2>2. connected' \in BOOLEAN
    BY Zenon
  <2>3. /\ mLock' \in {"free", "worker", "binder"}
        /\ workThread' \in {"epoll", "query", "holds"}
        /\ (workThread' = "holds" <=> mLock' = "worker")
        /\ binderThread' \in {"idle", "query", "holds", "ack"}
        /\ (binderThread' = "holds" <=> mLock' = "binder")
    BY Zenon DEF StatusInv, StatusTypes, StatusTypeOK
  <2> QED BY <2>1, <2>2, <2>3, Zenon DEF StatusInv, StatusTypes, StatusTypeOK
<1>2. step' = "names" /\ mLock' # "free"
  BY Zenon
<1>3. Agrees'
  BY <1>2, Zenon DEF Agrees
<1> QED BY <1>1, <1>2, <1>3, Zenon DEF StatusInv, QueryInv, StaleIsTemporary

\* Everything that changes a file leaves a query ahead.
LEMMA OtherKeeps ==
  ASSUME StatusInv,
         \/ ReceiveUevent \/ QueryPortStatusEnd \/ QueryPortStatus
         \/ EnableContaminantPresenceDetection
         \/ \E enable \in BOOLEAN : EnableUsbData(enable)
         \/ PortDriver \/ SendUevent
  PROVE  StatusInv'
<1> USE PortAssumption
<1>1. CASE PortDriver
  <2>1. owes' /\ UNCHANGED <<usbData, messages, queryVars, workThread, binderThread, reported>>
        /\ changes < MaxChanges /\ changes' = changes + 1
    BY <1>1, Zenon DEF PortDriver, Attach, Detach, SwapPower, SwapData, WaterChange, Change
  <2>2. owes' = TRUE
    BY <1>1, Zenon DEF PortDriver, Attach, Detach, SwapPower, SwapData, WaterChange, Change
  <2>3. attached' \in BOOLEAN /\ water' \in BOOLEAN
        /\ partnerFiles' \in [power : Powers, data : Datas, accessory : Accessories, pd : BOOLEAN]
    BY <1>1, Zenon DEF PortDriver, Attach, Detach, SwapPower, SwapData, WaterChange,
                StatusInv, StatusTypes, StatusTypeOK
  <2>4. owes' \in BOOLEAN
    BY <2>2, Zenon
  <2>5. changes' \in 0 .. MaxChanges
    BY <2>1 DEF StatusInv, StatusTypes, StatusTypeOK
  <2>6. StatusTypes'
    BY <2>1, <2>3, <2>4, <2>5, Zenon DEF StatusInv, StatusTypes, StatusTypeOK, queryVars
  <2> QED BY <2>1, <2>6, Zenon DEF StatusInv, QueryInv, StaleIsTemporary, QueryAhead
<1>2. CASE SendUevent
  <2>1. messages' > 0 /\ messages' \in 0 .. MaxMessages
    BY <1>2 DEF SendUevent, StatusInv, StatusTypes, StatusTypeOK
  <2>2. owes' \in BOOLEAN
    BY <1>2, Zenon DEF SendUevent
  <2>3. StatusTypes'
    BY <1>2, <2>1, <2>2 DEF SendUevent, StatusInv, StatusTypes, StatusTypeOK, queryVars
  <2> QED BY <2>1, <2>3, Zenon DEF StatusInv, QueryInv, StaleIsTemporary, QueryAhead
<1>3. CASE ReceiveUevent
  <2>1. StatusTypes'
    BY <1>3 DEF ReceiveUevent, StatusInv, StatusTypes, StatusTypeOK, queryVars, fileVars
  <2> QED BY <1>3, <2>1, Zenon DEF ReceiveUevent, StatusInv, QueryInv, StaleIsTemporary, QueryAhead
<1>4. CASE QueryPortStatus \/ EnableContaminantPresenceDetection
  <2>1. StatusTypes'
    BY <1>4 DEF QueryPortStatus, EnableContaminantPresenceDetection, StatusInv,
                StatusTypes, StatusTypeOK, queryVars, fileVars
  <2> QED BY <1>4, <2>1, Zenon DEF QueryPortStatus, EnableContaminantPresenceDetection, StatusInv,
                            QueryInv, StaleIsTemporary, QueryAhead
<1>5. ASSUME NEW enable \in BOOLEAN, EnableUsbData(enable) PROVE StatusInv'
  <2>1. StatusTypes'
    BY <1>5 DEF EnableUsbData, StatusInv, StatusTypes, StatusTypeOK, queryVars
  <2> QED BY <1>5, <2>1, Zenon DEF EnableUsbData, StatusInv, QueryInv, StaleIsTemporary, QueryAhead
<1>6. CASE QueryPortStatusEnd
  <2> USE <1>6 DEF QueryPortStatusEnd, queryVars, fileVars
  <2>1. StatusTypes'
    BY Zenon DEF StatusInv, StatusTypes, StatusTypeOK
  <2>2. PortNow' = PortNow
    BY PortSame, Zenon
  <2>3. QueryInv'
    BY Zenon DEF QueryInv
  <2>4. StaleIsTemporary'
    BY <2>2, Zenon DEF StatusInv, StaleIsTemporary, QueryAhead
  <2> QED BY <2>1, <2>3, <2>4, Zenon DEF StatusInv
<1> QED BY <1>1, <1>2, <1>3, <1>4, <1>5, <1>6, Zenon

\* Every step of the worker, the binder thread and the driver keeps the
\* invariant.
LEMMA StatusStep ==
  ASSUME StatusInv, [PortNext]_portVars
  PROVE  StatusInv'
<1>1. CASE QueryStep
  <2>1. CASE Notify BY <2>1, NotifyKeeps
  <2>2. CASE ~Notify BY <1>1, <2>2, ReadKeeps
  <2> QED BY <2>1, <2>2, Zenon
<1>2. CASE WorkerLock \/ BinderLock
  BY <1>2, BeginKeeps, Zenon
<1>3. CASE UNCHANGED portVars
  <2> USE <1>3 DEF portVars, fileVars, queryVars
  <2>1. PortNow' = PortNow /\ AccessoryMode' = AccessoryMode
    BY PortSame, Zenon
  <2>2. StatusTypes'
    BY ZenonT(30) DEF StatusInv, StatusTypes, StatusTypeOK
  <2>3. QueryInv'
    BY <2>1, Zenon DEF StatusInv, QueryInv, QueryAhead, Agrees
  <2>4. StaleIsTemporary'
    BY <2>1, Zenon DEF StatusInv, StaleIsTemporary, QueryAhead
  <2> QED BY <2>2, <2>3, <2>4, Zenon DEF StatusInv
<1> QED BY <1>1, <1>2, <1>3, OtherKeeps, Zenon DEF PortNext

\* queryVersionHelper and the uevent worker: however reads, changes, calls and
\* lost messages interleave, a status that differs from the port is followed
\* by another query.
THEOREM StaleIsTemporaryCorrect == PortSpec => []StaleIsTemporary
<1>1. PortInit => StatusInv
  BY StatusInit, Zenon
<1>2. StatusInv /\ [PortNext]_portVars => StatusInv'
  BY StatusStep, Zenon
<1>3. StatusInv => StaleIsTemporary
  BY Zenon DEF StatusInv
<1> QED BY <1>1, <1>2, <1>3, PTL DEF PortSpec
=============================================================================
