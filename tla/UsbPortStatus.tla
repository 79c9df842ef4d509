--------------------------- MODULE UsbPortStatus ---------------------------
(***************************************************************************)
(* What the USB HAL reports of the port (aidl/usb/Usb.cpp).                *)
(*                                                                         *)
(* A status is put together from seven reads of sysfs files, one after the *)
(* other, while the type-C driver goes on changing them: a status may mix  *)
(* old and new values, or end with an error because the partner left       *)
(* half-way.  The worker takes a status for every message of the uevent    *)
(* socket, the binder thread for queryPortStatus, enableUsbData and        *)
(* enableContaminantPresenceDetection; both do it in queryVersionHelper,   *)
(* from the first read to the notification under mLock.                    *)
(*                                                                         *)
(* A callback is registered and the worker runs (module Usb models how     *)
(* they come and go, and what the worker does to the port after a query).  *)
(***************************************************************************)
EXTENDS Naturals

CONSTANTS
  Partners,          \* what can be attached: [power, data, accessory, pd]
  DetectionDisabled, \* the property that turns contaminant detection off
  MaxMessages,       \* size of the uevent socket: further messages are lost
  MaxChanges         \* bound: changes by the driver and calls of enableUsbData

Powers == {"source", "sink"}
Datas == {"host", "device"}
Accessories == {"none", "analog_audio", "debug"}

ASSUME PortAssumption ==
  /\ Partners \subseteq [power : Powers, data : Datas, accessory : Accessories, pd : BOOLEAN]
  /\ DetectionDisabled \in BOOLEAN
  /\ MaxMessages \in Nat \ {0} /\ MaxChanges \in Nat

VARIABLES
  attached,      \* the driver: the -partner directory exists
  partnerFiles,  \* the driver: its files, and the role files of the port
  usbData,       \* the driver: USB_DATA_PATH
  water,         \* the driver: CONTAMINANT_DETECTION_PATH
  owes,          \* the driver has changed a file and not sent its message yet
  messages,      \* number of messages in the uevent socket
  changes,       \* changes so far
  mLock,         \* the thread inside queryVersionHelper, or "free"
  step,          \* the next read of that query
  connected,     \* what it has read: is there a partner
  portStatus,    \*   and the port's status
  workThread,    \* "epoll", "query" (about to take mLock) or "holds"
  binderThread,  \* "idle", "query", "holds" or "ack"
  call,          \* the last call the binder thread took
  reported       \* the status the callback was given last

fileVars == <<attached, partnerFiles, water, owes, changes>>
queryVars == <<mLock, step, connected, portStatus>>
portVars == <<fileVars, usbData, messages, queryVars, workThread, binderThread, call, reported>>

\* The fields of a PortStatus before anything is read.
Blank == [result |-> "ERROR", power |-> "none", data |-> "none", mode |-> "none",
          canChangeData |-> FALSE, canChangePower |-> FALSE, usbData |-> "unset",
          contaminant |-> "unset"]
Nothing == [Blank EXCEPT !.result = "none"]

Calls == {"queryPortStatus", "enableUsbData", "enableContaminantPresenceDetection"}

PortInit ==
  /\ attached \in BOOLEAN /\ partnerFiles \in Partners
  /\ usbData = TRUE /\ water = FALSE
  /\ owes = FALSE /\ messages = 0 /\ changes = 0
  /\ mLock = "free" /\ step = "names" /\ connected = FALSE /\ portStatus = Blank
  /\ workThread = "epoll" /\ binderThread = "idle" /\ call = "none"
  /\ reported = Nothing

-----------------------------------------------------------------------------
\* What each file holds, as getCurrentRoleHelper, canSwitchRoleHelper,
\* getPortStatusHelper and queryMoistureDetectionStatus turn it into a status.
PowerRole == partnerFiles.power
DataRole == partnerFiles.data
AccessoryMode == CASE partnerFiles.accessory = "analog_audio" -> "audio_accessory"
                   [] partnerFiles.accessory = "debug" -> "debug_accessory"
                   [] OTHER -> "none"
ModeOfDataRole == IF partnerFiles.data = "host" THEN "dfp" ELSE "ufp"
canSwitchRole == attached /\ partnerFiles.pd
UsbDataStatus == IF usbData THEN "ENABLED" ELSE "DISABLED_FORCE"
Contaminant == CASE DetectionDisabled -> "DISABLED"
                 [] ~DetectionDisabled /\ water -> "DETECTED"
                 [] OTHER -> "NOT_DETECTED"

\* The status a query reports if nothing changes while it runs.
PortNow ==
  [result |-> "SUCCESS",
   power |-> IF attached THEN PowerRole ELSE "none",
   data |-> IF attached THEN DataRole ELSE "none",
   mode |-> IF ~attached THEN "none"
            ELSE IF AccessoryMode # "none" THEN AccessoryMode ELSE ModeOfDataRole,
   canChangeData |-> canSwitchRole, canChangePower |-> canSwitchRole,
   usbData |-> UsbDataStatus, contaminant |-> Contaminant]

-----------------------------------------------------------------------------
\* One step of the query that holds mLock.
Query(at, to) ==
  /\ mLock # "free" /\ step = at
  /\ step' = to
  /\ UNCHANGED <<fileVars, usbData, messages, mLock, workThread, binderThread, call, reported>>

Set(field, value) == portStatus' = [portStatus EXCEPT ![field] = value] /\ UNCHANGED connected

\* getTypeCPortNamesHelper looks for the -partner entry ...
ReadNames ==
  /\ Query("names", "power")
  /\ connected' = attached /\ UNCHANGED portStatus

\* ... and the three roles are "none" without a partner, whatever their files
\* say.  The power and the data role are files of the port.
ReadPower == Query("power", "data") /\ Set("power", IF connected THEN PowerRole ELSE "none")
ReadData == Query("data", "accessory") /\ Set("data", IF connected THEN DataRole ELSE "none")

\* The mode is the accessory the partner is, if it is one; the partner's file
\* is gone with the partner, which ends getPortStatusHelper with an error.
ReadAccessory ==
  \/ ~connected /\ Query("accessory", "canChangeData") /\ Set("mode", "none")
  \/ connected /\ ~attached /\ Query("accessory", "contaminant")
     /\ UNCHANGED <<connected, portStatus>>
  \/ connected /\ attached /\ AccessoryMode # "none"
     /\ Query("accessory", "canChangeData") /\ Set("mode", AccessoryMode)
  \/ connected /\ attached /\ AccessoryMode = "none"
     /\ Query("accessory", "mode") /\ UNCHANGED <<connected, portStatus>>

\* Otherwise the mode follows from the data role, read a second time.
ReadMode == Query("mode", "canChangeData") /\ Set("mode", ModeOfDataRole)

\* The same file twice; without the partner the answer is no.
ReadCanChangeData ==
  Query("canChangeData", "canChangePower") /\ Set("canChangeData", connected /\ canSwitchRole)
ReadCanChangePower ==
  Query("canChangePower", "usbData") /\ Set("canChangePower", connected /\ canSwitchRole)

\* The last read of getPortStatusHelper, which then returns SUCCESS.
ReadUsbData ==
  /\ Query("usbData", "contaminant")
  /\ portStatus' = [portStatus EXCEPT !.usbData = UsbDataStatus, !.result = "SUCCESS"]
  /\ UNCHANGED connected

\* queryMoistureDetectionStatus, also after an error.
ReadContaminant == Query("contaminant", "notify") /\ Set("contaminant", Contaminant)

-----------------------------------------------------------------------------
\* Mutant: the worker does not wait for mLock, the other query will do.
WorkerTriesLock ==
  /\ workThread = "query"
  /\ IF mLock = "free"
     THEN workThread' = "holds" /\ mLock' = "worker" /\ step' = "names" /\ connected' = FALSE
          /\ portStatus' = Blank
     ELSE workThread' = "epoll" /\ UNCHANGED queryVars
  /\ UNCHANGED <<fileVars, usbData, messages, binderThread, call, reported>>

\* queryVersionHelper takes mLock and begins with an empty status.
BeginQuery(thread) ==
  /\ mLock = "free"
  /\ mLock' = thread /\ step' = "names" /\ connected' = FALSE /\ portStatus' = Blank

WorkerLock ==
  /\ workThread = "query" /\ BeginQuery("worker")
  /\ workThread' = "holds"
  /\ UNCHANGED <<fileVars, usbData, messages, binderThread, call, reported>>

BinderLock ==
  /\ binderThread = "query" /\ BeginQuery("binder")
  /\ binderThread' = "holds"
  /\ UNCHANGED <<fileVars, usbData, messages, workThread, call, reported>>

\* Mutant: the messages that came during the query are thrown away with it.
NotifyDraining ==
  /\ mLock # "free" /\ step = "notify"
  /\ reported' = portStatus
  /\ mLock' = "free" /\ messages' = 0
  /\ workThread' = IF mLock = "worker" THEN "epoll" ELSE workThread
  /\ binderThread' = IF mLock # "binder" THEN binderThread
                     ELSE IF call = "queryPortStatus" THEN "ack" ELSE "idle"
  /\ UNCHANGED <<fileVars, usbData, step, connected, portStatus, call>>

\* notifyPortStatusChange and the end of queryVersionHelper.
Notify ==
  /\ mLock # "free" /\ step = "notify"
  /\ reported' = portStatus
  /\ mLock' = "free"
  /\ workThread' = IF mLock = "worker" THEN "epoll" ELSE workThread
  /\ binderThread' = IF mLock # "binder" THEN binderThread
                     ELSE IF call = "queryPortStatus" THEN "ack" ELSE "idle"
  /\ UNCHANGED <<fileVars, usbData, messages, step, connected, portStatus, call>>

\* queryPortStatus ends with notifyQueryPortStatus, under mLock again.
QueryPortStatusEnd ==
  /\ binderThread = "ack" /\ mLock = "free"
  /\ binderThread' = "idle"
  /\ UNCHANGED <<fileVars, usbData, messages, queryVars, workThread, call, reported>>

\* uevent_event reads one message about the port.
ReceiveUevent ==
  /\ workThread = "epoll" /\ messages > 0
  /\ messages' = messages - 1
  /\ workThread' = "query"
  /\ UNCHANGED <<fileVars, usbData, queryVars, binderThread, call, reported>>

QueryPortStatus ==
  /\ binderThread = "idle"
  /\ call' = "queryPortStatus" /\ binderThread' = "query"
  /\ UNCHANGED <<fileVars, usbData, messages, queryVars, workThread, reported>>

\* enableUsbData writes the file under mLock, or fails to, and then queries.
EnableUsbData(enable) ==
  /\ binderThread = "idle" /\ mLock = "free" /\ changes < MaxChanges
  /\ changes' = changes + 1
  /\ usbData' \in {enable, usbData}
  /\ call' = "enableUsbData" /\ binderThread' = "query"
  /\ UNCHANGED <<attached, partnerFiles, water, owes, messages, queryVars, workThread, reported>>

\* It only acknowledges the call, and queries.
EnableContaminantPresenceDetection ==
  /\ binderThread = "idle" /\ mLock = "free"
  /\ call' = "enableContaminantPresenceDetection" /\ binderThread' = "query"
  /\ UNCHANGED <<fileVars, usbData, messages, queryVars, workThread, reported>>

-----------------------------------------------------------------------------
\* The driver changes a file first and sends a message afterwards; a message
\* that does not fit into the socket is lost.
Change ==
  /\ ~owes /\ changes < MaxChanges
  /\ changes' = changes + 1 /\ owes' = TRUE
  /\ UNCHANGED <<usbData, messages, queryVars, workThread, binderThread, call, reported>>

Attach(p) == Change /\ ~attached /\ attached' = TRUE /\ partnerFiles' = p /\ UNCHANGED water
Detach == Change /\ attached /\ attached' = FALSE /\ UNCHANGED <<partnerFiles, water>>
SwapPower(r) == Change /\ attached /\ partnerFiles' = [partnerFiles EXCEPT !.power = r]
                /\ UNCHANGED <<attached, water>>
SwapData(r) == Change /\ attached /\ partnerFiles' = [partnerFiles EXCEPT !.data = r]
               /\ UNCHANGED <<attached, water>>
WaterChange == Change /\ water' = ~water /\ UNCHANGED <<attached, partnerFiles>>

SendUevent ==
  /\ owes /\ owes' = FALSE
  /\ messages' = IF messages < MaxMessages THEN messages + 1 ELSE messages
  /\ UNCHANGED <<attached, partnerFiles, water, changes, usbData, queryVars, workThread,
                 binderThread, call, reported>>

PortDriver ==
  \/ \E p \in Partners : Attach(p)
  \/ Detach
  \/ \E r \in Powers \ {partnerFiles.power} : SwapPower(r)
  \/ \E r \in Datas \ {partnerFiles.data} : SwapData(r)
  \/ WaterChange

\* The steps of whoever is inside queryVersionHelper.
QueryStep ==
  \/ ReadNames \/ ReadPower \/ ReadData \/ ReadAccessory \/ ReadMode
  \/ ReadCanChangeData \/ ReadCanChangePower \/ ReadUsbData \/ ReadContaminant
  \/ Notify

PortNext ==
  \/ QueryStep
  \/ ReceiveUevent \/ WorkerLock
  \/ BinderLock \/ QueryPortStatusEnd
  \/ QueryPortStatus \/ EnableContaminantPresenceDetection
  \/ \E enable \in BOOLEAN : EnableUsbData(enable)
  \/ PortDriver \/ SendUevent

\* Every thread is scheduled, and the driver sends the message it owes.  mLock
\* need not be fair: whoever keeps taking it keeps reporting.
PortSpec ==
  /\ PortInit /\ [][PortNext]_portVars
  /\ WF_portVars(QueryStep) /\ WF_portVars(ReceiveUevent) /\ WF_portVars(WorkerLock)
  /\ WF_portVars(BinderLock) /\ WF_portVars(QueryPortStatusEnd)
  /\ WF_portVars(SendUevent)

-----------------------------------------------------------------------------
StatusTypeOK ==
  /\ attached \in BOOLEAN
  /\ partnerFiles \in [power : Powers, data : Datas, accessory : Accessories, pd : BOOLEAN]
  /\ usbData \in BOOLEAN /\ water \in BOOLEAN /\ owes \in BOOLEAN
  /\ messages \in 0 .. MaxMessages /\ changes \in 0 .. MaxChanges
  /\ mLock \in {"free", "worker", "binder"}
  /\ connected \in BOOLEAN
  /\ workThread \in {"epoll", "query", "holds"}
  /\ (workThread = "holds" <=> mLock = "worker")
  /\ binderThread \in {"idle", "query", "holds", "ack"}
  /\ (binderThread = "holds" <=> mLock = "binder")

\* Another query will begin: a message is owed, queued or being dealt with,
\* or the binder thread is about to query.
QueryAhead == owes \/ messages > 0 \/ workThread = "query" \/ binderThread = "query"

\* A status that does not agree with the port is never the last one: while
\* what the callback was told differs from the files (torn, outdated or an
\* error because the partner left during the reads), a query is running or
\* ahead, however reads, changes, calls and lost messages interleave.
StaleIsTemporary == reported \in {Nothing, PortNow} \/ QueryAhead \/ mLock # "free"

\* Once the port stays as it is, what the callback was told last is the whole
\* truth about it, for good (if it was told anything or anything changed).
StatusConverges == <>[](reported = PortNow \/ (reported = Nothing /\ changes = 0))
=============================================================================
