---------------------------- MODULE SensorEvents ----------------------------
(***************************************************************************)
(* The AIDL wrapper around the HIDL sensors proxy (aidl/sensors):          *)
(* HalProxyAidl, the event queue wrapper and ConvertUtils.                 *)
(*                                                                         *)
(* A HIDL event carries its payload in an untagged union of Words words;   *)
(* which of them mean something depends on the sensor type, the others     *)
(* hold whatever was there.  An AIDL event carries a tagged payload.  The  *)
(* wrapper converts events of the sub-HALs into AIDL ones, in an array it  *)
(* reuses for every write, and injected AIDL events into HIDL ones, in an  *)
(* uninitialised variable.                                                 *)
(*                                                                         *)
(* Sensor types with the same case in both conversions stand for each      *)
(* other.  The value of a payload word names the type it belongs to and    *)
(* its place there, so that a word taken from elsewhere shows.  The proxy  *)
(* (HalProxy, not part of this repository) writes one batch at a time.     *)
(***************************************************************************)
EXTENDS Integers, Sequences

CONSTANTS
  StreamTypes, \* the types of the events the sub-HALs send
  QueueSize,   \* capacity of the framework's event queue
  MAX_RECEIVE_BUFFER_EVENT_COUNT,  \* size of the reused array
  MaxBatch     \* bound: events in one write

Words == 16
Listed == {"META_DATA", "ACCELEROMETER", "GAME_ROTATION_VECTOR", "ROTATION_VECTOR",
           "ACCELEROMETER_UNCALIBRATED", "LIGHT", "STEP_COUNTER", "HEART_RATE", "POSE_6DOF",
           "DYNAMIC_SENSOR_META", "ADDITIONAL_INFO", "HEAD_TRACKER", "PRIVATE"}
\* A type below DEVICE_PRIVATE_BASE that neither conversion knows.
Types == Listed \cup {"UNKNOWN"}

\* No write has more events than the array has slots.  The wrapper does not test
\* this; it relies on its caller, the proxy.
ASSUME SensorConstants ==
  /\ StreamTypes \subseteq Types /\ QueueSize \in Nat \ {0}
  /\ MAX_RECEIVE_BUFFER_EVENT_COUNT \in Nat /\ MaxBatch \in 1 .. MAX_RECEIVE_BUFFER_EVENT_COUNT

Zero == <<"zero", 0>>
Junk == <<"junk", 0>>      \* an uninitialised word
WordOf(type, k) == <<type, k>>

-----------------------------------------------------------------------------
\* The cases of convertToAidlEvent: the tag of the payload, and how many words
\* of the union it takes.
AidlTag(type) ==
  CASE type = "META_DATA" -> "meta"
    [] type = "ACCELEROMETER" -> "vec3"
    [] type = "GAME_ROTATION_VECTOR" -> "vec4"
    [] type \in {"ROTATION_VECTOR", "PRIVATE"} -> "data"
    [] type = "ACCELEROMETER_UNCALIBRATED" -> "uncal"
    [] type = "LIGHT" -> "scalar"
    [] type = "STEP_COUNTER" -> "stepCount"
    [] type = "HEART_RATE" -> "heartRate"
    [] type = "POSE_6DOF" -> "pose6DOF"
    [] type = "DYNAMIC_SENSOR_META" -> "dynamic"
    [] type = "ADDITIONAL_INFO" -> "additional"
    [] type = "HEAD_TRACKER" -> "headTracker"

WordsToAidl(type) ==
  CASE type \in {"META_DATA", "LIGHT"} -> 1
    [] type \in {"STEP_COUNTER", "HEART_RATE"} -> 2
    [] type \in {"ACCELEROMETER", "GAME_ROTATION_VECTOR"} -> 4
    [] type = "ROTATION_VECTOR" -> 5
    [] type \in {"ACCELEROMETER_UNCALIBRATED", "DYNAMIC_SENSOR_META"} -> 6
    [] type = "HEAD_TRACKER" -> 7
    [] type = "POSE_6DOF" -> 15
    [] type \in {"ADDITIONAL_INFO", "PRIVATE"} -> 16

\* The words an AIDL payload has room for; a struct starts out as zeros.
Room(tag) ==
  CASE tag \in {"meta", "scalar"} -> 1
    [] tag \in {"stepCount", "heartRate"} -> 2
    [] tag \in {"vec3", "vec4"} -> 4
    [] tag \in {"uncal", "dynamic"} -> 6
    [] tag = "headTracker" -> 7
    [] tag = "pose6DOF" -> 15
    [] tag \in {"data", "additional"} -> 16

\* Mutant: a rotation vector is taken for a vector of four words.
WordsToHidlShort(type) ==
  CASE type = "ROTATION_VECTOR" -> 4 [] OTHER -> WordsToAidl(type)

\* The cases of convertToHidlEvent: how many words of the union are written.
WordsToHidl(type) ==
  CASE type \in {"META_DATA", "LIGHT"} -> 1
    [] type \in {"STEP_COUNTER", "HEART_RATE"} -> 2
    [] type \in {"ACCELEROMETER", "GAME_ROTATION_VECTOR"} -> 4
    [] type = "ROTATION_VECTOR" -> 5
    [] type \in {"ACCELEROMETER_UNCALIBRATED", "DYNAMIC_SENSOR_META"} -> 6
    [] type = "HEAD_TRACKER" -> 7
    [] type = "POSE_6DOF" -> 15
    [] type \in {"ADDITIONAL_INFO", "PRIVATE"} -> 16

\* convertToAidlEvent.  Additional info always becomes a payload of int32.
convertToAidlEvent(h) ==
  LET tag == AidlTag(h.type)
  IN  [type |-> h.type, tag |-> tag,
       inner |-> IF tag = "additional" THEN "dataInt32" ELSE "none",
       values |-> [k \in 1 .. Room(tag) |-> IF k <= WordsToAidl(h.type) THEN h.u[k] ELSE Zero]]

\* convertToHidlEvent into an event whose union held u.
convertToHidlEvent(a, u) ==
  [type |-> a.type,
   u |-> [k \in 1 .. Words |-> IF k <= WordsToHidl(a.type) THEN a.values[k] ELSE u[k]]]

Uninitialised == [k \in 1 .. Words |-> Junk]

\* How many words mean something: those of the struct of the type; a rotation
\* vector uses five words of an array.
Meaning(type) ==
  CASE type = "UNKNOWN" -> Words
    [] type = "ROTATION_VECTOR" -> 5
    [] OTHER -> Room(AidlTag(type))

\* What a sub-HAL sends: the words of the type, and something after them.
HidlEvent(type) ==
  [type |-> type,
   u |-> [k \in 1 .. Words |-> IF k <= Meaning(type) THEN WordOf(type, k) ELSE Junk]]

\* What the framework sends: a payload that fits the type.
AidlEvent(type, inner) ==
  [type |-> type, tag |-> AidlTag(type), inner |-> inner,
   values |-> [k \in 1 .. Room(AidlTag(type)) |->
                 IF k <= Meaning(type) THEN WordOf(type, k) ELSE Zero]]
Inner(type) == IF type = "ADDITIONAL_INFO" THEN {"dataInt32", "dataFloat"} ELSE {"none"}

-----------------------------------------------------------------------------
VARIABLES
  service,    \* "up" or "aborted" (a CHECK failed)
  mQueue,     \* the event queue shared with the framework
  mIntermediateEventBuffer,
  writing,    \* events of a writeBlocking that waits for room, 0 if none
  accepted,   \* history: the sub-HAL's events whose write succeeded, not yet read
  pending,    \* history: the events of the waiting write
  injected    \* the last injected event as sent and as handed to the proxy

sensorVars == <<service, mQueue, mIntermediateEventBuffer, writing, accepted, pending, injected>>
queueVars == <<mQueue, mIntermediateEventBuffer, writing, accepted, pending>>

None == [type |-> "none", tag |-> "none", inner |-> "none", values |-> <<>>]
NoInjection == [sent |-> None, got |-> [type |-> "none", u |-> Uninitialised]]
Slots == 1 .. MAX_RECEIVE_BUFFER_EVENT_COUNT
EmptyBuffer == [i \in Slots |-> None]

SensorInit ==
  /\ service = "up"
  /\ mQueue = <<>> /\ mIntermediateEventBuffer = EmptyBuffer
  /\ writing = 0 /\ accepted = <<>> /\ pending = <<>>
  /\ injected = NoInjection

\* initialize: the framework's new queue starts empty and a new wrapper is made.
Initialize ==
  /\ service = "up"
  /\ mQueue' = <<>> /\ mIntermediateEventBuffer' = EmptyBuffer
  /\ writing' = 0 /\ accepted' = <<>> /\ pending' = <<>>
  /\ UNCHANGED <<service, injected>>

\* The batch goes through the array, whose other slots keep older events.
Converted(events) ==
  [i \in Slots |-> IF i <= Len(events) THEN convertToAidlEvent(events[i])
                   ELSE mIntermediateEventBuffer[i]]

CheckFails ==
  /\ service' = "aborted"
  /\ UNCHANGED <<queueVars, injected>>

Knows(events) == \A i \in DOMAIN events : events[i].type \in Listed
RoomFor(n) == Len(mQueue) + n <= QueueSize

\* Mutant: what fits of a batch is written.
WritePartly(events) ==
  /\ service = "up" /\ writing = 0 /\ Knows(events)
  /\ mIntermediateEventBuffer' = Converted(events)
  /\ mQueue' = mQueue \o SubSeq(Converted(events), 1, IF RoomFor(Len(events)) THEN Len(events)
                                                      ELSE QueueSize - Len(mQueue))
  /\ accepted' = IF RoomFor(Len(events)) THEN accepted \o events ELSE accepted
  /\ UNCHANGED <<service, writing, pending, injected>>

\* write: all events of the batch or none.
Write(events) ==
  /\ service = "up" /\ writing = 0 /\ Knows(events)
  /\ mIntermediateEventBuffer' = Converted(events)
  /\ IF RoomFor(Len(events))
     THEN /\ mQueue' = mQueue \o SubSeq(Converted(events), 1, Len(events))
          /\ accepted' = accepted \o events
     ELSE UNCHANGED <<mQueue, accepted>>
  /\ UNCHANGED <<service, writing, pending, injected>>

\* A type neither conversion knows ends the process (CHECK_GE).
WriteUnknown(events) == service = "up" /\ writing = 0 /\ ~Knows(events) /\ CheckFails

\* writeBlocking is a write if there is room; otherwise it converts and then
\* waits for the framework to read ...
WriteBlocking(events) ==
  /\ service = "up" /\ writing = 0 /\ Knows(events) /\ ~RoomFor(Len(events))
  /\ mIntermediateEventBuffer' = Converted(events)
  /\ writing' = Len(events) /\ pending' = events
  /\ UNCHANGED <<service, mQueue, accepted, injected>>

\* ... until there is room, or the time is over.
WriteBlockingEnds ==
  /\ service = "up" /\ writing > 0
  /\ \/ /\ RoomFor(writing)
        /\ mQueue' = mQueue \o SubSeq(mIntermediateEventBuffer, 1, writing)
        /\ accepted' = accepted \o pending
     \/ UNCHANGED <<mQueue, accepted>>
  /\ writing' = 0 /\ pending' = <<>>
  /\ UNCHANGED <<service, mIntermediateEventBuffer, injected>>

\* The framework reads its queue.
FrameworkReads ==
  /\ mQueue # <<>>
  /\ mQueue' = Tail(mQueue) /\ accepted' = Tail(accepted)
  /\ UNCHANGED <<service, mIntermediateEventBuffer, writing, pending, injected>>

-----------------------------------------------------------------------------
\* injectSensorData.
InjectSensorData(type, inner) ==
  /\ service = "up" /\ type \in Listed
  /\ LET sent == AidlEvent(type, inner)
     IN  injected' = [sent |-> sent, got |-> convertToHidlEvent(sent, Uninitialised)]
  /\ UNCHANGED <<service, queueVars>>

InjectUnknown == service = "up" /\ CheckFails

Batches == UNION {[1 .. n -> {HidlEvent(t) : t \in StreamTypes}] : n \in 1 .. MaxBatch}

SensorNext ==
  \/ Initialize
  \/ \E events \in Batches : Write(events) \/ WriteBlocking(events) \/ WriteUnknown(events)
  \/ WriteBlockingEnds \/ FrameworkReads
  \/ \E type \in Listed : \E inner \in Inner(type) : InjectSensorData(type, inner)
  \/ InjectUnknown

SensorSpec == SensorInit /\ [][SensorNext]_sensorVars

-----------------------------------------------------------------------------
\* An AIDL event that says what a HIDL event meant.
SaysTheSame(a, h) ==
  /\ a.type = h.type /\ a.tag = AidlTag(h.type)
  /\ \A k \in 1 .. Len(a.values) :
       a.values[k] = IF k <= Meaning(h.type) THEN WordOf(h.type, k) ELSE Zero

\* The framework reads exactly the events of the writes that succeeded, in
\* order and each saying what the sub-HAL's event meant: nothing of a failed
\* or timed out write, of an older event in the reused array, or of the unused
\* words of the union gets through.
StreamIntact ==
  /\ Len(mQueue) = Len(accepted)
  /\ \A i \in DOMAIN mQueue : SaysTheSame(mQueue[i], accepted[i])

\* Converting an injected event to HIDL and back gives the event again, although
\* the HIDL variable was not initialised; only additional info given as floats
\* comes back as the same words tagged int32.
InjectionIntact ==
  injected # NoInjection =>
    convertToAidlEvent(injected.got)
      = [injected.sent EXCEPT !.inner = IF @ = "dataFloat" THEN "dataInt32" ELSE @]
=============================================================================
