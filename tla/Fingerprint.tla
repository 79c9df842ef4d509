----------------------------- MODULE Fingerprint -----------------------------
(***************************************************************************)
(* The fingerprint HAL, hidl/fingerprint/BiometricsFingerprint.cpp: the    *)
(* constructor that opens the vendor library, the one binder thread that   *)
(* serves the framework, and the vendor library's thread that calls        *)
(* notify(), which passes messages on to the client and turns gestures     *)
(* into key events.                                                        *)
(***************************************************************************)
EXTENDS Integers, Sequences

CONSTANTS
  Clients,                    \* the framework's callback objects
  Settings,                   \* the flags each build of Android.mk defines
  Errors, Infos, Samples,     \* values in the messages of the vendor library
  Results                     \* what its functions return

\* The flags that matter here, and whether a write to the uinput device may fail.
Flags == {"HAS_FINGERPRINT_GESTURES", "CALL_NOTIFY_ON_CANCEL", "USES_PERCENTAGE_SAMPLES",
          "CALL_CANCEL_ON_ENROLL_COMPLETION", "uinput_fails"}

ASSUME FingerprintAssumption ==
  /\ Settings \subseteq SUBSET Flags
  /\ Errors \subseteq Int /\ Infos \subseteq Int /\ Results \subseteq Int
  /\ Samples \subseteq 0 .. 100

VENDOR_BASE == 1000
EVENT_BASE == 10000
SWIPES == {20001, 20002}
FINGERPRINT_ERROR_CANCELED == 5

\* The threads that run notify(): the vendor library's and, where cancel() calls
\* it, the binder thread.
Threads == {"vendor", "binder"}
NoClient == "none"

Msgs ==
  [type : {"error"}, value : Errors \cup {FINGERPRINT_ERROR_CANCELED}]
  \cup [type : {"acquired"}, value : Infos] \cup [type : {"enrolling"}, value : Samples]
  \cup [type : {"removed", "authenticated", "enumerating", "other"}, value : {0}]
NoMsg == [type |-> "other", value |-> 0]

VARIABLES
  flags,      \* the flags of this build
  main,       \* the constructor and main(): "start", "open", "setup", "serving" or "dead"
  instances,  \* objects constructed
  sInstance,  \* whether sInstance is set
  hal,        \* the vendor library: "closed", "missing" or "open"
  hooked,     \* whether it knows notify()
  uinput,     \* the uinput device: "closed", "unusable" or "ready"
  mutex,      \* the holder of mClientCallbackMutex, or "free"
  mClientCallback,
  at,         \* per thread, its place in notify()
  msg,        \* per thread, the message it handles
  target,     \* per thread, the client it calls
  keys,       \* keys reported as pressed
  inbox,      \* per client, the last call it received
  status      \* what the last request of the framework returned

vars == <<flags, main, instances, sInstance, hal, hooked, uinput, mutex, mClientCallback,
          at, msg, target, keys, inbox, status>>
setup == <<flags, main, instances, sInstance, hal, hooked, uinput>>

NoCall == [call |-> "none", result |-> 0, vendorCode |-> 0]

Init ==
  /\ flags \in Settings
  /\ main = "start" /\ instances = 0 /\ sInstance = FALSE
  /\ hal = "closed" /\ hooked = FALSE /\ uinput = "closed"
  /\ mutex = "free" /\ mClientCallback = NoClient
  /\ at = [t \in Threads |-> "idle"] /\ msg = [t \in Threads |-> NoMsg]
  /\ target = [t \in Threads |-> NoClient]
  /\ keys = {} /\ inbox = [c \in Clients |-> NoCall] /\ status = 0

-----------------------------------------------------------------------------
\* Mutant: sInstance is left to getInstance(), which sets it at the end.
ConstructUnset ==
  /\ main = "start"
  /\ instances' = instances + 1 /\ main' = "open"
  /\ UNCHANGED <<flags, sInstance, hal, hooked, uinput, mutex, mClientCallback, at, msg, target,
                 keys, inbox, status>>

\* main() calls getInstance(); the constructor begins.
Construct ==
  /\ main = "start"
  /\ instances' = instances + 1 /\ sInstance' = TRUE /\ main' = "open"
  /\ UNCHANGED <<flags, hal, hooked, uinput, mutex, mClientCallback, at, msg, target,
                 keys, inbox, status>>

\* openHal: the library may be missing, fail to open, or refuse the callback; the
\* constructor goes on in every case.
OpenHal ==
  /\ main = "open"
  /\ \/ hal' = "missing" /\ hooked' = FALSE
     \/ hal' = "open" /\ hooked' \in BOOLEAN
  /\ main' = "setup"
  /\ UNCHANGED <<flags, instances, sInstance, uinput, mutex, mClientCallback, at, msg, target,
                 keys, inbox, status>>

\* Gesture mode is requested and the uinput device made; then the service is
\* registered.  Without the library the request jumps to a pointer that was
\* never set, and the process dies.
SetUp ==
  /\ main = "setup"
  /\ IF "HAS_FINGERPRINT_GESTURES" \in flags
     THEN IF hal = "missing" THEN main' = "dead" /\ UNCHANGED uinput
          ELSE main' = "serving" /\ uinput' \in {"unusable", "ready"}
     ELSE main' = "serving" /\ UNCHANGED uinput
  /\ sInstance' = TRUE
  /\ UNCHANGED <<flags, instances, hal, hooked, mutex, mClientCallback, at, msg, target,
                 keys, inbox, status>>

\* init starts the service again.
Restart ==
  /\ main = "dead"
  /\ main' = "start" /\ instances' = 0 /\ sInstance' = FALSE /\ hal' = "closed"
  /\ UNCHANGED <<flags, hooked, uinput, mutex, mClientCallback, at, msg, target, keys,
                 inbox, status>>

-----------------------------------------------------------------------------
\* Mutant: setNotify does not take the mutex.
SetNotifyUnlocked(c) ==
  /\ main = "serving" /\ at["binder"] = "idle"
  /\ mClientCallback' = c
  /\ UNCHANGED <<setup, mutex, at, msg, target, keys, inbox, status>>

SetNotify(c) ==
  /\ main = "serving" /\ at["binder"] = "idle"
  /\ mutex = "free"
  /\ mClientCallback' = c
  /\ UNCHANGED <<setup, mutex, at, msg, target, keys, inbox, status>>

\* ErrorFilter: the errors that have a RequestStatus; 1 is SYS_UNKNOWN.
ErrorFilter(error) ==
  IF error \in {0, -2, -4, -5, -11, -12, -13, -14, -16, -22, -28, -110} THEN error ELSE 1

\* enroll, postEnroll, enumerate, remove, setActiveGroup, authenticate: one call
\* of the library each.  With REQUEST_FORCE_CALIBRATE enroll first asks it to
\* calibrate and ignores the answer, which makes no difference here.
Request ==
  /\ main = "serving" /\ at["binder"] = "idle" /\ hal = "open"
  /\ \E result \in Results : status' = ErrorFilter(result)
  /\ UNCHANGED <<setup, mutex, mClientCallback, at, msg, target, keys, inbox>>

\* setActiveGroup with a path that is empty, too long or not writable.
BadStorePath ==
  /\ main = "serving" /\ at["binder"] = "idle"
  /\ status' = -22
  /\ UNCHANGED <<setup, mutex, mClientCallback, at, msg, target, keys, inbox>>

\* cancel(); some builds report the cancellation themselves.
Cancel ==
  /\ main = "serving" /\ at["binder"] = "idle" /\ hal = "open"
  /\ \E result \in Results :
       /\ status' = ErrorFilter(result)
       /\ IF "CALL_NOTIFY_ON_CANCEL" \in flags /\ result = 0
          THEN /\ at' = [at EXCEPT !["binder"] = "notify"]
               /\ msg' = [msg EXCEPT !["binder"] =
                            [type |-> "error", value |-> FINGERPRINT_ERROR_CANCELED]]
          ELSE UNCHANGED <<at, msg>>
  /\ UNCHANGED <<setup, mutex, mClientCallback, target, keys, inbox>>

-----------------------------------------------------------------------------
\* The vendor library has a message.
Raise(m) ==
  /\ hooked /\ main # "dead" /\ at["vendor"] = "idle"
  /\ at' = [at EXCEPT !["vendor"] = "notify"]
  /\ msg' = [msg EXCEPT !["vendor"] = m]
  /\ UNCHANGED <<setup, mutex, mClientCallback, target, keys, inbox, status>>

\* VendorErrorFilter and VendorAcquiredFilter: the codes both sides know, the
\* codes of the vendor, and a default for the others.
VendorFilter(value, known, vendor, default) ==
  CASE value \in known -> [result |-> value, vendorCode |-> 0]
    [] value \notin known /\ value >= VENDOR_BASE ->
         [result |-> vendor, vendorCode |-> value - VENDOR_BASE]
    [] OTHER -> [result |-> default, vendorCode |-> 0]

\* The samples an enrolment still needs, where the library reports a percentage.
Remaining(m) == IF "USES_PERCENTAGE_SAMPLES" \in flags THEN 100 - m.value ELSE m.value

\* ERROR_UNABLE_TO_PROCESS is 2 and ERROR_VENDOR 8; ACQUIRED_INSUFFICIENT is 2
\* and ACQUIRED_VENDOR 6.
Translated(m) ==
  CASE m.type = "error" -> VendorFilter(m.value, 1 .. 7, 8, 2)
    [] m.type = "acquired" -> VendorFilter(m.value, 0 .. 5, 6, 2)
    [] m.type = "enrolling" -> [result |-> Remaining(m), vendorCode |-> 0]
    [] OTHER -> [result |-> m.value, vendorCode |-> 0]

IsEvent(m) == m.type = "acquired" /\ m.value > EVENT_BASE

\* notify(), to where it knows what to do: getInstance() makes an object if
\* there is none; without a client, and for a message or an event of no known
\* kind, there is nothing to do.
NextStep(m) ==
  CASE mClientCallback = NoClient -> "return"
    [] mClientCallback # NoClient /\ IsEvent(m) ->
         IF "HAS_FINGERPRINT_GESTURES" \in flags /\ m.value \in SWIPES THEN "press" ELSE "return"
    [] mClientCallback # NoClient /\ m.type = "other" -> "return"
    [] mClientCallback # NoClient /\ m.type = "enrolling" /\ Remaining(m) = 0
         /\ "CALL_CANCEL_ON_ENROLL_COMPLETION" \in flags -> "cancel"
    [] OTHER -> "call"

NotifyLock(t) ==
  /\ at[t] = "notify" /\ main # "dead"
  /\ instances' = IF sInstance THEN instances ELSE instances + 1
  /\ mutex = "free" /\ mutex' = t
  /\ at' = [at EXCEPT ![t] = NextStep(msg[t])]
  /\ target' = [target EXCEPT ![t] = mClientCallback]
  /\ UNCHANGED <<flags, main, sInstance, hal, hooked, uinput, mClientCallback, msg, keys, inbox,
                 status>>

\* A finished enrolment is cancelled in some builds, before the client hears of
\* it and with the mutex held.  The library is expected not to answer with a
\* message on the same thread, which would wait for the mutex it holds.
CancelOnCompletion(t) ==
  /\ at[t] = "cancel"
  /\ at' = [at EXCEPT ![t] = "call"]
  /\ UNCHANGED <<setup, mutex, mClientCallback, msg, target, keys, inbox, status>>

\* The client is called with the mutex held.
CallClient(t) ==
  /\ at[t] = "call"
  /\ LET r == Translated(msg[t])
     IN inbox' = [inbox EXCEPT ![target[t]] =
                    [call |-> msg[t].type, result |-> r.result, vendorCode |-> r.vendorCode]]
  /\ at' = [at EXCEPT ![t] = "return"]
  /\ UNCHANGED <<setup, mutex, mClientCallback, msg, target, keys, status>>

\* Mutant: the key is not released.
AfterWriteNoRelease(step) ==
  CASE step = "press" -> "flush" [] step = "flush" -> "return" [] OTHER -> "return"

\* handleEvent: press and flush, release and flush.
AfterWrite(step) ==
  CASE step = "press" -> "flush" [] step = "flush" -> "release"
    [] step = "release" -> "flush2" [] step = "flush2" -> "return"

\* One write of handleEvent; a failure returns.
WriteKey(t) ==
  /\ at[t] \in {"press", "flush", "release", "flush2"}
  /\ \/ /\ uinput = "ready"
        /\ keys' = CASE at[t] = "press" -> keys \cup {msg[t].value}
                     [] at[t] = "release" -> keys \ {msg[t].value}
                     [] OTHER -> keys
        /\ at' = [at EXCEPT ![t] = AfterWrite(at[t])]
     \/ /\ uinput # "ready" \/ "uinput_fails" \in flags
        /\ at' = [at EXCEPT ![t] = "return"] /\ UNCHANGED keys
  /\ UNCHANGED <<setup, mutex, mClientCallback, msg, target, inbox, status>>

\* Mutant: returning without a client keeps the mutex.
NotifyReturnKeeping(t) ==
  /\ at[t] = "return"
  /\ at' = [at EXCEPT ![t] = "idle"]
  /\ mutex' = IF target[t] = NoClient THEN mutex ELSE "free"
  /\ msg' = [msg EXCEPT ![t] = NoMsg] /\ target' = [target EXCEPT ![t] = NoClient]
  /\ UNCHANGED <<setup, mClientCallback, keys, inbox, status>>

NotifyReturn(t) ==
  /\ at[t] = "return"
  /\ at' = [at EXCEPT ![t] = "idle"]
  /\ mutex' = "free"
  /\ msg' = [msg EXCEPT ![t] = NoMsg] /\ target' = [target EXCEPT ![t] = NoClient]
  /\ UNCHANGED <<setup, mClientCallback, keys, inbox, status>>

NotifyStep(t) ==
  \/ NotifyLock(t) \/ CancelOnCompletion(t) \/ CallClient(t) \/ WriteKey(t) \/ NotifyReturn(t)

Next ==
  \/ Construct \/ OpenHal \/ SetUp \/ Restart
  \/ \E c \in Clients \cup {NoClient} : SetNotify(c)
  \/ Request \/ BadStorePath \/ Cancel
  \/ \E m \in Msgs : Raise(m)
  \/ \E t \in Threads : NotifyStep(t)

\* The constructor runs on, and so does a thread inside notify() that does not
\* wait for the mutex.
Fairness ==
  /\ WF_vars(Construct \/ OpenHal \/ SetUp \/ Restart)
  /\ \A t \in Threads : WF_vars(NotifyStep(t))

Spec == Init /\ [][Next]_vars /\ Fairness

-----------------------------------------------------------------------------
\* A message that arrives while the constructor still runs finds the object:
\* notify() never constructs a second one, which would open the library again.
OneInstance == instances <= 1

\* The client that notify() calls, or will call after the library's cancel(), is
\* the one registered: once setNotify() has returned, the previous client is not
\* called any more.
CallsCurrentClient ==
  \A t \in Threads :
    at[t] \in {"cancel", "call"} => mutex = t /\ target[t] = mClientCallback

\* Outside handleEvent no key is down, as long as the uinput device accepts the
\* writes: a gesture presses and releases its key, and two gestures never mix.
NoKeyLeftDown ==
  "uinput_fails" \notin flags /\ (\A t \in Threads : at[t] \notin {"flush", "release"})
    => keys = {}

\* Every call of notify() returns, whatever the framework does meanwhile, if the
\* vendor library's thread is the only one in notify().
NotifyReturns ==
  \A t \in Threads :
    (at[t] = "notify" /\ "CALL_NOTIFY_ON_CANCEL" \notin flags) ~> (at[t] = "idle")
=============================================================================
