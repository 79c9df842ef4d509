# Formal models of the exynos9810 common device tree

This directory holds TLA+ models of the programs in this repository: the
hardware abstraction layers (HALs) under `aidl/` and `hidl/` and the image tools
under `dtbhtool/`. TLC checks them on small instances and TLAPS proves their
invariants and action properties for every value of the constants. Paths below are
relative to `src/`.

`PROJECT.json` is the index: components, runs, the mutants that show each property
to be sensitive to the code, the map from definitions to source lines, findings,
hazards and theorems.

## 1. Inventory

| Part | Source | State | Operations | What is hard |
|---|---|---|---|---|
| Interaction boost | `aidl/power-libperfmgr/InteractionHandler.cpp` | `mState`, `mDurationMs`, `mLastTimespec`, event fd, hint INTERACTION | `Init`, `Exit`, `Acquire`, thread `Routine` (`WaitForIdle`, `Release`) | wake-ups and aborts across a mutex, a condition variable and an event fd; unsigned arithmetic; an unlocked read |
| ADPF sessions | `PowerHintSession.cpp` | activity, clamps, `mLastUpdatedTime`, `mIsMonitoringStale`, looper queue | constructor, destructor, `pause`, `resume`, `close`, `reportActualWorkDuration`, `updateTargetWorkDuration`, PID controller, stale handler | binder thread against monitor thread; handler in flight during `close` and after the destructor; refused system calls; deadline boundary; integer arithmetic of the controller |
| Session manager | `PowerSessionManager.cpp` | `mSessions`, `mTidRefCountMap`, `mActive` | add, remove, `handleMessage` | shared and duplicate tids, failing task profiles, missing re-evaluation |
| Modes and boosts | `Power.cpp`, `PowerExt.cpp`, `service.cpp`, the `.rc` file | mode flags, hints, `vendor.powerhal.*` properties | constructor, `setMode`, `setBoost`, init triggers | crash between two hints or before a property is written; init's restart |
| USB | `aidl/usb/Usb.cpp` | callback, `mPartnerUp`, `destroyThread`, three mutexes, `port_type` | `switchRole`, `setCallback`, status calls, worker thread | lost signals, stale uevents, timeouts, two writers of one node, join under a lock; a status read file by file while the driver changes the files |
| Vibrator | `aidl/vibrator/Vibrator.cpp` | motor, trigger, intensity, detached threads | `on`, `off`, `perform`, `setAmplitude`, `setExternalControl` | completions of replaced vibrations, stale trigger, failing node writes, narrow integers |
| Fingerprint | `hidl/fingerprint/BiometricsFingerprint.cpp` | instance, client, mutex, uinput device | constructor, `setNotify`, requests, `cancel`, `notify` | callbacks during construction, replaced clients, four-step key events, code ranges |
| Boot image tools | `dtbhtool/mkbootimg.c`, `unpackbootimg.c` | file layout, addresses | load, write, find, read | padding at page boundaries, address wrap, failure half way |
| Device tree image tools | `dtbhtool/dtbimg.c`, `mkdtbimg.c`, `unpackdtbhimg.c` | table, offsets, blobs | load, sort, place, write, dump | sorted table against unsorted blobs, size of the table, equal entries |
| Lights | `aidl/light/Lights.cpp` | three LED states, nodes | `setLightState` | three lights share one LED, each call recomputes it; colour arithmetic; writes that fail unnoticed |
| Sensors | `aidl/sensors/*` | converting event queue, reused event array | `initialize`, write, blocking write, injection | untagged unions, reused and uninitialised memory, a queue at its limit |
| Memtrack, secril configuration, shims | `aidl/memtrack`, `ril`, `shims` | none | file reads, forwarding | not modelled |
| init scripts, configuration, overlays, policy | `rootdir`, `configs`, `overlay`, `sepolicy` | data | | not modelled, except what the Power HAL reacts to |

The HALs do not call each other. Inside the Power HAL, sessions, manager, looper
and top-app boost form one composed model (`PowerHintSession` extends
`PowerSessionManager` and `Looper`), and `HintControl` composes the same manager
with the control loop; modes and the interaction boost share only the hint manager,
a library outside this repository, and use disjoint hints, so each has a module of
its own. `ImageTools` composes `BootImage` and `DtbImage`, because a table of device
trees travels inside a boot image. `Usb` and `UsbPortStatus` model the same two
threads from two sides: who holds which lock and writes `port_type`, and what a
query reads while it holds `mLock`.

## 2. Modules

| Module | Models | Built from |
|---|---|---|
| `BoostPromise` | abstract: what callers of the interaction boost may rely on | |
| `InteractionHandler` | `InteractionHandler.cpp` | implements `BoostPromise` |
| `InteractionHandlerProofs` | theorems about it | |
| `Looper` | the queue of `android::Looper`, as used here (external) | |
| `PowerSessionManager` | registry and reference counts | |
| `PowerHintSession` | sessions, both threads | the two above |
| `PowerHintSessionProofs` | theorems about it and the registry | |
| `HintControl` | the control loop of a session | `PowerSessionManager` |
| `HintControlProofs` | theorem about it | |
| `PowerModes` | `Power.cpp`, `PowerExt.cpp`, restart and init triggers | |
| `PowerModesProofs` | theorems about it | |
| `Usb` | `Usb.cpp`: role switches, callback, worker | |
| `UsbPortStatus` | `Usb.cpp`: how a port status is read and reported | |
| `UsbProofs` | theorems about both | |
| `Lights` | `Lights.cpp` | |
| `SensorEvents` | `HalProxyAidl.cpp`, `EventMessageQueueWrapperAidl.h`, `ConvertUtils.cpp` | |
| `LightsSensorsProofs` | theorems about both | |
| `BootImage`, `DtbImage` | the tools for boot images and device tree images | |
| `ImageTools` | the tools together | the two above |
| `ImageToolsProofs` | theorems about them | |
| `Vibrator`, `Fingerprint` | the HALs of those names | |
| `FingerprintVibratorProofs` | theorems about both | |
| `MC*` | constants TLC needs as definitions | |

How state and actions correspond to the code:

* **InteractionHandler.** Each section under `mLock` is one action (`Acquire` is
  split by outcome into `AcquireFallback`, `AcquireCovered` and `AcquireArm`).
  `Routine` is cut at every unlock and at every system call: `RoutineLock`,
  `WaitForIdleCall` (the unlocked read of `mDurationMs`), `PollEventFd`,
  `ReadIdleState`, `PollBoth`, `Release`. A failed `pread` leaves the buffer
  undefined, so both outcomes of the comparison are possible. Time counts in
  ticks, `TicksPerMs` of them to a millisecond, so that the rounding of
  `CalcTimespecDiffMs` is a choice over the differences it can yield. Integers
  wrap at `Word`.
* **PowerHintSession.** The service has one binder thread; its calls are cut where
  they touch what the monitor thread touches. What runs under one mutex is one
  step; `StaleCheck`, `SetStaleUclamp` and `SetStaleSend` together hold
  `mStaleLock`. `age` is the time since `mLastUpdatedTime`. The output of the PID
  controller is any value in range: `HintControl` has the arithmetic. Calls that
  return an error change nothing and are not written down. `pause`, `resume` and
  `reportActualWorkDuration` do not ask whether the session is closed, so a client
  that holds on to a session can go on using it (`Held`). `sched_setattr` may fail
  for a thread (`Refused`); the session records the clamp all the same and does not
  try again before the controller asks for a clearly different one. `Destroy` is the
  destructor, which follows the last reference; the stale handler keeps a plain
  pointer to its session, so a check that still runs then (`UseDestroyed`) is
  undefined, and the model stops at `Undefined`.
* **PowerSessionManager, Looper.** The loops over the tids of a session are written
  by their result: a tid is counted once for each entry that names it (`Counted`),
  apart from the entries before the first for which its task profile could be set.
  A looper's queue is a sequence ordered by due time; sending and removing say at
  which place each envelope ends up.
* **HintControl.** One call is one step: `Report` runs the whole of
  `reportActualWorkDuration`, from the samples through the three terms and the
  limits to the clamp; `Sample` is one turn of its loop over the durations. The
  conversions from double to integer cut off the fraction,
  32-bit results wrap at `IntSpan`. Of the monitor thread it keeps that a session
  goes stale and that its handler, if a check is queued (`timer`), takes the boost
  away. It has the refused clamps and the calls after `close`, not the destructor.
* **PowerModes.** A call is the list of `DoHint`/`EndHint` operations it will make,
  carried out one by one so that the process may die between any two. The flags
  change after the hints, as in the code. The hint manager writes property nodes
  on its own thread, later: a node takes the first of its values that is requested
  (`Target`). Which configuration file the device has (`config`) is
  chosen at the start. init clears the properties and restarts the service in
  two steps.
* **Usb.** `binder` is the program counter of the binder thread, `worker` that of
  the worker. Which mutex is held follows from the two (`RoleLockFree`,
  `mLockFree`, `binder = "sw_locked"`). `uevents` is the netlink socket; messages
  that do not fit are lost. A write of `port_type` may be refused unnoticed, because
  nobody looks at the result of `fclose`. The worker tests
  `destroyThread` (`WorkerCheck`) and enters `epoll_wait` (`WorkerEnter`) in two
  steps. A signal that arrives outside `epoll_wait`, between these two included, only
  sets `destroyThread`.
* **UsbPortStatus.** One action per file read (`ReadNames` to `ReadContaminant`),
  in the order of the code, under `mLock` from the first read to the notification.
  The driver changes a file in one step and sends its message in a later one. A
  partner that leaves half way removes its file, which ends the query with an error.
* **Lights.** A call holds `mLock` throughout and is one action. Colours are three
  channels; packing into bytes, the adjustment per channel and the brightness
  weights are computed as in the code. Each write may fail, which `set` ignores;
  history variables record that the last one went through.
* **SensorEvents.** A payload is a sequence of words, each naming the type and place
  it belongs to, so that a word from a wrong place shows. The reused array keeps
  what the last write left in it. Its size is `MAX_RECEIVE_BUFFER_EVENT_COUNT`; the
  wrapper never compares a batch with it, and the model assumes with the code that the
  proxy sends no larger one (`SensorConstants`). `writeBlocking` is modelled by its
  outcomes.
* **Vibrator.** The driver counts the motor down; every call with a callback starts
  a thread that sleeps and then reports. A node may fail to open or to take a value
  (`NotWritten`); `on` and `perform` go on regardless, and `failed` remembers it. The
  intensity is computed with `lround`,
  converted to 32 bits and capped, in that order. Amplitudes are in quarters.
* **Fingerprint.** The vendor library may call `notify` from the moment it has the
  callback, on a thread of its own. The build flags, and whether writes to the
  uinput device may fail, are the variable `flags`, chosen at the start. Where a
  finished enrolment is cancelled (`CancelOnCompletion`), the library is called with
  the mutex held. `REQUEST_FORCE_CALIBRATE` adds a call of the library whose answer is
  ignored and is not a flag of the model.
* **BootImage, DtbImage, ImageTools.** The bytes are left out; where a section
  lies, and what size the programs believe it has, is kept. The sections come in the
  order of `Following`, absent ones are passed over. In `ImageTools` a table of device
  trees is a file or the section of a boot image, and what is cut out of the image
  is taken apart again; bytes cut out at a wrong place are `garbage`. Undefined
  results (a write to a closed stream, `qsort` among equal entries) are choices.

## 3. What the runs check

Eleven runs pass and one shows that the code does something else than its own
comment says.

| Run | Question | Result |
|---|---|---|
| `interaction` | Can a wake-up, an abort or a boost get lost between `Acquire`, `Exit`, the DispIdle thread, the display and the clock? | No: the hint follows the state, an abort reaches the wait it is meant for and no other, a boost lasts as long as every caller (dropped requests included) was promised unless the display goes idle or a wait fails, every boost ends, `Exit` returns, and the handler implements `BoostPromise`. |
| `adpf` | Two sessions that share a thread, against the monitor thread, with calls after `close`, destructors and refused clamps | An open session has exactly the stale check it believes it has; after `close` a check remains only if it was running already or the client went on reporting, and it dies out; no clamp that the kernel took is left behind, except by the destructor of a session that was used after `close`; the reference counts are exact; the top-app boost is given back when the sessions go quiet. |
| `adpf_control` | The controller over all short reports, with pauses, stale sessions, new targets, failing task profiles, refused clamps, duplicate tids and calls after `close` | The recorded clamp is what the controller last asked for, up to the granularity, and the kernel has it unless it refused the write; a client that keeps missing its target gets the full boost and one that keeps undercutting it gives the boost back; no reference count runs away. |
| `modes` | `setMode` and `setBoost` in any order, crashes anywhere, init's restart | Between calls exactly the hint that stands for the two flags is held; a restart restores the modes if the properties were up to date and no other hint outranked the modes, and restores nothing after the framework died. |
| `usb` | Role switches against the worker, the callback and the driver | The partner's return is never slept through; only one writer of `port_type` at a time; an old `mPartnerUp` never makes a switch succeed; every switch returns. |
| `usb_status` | Two threads read the port's files one by one while the driver changes them and messages are lost | A torn, outdated or failed status is never the last: a query is always running or ahead. Once the port stays as it is, what was reported last is the whole truth. |
| `images` | All combinations of sections, sizes, page sizes, prefixes and addresses; directories of up to four files, every result of `qsort`, failing files; tables alone and inside a boot image | `unpackbootimg` finds each section where it was put and the reported base and offsets reproduce the addresses, wrapped ones included; device trees never overlap or leave their block; each comes back from `unpackdtbhimg`, also through a boot image, while the table fits and the second stage is well padded. |
| `vibrator` | Overlapping calls, their threads and the driver, with writes of the nodes that fail | `on` never plays an old effect unless a write failed, the completion of the latest vibration does not come before the motor has stopped (while its sleep fits the argument of `usleep`), and none is lost. |
| `fingerprint` | Messages of the vendor library during construction, `setNotify`, requests and `cancel`, in the board's build and in one with the other flags that matter | One object is constructed, only the current client is called, no key stays down unless a write fails, `notify` returns. |
| `sensors` | Batches of events of differing layouts through the reused array into a queue smaller than the largest batch; injected events through an uninitialised variable | The framework reads exactly the events of successful writes, in order, with nothing of an older event or of unused words; an injected event means the same after conversion. |
| `lights` | Three lights share the LED, in every order of calls, with writes that fail | After a write that went through, the LED shows the first light that is lit, with no channel running into the next; the panel stays within its range and white reaches its end. |
| `usb_unregister` | Does `setCallback(NULL)` return? | **No.** It joins the worker with `mLock` held, which the worker may be waiting for; and the signal may come between the test of `destroyThread` and `epoll_wait`, which then waits for the next uevent. TLC prints one of the two; with either end state excused it finds the other, and with both excused the property holds. |

Other differences met while modelling, which the models contain but no run is
about:

* `Power.cpp:117` asks for the hint `VR`; the shipped `powerhint.json:280` has
  `VR_MODE`, so leaving the combined mode leaves no VR hint.
* A session that was created or resumed and never reports has no stale timer
  (`PowerHintSession.cpp:154`); the history variable `unwatched` marks it, and
  `BoostGivenBack` is about the other sessions.
* A tid whose task profile cannot be set is not counted although its session is
  registered (`PowerSessionManager.cpp:61`).
* A partner-added message that was queued before a mode switch makes it succeed
  (`Usb.cpp:665`); `SuccessNeedsNews` states what does hold.
* `mEnabled` of the vibrator is never set, so external control is never refused
  (`Vibrator.cpp:180`).
* A request `Acquire` drops as covered loses its boost when the display goes idle
  (`InteractionHandler.cpp:172`).
* The second stage of a boot image is padded by the size of the ramdisk
  (`mkbootimg.c:318`), although `bootimg.h:72` says "all entities are page_size
  aligned in flash". The properties about sections behind it assume
  `SecondWellPadded`.
* The size of the device tree table grows with the square of the number of entries
  (`dtbimg.c:248`), so that from some number on the offset of an entry is not where
  its tree begins, as `dtbtool.txt:92` says it is. `TreesSurvive` assumes
  `TableFits`.
* A target below 100 microseconds makes the controller's time step zero, and with
  tracing enabled the trace of the derivative divides by it
  (`PowerHintSession.cpp:338`). A new target scales the integral by an integer
  quotient (`:262`), which is zero whenever the target grows.
* `close` leaves `mIsMonitoringStale` set, so a session that reports after it is not
  watched (`PowerHintSession.cpp:243`). The destructor does not reset the clamps such
  a report has set.
* A clamp the kernel refused is recorded as set (`PowerHintSession.cpp:208`), and the
  writes that would repeat it are skipped (`:379`).
* A stale check that is running during `close`, or that a report after `close` starts,
  can meet a destroyed session through `mSession` (`PowerHintSession.cpp:467`);
  `OneStaleCheck` says that nothing else can.
* `on` ignores whether clearing the effect worked (`Vibrator.cpp:84`).
* An attention light that does not flash is dark and still hides the battery light;
  the BLN node, once set, is reset only by a notification whose colour comes out as
  zero; an unreadable panel maximum counts as 255 (`Lights.cpp`).
* A sensor type the conversions do not list aborts the service; additional info
  given as floats comes back tagged as integers (`ConvertUtils.cpp`).

### Bounds, and why they are enough

* `interaction`: two ticks to the millisecond, so that a difference can be rounded
  either way; requests below zero, at zero, between and at the limits; `Word` so
  small that a negative sum wraps. `elapsed` stops at `ElapsedCap`, past which no
  comparison changes.
* `adpf`: two sessions and two threads are the least with a shared and an unshared
  thread. `age` counts to one past `StaleTime = 1`, which separates before, at and after
  the deadline. One session is paused, resumed and used after `close` (`Varied`), the
  other is only created, used, closed and destroyed; for one thread, which both
  sessions list, the kernel may refuse a clamp (`Refusing`). `MaxChecks` bounds the queued checks of the manager, which are all alike. The
  clamp values are zero and one: no property compares two values above zero.
  Two clients of the same session do not run at once: the service has one binder
  thread.
* `modes`: one hint of every kind: both modes, `LAUNCH`, one mode with a property
  of its own (`EXPENSIVE_RENDERING`; low-latency audio takes the same path), one
  boost, and one hint of another HAL that outranks the modes. Two configurations.
* `usb`: one port; a socket of two messages, so that it is full and loses some.
  One spurious wake-up per switch: each restarts the full timeout, so that without
  a bound a switch need not return.
* `adpf_control`: one controlled session, and one that lists a tid twice and only
  opens and closes. Targets that are missing, below the unit and above it; reports
  of one or two durations, within and beyond the target; limits so close that the
  integral and the output both saturate. For one thread the kernel may refuse a clamp.
  An integer has 16 values, so that the output of an overrun right after underruns
  wraps.
* `usb_status`: three partners that differ in role, accessory and power delivery; a
  socket of one message, so that it loses some; three changes, enough for one
  before, one during and one after a query.
* `images`: sizes below, at and above a page and two page sizes; the header is
  larger than a page, so that every kind of padding occurs. Addresses modulo 16. A
  page of 256 bytes makes the table outgrow the space of a page at four trees; with
  the 2048 bytes of the devices this happens at eleven. Two files share chip and
  revisions.
* `sensors`: a queue of two and batches of up to three, so that a batch fits, does not
  fit now, never fits, and follows one of another layout. The stream has types with
  few, many and padded words and an unknown one; injection goes through one type for
  each pair of cases of the two conversions.
* `lights`: four levels of a channel, a light state of every flash mode, a panel
  with a smaller and one with a larger range than a channel.
* `vibrator`: three calls, so that one overtakes another while a third runs;
  `usleep` wraps at six microseconds, so that the longest vibration wraps. One known and
  one unknown strength: the known ones differ in the intensity only.
* `fingerprint`: two clients; codes at 999, 1000, 10000 and 10001; samples that are
  and that are not the last when they are percentages.

The image tools end and the sensors service may abort, so deadlock is not checked
for them. No run uses symmetry.

### Fairness

Weak fairness of each thread's own steps, as the scheduler of the kernel provides:
the DispIdle thread, the monitor thread, the worker, the binder thread inside a
call it has begun, detached threads, the vendor library's thread inside `notify`;
and of the clock. A pending signal is delivered however busy its thread is, so the
worker's signal handler has weak fairness of its own. Clients, the driver, the display, spurious wake-ups and failures
owe nothing. `NotifyReturns` is claimed only for the build in which one thread runs
`notify`: with two, a mutex without a queue could starve one. It takes the calls of the
client and of the vendor library to return.

`usb_status` needs no fair mutex: whoever keeps taking `mLock` keeps reporting. It
assumes that the driver changes a file before it sends the message about it, that it
does send it, that the port's own files can be read and that a message fits the
buffer. The control loop has no fairness of its own; `OverrunRaises` and
`UnderrunLowers` say what happens if the client keeps reporting. `PowerModes`,
`ImageTools`, `SensorEvents` and `Lights` state safety only.

## 4. What is proved

`InteractionHandlerProofs`, for all durations, limits, rounding and word widths
that satisfy `ConstantsAssumption` (limits in order, below the word size, and whole
milliseconds; the defaults 100, 1400, 5650 and 650 ms satisfy it):

* `TypeCorrect`, `HintFollowsStateCorrect`, `AbortReachesWaitCorrect`,
  `NoLostWakeupCorrect`, `BoostKeptCorrect`, and `PromiseCorrect`: every step is a
  step of `BoostPromise` or leaves its variables alone.
* None of these is inductive alone. `IInv` adds which of the two threads can be
  where (`BinderInv`), that the event fd is clear outside a wait (`EventFdInv`), how
  much of the wait has passed at each point of `WaitForIdle` (`WaitInv`), and that
  what is owed ends less than a millisecond after the armed boost (`OwedInv`). The
  last needs arithmetic: `CalcTimespecDiffMs` may be off by less than a millisecond,
  durations are whole milliseconds, and the first `kWaitMs` of a wait makes up for
  the difference (`MsGap`, `TimespecDiffsRange`).
* The proof splits `IInv` into types (`TypeStep`), control (`ControlStep`) and time
  (`TimingStep`), one step per action.

`UsbProofs`, for any socket size and any number of spurious wake-ups:
`PartnerSignalNotLostCorrect`, `PortTypeOwnedCorrect` and
`WorkerBelongsToCallbackCorrect` from `UsbInv`, their conjunction with `TypeOK`,
which is inductive once a short call is known to have a section left; and
`SuccessNeedsNewsCorrect` from `NewsInv`, which says that until a switch knows its
result, every message and flag that could make it a success is recorded as news.

The second part of `UsbProofs`, for any set of partners, any socket and any number of
changes: `StaleIsTemporaryCorrect`. The invariant (`QueryInv`) says that a query
after which none is ahead has read only values that still hold: whatever changes a
file leaves a message owed or a query announced, and a query that begins has read
nothing yet.

`LightsSensorsProofs`, for all channel widths, adjustments of at most one, LED
brightness levels and panel ranges: `LedShowsLightCorrect` and
`BacklightInRangeCorrect`. The invariant (`LedInv`) says that unless a write failed
the LED holds what `setNotificationLED` computes for the current states. The rest is
arithmetic: scaling does not enlarge a channel (`ScaleDown`, `CalibrateRange`), and
packed channels can be taken apart again (`DivMod`, `Unpack`).

Its second part, for any queue, batches that fit the array and streams of the types
the conversions list: `QueueDeliversWrites` and `InjectedEventsSurvive`. That the queue
says the same as the accepted events is not inductive: a blocking write converts its
batch long before the queue takes it, and meanwhile only the reused array holds it.
`StreamInv` therefore adds that the first slots of the array hold the conversions of
exactly the events that wait. `TypeFacts` goes through the types once and shows that
the cases of the two conversions agree with each other and with what a type's words
mean.

`PowerHintSessionProofs`, for any finite set of sessions, any lists of tids (shared
between sessions or naming one twice), limits, granularity and stale time:
`OneCheckPerSession`, `BoostsAreTakenAway`, `CountsAreExact` and `CountsAreBounded`.

* `IInv` adds to the four properties what each thread's place says of the session
  it is about (`CallInv`): a call runs on a session that is not destroyed, a session
  stays registered until `close` reaches its end. A session that was never created has
  no check, and a check of one that is no longer open was overtaken by `close` or
  started by a later use (`TimerInv`). Either a thread's boost is refused or zero, or
  some session that lists it accounts for it, by its record or by having been
  destroyed after a late use (`UtilInv`, `Accounts`); a record above zero belongs to an
  active session whose clamp `close` has not reset yet or that was used again
  (`MinInv`, `InUse`): without these, unregistering could leave a boost behind. A
  session that is being paused has lost its boost already.
* The stale checks are counted, not searched: `SendCount`, `TailCount`,
  `RemoveCount` and `ElapseCount` say how many envelopes of a handler are queued
  after each operation of the looper. Each follows from a bijection between
  positions (`SameSize`). The listings of a tid are counted likewise (`ListingsAdd`).
* The lemmas about the steps come first and take these numbers as hypotheses,
  `QueueFacts` and `ListFacts`; the counting comes after them and proves both
  (`QueueCounts`, `ListCounts`), and the theorems discharge the hypotheses with it.

`PowerModesProofs`, for any configuration files, modes, boosts and extension hints
that satisfy `ModesAssumption`: `ModesHaveTheirHints` and `RestartRestoresModes`. The
assumption says that the state node lists the supported mode hints, that no other
caller names a mode hint and that these do not expire; `powerhint.json` satisfies it.

* During a call flags and hints disagree, so `ModesInv` says instead that the
  operations left lead to the hint of the new mode (`WayTo`). `SustainedWay` and
  `VrWay` show this of the lists `setMode` makes from each of the four modes.
* `ExpectInv` ties the properties to what a restart has to restore. At a crash it
  follows from `SettledProperties`: when every node has been written and nothing
  outranks the modes, the state property names the mode's hint. That needs the first
  requested value of a node to exist (`LeastPosition`, by well-foundedness).

`HintControlProofs`, for any sessions, tids, gains, windows, limits and reports:
`ClampStaysClose`. The controller skips a system call when the new clamp is too close
to the session's own copy of the old one, so the invariant (`ClampInv`) needs two
parts: the kernel holds that copy for every thread no other session lists, unless it
refused the last write, and the copy is close to the demand. That the loop over the samples ends in integers,
however many there are, is shown by a least counterexample (`LoopTrace`,
`SamplesType`).

`FingerprintVibratorProofs`, for any clients, build flags, codes and results:
`OnlyOneInstance`, `OnlyCurrentClient` and `KeysReleased`. `SetUpInv` says what the
constructor has done at each of its places and that the library knows the callback
only afterwards; `NotifyInv` that the holder of the mutex is the only thread past it;
`KeyInv` that the key that is down belongs to the gesture between its press and its
release.

Its second part, for any effects, durations, set of nodes and number of calls:
`VibratorInvariant`, `OnPlaysNoEffect` and `CompletionFollowsMotor`. `NodeInv` says what
motor and trigger hold at each place of a call, nodes the device lacks included, as
long as no write of the two nodes is recorded as failed.
`SleepInv` compares the motor with the thread of the call that started it: while the
sleep fits the argument of `usleep`, the thread never has less left than the motor. It
needs that a call which has not yet started its thread has none of its number.

`ImageToolsProofs`, for every page size, every size of every section and tree, every
directory and every sorting of equal entries: `ImagesInvariant`, `SectionsRoundTrip`,
`ReportedAddressesSurvive`, `BlobsStayInsideBlock` and `DirectoriesSurvive`.

* `WriterInv` and `ReaderInv` say that writer and reader are at the sum of the items
  before the section they are at (`WriteStart`, `ReadStart`), and what has been
  passed. `BootInvRoundTrip` compares the two sums item by item.
* `BlockInv` says that there is a function that gives the size of the trees in front
  of each one, that the blobs lie at these sums behind `FirstBlob` and that the
  entries point to them behind `hdr_sz`. The entries are right when the two are equal,
  which is `TableFits`. That the recursive `Layout` computes these sums
  is shown by a least counterexample (`LayoutIsSums`).
* `DumpInv` says that of the entries read so far the last of its name has been dumped;
  `SectionInv` that the block in the boot image has the size the header says.
* The addresses need `DivModUnique` only: a remainder is the one number in range that
  differs by a multiple.

Two components share a module of proofs where their names are disjoint; no theorem
is about both. TLC finds the inductive invariants of the sessions (also with
failing task profiles), the modes, fingerprint, the vibrator, the sensors, the control
loop and the image tools true on the instances of their runs, too.

`WorkerBelongsToCallbackCorrect` and the type invariants of the modules with proofs,
other than the interaction boost, are proved without a run of their own.

Every invariant and every action property of the runs is the subject of a theorem.
Only model-checked:

* the liveness properties, because the proof system does not cover fairness:
  `BoostEnds`, `ExitReturns`, `BoostGivenBack`, `LateChecksEnd`, `OverrunRaises`,
  `UnderrunLowers`, `RoleSwitchReturns`, `StatusConverges`, `EveryCallCompletes` and
  `NotifyReturns`;
* `RefCountBounded` for the specification of `HintControl`; it is proved for that of
  `PowerHintSession`, which shares the manager;
* the values the loops compute, beyond what the proofs above use of them: induction
  over data is out of the provers' reach, and a least counterexample serves only
  for facts that each turn of a loop preserves.

## 5. Not modelled

* Memtrack (sums numbers from files and keeps no state), the secril configuration
  (copies properties once at boot), the shims (forwarding functions and a vendored
  demangler), init scripts, overlays and policy, except what the Power HAL reacts to.
* In ADPF: `updateHintMode`, which keeps a display rate nothing else here reads, and
  dumping. In modes: `createHintSession`, which only constructs a session.
  What a stale check does to a session that has been destroyed is undefined in C++;
  the model of the two threads ends there, and `HintControl` has no destructor.
* In USB: parsing of a message, and more than one port.
* In fingerprint: what the vendor library does when it is cancelled. If it answered
  with a message on the calling thread while `notify` holds the mutex
  (`BiometricsFingerprint.cpp:376`), `notify` would wait for itself; no document says
  that it may or may not, and the flag is off for this board.
* In lights: `getLights`, a constant list.
* In sensors: the corrections to the sensor list, dynamic sensor callbacks, direct
  channels, the wake-lock queue and translating results; they pass values on. The
  proxy behind the wrapper is in another repository.
* In the tools: command lines, file names, SHA-1, and reading properties with
  libfdt. A page size is assumed to have been given. A table longer than the one
  page `unpackdtbhimg` reads leads outside its buffer and is not followed.
* Libraries (hint manager, looper, init, drivers) are modelled by how this code
  uses them and marked external in the map.

## 6. Plan

Order: the parts with threads first, because they are hardest to test; then the
image tools, whose two halves must agree; then the sequential parts.

1. Done: the modules above and their runs, with proofs of all their invariants and
   action properties. What of the repository keeps state is modelled, apart from
   what section 5 lists.
2. Next: `RefCountBounded` for `HintControl`, from the lemmas about the manager in
   `PowerHintSessionProofs`.
