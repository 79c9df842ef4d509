----------------------------- MODULE PowerModes -----------------------------
(***************************************************************************)
(* Modes and boosts of the power HAL (aidl/power-libperfmgr/Power.cpp and  *)
(* PowerExt.cpp), and how they survive a restart of the service.           *)
(*                                                                         *)
(* The service keeps VR and sustained-performance mode in two flags and    *)
(* turns every mode into hints of libperfmgr's HintManager.  Some hints    *)
(* write system properties (vendor.powerhal.state, .audio, .rendering)     *)
(* from the manager's own thread; the constructor of Power reads them to   *)
(* restore the modes after a crash, and init clears them when the          *)
(* framework dies.                                                         *)
(*                                                                         *)
(* The binder thread is the only one that runs setMode and setBoost; each  *)
(* call is the sequence of its DoHint/EndHint calls, and the manager's     *)
(* thread or a crash may come between any two of them.                     *)
(***************************************************************************)
EXTENDS Naturals, Sequences, Functions

CONSTANTS
  Configs,      \* configuration files: their hints, and the Values of the node
                \* PowerHALMainState, highest priority first
  Expiring,     \* the hints whose actions have a duration in the configuration
  Modes,        \* the modes clients set through Power::setMode
  Boosts,       \* the boosts clients ask for (INTERACTION is InteractionHandler's)
  ExtHints      \* the hint names other HALs use through PowerExt

SUSTAINED == "SUSTAINED_PERFORMANCE"
VR == "VR"
BOTH == "VR_SUSTAINED_PERFORMANCE"
AUDIO == "AUDIO_STREAMING_LOW_LATENCY"
RENDERING == "EXPENSIVE_RENDERING"
LAUNCH == "LAUNCH"

ModeHints == {SUSTAINED, VR, BOTH}
Hints ==
  (UNION {c.hints : c \in Configs}) \cup Modes \cup Boosts \cup ExtHints \cup ModeHints
  \cup {AUDIO, RENDERING}

ASSUME ModesAssumption ==
  /\ \A c \in Configs :
       /\ Expiring \subseteq c.hints /\ "" \notin c.hints
       /\ c.states \in Seq(c.hints) /\ ModeHints \cap c.hints \subseteq Range(c.states)
  /\ (ExtHints \cup Boosts) \cap ModeHints = {} /\ BOTH \notin Modes
  /\ Expiring \cap (ModeHints \cup {AUDIO, RENDERING}) = {}

VARIABLES
  config,    \* the configuration file of the device
  mVRModeOn, mSustainedPerfModeOn,
  held,      \* [hint -> "off", "on" or "timed"]: requests in the HintManager
  call,      \* the rest of the running setMode/setBoost, or NoCall
  up,        \* the service process is alive
  started,   \* HintManager::Start has run: the manager's thread writes nodes
  booted,    \* vendor.powerhal.init is 1
  node,      \* the value each property node believes it has written
  prop,      \* the system properties
  init,      \* init is between clearing the properties and the restart
  expect     \* history: the modes the next start has to restore, if known

processVars == <<mVRModeOn, mSustainedPerfModeOn, held, call, up, started, node>>
vars == <<config, processVars, booted, prop, init, expect>>

Supported == config.hints

\* The property nodes of configs/power/powerhint.json and their values.
Values == [state |-> config.states, audio |-> <<AUDIO>>, rendering |-> <<RENDERING>>]
Props == {"state", "audio", "rendering"}

NoCall == [ops |-> <<>>, vr |-> FALSE, sustained |-> FALSE, busy |-> FALSE]
NoHints == [h \in Hints |-> "off"]
Cleared == [p \in Props |-> ""]
Unknown == [known |-> FALSE, vr |-> FALSE, sustained |-> FALSE, side |-> {}]

Do(h) == <<"do", h>>
End(h) == <<"end", h>>
DoFor(h) == <<"timed", h>>

\* HintManager::DoHint and EndHint: a hint the configuration lacks is refused.
Request(hs, op) ==
  IF op[2] \notin Supported THEN hs
  ELSE [hs EXCEPT ![op[2]] = IF op[1] = "end" THEN "off"
                             ELSE IF op[1] = "timed" \/ op[2] \in Expiring THEN "timed"
                             ELSE "on"]

\* The smallest of a set of positions.
First(T) == CHOOSE i \in T : \A j \in T : i <= j

\* The value a node should have: the first of its values that is requested.
Target(hs, p) == LET wanted == {i \in DOMAIN Values[p] : hs[Values[p][i]] # "off"}
                 IN  IF wanted = {} THEN "" ELSE Values[p][First(wanted)]

-----------------------------------------------------------------------------
\* The hints of Power's constructor, from the properties it finds.
RestoredHints ==
  LET state == IF prop.state \in ModeHints THEN Request(NoHints, Do(prop.state)) ELSE NoHints
      audio == IF prop.audio = AUDIO THEN Request(state, Do(AUDIO)) ELSE state
  IN  IF prop.rendering = RENDERING THEN Request(audio, Do(RENDERING)) ELSE audio

\* Mutant: the combined state restores only one of its modes.
StartWithoutBoth ==
  /\ ~up
  /\ up' = TRUE
  /\ started' = FALSE
  /\ mSustainedPerfModeOn' = (prop.state = SUSTAINED)
  /\ mVRModeOn' = (prop.state \in {VR, BOTH})
  /\ held' = RestoredHints
  /\ node' = Cleared
  /\ call' = NoCall
  /\ UNCHANGED <<config, booted, prop, init, expect>>

\* The service starts: the constructor runs before any call is taken.
Start ==
  /\ ~up
  /\ up' = TRUE
  /\ started' = FALSE
  /\ mSustainedPerfModeOn' = (prop.state \in {SUSTAINED, BOTH})
  /\ mVRModeOn' = (prop.state \in {VR, BOTH})
  /\ held' = RestoredHints
  /\ node' = Cleared
  /\ call' = NoCall
  /\ UNCHANGED <<config, booted, prop, init, expect>>

\* The init thread of main waits for vendor.powerhal.init and starts the manager.
HintManagerStart ==
  /\ up /\ booted /\ ~started
  /\ started' = TRUE
  /\ UNCHANGED <<config, mVRModeOn, mSustainedPerfModeOn, held, call, up, node, booted,
                 prop, init, expect>>

-----------------------------------------------------------------------------
\* case SUSTAINED_PERFORMANCE of setMode.
SustainedOps(enabled) ==
  CASE enabled /\ ~mSustainedPerfModeOn ->
         IF mVRModeOn THEN <<End(VR), Do(BOTH)>> ELSE <<Do(SUSTAINED)>>
    [] ~enabled /\ mSustainedPerfModeOn ->
         <<End(BOTH), End(SUSTAINED)>> \o (IF mVRModeOn THEN <<Do(VR)>> ELSE <<>>)
    [] OTHER -> <<>>

\* Mutant: entering the combined mode from sustained mode keeps its hint.
VrOpsKeepingSustained(enabled) ==
  CASE enabled /\ ~mVRModeOn -> IF mSustainedPerfModeOn THEN <<Do(BOTH)>> ELSE <<Do(VR)>>
    [] ~enabled /\ mVRModeOn ->
         <<End(BOTH), End(VR)>> \o (IF mSustainedPerfModeOn THEN <<Do(SUSTAINED)>> ELSE <<>>)
    [] OTHER -> <<>>

\* case VR of setMode.
VrOps(enabled) ==
  CASE enabled /\ ~mVRModeOn ->
         IF mSustainedPerfModeOn THEN <<End(SUSTAINED), Do(BOTH)>> ELSE <<Do(VR)>>
    [] ~enabled /\ mVRModeOn ->
         <<End(BOTH), End(VR)>> \o (IF mSustainedPerfModeOn THEN <<Do(SUSTAINED)>> ELSE <<>>)
    [] OTHER -> <<>>

\* The other cases: LAUNCH is ignored in VR and sustained mode.
PlainOps(type, enabled) ==
  IF type = LAUNCH /\ (mVRModeOn \/ mSustainedPerfModeOn) THEN <<>>
  ELSE IF enabled THEN <<Do(type)>> ELSE <<End(type)>>

Begin(ops, vr, sustained) ==
  /\ up /\ ~call.busy
  /\ call' = [ops |-> ops, vr |-> vr, sustained |-> sustained, busy |-> TRUE]
  /\ UNCHANGED <<config, mVRModeOn, mSustainedPerfModeOn, held, up, started, node, booted,
                 prop, init, expect>>

SetMode(type, enabled) ==
  CASE type = SUSTAINED -> Begin(SustainedOps(enabled), mVRModeOn, enabled)
    [] type = VR -> Begin(VrOps(enabled), enabled, mSustainedPerfModeOn)
    [] OTHER -> Begin(PlainOps(type, enabled), mVRModeOn, mSustainedPerfModeOn)

\* setBoost: op is chosen by the sign of the duration.
SetBoost(type, op) ==
  Begin(IF mVRModeOn \/ mSustainedPerfModeOn THEN <<>> ELSE <<op>>,
        mVRModeOn, mSustainedPerfModeOn)

\* PowerExt::setMode and setBoost pass any hint through.
ExtCall(op) == Begin(<<op>>, mVRModeOn, mSustainedPerfModeOn)

\* One DoHint or EndHint of the running call.
CallHintManager ==
  /\ up /\ call.busy /\ call.ops # <<>>
  /\ held' = Request(held, Head(call.ops))
  /\ call' = [call EXCEPT !.ops = Tail(@)]
  /\ UNCHANGED <<config, mVRModeOn, mSustainedPerfModeOn, up, started, node, booted, prop,
                 init, expect>>

\* The flags are set after the hints, then the call returns.
CallReturns ==
  /\ up /\ call.busy /\ call.ops = <<>>
  /\ mVRModeOn' = call.vr
  /\ mSustainedPerfModeOn' = call.sustained
  /\ call' = NoCall
  /\ UNCHANGED <<config, held, up, started, node, booted, prop, init, expect>>

-----------------------------------------------------------------------------
\* The manager's thread brings a property node up to date.
NodeWrite(p) ==
  /\ up /\ started /\ node[p] # Target(held, p)
  /\ node' = [node EXCEPT ![p] = Target(held, p)]
  /\ prop' = [prop EXCEPT ![p] = Target(held, p)]
  /\ expect' = IF init THEN Unknown ELSE expect
  /\ UNCHANGED <<config, mVRModeOn, mSustainedPerfModeOn, held, call, up, started, booted, init>>

HintExpires(h) ==
  /\ up /\ held[h] = "timed"
  /\ held' = [held EXCEPT ![h] = "off"]
  /\ UNCHANGED <<config, mVRModeOn, mSustainedPerfModeOn, call, up, started, node, booted,
                 prop, init, expect>>

BootCompletes ==
  /\ ~booted /\ booted' = TRUE
  /\ UNCHANGED <<config, processVars, prop, init, expect>>

\* Nothing is under way: no call runs and every node has its value.
Settled == up /\ ~call.busy /\ \A p \in Props : prop[p] = Target(held, p)

\* A hint that is not a power mode outranks the modes in vendor.powerhal.state.
Outranked == up /\ Target(held, "state") \notin ModeHints \cup {""}

\* The hint that stands for a combination of the two flags.
HintOf(vr, sustained) ==
  CASE vr /\ sustained -> {BOTH} [] vr /\ ~sustained -> {VR}
    [] ~vr /\ sustained -> {SUSTAINED} [] OTHER -> {}

Side(hs) == {h \in {AUDIO, RENDERING} : hs[h] # "off"}

\* The process is gone; the properties stay.
Crash ==
  /\ up
  /\ up' = FALSE /\ started' = FALSE
  /\ mVRModeOn' = FALSE /\ mSustainedPerfModeOn' = FALSE
  /\ held' = NoHints /\ call' = NoCall /\ node' = Cleared
  /\ expect' = IF init THEN expect
               ELSE [known |-> /\ Settled /\ ~Outranked
                               /\ HintOf(mVRModeOn, mSustainedPerfModeOn) \subseteq Supported,
                     vr |-> mVRModeOn, sustained |-> mSustainedPerfModeOn, side |-> Side(held)]
  /\ UNCHANGED <<config, booted, prop, init>>

\* The zygote restarts: init clears the properties ...
FrameworkDies ==
  /\ ~init /\ init' = TRUE
  /\ prop' = Cleared
  /\ expect' = [Unknown EXCEPT !.known = TRUE]
  /\ UNCHANGED <<config, processVars, booted>>

\* ... and restarts the service.
InitRestarts ==
  /\ init /\ init' = FALSE
  /\ up' = FALSE /\ started' = FALSE
  /\ mVRModeOn' = FALSE /\ mSustainedPerfModeOn' = FALSE
  /\ held' = NoHints /\ call' = NoCall /\ node' = Cleared
  /\ UNCHANGED <<config, booted, prop, expect>>

-----------------------------------------------------------------------------
Init ==
  /\ config \in Configs
  /\ mVRModeOn = FALSE /\ mSustainedPerfModeOn = FALSE
  /\ held = NoHints /\ call = NoCall
  /\ up = FALSE /\ started = FALSE /\ booted = FALSE
  /\ node = Cleared /\ prop = Cleared
  /\ init = FALSE
  /\ expect = [Unknown EXCEPT !.known = TRUE]

Next ==
  \/ Start \/ HintManagerStart \/ BootCompletes \/ Crash \/ FrameworkDies \/ InitRestarts
  \/ \E type \in Modes, enabled \in BOOLEAN : SetMode(type, enabled)
  \/ \E b \in Boosts : \E op \in {Do(b), DoFor(b), End(b)} : SetBoost(b, op)
  \/ \E h \in ExtHints : \E op \in {Do(h), DoFor(h), End(h)} : ExtCall(op)
  \/ CallHintManager \/ CallReturns
  \/ \E p \in Props : NodeWrite(p)
  \/ \E h \in Hints : HintExpires(h)

Spec == Init /\ [][Next]_vars
-----------------------------------------------------------------------------
\* Between calls the HintManager holds exactly the one hint that stands for the
\* two flags: leaving a mode, entering it again, and the combined mode never
\* leave a hint behind or drop one, whatever order setMode is called in and
\* whether or not the service was restarted in between.
ModeHintsAgree ==
  up /\ ~call.busy =>
    {h \in ModeHints : held[h] # "off"}
      = HintOf(mVRModeOn, mSustainedPerfModeOn) \cap Supported

\* A restart after a crash restores VR, sustained, audio and rendering mode as
\* they were, if the properties had been brought up to date and no other hint
\* outranks the modes; a restart after the death of the framework restores none.
RestoresModes ==
  [][Start /\ expect.known =>
       /\ mVRModeOn' = expect.vr /\ mSustainedPerfModeOn' = expect.sustained
       /\ Side(held') = expect.side]_vars
=============================================================================
