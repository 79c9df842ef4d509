-------------------------- MODULE PowerModesProofs --------------------------
(***************************************************************************)
(* Proofs about PowerModes, for any configuration files, modes, boosts and *)
(* extension hints: the hint that stands for the two mode flags, and what  *)
(* a restart restores from the system properties.                          *)
(***************************************************************************)
EXTENDS PowerModes, WellFoundedInduction, TLAPS

Ops == {"do", "end", "timed"} \X Hints

TypeOK ==
  /\ config \in Configs
  /\ mVRModeOn \in BOOLEAN /\ mSustainedPerfModeOn \in BOOLEAN
  /\ held \in [Hints -> {"off", "on", "timed"}]
  /\ call \in [ops : Seq(Ops), vr : BOOLEAN, sustained : BOOLEAN, busy : BOOLEAN]
  /\ up \in BOOLEAN /\ init \in BOOLEAN
  /\ DOMAIN prop = Props
  /\ expect \in [known : BOOLEAN, vr : BOOLEAN, sustained : BOOLEAN,
                 side : SUBSET {AUDIO, RENDERING}]

\* The HintManager holds only hints the configuration has, and no mode expires.
HeldInv ==
  /\ \A h \in Hints : held[h] # "off" => h \in Supported
  /\ \A h \in ModeHints : held[h] # "timed"

\* The mode hints held are those of the two flags, as far as they are supported.
Agree(hs, vr, sustained) ==
  \A h \in ModeHints : hs[h] # "off" <=> h \in HintOf(vr, sustained) /\ h \in Supported

Ends(ops, h) == \E i \in DOMAIN ops : ops[i] = End(h)
Does(ops, h) == \E i \in DOMAIN ops : ops[i] = Do(h)

\* The calls that are left end in the mode the running setMode will record.  No
\* mode hint is both ended and requested, so the order of the calls does not
\* matter, and none is requested for a time.
WayTo(ops, hs, vr, sustained) ==
  \A h \in ModeHints :
    /\ ~(Ends(ops, h) /\ Does(ops, h))
    /\ \A i \in DOMAIN ops : ops[i] # DoFor(h)
    /\ (hs[h] # "off" /\ ~Ends(ops, h)) \/ (Does(ops, h) /\ h \in Supported)
         <=> h \in HintOf(vr, sustained) /\ h \in Supported

ModesInv ==
  up => IF call.busy THEN WayTo(call.ops, held, call.vr, call.sustained)
        ELSE Agree(held, mVRModeOn, mSustainedPerfModeOn)

\* While the service is down, or init is about to restart it, the properties
\* mean the modes that are to be restored.
ExpectInv ==
  expect.known /\ (~up \/ init) =>
    /\ expect.vr <=> prop.state \in {VR, BOTH}
    /\ expect.sustained <=> prop.state \in {SUSTAINED, BOTH}
    /\ AUDIO \in expect.side <=> prop.audio = AUDIO /\ AUDIO \in Supported
    /\ RENDERING \in expect.side <=> prop.rendering = RENDERING /\ RENDERING \in Supported

IInv == TypeOK /\ HeldInv /\ ModesInv /\ ExpectInv
-----------------------------------------------------------------------------
\* Every nonempty set of positions has a first one: the order the manager
\* searches a node's values in.
LEMMA LeastPosition ==
  ASSUME NEW T \in SUBSET Nat, T # {}
  PROVE  First(T) \in T /\ \A m \in T : First(T) <= m
<1>1. PICK n \in T : \A m \in T : ~(<<m, n>> \in OpToRel(<, Nat))
  BY NatLessThanWellFounded, WFMin, Zenon
<1>2. ASSUME NEW m \in T, m < n PROVE FALSE
  <2>1. <<m, n>> \in Nat \X Nat /\ <<m, n>>[1] < <<m, n>>[2]
    BY <1>2
  <2>2. <<m, n>> \in OpToRel(<, Nat)
    BY <2>1, Zenon DEF OpToRel
  <2> QED BY <1>1, <2>2
<1>3. \A m \in T : n <= m
  BY <1>2
<1> QED BY <1>3, Zenon DEF First

\* The elements of a sequence over S are in S: the hints of a node's values.
LEMMA SeqElements ==
  ASSUME NEW S, NEW q \in Seq(S), NEW i \in DOMAIN q
  PROVE  q[i] \in S
OBVIOUS

\* What the assumptions say of the configuration the device has.
LEMMA ConfigFacts ==
  ASSUME TypeOK
  PROVE  /\ Supported \subseteq Hints /\ "" \notin Supported
         /\ config.states \in Seq(Supported)
         /\ ModeHints \cap Supported \subseteq Range(config.states)
         /\ ModeHints \subseteq Hints /\ AUDIO \in Hints /\ RENDERING \in Hints
<1>1. config \in Configs
  BY DEF TypeOK
<1>2. Supported \subseteq Hints
  BY <1>1, Zenon DEF Supported, Hints
<1>3. /\ "" \notin config.hints /\ config.states \in Seq(config.hints)
      /\ ModeHints \cap config.hints \subseteq Range(config.states)
  BY <1>1, ModesAssumption, Zenon
<1>4. ModeHints \subseteq Hints /\ AUDIO \in Hints /\ RENDERING \in Hints
  BY DEF Hints
<1> QED BY <1>2, <1>3, <1>4 DEF Supported

\* The value of vendor.powerhal.state is a requested one of the node's values,
\* and empty only if none is requested.
LEMMA StateTarget ==
  ASSUME TypeOK, NEW hs
  PROVE  \/ Target(hs, "state") = "" /\ \A h \in Range(config.states) : hs[h] = "off"
         \/ Target(hs, "state") \in Range(config.states) /\ hs[Target(hs, "state")] # "off"
<1> DEFINE states == config.states
           wanted == {i \in DOMAIN states : hs[states[i]] # "off"}
<1>1. Values["state"] = states
  BY DEF Values
<1>2. Target(hs, "state") = IF wanted = {} THEN "" ELSE states[First(wanted)]
  BY <1>1 DEF Target
<1>3. wanted \in SUBSET Nat
  <2>1. states \in Seq(Supported)
    BY ConfigFacts
  <2>2. Len(states) \in Nat /\ DOMAIN states = 1 .. Len(states)
    BY <2>1
  <2> QED BY <2>2
<1>4. wanted # {} => First(wanted) \in wanted
  BY <1>3, LeastPosition
<1> HIDE DEF states
<1>5. Range(states) = {states[i] : i \in DOMAIN states}
  BY DEF Range
<1> QED BY <1>2, <1>4, <1>5 DEF states

\* The other two nodes have one value each.
LEMMA SideTargets ==
  ASSUME NEW hs
  PROVE  /\ Target(hs, "audio") = IF hs[AUDIO] = "off" THEN "" ELSE AUDIO
         /\ Target(hs, "rendering") = IF hs[RENDERING] = "off" THEN "" ELSE RENDERING
<1>1. ASSUME NEW v, NEW p, Values[p] = <<v>>
      PROVE  Target(hs, p) = IF hs[v] = "off" THEN "" ELSE v
  <2> DEFINE wanted == {i \in DOMAIN Values[p] : hs[Values[p][i]] # "off"}
  <2>1. wanted = IF hs[v] = "off" THEN {} ELSE {1}
    BY <1>1
  <2>2. First({1}) = 1
    BY LeastPosition
  <2>3. Target(hs, p) = IF wanted = {} THEN "" ELSE Values[p][First(wanted)]
    BY DEF Target
  <2>4. Values[p][1] = v
    BY <1>1
  <2> HIDE DEF wanted
  <2>5. CASE hs[v] = "off"
    BY <2>1, <2>3, <2>5
  <2>6. CASE hs[v] # "off"
    BY <2>1, <2>2, <2>3, <2>4, <2>6
  <2> QED BY <2>5, <2>6
<1>2. Values["audio"] = <<AUDIO>> /\ Values["rendering"] = <<RENDERING>>
  BY DEF Values
<1> QED BY <1>1, <1>2

\* What one DoHint or EndHint does: it changes its own hint, if that is
\* supported, and a mode's hint becomes "timed" only through DoHint with a
\* duration.
LEMMA RequestEffect ==
  ASSUME NEW hs \in [Hints -> {"off", "on", "timed"}], NEW op \in Ops
  PROVE  /\ Request(hs, op) \in [Hints -> {"off", "on", "timed"}]
         /\ \A h \in Hints : h # op[2] \/ h \notin Supported => Request(hs, op)[h] = hs[h]
         /\ op[2] \in Supported => /\ Request(hs, op)[op[2]] = "off" <=> op[1] = "end"
                                   /\ op[2] \in ModeHints /\ op[1] # "timed"
                                        => Request(hs, op)[op[2]] # "timed"
<1>1. op[1] \in {"do", "end", "timed"} /\ op[2] \in Hints
  BY DEF Ops
<1>2. Expiring \cap ModeHints = {}
  BY ModesAssumption
<1>3. CASE op[2] \notin Supported
  BY <1>1, <1>3 DEF Request
<1>4. CASE op[2] \in Supported
  <2> DEFINE v == IF op[1] = "end" THEN "off"
                ELSE IF op[1] = "timed" \/ op[2] \in Expiring THEN "timed"
                ELSE "on"
  <2>1. /\ v \in {"off", "on", "timed"} /\ (v = "off" <=> op[1] = "end")
        /\ op[2] \in ModeHints /\ op[1] # "timed" => v # "timed"
    BY <1>1, <1>2
  <2>2. Request(hs, op) = [hs EXCEPT ![op[2]] = v]
    BY <1>4 DEF Request
  <2> HIDE DEF v
  <2> QED BY <1>1, <1>4, <2>1, <2>2
<1> QED BY <1>3, <1>4

\* The operations name their kind and their hint.
LEMMA OpFields ==
  ASSUME NEW h \in Hints
  PROVE  /\ Do(h) \in Ops /\ End(h) \in Ops /\ DoFor(h) \in Ops
         /\ Do(h)[1] = "do" /\ End(h)[1] = "end" /\ DoFor(h)[1] = "timed"
         /\ Do(h)[2] = h /\ End(h)[2] = h /\ DoFor(h)[2] = h
  BY DEF Do, End, DoFor, Ops

-----------------------------------------------------------------------------
-----------------------------------------------------------------------------
\* What occurs in a short sequence of calls.
LEMMA ShortOps ==
  ASSUME NEW a \in Ops, NEW b \in Ops, NEW c \in Ops, NEW x
  PROVE  /\ ~(\E i \in DOMAIN <<>> : <<>>[i] = x)
         /\ (\E i \in DOMAIN <<a>> : <<a>>[i] = x) <=> a = x
         /\ (\E i \in DOMAIN <<a, b>> : <<a, b>>[i] = x) <=> a = x \/ b = x
         /\ (\E i \in DOMAIN <<a, b, c>> : <<a, b, c>>[i] = x) <=> a = x \/ b = x \/ c = x
<1>1. ~(\E i \in DOMAIN <<>> : <<>>[i] = x)
  OBVIOUS
<1>2. (\E i \in DOMAIN <<a>> : <<a>>[i] = x) <=> a = x
  OBVIOUS
<1>3. (\E i \in DOMAIN <<a, b>> : <<a, b>>[i] = x) <=> a = x \/ b = x
  <2>1. DOMAIN <<a, b>> = {1, 2}
    OBVIOUS
  <2> QED BY <2>1
<1>4. (\E i \in DOMAIN <<a, b, c>> : <<a, b, c>>[i] = x) <=> a = x \/ b = x \/ c = x
  <2>1. DOMAIN <<a, b, c>> = {1, 2, 3}
    OBVIOUS
  <2> QED BY <2>1
<1> QED BY <1>1, <1>2, <1>3, <1>4

\* The conditional last call that setMode appends.
LEMMA OptionalLast ==
  ASSUME NEW a \in Ops, NEW b \in Ops, NEW c \in Ops
  PROVE  <<a, b>> \o <<>> = <<a, b>> /\ <<a, b>> \o <<c>> = <<a, b, c>>
<1> DEFINE s == <<a, b>> \o <<c>>
<1>1. s \in Seq(Ops) /\ Len(s) = 3 /\ s[1] = a /\ s[2] = b /\ s[3] = c
  OBVIOUS
<1> HIDE DEF s
<1>2. s = <<a, b, c>>
  BY <1>1
<1>3. <<a, b>> \o <<>> = <<a, b>>
  OBVIOUS
<1> QED BY <1>2, <1>3 DEF s

\* An operation of a nonempty sequence is its first one or one of the rest.
LEMMA FirstOrRest ==
  ASSUME NEW ops \in Seq(Ops), ops # <<>>, NEW x
  PROVE  /\ Head(ops) \in Ops /\ Tail(ops) \in Seq(Ops)
         /\ (\E i \in DOMAIN ops : ops[i] = x)
              <=> Head(ops) = x \/ \E i \in DOMAIN Tail(ops) : Tail(ops)[i] = x
<1>1. /\ Head(ops) = ops[1] /\ Head(ops) \in Ops /\ Tail(ops) \in Seq(Ops)
      /\ DOMAIN ops = 1 .. Len(ops) /\ Len(ops) \in Nat \ {0}
      /\ DOMAIN Tail(ops) = 1 .. Len(ops) - 1
      /\ \A i \in 1 .. Len(ops) - 1 : Tail(ops)[i] = ops[i + 1]
  OBVIOUS
<1>2. ASSUME NEW i \in DOMAIN ops, ops[i] = x, i # 1
      PROVE  i - 1 \in DOMAIN Tail(ops) /\ Tail(ops)[i - 1] = x
  <2>1. i - 1 \in 1 .. Len(ops) - 1 /\ (i - 1) + 1 = i
    BY <1>1, <1>2
  <2> QED BY <1>1, <1>2, <2>1
<1>3. ASSUME NEW i \in DOMAIN Tail(ops), Tail(ops)[i] = x
      PROVE  i + 1 \in DOMAIN ops /\ ops[i + 1] = x
  BY <1>1, <1>3
<1>4. 1 \in DOMAIN ops
  BY <1>1
<1> QED BY <1>1, <1>2, <1>3, <1>4

\* No two operations are the same unless kind and hint are.
LEMMA OpsDiffer ==
  ASSUME NEW g, NEW h
  PROVE  /\ Do(g) # End(h) /\ Do(g) # DoFor(h) /\ End(g) # DoFor(h)
         /\ (Do(g) = Do(h) <=> g = h) /\ (End(g) = End(h) <=> g = h)
         /\ (DoFor(g) = DoFor(h) <=> g = h)
  BY DEF Do, End, DoFor
\* A sequence of calls that ends the mode hints of E and requests those of D.
Effect(ops, E, D) ==
  /\ ops \in Seq(Ops)
  /\ \A h \in ModeHints : /\ Ends(ops, h) <=> h \in E
                          /\ Does(ops, h) <=> h \in D
                          /\ \A i \in DOMAIN ops : ops[i] # DoFor(h)

\* The shapes of setMode's sequences.
LEMMA OpsShapes ==
  ASSUME TypeOK, NEW f \in Hints, NEW g \in Hints, NEW k \in Hints
  PROVE  /\ Effect(<<>>, {}, {})
         /\ Effect(<<Do(f)>>, {}, {f})
         /\ Effect(<<End(f), Do(g)>>, {f}, {g})
         /\ Effect(<<End(f), End(g)>>, {f, g}, {})
         /\ Effect(<<End(f), End(g), Do(k)>>, {f, g}, {k})
         /\ <<End(f), End(g)>> \o <<>> = <<End(f), End(g)>>
         /\ <<End(f), End(g)>> \o <<Do(k)>> = <<End(f), End(g), Do(k)>>
<1>1. Do(f) \in Ops /\ Do(g) \in Ops /\ Do(k) \in Ops /\ End(f) \in Ops /\ End(g) \in Ops
  BY OpFields
<1>2. ModeHints \subseteq Hints
  BY ConfigFacts
<1>3. Effect(<<>>, {}, {})
  BY <1>1, ShortOps DEF Effect, Ends, Does
<1>4. Effect(<<Do(f)>>, {}, {f})
  <2>1. <<Do(f)>> \in Seq(Ops)
    BY <1>1
  <2> QED BY <1>1, <2>1, ShortOps, OpsDiffer DEF Effect, Ends, Does
<1>5. Effect(<<End(f), Do(g)>>, {f}, {g})
  <2>1. <<End(f), Do(g)>> \in Seq(Ops)
    BY <1>1
  <2> QED BY <1>1, <2>1, ShortOps, OpsDiffer DEF Effect, Ends, Does
<1>6. Effect(<<End(f), End(g)>>, {f, g}, {})
  <2>1. <<End(f), End(g)>> \in Seq(Ops)
    BY <1>1
  <2> QED BY <1>1, <2>1, ShortOps, OpsDiffer DEF Effect, Ends, Does
<1>7. Effect(<<End(f), End(g), Do(k)>>, {f, g}, {k})
  <2>1. <<End(f), End(g), Do(k)>> \in Seq(Ops)
    BY <1>1
  <2> QED BY <1>1, <2>1, ShortOps, OpsDiffer DEF Effect, Ends, Does
<1>8. /\ <<End(f), End(g)>> \o <<>> = <<End(f), End(g)>>
      /\ <<End(f), End(g)>> \o <<Do(k)>> = <<End(f), End(g), Do(k)>>
  BY <1>1, OptionalLast
<1> QED BY <1>3, <1>4, <1>5, <1>6, <1>7, <1>8

\* A sequence that ends the hints of E and requests those of D leads from one
\* pair of flags to another, if E and D are what the two pairs differ in.
LEMMA WayFrom ==
  ASSUME Agree(held, mVRModeOn, mSustainedPerfModeOn),
         NEW ops, NEW E, NEW D, NEW vr, NEW sustained,
         Effect(ops, E, D), E \cap D = {},
         (HintOf(mVRModeOn, mSustainedPerfModeOn) \ E) \cup D = HintOf(vr, sustained)
  PROVE  ops \in Seq(Ops) /\ WayTo(ops, held, vr, sustained)
  BY DEF WayTo, Agree, Effect

\* The hint of each pair of flags.
LEMMA HintOfValues ==
  /\ HintOf(TRUE, TRUE) = {BOTH} /\ HintOf(TRUE, FALSE) = {VR}
  /\ HintOf(FALSE, TRUE) = {SUSTAINED} /\ HintOf(FALSE, FALSE) = {}
  /\ SUSTAINED # VR /\ SUSTAINED # BOTH /\ VR # BOTH
  BY DEF HintOf, SUSTAINED, VR, BOTH

\* The same, element by element.
LEMMA HintOfMembers ==
  ASSUME NEW vr, NEW sustained, NEW h
  PROVE  h \in HintOf(vr, sustained)
           <=> \/ h = BOTH /\ vr /\ sustained
               \/ h = VR /\ vr /\ ~sustained
               \/ h = SUSTAINED /\ ~vr /\ sustained
<1>1. CASE vr /\ sustained
  <2>1. HintOf(vr, sustained) = {BOTH}
    BY <1>1 DEF HintOf
  <2> QED BY <1>1, <2>1, Zenon
<1>2. CASE vr /\ ~sustained
  <2>1. HintOf(vr, sustained) = {VR}
    BY <1>2 DEF HintOf
  <2> QED BY <1>2, <2>1, Zenon
<1>3. CASE ~vr /\ sustained
  <2>1. HintOf(vr, sustained) = {SUSTAINED}
    BY <1>3 DEF HintOf
  <2> QED BY <1>3, <2>1, Zenon
<1>4. CASE ~vr /\ ~sustained
  <2>1. HintOf(vr, sustained) = {}
    BY <1>4 DEF HintOf
  <2> QED BY <1>4, <2>1, Zenon
<1> QED BY <1>1, <1>2, <1>3, <1>4

\* setMode(SUSTAINED_PERFORMANCE): from every mode its calls lead to the hint of
\* the new one.
LEMMA SustainedWay ==
  ASSUME TypeOK, Agree(held, mVRModeOn, mSustainedPerfModeOn), NEW enabled \in BOOLEAN
  PROVE  /\ SustainedOps(enabled) \in Seq(Ops)
         /\ WayTo(SustainedOps(enabled), held, mVRModeOn, enabled)
<1> DEFINE ops == SustainedOps(enabled)
<1>1. SUSTAINED \in Hints /\ VR \in Hints /\ BOTH \in Hints
  BY ConfigFacts DEF ModeHints
<1>2. mVRModeOn \in BOOLEAN /\ mSustainedPerfModeOn \in BOOLEAN
  BY DEF TypeOK
<1>3. CASE enabled /\ ~mSustainedPerfModeOn /\ mVRModeOn
  <2>1. ops = <<End(VR), Do(BOTH)>>
    BY <1>3, <1>1, OpsShapes DEF SustainedOps
  <2>2. Effect(ops, {VR}, {BOTH})
    BY <1>1, <2>1, OpsShapes, Zenon
  <2>3. (HintOf(mVRModeOn, mSustainedPerfModeOn) \ {VR}) \cup {BOTH} = HintOf(mVRModeOn, enabled)
    BY <1>3, <1>2, HintOfValues, Zenon
  <2>4. {VR} \cap {BOTH} = {}
    BY HintOfValues
  <2> QED BY <2>2, <2>3, <2>4, WayFrom, Zenon
<1>4. CASE enabled /\ ~mSustainedPerfModeOn /\ ~mVRModeOn
  <2>1. ops = <<Do(SUSTAINED)>>
    BY <1>4, <1>1, OpsShapes DEF SustainedOps
  <2>2. Effect(ops, {}, {SUSTAINED})
    BY <1>1, <2>1, OpsShapes, Zenon
  <2>3. (HintOf(mVRModeOn, mSustainedPerfModeOn) \ {}) \cup {SUSTAINED} = HintOf(mVRModeOn, enabled)
    BY <1>4, <1>2, HintOfValues, Zenon
  <2>4. {} \cap {SUSTAINED} = {}
    BY HintOfValues
  <2> QED BY <2>2, <2>3, <2>4, WayFrom
<1>5. CASE ~enabled /\ mSustainedPerfModeOn /\ mVRModeOn
  <2>1. ops = <<End(BOTH), End(SUSTAINED), Do(VR)>>
    BY <1>5, <1>1, OpsShapes, Zenon DEF SustainedOps
  <2>2. Effect(ops, {BOTH, SUSTAINED}, {VR})
    BY <1>1, <2>1, OpsShapes, Zenon
  <2>3. (HintOf(mVRModeOn, mSustainedPerfModeOn) \ {BOTH, SUSTAINED}) \cup {VR} = HintOf(mVRModeOn, enabled)
    BY <1>5, <1>2, HintOfValues, Zenon
  <2>4. {BOTH, SUSTAINED} \cap {VR} = {}
    BY HintOfValues
  <2> QED BY <2>2, <2>3, <2>4, WayFrom, Zenon
<1>6. CASE ~enabled /\ mSustainedPerfModeOn /\ ~mVRModeOn
  <2>1. ops = <<End(BOTH), End(SUSTAINED)>>
    BY <1>6, <1>1, OpsShapes DEF SustainedOps
  <2>2. Effect(ops, {BOTH, SUSTAINED}, {})
    BY <1>1, <2>1, OpsShapes, Zenon
  <2>3. (HintOf(mVRModeOn, mSustainedPerfModeOn) \ {BOTH, SUSTAINED}) \cup {} = HintOf(mVRModeOn, enabled)
    BY <1>6, <1>2, HintOfValues, Zenon
  <2>4. {BOTH, SUSTAINED} \cap {} = {}
    BY HintOfValues
  <2> QED BY <2>2, <2>3, <2>4, WayFrom
<1>7. CASE enabled = mSustainedPerfModeOn
  <2>1. ops = <<>>
    BY <1>7 DEF SustainedOps
  <2>2. Effect(ops, {}, {})
    BY <1>1, <2>1, OpsShapes, Zenon
  <2>3. (HintOf(mVRModeOn, mSustainedPerfModeOn) \ {}) \cup {} = HintOf(mVRModeOn, enabled)
    BY <1>7
  <2> QED BY <2>2, <2>3, WayFrom
<1> QED BY <1>2, <1>3, <1>4, <1>5, <1>6, <1>7

\* setMode(VR), in the same way.
LEMMA VrWay ==
  ASSUME TypeOK, Agree(held, mVRModeOn, mSustainedPerfModeOn), NEW enabled \in BOOLEAN
  PROVE  /\ VrOps(enabled) \in Seq(Ops)
         /\ WayTo(VrOps(enabled), held, enabled, mSustainedPerfModeOn)
<1> DEFINE ops == VrOps(enabled)
<1>1. SUSTAINED \in Hints /\ VR \in Hints /\ BOTH \in Hints
  BY ConfigFacts DEF ModeHints
<1>2. mVRModeOn \in BOOLEAN /\ mSustainedPerfModeOn \in BOOLEAN
  BY DEF TypeOK
<1>3. CASE enabled /\ ~mVRModeOn /\ mSustainedPerfModeOn
  <2>1. ops = <<End(SUSTAINED), Do(BOTH)>>
    BY <1>3, <1>1, OpsShapes DEF VrOps
  <2>2. Effect(ops, {SUSTAINED}, {BOTH})
    BY <1>1, <2>1, OpsShapes, Zenon
  <2>3. (HintOf(mVRModeOn, mSustainedPerfModeOn) \ {SUSTAINED}) \cup {BOTH} = HintOf(enabled, mSustainedPerfModeOn)
    BY <1>3, <1>2, HintOfValues, Zenon
  <2>4. {SUSTAINED} \cap {BOTH} = {}
    BY HintOfValues
  <2> QED BY <2>2, <2>3, <2>4, WayFrom, Zenon
<1>4. CASE enabled /\ ~mVRModeOn /\ ~mSustainedPerfModeOn
  <2>1. ops = <<Do(VR)>>
    BY <1>4, <1>1, OpsShapes DEF VrOps
  <2>2. Effect(ops, {}, {VR})
    BY <1>1, <2>1, OpsShapes, Zenon
  <2>3. (HintOf(mVRModeOn, mSustainedPerfModeOn) \ {}) \cup {VR} = HintOf(enabled, mSustainedPerfModeOn)
    BY <1>4, <1>2, HintOfValues, Zenon
  <2>4. {} \cap {VR} = {}
    BY HintOfValues
  <2> QED BY <2>2, <2>3, <2>4, WayFrom
<1>5. CASE ~enabled /\ mVRModeOn /\ mSustainedPerfModeOn
  <2>1. ops = <<End(BOTH), End(VR), Do(SUSTAINED)>>
    BY <1>5, <1>1, OpsShapes, Zenon DEF VrOps
  <2>2. Effect(ops, {BOTH, VR}, {SUSTAINED})
    BY <1>1, <2>1, OpsShapes, Zenon
  <2>3. (HintOf(mVRModeOn, mSustainedPerfModeOn) \ {BOTH, VR}) \cup {SUSTAINED} = HintOf(enabled, mSustainedPerfModeOn)
    BY <1>5, <1>2, HintOfValues, Zenon
  <2>4. {BOTH, VR} \cap {SUSTAINED} = {}
    BY HintOfValues
  <2> QED BY <2>2, <2>3, <2>4, WayFrom, Zenon
<1>6. CASE ~enabled /\ mVRModeOn /\ ~mSustainedPerfModeOn
  <2>1. ops = <<End(BOTH), End(VR)>>
    BY <1>6, <1>1, OpsShapes DEF VrOps
  <2>2. Effect(ops, {BOTH, VR}, {})
    BY <1>1, <2>1, OpsShapes, Zenon
  <2>3. (HintOf(mVRModeOn, mSustainedPerfModeOn) \ {BOTH, VR}) \cup {} = HintOf(enabled, mSustainedPerfModeOn)
    BY <1>6, <1>2, HintOfValues, Zenon
  <2>4. {BOTH, VR} \cap {} = {}
    BY HintOfValues
  <2> QED BY <2>2, <2>3, <2>4, WayFrom
<1>7. CASE enabled = mVRModeOn
  <2>1. ops = <<>>
    BY <1>7 DEF VrOps
  <2>2. Effect(ops, {}, {})
    BY <1>1, <2>1, OpsShapes
  <2>3. (HintOf(mVRModeOn, mSustainedPerfModeOn) \ {}) \cup {} = HintOf(enabled, mSustainedPerfModeOn)
    BY <1>7
  <2> QED BY <2>2, <2>3, WayFrom
<1> QED BY <1>2, <1>3, <1>4, <1>5, <1>6, <1>7

\* A call about any other hint, or none, leaves the mode as it is.
LEMMA PlainWay ==
  ASSUME Agree(held, mVRModeOn, mSustainedPerfModeOn), NEW ops,
         \/ ops = <<>>
         \/ \E op \in Ops : ops = <<op>> /\ op[2] \notin ModeHints
  PROVE  ops \in Seq(Ops) /\ WayTo(ops, held, mVRModeOn, mSustainedPerfModeOn)
<1>1. Effect(ops, {}, {})
  <2>1. CASE ops = <<>>
    BY <2>1 DEF Effect, Ends, Does
  <2>2. ASSUME NEW op \in Ops, ops = <<op>>, op[2] \notin ModeHints
        PROVE  Effect(ops, {}, {})
    <3>1. ops \in Seq(Ops) /\ DOMAIN ops = {1} /\ ops[1] = op
      BY <2>2
    <3>2. \A h \in ModeHints : op # Do(h) /\ op # End(h) /\ op # DoFor(h)
      BY <2>2 DEF Do, End, DoFor
    <3> QED BY <3>1, <3>2 DEF Effect, Ends, Does
  <2> QED BY <2>1, <2>2
<1> QED BY <1>1, WayFrom

\* What the constructor requests: of the modes, the one the property names.
LEMMA RestoredFacts ==
  ASSUME TypeOK
  PROVE  /\ RestoredHints \in [Hints -> {"off", "on", "timed"}]
         /\ \A h \in Hints : RestoredHints[h] # "off" => h \in Supported
         /\ \A h \in ModeHints : /\ RestoredHints[h] # "timed"
                                 /\ RestoredHints[h] # "off" <=> prop.state = h /\ h \in Supported
         /\ RestoredHints[AUDIO] # "off" <=> prop.audio = AUDIO /\ AUDIO \in Supported
         /\ RestoredHints[RENDERING] # "off"
              <=> prop.rendering = RENDERING /\ RENDERING \in Supported
<1> DEFINE s0 == NoHints
           s1 == IF prop.state \in ModeHints THEN Request(s0, Do(prop.state)) ELSE s0
           s2 == IF prop.audio = AUDIO THEN Request(s1, Do(AUDIO)) ELSE s1
           s3 == IF prop.rendering = RENDERING THEN Request(s2, Do(RENDERING)) ELSE s2
           Hs == [Hints -> {"off", "on", "timed"}]
<1>1. ModeHints \subseteq Hints /\ AUDIO \in Hints /\ RENDERING \in Hints
  BY ConfigFacts
<1>2. AUDIO \notin ModeHints /\ RENDERING \notin ModeHints /\ AUDIO # RENDERING
  BY DEF ModeHints, SUSTAINED, VR, BOTH, AUDIO, RENDERING
<1>3. s0 \in Hs /\ \A h \in Hints : s0[h] = "off"
  BY DEF NoHints
<1> HIDE DEF s0
<1>4. /\ s1 \in Hs
      /\ \A h \in Hints \ ModeHints : s1[h] = "off"
      /\ \A h \in ModeHints : /\ s1[h] # "timed"
                              /\ s1[h] # "off" <=> prop.state = h /\ h \in Supported
  <2>1. CASE prop.state \in ModeHints
    <3>1. prop.state \in Hints
      BY <1>1, <2>1
    <3>2. /\ Do(prop.state) \in Ops /\ Do(prop.state)[1] = "do"
          /\ Do(prop.state)[2] = prop.state
      BY <3>1, OpFields
    <3>3. s1 = Request(s0, Do(prop.state))
      BY <2>1
    <3> QED BY <1>1, <1>3, <2>1, <3>2, <3>3, RequestEffect
  <2>2. CASE prop.state \notin ModeHints
    BY <1>1, <1>3, <2>2
  <2> QED BY <2>1, <2>2
<1> HIDE DEF s1
<1>5. /\ s2 \in Hs
      /\ \A h \in Hints \ {AUDIO} : s2[h] = s1[h]
      /\ s2[AUDIO] # "off" <=> prop.audio = AUDIO /\ AUDIO \in Supported
  <2>1. Do(AUDIO) \in Ops /\ Do(AUDIO)[1] = "do" /\ Do(AUDIO)[2] = AUDIO
    BY <1>1, OpFields
  <2>2. s1[AUDIO] = "off"
    BY <1>1, <1>2, <1>4
  <2>3. CASE prop.audio = AUDIO
    <3>1. s2 = Request(s1, Do(AUDIO))
      BY <2>3
    <3> QED BY <1>1, <1>4, <2>1, <2>2, <2>3, <3>1, RequestEffect
  <2>4. CASE prop.audio # AUDIO
    BY <1>4, <2>2, <2>4
  <2> QED BY <2>3, <2>4
<1> HIDE DEF s2
<1>6. /\ s3 \in Hs
      /\ \A h \in Hints \ {RENDERING} : s3[h] = s2[h]
      /\ s3[RENDERING] # "off" <=> prop.rendering = RENDERING /\ RENDERING \in Supported
  <2>1. Do(RENDERING) \in Ops /\ Do(RENDERING)[1] = "do" /\ Do(RENDERING)[2] = RENDERING
    BY <1>1, OpFields
  <2>2. s2[RENDERING] = "off"
    BY <1>1, <1>2, <1>4, <1>5
  <2>3. CASE prop.rendering = RENDERING
    <3>1. s3 = Request(s2, Do(RENDERING))
      BY <2>3
    <3> QED BY <1>1, <1>5, <2>1, <2>2, <2>3, <3>1, RequestEffect
  <2>4. CASE prop.rendering # RENDERING
    BY <1>5, <2>2, <2>4
  <2> QED BY <2>3, <2>4
<1>7. RestoredHints = s3
  BY DEF RestoredHints, s0, s1, s2
<1> HIDE DEF s3
<1>8. \A h \in Hints : s3[h] # "off" => h \in Supported
  BY <1>2, <1>4, <1>5, <1>6
<1>9. \A h \in ModeHints : s3[h] = s1[h]
  BY <1>1, <1>2, <1>5, <1>6
<1>10. s3[AUDIO] = s2[AUDIO]
  BY <1>1, <1>2, <1>6
<1> QED BY <1>4, <1>5, <1>6, <1>7, <1>8, <1>9, <1>10

-----------------------------------------------------------------------------
\* At boot nothing is requested and nothing has to be restored.
LEMMA InitIInv == Init => IInv
<1> SUFFICES ASSUME Init PROVE IInv
  OBVIOUS
<1>1. TypeOK
  <2>1. expect \in [known : BOOLEAN, vr : BOOLEAN, sustained : BOOLEAN,
                    side : SUBSET {AUDIO, RENDERING}]
    BY Zenon DEF Init, Unknown
  <2>2. call \in [ops : Seq(Ops), vr : BOOLEAN, sustained : BOOLEAN, busy : BOOLEAN]
    BY DEF Init, NoCall
  <2>3. mVRModeOn \in BOOLEAN /\ mSustainedPerfModeOn \in BOOLEAN /\ up \in BOOLEAN
        /\ init \in BOOLEAN
    BY Zenon DEF Init
  <2>4. held \in [Hints -> {"off", "on", "timed"}] /\ DOMAIN prop = Props /\ config \in Configs
    BY DEF Init, NoHints, Cleared
  <2> QED BY <2>1, <2>2, <2>3, <2>4 DEF TypeOK
<1>2. HeldInv
  <2>1. ModeHints \subseteq Hints
    BY <1>1, ConfigFacts
  <2> QED BY <2>1 DEF Init, HeldInv, NoHints
<1>3. ModesInv
  BY DEF Init, ModesInv
<1>4. ExpectInv
  <2>1. prop.state = "" /\ prop.audio = "" /\ prop.rendering = ""
    BY DEF Init, Cleared, Props
  <2>2. expect.vr = FALSE /\ expect.sustained = FALSE /\ expect.side = {}
    BY DEF Init, Unknown
  <2> QED BY <2>1, <2>2 DEF ExpectInv, VR, BOTH, SUSTAINED, AUDIO, RENDERING
<1> QED BY <1>1, <1>2, <1>3, <1>4 DEF IInv
-----------------------------------------------------------------------------
\* The types and the properties do not depend on a step that leaves the hints,
\* the flags and the properties alone, whatever it does to the manager's thread.
LEMMA QuietSteps ==
  ASSUME IInv, HintManagerStart \/ BootCompletes \/ UNCHANGED vars
  PROVE  IInv'
<1>1. /\ UNCHANGED <<config, mVRModeOn, mSustainedPerfModeOn, held, call, up>>
      /\ UNCHANGED <<prop, init, expect>>
  BY DEF HintManagerStart, BootCompletes, vars, processVars
<1>2. TypeOK'
  BY <1>1 DEF IInv, TypeOK
<1>3. HeldInv'
  BY <1>1 DEF IInv, HeldInv, Supported
<1>4. ModesInv'
  BY <1>1 DEF IInv, ModesInv, WayTo, Agree, Supported
<1>5. ExpectInv'
  BY <1>1 DEF IInv, ExpectInv, Supported
<1> QED BY <1>2, <1>3, <1>4, <1>5 DEF IInv

\* The constructor: the flags and the one mode hint it requests agree.
LEMMA StartStep ==
  ASSUME IInv, Start
  PROVE  IInv'
<1> USE DEF IInv
<1>1. /\ ~up /\ up' = TRUE /\ held' = RestoredHints /\ call' = NoCall
      /\ mSustainedPerfModeOn' = (prop.state \in {SUSTAINED, BOTH})
      /\ mVRModeOn' = (prop.state \in {VR, BOTH})
      /\ UNCHANGED <<config, prop, init, expect>>
  BY DEF Start
<1>2. TypeOK'
  <2>1. NoCall \in [ops : Seq(Ops), vr : BOOLEAN, sustained : BOOLEAN, busy : BOOLEAN]
    BY DEF NoCall
  <2>2. mVRModeOn' \in BOOLEAN
    BY <1>1
  <2>3. mSustainedPerfModeOn' \in BOOLEAN
    BY <1>1
  <2>4. up' \in BOOLEAN
    BY <1>1, Zenon
  <2> QED BY <1>1, <2>1, <2>2, <2>3, <2>4, RestoredFacts DEF TypeOK
<1>3. HeldInv'
  BY <1>1, RestoredFacts DEF HeldInv, Supported
<1>4. ModesInv'
  <2>1. ~call'.busy
    BY <1>1 DEF NoCall
  <2>2. \A h \in ModeHints : h \in HintOf(mVRModeOn', mSustainedPerfModeOn') <=> prop.state = h
    <3>1. mVRModeOn' <=> prop.state \in {VR, BOTH}
      BY <1>1, Zenon
    <3>2. mSustainedPerfModeOn' <=> prop.state \in {SUSTAINED, BOTH}
      BY <1>1, Zenon
    <3> SUFFICES ASSUME NEW h \in ModeHints
                 PROVE  h \in HintOf(mVRModeOn', mSustainedPerfModeOn') <=> prop.state = h
      OBVIOUS
    <3>3. h \in HintOf(mVRModeOn', mSustainedPerfModeOn')
            <=> \/ h = BOTH /\ mVRModeOn' /\ mSustainedPerfModeOn'
                \/ h = VR /\ mVRModeOn' /\ ~mSustainedPerfModeOn'
                \/ h = SUSTAINED /\ ~mVRModeOn' /\ mSustainedPerfModeOn'
      BY HintOfMembers
    <3> QED BY <3>1, <3>2, <3>3 DEF ModeHints, SUSTAINED, VR, BOTH
  <2>3. \A h \in ModeHints : held'[h] # "off" <=> prop.state = h /\ h \in Supported
    BY <1>1, RestoredFacts
  <2>4. Agree(held, mVRModeOn, mSustainedPerfModeOn)'
    BY <1>1, <2>2, <2>3 DEF Agree, Supported
  <2> QED BY <2>1, <2>4 DEF ModesInv
<1>5. ExpectInv'
  BY <1>1 DEF ExpectInv, Supported
<1> QED BY <1>2, <1>3, <1>4, <1>5

\* A call begins: nothing but the list of its operations changes.
LEMMA BeginStep ==
  ASSUME IInv, NEW ops, NEW vr \in BOOLEAN, NEW sustained \in BOOLEAN,
         Begin(ops, vr, sustained),
         ops \in Seq(Ops), WayTo(ops, held, vr, sustained)
  PROVE  IInv'
<1> USE DEF IInv
<1>1. /\ call' = [ops |-> ops, vr |-> vr, sustained |-> sustained, busy |-> TRUE]
      /\ UNCHANGED <<config, mVRModeOn, mSustainedPerfModeOn, held, up, prop, init, expect>>
  BY DEF Begin
<1>2. call' \in [ops : Seq(Ops), vr : BOOLEAN, sustained : BOOLEAN, busy : BOOLEAN]
  BY <1>1
<1>3. TypeOK'
  BY <1>1, <1>2 DEF TypeOK
<1>4. HeldInv'
  BY <1>1 DEF HeldInv, Supported
<1>5. ModesInv'
  <2>1. call'.busy /\ call'.ops = ops /\ call'.vr = vr /\ call'.sustained = sustained
    BY <1>1
  <2>2. WayTo(call.ops, held, call.vr, call.sustained)'
    BY <1>1, <2>1 DEF WayTo, Supported
  <2> QED BY <2>1, <2>2 DEF ModesInv
<1>6. ExpectInv'
  BY <1>1 DEF ExpectInv, Supported
<1> QED BY <1>3, <1>4, <1>5, <1>6

\* setMode, setBoost and PowerExt's calls.
LEMMA CallSteps ==
  ASSUME IInv,
         \/ \E type \in Modes, enabled \in BOOLEAN : SetMode(type, enabled)
         \/ \E b \in Boosts : \E op \in {Do(b), DoFor(b), End(b)} : SetBoost(b, op)
         \/ \E h \in ExtHints : \E op \in {Do(h), DoFor(h), End(h)} : ExtCall(op)
  PROVE  IInv'
<1>1. TypeOK /\ mVRModeOn \in BOOLEAN /\ mSustainedPerfModeOn \in BOOLEAN
  BY DEF IInv, TypeOK
<1>2. up /\ ~call.busy
  BY Zenon DEF SetMode, SetBoost, ExtCall, Begin
<1>3. Agree(held, mVRModeOn, mSustainedPerfModeOn)
  BY <1>2 DEF IInv, ModesInv
<1>4. ASSUME NEW h \in Hints \ ModeHints, NEW op \in {Do(h), DoFor(h), End(h)}
      PROVE  op \in Ops /\ op[2] \notin ModeHints
  BY OpFields
<1>5. ASSUME NEW type \in Modes, NEW enabled \in BOOLEAN, SetMode(type, enabled)
      PROVE  IInv'
  <2>1. CASE type = SUSTAINED
    <3>1. Begin(SustainedOps(enabled), mVRModeOn, enabled)
      BY <1>5, <2>1, HintOfValues DEF SetMode
    <3> QED BY <1>1, <1>3, <3>1, SustainedWay, BeginStep
  <2>2. CASE type = VR
    <3>1. Begin(VrOps(enabled), enabled, mSustainedPerfModeOn)
      BY <1>5, <2>2, HintOfValues DEF SetMode
    <3> QED BY <1>1, <1>3, <3>1, VrWay, BeginStep
  <2>3. CASE type # SUSTAINED /\ type # VR
    <3>1. Begin(PlainOps(type, enabled), mVRModeOn, mSustainedPerfModeOn)
      BY <1>5, <2>3 DEF SetMode
    <3>2. type \in Hints \ ModeHints
      <4>1. type \in Hints
        BY DEF Hints
      <4>2. type # BOTH
        BY ModesAssumption
      <4> QED BY <2>3, <4>1, <4>2 DEF ModeHints
    <3>3. PlainOps(type, enabled) \in {<<>>, <<Do(type)>>, <<End(type)>>}
      BY DEF PlainOps
    <3>4. \/ PlainOps(type, enabled) = <<>>
          \/ \E op \in Ops : PlainOps(type, enabled) = <<op>> /\ op[2] \notin ModeHints
      BY <1>4, <3>2, <3>3
    <3> QED BY <1>1, <1>3, <3>1, <3>4, PlainWay, BeginStep
  <2> QED BY <2>1, <2>2, <2>3
<1>6. ASSUME NEW b \in Boosts, NEW op \in {Do(b), DoFor(b), End(b)}, SetBoost(b, op)
      PROVE  IInv'
  <2> DEFINE ops == IF mVRModeOn \/ mSustainedPerfModeOn THEN <<>> ELSE <<op>>
  <2>1. b \in Hints \ ModeHints
    BY ModesAssumption DEF Hints
  <2>2. ops = <<>> \/ \E o \in Ops : ops = <<o>> /\ o[2] \notin ModeHints
    BY <1>4, <2>1
  <2>3. Begin(ops, mVRModeOn, mSustainedPerfModeOn)
    BY <1>6 DEF SetBoost
  <2> HIDE DEF ops
  <2> QED BY <1>1, <1>3, <2>2, <2>3, PlainWay, BeginStep
<1>7. ASSUME NEW h \in ExtHints, NEW op \in {Do(h), DoFor(h), End(h)}, ExtCall(op)
      PROVE  IInv'
  <2>1. h \in Hints \ ModeHints
    BY ModesAssumption DEF Hints
  <2>2. <<op>> = <<>> \/ \E o \in Ops : <<op>> = <<o>> /\ o[2] \notin ModeHints
    BY <1>4, <2>1
  <2>3. Begin(<<op>>, mVRModeOn, mSustainedPerfModeOn)
    BY <1>7 DEF ExtCall
  <2> QED BY <1>1, <1>3, <2>2, <2>3, PlainWay, BeginStep
<1> QED BY <1>5, <1>6, <1>7

\* One DoHint or EndHint: what the call has done and what it has left to do
\* still add up to the hint of its mode.
LEMMA CallHintManagerStep ==
  ASSUME IInv, CallHintManager
  PROVE  IInv'
<1> USE DEF IInv
<1> DEFINE op == Head(call.ops)
           rest == Tail(call.ops)
<1>1. /\ up /\ call.busy /\ call.ops # <<>>
      /\ held' = Request(held, op)
      /\ call' = [call EXCEPT !.ops = rest]
      /\ UNCHANGED <<config, mVRModeOn, mSustainedPerfModeOn, up, prop, init, expect>>
  BY DEF CallHintManager
<1>2. /\ call \in [ops : Seq(Ops), vr : BOOLEAN, sustained : BOOLEAN, busy : BOOLEAN]
      /\ call.ops \in Seq(Ops) /\ held \in [Hints -> {"off", "on", "timed"}]
  BY DEF TypeOK
<1>3. op \in Ops /\ rest \in Seq(Ops)
  BY <1>1, <1>2, FirstOrRest
<1>4. /\ op[1] \in {"do", "end", "timed"} /\ op[2] \in Hints /\ op = <<op[1], op[2]>>
  BY <1>3 DEF Ops
<1>5. /\ call'.busy /\ call'.ops = rest /\ call'.vr = call.vr
      /\ call'.sustained = call.sustained
      /\ call' \in [ops : Seq(Ops), vr : BOOLEAN, sustained : BOOLEAN, busy : BOOLEAN]
  BY <1>1, <1>2, <1>3, Zenon
<1>6. \A h : /\ Ends(call.ops, h) <=> op = End(h) \/ Ends(rest, h)
             /\ Does(call.ops, h) <=> op = Do(h) \/ Does(rest, h)
             /\ (\A i \in DOMAIN call.ops : call.ops[i] # DoFor(h))
                  => op # DoFor(h) /\ \A i \in DOMAIN rest : rest[i] # DoFor(h)
  <2> TAKE h
  <2>1. \A x : (\E i \in DOMAIN call.ops : call.ops[i] = x)
                 <=> op = x \/ \E i \in DOMAIN rest : rest[i] = x
    BY <1>1, <1>2, FirstOrRest, ZenonT(30)
  <2> HIDE DEF op, rest
  <2>2. Ends(call.ops, h) <=> op = End(h) \/ Ends(rest, h)
    BY <2>1 DEF Ends
  <2>3. Does(call.ops, h) <=> op = Do(h) \/ Does(rest, h)
    BY <2>1 DEF Does
  <2>4. (\A i \in DOMAIN call.ops : call.ops[i] # DoFor(h))
          => op # DoFor(h) /\ \A i \in DOMAIN rest : rest[i] # DoFor(h)
    BY <2>1
  <2> QED BY <2>2, <2>3, <2>4
<1> HIDE DEF op, rest
<1>7. /\ held' \in [Hints -> {"off", "on", "timed"}]
      /\ \A h \in Hints : h # op[2] \/ h \notin Supported => held'[h] = held[h]
      /\ op[2] \in Supported => /\ held'[op[2]] = "off" <=> op[1] = "end"
                                /\ op[2] \in ModeHints /\ op[1] # "timed"
                                     => held'[op[2]] # "timed"
  BY <1>1, <1>2, <1>3, RequestEffect
<1>8. WayTo(call.ops, held, call.vr, call.sustained)
  BY <1>1 DEF ModesInv
<1>9. ModeHints \subseteq Hints
  BY ConfigFacts
<1>10. \A h : (op = End(h) <=> op[1] = "end" /\ op[2] = h) /\ (op = Do(h) <=> op[1] = "do" /\ op[2] = h)
              /\ (op = DoFor(h) <=> op[1] = "timed" /\ op[2] = h)
  BY <1>4 DEF Do, End, DoFor
<1>11. TypeOK'
  BY <1>1, <1>5, <1>7 DEF TypeOK
<1>12. HeldInv'
  <2>1. \A h \in Hints : held'[h] # "off" => h \in Supported
    BY <1>7 DEF HeldInv
  <2>2. ASSUME NEW h \in ModeHints PROVE held'[h] # "timed"
    <3>1. op # DoFor(h)
      BY <1>6, <1>8 DEF WayTo
    <3>2. held[h] # "timed" /\ h \in Hints
      BY <1>9 DEF HeldInv
    <3>3. CASE h # op[2] \/ h \notin Supported
      BY <1>7, <3>2, <3>3
    <3>4. CASE h = op[2] /\ h \in Supported
      <4>1. op[1] # "timed"
        BY <1>10, <3>1, <3>4
      <4> QED BY <1>7, <3>4, <4>1
    <3> QED BY <3>3, <3>4
  <2> QED BY <1>1, <2>1, <2>2 DEF HeldInv, Supported
<1>13. ASSUME NEW h \in ModeHints
       PROVE  /\ ~(Ends(rest, h) /\ Does(rest, h))
              /\ \A i \in DOMAIN rest : rest[i] # DoFor(h)
              /\ (held'[h] # "off" /\ ~Ends(rest, h)) \/ (Does(rest, h) /\ h \in Supported)
                   <=> h \in HintOf(call.vr, call.sustained) /\ h \in Supported
  <2>1. /\ ~(Ends(call.ops, h) /\ Does(call.ops, h))
        /\ \A i \in DOMAIN call.ops : call.ops[i] # DoFor(h)
        /\ (held[h] # "off" /\ ~Ends(call.ops, h)) \/ (Does(call.ops, h) /\ h \in Supported)
             <=> h \in HintOf(call.vr, call.sustained) /\ h \in Supported
    BY <1>8 DEF WayTo
  <2>2. /\ Ends(call.ops, h) <=> op = End(h) \/ Ends(rest, h)
        /\ Does(call.ops, h) <=> op = Do(h) \/ Does(rest, h)
        /\ op # DoFor(h) /\ \A i \in DOMAIN rest : rest[i] # DoFor(h)
    BY <1>6, <2>1
  <2>3. h \in Hints /\ (held[h] # "off" => h \in Supported)
    BY <1>9 DEF HeldInv
  <2>4. CASE op[2] # h \/ h \notin Supported
    <3>1. held'[h] = held[h]
      BY <1>7, <2>3, <2>4
    <3>2. op[2] # h => op # End(h) /\ op # Do(h)
      BY <1>10
    <3> QED BY <2>1, <2>2, <2>3, <2>4, <3>1, <3>2
  <2>5. CASE op[2] = h /\ h \in Supported
    <3>1. held'[h] = "off" <=> op[1] = "end"
      BY <1>7, <2>5
    <3>2. (op = End(h) <=> op[1] = "end") /\ (op = Do(h) <=> op[1] # "end")
      BY <1>4, <1>10, <2>2, <2>5
    <3> QED BY <2>1, <2>2, <2>5, <3>1, <3>2
  <2> QED BY <2>4, <2>5
<1>14. ModesInv'
  <2>1. WayTo(call.ops, held, call.vr, call.sustained)'
    BY <1>1, <1>5, <1>13 DEF WayTo, Supported
  <2> QED BY <1>5, <2>1 DEF ModesInv
<1>15. ExpectInv'
  BY <1>1 DEF ExpectInv, Supported
<1> QED BY <1>11, <1>12, <1>14, <1>15

\* The call returns: with nothing left to do, the hints are those of its mode,
\* which the flags now record.
LEMMA CallReturnsStep ==
  ASSUME IInv, CallReturns
  PROVE  IInv'
<1> USE DEF IInv
<1>1. /\ up /\ call.busy /\ call.ops = <<>>
      /\ mVRModeOn' = call.vr /\ mSustainedPerfModeOn' = call.sustained /\ call' = NoCall
      /\ UNCHANGED <<config, held, up, prop, init, expect>>
  BY DEF CallReturns
<1>2. TypeOK'
  <2>1. NoCall \in [ops : Seq(Ops), vr : BOOLEAN, sustained : BOOLEAN, busy : BOOLEAN]
    BY DEF NoCall
  <2>2. call.vr \in BOOLEAN /\ call.sustained \in BOOLEAN
    BY DEF TypeOK
  <2> QED BY <1>1, <2>1, <2>2 DEF TypeOK
<1>3. HeldInv'
  BY <1>1 DEF HeldInv, Supported
<1>4. ModesInv'
  <2>1. ~call'.busy
    BY <1>1 DEF NoCall
  <2>2. WayTo(<<>>, held, call.vr, call.sustained)
    BY <1>1 DEF ModesInv
  <2>3. \A h : ~Ends(<<>>, h) /\ ~Does(<<>>, h)
    BY DEF Ends, Does
  <2>4. Agree(held, call.vr, call.sustained)
    BY <2>2, <2>3 DEF WayTo, Agree
  <2>5. Agree(held, mVRModeOn, mSustainedPerfModeOn)'
    BY <1>1, <2>4 DEF Agree, Supported
  <2> QED BY <2>1, <2>5 DEF ModesInv
<1>5. ExpectInv'
  BY <1>1 DEF ExpectInv, Supported
<1> QED BY <1>2, <1>3, <1>4, <1>5

\* The manager's thread: a node written while init restarts the service makes
\* what is to be restored unknown; otherwise the service is up.
LEMMA NodeWriteStep ==
  ASSUME IInv, NEW p \in Props, NodeWrite(p)
  PROVE  IInv'
<1> USE DEF IInv
<1>1. /\ up /\ prop' = [prop EXCEPT ![p] = Target(held, p)]
      /\ expect' = IF init THEN Unknown ELSE expect
      /\ UNCHANGED <<config, mVRModeOn, mSustainedPerfModeOn, held, call, up, init>>
  BY DEF NodeWrite
<1>2. Unknown \in [known : BOOLEAN, vr : BOOLEAN, sustained : BOOLEAN,
                   side : SUBSET {AUDIO, RENDERING}]
  BY DEF Unknown
<1>3. TypeOK'
  BY <1>1, <1>2 DEF TypeOK
<1>4. HeldInv'
  BY <1>1 DEF HeldInv, Supported
<1>5. ModesInv'
  BY <1>1 DEF ModesInv, WayTo, Agree, Supported
<1>6. ExpectInv'
  <2>1. init => ~expect'.known
    BY <1>1 DEF Unknown
  <2> QED BY <1>1, <2>1 DEF ExpectInv
<1> QED BY <1>3, <1>4, <1>5, <1>6

\* A hint expires: it is no mode's.
LEMMA HintExpiresStep ==
  ASSUME IInv, NEW h \in Hints, HintExpires(h)
  PROVE  IInv'
<1> USE DEF IInv
<1>1. /\ held[h] = "timed" /\ held' = [held EXCEPT ![h] = "off"]
      /\ UNCHANGED <<config, mVRModeOn, mSustainedPerfModeOn, call, up, prop, init, expect>>
  BY DEF HintExpires
<1>2. h \notin ModeHints /\ ModeHints \subseteq Hints
  BY <1>1, ConfigFacts DEF HeldInv
<1>3. TypeOK'
  BY <1>1 DEF TypeOK
<1>4. \A g \in ModeHints : held'[g] = held[g]
  BY <1>1, <1>2 DEF TypeOK
<1>5. HeldInv'
  BY <1>1, <1>2, <1>4 DEF HeldInv, TypeOK, Supported
<1>6. ModesInv'
  BY <1>1, <1>4 DEF ModesInv, WayTo, Agree, Supported
<1>7. ExpectInv'
  BY <1>1 DEF ExpectInv, Supported
<1> QED BY <1>3, <1>5, <1>6, <1>7

\* A process that is gone holds nothing.
LEMMA GoneProcess ==
  ASSUME TypeOK, up' = FALSE, held' = NoHints, call' = NoCall, config' = config,
         mVRModeOn' = FALSE, mSustainedPerfModeOn' = FALSE, init' \in BOOLEAN,
         DOMAIN prop' = Props,
         expect' \in [known : BOOLEAN, vr : BOOLEAN, sustained : BOOLEAN,
                      side : SUBSET {AUDIO, RENDERING}]
  PROVE  TypeOK' /\ HeldInv' /\ ModesInv'
<1>1. TypeOK'
  <2>1. NoCall \in [ops : Seq(Ops), vr : BOOLEAN, sustained : BOOLEAN, busy : BOOLEAN]
    BY DEF NoCall
  <2>2. NoHints \in [Hints -> {"off", "on", "timed"}]
    BY DEF NoHints
  <2>3. up' \in BOOLEAN /\ mVRModeOn' \in BOOLEAN /\ mSustainedPerfModeOn' \in BOOLEAN
    BY Zenon
  <2> QED BY <2>1, <2>2, <2>3 DEF TypeOK
<1>2. HeldInv'
  BY ConfigFacts DEF HeldInv, NoHints, Supported
<1>3. ModesInv'
  BY DEF ModesInv
<1> QED BY <1>1, <1>2, <1>3

\* The properties of a settled service, which no other hint outranks, tell its
\* modes: the state node has the value of the mode whose hint is held.
LEMMA SettledProperties ==
  ASSUME IInv, Settled, ~Outranked, HintOf(mVRModeOn, mSustainedPerfModeOn) \subseteq Supported
  PROVE  /\ mVRModeOn <=> prop.state \in {VR, BOTH}
         /\ mSustainedPerfModeOn <=> prop.state \in {SUSTAINED, BOTH}
         /\ AUDIO \in Side(held) <=> prop.audio = AUDIO /\ AUDIO \in Supported
         /\ RENDERING \in Side(held) <=> prop.rendering = RENDERING /\ RENDERING \in Supported
<1> USE DEF IInv
<1>1. /\ up /\ ~call.busy
      /\ prop.state = Target(held, "state") /\ prop.audio = Target(held, "audio")
      /\ prop.rendering = Target(held, "rendering")
  BY DEF Settled, Props
<1>2. \A h \in ModeHints : held[h] # "off" <=> h \in HintOf(mVRModeOn, mSustainedPerfModeOn)
  BY <1>1 DEF ModesInv, Agree
<1>3. prop.state \in ModeHints \cup {""}
  BY <1>1 DEF Outranked
<1>4. "" \notin ModeHints
  BY DEF ModeHints, SUSTAINED, VR, BOTH
<1>5. \A h \in ModeHints : prop.state = h => held[h] # "off"
  BY <1>1, <1>4, StateTarget
<1>6. prop.state = "" => \A h \in ModeHints : held[h] = "off"
  <2> SUFFICES ASSUME prop.state = "", NEW h \in ModeHints, held[h] # "off"
               PROVE  FALSE
    BY DEF TypeOK
  <2>1. h \in Range(config.states)
    BY ConfigFacts DEF HeldInv
  <2>2. "" \notin Range(config.states)
    <3>1. config.states \in Seq(Supported) /\ "" \notin Supported
      BY ConfigFacts
    <3>2. \A i \in DOMAIN config.states : config.states[i] \in Supported
      BY <3>1, SeqElements, Zenon
    <3> QED BY <3>1, <3>2, Zenon DEF Range
  <2> QED BY <1>1, <2>1, <2>2, StateTarget
<1>7. \A h \in ModeHints : h \in HintOf(mVRModeOn, mSustainedPerfModeOn)
                             <=> \/ h = BOTH /\ mVRModeOn /\ mSustainedPerfModeOn
                                 \/ h = VR /\ mVRModeOn /\ ~mSustainedPerfModeOn
                                 \/ h = SUSTAINED /\ ~mVRModeOn /\ mSustainedPerfModeOn
  BY HintOfMembers
<1>8. /\ mVRModeOn <=> prop.state \in {VR, BOTH}
      /\ mSustainedPerfModeOn <=> prop.state \in {SUSTAINED, BOTH}
  <2>1. /\ prop.state = BOTH => mVRModeOn /\ mSustainedPerfModeOn
        /\ prop.state = VR => mVRModeOn /\ ~mSustainedPerfModeOn
        /\ prop.state = SUSTAINED => ~mVRModeOn /\ mSustainedPerfModeOn
    BY <1>2, <1>5, <1>7 DEF ModeHints, SUSTAINED, VR, BOTH
  <2>2. prop.state = "" => ~mVRModeOn /\ ~mSustainedPerfModeOn
    BY <1>2, <1>6, <1>7 DEF ModeHints, SUSTAINED, VR, BOTH
  <2> QED BY <1>3, <2>1, <2>2 DEF ModeHints, SUSTAINED, VR, BOTH
<1>9. /\ held[AUDIO] # "off" <=> prop.audio = AUDIO /\ AUDIO \in Supported
      /\ held[RENDERING] # "off" <=> prop.rendering = RENDERING /\ RENDERING \in Supported
  <2>1. /\ held[AUDIO] # "off" => AUDIO \in Supported
        /\ held[RENDERING] # "off" => RENDERING \in Supported
    BY ConfigFacts DEF HeldInv
  <2>2. AUDIO # "" /\ RENDERING # ""
    BY DEF AUDIO, RENDERING
  <2> QED BY <1>1, <2>1, <2>2, SideTargets
<1> QED BY <1>8, <1>9 DEF Side

\* A crash keeps the properties.
LEMMA CrashStep ==
  ASSUME IInv, Crash
  PROVE  IInv'
<1> USE DEF IInv
<1> DEFINE settled == /\ Settled /\ ~Outranked
                      /\ HintOf(mVRModeOn, mSustainedPerfModeOn) \subseteq Supported
<1>1. /\ up /\ up' = FALSE /\ held' = NoHints /\ call' = NoCall
      /\ mVRModeOn' = FALSE /\ mSustainedPerfModeOn' = FALSE
      /\ expect' = IF init THEN expect
                   ELSE [known |-> settled, vr |-> mVRModeOn,
                         sustained |-> mSustainedPerfModeOn, side |-> Side(held)]
      /\ UNCHANGED <<config, prop, init>>
  BY DEF Crash
<1>2. settled \in BOOLEAN
  BY DEF Settled, Outranked
<1>3. Side(held) \in SUBSET {AUDIO, RENDERING}
  BY DEF Side
<1>4. settled => /\ mVRModeOn <=> prop.state \in {VR, BOTH}
                 /\ mSustainedPerfModeOn <=> prop.state \in {SUSTAINED, BOTH}
                 /\ AUDIO \in Side(held) <=> prop.audio = AUDIO /\ AUDIO \in Supported
                 /\ RENDERING \in Side(held) <=> prop.rendering = RENDERING /\ RENDERING \in Supported
  BY SettledProperties
<1> HIDE DEF settled
<1>5. mVRModeOn \in BOOLEAN /\ mSustainedPerfModeOn \in BOOLEAN /\ init \in BOOLEAN
  BY DEF TypeOK
<1>6. expect' \in [known : BOOLEAN, vr : BOOLEAN, sustained : BOOLEAN,
                   side : SUBSET {AUDIO, RENDERING}]
  <2>1. CASE init
    BY <1>1, <2>1 DEF TypeOK
  <2>2. CASE ~init
    BY <1>1, <1>2, <1>3, <1>5, <2>2
  <2> QED BY <2>1, <2>2
<1>7. TypeOK' /\ HeldInv' /\ ModesInv'
  <2>1. DOMAIN prop' = Props
    BY <1>1 DEF TypeOK
  <2> QED BY <1>1, <1>5, <1>6, <2>1, GoneProcess, Zenon
<1>8. ExpectInv'
  <2>1. CASE init
    BY <1>1, <2>1 DEF ExpectInv, Supported
  <2>2. CASE ~init
    <3>1. /\ expect'.known <=> settled
          /\ expect'.vr <=> mVRModeOn
          /\ expect'.sustained <=> mSustainedPerfModeOn
          /\ expect'.side = Side(held)
      BY <1>1, <2>2
    <3> QED BY <1>1, <1>4, <3>1 DEF ExpectInv, Supported
  <2> QED BY <2>1, <2>2
<1> QED BY <1>7, <1>8

\* The framework dies: the properties are cleared, and nothing is to be restored.
LEMMA FrameworkDiesStep ==
  ASSUME IInv, FrameworkDies
  PROVE  IInv'
<1> USE DEF IInv
<1>1. /\ init' = TRUE /\ prop' = Cleared /\ expect' = [Unknown EXCEPT !.known = TRUE]
      /\ UNCHANGED <<config, mVRModeOn, mSustainedPerfModeOn, held, call, up>>
  BY DEF FrameworkDies, processVars
<1>2. expect'.vr = FALSE /\ expect'.sustained = FALSE /\ expect'.side = {}
  BY <1>1 DEF Unknown
<1>3. prop'.state = "" /\ prop'.audio = "" /\ prop'.rendering = "" /\ DOMAIN prop' = Props
  BY <1>1 DEF Cleared, Props
<1>4. TypeOK'
  <2>1. expect' \in [known : BOOLEAN, vr : BOOLEAN, sustained : BOOLEAN,
                     side : SUBSET {AUDIO, RENDERING}]
    BY <1>1, Zenon DEF Unknown
  <2>2. init' \in BOOLEAN
    BY <1>1, Zenon
  <2> QED BY <1>1, <1>3, <2>1, <2>2 DEF TypeOK
<1>5. HeldInv'
  BY <1>1 DEF HeldInv, Supported
<1>6. ModesInv'
  BY <1>1 DEF ModesInv, WayTo, Agree, Supported
<1>7. ExpectInv'
  BY <1>2, <1>3 DEF ExpectInv, SUSTAINED, VR, BOTH, AUDIO, RENDERING
<1> QED BY <1>4, <1>5, <1>6, <1>7

\* init restarts the service.
LEMMA InitRestartsStep ==
  ASSUME IInv, InitRestarts
  PROVE  IInv'
<1> USE DEF IInv
<1>1. /\ init /\ init' = FALSE /\ up' = FALSE /\ held' = NoHints /\ call' = NoCall
      /\ mVRModeOn' = FALSE /\ mSustainedPerfModeOn' = FALSE
      /\ UNCHANGED <<config, prop, expect>>
  BY DEF InitRestarts
<1>2. TypeOK' /\ HeldInv' /\ ModesInv'
  <2>1. init' \in BOOLEAN
    BY <1>1, Zenon
  <2>2. /\ DOMAIN prop' = Props
        /\ expect' \in [known : BOOLEAN, vr : BOOLEAN, sustained : BOOLEAN,
                        side : SUBSET {AUDIO, RENDERING}]
    BY <1>1 DEF TypeOK
  <2> QED BY <1>1, <2>1, <2>2, GoneProcess, Zenon
<1>3. ExpectInv'
  BY <1>1 DEF ExpectInv, Supported
<1> QED BY <1>2, <1>3

\* The inductive invariant holds of every behaviour, for any configuration.
THEOREM InductiveInvariant == Spec => []IInv
<1>1. IInv /\ [Next]_vars => IInv'
  <2> SUFFICES ASSUME IInv, [Next]_vars PROVE IInv'
    OBVIOUS
  <2>1. CASE HintManagerStart \/ BootCompletes \/ UNCHANGED vars
    BY <2>1, QuietSteps
  <2>2. CASE Start \/ Crash \/ FrameworkDies \/ InitRestarts
    BY <2>2, StartStep, CrashStep, FrameworkDiesStep, InitRestartsStep
  <2>3. CASE \/ \E type \in Modes, enabled \in BOOLEAN : SetMode(type, enabled)
             \/ \E b \in Boosts : \E op \in {Do(b), DoFor(b), End(b)} : SetBoost(b, op)
             \/ \E h \in ExtHints : \E op \in {Do(h), DoFor(h), End(h)} : ExtCall(op)
    BY <2>3, CallSteps
  <2>4. CASE CallHintManager \/ CallReturns
    BY <2>4, CallHintManagerStep, CallReturnsStep
  <2>5. CASE \E p \in Props : NodeWrite(p)
    BY <2>5, NodeWriteStep
  <2>6. CASE \E h \in Hints : HintExpires(h)
    BY <2>6, HintExpiresStep
  <2> QED BY <2>1, <2>2, <2>3, <2>4, <2>5, <2>6 DEF Next
<1> QED BY InitIInv, <1>1, PTL DEF Spec

-----------------------------------------------------------------------------
\* Between calls the hints held in the HintManager are those of the two mode
\* flags, after any sequence of setMode calls, boosts, crashes and restarts.
THEOREM ModesHaveTheirHints == Spec => []ModeHintsAgree
<1>1. IInv => ModeHintsAgree
  <2> SUFFICES ASSUME IInv, up, ~call.busy
               PROVE  {h \in ModeHints : held[h] # "off"}
                        = HintOf(mVRModeOn, mSustainedPerfModeOn) \cap Supported
    BY DEF ModeHintsAgree
  <2>1. \A h \in ModeHints : held[h] # "off" <=> h \in HintOf(mVRModeOn, mSustainedPerfModeOn)
                                                 /\ h \in Supported
    BY DEF IInv, ModesInv, Agree
  <2>2. HintOf(mVRModeOn, mSustainedPerfModeOn) \subseteq ModeHints
    BY HintOfMembers DEF ModeHints
  <2> QED BY <2>1, <2>2
<1> QED BY InductiveInvariant, <1>1, PTL

\* The constructor of Power restores the modes the properties stand for: those
\* of before the crash if the properties were up to date, and none after the
\* framework died.
THEOREM RestartRestoresModes == Spec => RestoresModes
<1>1. IInv /\ [Next]_vars =>
        [Start /\ expect.known =>
           /\ mVRModeOn' = expect.vr /\ mSustainedPerfModeOn' = expect.sustained
           /\ Side(held') = expect.side]_vars
  <2> SUFFICES ASSUME IInv, Start, expect.known
               PROVE  /\ mVRModeOn' = expect.vr /\ mSustainedPerfModeOn' = expect.sustained
                      /\ Side(held') = expect.side
    OBVIOUS
  <2>1. /\ ~up /\ held' = RestoredHints
        /\ mSustainedPerfModeOn' = (prop.state \in {SUSTAINED, BOTH})
        /\ mVRModeOn' = (prop.state \in {VR, BOTH})
    BY DEF Start
  <2>2. /\ expect.vr <=> prop.state \in {VR, BOTH}
        /\ expect.sustained <=> prop.state \in {SUSTAINED, BOTH}
        /\ AUDIO \in expect.side <=> prop.audio = AUDIO /\ AUDIO \in Supported
        /\ RENDERING \in expect.side <=> prop.rendering = RENDERING /\ RENDERING \in Supported
    BY <2>1 DEF IInv, ExpectInv
  <2>3. expect.vr \in BOOLEAN /\ expect.sustained \in BOOLEAN
        /\ expect.side \subseteq {AUDIO, RENDERING}
    BY DEF IInv, TypeOK
  <2>4. mVRModeOn' = expect.vr
    BY <2>1, <2>2, <2>3
  <2>5. mSustainedPerfModeOn' = expect.sustained
    BY <2>1, <2>2, <2>3
  <2>6. /\ held'[AUDIO] # "off" <=> AUDIO \in expect.side
        /\ held'[RENDERING] # "off" <=> RENDERING \in expect.side
    BY <2>1, <2>2, RestoredFacts DEF IInv
  <2>7. Side(held') = expect.side
    BY <2>3, <2>6 DEF Side
  <2> QED BY <2>4, <2>5, <2>7
<1> QED BY InductiveInvariant, <1>1, PTL DEF Spec, RestoresModes
=============================================================================
