-------------------------- MODULE HintControlProofs --------------------------
(***************************************************************************)
(* Proof that the clamp of a hint session follows its controller, for any  *)
(* sessions, thread lists, gains, windows and samples. That the loop over  *)
(* the samples computes integers is proved by a least counterexample.      *)
(***************************************************************************)
EXTENDS HintControl, WellFoundedInduction, TLAPS

TypeOK ==
  /\ duration \in [Sessions -> Nat]
  /\ integral_error \in [Sessions -> Int] /\ previous_error \in [Sessions -> Int]
  /\ current_min \in [Sessions -> Nat] /\ util \in [Tids -> Nat \cup {Refused}]
  /\ demand \in [Sessions -> Int]

\* The kernel holds, for the threads only this session lists, what the session
\* set last unless it refused it, and the record is close to what the controller
\* asked for.
ClampInv ==
  /\ \A s \in Sessions : \A t \in OwnThreads(s) : util[t] \in {current_min[s], Refused}
  /\ \A s \in Controlled : demand[s] # NoDemand =>
       current_min[s] - demand[s] \in -Granularity .. Granularity

IInv == TypeOK /\ ClampInv
-----------------------------------------------------------------------------
\* A nonempty set of natural numbers has a least element.
LEMMA LeastElement ==
  ASSUME NEW T \in SUBSET Nat, T # {}
  PROVE  \E n \in T : \A m \in T : n <= m
<1>1. PICK n \in T : \A m \in T : ~(<<m, n>> \in OpToRel(<, Nat))
  BY NatLessThanWellFounded, WFMin, Zenon
<1>2. ASSUME NEW m \in T, m < n
      PROVE  FALSE
  <2>1. <<m, n>> \in Nat \X Nat /\ <<m, n>>[1] < <<m, n>>[2]
    BY <1>2
  <2>2. <<m, n>> \in OpToRel(<, Nat)
    BY <2>1, Zenon DEF OpToRel
  <2> QED  BY <1>1, <2>2, Zenon
<1> QED  BY <1>2

\* The variables of the loop over the samples of a report.
Sums == [integral : Int, err_sum : Int, derivative_sum : Int, previous : Int]

\* What a loop of n turns has computed after every one.
IsTrace(n, first, step, g) ==
  /\ g \in [0 .. n -> Sums] /\ g[0] = first
  /\ \A k \in 1 .. n : g[k] = step[<<g[k - 1], k>>]

\* A loop of n turns over these variables has a trace. A shortest loop without
\* one would extend the trace of the loop that is a turn shorter.
LEMMA LoopTrace ==
  ASSUME NEW first \in Sums, NEW n \in Nat, NEW step \in [Sums \X (1 .. n) -> Sums]
  PROVE  \E g : IsTrace(n, first, step, g)
<1> USE DEF IsTrace
<1> DEFINE Trace(m, g) == IsTrace(m, first, step, g)
           T == {m \in 0 .. n : ~\E g : Trace(m, g)}
<1>1. SUFFICES ASSUME T # {} PROVE FALSE
  <2>1. n \in 0 .. n
    OBVIOUS
  <2>2. SUFFICES \E g : Trace(n, g)
    OBVIOUS
  <2> QED  BY <2>1, Zenon
<1>2. T \in SUBSET Nat
  OBVIOUS
<1>3. PICK m \in T : \A l \in T : m <= l
  <2> HIDE DEF T
  <2> QED  BY <1>1, <1>2, LeastElement, Zenon
<1>4. m # 0
  <2> DEFINE g == [k \in 0 .. 0 |-> first]
  <2>1. Trace(0, g)
    OBVIOUS
  <2> QED  BY <2>1, Zenon
<1>5. m - 1 \in 0 .. n /\ m \in 1 .. n
  BY <1>4
<1>6. m - 1 \notin T
  <2>1. m \in Nat /\ ~(m <= m - 1)
    BY <1>5
  <2> HIDE DEF T
  <2> QED  BY <1>3, <2>1
<1>7. PICK g : Trace(m - 1, g)
  BY <1>5, <1>6
<1> DEFINE last == step[<<g[m - 1], m>>]
           h == [k \in 0 .. m |-> IF k < m THEN g[k] ELSE last]
<1>8. last \in Sums
  BY <1>5, <1>7
<1> HIDE DEF last
<1>9. h \in [0 .. m -> Sums]
  BY <1>5, <1>7, <1>8
<1>10. h[0] = first
  BY <1>5, <1>7
<1>11. ASSUME NEW k \in 1 .. m PROVE h[k] = step[<<h[k - 1], k>>]
  <2>1. h[k - 1] = g[k - 1]
    BY <1>5
  <2>2. CASE k = m
    <3>1. h[k] = last
      BY <1>5, <2>2
    <3> QED  BY <2>1, <2>2, <3>1, Zenon DEF last
  <2>3. CASE k # m
    <3>1. k \in 1 .. m - 1 /\ h[k] = g[k]
      BY <1>5, <2>3
    <3> QED  BY <1>7, <2>1, <3>1
  <2> QED  BY <2>2, <2>3
<1>12. Trace(m, h)
  BY <1>9, <1>10, <1>11, Zenon
<1> QED  BY <1>12, Zenon

\* The conversions of the controller give integers.
LEMMA QuotType ==
  ASSUME NEW a \in Int, NEW b \in Nat \ {0}
  PROVE  Quot(a, b) \in Int /\ (a >= 0 => Quot(a, b) \in Nat)
BY DEF Quot

\* One turn of the loop computes integers from integers.
LEMMA SampleType ==
  ASSUME TypeOK, NEW s \in Sessions, NEW actuals \in Batches,
         NEW r \in Sums, NEW k \in 1 .. Len(actuals)
  PROVE  Sample(s, actuals, r, k) \in Sums
<1> DEFINE error == Error(s, actuals[k])
           dt == Dt(s)
           integral == Integrate(r.integral, error, dt)
<1>1. actuals[k] \in Int /\ duration[s] \in Nat /\ Unit \in Nat \ {0}
  <2>1. PICK n \in 1 .. MaxBatch : actuals \in [1 .. n -> Actuals]
    BY DEF Batches
  <2>2. MaxBatch \in Nat /\ Actuals \subseteq Int /\ Unit \in Nat \ {0}
    BY ControlConstants
  <2>3. Len(actuals) = n
    BY <2>1, <2>2
  <2> QED  BY <2>1, <2>2, <2>3, Zenon DEF TypeOK
<1>2. error \in Int
  <2>1. actuals[k] - duration[s] \in Int
    BY <1>1
  <2> QED  BY <1>1, <2>1, QuotType, Zenon DEF Error, ns_to_100us
<1>3. dt \in Int
  <2>1. duration[s] \in Int
    BY <1>1
  <2> QED  BY <1>1, <2>1, QuotType, Zenon DEF Dt, ns_to_100us
<1>4. r.integral \in Int /\ r.err_sum \in Int /\ r.derivative_sum \in Int /\ r.previous \in Int
  BY DEF Sums
<1> HIDE DEF error, dt
<1>5. integral \in Int
  <2>1. error * dt \in Int
    BY <1>2, <1>3
  <2>2. r.integral + error * dt \in Int
    BY <1>4, <2>1
  <2>3. ILowLimit \in Int /\ IHighLimit \in Int
    BY ControlConstants
  <2> QED  BY <2>2, <2>3 DEF Integrate, AtLeast, AtMost
<1> HIDE DEF integral
<1>6. PICK p, i, d :
        Sample(s, actuals, r, k)
          = IF k < p /\ k < i /\ k < d THEN r
            ELSE [integral |-> IF k >= i THEN integral ELSE r.integral,
                  err_sum |-> IF k >= p THEN r.err_sum + error ELSE r.err_sum,
                  derivative_sum |-> IF k >= d THEN r.derivative_sum + error - r.previous
                                     ELSE r.derivative_sum,
                  previous |-> error]
  BY Zenon DEF Sample, error, dt, integral
<1> DEFINE i1 == IF k >= i THEN integral ELSE r.integral
           e1 == IF k >= p THEN r.err_sum + error ELSE r.err_sum
           d1 == IF k >= d THEN r.derivative_sum + error - r.previous ELSE r.derivative_sum
<1>7. i1 \in Int /\ e1 \in Int /\ d1 \in Int
  <2>1. r.err_sum + error \in Int /\ r.derivative_sum + error - r.previous \in Int
    BY <1>2, <1>4
  <2> QED  BY <1>4, <1>5, <2>1, Zenon
<1>8. Sample(s, actuals, r, k) = r \/ Sample(s, actuals, r, k) =
        [integral |-> i1, err_sum |-> e1, derivative_sum |-> d1, previous |-> error]
  BY <1>6, Zenon
<1> HIDE DEF i1, e1, d1
<1> QED  BY <1>2, <1>7, <1>8 DEF Sums

\* So does the whole loop.
LEMMA SamplesType ==
  ASSUME TypeOK, NEW s \in Sessions, NEW actuals \in Batches,
         NEW integral \in Int
  PROVE  Samples(s, actuals, integral) \in Sums
<1> DEFINE n == Len(actuals)
           first == [integral |-> integral, err_sum |-> 0, derivative_sum |-> 0,
                     previous |-> previous_error[s]]
           Turn(f) == [k \in 0 .. n |-> IF k = 0 THEN first
                                        ELSE Sample(s, actuals, f[k - 1], k)]
           step == [x \in Sums \X (1 .. n) |-> Sample(s, actuals, x[1], x[2])]
           after == CHOOSE f : f = Turn(f)
<1>1. n \in Nat
  BY ControlConstants DEF Batches
<1>2. first \in Sums
  BY DEF Sums, TypeOK
<1>3. \A r \in Sums : \A k \in 1 .. n : Sample(s, actuals, r, k) \in Sums
  BY SampleType
<1> HIDE DEF n, first
<1>4. step \in [Sums \X (1 .. n) -> Sums]
  BY <1>3
<1>5. \A r \in Sums : \A k \in 1 .. n : step[<<r, k>>] = Sample(s, actuals, r, k)
  OBVIOUS
<1> HIDE DEF step
<1>6. PICK g \in [0 .. n -> Sums] :
        g[0] = first /\ \A k \in 1 .. n : g[k] = step[<<g[k - 1], k>>]
  <2>1. PICK m, f, st : m = n /\ f = first /\ st = step
    OBVIOUS
  <2>2. m \in Nat /\ f \in Sums /\ st \in [Sums \X (1 .. m) -> Sums]
    BY <1>1, <1>2, <1>4, <2>1, Zenon
  <2>3. \E g : IsTrace(m, f, st, g)
    BY <2>2, LoopTrace, Zenon
  <2> QED  BY <2>1, <2>3, Zenon DEF IsTrace
<1>7. g = Turn(g)
  <2>1. ASSUME NEW k \in 0 .. n PROVE g[k] = Turn(g)[k]
    <3>1. CASE k = 0
      BY <1>6, <3>1
    <3>2. CASE k # 0
      <4>1. k \in 1 .. n /\ g[k - 1] \in Sums
        BY <1>1, <1>6, <3>2
      <4>2. g[k] = Sample(s, actuals, g[k - 1], k)
        BY <1>5, <1>6, <4>1, Zenon
      <4> QED  BY <3>2, <4>2
    <3> QED  BY <3>1, <3>2
  <2> QED  BY <1>6, <2>1
<1>8. after = Turn(after)
  BY <1>7, Zenon
<1>9. Samples(s, actuals, integral) = after[n]
  BY Zenon DEF Samples, n, first
<1> DEFINE T == {k \in 0 .. n : after[k] \notin Sums}
<1> HIDE DEF after
<1>10. T = {}
  <2> SUFFICES ASSUME T # {} PROVE FALSE
    OBVIOUS
  <2>1. PICK k \in T : \A l \in T : k <= l
    <3>1. T \in SUBSET Nat
      BY <1>1
    <3> HIDE DEF T
    <3> QED  BY <3>1, LeastElement, Zenon
  <2>2. k # 0
    BY <1>2, <1>8
  <2>3. k - 1 \in 0 .. n /\ k \in 1 .. n /\ k - 1 \notin T
    BY <1>1, <2>1, <2>2
  <2>4. after[k - 1] \in Sums
    BY <2>3
  <2>5. after[k] = Sample(s, actuals, after[k - 1], k)
    BY <1>8, <2>2, <2>3
  <2> QED  BY <1>3, <2>3, <2>4, <2>5
<1> QED  BY <1>1, <1>9, <1>10

\* What the controller asks for is within the limits of the clamp, whatever the
\* samples were and however the output was cut to the width of an int.
LEMMA NextMinRange ==
  ASSUME NEW output \in Int
  PROVE  NextMin(output) \in LowLimit .. HighLimit
<1>1. /\ LowLimit \in Nat /\ HighLimit \in Nat /\ LowLimit <= HighLimit
      /\ IntSpan \in Nat \ {0}
  BY ControlConstants
<1>2. ToInt(output) \in Int
  BY <1>1 DEF ToInt
<1> DEFINE cut == ToInt(output)
<1> HIDE DEF cut
<1>3. AtLeast(LowLimit, AtMost(HighLimit, cut)) \in LowLimit .. HighLimit
  BY <1>1, <1>2 DEF AtLeast, AtMost, cut
<1> QED  BY <1>3 DEF NextMin, cut

\* The output of the controller is an integer.
LEMMA OutputType ==
  ASSUME NEW r, r \in Sums, NEW n \in Nat \ {0}, NEW dt, dt \in Nat,
         NEW output \in Outputs(r, n, dt)
  PROVE  output \in Int
<1>1. /\ PWindow \in Nat /\ DWindow \in Nat /\ IDivisor \in Nat \ {0}
      /\ POver \in Nat /\ PUnder \in Nat /\ DOver \in Nat /\ DUnder \in Nat
      /\ LowLimit \in Nat /\ HighLimit \in Nat
  BY ControlConstants
<1>2. CASE dt = 0
  BY <1>1, <1>2 DEF Outputs
<1>3. CASE dt # 0
  <2> DEFINE p == n - WindowStart(PWindow, n) + 1
             d == n - WindowStart(DWindow, n) + 1
             P == (IF r.err_sum > 0 THEN POver ELSE PUnder) * r.err_sum
             D == (IF r.derivative_sum > 0 THEN DOver ELSE DUnder) * r.derivative_sum
  <2>1. p \in Nat \ {0} /\ d \in Nat \ {0}
    BY <1>1 DEF WindowStart
  <2>2. P \in Int
    BY <1>1 DEF Sums
  <2>3. D \in Int
    BY <1>1 DEF Sums
  <2>4. r.integral \in Int
    BY DEF Sums
  <2>5. output = Quot(P, p) + Quot(r.integral, IDivisor) + Quot(D, dt * d)
    BY <1>3, Zenon DEF Outputs, Output
  <2> HIDE DEF p, d, P, D
  <2>6. dt * d \in Nat \ {0}
    BY <1>3, <2>1
  <2>7. Quot(P, p) \in Int
    BY <2>1, <2>2, QuotType
  <2>8. Quot(r.integral, IDivisor) \in Int
    BY <1>1, <2>4, QuotType
  <2>9. Quot(D, dt * d) \in Int
    BY <2>3, <2>6, QuotType
  <2> QED  BY <2>5, <2>7, <2>8, <2>9
<1> QED  BY <1>2, <1>3

\* Setting the clamp of a session keeps the kernel's values of the threads that
\* only one session lists equal to what their sessions set, or refused.
LEMMA ClampSet ==
  ASSUME IInv, NEW s \in Sessions, NEW min, min \in Nat, SetUclamp(s, min)
  PROVE  /\ current_min' = [current_min EXCEPT ![s] = min]
         /\ current_min' \in [Sessions -> Nat] /\ util' \in [Tids -> Nat \cup {Refused}]
         /\ \A o \in Sessions : \A t \in OwnThreads(o) : util'[t] \in {current_min'[o], Refused}
<1>1. /\ current_min \in [Sessions -> Nat] /\ util \in [Tids -> Nat \cup {Refused}]
      /\ \A o \in Sessions : \A t \in OwnThreads(o) : util[t] \in {current_min[o], Refused}
  BY DEF IInv, TypeOK, ClampInv
<1>2. /\ current_min' = [current_min EXCEPT ![s] = min]
      /\ util' \in [Tids -> Nat \cup {Refused}]
      /\ \A t \in Tids : IF t \in Range(TidsOf[s]) THEN util'[t] \in {min, Refused}
                         ELSE util'[t] = util[t]
  <2>1. PICK failing \in SUBSET (Range(TidsOf[s]) \cap Refusing) :
          util' = [t \in Tids |-> CASE t \in failing -> Refused
                                    [] t \in Range(TidsOf[s]) \ failing -> min
                                    [] OTHER -> util[t]]
    BY Zenon DEF SetUclamp
  <2>2. current_min' = [current_min EXCEPT ![s] = min]
    BY DEF SetUclamp, SetIn
  <2>3. util' \in [Tids -> Nat \cup {Refused}]
    BY <1>1, <2>1
  <2> QED  BY <2>1, <2>2, <2>3
<1>3. \A o \in Sessions : Range(TidsOf[o]) \subseteq Tids
  BY ManagerConstants DEF Range
<1>4. ASSUME NEW o \in Sessions, NEW t \in OwnThreads(o)
      PROVE  util'[t] \in {current_min'[o], Refused}
  <2>1. /\ t \in Range(TidsOf[o]) /\ t \in Tids
        /\ o # s => t \notin Range(TidsOf[s])
    BY <1>3 DEF OwnThreads
  <2> QED  BY <1>1, <1>2, <2>1
<1> QED  BY <1>1, <1>2, <1>4

\* A clamp set by anything but the controller leaves no demand to follow.
LEMMA ClampReset ==
  ASSUME IInv, Controlled \subseteq Sessions, NEW s \in Sessions,
         NEW min, min \in Nat, SetUclamp(s, min), Fresh(s),
         duration' \in [Sessions -> Nat], integral_error' \in [Sessions -> Int],
         previous_error' \in [Sessions -> Int]
  PROVE  IInv'
<1>1. /\ current_min' = [current_min EXCEPT ![s] = min]
      /\ current_min' \in [Sessions -> Nat] /\ util' \in [Tids -> Nat \cup {Refused}]
      /\ \A o \in Sessions : \A t \in OwnThreads(o) : util'[t] \in {current_min'[o], Refused}
  BY ClampSet
<1>2. demand' = [demand EXCEPT ![s] = NoDemand]
  BY DEF Fresh, SetIn
<1>3. TypeOK'
  <2>1. demand \in [Sessions -> Int] /\ NoDemand \in Int
    BY DEF IInv, TypeOK, NoDemand
  <2>2. demand' \in [Sessions -> Int]
    BY <1>2, <2>1
  <2> QED  BY <1>1, <2>2, Zenon DEF TypeOK
<1>4. \A o \in Controlled : demand'[o] # NoDemand =>
        current_min'[o] - demand'[o] \in -Granularity .. Granularity
  BY <1>1, <1>2 DEF IInv, TypeOK, ClampInv
<1> QED  BY <1>1, <1>3, <1>4 DEF IInv, ClampInv, OwnThreads

\* A report leaves a clamp that is close enough alone and sets it otherwise.
LEMMA ReportStep ==
  ASSUME IInv, NEW s \in Controlled,
         NEW actuals \in Batches, ReportActualWorkDuration(s, actuals)
  PROVE  IInv'
<1> DEFINE woken == IF stale[s] THEN AtLeast(IInit, integral_error[s]) ELSE integral_error[s]
           r == Samples(s, actuals, woken)
<1>1. /\ Controlled \subseteq Sessions /\ s \in Sessions /\ IInit \in Int
      /\ Granularity \in Nat /\ LowLimit \in Nat /\ HighLimit \in Nat /\ Unit \in Nat \ {0}
  BY ControlConstants
<1>2. TypeOK /\ ClampInv
  BY DEF IInv
<1>3. woken \in Int
  BY <1>1, <1>2 DEF TypeOK, AtLeast
<1>4. r \in Sums
  <2>1. PICK i \in Int : i = woken
    BY <1>3
  <2>2. Samples(s, actuals, i) \in Sums
    BY <1>1, <1>2, SamplesType
  <2> QED  BY <2>1, <2>2
<1>5. Len(actuals) \in Nat \ {0}
  BY ControlConstants DEF Batches
<1>6. Dt(s) \in Nat
  <2>1. duration[s] \in Int /\ duration[s] >= 0
    BY <1>1, <1>2 DEF TypeOK
  <2> QED  BY <1>1, <2>1, QuotType DEF Dt, ns_to_100us
<1>7. /\ integral_error' = [integral_error EXCEPT ![s] = r.integral]
      /\ previous_error' = [previous_error EXCEPT ![s] = r.previous]
      /\ UNCHANGED duration
  BY DEF ReportActualWorkDuration, SetIn
<1>8. PICK output \in Outputs(r, Len(actuals), Dt(s)) :
        /\ IF output = 0 \/ TooClose(s, NextMin(output))
           THEN UNCHANGED <<current_min, util>>
           ELSE SetUclamp(s, NextMin(output))
        /\ demand' = IF output = 0 THEN demand ELSE [demand EXCEPT ![s] = NextMin(output)]
  BY DEF ReportActualWorkDuration, SetIn
<1> HIDE DEF r, woken
<1> DEFINE next == NextMin(output)
<1>9. output \in Int
  BY <1>4, <1>5, <1>6, OutputType
<1>10. next \in Nat
  <2>1. next \in LowLimit .. HighLimit
    BY <1>9, NextMinRange
  <2> QED  BY <1>1, <2>1
<1> HIDE DEF next
<1>11. /\ duration' \in [Sessions -> Nat] /\ integral_error' \in [Sessions -> Int]
       /\ previous_error' \in [Sessions -> Int]
  BY <1>1, <1>2, <1>4, <1>7 DEF TypeOK, Sums
<1>12. [demand EXCEPT ![s] = next] \in [Sessions -> Int]
  <2>1. demand \in [Sessions -> Int] /\ next \in Int
    BY <1>2, <1>10 DEF TypeOK
  <2> QED  BY <2>1
<1>13. CASE output = 0
  <2>1. UNCHANGED <<current_min, util, demand>>
    BY <1>8, <1>13
  <2> QED  BY <1>2, <1>11, <2>1 DEF IInv, TypeOK, ClampInv, OwnThreads
<1>14. ASSUME demand' = [demand EXCEPT ![s] = next],
              current_min' \in [Sessions -> Nat], util' \in [Tids -> Nat \cup {Refused}],
              current_min'[s] - next \in -Granularity .. Granularity,
              \A o \in Sessions \ {s} : current_min'[o] = current_min[o],
              \A o \in Sessions : \A t \in OwnThreads(o) : util'[t] \in {current_min'[o], Refused}
       PROVE  IInv'
  <2>1. TypeOK'
    <3>1. demand' \in [Sessions -> Int]
      BY <1>12, <1>14, Zenon
    <3> QED  BY <1>11, <1>14, <3>1, Zenon DEF TypeOK
  <2>2. ASSUME NEW o \in Controlled, demand'[o] # NoDemand
        PROVE  current_min'[o] - demand'[o] \in -Granularity .. Granularity
    <3>1. DOMAIN demand = Sessions
      BY <1>2 DEF TypeOK
    <3>2. CASE o = s
      <4>1. demand'[o] = next
        BY <1>1, <1>14, <3>1, <3>2
      <4> QED  BY <1>14, <3>2, <4>1, Zenon
    <3>3. CASE o # s
      <4>1. current_min'[o] = current_min[o] /\ demand'[o] = demand[o]
        BY <1>1, <1>14, <3>1, <3>3
      <4> QED  BY <1>2, <2>2, <4>1, Zenon DEF ClampInv
    <3> QED  BY <3>2, <3>3
  <2> QED  BY <1>14, <2>1, <2>2, Zenon DEF IInv, ClampInv, OwnThreads
<1>15. CASE output # 0 /\ TooClose(s, next)
  <2>1. UNCHANGED <<current_min, util>> /\ demand' = [demand EXCEPT ![s] = next]
    BY <1>8, <1>15 DEF next
  <2>2. current_min \in [Sessions -> Nat] /\ util \in [Tids -> Nat \cup {Refused}]
    BY <1>2 DEF TypeOK
  <2>3. current_min[s] - next \in -Granularity .. Granularity
    BY <1>1, <1>10, <1>15, <2>2 DEF TooClose
  <2> QED  BY <1>2, <1>14, <2>1, <2>2, <2>3, Zenon DEF ClampInv
<1>16. CASE output # 0 /\ ~TooClose(s, next)
  <2>1. SetUclamp(s, next) /\ demand' = [demand EXCEPT ![s] = next]
    BY <1>8, <1>16 DEF next
  <2>2. /\ current_min' = [current_min EXCEPT ![s] = next]
        /\ current_min' \in [Sessions -> Nat] /\ util' \in [Tids -> Nat \cup {Refused}]
        /\ \A o \in Sessions : \A t \in OwnThreads(o) : util'[t] \in {current_min'[o], Refused}
    BY <1>1, <1>10, <2>1, ClampSet
  <2>3. DOMAIN current_min = Sessions
    BY <1>2 DEF TypeOK
  <2>4. current_min'[s] = next /\ \A o \in Sessions \ {s} : current_min'[o] = current_min[o]
    BY <1>1, <2>2, <2>3
  <2>5. current_min'[s] - next \in -Granularity .. Granularity
    BY <1>1, <1>10, <2>4
  <2> QED  BY <1>14, <2>1, <2>2, <2>4, <2>5, Zenon
<1> QED  BY <1>13, <1>15, <1>16

\* Every call of a client and every step of the stale handler keeps the clamp in
\* line with the controller.
LEMMA ControlStep ==
  ASSUME IInv, [Next]_vars
  PROVE  IInv'
<1>1. /\ Controlled \subseteq Sessions /\ IInit \in Int /\ HighLimit \in Nat /\ 0 \in Nat
      /\ Targets \subseteq Nat
  BY ControlConstants
<1>2. TypeOK /\ ClampInv
  BY DEF IInv
<1>3. ASSUME NEW s \in Sessions, Close(s) PROVE IInv'
  <2>1. SetUclamp(s, 0) /\ Fresh(s) /\ UNCHANGED <<duration, integral_error, previous_error>>
    BY <1>3 DEF Close, pidVars
  <2> QED  BY <1>1, <1>2, <2>1, ClampReset DEF TypeOK
<1>4. ASSUME NEW s \in Sessions, NEW target \in IF s \in Controlled THEN Targets ELSE {0},
             Create(s, target)
      PROVE  IInv'
  <2>1. /\ SetUclamp(s, HighLimit) /\ Fresh(s)
        /\ duration' = [duration EXCEPT ![s] = target]
        /\ UNCHANGED <<integral_error, previous_error>>
    BY <1>4 DEF Create, SetIn
  <2>2. duration' \in [Sessions -> Nat]
    BY <1>1, <1>2, <2>1 DEF TypeOK
  <2> QED  BY <1>1, <1>2, <2>1, <2>2, ClampReset DEF TypeOK
<1>5. ASSUME NEW s \in Controlled, Pause(s) \/ SetStale(s) PROVE IInv'
  <2>1. SetUclamp(s, 0) /\ Fresh(s) /\ UNCHANGED <<duration, integral_error, previous_error>>
    BY <1>5, Zenon DEF Pause, SetStale, pidVars
  <2> QED  BY <1>1, <1>2, <2>1, ClampReset DEF TypeOK
<1>6. ASSUME NEW s \in Controlled, Resume(s) PROVE IInv'
  <2>1. /\ SetUclamp(s, HighLimit) /\ Fresh(s) /\ UNCHANGED <<duration, previous_error>>
        /\ integral_error' = [integral_error EXCEPT ![s] = AtLeast(IInit, integral_error[s])]
    BY <1>6 DEF Resume, SetIn
  <2>2. integral_error' \in [Sessions -> Int]
    BY <1>1, <1>2, <2>1 DEF TypeOK, AtLeast
  <2> QED  BY <1>1, <1>2, <2>1, <2>2, ClampReset DEF TypeOK
<1>7. ASSUME NEW s \in Controlled, Report(s) PROVE IInv'
  BY <1>7, ReportStep DEF Report
<1>8. ASSUME NEW s \in Controlled, NEW target \in Targets, UpdateTargetWorkDuration(s, target)
      PROVE  IInv'
  <2> DEFINE scaled == AtLeast(IInit, integral_error[s] * Quot(duration[s], target))
  <2>1. /\ target > 0 /\ UNCHANGED <<previous_error, current_min, util, demand>>
        /\ integral_error' = [integral_error EXCEPT ![s] = scaled]
        /\ duration' = [duration EXCEPT ![s] = target]
    BY <1>8 DEF UpdateTargetWorkDuration, SetIn
  <2>2. scaled \in Int
    <3>1. target \in Nat \ {0} /\ duration[s] \in Int /\ integral_error[s] \in Int
      BY <1>1, <1>2, <2>1 DEF TypeOK
    <3>2. Quot(duration[s], target) \in Int
      BY <3>1, QuotType
    <3>3. integral_error[s] * Quot(duration[s], target) \in Int
      BY <3>1, <3>2
    <3> QED  BY <1>1, <3>3 DEF AtLeast
  <2> HIDE DEF scaled
  <2>3. TypeOK'
    BY <1>1, <1>2, <2>1, <2>2 DEF TypeOK
  <2> QED  BY <1>2, <2>1, <2>3 DEF IInv, ClampInv, OwnThreads
<1>9. ASSUME UNCHANGED <<duration, integral_error, previous_error, current_min, util, demand>>
      PROVE  IInv'
  BY <1>2, <1>9 DEF IInv, TypeOK, ClampInv, OwnThreads
<1>10. ASSUME (\E s \in Controlled : GoStale(s)) \/ UNCHANGED vars
       PROVE  UNCHANGED <<duration, integral_error, previous_error, current_min, util, demand>>
  BY <1>10, Zenon DEF GoStale, pidVars, historyVars, vars
<1> QED  BY <1>3, <1>4, <1>5, <1>6, <1>7, <1>8, <1>9, <1>10 DEF Next

\* The recorded clamp stays within the granularity of what the controller asked
\* for last, and every thread has it unless the kernel refused the last write,
\* for any sessions, thread lists, gains, windows, samples and refused writes.
THEOREM ClampStaysClose == Spec => []ClampFollowsDemand
<1>1. Init => IInv
  <2> SUFFICES ASSUME Init PROVE IInv
    OBVIOUS
  <2>1. TypeOK
    BY ControlConstants DEF Init, TypeOK, NoDemand
  <2>2. \A s \in Sessions : OwnThreads(s) \subseteq Tids
    BY ManagerConstants DEF OwnThreads, Range
  <2>3. ClampInv
    BY <2>2, ControlConstants DEF Init, ClampInv
  <2> QED  BY <2>1, <2>3 DEF IInv
<1>2. IInv /\ [Next]_vars => IInv'
  BY ControlStep
<1>3. IInv => ClampFollowsDemand
  BY ControlConstants DEF IInv, ClampInv, ClampFollowsDemand
<1> QED  BY <1>1, <1>2, <1>3, PTL DEF Spec
=============================================================================
