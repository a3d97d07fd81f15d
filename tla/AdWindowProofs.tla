--------------------------- MODULE AdWindowProofs ---------------------------
(***************************************************************************)
(* The dwell protocol for any clock, dwell, caps, price and number of      *)
(* windows and calls: what is booked was earned once and is covered by the *)
(* hold, overlapping opens pass the caps by a bounded number, and the      *)
(* windows keep the promise of WindowContract.                             *)
(***************************************************************************)
EXTENDS AdWindow, FiniteSetTheorems, TLAPS

\* Division rounds down.
LEMMA DivisionBounds ==
  ASSUME NEW n \in Nat, NEW d \in Nat \ {0}
  PROVE  /\ n \div d \in Nat
         /\ d * (n \div d) <= n
         /\ n < d * (n \div d) + d
PROOF
  OBVIOUS

\* A window of at least one tick holds at least a second.
LEMMA DwellSecondsPositive ==
  /\ DwellSeconds \in Nat \ {0}
  /\ Dwell <= TicksPerSecond * DwellSeconds
PROOF
  <1> DEFINE q == (Dwell + TicksPerSecond - 1) \div TicksPerSecond
  <1>1. /\ TicksPerSecond \in Nat \ {0} /\ Dwell \in Nat \ {0}
        /\ Dwell + TicksPerSecond - 1 \in Nat
    BY AdWindowAssumption
  <1>2. /\ q \in Nat
        /\ TicksPerSecond * q \in Nat
        /\ Dwell + TicksPerSecond - 1 < TicksPerSecond * q + TicksPerSecond
    BY <1>1, DivisionBounds
  <1> HIDE DEF q
  <1>3. Dwell <= TicksPerSecond * q
    BY <1>1, <1>2
  <1>4. q # 0
    BY <1>1, <1>2, <1>3
  <1> QED BY <1>2, <1>3, <1>4 DEF q, DwellSeconds

\* The rounded attention never exceeds the estimate's rounded-up dwell.
LEMMA AttentionBounded ==
  ASSUME NEW e \in Nat
  PROVE  Attention(e) \in Nat /\ Attention(e) <= DwellSeconds
PROOF
  <1> DEFINE m == Least(e, Dwell)
             n == 2 * m + TicksPerSecond
             d == 2 * TicksPerSecond
             a == n \div d
  <1>1. TicksPerSecond \in Nat \ {0} /\ Dwell \in Nat /\ m \in Nat /\ m <= Dwell
    BY AdWindowAssumption DEF Least
  <1>2. n \in Nat /\ d \in Nat \ {0}
    BY <1>1
  <1>3. a \in Nat /\ d * a <= n
    BY <1>2, DivisionBounds
  <1>4. DwellSeconds \in Nat /\ Dwell <= TicksPerSecond * DwellSeconds
    BY DwellSecondsPositive
  <1>5. ASSUME a >= DwellSeconds + 1 PROVE FALSE
    <2>1. d * a >= d * (DwellSeconds + 1)
      <3> HIDE DEF a, d
      <3> QED BY <1>2, <1>3, <1>4, <1>5
    <2>2. d * (DwellSeconds + 1) = 2 * (TicksPerSecond * DwellSeconds) + 2 * TicksPerSecond
      BY <1>1, <1>4
    <2>3. TicksPerSecond * DwellSeconds \in Nat
      BY <1>1, <1>4
    <2> DEFINE p == TicksPerSecond * DwellSeconds
               da == d * a
    <2>4. da <= 2 * m + TicksPerSecond /\ da >= 2 * p + 2 * TicksPerSecond
      BY <1>3, <2>1, <2>2
    <2>5. m <= p /\ p \in Nat /\ da \in Int
      BY <1>1, <1>2, <1>3, <1>4, <2>3
    <2> HIDE DEF p, da
    <2> QED BY <1>1, <2>4, <2>5
  <1> HIDE DEF a
  <1>6. a <= DwellSeconds
    BY <1>3, <1>4, <1>5
  <1> QED BY <1>3, <1>6 DEF a, Attention

\* What a credited window owes is a natural its estimate covers.
LEMMA OwedBounded ==
  ASSUME NEW e \in Nat
  PROVE  /\ Attention(e) * Bid \in Nat
         /\ Attention(e) * Bid <= Estimate
         /\ Estimate \in Nat \ {0}
PROOF
  <1>1. Attention(e) \in Nat /\ Attention(e) <= DwellSeconds
    BY AttentionBounded
  <1>2. DwellSeconds \in Nat \ {0} /\ Bid \in Nat \ {0}
    BY DwellSecondsPositive, AdWindowAssumption
  <1>3. ASSUME NEW a \in Nat, NEW s \in Nat \ {0}, NEW b \in Nat \ {0}, a <= s
        PROVE  a * b \in Nat /\ a * b <= s * b /\ s * b \in Nat \ {0}
    <2>1. a * b \in Nat /\ s * b \in Nat \ {0} /\ (s - a) * b \in Nat
      BY <1>3
    <2>2. s * b = a * b + (s - a) * b
      BY <1>3
    <2> QED BY <2>1, <2>2
  <1> QED BY <1>1, <1>2, <1>3 DEF Estimate

LEMMA LeastType ==
  ASSUME NEW a \in Nat, NEW b \in Nat
  PROVE  Least(a, b) \in 0 .. b /\ Least(a, b) <= a
PROOF
  BY DEF Least

-----------------------------------------------------------------------------
(* Type correctness.                                                       *)

\* The bounds of the counters.
LEMMA BoundsNat == AgeMax \in Nat /\ MinGap \in Nat /\ MinBeats \in Nat /\ MinGap < AgeMax
PROOF
  BY AdWindowAssumption

LEMMA TypeInit == Init => TypeOK
PROOF
  <1> SUFFICES ASSUME Init PROVE TypeOK
    OBVIOUS
  <1>2. /\ age \in [Windows -> 0 .. AgeMax] /\ gap \in [Windows -> 0 .. MinGap]
        /\ beats \in [Windows -> 0 .. MinBeats]
    BY BoundsNat DEF Init
  <1>3. clicking \in [Clickers -> [window : Windows \cup {"none"}, billable : BOOLEAN]]
    BY DEF Init, NoClick
  <1> QED BY <1>2, <1>3 DEF Init, TypeOK, FillKinds

\* Steps of the window_open calls.
LEMMA OpenType == TypeOK /\ OpenStep => TypeOK'
PROOF
  <1> SUFFICES ASSUME TypeOK, NEW o \in Opens,
                      \/ OpenCheck(o) \/ OpenFallBack(o)
                      \/ \E w \in Windows : OpenInsert(o, w)
               PROVE  TypeOK'
    BY DEF OpenStep
  <1> USE AdWindowAssumption
      DEF TypeOK, windowVars, clockVars, beatVars, bookVars, FillKinds
  <1>1. CASE OpenCheck(o)
    BY <1>1 DEF OpenCheck
  <1>2. CASE OpenFallBack(o)
    BY <1>2 DEF OpenFallBack
  <1>3. ASSUME NEW w \in Windows, OpenInsert(o, w) PROVE TypeOK'
    <2>1. Estimate \in Nat
      BY OwedBounded
    <2>2. hold' \in [Windows -> Nat]
      BY <1>3, <2>1 DEF OpenInsert
    <2> QED BY <1>3, <2>2 DEF OpenInsert
  <1> QED BY <1>1, <1>2, <1>3

\* Beats and closes.
LEMMA WindowType == TypeOK /\ WindowStep => TypeOK'
PROOF
  <1> SUFFICES ASSUME TypeOK, NEW w \in Windows,
                      \/ \E active \in BOOLEAN : Beat(w, active)
                      \/ CloseUnearned(w) \/ CloseNoFill(w) \/ CloseCredit(w)
               PROVE  TypeOK'
    BY DEF WindowStep
  <1> USE BoundsNat DEF TypeOK, windowVars, clockVars, beatVars, bookVars, callVars
  <1>1. ASSUME NEW active \in BOOLEAN, Beat(w, active) PROVE TypeOK'
    <2>1. Least(beats[w] + 1, MinBeats) \in 0 .. MinBeats
      <3>1. beats[w] + 1 \in Nat /\ MinBeats \in Nat
        OBVIOUS
      <3> QED BY <3>1 DEF Least
    <2>2. beats' \in [Windows -> 0 .. MinBeats]
      BY <1>1, <2>1 DEF Beat
    <2>3. gap' \in [Windows -> 0 .. MinGap] /\ progress' \in [Windows -> BOOLEAN]
      BY <1>1 DEF Beat
    <2> QED BY <1>1, <2>2, <2>3 DEF Beat
  <1>2. CASE CloseUnearned(w)
    BY <1>2 DEF CloseUnearned, Voided
  <1>3. CASE CloseNoFill(w)
    BY <1>3 DEF CloseNoFill
  <1>4. CASE CloseCredit(w)
    <2> DEFINE owed == IF fill[w] = "house" THEN 0 ELSE Attention(age[w]) * Bid
    <2>1. owed \in Nat
      BY OwedBounded
    <2>2. /\ state' = [state EXCEPT ![w] = "credited"]
          /\ impression' = [impression EXCEPT ![w] = "provisional"]
          /\ gross' = [gross EXCEPT ![w] = owed]
          /\ hold' = [hold EXCEPT ![w] = IF @ > 0 THEN owed ELSE @]
          /\ UNCHANGED <<fill, clockVars, beatVars, click, callVars, revoked, crashes>>
      BY <1>4 DEF CloseCredit
    <2> HIDE DEF owed
    <2> QED BY <2>1, <2>2
  <1> QED BY <1>1, <1>2, <1>3, <1>4

\* The clock moves every age forward and none beyond the bound.
LEMMA TickAges ==
  ASSUME TypeOK, Tick
  PROVE  /\ age' \in [Windows -> 0 .. AgeMax]
         /\ gap' \in [Windows -> 0 .. MinGap]
         /\ \A w \in Windows :
              /\ age[w] <= age'[w]
              /\ gap'[w] > gap[w] => gap'[w] = gap[w] + 1 /\ state[w] = "open"
              /\ Exists(w) /\ age'[w] # age[w] + 1 => age'[w] = AgeMax
PROOF
  <1>1. ASSUME NEW w \in Windows
        PROVE  /\ Least(age[w] + 1, AgeMax) \in 0 .. AgeMax
               /\ age[w] <= Least(age[w] + 1, AgeMax)
               /\ Least(age[w] + 1, AgeMax) # age[w] + 1 => Least(age[w] + 1, AgeMax) = AgeMax
               /\ Least(gap[w] + 1, MinGap) \in 0 .. MinGap
               /\ Least(gap[w] + 1, MinGap) > gap[w] => Least(gap[w] + 1, MinGap) = gap[w] + 1
    <2>1. age[w] \in 0 .. AgeMax /\ gap[w] \in 0 .. MinGap
      BY DEF TypeOK
    <2> QED BY <2>1, BoundsNat DEF Least
  <1>2. /\ age' = [w \in Windows |-> IF Exists(w) THEN Least(age[w] + 1, AgeMax) ELSE age[w]]
        /\ gap' = [w \in Windows |-> IF state[w] = "open" THEN Least(gap[w] + 1, MinGap) ELSE gap[w]]
    BY DEF Tick
  <1>3. ASSUME NEW w \in Windows
        PROVE  /\ age[w] \in 0 .. AgeMax /\ gap[w] \in 0 .. MinGap
    BY DEF TypeOK
  <1> QED BY <1>1, <1>2, <1>3, BoundsNat

\* Sweeps, clicks, revocation, crashes and the clock.
LEMMA WorldType ==
  TypeOK /\ (ClickStep \/ SweepStep \/ Revoke \/ Crash \/ Tick) => TypeOK'
PROOF
  <1> SUFFICES ASSUME TypeOK, ClickStep \/ SweepStep \/ Revoke \/ Crash \/ Tick
               PROVE  TypeOK'
    OBVIOUS
  <1> USE DEF windowVars, clockVars, beatVars, bookVars, callVars
  <1>1. ASSUME NEW k \in Clickers, NEW w \in Windows, ClickRead(k, w) PROVE TypeOK'
    BY <1>1 DEF ClickRead, TypeOK
  <1>2. ASSUME NEW k \in Clickers, ClickInsert(k) PROVE TypeOK'
    BY <1>2 DEF ClickInsert, TypeOK, NoClick
  <1>3. ASSUME NEW S \in SUBSET StaleOpen, Sweep(S) PROVE TypeOK'
    BY <1>3 DEF Sweep, TypeOK, Voided
  <1>4. CASE Revoke
    BY <1>4 DEF Revoke, TypeOK
  <1>5. CASE Crash
    BY <1>5, AdWindowAssumption DEF Crash, TypeOK, NoClick
  <1>6. CASE Tick
    BY <1>6, TickAges DEF Tick, TypeOK
  <1> QED BY <1>1, <1>2, <1>3, <1>4, <1>5, <1>6 DEF ClickStep, SweepStep

LEMMA TypeStep == TypeOK /\ [Next]_vars => TypeOK'
PROOF
  <1> SUFFICES ASSUME TypeOK, [Next]_vars PROVE TypeOK'
    OBVIOUS
  <1>1. CASE UNCHANGED vars
    BY <1>1 DEF vars, windowVars, clockVars, beatVars, bookVars, callVars, TypeOK
  <1> QED BY <1>1, OpenType, WindowType, WorldType DEF Next

\* Every variable keeps its type, for every clock and every bound.
THEOREM TypeCorrect == Spec => []TypeOK
PROOF
  BY TypeInit, TypeStep, PTL DEF Spec

-----------------------------------------------------------------------------
(* What is booked was earned, once, and the hold covers it.                *)

\* A row that was never inserted holds nothing.
FreshHoldsNothing == \A w \in Windows : state[w] = "none" => hold[w] = 0

\* The server spaces the beats: each one took MinGap of the window's age.
BeatsTakeTime == \A w \in Windows : age[w] >= MinGap * beats[w] + gap[w]

\* The inductive invariant of the dwell protocol.
DwellInv ==
  TypeOK /\ FreshHoldsNothing /\ BeatsTakeTime /\ HoldCoversGross /\ ImpressionEarned

LEMMA DwellInit == Init => DwellInv
PROOF
  <1> SUFFICES ASSUME Init PROVE DwellInv
    OBVIOUS
  <1>1. TypeOK
    BY TypeInit
  <1>2. FreshHoldsNothing /\ ImpressionEarned
    BY DEF Init, FreshHoldsNothing, ImpressionEarned
  <1>3. HoldCoversGross
    BY OwedBounded DEF Init, HoldCoversGross
  <1>4. BeatsTakeTime
    BY BoundsNat DEF Init, BeatsTakeTime
  <1> QED BY <1>1, <1>2, <1>3, <1>4 DEF DwellInv

\* One more beat is one more gap.
LEMMA OneMoreBeat ==
  ASSUME NEW n \in Nat, NEW m \in Nat, NEW k \in Nat, k <= n + 1
  PROVE  m * k \in Nat /\ m * n \in Nat /\ m * k <= m * n + m
PROOF
  <1>1. m * k \in Nat /\ m * n \in Nat /\ m * (n + 1 - k) \in Nat
    OBVIOUS
  <1>2. m * n + m = m * k + m * (n + 1 - k)
    OBVIOUS
  <1> QED BY <1>1, <1>2

LEMMA PacedStep == TypeOK /\ BeatsTakeTime /\ [Next]_vars => BeatsTakeTime'
PROOF
  <1> SUFFICES ASSUME TypeOK, BeatsTakeTime, [Next]_vars, NEW v \in Windows
               PROVE  age'[v] >= MinGap * beats'[v] + gap'[v]
    BY DEF BeatsTakeTime
  <1>0. /\ age[v] \in 0 .. AgeMax /\ gap[v] \in 0 .. MinGap /\ beats[v] \in 0 .. MinBeats
        /\ age[v] >= MinGap * beats[v] + gap[v]
    BY DEF TypeOK, BeatsTakeTime
  <1> USE DEF windowVars, clockVars, beatVars, bookVars, callVars
  <1>1. CASE UNCHANGED <<age, gap, beats>>
    BY <1>0, <1>1
  <1>2. ASSUME NEW w \in Windows, NEW active \in BOOLEAN, Beat(w, active)
        PROVE  age'[v] >= MinGap * beats'[v] + gap'[v]
    <2>1. CASE v # w
      <3>1. age'[v] = age[v] /\ gap'[v] = gap[v] /\ beats'[v] = beats[v]
        BY <1>2, <2>1 DEF Beat, TypeOK
      <3> QED BY <1>0, <3>1
    <2>2. CASE v = w
      <3> DEFINE n == Least(beats[v] + 1, MinBeats)
      <3>1. age'[v] = age[v] /\ gap'[v] = 0 /\ beats'[v] = n /\ gap[v] >= MinGap
        BY <1>2, <2>2 DEF Beat, TypeOK
      <3>2. n \in Nat /\ n <= beats[v] + 1
        BY <1>0, BoundsNat DEF Least
      <3> HIDE DEF n
      <3>3. /\ MinGap * n \in Nat /\ MinGap * beats[v] \in Nat
            /\ MinGap * n <= MinGap * beats[v] + MinGap
        BY <1>0, <3>2, BoundsNat, OneMoreBeat
      <3> QED BY <1>0, <3>1, <3>3, BoundsNat
    <2> QED BY <2>1, <2>2
  <1>3. CASE Tick
    <2>1. /\ beats'[v] = beats[v]
          /\ age'[v] \in Nat /\ gap'[v] \in 0 .. MinGap /\ age[v] <= age'[v]
          /\ gap'[v] > gap[v] => gap'[v] = gap[v] + 1 /\ state[v] = "open"
          /\ Exists(v) /\ age'[v] # age[v] + 1 => age'[v] = AgeMax
      BY <1>3, TickAges, BoundsNat DEF Tick
    <2>2. MinGap * beats[v] \in Nat
      BY <1>0, BoundsNat, OneMoreBeat
    <2>3. CASE gap'[v] <= gap[v]
      BY <1>0, <2>1, <2>2, <2>3, BoundsNat
    <2>4. CASE gap'[v] > gap[v] /\ age'[v] = age[v] + 1
      BY <1>0, <2>1, <2>2, <2>4, BoundsNat
    <2>5. CASE gap'[v] > gap[v] /\ age'[v] # age[v] + 1
      <3>1. age'[v] = AgeMax
        BY <2>1, <2>5 DEF Exists
      <3>2. MinGap * beats[v] <= MinGap * MinBeats /\ MinGap * MinBeats \in Nat
        <4>1. ASSUME NEW n \in Nat, NEW b \in 0 .. n, NEW m \in Nat
              PROVE  m * b <= m * n /\ m * n \in Nat
          <5>1. m * b \in Nat /\ m * (n - b) \in Nat /\ m * n = m * b + m * (n - b)
            OBVIOUS
          <5> QED BY <5>1
        <4> QED BY <4>1, <1>0, BoundsNat
      <3>3. MinGap * MinBeats + MinGap <= AgeMax
        <4>1. MinGap * (MinBeats + 1) = MinGap * MinBeats + MinGap
          BY BoundsNat
        <4> QED BY <4>1, AdWindowAssumption
      <3> QED BY <2>1, <2>2, <3>1, <3>2, <3>3, BoundsNat
    <2> QED BY <1>0, <2>1, <2>3, <2>4, <2>5, BoundsNat
  <1>4. CASE OpenStep
    BY <1>4, <1>1 DEF OpenStep, OpenCheck, OpenFallBack, OpenInsert
  <1>5. CASE WindowStep
    BY <1>5, <1>1, <1>2 DEF WindowStep, CloseUnearned, CloseNoFill, CloseCredit
  <1>6. CASE ClickStep \/ SweepStep \/ Revoke \/ Crash
    BY <1>6, <1>1 DEF ClickStep, ClickRead, ClickInsert, SweepStep, Sweep, Revoke, Crash
  <1>7. CASE UNCHANGED vars
    BY <1>7, <1>1 DEF vars
  <1> QED BY <1>3, <1>4, <1>5, <1>6, <1>7 DEF Next

\* The part of a window that the invariants relate: a step either leaves it
\* alone, up to the clock and to beats of an open window, or is one of these.
WindowUntouched(v) ==
  /\ state'[v] = state[v] /\ fill'[v] = fill[v] /\ hold'[v] = hold[v]
  /\ impression'[v] = impression[v] /\ gross'[v] = gross[v]
  /\ age[v] <= age'[v]
  /\ state[v] # "open" => beats'[v] = beats[v] /\ progress'[v] = progress[v]

WindowInserted(v) ==
  /\ state[v] = "none" /\ state'[v] = "open"
  /\ hold'[v] = IF fill'[v] = "prepay" THEN Estimate ELSE 0
  /\ impression'[v] = impression[v] /\ gross'[v] = gross[v]

WindowAbandoned(v) ==
  /\ state[v] = "open" /\ state'[v] = "abandoned" /\ hold'[v] = 0
  /\ impression'[v] = impression[v] /\ gross'[v] = gross[v]

WindowEarned(v) ==
  /\ state[v] = "open" /\ Earned(v)
  /\ age'[v] = age[v] /\ beats'[v] = beats[v] /\ progress'[v] = progress[v]
  /\ \/ /\ state'[v] = "void" /\ hold'[v] = 0
        /\ gross'[v] = gross[v]
     \/ /\ state'[v] = "credited" /\ fill'[v] = fill[v]
        /\ \E owed \in 0 .. Estimate :
             /\ gross'[v] = owed
             /\ hold'[v] = IF hold[v] > 0 THEN owed ELSE 0

WindowLost(v) ==
  /\ state[v] # "none" /\ state'[v] = "lost" /\ hold'[v] = 0
  /\ impression'[v] = impression[v] /\ gross'[v] = gross[v]
  /\ age'[v] = age[v] /\ beats'[v] = beats[v] /\ progress'[v] = progress[v]

\* Every step does one of these to every window.
LEMMA WindowSteps ==
  ASSUME TypeOK, FreshHoldsNothing, [Next]_vars, NEW v \in Windows
  PROVE  \/ WindowUntouched(v) \/ WindowInserted(v) \/ WindowAbandoned(v)
         \/ WindowEarned(v) \/ WindowLost(v)
PROOF
  <1> DEFINE Goal == \/ WindowUntouched(v) \/ WindowInserted(v) \/ WindowAbandoned(v)
                     \/ WindowEarned(v) \/ WindowLost(v)
  <1> USE DEF windowVars, clockVars, beatVars, bookVars, callVars
  <1>0. age[v] \in Nat /\ age[v] <= age[v] /\ hold[v] \in Nat
    BY BoundsNat DEF TypeOK
  <1>1. ASSUME UNCHANGED <<state, fill, hold, impression, gross, beats, progress, age>>
        PROVE  Goal
    BY <1>0, <1>1 DEF WindowUntouched
  <1>2. CASE OpenStep
    <2>1. ASSUME NEW o \in Opens, NEW w \in Windows, OpenInsert(o, w) PROVE Goal
      <3>1. CASE v = w
        <4>1. /\ state[v] = "none" /\ state'[v] = "open" /\ fill'[v] = opening[o]
              /\ hold'[v] = IF opening[o] = "prepay" THEN Estimate ELSE 0
              /\ impression' = impression /\ gross' = gross
          BY <2>1, <3>1 DEF OpenInsert, TypeOK
        <4> QED BY <4>1 DEF WindowInserted
      <3>2. CASE v # w
        BY <1>0, <2>1, <3>2 DEF OpenInsert, TypeOK, WindowUntouched
      <3> QED BY <3>1, <3>2
    <2> QED BY <1>2, <2>1, <1>1 DEF OpenStep, OpenCheck, OpenFallBack
  <1>3. ASSUME NEW w \in Windows, NEW active \in BOOLEAN, Beat(w, active) PROVE Goal
    <2>1. state[w] = "open" /\ UNCHANGED <<state, fill, hold, impression, gross, age>>
      BY <1>3 DEF Beat
    <2>2. v # w => beats'[v] = beats[v] /\ progress'[v] = progress[v]
      BY <1>3 DEF Beat, TypeOK
    <2> QED BY <1>0, <2>1, <2>2 DEF WindowUntouched
  <1>4. ASSUME NEW w \in Windows, CloseUnearned(w) PROVE Goal
    <2>1. CASE v = w
      BY <1>4, <2>1 DEF CloseUnearned, TypeOK, WindowAbandoned
    <2>2. CASE v # w
      BY <1>0, <1>4, <2>2 DEF CloseUnearned, TypeOK, WindowUntouched
    <2> QED BY <2>1, <2>2
  <1>5. ASSUME NEW w \in Windows, CloseNoFill(w) PROVE Goal
    <2>1. CASE v = w
      BY <1>5, <2>1 DEF CloseNoFill, TypeOK, WindowEarned
    <2>2. CASE v # w
      BY <1>0, <1>5, <2>2 DEF CloseNoFill, TypeOK, WindowUntouched
    <2> QED BY <2>1, <2>2
  <1>6. ASSUME NEW w \in Windows, CloseCredit(w) PROVE Goal
    <2> DEFINE owed == IF fill[w] = "house" THEN 0 ELSE Attention(age[w]) * Bid
    <2>1. owed \in 0 .. Estimate
      BY OwedBounded, BoundsNat DEF TypeOK
    <2>2. /\ state[w] = "open" /\ Earned(w)
          /\ state' = [state EXCEPT ![w] = "credited"]
          /\ impression' = [impression EXCEPT ![w] = "provisional"]
          /\ gross' = [gross EXCEPT ![w] = owed]
          /\ hold' = [hold EXCEPT ![w] = IF @ > 0 THEN owed ELSE @]
          /\ UNCHANGED <<fill, clockVars, beatVars>>
      BY <1>6 DEF CloseCredit
    <2> HIDE DEF owed
    <2>3. CASE v = w
      <3>1. /\ state'[v] = "credited" /\ gross'[v] = owed
            /\ hold'[v] = IF hold[v] > 0 THEN owed ELSE 0
        BY <1>0, <2>2, <2>3 DEF TypeOK
      <3> QED BY <2>1, <2>2, <2>3, <3>1 DEF WindowEarned
    <2>4. CASE v # w
      BY <1>0, <2>2, <2>4 DEF TypeOK, WindowUntouched
    <2> QED BY <2>3, <2>4
  <1>7. CASE ClickStep
    BY <1>7, <1>1 DEF ClickStep, ClickRead, ClickInsert
  <1>8. ASSUME NEW S \in SUBSET StaleOpen, Sweep(S) PROVE Goal
    <2>1. CASE v \in S
      BY <1>8, <2>1 DEF Sweep, StaleOpen, WindowAbandoned
    <2>2. CASE v \notin S
      BY <1>0, <1>8, <2>2 DEF Sweep, WindowUntouched
    <2> QED BY <2>1, <2>2
  <1>9. CASE Crash
    <2>1. CASE Exists(v) \/ state[v] = "lost"
      BY <1>9, <2>1 DEF Crash, Exists, WindowLost
    <2>2. CASE state[v] = "none"
      BY <1>0, <1>9, <2>2 DEF Crash, Exists, FreshHoldsNothing, WindowUntouched
    <2> QED BY <2>1, <2>2 DEF Exists
  <1>10. CASE Tick
    BY <1>10, TickAges DEF Tick, WindowUntouched
  <1>11. CASE Revoke \/ UNCHANGED vars
    BY <1>11, <1>1 DEF Revoke, vars
  <1> QED
    BY <1>2, <1>3, <1>4, <1>5, <1>6, <1>7, <1>8, <1>9, <1>10, <1>11
       DEF Next, WindowStep, SweepStep

LEMMA DwellStep == DwellInv /\ [Next]_vars => DwellInv'
PROOF
  <1> SUFFICES ASSUME DwellInv, [Next]_vars PROVE DwellInv'
    OBVIOUS
  <1>1. TypeOK' /\ BeatsTakeTime'
    BY TypeStep, PacedStep DEF DwellInv
  <1>2. ASSUME NEW v \in Windows
        PROVE  \/ WindowUntouched(v) \/ WindowInserted(v) \/ WindowAbandoned(v)
               \/ WindowEarned(v) \/ WindowLost(v)
    BY <1>2, WindowSteps DEF DwellInv
  <1>3. FreshHoldsNothing'
    BY <1>2 DEF DwellInv, FreshHoldsNothing, WindowUntouched, WindowInserted,
                WindowAbandoned, WindowEarned, WindowLost
  <1>4. HoldCoversGross'
    <2> SUFFICES ASSUME NEW v \in Windows
                 PROVE  /\ gross'[v] <= Estimate
                        /\ state'[v] = "open" =>
                             hold'[v] = IF fill'[v] = "prepay" THEN Estimate ELSE 0
                        /\ state'[v] = "credited" =>
                             hold'[v] = IF fill'[v] = "prepay" THEN gross'[v] ELSE 0
                        /\ state'[v] \in {"abandoned", "void", "lost"} => hold'[v] = 0
      BY OwedBounded DEF HoldCoversGross, Estimate
    <2>1. /\ Estimate \in Nat \ {0} /\ gross[v] \in Nat
          /\ gross[v] <= Estimate
          /\ state[v] = "open" => hold[v] = IF fill[v] = "prepay" THEN Estimate ELSE 0
          /\ state[v] = "credited" => hold[v] = IF fill[v] = "prepay" THEN gross[v] ELSE 0
          /\ state[v] \in {"abandoned", "void", "lost"} => hold[v] = 0
      <3>1. Estimate \in Nat \ {0}
        BY OwedBounded, BoundsNat
      <3> QED BY <3>1 DEF DwellInv, HoldCoversGross, TypeOK
    <2>2. CASE WindowUntouched(v)
      BY <2>1, <2>2 DEF WindowUntouched
    <2>3. CASE WindowInserted(v) \/ WindowAbandoned(v) \/ WindowLost(v)
      BY <2>1, <2>3 DEF WindowInserted, WindowAbandoned, WindowLost
    <2>4. CASE WindowEarned(v)
      BY <2>1, <2>4 DEF WindowEarned
    <2> QED BY <1>2, <2>2, <2>3, <2>4
  <1>5. ImpressionEarned'
    <2> SUFFICES ASSUME NEW v \in Windows, impression'[v] # "none"
                 PROVE  /\ state'[v] \in {"credited", "void", "lost"}
                        /\ beats'[v] = MinBeats /\ progress'[v]
                        /\ age'[v] >= MinGap * MinBeats
                        /\ gross'[v] > 0 => age'[v] >= Dwell - Tolerance
      BY DEF ImpressionEarned
    <2>1. /\ age[v] \in Nat /\ age'[v] \in Nat /\ gap[v] \in Nat /\ beats[v] \in 0 .. MinBeats
          /\ Dwell - Tolerance \in Int /\ MinGap * MinBeats \in Nat
      <3>1. Dwell \in Nat /\ Tolerance \in Nat /\ MinGap * MinBeats \in Nat
        BY AdWindowAssumption
      <3> QED BY <1>1, <3>1, BoundsNat DEF DwellInv, TypeOK
    <2>2. /\ impression[v] # "none" =>
               /\ state[v] \in {"credited", "void", "lost"}
               /\ beats[v] = MinBeats /\ progress[v]
               /\ age[v] >= MinGap * MinBeats
               /\ gross[v] > 0 => age[v] >= Dwell - Tolerance
          /\ age[v] >= MinGap * beats[v] + gap[v]
      BY DEF DwellInv, ImpressionEarned, BeatsTakeTime
    <2>3. CASE WindowUntouched(v)
      BY <2>1, <2>2, <2>3 DEF WindowUntouched
    <2>4. CASE WindowInserted(v) \/ WindowAbandoned(v) \/ WindowLost(v)
      BY <2>1, <2>2, <2>4 DEF WindowInserted, WindowAbandoned, WindowLost
    <2>5. CASE WindowEarned(v)
      <3>1. /\ beats[v] >= MinBeats /\ progress[v] /\ age[v] >= Dwell - Tolerance
            /\ age'[v] = age[v] /\ beats'[v] = beats[v] /\ progress'[v] = progress[v]
            /\ state'[v] \in {"void", "credited"}
        BY <2>5 DEF WindowEarned, Earned
      <3>2. beats[v] = MinBeats
        BY <2>1, <3>1, BoundsNat
      <3>3. age[v] >= MinGap * MinBeats + gap[v]
        BY <2>2, <3>2
      <3> QED BY <2>1, <3>1, <3>2, <3>3
    <2> QED BY <1>2, <2>3, <2>4, <2>5
  <1> QED BY <1>1, <1>3, <1>4, <1>5 DEF DwellInv

LEMMA DwellInvariant == Spec => []DwellInv
PROOF
  BY DwellInit, DwellStep, PTL DEF Spec

\* The reserve of close_window is never short: whatever the clock measured,
\* the impression costs at most the estimate that window_open held.
THEOREM HoldAlwaysCovers == Spec => []HoldCoversGross
PROOF
  <1>1. DwellInv => HoldCoversGross
    BY DEF DwellInv
  <1> QED BY <1>1, DwellInvariant, PTL

\* No impression exists whose window did not take the time of its beats and
\* of its dwell on the server's clock.
THEOREM ImpressionsAlwaysEarned == Spec => []ImpressionEarned
PROOF
  <1>1. DwellInv => ImpressionEarned
    BY DEF DwellInv
  <1> QED BY <1>1, DwellInvariant, PTL

\* Once close_window has booked an impression, no call changes it.
THEOREM BookingsFinal == Spec => BookedOnce
PROOF
  <1>1. ASSUME DwellInv, [Next]_vars, NEW w \in Windows, impression[w] # "none"
        PROVE  impression'[w] = impression[w] /\ gross'[w] = gross[w]
    <2>1. state[w] \in {"credited", "void", "lost"}
      BY <1>1 DEF DwellInv, ImpressionEarned
    <2>2. \/ WindowUntouched(w) \/ WindowInserted(w) \/ WindowAbandoned(w)
          \/ WindowEarned(w) \/ WindowLost(w)
      BY <1>1, WindowSteps DEF DwellInv
    <2> QED BY <2>1, <2>2 DEF WindowUntouched, WindowInserted, WindowAbandoned,
                              WindowEarned, WindowLost
  <1>2. DwellInv /\ [Next]_vars
        => [\A w \in Windows : impression[w] # "none" =>
              impression'[w] = impression[w] /\ gross'[w] = gross[w]]_vars
    BY <1>1
  <1> QED BY <1>2, DwellInvariant, PTL DEF Spec, BookedOnce

-----------------------------------------------------------------------------
(* The caps and the budget under overlapping opens.                        *)

\* The window_open calls that have counted and not yet inserted.
Pending == {o \in Opens : opening[o] # "idle"}

\* A window counted by a cap, and each call that has passed it, used one of
\* the places below the cap or one of the other calls' races.
CapInv ==
  /\ Cardinality(YoungOpen) + Cardinality(Pending) <= OpenCap + Cardinality(Opens) - 1
  /\ Cardinality(OpenedLately) + Cardinality(Pending) <= RateCap + Cardinality(Opens) - 1

\* Subsets of windows and of calls are finite.
LEMMA FiniteSubsets ==
  ASSUME NEW A, NEW B, IsFiniteSet(B), A \subseteq B
  PROVE  IsFiniteSet(A) /\ Cardinality(A) \in Nat /\ Cardinality(A) <= Cardinality(B)
         /\ Cardinality(B) \in Nat
PROOF
  <1>1. A \in SUBSET B
    OBVIOUS
  <1> QED BY <1>1, FS_Subset, FS_CardinalityType

\* A set that gains at most one element counts at most one more.
LEMMA GainsOne ==
  ASSUME NEW A, NEW B, NEW x, IsFiniteSet(A), B \subseteq A \cup {x}
  PROVE  IsFiniteSet(B) /\ Cardinality(B) \in Nat /\ Cardinality(A) \in Nat
         /\ Cardinality(B) <= Cardinality(A) + 1
PROOF
  <1>1. IsFiniteSet(A \cup {x}) /\ Cardinality(A \cup {x}) <= Cardinality(A) + 1
        /\ Cardinality(A) \in Nat
    <2>1. /\ IsFiniteSet(A \cup {x})
          /\ Cardinality(A \cup {x}) = IF x \in A THEN Cardinality(A) ELSE Cardinality(A) + 1
      BY FS_AddElement
    <2>2. Cardinality(A) \in Nat
      BY FS_CardinalityType
    <2> QED BY <2>1, <2>2
  <1>2. IsFiniteSet(B) /\ Cardinality(B) \in Nat /\ Cardinality(B) <= Cardinality(A \cup {x})
        /\ Cardinality(A \cup {x}) \in Nat
    BY <1>1, FiniteSubsets
  <1> QED BY <1>1, <1>2

\* A set that loses an element and gains none counts one less.
LEMMA LosesOne ==
  ASSUME NEW A, NEW B, NEW x, IsFiniteSet(A), x \in A, B \subseteq A \ {x}
  PROVE  IsFiniteSet(B) /\ Cardinality(B) \in Nat /\ Cardinality(A) \in Nat
         /\ Cardinality(B) + 1 <= Cardinality(A)
PROOF
  <1>1. IsFiniteSet(A \ {x}) /\ Cardinality(A \ {x}) = Cardinality(A) - 1
        /\ Cardinality(A) \in Nat
    BY FS_RemoveElement, FS_CardinalityType
  <1>2. IsFiniteSet(B) /\ Cardinality(B) \in Nat /\ Cardinality(B) <= Cardinality(A \ {x})
    BY <1>1, FiniteSubsets
  <1> QED BY <1>1, <1>2

\* How each step moves the windows a cap counts and the calls it has passed.
LEMMA CapSteps ==
  ASSUME TypeOK, [Next]_vars
  PROVE  \/ YoungOpen' \subseteq YoungOpen /\ OpenedLately' \subseteq OpenedLately
            /\ Pending' \subseteq Pending
         \/ /\ Cardinality(YoungOpen) < OpenCap /\ Cardinality(OpenedLately) < RateCap
            /\ YoungOpen' = YoungOpen /\ OpenedLately' = OpenedLately
         \/ \E o \in Pending, w \in Windows :
              /\ YoungOpen' \subseteq YoungOpen \cup {w}
              /\ OpenedLately' \subseteq OpenedLately \cup {w}
              /\ Pending' \subseteq Pending \ {o}
PROOF
  <1> DEFINE Shrink == YoungOpen' \subseteq YoungOpen /\ OpenedLately' \subseteq OpenedLately
                       /\ Pending' \subseteq Pending
             Check ==
               /\ Cardinality(YoungOpen) < OpenCap /\ Cardinality(OpenedLately) < RateCap
               /\ YoungOpen' = YoungOpen /\ OpenedLately' = OpenedLately
             Insert == \E o \in Pending, w \in Windows :
               /\ YoungOpen' \subseteq YoungOpen \cup {w}
               /\ OpenedLately' \subseteq OpenedLately \cup {w}
               /\ Pending' \subseteq Pending \ {o}
  <1> USE DEF windowVars, clockVars, beatVars, bookVars, callVars
  <1>1. ASSUME UNCHANGED <<age, opening>>,
               \A w \in Windows : /\ state'[w] = "open" => state[w] = "open"
                                  /\ Exists(w)' => Exists(w)
        PROVE  Shrink
    BY <1>1 DEF YoungOpen, OpenedLately, Pending
  <1>2. ASSUME NEW o \in Opens, OpenCheck(o) PROVE Check
    BY <1>2 DEF OpenCheck, YoungOpen, OpenedLately, Exists
  <1>3. ASSUME NEW o \in Opens, OpenFallBack(o) PROVE Shrink
    <2>1. UNCHANGED <<state, age>> /\ opening[o] # "idle"
          /\ \A p \in Opens : p # o => opening'[p] = opening[p]
      BY <1>3 DEF OpenFallBack, TypeOK
    <2> QED BY <2>1 DEF YoungOpen, OpenedLately, Exists, Pending
  <1>4. ASSUME NEW o \in Opens, NEW w \in Windows, OpenInsert(o, w) PROVE Insert
    <2>1. /\ o \in Pending /\ opening'[o] = "idle" /\ age' = age
          /\ \A p \in Opens : p # o => opening'[p] = opening[p]
          /\ \A v \in Windows : v # w => state'[v] = state[v]
      BY <1>4 DEF OpenInsert, Pending, TypeOK
    <2> QED BY <2>1 DEF YoungOpen, OpenedLately, Exists, Pending
  <1>5. CASE WindowStep
    BY <1>5, <1>1 DEF WindowStep, Beat, CloseUnearned, CloseNoFill, CloseCredit, TypeOK, Exists
  <1>6. CASE ClickStep
    BY <1>6, <1>1 DEF ClickStep, ClickRead, ClickInsert, Exists
  <1>7. CASE SweepStep
    BY <1>7, <1>1 DEF SweepStep, Sweep, StaleOpen, Exists
  <1>8. CASE Crash
    BY <1>8 DEF Crash, Exists, YoungOpen, OpenedLately, Pending
  <1>9. CASE Tick
    <2>1. UNCHANGED <<state, opening>> /\ \A w \in Windows : age[w] <= age'[w]
          /\ age[w] \in Nat /\ age'[w] \in Nat
      BY <1>9, TickAges, BoundsNat DEF Tick, TypeOK
    <2>2. Young \in Nat /\ Minute \in Nat
      BY AdWindowAssumption
    <2> QED BY <2>1, <2>2 DEF YoungOpen, OpenedLately, Exists, Pending
  <1>10. CASE Revoke \/ UNCHANGED vars
    BY <1>10, <1>1 DEF Revoke, vars, Exists
  <1> QED BY <1>2, <1>3, <1>4, <1>5, <1>6, <1>7, <1>8, <1>9, <1>10 DEF Next, OpenStep

\* The counts are natural numbers.
LEMMA CountsNat ==
  /\ Cardinality(YoungOpen) \in Nat /\ IsFiniteSet(YoungOpen)
  /\ Cardinality(OpenedLately) \in Nat /\ IsFiniteSet(OpenedLately)
  /\ Cardinality(Pending) \in Nat /\ IsFiniteSet(Pending)
  /\ Cardinality(Pending) <= Cardinality(Opens)
  /\ Cardinality(Opens) \in Nat /\ OpenCap \in Nat \ {0} /\ RateCap \in Nat \ {0}
PROOF
  <1>1. YoungOpen \subseteq Windows /\ OpenedLately \subseteq Windows /\ Pending \subseteq Opens
    BY DEF YoungOpen, OpenedLately, Pending
  <1>2. IsFiniteSet(Windows) /\ IsFiniteSet(Opens) /\ OpenCap \in Nat \ {0} /\ RateCap \in Nat \ {0}
    BY AdWindowAssumption
  <1> QED BY <1>1, <1>2, FiniteSubsets

LEMMA CapInit == Init => CapInv
PROOF
  <1> SUFFICES ASSUME Init PROVE CapInv
    OBVIOUS
  <1>1. YoungOpen = {} /\ OpenedLately = {} /\ Pending = {}
    BY DEF Init, YoungOpen, OpenedLately, Pending, Exists
  <1>2. Cardinality({}) = 0
    BY FS_EmptySet
  <1> QED BY <1>1, <1>2, CountsNat DEF CapInv

LEMMA CapStep == TypeOK /\ CapInv /\ [Next]_vars => CapInv'
PROOF
  <1> SUFFICES ASSUME TypeOK, CapInv, [Next]_vars PROVE CapInv'
    OBVIOUS
  <1>0. /\ Cardinality(YoungOpen') \in Nat /\ Cardinality(OpenedLately') \in Nat
        /\ Cardinality(Pending') \in Nat /\ Cardinality(Pending') <= Cardinality(Opens)
    <2>1. YoungOpen' \subseteq Windows /\ OpenedLately' \subseteq Windows /\ Pending' \subseteq Opens
      BY DEF YoungOpen, OpenedLately, Pending
    <2> QED BY <2>1, AdWindowAssumption, FiniteSubsets
  <1>1. CASE YoungOpen' \subseteq YoungOpen /\ OpenedLately' \subseteq OpenedLately
             /\ Pending' \subseteq Pending
    <2>1. /\ Cardinality(YoungOpen') <= Cardinality(YoungOpen)
          /\ Cardinality(OpenedLately') <= Cardinality(OpenedLately)
          /\ Cardinality(Pending') <= Cardinality(Pending)
      BY <1>1, CountsNat, FiniteSubsets
    <2> QED BY <1>0, <2>1, CountsNat DEF CapInv
  <1>2. ASSUME /\ Cardinality(YoungOpen) < OpenCap /\ Cardinality(OpenedLately) < RateCap
               /\ YoungOpen' = YoungOpen /\ OpenedLately' = OpenedLately
        PROVE  CapInv'
    BY <1>0, <1>2, CountsNat DEF CapInv
  <1>3. ASSUME NEW o \in Pending, NEW w \in Windows,
               /\ YoungOpen' \subseteq YoungOpen \cup {w}
               /\ OpenedLately' \subseteq OpenedLately \cup {w}
               /\ Pending' \subseteq Pending \ {o}
        PROVE  CapInv'
    <2>1. Cardinality(YoungOpen') <= Cardinality(YoungOpen) + 1
      BY <1>3, CountsNat, GainsOne
    <2>2. Cardinality(OpenedLately') <= Cardinality(OpenedLately) + 1
      BY <1>3, CountsNat, GainsOne
    <2>3. Cardinality(Pending') + 1 <= Cardinality(Pending)
      BY <1>3, CountsNat, LosesOne
    <2> QED BY <1>0, <2>1, <2>2, <2>3, CountsNat DEF CapInv
  <1> QED BY <1>1, <1>2, <1>3, CapSteps

\* Overlapping opens pass the concurrency cap and the rate cap by at most one
\* window for each further call in flight, for any caps and any number of
\* calls.
THEOREM OvershootAlwaysBounded == Spec => []OvershootBounded
PROOF
  <1>1. CapInv => OvershootBounded
    BY CountsNat DEF CapInv, OvershootBounded
  <1>2. Spec => []CapInv
    BY CapInit, CapStep, TypeCorrect, PTL DEF Spec
  <1> QED BY <1>1, <1>2, PTL

\* How a step moves the booked windows and calls once the budget is spent.
LEMMA BudgetSteps ==
  ASSUME TypeOK, [Next]_vars, ~BudgetLeft
  PROVE  \/ BookedOpen' \subseteq BookedOpen /\ BookedCalls' \subseteq BookedCalls
         \/ \E o \in BookedCalls, w \in Windows :
              /\ BookedOpen' \subseteq BookedOpen \cup {w}
              /\ BookedCalls' \subseteq BookedCalls \ {o}
PROOF
  <1> DEFINE Shrink == BookedOpen' \subseteq BookedOpen /\ BookedCalls' \subseteq BookedCalls
             Insert == \E o \in BookedCalls, w \in Windows :
               /\ BookedOpen' \subseteq BookedOpen \cup {w}
               /\ BookedCalls' \subseteq BookedCalls \ {o}
  <1> USE DEF windowVars, clockVars, beatVars, bookVars, callVars
  <1>1. ASSUME UNCHANGED <<fill, opening>>,
               \A w \in Windows : state'[w] = "open" => state[w] = "open"
        PROVE  Shrink
    BY <1>1 DEF BookedOpen, BookedCalls
  <1>2. ASSUME NEW o \in Opens, OpenCheck(o) PROVE Shrink
    <2>1. PICK f \in Fills : Selectable(f) /\ opening' = [opening EXCEPT ![o] = f]
      BY <1>2 DEF OpenCheck
    <2>2. f \notin Booked
      BY <2>1 DEF Selectable
    <2>3. UNCHANGED <<state, fill>>
      BY <1>2 DEF OpenCheck
    <2> QED BY <2>1, <2>2, <2>3 DEF BookedOpen, BookedCalls, TypeOK
  <1>3. ASSUME NEW o \in Opens, OpenFallBack(o) PROVE Shrink
    BY <1>3 DEF OpenFallBack, BookedOpen, BookedCalls, Booked, TypeOK
  <1>4. ASSUME NEW o \in Opens, NEW w \in Windows, OpenInsert(o, w) PROVE Shrink \/ Insert
    <2>1. /\ opening' = [opening EXCEPT ![o] = "idle"]
          /\ state' = [state EXCEPT ![w] = "open"]
          /\ fill' = [fill EXCEPT ![w] = opening[o]]
      BY <1>4 DEF OpenInsert
    <2>2. CASE opening[o] \in Booked
      <3>1. o \in BookedCalls /\ BookedCalls' \subseteq BookedCalls \ {o}
        BY <2>1, <2>2 DEF BookedCalls, Booked, TypeOK
      <3>2. BookedOpen' \subseteq BookedOpen \cup {w}
        BY <2>1 DEF BookedOpen, TypeOK
      <3> QED BY <3>1, <3>2
    <2>3. CASE opening[o] \notin Booked
      BY <2>1, <2>3 DEF BookedOpen, BookedCalls, Booked, TypeOK
    <2> QED BY <2>2, <2>3
  <1>5. CASE WindowStep
    BY <1>5, <1>1 DEF WindowStep, Beat, CloseUnearned, CloseNoFill, CloseCredit, TypeOK
  <1>6. CASE ClickStep
    BY <1>6, <1>1 DEF ClickStep, ClickRead, ClickInsert
  <1>7. CASE SweepStep
    BY <1>7, <1>1 DEF SweepStep, Sweep, StaleOpen
  <1>8. CASE Crash
    BY <1>8 DEF Crash, Exists, BookedOpen, BookedCalls, Booked
  <1>9. CASE Tick \/ Revoke \/ UNCHANGED vars
    BY <1>9, <1>1 DEF Tick, Revoke, vars
  <1> QED BY <1>2, <1>3, <1>4, <1>5, <1>6, <1>7, <1>8, <1>9 DEF Next, OpenStep

\* A12: once the spend has reached the total budget, no step puts one more
\* booked window or call in flight, however the calls overlap.
THEOREM BudgetAlwaysStops == Spec => BudgetStops
PROOF
  <1>1. ASSUME TypeOK, [Next]_vars, ~BudgetLeft PROVE InFlight' <= InFlight
    <2>1. /\ IsFiniteSet(BookedOpen) /\ IsFiniteSet(BookedCalls)
          /\ Cardinality(BookedOpen) \in Nat /\ Cardinality(BookedCalls) \in Nat
          /\ Cardinality(BookedOpen') \in Nat /\ Cardinality(BookedCalls') \in Nat
      <3>1. /\ BookedOpen \subseteq Windows /\ BookedCalls \subseteq Opens
            /\ BookedOpen' \subseteq Windows /\ BookedCalls' \subseteq Opens
        BY DEF BookedOpen, BookedCalls
      <3> QED BY <3>1, AdWindowAssumption, FiniteSubsets
    <2>2. CASE BookedOpen' \subseteq BookedOpen /\ BookedCalls' \subseteq BookedCalls
      <3>1. /\ Cardinality(BookedOpen') <= Cardinality(BookedOpen)
            /\ Cardinality(BookedCalls') <= Cardinality(BookedCalls)
        BY <2>1, <2>2, FiniteSubsets
      <3> QED BY <2>1, <3>1 DEF InFlight
    <2>3. ASSUME NEW o \in BookedCalls, NEW w \in Windows,
                 /\ BookedOpen' \subseteq BookedOpen \cup {w}
                 /\ BookedCalls' \subseteq BookedCalls \ {o}
          PROVE  InFlight' <= InFlight
      <3>1. Cardinality(BookedOpen') <= Cardinality(BookedOpen) + 1
        BY <2>1, <2>3, GainsOne
      <3>2. Cardinality(BookedCalls') + 1 <= Cardinality(BookedCalls)
        BY <2>1, <2>3, LosesOne
      <3> QED BY <2>1, <3>1, <3>2 DEF InFlight
    <2> QED BY <1>1, <2>2, <2>3, BudgetSteps
  <1>2. TypeOK /\ [Next]_vars => [~BudgetLeft => InFlight' <= InFlight]_vars
    BY <1>1
  <1> QED BY <1>2, TypeCorrect, PTL DEF Spec, BudgetStops

-----------------------------------------------------------------------------
(* The windows implement WindowContract.                                   *)

phaseBar == [w \in Windows |-> PhaseOf(w)]

\* A step of a single window maps to a step of the contract or to none.
LEMMA ContractInit == Init => Contract!Init
PROOF
  BY DEF Init, Contract!Init, PhaseOf

LEMMA ContractStep ==
  DwellInv /\ [Next]_vars => [Contract!Next]_<<phaseBar, hold>>
PROOF
  <1> SUFFICES ASSUME DwellInv, [Next]_vars
               PROVE  Contract!Next \/ UNCHANGED <<phaseBar, hold>>
    BY DEF phaseBar
  <1>0. TypeOK /\ Estimate \in Nat \ {0}
        /\ hold \in [Windows -> Nat]
        /\ \A w \in Windows : hold[w] <= Estimate
    BY OwedBounded, BoundsNat DEF DwellInv, TypeOK, HoldCoversGross, FreshHoldsNothing
  <1> USE DEF windowVars, clockVars, beatVars, bookVars, callVars
  <1>1. ASSUME UNCHANGED <<state, hold>> PROVE UNCHANGED <<phaseBar, hold>>
    BY <1>1 DEF phaseBar, PhaseOf
  <1>2. ASSUME NEW S \in SUBSET Windows,
               \A w \in S : PhaseOf(w) \in {"held", "owed"} /\ PhaseOf(w)' = "ended",
               \A w \in Windows : w \notin S => PhaseOf(w)' = PhaseOf(w),
               hold' = [w \in Windows |-> IF w \in S THEN 0 ELSE hold[w]]
        PROVE  Contract!Next
    BY <1>2 DEF Contract!Next, Contract!End
  <1>2a. ASSUME NEW w \in Windows, PhaseOf(w) = "held", PhaseOf(w)' = "ended",
                \A v \in Windows : v # w => PhaseOf(v)' = PhaseOf(v),
                hold' = [hold EXCEPT ![w] = 0]
         PROVE  Contract!Next
    <2>1. {w} \in SUBSET Windows
      OBVIOUS
    <2>2. hold' = [v \in Windows |-> IF v \in {w} THEN 0 ELSE hold[v]]
      BY <1>0, <1>2a
    <2> QED BY <1>2, <1>2a, <2>1, <2>2
  <1>3. ASSUME NEW o \in Opens, NEW w \in Windows, OpenInsert(o, w) PROVE Contract!Next
    <2>1. /\ phaseBar[w] = "none"
          /\ phaseBar' = [phaseBar EXCEPT ![w] = "held"]
          /\ \E a \in {0, Estimate} : hold' = [hold EXCEPT ![w] = a]
      BY <1>0, <1>3 DEF OpenInsert, phaseBar, PhaseOf, TypeOK
    <2> QED BY <2>1 DEF Contract!Next, Contract!Hold, phaseBar
  <1>4. ASSUME NEW w \in Windows, CloseUnearned(w) \/ CloseNoFill(w) PROVE Contract!Next
    <2>1. /\ PhaseOf(w) = "held" /\ PhaseOf(w)' = "ended"
          /\ \A v \in Windows : v # w => PhaseOf(v)' = PhaseOf(v)
          /\ hold' = [hold EXCEPT ![w] = 0]
      BY <1>0, <1>4 DEF CloseUnearned, CloseNoFill, PhaseOf, TypeOK
    <2> QED BY <1>2a, <2>1
  <1>5. ASSUME NEW w \in Windows, CloseCredit(w) PROVE Contract!Next
    <2> DEFINE owed == IF fill[w] = "house" THEN 0 ELSE Attention(age[w]) * Bid
    <2>1. owed \in 0 .. Estimate
      BY OwedBounded, BoundsNat, <1>0 DEF TypeOK
    <2>2. /\ state[w] = "open"
          /\ state' = [state EXCEPT ![w] = "credited"]
          /\ hold' = [hold EXCEPT ![w] = IF @ > 0 THEN owed ELSE @]
      BY <1>5 DEF CloseCredit
    <2> HIDE DEF owed
    <2>3. hold[w] \in {0, Estimate}
      BY <2>2 DEF DwellInv, HoldCoversGross
    <2>4. CASE hold[w] > 0 /\ owed > 0
      <3>1. hold' = [hold EXCEPT ![w] = owed] /\ owed \in 1 .. hold[w]
        BY <1>0, <2>1, <2>2, <2>3, <2>4
      <3>2. /\ phaseBar[w] = "held"
            /\ phaseBar' = [phaseBar EXCEPT ![w] = "owed"]
        <4>1. state'[w] = "credited" /\ hold'[w] > 0
              /\ \A v \in Windows : v # w => state'[v] = state[v] /\ hold'[v] = hold[v]
          BY <1>0, <2>2, <2>4, <3>1 DEF TypeOK
        <4>2. PhaseOf(w) = "held" /\ PhaseOf(w)' = "owed"
          BY <2>2, <4>1 DEF PhaseOf
        <4>3. \A v \in Windows : v # w => PhaseOf(v)' = PhaseOf(v)
          BY <4>1 DEF PhaseOf
        <4> QED BY <4>2, <4>3 DEF phaseBar
      <3> QED BY <3>1, <3>2 DEF Contract!Next, Contract!Owe, phaseBar
    <2>5. CASE ~(hold[w] > 0 /\ owed > 0)
      <3>1. hold'[w] = 0 /\ hold' = [hold EXCEPT ![w] = 0]
        <4>1. (IF hold[w] > 0 THEN owed ELSE hold[w]) = 0
          BY <1>0, <2>1, <2>3, <2>5
        <4> QED BY <1>0, <2>2, <4>1
      <3>2. state'[w] = "credited"
            /\ \A v \in Windows : v # w => state'[v] = state[v] /\ hold'[v] = hold[v]
        BY <1>0, <2>2 DEF TypeOK
      <3>3. PhaseOf(w) = "held" /\ PhaseOf(w)' = "ended"
        BY <2>2, <3>1, <3>2 DEF PhaseOf
      <3>4. \A v \in Windows : v # w => PhaseOf(v)' = PhaseOf(v)
        BY <3>2 DEF PhaseOf
      <3> QED BY <1>2a, <3>1, <3>3, <3>4
    <2> QED BY <2>4, <2>5
  <1>6. ASSUME NEW S \in SUBSET StaleOpen, Sweep(S) PROVE Contract!Next
    <2>1. /\ S \in SUBSET Windows
          /\ \A w \in S : PhaseOf(w) \in {"held", "owed"} /\ PhaseOf(w)' = "ended"
          /\ \A w \in Windows : w \notin S => PhaseOf(w)' = PhaseOf(w)
          /\ hold' = [w \in Windows |-> IF w \in S THEN 0 ELSE hold[w]]
      BY <1>6 DEF Sweep, StaleOpen, PhaseOf
    <2> QED BY <1>2, <2>1
  <1>7. CASE Crash
    <2> DEFINE S == {w \in Windows : PhaseOf(w) \in {"held", "owed"}}
    <2>1. \A w \in S : PhaseOf(w) \in {"held", "owed"} /\ PhaseOf(w)' = "ended"
      BY <1>7 DEF Crash, Exists, PhaseOf
    <2>2. \A w \in Windows : w \notin S => PhaseOf(w)' = PhaseOf(w) /\ hold[w] = 0
      <3>1. ASSUME NEW w \in Windows, w \notin S PROVE PhaseOf(w)' = PhaseOf(w) /\ hold[w] = 0
        <4>1. CASE state[w] = "none"
          BY <1>7, <4>1 DEF Crash, Exists, PhaseOf, DwellInv, FreshHoldsNothing
        <4>2. CASE state[w] # "none"
          <5>1. state[w] # "open" /\ ~(state[w] = "credited" /\ hold[w] > 0)
            BY <3>1, <4>2 DEF PhaseOf
          <5>2. state'[w] = "lost"
            BY <1>0, <1>7, <4>2 DEF Crash, Exists, TypeOK
          <5>3. hold[w] = 0
            <6>1. state[w] \in {"credited", "abandoned", "void", "lost"} /\ hold[w] \in Nat
              BY <1>0, <4>2, <5>1 DEF TypeOK
            <6> QED BY <5>1, <6>1 DEF DwellInv, HoldCoversGross
          <5> QED BY <4>2, <5>1, <5>2, <5>3 DEF PhaseOf
        <4> QED BY <4>1, <4>2
      <3> QED BY <3>1
    <2>3. hold' = [w \in Windows |-> IF w \in S THEN 0 ELSE hold[w]]
      BY <1>7, <2>2 DEF Crash
    <2> HIDE DEF S
    <2>4. S \in SUBSET Windows
      BY DEF S
    <2> QED BY <1>2, <2>1, <2>2, <2>3, <2>4
  <1>8. CASE Tick \/ Revoke \/ UNCHANGED vars \/ ClickStep
    BY <1>8, <1>1 DEF Tick, Revoke, vars, ClickStep, ClickRead, ClickInsert
  <1>9. ASSUME NEW w \in Windows, NEW active \in BOOLEAN, Beat(w, active)
        PROVE  UNCHANGED <<phaseBar, hold>>
    BY <1>9, <1>1 DEF Beat
  <1>10. ASSUME NEW o \in Opens, OpenCheck(o) \/ OpenFallBack(o)
         PROVE  UNCHANGED <<phaseBar, hold>>
    BY <1>10, <1>1 DEF OpenCheck, OpenFallBack
  <1> QED
    BY <1>3, <1>4, <1>5, <1>6, <1>7, <1>8, <1>9, <1>10
       DEF Next, OpenStep, WindowStep, SweepStep

\* The dwell protocol, with its overlapping calls, sweeps and crashes, keeps
\* what WindowContract promises to the prepaid balance.
THEOREM WindowKeepsContract == Spec => KeepsContract
PROOF
  <1>1. Spec => Contract!Init /\ [][Contract!Next]_<<phaseBar, hold>>
    BY ContractInit, ContractStep, DwellInvariant, PTL DEF Spec
  <1> QED BY <1>1, PTL DEF KeepsContract, Contract!Spec, phaseBar

=============================================================================
