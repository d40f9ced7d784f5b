------------------------ MODULE AnswerCounterProofs ------------------------
(***************************************************************************)
(* Proofs that the round-trip times of count_packet are exact, for every   *)
(* length of the lap and every width of the DNS id that holds it.          *)
(***************************************************************************)
EXTENDS AnswerCounter, TLAPS

\* Cutting to the width of the id changes nothing that fits into it.
LEMMA CutFits ==
    ASSUME NEW m \in Nat, NEW x \in 0 .. m - 1
    PROVE  x % m = x
  OBVIOUS

\* What is left after cutting fits.
LEMMA CutRange ==
    ASSUME NEW m \in Nat \ {0}, NEW x \in Int
    PROVE  x % m \in 0 .. m - 1
  OBVIOUS

\* The receiver computes the true age of an answer younger than a lap.
LEMMA AgeFromId ==
    ASSUME TypeOK, AgesTold, NEW q \in out, age[q] < Lap
    PROVE  getQueryRTT(id[q]) = age[q]
<1>1. now \in 0 .. Lap - 1 /\ id[q] \in 0 .. Lap - 1 /\ age[q] \in 0 .. Lap - 1
  BY LapAssumption DEF TypeOK
<1>2. age[q] \in 0 .. IdRange - 1
  BY <1>1, LapAssumption
<1>3. age[q] % IdRange = age[q]
  BY <1>2, LapAssumption, CutFits
<1>4. age[q] = IF now < id[q] THEN Lap - id[q] + now ELSE now - id[q]
  BY DEF AgesTold
<1> QED
  BY <1>3, <1>4 DEF getQueryRTT

\* Whatever stands in the place of the id, the result is a 16-bit number.
LEMMA RttRange ==
    ASSUME TypeOK, NEW start \in 0 .. IdRange - 1
    PROVE  getQueryRTT(start) \in 0 .. IdRange - 1
<1>1. now \in Int /\ Lap \in Int /\ IdRange \in Nat \ {0}
  BY LapAssumption DEF TypeOK
<1>2. Lap - start + now \in Int /\ now - start \in Int
  BY <1>1
<1>3. (Lap - start + now) % IdRange \in 0 .. IdRange - 1 /\ (now - start) % IdRange \in 0 .. IdRange - 1
  BY <1>1, <1>2, CutRange
<1> QED
  BY <1>3 DEF getQueryRTT

\* The receiver never computes more than the true age of an answer, however old.
LEMMA AgeNotInflated ==
    ASSUME TypeOK, AgesTold, NEW q \in out
    PROVE  getQueryRTT(id[q]) \in Nat /\ getQueryRTT(id[q]) <= age[q]
<1>1. now \in 0 .. Lap - 1 /\ id[q] \in 0 .. Lap - 1 /\ age[q] \in 0 .. Lap
  BY DEF TypeOK
<1>2. CASE age[q] < Lap
  BY <1>1, <1>2, AgeFromId
<1>3. CASE age[q] = Lap
  <2> DEFINE x == IF now < id[q] THEN Lap - id[q] + now ELSE now - id[q]
  <2>1. x \in 0 .. IdRange - 1 /\ x < Lap
    BY <1>1, LapAssumption
  <2>2. x % IdRange = x
    BY <2>1, LapAssumption, CutFits
  <2>3. getQueryRTT(id[q]) = x % IdRange
    BY DEF getQueryRTT
  <2> HIDE DEF x
  <2> QED
    BY <1>3, <2>1, <2>2, <2>3, LapAssumption
<1> QED
  BY <1>1, <1>2, <1>3, LapAssumption

\* A receiver that has counted nothing satisfies the invariant.
LEMMA CounterInit == Init => CounterInv
<1> SUFFICES ASSUME Init PROVE CounterInv
  OBVIOUS
<1>1. rcodes \in [Rcodes -> Nat] /\ rcodes[0] = 0
  BY DEF Init, Rcodes
<1>2. TypeOK
  <2>1. trusted \in BOOLEAN /\ own \in BOOLEAN
    BY DEF Init
  <2> QED
    BY <1>1, <2>1, LapAssumption DEF Init, TypeOK
<1> QED
  BY <1>1, <1>2, LapAssumption
  DEF Init, CounterInv, AgesTold, Fresh, RttExact, RttNeverInflated, MinExactAboveZero, RcodesOfStep

\* count_packet keeps the types.
LEMMA CountTypes ==
    ASSUME TypeOK, NEW start \in 0 .. IdRange - 1, NEW r \in Rcodes, NEW tc \in BOOLEAN,
           CountPacket(start, r, tc)
    PROVE  /\ num_pkgs' \in Nat /\ rtt_total' \in Nat /\ truncated' \in Nat
           /\ rtt_min' \in 0 .. IdRange - 1 /\ rtt_max' \in 0 .. IdRange - 1
           /\ rcodes' \in [Rcodes -> Nat]
           /\ rcodes'[0] <= rcodes[0] + 1 /\ truncated' <= truncated + 1
<1> DEFINE rd == getQueryRTT(start)
<1>1. rd \in 0 .. IdRange - 1
  BY RttRange
<1> HIDE DEF rd
<1>2. rtt_total' = rtt_total + rd /\ rtt_min' = LowerMin(rd) /\ rtt_max' = RaiseMax(rd)
  BY DEF CountPacket, rd
<1>3. rcodes' \in [Rcodes -> Nat] /\ rcodes'[0] <= rcodes[0] + 1
  BY DEF CountPacket, TypeOK, Rcodes
<1> QED
  BY <1>1, <1>2, <1>3, LapAssumption DEF CountPacket, TypeOK, LowerMin, RaiseMax

\* The invariant is preserved by every packet read and every tick.
LEMMA CounterStep == CounterInv /\ [Next]_vars => CounterInv'
<1> SUFFICES ASSUME CounterInv, [Next]_vars PROVE CounterInv'
  OBVIOUS
<1> USE DEF CounterInv
<1>l. Lap \in Nat \ {0} /\ IdRange \in Nat \ {0} /\ Lap <= IdRange
  BY LapAssumption
<1>1. CASE Clear
  <2>1. rcodes' \in [Rcodes -> Nat] /\ rcodes'[0] = 0
    BY <1>1 DEF Clear, TypeOK, Rcodes
  <2>2. trusted' \in BOOLEAN /\ own' \in BOOLEAN
    BY <1>1 DEF Clear
  <2>3. TypeOK'
    BY <1>1, <1>l, <2>1, <2>2 DEF Clear, TypeOK, flight
  <2>4. AgesTold'
    BY <1>1 DEF Clear, AgesTold, flight
  <2> QED
    BY <1>1, <2>1, <2>3, <2>4 DEF Clear, Fresh, RttExact, RttNeverInflated, MinExactAboveZero, RcodesOfStep
<1>2. CASE Tick
  <2>1. TypeOK'
    BY <1>2, <1>l DEF Tick, TypeOK, counter, ghost
  <2>2. AgesTold'
    <3> SUFFICES ASSUME NEW q \in out', age'[q] < Lap
                 PROVE  age'[q] = IF now' < id'[q] THEN Lap - id'[q] + now' ELSE now' - id'[q]
      BY DEF AgesTold
    <3>1. q \in out /\ q \in Queries /\ id'[q] = id[q]
      BY <1>2 DEF Tick, TypeOK
    <3>2. age[q] < Lap /\ age'[q] = age[q] + 1
      BY <1>2, <1>l, <3>1 DEF Tick, TypeOK
    <3>3. age[q] = IF now < id[q] THEN Lap - id[q] + now ELSE now - id[q]
      BY <3>1, <3>2 DEF AgesTold
    <3> QED
      BY <1>2, <1>l, <3>1, <3>2, <3>3 DEF Tick, TypeOK
  <2> QED
    BY <1>2, <2>1, <2>2 DEF Tick, Fresh, RttExact, RttNeverInflated, MinExactAboveZero, RcodesOfStep, counter, ghost
<1>3. ASSUME NEW q \in Queries, Stamp(q) \/ Forget(q) PROVE CounterInv'
  <2>1. TypeOK'
    BY <1>3, <1>l DEF Stamp, Forget, TypeOK, counter, ghost
  <2>2. AgesTold'
    BY <1>3, <1>l DEF Stamp, Forget, TypeOK, AgesTold
  <2> QED
    BY <1>3, <2>1, <2>2
    DEF Stamp, Forget, Fresh, RttExact, RttNeverInflated, MinExactAboveZero, RcodesOfStep, counter, ghost
<1>4. ASSUME NEW q \in Queries, NEW r \in Rcodes, NEW tc \in BOOLEAN, ReceiveAnswer(q, r, tc)
      PROVE  CounterInv'
  <2>1. q \in out /\ id[q] \in 0 .. IdRange - 1 /\ age[q] \in 0 .. Lap
    BY <1>4, <1>l DEF ReceiveAnswer, TypeOK
  <2>2. CountPacket(id[q], r, tc) /\ UNCHANGED <<now, flight>>
    BY <1>4 DEF ReceiveAnswer
  <2>3. num_pkgs' \in Nat /\ rtt_total' \in Nat /\ truncated' \in Nat
        /\ rtt_min' \in 0 .. IdRange - 1 /\ rtt_max' \in 0 .. IdRange - 1
        /\ rcodes' \in [Rcodes -> Nat]
        /\ rcodes'[0] <= rcodes[0] + 1 /\ truncated' <= truncated + 1
    BY <2>1, <2>2, CountTypes
  <2>4. /\ ages' \in [sum: Nat, least: 0 .. Lap, most: 0 .. Lap]
        /\ ages'.sum = ages.sum + age[q]
        /\ ages'.least = IF age[q] < ages.least THEN age[q] ELSE ages.least
        /\ ages'.most = IF age[q] > ages.most THEN age[q] ELSE ages.most
    BY <1>4, <1>l, <2>1 DEF ReceiveAnswer, TypeOK
  <2>5. trusted' \in BOOLEAN /\ own' \in BOOLEAN /\ own' = own
    BY <1>4 DEF ReceiveAnswer, TypeOK
  <2>6. TypeOK'
    BY <2>2, <2>3, <2>4, <2>5 DEF TypeOK, flight
  <2>7. AgesTold'
    BY <2>2 DEF AgesTold, flight
  <2>8. num_pkgs' = num_pkgs + 1
    BY <2>2 DEF CountPacket
  <2>9. ASSUME trusted' PROVE trusted /\ age[q] < Lap /\ getQueryRTT(id[q]) = age[q]
    <3>1. trusted /\ age[q] < Lap
      BY <1>4, <2>9 DEF ReceiveAnswer
    <3> QED
      BY <2>1, <3>1, AgeFromId
  <2>10. ASSUME trusted'
         PROVE  rtt_total' = rtt_total + age[q] /\ rtt_min' = LowerMin(age[q])
                /\ rtt_max' = RaiseMax(age[q])
    BY <2>2, <2>9, <2>10 DEF CountPacket
  <2>11. RttExact'
    BY <2>4, <2>9, <2>10 DEF RttExact, RaiseMax
  <2>i. RttNeverInflated'
    <3> DEFINE rd == getQueryRTT(id[q])
    <3>1. rd \in Nat /\ rd <= age[q]
      BY <2>1, AgeNotInflated
    <3>2. rtt_total' = rtt_total + rd /\ rtt_max' = RaiseMax(rd)
      BY <2>2 DEF CountPacket
    <3> HIDE DEF rd
    <3> SUFFICES ASSUME own' PROVE rtt_total' <= ages'.sum /\ rtt_max' <= ages'.most
      BY DEF RttNeverInflated
    <3>3. rtt_total <= ages.sum /\ rtt_max <= ages.most
      BY <2>5 DEF RttNeverInflated
    <3>4. rtt_total \in Nat /\ rtt_max \in Nat /\ ages.sum \in Nat /\ ages.most \in Nat
      BY <1>l DEF TypeOK
    <3> QED
      BY <2>1, <2>4, <3>1, <3>2, <3>3, <3>4 DEF RaiseMax
  <2>12. MinExactAboveZero'
    <3> SUFFICES ASSUME trusted', ages'.least > 0 PROVE rtt_min' = ages'.least
      BY DEF MinExactAboveZero
    <3>1. rtt_min' = LowerMin(age[q]) /\ trusted /\ age[q] < Lap
      BY <2>9, <2>10
    <3>2. ages.least \in 0 .. Lap /\ num_pkgs \in Nat
      BY DEF TypeOK
    <3>3. age[q] > 0 /\ ages.least > 0
      BY <1>l, <2>1, <2>4, <3>2
    <3>4. CASE num_pkgs = 0
      BY <1>l, <2>1, <2>4, <3>1, <3>4 DEF Fresh, LowerMin
    <3>5. CASE num_pkgs > 0
      BY <1>l, <2>1, <2>4, <3>1, <3>2, <3>3, <3>5 DEF MinExactAboveZero, LowerMin
    <3> QED
      BY <3>2, <3>4, <3>5
  <2>13. Fresh' /\ RcodesOfStep'
    <3>1. rcodes[0] \in Nat /\ rcodes'[0] \in Nat /\ num_pkgs \in Nat /\ truncated \in Nat
      BY <2>3 DEF TypeOK, Rcodes
    <3> QED
      BY <2>3, <2>8, <3>1 DEF Fresh, RcodesOfStep
  <2> QED
    BY <2>6, <2>7, <2>11, <2>i, <2>12, <2>13
<1>5. ASSUME NEW start \in 0 .. IdRange - 1, NEW r \in Rcodes, NEW tc \in BOOLEAN,
             ReceiveForeign(start, r, tc)
      PROVE  CounterInv'
  <2>1. CountPacket(start, r, tc) /\ UNCHANGED <<now, flight, ages>> /\ ~trusted' /\ ~own'
    BY <1>5 DEF ReceiveForeign
  <2>2. num_pkgs' \in Nat /\ rtt_total' \in Nat /\ truncated' \in Nat
        /\ rtt_min' \in 0 .. IdRange - 1 /\ rtt_max' \in 0 .. IdRange - 1
        /\ rcodes' \in [Rcodes -> Nat]
        /\ rcodes'[0] <= rcodes[0] + 1 /\ truncated' <= truncated + 1
    BY <2>1, CountTypes
  <2>3. trusted' \in BOOLEAN /\ own' \in BOOLEAN
    BY <1>5 DEF ReceiveForeign
  <2>4. TypeOK'
    BY <2>1, <2>2, <2>3 DEF TypeOK, flight
  <2>5. AgesTold' /\ RttExact' /\ RttNeverInflated' /\ MinExactAboveZero'
    BY <2>1 DEF AgesTold, RttExact, RttNeverInflated, MinExactAboveZero, flight
  <2>6. num_pkgs' = num_pkgs + 1
    BY <2>1 DEF CountPacket
  <2>7. Fresh' /\ RcodesOfStep'
    <3>1. rcodes[0] \in Nat /\ rcodes'[0] \in Nat /\ num_pkgs \in Nat /\ truncated \in Nat
      BY <2>2 DEF TypeOK, Rcodes
    <3> QED
      BY <2>2, <2>6, <3>1 DEF Fresh, RcodesOfStep
  <2> QED
    BY <2>4, <2>5, <2>7
<1>6. ASSUME UNCHANGED vars PROVE CounterInv'
  BY <1>6 DEF TypeOK, AgesTold, Fresh, RttExact, RttNeverInflated, MinExactAboveZero, RcodesOfStep,
              vars, flight, counter, ghost
<1> QED
  BY <1>1, <1>2, <1>3, <1>4, <1>5, <1>6 DEF Next, ReceiveUnwanted

\* The inductive invariant holds in every state.
THEOREM CounterInvariant == Spec => []CounterInv
  BY CounterInit, CounterStep, PTL DEF Spec

\* For every lap and every width of the id: the sum and the maximum of the round-trip
\* times are exact while only answers younger than a lap are counted (count_packet).
THEOREM RoundTripsAreExact == Spec => []RttExact
<1>1. CounterInv => RttExact
  BY DEF CounterInv
<1> QED
  BY <1>1, CounterInvariant, PTL

\* For every lap: late answers never make the round-trip times too long (getQueryRTT).
THEOREM RoundTripsNotInflated == Spec => []RttNeverInflated
<1>1. CounterInv => RttNeverInflated
  BY DEF CounterInv
<1> QED
  BY <1>1, CounterInvariant, PTL

\* The response codes and truncations printed are of packets of this load step, for
\* any content of the entry that Counter::clear leaves alone.
THEOREM RcodesAreOfStep == Spec => []RcodesOfStep
<1>1. CounterInv => RcodesOfStep
  BY DEF CounterInv
<1> QED
  BY <1>1, CounterInvariant, PTL

\* The minimum is exact as well, unless an answer came within a tick (count_packet).
THEOREM MinimumIsExactAboveZero == Spec => []MinExactAboveZero
<1>1. CounterInv => MinExactAboveZero
  BY DEF CounterInv
<1> QED
  BY <1>1, CounterInvariant, PTL
=============================================================================
