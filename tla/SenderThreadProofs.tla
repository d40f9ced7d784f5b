------------------------- MODULE SenderThreadProofs -------------------------
(***************************************************************************)
(* Proofs that the rate limiter spreads its load evenly, is never ahead of *)
(* the rate and loses no query, for every rate, pool size and runtime, and *)
(* however time passes between its steps.                                  *)
(***************************************************************************)
EXTENDS SenderThread, TLAPS

\* A product of natural numbers is monotone in each factor.
LEMMA MulMono ==
    ASSUME NEW a \in Nat, NEW b \in Nat, NEW c \in Nat, a <= b
    PROVE  a * c <= b * c
OBVIOUS

\* And so is a sum.
LEMMA SumMono ==
    ASSUME NEW a \in Nat, NEW b \in Nat, NEW c \in Nat, NEW d \in Nat, c >= a, d >= b
    PROVE  a + b \in Nat /\ c + d \in Nat /\ a + b <= c + d
OBVIOUS

\* A common positive factor cancels.
LEMMA MulCancel ==
    ASSUME NEW a \in Int, NEW b \in Int, NEW c \in Nat, c > 0, a * c < b * c
    PROVE  a < b
<1> SUFFICES ASSUME b <= a PROVE FALSE
  OBVIOUS
<1>1. (a - b) * c >= 0
  OBVIOUS
<1>2. (a - b) * c = a * c - b * c
  OBVIOUS
<1> QED
  BY <1>1, <1>2

\* The quotient of the integer division.
LEMMA DivBounds ==
    ASSUME NEW n \in Nat, NEW d \in Nat, d > 0
    PROVE  /\ n \div d \in Nat
           /\ (n \div d) * d <= n
           /\ n < ((n \div d) + 1) * d
OBVIOUS

\* One slice of the loop keeps the load even: if the queries left are between a and
\* a + 1 for each slice left, so is the share of this slice, and so are the others.
LEMMA EvenShare ==
    ASSUME NEW a \in Nat, NEW k \in Nat, k > 0, NEW r \in Nat,
           a * k <= r, r <= (a + 1) * k,
           NEW q \in Nat, q = r \div k
    PROVE  /\ q \in {a, a + 1} /\ q <= r
           /\ a * (k - 1) <= r - q /\ r - q <= (a + 1) * (k - 1)
<1>1. q * k <= r /\ r < (q + 1) * k
  BY DivBounds
<1>2. a < q + 1
  <2>1. a * k < (q + 1) * k
    BY <1>1
  <2> QED
    BY <2>1, MulCancel
<1>3. q < a + 2
  <2>1. q * k <= (a + 1) * k
    BY <1>1
  <2>2. (a + 1) * k < (a + 2) * k
    OBVIOUS
  <2>3. q * k < (a + 2) * k
    BY <2>1, <2>2
  <2> QED
    BY <2>3, MulCancel
<1>4. a * (k - 1) = a * k - a /\ (a + 1) * (k - 1) = (a + 1) * k - (a + 1)
  OBVIOUS
<1>5. CASE q = a
  BY <1>1, <1>4, <1>5
<1>6. CASE q = a + 1
  BY <1>1, <1>4, <1>6
<1> QED
  BY <1>2, <1>3, <1>5, <1>6

\* One slice of the loop keeps the thread behind the rate: if the part of the queries
\* left is at least the part of the slices left, it still is after this slice.
LEMMA PacedShare ==
    ASSUME NEW T \in Nat, NEW Q \in Nat, NEW k \in Nat, k > 0, NEW r \in Nat,
           Q * k <= r * T,
           NEW q \in Nat, q = r \div k
    PROVE  q <= r /\ Q * (k - 1) <= (r - q) * T
<1>1. q * k <= r
  BY DivBounds
<1>2. q <= r
  BY <1>1, DivBounds
<1>3. r * (k - 1) <= (r - q) * k
  <2>1. r * (k - 1) = r * k - r /\ (r - q) * k = r * k - q * k
    OBVIOUS
  <2> QED
    BY <2>1, <1>1
<1>4. (r * (k - 1)) * T <= ((r - q) * k) * T
  BY <1>2, <1>3, MulMono
<1>5. (Q * k) * (k - 1) <= (r * T) * (k - 1)
  BY MulMono
<1>6. (Q * (k - 1)) * k <= ((r - q) * T) * k
  <2>1. (Q * k) * (k - 1) = (Q * (k - 1)) * k
    OBVIOUS
  <2>2. (r * T) * (k - 1) = (r * (k - 1)) * T
    OBVIOUS
  <2>3. ((r - q) * k) * T = ((r - q) * T) * k
    OBVIOUS
  <2> QED
    BY <1>4, <1>5, <2>1, <2>2, <2>3
<1> QED
  BY <1>2, <1>6, MulCancel

\* A slice of a tick or more keeps something of it when half a tick is lost.
LEMMA LeastPositive ==
    ASSUME NEW num \in Nat, num > 0, NEW den \in Nat, den <= num, NEW p \in Nat, p > 2
    PROVE  /\ 2 * num * (p - 1) - den * p \in Nat \ {0} /\ 2 * den * p \in Nat
           /\ 2 * num * (p - 1) - den * p <= 2 * num * p
<1>1. den * p <= num * p
  BY MulMono
<1>2. 2 * num * (p - 1) = 2 * (num * p) - 2 * num /\ 2 * num * p = 2 * (num * p)
  OBVIOUS
<1>3. 3 * num <= num * p
  <2>1. 3 <= p
    OBVIOUS
  <2> QED
    BY <2>1, MulMono
<1>4. num * p \in Nat /\ den * p \in Nat /\ 2 * den * p \in Nat
  OBVIOUS
<1> QED
  BY <1>1, <1>2, <1>3, <1>4

\* k ticks that are too long for a slice.
LEMMA LongTick ==
    ASSUME NEW num \in Nat, NEW den \in Nat, NEW p \in Nat, NEW k \in Nat, 0 <= k * den - num
    PROVE  2 * num * (p - 1) - den * p <= k * (2 * den * p)
<1>1. num * p <= (k * den) * p
  BY MulMono
<1>2. 2 * num * (p - 1) = 2 * (num * p) - 2 * num /\ k * (2 * den * p) = 2 * ((k * den) * p)
  OBVIOUS
<1>3. num * p \in Nat /\ (k * den) * p \in Nat /\ den * p \in Nat
  OBVIOUS
<1> QED
  BY <1>1, <1>2, <1>3

\* k ticks that are too short for a slice, but are the nearest to one.
LEMMA ShortTick ==
    ASSUME NEW num \in Nat, NEW den \in Nat, NEW p \in Nat, NEW k \in Nat,
           2 * p * (num - k * den) <= p * den + 2 * num
    PROVE  2 * num * (p - 1) - den * p <= k * (2 * den * p)
<1>1. /\ 2 * num * (p - 1) = 2 * (num * p) - 2 * num
      /\ k * (2 * den * p) = 2 * ((k * den) * p)
      /\ 2 * p * (num - k * den) = 2 * (num * p) - 2 * ((k * den) * p)
      /\ p * den = den * p
  OBVIOUS
<1>2. num * p \in Nat /\ (k * den) * p \in Nat /\ den * p \in Nat
  OBVIOUS
<1> QED
  BY <1>1, <1>2

\* n slices of at least l / d, of n + 1 that would not fit into e, leave less than e
\* by no more than the haste h / (n * l).
LEMMA HasteBound ==
    ASSUME NEW n \in Nat, n > 0, NEW l \in Nat, l > 0, NEW d \in Nat, NEW c \in Nat,
           NEW e \in Nat, NEW h \in Nat, n * l <= c * d, d * e < h
    PROVE  e * (n * l) < c * h
<1>1. (n * l) * e <= (c * d) * e
  BY MulMono
<1>2. c > 0
  <2>1. n * l > 0
    OBVIOUS
  <2>2. CASE c = 0
    BY <2>1, <2>2
  <2> QED
    BY <2>2
<1>3. c * (d * e) < c * h
  <2>1. c * (h - d * e) > 0
    BY <1>2
  <2>2. c * (h - d * e) = c * h - c * (d * e)
    OBVIOUS
  <2> QED
    BY <2>1, <2>2
<1>4. (n * l) * e = e * (n * l) /\ (c * d) * e = c * (d * e)
  OBVIOUS
<1>5. e * (n * l) \in Int /\ c * (d * e) \in Int /\ c * h \in Int
  OBVIOUS
<1> QED
  BY <1>1, <1>3, <1>4, <1>5

\* x of q queries are sent in the first z + 1 of n slices; the first z are over.
LEMMA AheadBound ==
    ASSUME NEW x \in Nat, NEW q \in Nat, NEW z0 \in Nat, NEW n \in Nat, NEW l \in Nat,
           NEW num \in Nat, NEW den \in Nat, NEW d \in Nat, NEW c \in Nat,
           NEW e \in Nat, NEW h \in Nat,
           x * n <= q * (z0 + 1), z0 * l <= c * d, d * e <= h, l * den <= num * d
    PROVE  x * e * (n * l) * den <= q * h * (c * den + num)
<1> DEFINE f == l * e * den
<1>1. (x * n) * f <= (q * (z0 + 1)) * f
  BY MulMono
<1>2. (z0 + 1) * f <= h * (c * den + num)
  <2>1. (z0 * l) * (e * den) <= (c * d) * (e * den)
    BY MulMono
  <2>2. (d * e) * (c * den + num) <= h * (c * den + num)
    BY MulMono
  <2>3. (l * den) * e <= (num * d) * e
    BY MulMono
  <2>4. (z0 + 1) * f = (z0 * l) * (e * den) + (l * den) * e
    OBVIOUS
  <2>5. (d * e) * (c * den + num) = (c * d) * (e * den) + (num * d) * e
    OBVIOUS
  <2>6. /\ (z0 * l) * (e * den) \in Int /\ (l * den) * e \in Int /\ (c * d) * (e * den) \in Int
        /\ (num * d) * e \in Int /\ h * (c * den + num) \in Int
    OBVIOUS
  <2> HIDE DEF f
  <2> QED
    BY <2>1, <2>2, <2>3, <2>4, <2>5, <2>6
<1>3. ((z0 + 1) * f) * q <= (h * (c * den + num)) * q
  BY <1>2, MulMono
<1>4. /\ (x * n) * f = x * e * (n * l) * den
      /\ (q * (z0 + 1)) * f = ((z0 + 1) * f) * q
      /\ (h * (c * den + num)) * q = q * h * (c * den + num)
  OBVIOUS
<1>5. /\ (x * n) * f \in Int /\ (q * (z0 + 1)) * f \in Int
      /\ (h * (c * den + num)) * q \in Int
  OBVIOUS
<1> HIDE DEF f
<1> QED
  BY <1>1, <1>3, <1>4, <1>5

-----------------------------------------------------------------------------

\* The quantities derived from the configuration are natural numbers, and a slice has
\* a tick or more.
LEMMA Derived ==
    ASSUME TypeOK
    PROVE  /\ SliceNum \in Nat \ {0} /\ SliceDen \in Nat /\ (rate > 0 => SliceDen > 0)
           /\ LeastNum \in Nat \ {0} /\ LeastDen \in Nat /\ LeastNum <= 2 * SliceNum * Precision
           /\ End \in Nat /\ Queries \in Nat
           /\ (total > 0 => Queries \div total \in Nat)
<1>1. SliceNum \in Nat \ {0} /\ SliceDen \in Nat /\ (rate > 0 => SliceDen > 0)
  BY GrainAssumption DEF TypeOK, SliceNum, SliceDen
<1>2. SliceDen <= SliceNum
  <2>1. CASE Shortest
    BY <2>1, GrainAssumption DEF SliceNum, SliceDen
  <2>2. CASE ~Shortest
    <3>1. rate <= threads * SlicesPerSecond
      BY <2>2, GrainAssumption DEF Shortest, TypeOK
    <3>2. threads * SlicesPerSecond <= threads * TicksPerSecond
      BY GrainAssumption DEF TypeOK
    <3> QED
      BY <2>2, <3>1, <3>2, GrainAssumption DEF SliceNum, SliceDen, TypeOK
  <2> QED
    BY <2>1, <2>2
<1>3. /\ LeastNum \in Nat \ {0} /\ LeastDen \in Nat
      /\ LeastNum <= 2 * SliceNum * Precision
  BY <1>1, <1>2, LeastPositive, GrainAssumption DEF LeastNum, LeastDen
<1>4. End \in Nat
  BY GrainAssumption, TimeAssumption DEF End
<1>5. Queries \in Nat
  BY TimeAssumption DEF TypeOK, Queries
<1>6. total > 0 => Queries \div total \in Nat
  BY <1>5, DivBounds DEF TypeOK
<1> QED
  BY <1>1, <1>3, <1>4, <1>5, <1>6

\* What an addition of the slice adds to next_timeslice is no less than the least slice.
LEMMA TickBound ==
    ASSUME TypeOK, NEW k \in TicksOfSlice
    PROVE  k \in Nat /\ LeastNum <= k * LeastDen
<1>1. /\ SliceNum \in Nat /\ SliceDen \in Nat /\ Precision \in Nat
  BY Derived, GrainAssumption
<1>2. k \in Nat
  BY <1>1 DEF TicksOfSlice
<1>3. PICK d \in {k * SliceDen - SliceNum, SliceNum - k * SliceDen} :
          0 <= d /\ 2 * Precision * d <= Precision * SliceDen + 2 * SliceNum
  BY DEF TicksOfSlice
<1>4. CASE d = k * SliceDen - SliceNum
  BY <1>1, <1>2, <1>3, <1>4, LongTick DEF LeastNum, LeastDen
<1>5. CASE d = SliceNum - k * SliceDen
  BY <1>1, <1>2, <1>3, <1>5, ShortTick DEF LeastNum, LeastDen
<1> QED
  BY <1>2, <1>3, <1>4, <1>5

\* Time that passes keeps the slices that are over so.
LEMMA AfterLater ==
    ASSUME LoopInv, NEW n \in Nat, NEW t \in Nat, NEW u \in Nat, t <= u, After(n, t)
    PROVE  After(n, u)
<1>1. LeastNum \in Nat /\ LeastDen \in Nat
  BY Derived DEF LoopInv
<1>2. t * LeastDen <= u * LeastDen
  BY <1>1, MulMono
<1>3. n * LeastNum \in Int /\ t * LeastDen \in Int /\ u * LeastDen \in Int
  BY <1>1
<1> QED
  BY <1>2, <1>3 DEF After

\* A thread that has not been configured satisfies the invariant.
LEMMA LoopInit == Init => LoopInv
<1> SUFFICES ASSUME Init PROVE LoopInv
  OBVIOUS
<1>b. stop \in BOOLEAN /\ broke \in BOOLEAN
  BY DEF Init
<1>1. TypeOK
  BY <1>b, RateAssumption DEF Init, TypeOK, PCs, Active, Limited
<1>2. Configured /\ Accounting /\ Pacing /\ Shares
  BY DEF Init, Limited, Configured, now, Accounting, Pacing, Shares
<1> QED
  BY <1>1, <1>2 DEF LoopInv

\* A step that leaves the configuration alone keeps what is derived from it.
LEMMA SameDerived ==
    ASSUME UNCHANGED parameters
    PROVE  UNCHANGED <<SliceNum, SliceDen, LeastNum, LeastDen, End, Queries>>
BY DEF parameters, SliceNum, SliceDen, Shortest, LeastNum, LeastDen, End, Queries

\* Waiting, checking, stop requests and the passing of time do not touch the loop.
LEMMA WaitStep ==
    ASSUME LoopInv, WaitOn \/ EndWait \/ RequestStop \/ Tick \/ SetClock \/ UNCHANGED vars
    PROVE  LoopInv'
<1>1. /\ UNCHANGED <<parameters, loopVars, sent, broke>>
      /\ pc' = pc \/ (pc = "timeout" /\ pc' = "done")
      /\ \/ UNCHANGED <<clock, offset, ahead>>
         \/ clock' = clock + 1 /\ UNCHANGED <<offset, ahead>> /\ pc \in Active
         \/ /\ clock' = clock /\ pc \in Active
            /\ ahead' = IF offset' > ahead THEN offset' ELSE ahead
  BY DEF WaitOn, EndWait, RequestStop, Tick, SetClock, vars, timeVars
<1>2. TypeOK'
  <2>1. CASE WaitOn
    BY <2>1 DEF LoopInv, TypeOK, WaitOn, now, parameters, loopVars, timeVars
  <2>2. CASE EndWait
    BY <2>2 DEF LoopInv, TypeOK, EndWait, parameters, loopVars, timeVars, PCs
  <2>3. CASE RequestStop
    BY <2>3 DEF LoopInv, TypeOK, RequestStop, parameters, loopVars, timeVars
  <2>4. CASE Tick
    BY <2>4 DEF LoopInv, TypeOK, Tick, parameters, loopVars
  <2>5. CASE SetClock
    <3>1. PICK d \in Jumps : offset' \in {offset - d, offset + d}
      BY <2>5 DEF SetClock
    <3>2. d \in Nat
      BY JumpAssumption
    <3>3. offset' \in Int /\ ahead' \in Nat /\ jumps' \in Nat
      BY <2>5, <3>1, <3>2 DEF SetClock, LoopInv, TypeOK
    <3> QED
      BY <2>5, <3>3 DEF LoopInv, TypeOK, SetClock, parameters, loopVars
  <2>6. CASE UNCHANGED vars
    BY <2>6 DEF LoopInv, TypeOK, vars, parameters, loopVars, timeVars
  <2> QED
    BY <2>1, <2>2, <2>3, <2>4, <2>5, <2>6
<1>3. UNCHANGED <<SliceNum, SliceDen, LeastNum, LeastDen, End, Queries>>
  BY <1>1, SameDerived
<1>4. Configured'
  BY <1>1, <1>3 DEF LoopInv, Configured, now, parameters, loopVars, Active, Limited
<1>5. Accounting'
  BY <1>1, <1>3 DEF LoopInv, Accounting, parameters, loopVars
<1>6. Pacing'
  <2>1. ahead' >= ahead /\ clock' >= clock /\ offset' <= ahead'
    BY <1>1, <1>2 DEF LoopInv, TypeOK, Pacing
  <2>2. total > 0 => After(z, clock' + ahead')
    <3>1. /\ clock + ahead \in Nat /\ clock' + ahead' \in Nat /\ clock + ahead <= clock' + ahead'
          /\ z \in Nat
      <4>1. clock \in Nat /\ ahead \in Nat /\ z \in Nat
        BY DEF LoopInv, TypeOK
      <4>2. clock' \in Nat /\ ahead' \in Nat
        BY <1>2 DEF TypeOK
      <4> QED
        BY <2>1, <4>1, <4>2, SumMono
    <3> QED
      BY <3>1, AfterLater DEF LoopInv, Pacing
  <2> QED
    BY <1>1, <1>3, <2>1, <2>2 DEF LoopInv, Pacing, After, loopVars
<1>7. Shares'
  BY <1>1, <1>3 DEF LoopInv, Shares, FairRest, loopVars
<1> QED
  BY <1>2, <1>4, <1>5, <1>6, <1>7 DEF LoopInv

\* The unlimited loop has no slices to keep even.
LEMMA FreeStep ==
    ASSUME LoopInv, StartFree \/ FreeOn \/ FreeBreak
    PROVE  LoopInv'
<1>1. /\ UNCHANGED <<parameters, loopVars, timeVars>> /\ total = 0
      /\ pc' \in {"free", "timeout"} /\ (rate > 0 <=> queryrate > 0)
      /\ pc = "free" \/ queryrate = 0
  BY DEF StartFree, FreeOn, FreeBreak, EnterTimeout, LoopInv, Configured
<1>2. TypeOK'
  <2> USE BoundAssumption DEF LoopInv, TypeOK, now, parameters, loopVars, timeVars, PCs, Active, Limited
  <2>1. CASE StartFree
    BY <2>1 DEF StartFree
  <2>2. CASE FreeOn
    BY <2>2 DEF FreeOn, Saturate
  <2>3. CASE FreeBreak
    BY <2>3 DEF FreeBreak, EnterTimeout, Saturate
  <2> QED
    BY <2>1, <2>2, <2>3
<1>3. rate = 0 /\ queryrate = 0
  BY <1>1 DEF LoopInv, Configured, TypeOK
<1> QED
  BY <1>1, <1>2, <1>3 DEF LoopInv, Configured, Accounting, Pacing, Shares, Limited,
     parameters, loopVars, timeVars

\* Main's division of the rate never gives a limited thread a rate of zero.
LEMMA ConfigureStep ==
    ASSUME LoopInv, Configure \/ Reject
    PROVE  LoopInv'
<1>1. rate \div threads \in Nat /\ (rate \div threads) * threads <= rate
  BY DivBounds DEF LoopInv, TypeOK
<1>z. rate = 0 => rate \div threads = 0
  BY <1>1 DEF LoopInv, TypeOK
<1>2. ASSUME Configure, rate > 0 PROVE rate \div threads > 0
  <2>2. threads < rate + 1
    BY <1>2 DEF Configure, Accepted, LoopInv, TypeOK
  <2>3. rate < ((rate \div threads) + 1) * threads
    BY DivBounds DEF LoopInv, TypeOK
  <2>4. CASE rate \div threads = 0
    BY <2>2, <2>3, <2>4 DEF LoopInv, TypeOK
  <2> QED
    BY <1>1, <2>4
<1>3. TypeOK'
  BY <1>1 DEF LoopInv, TypeOK, Configure, Reject, loopVars, timeVars, PCs, Active, Limited
<1>4. pc' \in {"start", "rejected"} /\ UNCHANGED <<rate, timeVars, total, z>>
      /\ total = 0 /\ z = 0 /\ now = 0
  BY DEF Configure, Reject, loopVars, LoopInv, Configured
<1>5. Configured'
  BY <1>1, <1>2, <1>z, <1>4 DEF LoopInv, TypeOK, Configured, now, timeVars, Limited, Configure, Reject
<1> QED
  BY <1>3, <1>4, <1>5 DEF LoopInv, Accounting, Pacing, Shares, timeVars

\* Before the first slice all queries are left for all slices.
LEMMA WholeLoad ==
    ASSUME NEW Q \in Nat, NEW T \in Nat, T > 0
    PROVE  /\ T - 0 = T /\ (Q \div T) * T <= Q /\ Q <= ((Q \div T) + 1) * T
           /\ Q * T <= Q * T /\ 0 * T <= Q * (0 + 1)
<1>1. (Q \div T) * T <= Q /\ Q <= ((Q \div T) + 1) * T
  BY DivBounds
<1> QED
  BY <1>1

\* The preamble of the loop: all queries and all slices are left.
LEMMA StartStep ==
    ASSUME LoopInv, StartLimited
    PROVE  LoopInv'
<1>1. /\ UNCHANGED <<parameters, quota, i, timeVars, free, waitFrom, stop, broke>>
      /\ pc' = "slice" /\ sent' = 0 /\ rest' = Queries /\ z' = 0 /\ next' = 0 /\ checked' = 0
      /\ now = 0 /\ queryrate > 0
  BY DEF StartLimited, LoopInv, Configured
<1>2. UNCHANGED <<SliceNum, SliceDen, LeastNum, LeastDen, End, Queries>>
  BY <1>1, SameDerived
<1>3. End \in Nat /\ Queries \in Nat /\ LeastNum \in Nat /\ LeastDen \in Nat
  BY Derived DEF LoopInv
<1>4. /\ total' \in Nat /\ total' > 0
      /\ End * SliceDen * Precision < (total' + 1) * SliceNum * (Precision + 1)
  BY <1>3 DEF StartLimited, TotalTimeslices
<1>5. TypeOK'
  BY <1>1, <1>3, <1>4 DEF LoopInv, TypeOK, parameters, timeVars, PCs, Active, Limited
<1>6. rate > 0
  BY <1>1 DEF LoopInv, Configured, StartLimited
<1>7. Configured'
  BY <1>1, <1>2, <1>4, <1>6 DEF Configured, parameters
<1>8. Accounting'
  BY <1>1, <1>2, <1>3 DEF Accounting
<1>9. Pacing'
  <2>1. After(0, 0) /\ After(0, clock + ahead)
    BY <1>3 DEF After, LoopInv, TypeOK
  <2> QED
    BY <1>1, <1>2, <2>1 DEF Pacing, After, LoopInv, timeVars
<1>10. Shares'
  <2>1. z' = 0 /\ rest' = Queries /\ sent' = 0 /\ pc' = "slice"
    BY <1>1
  <2>2. Queries \in Nat /\ total' \in Nat /\ total' > 0
    BY <1>3, <1>4
  <2>3. /\ total' - 0 = total' /\ (Queries \div total') * total' <= Queries
        /\ Queries <= ((Queries \div total') + 1) * total'
        /\ Queries * total' <= Queries * total' /\ 0 * total' <= Queries * (0 + 1)
    BY <2>2, WholeLoad, Zenon
  <2>4. FairRest(rest, total - z)'
    BY <1>2, <2>1, <2>3, Zenon DEF FairRest
  <2>5. sent' * total' <= Queries * (z' + 1)
    BY <2>1, <2>3, Zenon
  <2> QED
    BY <1>2, <2>1, <2>4, <2>5, Zenon DEF Shares
<1> QED
  BY <1>5, <1>7, <1>8, <1>9, <1>10 DEF LoopInv

\* The head of a slice computes its share; nothing is sent yet.
LEMMA BeginStep ==
    ASSUME LoopInv, BeginSlice
    PROVE  LoopInv'
<1>1. /\ UNCHANGED <<parameters, total, z, rest, sent, timeVars, checked, free, waitFrom, stop, broke>>
      /\ pc = "slice" /\ pc' = "send" /\ z < total /\ i' = 0
      /\ \E k \in TicksOfSlice : next' = next + k
  BY DEF BeginSlice
<1>2. UNCHANGED <<SliceNum, SliceDen, LeastNum, LeastDen, End, Queries>>
  BY <1>1, SameDerived
<1>3. /\ LeastNum \in Nat /\ LeastDen \in Nat /\ End \in Nat /\ Queries \in Nat
      /\ next \in Nat
  BY Derived DEF LoopInv, TypeOK
<1>k. PICK k \in Nat : next' = next + k /\ LeastNum <= k * LeastDen
  BY <1>1, TickBound DEF LoopInv
<1>4. z \in Nat /\ total \in Nat /\ rest \in Nat /\ total - z \in Nat /\ total - z > 0
  BY <1>1 DEF LoopInv, TypeOK
<1>5. quota' = rest \div (total - z)
  <2>1. CASE total - z = 1
    <3>1. rest \div 1 = rest
      BY <1>4
    <3> QED
      BY <2>1, <3>1 DEF BeginSlice
  <2>2. CASE total - z # 1
    BY <2>2 DEF BeginSlice
  <2> QED
    BY <2>1, <2>2
<1>6. quota' \in Nat
  BY <1>4, <1>5, DivBounds
<1>7. TypeOK'
  BY <1>1, <1>k, <1>3, <1>6 DEF LoopInv, TypeOK, parameters, timeVars, PCs, Active, Limited
<1>8. Configured'
  BY <1>1, <1>2 DEF LoopInv, Configured, Limited, parameters
<1>9. Accounting'
  BY <1>1, <1>2, <1>3, <1>4 DEF LoopInv, Accounting, TypeOK
<1>10. Pacing'
  <2>1. After(z, next)
    BY <1>1 DEF LoopInv, Pacing
  <2>2. After(z + 1, next + k)
    <3>1. /\ (z + 1) * LeastNum = z * LeastNum + LeastNum
          /\ (next + k) * LeastDen = next * LeastDen + k * LeastDen
      BY <1>3, <1>4
    <3>2. z * LeastNum \in Int /\ next * LeastDen \in Int /\ k * LeastDen \in Int
      BY <1>3, <1>4
    <3> QED
      BY <1>3, <1>k, <2>1, <3>1, <3>2 DEF After
  <2> QED
    BY <1>1, <1>k, <1>2, <2>2 DEF LoopInv, Pacing, After, timeVars
<1>11. Shares'
  BY <1>1, <1>2, <1>5 DEF LoopInv, Shares, FairRest
<1> QED
  BY <1>7, <1>8, <1>9, <1>10, <1>11 DEF LoopInv

\* What the share of a slice leaves for the others, and how much the slice may send.
LEMMA ShareLeft ==
    ASSUME LoopInv, pc = "send"
    PROVE  /\ quota <= rest /\ quota \in {Queries \div total, (Queries \div total) + 1}
           /\ FairRest(rest - quota, total - z - 1)
           /\ (sent + quota - i) * total <= Queries * (z + 1)
<1>1. /\ total \in Nat /\ total > 0 /\ z \in Nat /\ z < total /\ rest \in Nat /\ quota \in Nat
      /\ Queries \in Nat /\ Queries \div total \in Nat /\ sent \in Nat /\ i \in Nat
      /\ total - z \in Nat /\ total - z > 0
  BY Derived DEF LoopInv, TypeOK, Configured, Pacing, Limited
<1>2. quota = rest \div (total - z) /\ FairRest(rest, total - z)
  BY DEF LoopInv, Shares
<1>3. /\ quota \in {Queries \div total, (Queries \div total) + 1} /\ quota <= rest
      /\ (Queries \div total) * (total - z - 1) <= rest - quota
      /\ rest - quota <= ((Queries \div total) + 1) * (total - z - 1)
  BY <1>1, <1>2, EvenShare DEF FairRest
<1>4. Queries * (total - z - 1) <= (rest - quota) * total
  BY <1>1, <1>2, PacedShare DEF FairRest
<1>5. sent + rest = Queries + i
  BY DEF LoopInv, Accounting
<1>6. (sent + quota - i) * total <= Queries * (z + 1)
  <2>1. sent + quota - i = Queries - (rest - quota)
    BY <1>1, <1>5
  <2>2. (Queries - (rest - quota)) * total = Queries * total - (rest - quota) * total
    BY <1>1
  <2>3. Queries * total - Queries * (total - z - 1) = Queries * (z + 1)
    BY <1>1
  <2>4. /\ Queries * total \in Int /\ (rest - quota) * total \in Int
        /\ Queries * (total - z - 1) \in Int /\ Queries * (z + 1) \in Int
    BY <1>1
  <2> QED
    BY <1>4, <2>1, <2>2, <2>3, <2>4
<1> QED
  BY <1>3, <1>4, <1>6 DEF FairRest

\* One more query of the slice, never more than its share.
LEMMA SendStep ==
    ASSUME LoopInv, SendPacket
    PROVE  LoopInv'
<1>1. /\ UNCHANGED <<parameters, total, z, rest, quota, next, pc, timeVars, checked, free,
                     waitFrom, stop, broke>>
      /\ pc = "send" /\ i < quota /\ i' = i + 1 /\ sent' = sent + 1
  BY DEF SendPacket
<1>2. UNCHANGED <<SliceNum, SliceDen, LeastNum, LeastDen, End, Queries>>
  BY <1>1, SameDerived
<1>3. /\ sent \in Nat /\ i \in Nat /\ quota \in Nat /\ total \in Nat /\ z \in Nat
      /\ rest \in Nat /\ Queries \in Nat
  BY Derived DEF LoopInv, TypeOK
<1>4. TypeOK'
  BY <1>1 DEF LoopInv, TypeOK, parameters, timeVars
<1>5. Configured'
  BY <1>1, <1>2 DEF LoopInv, Configured, Limited, parameters
<1>6. Accounting'
  BY <1>1, <1>2, <1>3 DEF LoopInv, Accounting
<1>7. Pacing'
  BY <1>1, <1>2 DEF LoopInv, Pacing, After, timeVars
<1>8. (sent + 1) * total <= Queries * (z + 1)
  <2>1. sent + 1 <= sent + quota - i /\ sent + quota - i \in Nat
    BY <1>1, <1>3
  <2>2. (sent + 1) * total <= (sent + quota - i) * total
    BY <1>3, <2>1, MulMono
  <2>3. (sent + quota - i) * total <= Queries * (z + 1)
    BY <1>1, ShareLeft
  <2> QED
    BY <1>3, <2>1, <2>2, <2>3
<1>9. Shares'
  BY <1>1, <1>2, <1>8, Zenon DEF LoopInv, Shares, FairRest
<1> QED
  BY <1>4, <1>5, <1>6, <1>7, <1>9 DEF LoopInv

\* The share of the slice has been sent and is taken off what is left.
LEMMA SliceSentStep ==
    ASSUME LoopInv, SliceSent
    PROVE  LoopInv'
<1>1. /\ UNCHANGED <<parameters, total, z, quota, i, next, sent, timeVars, checked, free,
                     waitFrom, stop, broke>>
      /\ pc = "send" /\ i = quota /\ pc' = "pace" /\ rest' = rest - quota
  BY DEF SliceSent
<1>2. UNCHANGED <<SliceNum, SliceDen, LeastNum, LeastDen, End, Queries>>
  BY <1>1, SameDerived
<1>3. sent \in Nat /\ i \in Nat /\ quota \in Nat /\ rest \in Nat /\ Queries \in Nat
  BY Derived DEF LoopInv, TypeOK
<1>4. quota <= rest /\ FairRest(rest - quota, total - z - 1)
  BY <1>1, ShareLeft
<1>5. rest - quota \in Nat
  BY <1>3, <1>4
<1>6. TypeOK'
  BY <1>1, <1>5 DEF LoopInv, TypeOK, parameters, timeVars, PCs, Active, Limited
<1>7. Configured'
  BY <1>1, <1>2 DEF LoopInv, Configured, Limited, parameters
<1>8. Accounting'
  <2>1. sent + rest = Queries + i
    BY <1>1 DEF LoopInv, Accounting
  <2>2. sent + (rest - quota) = Queries
    BY <1>1, <1>3, <2>1
  <2> QED
    BY <1>1, <1>2, <2>2, Zenon DEF Accounting
<1>9. Pacing'
  BY <1>1, <1>2 DEF LoopInv, Pacing, After, timeVars
<1>10. Shares'
  BY <1>1, <1>2, <1>4, Zenon DEF LoopInv, Shares, FairRest
<1> QED
  BY <1>6, <1>7, <1>8, <1>9, <1>10 DEF LoopInv

\* The next slice begins, and its time has come.
LEMMA PaceStep ==
    ASSUME LoopInv, PaceOn \/ CheckOn
    PROVE  LoopInv'
<1>1. /\ UNCHANGED <<parameters, total, rest, quota, i, next, sent, timeVars, free, waitFrom,
                     stop, broke>>
      /\ pc = "pace" /\ now >= next /\ pc' = "slice" /\ z' = z + 1
      /\ checked' \in {checked, now}
  BY DEF PaceOn, CheckOn
<1>2. UNCHANGED <<SliceNum, SliceDen, LeastNum, LeastDen, End, Queries>>
  BY <1>1, SameDerived
<1>3. /\ total \in Nat /\ z \in Nat /\ z < total /\ Queries \in Nat /\ sent \in Nat
      /\ clock \in Nat /\ next \in Nat
      /\ now \in Int /\ now <= clock + ahead /\ ahead \in Nat
  BY <1>1, Derived DEF LoopInv, TypeOK, Pacing, now
<1>4. TypeOK'
  BY <1>1, <1>3 DEF LoopInv, TypeOK, parameters, timeVars, PCs, Active, Limited
<1>5. Configured'
  BY <1>1, <1>2 DEF LoopInv, Configured, Limited, parameters
<1>6. Accounting'
  BY <1>1, <1>2, Zenon DEF LoopInv, Accounting
<1>7. Pacing'
  <2>1. After(z + 1, next)
    BY <1>1 DEF LoopInv, Pacing
  <2>2. next <= clock + ahead /\ clock + ahead \in Nat /\ z + 1 \in Nat
    BY <1>1, <1>3
  <2>3. After(z + 1, clock + ahead)
    BY <1>3, <2>1, <2>2, AfterLater
  <2> QED
    BY <1>1, <1>2, <2>1, <2>3, Zenon DEF LoopInv, Pacing, After, timeVars
<1>8. Shares'
  <2>1. sent * total <= Queries * ((z + 1) + 1)
    <3>1. sent * total <= Queries * (z + 1)
      BY <1>3 DEF LoopInv, Shares
    <3>2. Queries * (z + 1) <= Queries * ((z + 1) + 1)
      BY <1>3
    <3>3. sent * total \in Int /\ Queries * (z + 1) \in Int /\ Queries * ((z + 1) + 1) \in Int
      BY <1>3
    <3> QED
      BY <3>1, <3>2, <3>3
  <2>2. total - (z + 1) = total - z - 1
    BY <1>3
  <2> QED
    BY <1>1, <1>2, <2>1, <2>2, Zenon DEF LoopInv, Shares, FairRest
<1> QED
  BY <1>4, <1>5, <1>6, <1>7, <1>8 DEF LoopInv

\* The loop is left: broken off, or with nothing left to send.
LEMMA LeaveStep ==
    ASSUME LoopInv, CheckBreak \/ EndSlices
    PROVE  LoopInv'
<1>1. /\ UNCHANGED <<parameters, loopVars, sent, timeVars, free, stop>>
      /\ pc' = "timeout" /\ pc \in Limited /\ waitFrom' = now /\ checked' = now
      /\ \/ broke' = TRUE
         \/ broke' = broke /\ pc = "slice" /\ z = total
  BY DEF CheckBreak, EndSlices, EnterTimeout, Limited
<1>2. UNCHANGED <<SliceNum, SliceDen, LeastNum, LeastDen, End, Queries>>
  BY <1>1, SameDerived
<1>3. TypeOK'
  <2>1. broke' \in BOOLEAN
    BY <1>1 DEF LoopInv, TypeOK
  <2> QED
    BY <1>1, <2>1 DEF LoopInv, TypeOK, now, parameters, loopVars, timeVars, PCs, Active, Limited
<1>4. Configured'
  BY <1>1, <1>2 DEF LoopInv, Configured, Limited, parameters, loopVars
<1>5. Accounting'
  <2>1. ASSUME pc = "slice", z = total PROVE sent = Queries
    <3>1. total - z = 0 /\ Queries \div total \in Nat /\ rest \in Nat /\ sent \in Nat /\ Queries \in Nat
      BY <1>1, <2>1, Derived DEF LoopInv, TypeOK, Configured, Limited
    <3>2. rest <= ((Queries \div total) + 1) * 0
      BY <2>1, <3>1 DEF LoopInv, Shares, FairRest
    <3>3. ((Queries \div total) + 1) * 0 = 0
      BY <3>1
    <3>4. rest = 0
      BY <3>1, <3>2, <3>3
    <3>5. sent + rest = Queries
      BY <2>1 DEF LoopInv, Accounting
    <3> QED
      BY <3>1, <3>4, <3>5
  <2> QED
    BY <1>1, <1>2, <2>1 DEF Accounting, loopVars
<1>6. Pacing'
  BY <1>1, <1>2, Zenon DEF LoopInv, Pacing, After, loopVars, timeVars
<1>7. Shares'
  BY <1>1, <1>2, Zenon DEF LoopInv, Shares, loopVars
<1> QED
  BY <1>3, <1>4, <1>5, <1>6, <1>7 DEF LoopInv

\* The inductive invariant holds in every state of a sender thread.
THEOREM LoopInvariant == Spec => []LoopInv
<1>1. LoopInv /\ [Next]_vars => LoopInv'
  BY WaitStep, FreeStep, ConfigureStep, StartStep, BeginStep, SendStep, SliceSentStep,
     PaceStep, LeaveStep DEF Next, ThreadNext, Ended
<1> QED
  BY <1>1, LoopInit, PTL DEF Spec

\* The shares of the time slices differ by at most one query.
THEOREM LoadIsEven == Spec => []SliceEven
<1>1. LoopInv => SliceEven
  BY ShareLeft DEF SliceEven
<1> QED
  BY <1>1, LoopInvariant, PTL

\* What the number of slices leaves of the runtime, against the haste.
LEMMA SliceCount ==
    ASSUME LoopInv, total > 0
    PROVE  /\ total \in Nat /\ LeastNum \in Nat \ {0} /\ LeastDen \in Nat /\ HasteNum \in Nat
           /\ SliceNum \in Nat /\ SliceDen \in Nat /\ End \in Nat /\ clock + ahead \in Nat
           /\ LeastDen * End < HasteNum /\ LeastNum * SliceDen <= SliceNum * LeastDen
<1>1. /\ total \in Nat /\ LeastNum \in Nat \ {0} /\ LeastDen \in Nat
      /\ SliceNum \in Nat /\ SliceDen \in Nat /\ End \in Nat /\ clock + ahead \in Nat
      /\ LeastNum <= 2 * SliceNum * Precision /\ Precision \in Nat
  BY Derived, GrainAssumption DEF LoopInv, TypeOK
<1>2. LeastDen * End = 2 * (End * SliceDen * Precision)
  BY <1>1 DEF LeastDen
<1>3. HasteNum = 2 * ((total + 1) * SliceNum * (Precision + 1))
  BY <1>1 DEF HasteNum
<1>4. /\ (total + 1) * SliceNum * (Precision + 1) \in Nat
      /\ End * SliceDen * Precision \in Nat
  BY <1>1
<1>5. End * SliceDen * Precision < (total + 1) * SliceNum * (Precision + 1)
  BY DEF LoopInv, Configured
<1>6. LeastNum * SliceDen <= (2 * SliceNum * Precision) * SliceDen
  BY <1>1, MulMono
<1>7. (2 * SliceNum * Precision) * SliceDen = SliceNum * LeastDen
  BY <1>1 DEF LeastDen
<1> QED
  BY <1>1, <1>2, <1>3, <1>4, <1>5, <1>6, <1>7

\* A sender thread is never ahead of its rate by more than the haste and a time slice.
THEOREM ThreadNeverAhead == Spec => []NeverAhead
<1>1. LoopInv => NeverAhead
  <2> SUFFICES ASSUME LoopInv, total > 0
               PROVE  sent * End * HasteDen * SliceDen
                          <= Queries * HasteNum * ((clock + ahead) * SliceDen + SliceNum)
    BY DEF NeverAhead
  <2>1. sent \in Nat /\ z \in Nat /\ Queries \in Nat
    BY Derived DEF LoopInv, TypeOK
  <2>2. sent * total <= Queries * (z + 1) /\ z * LeastNum <= (clock + ahead) * LeastDen
    BY DEF LoopInv, Shares, Pacing, After
  <2>3. LeastDen * End <= HasteNum
    BY SliceCount
  <2> QED
    BY <2>1, <2>2, <2>3, SliceCount, AheadBound DEF HasteDen
<1> QED
  BY <1>1, LoopInvariant, PTL

\* A loop that is not broken off sends every query and takes the runtime, but for the
\* haste.
THEOREM UndisturbedCompletes == Spec => []UndisturbedIsComplete
<1>1. LoopInv => UndisturbedIsComplete
  <2> SUFFICES ASSUME LoopInv, pc \in {"timeout", "done"}, total > 0, ~broke
               PROVE  sent = Queries /\ End * HasteDen < (clock + ahead) * HasteNum
    BY DEF UndisturbedIsComplete
  <2>1. sent = Queries /\ z = total
    BY DEF LoopInv, Accounting
  <2>2. total * LeastNum <= (clock + ahead) * LeastDen
    BY <2>1 DEF LoopInv, Pacing, After
  <2>3. End * (total * LeastNum) < (clock + ahead) * HasteNum
    <3>1. /\ total \in Nat /\ LeastNum \in Nat /\ LeastNum > 0 /\ LeastDen \in Nat
          /\ clock + ahead \in Nat /\ End \in Nat /\ HasteNum \in Nat /\ LeastDen * End < HasteNum
      BY SliceCount
    <3> QED
      BY <2>2, <3>1, HasteBound, Zenon
  <2> QED
    BY <2>1, <2>3 DEF HasteDen
<1> QED
  BY <1>1, LoopInvariant, PTL

\* A load step with a query rate never runs without limit, for any pool size.
THEOREM LimitIsKept == Spec => []LimitKept
<1>1. LoopInv => LimitKept
  BY DEF LoopInv, TypeOK, Configured, LimitKept
<1> QED
  BY <1>1, LoopInvariant, PTL
=============================================================================
