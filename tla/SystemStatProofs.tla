-------------------------- MODULE SystemStatProofs --------------------------
(***************************************************************************)
(* Proofs about the system statistics, for any interfaces, any traffic and *)
(* any number of load steps.                                               *)
(***************************************************************************)
EXTENDS SystemStat, TLAPS

-----------------------------------------------------------------------------
(***************************************************************************)
(* Types.                                                                  *)
(***************************************************************************)

\* Counters are functions on some of the interfaces.
LEMMA CountersAre ==
    \A c : c \in Counters <=>
              /\ DOMAIN c \subseteq Interfaces \union {InterfaceName}
              /\ c \in [DOMAIN c -> 0 .. Width - 1]
  BY DEF Counters

\* Sampling and looking up keep the entries there are.
LEMMA MapKept ==
    ASSUME os \in Counters, NEW map \in Counters
    PROVE  /\ sampleNetwork(map) \in Counters /\ Looked(map) \in Counters
           /\ DOMAIN sampleNetwork(map) = DOMAIN map \union DOMAIN os
           /\ DOMAIN Looked(map) = DOMAIN map \union {InterfaceName}
           /\ \A i \in DOMAIN map : sampleNetwork(map)[i] = map[i] /\ Looked(map)[i] = map[i]
           /\ \A i \in DOMAIN os \ DOMAIN map : sampleNetwork(map)[i] = os[i]
<1>1. /\ DOMAIN map \subseteq Interfaces \union {InterfaceName} /\ map \in [DOMAIN map -> 0 .. Width - 1]
      /\ DOMAIN os \subseteq Interfaces \union {InterfaceName} /\ os \in [DOMAIN os -> 0 .. Width - 1]
  BY CountersAre
<1>2. 0 \in 0 .. Width - 1
  BY WidthAssumption
<1>3. sampleNetwork(map) \in [DOMAIN map \union DOMAIN os -> 0 .. Width - 1]
  BY <1>1 DEF sampleNetwork
<1>4. Looked(map) \in [DOMAIN map \union {InterfaceName} -> 0 .. Width - 1]
  BY <1>1, <1>2 DEF Looked
<1>5. sampleNetwork(map) \in Counters /\ Looked(map) \in Counters
  BY <1>1, <1>3, <1>4, CountersAre
<1> QED
  BY <1>3, <1>4, <1>5 DEF sampleNetwork, Looked

\* The difference of two samples is a number.
LEMMA DeltaIsInt ==
    ASSUME NEW a \in Int, NEW b \in Int
    PROVE  delta_with_overflow(a, b) \in Int
  BY WidthAssumption DEF delta_with_overflow

\* What the interfaces do to their counters.
LEMMA CarryOs ==
    ASSUME TypeOK, NEW i \in Interfaces, NEW n \in Bursts, Carry(i, n)
    PROVE  /\ os' \in Counters /\ DOMAIN os' = DOMAIN os
           /\ os'[i] = (os[i] + n) % Width /\ \A j \in DOMAIN os \ {i} : os'[j] = os[j]
           /\ i \in DOMAIN os
<1>1. /\ os' = [os EXCEPT ![i] = (@ + n) % Width] /\ i \in DOMAIN os
      /\ os \in [DOMAIN os -> 0 .. Width - 1] /\ DOMAIN os \subseteq Interfaces \union {InterfaceName}
  BY CountersAre DEF Carry, TypeOK
<1>2. (os[i] + n) % Width \in 0 .. Width - 1
  <2>1. os[i] \in 0 .. Width - 1
    BY <1>1
  <2>2. os[i] + n \in Nat
    BY <2>1, WidthAssumption
  <2> QED
    BY <2>2, WidthAssumption
<1>3. DOMAIN os' = DOMAIN os /\ os' \in [DOMAIN os -> 0 .. Width - 1]
  BY <1>1, <1>2
<1>4. os'[i] = (os[i] + n) % Width /\ \A j \in DOMAIN os \ {i} : os'[j] = os[j]
  BY <1>1
<1>5. os' \in Counters
  BY <1>1, <1>3, CountersAre
<1> QED
  BY <1>1, <1>3, <1>4, <1>5

LEMMA PlugOs ==
    ASSUME TypeOK, NEW i \in Interfaces, Plug(i) \/ Unplug(i)
    PROVE  /\ os' \in Counters
           /\ \A j \in DOMAIN os \ {i} : j \in DOMAIN os' /\ os'[j] = os[j]
           /\ Plug(i) => i \notin DOMAIN os
<1>1. os \in [DOMAIN os -> 0 .. Width - 1] /\ DOMAIN os \subseteq Interfaces \union {InterfaceName}
  BY CountersAre DEF TypeOK
<1>2. CASE Plug(i)
  <2>1. os' = [j \in DOMAIN os \union {i} |-> IF j = i THEN 0 ELSE os[j]] /\ i \notin DOMAIN os
    BY <1>2 DEF Plug
  <2>2. os' \in [DOMAIN os \union {i} -> 0 .. Width - 1]
    BY <1>1, <2>1, WidthAssumption
  <2>3. os' \in Counters
    BY <1>1, <2>2, CountersAre
  <2> QED
    BY <2>1, <2>3
<1>3. CASE Unplug(i)
  <2>1. os' = [j \in DOMAIN os \ {i} |-> os[j]] /\ i \in DOMAIN os
    BY <1>3 DEF Unplug
  <2>2. os' \in [DOMAIN os \ {i} -> 0 .. Width - 1]
    BY <1>1, <2>1
  <2>3. os' \in Counters
    BY <1>1, <2>2, CountersAre
  <2>4. ~Plug(i)
    BY <2>1 DEF Plug
  <2> QED
    BY <2>1, <2>3, <2>4
<1> QED
  BY <1>2, <1>3

\* What presenting prints.
LEMMA PresentStep ==
    ASSUME TypeOK, Present
    PROVE  /\ sys1' \in Counters /\ sys1' = Looked(sys1)
           /\ sys2' \in Counters /\ sys2' = Looked(sys2)
           /\ InterfaceName \in DOMAIN sys1' /\ InterfaceName \in DOMAIN sys2'
           /\ getDelta(sys1', sys2') \in Int
           /\ printed' = Append(printed, getDelta(sys1', sys2'))
<1>1. sys1' \in Counters /\ sys1' = Looked(sys1)
  BY MapKept DEF Present, TypeOK
<1>2. sys2' \in Counters /\ sys2' = Looked(sys2)
  BY MapKept DEF Present, TypeOK
<1>3. InterfaceName \in DOMAIN sys1' /\ InterfaceName \in DOMAIN sys2'
  <2>1. sys1 \in Counters /\ sys2 \in Counters
    BY DEF TypeOK
  <2> QED
    BY <1>1, <1>2, <2>1, MapKept DEF TypeOK
<1>4. sys1'[InterfaceName] \in Int /\ sys2'[InterfaceName] \in Int
  <2>1. /\ sys1' \in [DOMAIN sys1' -> 0 .. Width - 1]
        /\ sys2' \in [DOMAIN sys2' -> 0 .. Width - 1]
    BY <1>1, <1>2, CountersAre 
  <2> QED
    BY <1>3, <2>1, WidthAssumption
<1>5. getDelta(sys1', sys2') \in Int
  BY <1>4, DeltaIsInt DEF getDelta
<1> QED
  BY <1>1, <1>2, <1>3, <1>5 DEF Present

LEMMA StatTypeStep == TypeOK /\ [Next]_vars => TypeOK'
<1> SUFFICES ASSUME TypeOK, [Next]_vars PROVE TypeOK'
  OBVIOUS
<1>1. CASE Sample1
  <2>1. sys1' \in Counters
    BY <1>1, MapKept DEF Sample1, TypeOK
  <2>2. /\ pc' = "load" /\ UNCHANGED <<os, sys2, printed>> /\ traffic' = 0 /\ wrapped' = FALSE
        /\ steady' = (InterfaceName \in DOMAIN os)
    BY <1>1 DEF Sample1
  <2>3. steady' \in BOOLEAN /\ traffic' \in 0 .. Width - 1
    BY <2>2, WidthAssumption
  <2> QED
    BY <2>1, <2>2, <2>3 DEF TypeOK
<1>2. CASE Sample2
  <2>1. sys2' \in Counters
    BY <1>2, MapKept DEF Sample2, TypeOK
  <2> QED
    BY <1>2, <2>1 DEF Sample2, TypeOK, ghosts
<1>3. CASE SampleFails
  BY <1>3 DEF SampleFails, TypeOK, ghosts
<1>4. CASE Present
  <2>1. printed' \in Seq(Int)
    BY <1>4, PresentStep DEF TypeOK
  <2> QED
    BY <1>4, <2>1, PresentStep DEF Present, TypeOK, ghosts
<1>5. ASSUME NEW i \in Interfaces, NEW n \in Bursts, Carry(i, n) PROVE TypeOK'
  <2>1. os' \in Counters
    BY <1>5, CarryOs
  <2>2. UNCHANGED <<pc, sys1, sys2, printed, steady>>
    BY <1>5 DEF Carry, ghosts
  <2>3. traffic' \in 0 .. Width - 1
    BY <1>5, WidthAssumption DEF Carry, ghosts, TypeOK
  <2>4. wrapped' \in BOOLEAN
    BY <1>5 DEF Carry, ghosts, TypeOK
  <2> QED
    BY <2>1, <2>2, <2>3, <2>4 DEF TypeOK
<1>6. ASSUME NEW i \in Interfaces, Plug(i) \/ Unplug(i) PROVE TypeOK'
  <2>1. os' \in Counters
    BY <1>6, PlugOs
  <2>2. UNCHANGED <<pc, sys1, sys2, printed, wrapped, traffic>>
    BY <1>6 DEF Plug, Unplug, ghosts
  <2>3. steady' \in BOOLEAN
    BY <1>6 DEF Plug, Unplug, ghosts, TypeOK
  <2> QED
    BY <2>1, <2>2, <2>3 DEF TypeOK
<1>7. CASE UNCHANGED vars
  BY <1>7 DEF vars, ghosts, TypeOK
<1> QED
  BY <1>1, <1>2, <1>3, <1>4, <1>5, <1>6, <1>7 DEF Next, Ended

\* The statistics of every state are of their type.
THEOREM StatTypes == Spec => []TypeOK
<1>1. Init => TypeOK
  <2> SUFFICES ASSUME Init PROVE TypeOK
    OBVIOUS
  <2>1. os \in Counters
    <3>1. PICK there \in SUBSET Interfaces : os \in [there -> Initial]
      BY DEF Init
    <3>2. os \in [there -> 0 .. Width - 1] /\ DOMAIN os = there
      BY <3>1, WidthAssumption
    <3> QED
      BY <3>2, CountersAre
  <2>2. Empty \in Counters
    <3>1. Empty \in [{} -> 0 .. Width - 1] /\ DOMAIN Empty = {}
      BY DEF Empty
    <3> QED
      BY <3>1, CountersAre
  <2>4. sys1 \in Counters /\ sys2 \in Counters
    BY <2>2 DEF Init
  <2>5. printed \in Seq(Int) /\ traffic \in 0 .. Width - 1
    BY WidthAssumption DEF Init
  <2>6. pc = "step" /\ steady \in BOOLEAN /\ wrapped \in BOOLEAN
    BY DEF Init
  <2> QED
    BY <2>1, <2>4, <2>5, <2>6 DEF TypeOK
<1> QED
  BY <1>1, StatTypeStep, PTL DEF Spec

-----------------------------------------------------------------------------
(***************************************************************************)
(* What is printed.                                                        *)
(***************************************************************************)

\* The number a counter shows after n more, if it cannot go round twice.
LEMMA GoesRound ==
    ASSUME NEW v \in 0 .. Width - 1, NEW n \in Nat, n < Width
    PROVE  (v + n) % Width = IF v + n >= Width THEN v + n - Width ELSE v + n
<1>1. CASE v + n < Width
  BY <1>1, WidthAssumption
<1>2. CASE v + n >= Width
  <2>1. v + n - Width \in 0 .. Width - 1
    BY <1>2, WidthAssumption
  <2>2. (v + n) % Width = v + n - Width
    BY <2>1, WidthAssumption
  <2> QED
    BY <1>2, <2>2
<1> QED
  BY <1>1, <1>2, WidthAssumption

\* While the counter of InterfaceName is followed, it is followed.
LEMMA TracksCarry ==
    ASSUME TypeOK, NEW n \in Bursts, InterfaceName \in Interfaces, Carry(InterfaceName, n),
           pc = "load", Tracks(os)
    PROVE  Tracks(os)'
<1> DEFINE x == InterfaceName
           v == sys1[x]
           c == os[x]
<1>1. /\ x \in DOMAIN sys1 /\ x \in DOMAIN os
      /\ c = v + traffic - (IF wrapped THEN Width ELSE 0)
  BY DEF Tracks
<1>2. /\ sys1' = sys1 /\ traffic' = traffic + n /\ traffic + n < Width
      /\ wrapped' = (wrapped \/ c + n >= Width)
  BY DEF Carry
<1>3. x \in DOMAIN os' /\ os'[x] = (c + n) % Width
  BY CarryOs, <1>1
<1>4. v \in 0 .. Width - 1 /\ c \in 0 .. Width - 1
  <2>1. sys1 \in Counters /\ os \in Counters
    BY DEF TypeOK
  <2> QED
    BY <1>1, <2>1, CountersAre
<1>5. traffic \in Nat /\ n \in Nat /\ n < Width /\ Width \in Nat
  BY <1>2, WidthAssumption DEF TypeOK
<1> DEFINE d == os'[x]
<1>6. d = IF c + n >= Width THEN c + n - Width ELSE c + n
  BY <1>3, <1>4, <1>5, GoesRound
<1> HIDE DEF c, v, d
<1>7. d = v + (traffic + n) - (IF wrapped' THEN Width ELSE 0)
  <2>1. CASE wrapped
    <3>1. wrapped' /\ c = v + traffic - Width
      BY <1>1, <1>2, <2>1
    <3>2. c + n < Width
      BY <1>2, <1>4, <1>5, <3>1
    <3>3. d = c + n
      BY <1>4, <1>5, <1>6, <3>2
    <3> QED
      BY <1>4, <1>5, <3>1, <3>3
  <2>2. CASE ~wrapped
    <3>1. c = v + traffic
      BY <1>1, <1>4, <1>5, <2>2
    <3>2. CASE c + n >= Width
      <4>1. wrapped'
        BY <1>2, <3>2
      <4> QED
        BY <1>4, <1>5, <1>6, <3>1, <3>2, <4>1
    <3>3. CASE ~(c + n >= Width)
      <4>1. ~wrapped'
        BY <1>2, <2>2, <3>3
      <4> QED
        BY <1>4, <1>5, <1>6, <3>1, <3>3, <4>1
    <3> QED
      BY <3>2, <3>3
  <2> QED
    BY <2>1, <2>2
<1> QED
  BY <1>1, <1>2, <1>3, <1>7 DEF Tracks, d, v

\* The difference of the two samples is what was carried between them.
LEMMA TracksDelta ==
    ASSUME TypeOK, Tracks(sys2)
    PROVE  getDelta(sys1, sys2) = Carried
<1> DEFINE x == InterfaceName
           v == sys1[x]
           c == sys2[x]
<1>1. /\ x \in DOMAIN sys1 /\ x \in DOMAIN sys2
      /\ c = v + traffic - (IF wrapped THEN Width ELSE 0)
  BY DEF Tracks
<1>2. v \in 0 .. Width - 1 /\ c \in 0 .. Width - 1
  <2>1. sys1 \in Counters /\ sys2 \in Counters
    BY DEF TypeOK
  <2> QED
    BY <1>1, <2>1, CountersAre
<1>3. traffic \in 0 .. Width - 1 /\ Width \in Nat
  BY WidthAssumption DEF TypeOK
<1>4. getDelta(sys1, sys2) = IF c >= v THEN c - v ELSE (Width - 1) - v + c
  BY DEF getDelta, delta_with_overflow
<1> HIDE DEF v, c
<1>5. CASE wrapped
  <2>1. c = v + traffic - Width
    BY <1>1, <1>5
  <2>2. ~(c >= v)
    BY <1>2, <1>3, <2>1
  <2> QED
    BY <1>2, <1>3, <1>4, <1>5, <2>1, <2>2 DEF Carried
<1>6. CASE ~wrapped
  <2>1. c = v + traffic
    BY <1>1, <1>2, <1>3, <1>6
  <2> QED
    BY <1>2, <1>3, <1>4, <1>6, <2>1 DEF Carried
<1> QED
  BY <1>5, <1>6

\* Presenting prints the entries the samples hold: of the first step while nothing has
\* been printed, of the first line later.
LEMMA PresentKeeps ==
    ASSUME TypeOK, FirstStepInv, Present
    PROVE  /\ printed # <<>> => getDelta(sys1', sys2') = printed[1]
           /\ printed = <<>> /\ steady => getDelta(sys1', sys2') = Carried
<1> DEFINE x == InterfaceName
<1>1. sys1 \in Counters /\ sys2 \in Counters /\ os \in Counters
  BY DEF TypeOK
<1>2. ASSUME x \in DOMAIN sys1, x \in DOMAIN sys2
      PROVE  getDelta(sys1', sys2') = getDelta(sys1, sys2)
  <2>1. sys1'[x] = sys1[x]
    BY <1>1, <1>2, PresentStep, MapKept
  <2>2. sys2'[x] = sys2[x]
    BY <1>1, <1>2, PresentStep, MapKept
  <2> QED
    BY <2>1, <2>2 DEF getDelta
<1>3. CASE printed # <<>>
  BY <1>2, <1>3 DEF FirstStepInv
<1>4. CASE printed = <<>> /\ steady
  <2>1. Tracks(sys2)
    BY <1>4 DEF FirstStepInv, Present
  <2> QED
    BY <1>2, <1>4, <2>1, TracksDelta DEF Tracks
<1> QED
  BY <1>3, <1>4

\* Up to the first line the samples follow the counters, and after it no sample replaces
\* an entry.
LEMMA FirstStepStep == TypeOK /\ FirstStepInv /\ [Next]_vars => FirstStepInv'
<1> SUFFICES ASSUME TypeOK, FirstStepInv, [Next]_vars PROVE FirstStepInv'
  OBVIOUS
<1> DEFINE x == InterfaceName
<1>1. sys1 \in Counters /\ sys2 \in Counters /\ os \in Counters
  BY DEF TypeOK
<1>2. DOMAIN Empty = {}
  BY DEF Empty
<1>3. CASE Sample1
  <2>1. /\ pc = "step" /\ pc' = "load" /\ UNCHANGED <<os, sys2, printed>>
        /\ steady' = (x \in DOMAIN os) /\ traffic' = 0 /\ wrapped' = FALSE
        /\ sys1' = sampleNetwork(sys1)
    BY <1>3, MapKept DEF Sample1, TypeOK
  <2>2. CASE printed = <<>>
    <3>1. sys1 = Empty /\ sys2 = Empty
      BY <2>1, <2>2 DEF FirstStepInv
    <3>2. ASSUME steady' PROVE Tracks(os)'
      <4>1. x \in DOMAIN os \ DOMAIN sys1
        BY <1>2, <2>1, <3>1, <3>2
      <4>2. x \in DOMAIN sys1' /\ sys1'[x] = os[x]
        BY <1>1, <2>1, <4>1, MapKept
      <4>3. os[x] \in Int
        <5>1. os \in [DOMAIN os -> 0 .. Width - 1]
          BY <1>1, CountersAre
        <5> QED
          BY <4>1, <5>1, WidthAssumption
      <4>4. os[x] = os[x] + 0 - 0
        BY <4>3
      <4> QED
        BY <2>1, <4>1, <4>2, <4>4 DEF Tracks
    <3> QED
      BY <2>1, <2>2, <3>1, <3>2 DEF FirstStepInv
  <2>3. CASE printed # <<>>
    <3>1. /\ x \in DOMAIN sys1 /\ x \in DOMAIN sys2
          /\ printed[1] = getDelta(sys1, sys2)
      BY <2>3 DEF FirstStepInv
    <3>2. x \in DOMAIN sys1' /\ sys1'[x] = sys1[x]
      BY <1>1, <2>1, <3>1, MapKept
    <3> QED
      BY <2>1, <2>3, <3>1, <3>2 DEF FirstStepInv, getDelta
  <2> QED
    BY <2>2, <2>3
<1>4. CASE Sample2
  <2>1. /\ pc = "load" /\ pc' = "present" /\ UNCHANGED <<os, sys1, printed, steady, traffic, wrapped>>
        /\ sys2' = sampleNetwork(sys2)
    BY <1>4, MapKept DEF Sample2, TypeOK, ghosts
  <2>2. CASE printed = <<>>
    <3>1. sys2 = Empty /\ (steady => Tracks(os))
      BY <2>1, <2>2 DEF FirstStepInv
    <3>2. ASSUME steady PROVE Tracks(sys2)'
      <4>1. x \in DOMAIN os \ DOMAIN sys2
        BY <1>2, <3>1, <3>2 DEF Tracks
      <4>2. x \in DOMAIN sys2' /\ sys2'[x] = os[x]
        BY <1>1, <2>1, <4>1, MapKept
      <4> QED
        BY <2>1, <3>1, <3>2, <4>2 DEF Tracks
    <3> QED
      BY <2>1, <2>2, <3>2 DEF FirstStepInv
  <2>3. CASE printed # <<>>
    <3>1. /\ x \in DOMAIN sys1 /\ x \in DOMAIN sys2
          /\ printed[1] = getDelta(sys1, sys2)
      BY <2>3 DEF FirstStepInv
    <3>2. x \in DOMAIN sys2' /\ sys2'[x] = sys2[x]
      BY <1>1, <2>1, <3>1, MapKept
    <3> QED
      BY <2>1, <2>3, <3>1, <3>2 DEF FirstStepInv, getDelta
  <2> QED
    BY <2>2, <2>3
<1>5. CASE SampleFails
  BY <1>5 DEF SampleFails, FirstStepInv, getDelta
<1>6. CASE Present
  <2>1. /\ x \in DOMAIN sys1' /\ x \in DOMAIN sys2'
        /\ printed' = Append(printed, getDelta(sys1', sys2')) /\ printed' # <<>>
        /\ pc' = "step" /\ printed \in Seq(Int) /\ getDelta(sys1', sys2') \in Int
    BY <1>6, PresentStep DEF Present, TypeOK
  <2>2. CASE printed = <<>>
    <3>1. printed'[1] = getDelta(sys1', sys2')
      BY <2>1, <2>2
    <3> QED
      BY <2>1, <3>1 DEF FirstStepInv, getDelta
  <2>3. CASE printed # <<>>
    <3>1. printed'[1] = printed[1]
      BY <2>1, <2>3
    <3>2. getDelta(sys1', sys2') = printed[1]
      BY <1>6, <2>3, PresentKeeps
    <3> QED
      BY <2>1, <3>1, <3>2 DEF FirstStepInv, getDelta
  <2> QED
    BY <2>2, <2>3
<1>7. ASSUME NEW i \in Interfaces, NEW n \in Bursts, Carry(i, n) PROVE FirstStepInv'
  <2>1. UNCHANGED <<pc, sys1, sys2, printed, steady>>
    BY <1>7 DEF Carry, ghosts
  <2>2. ASSUME pc = "load", Tracks(os) PROVE Tracks(os)'
    <3>1. CASE i = x
      BY <1>7, <2>2, <3>1, TracksCarry
    <3>2. CASE i # x
      <4>1. UNCHANGED <<traffic, wrapped>>
        BY <1>7, <3>2 DEF Carry, ghosts
      <4>2. x \in DOMAIN os' /\ os'[x] = os[x]
        BY <1>7, <2>2, <3>2, CarryOs DEF Tracks
      <4> QED
        BY <2>1, <2>2, <4>1, <4>2 DEF Tracks
    <3> QED
      BY <3>1, <3>2
  <2>3. ASSUME pc = "present" PROVE UNCHANGED <<traffic, wrapped>>
    BY <1>7, <2>3 DEF Carry, ghosts
  <2>4. ASSUME pc = "present", Tracks(sys2) PROVE Tracks(sys2)'
    BY <2>1, <2>3, <2>4 DEF Tracks
  <2> QED
    BY <2>1, <2>2, <2>4 DEF FirstStepInv, getDelta
<1>8. ASSUME NEW i \in Interfaces, Plug(i) \/ Unplug(i) PROVE FirstStepInv'
  <2>1. UNCHANGED <<pc, sys1, sys2, printed, traffic, wrapped>>
    BY <1>8 DEF Plug, Unplug, ghosts
  <2>2. steady' => steady
    <3>1. CASE Plug(i)
      BY <3>1 DEF Plug, ghosts
    <3>2. CASE Unplug(i)
      <4>1. steady' = (steady /\ (i = x => pc = "present"))
        BY <3>2 DEF Unplug
      <4> QED
        BY <4>1, Zenon
    <3> QED
      BY <1>8, <3>1, <3>2
  <2>3. ASSUME pc = "load", Tracks(os), steady' PROVE Tracks(os)'
    <3>1. i # x
      BY <1>8, <2>3 DEF Plug, Unplug, Tracks
    <3>2. x \in DOMAIN os' /\ os'[x] = os[x]
      BY <1>8, <2>3, <3>1, PlugOs DEF Tracks
    <3> QED
      BY <2>1, <2>3, <3>2 DEF Tracks
  <2>4. ASSUME Tracks(sys2) PROVE Tracks(sys2)'
    BY <2>1, <2>4 DEF Tracks
  <2> QED
    BY <2>1, <2>2, <2>3, <2>4 DEF FirstStepInv, getDelta
<1>9. CASE UNCHANGED vars
  BY <1>9 DEF vars, ghosts, FirstStepInv, Tracks, getDelta
<1> QED
  BY <1>3, <1>4, <1>5, <1>6, <1>7, <1>8, <1>9 DEF Next, Ended

\* The first line tells what the interface carried in the first step, and all later lines
\* repeat it, whatever it carries then.
THEOREM PrintedFirstStep == Spec => PrintedIsFirstStep
<1>1. Init => FirstStepInv
  BY DEF Init, FirstStepInv
<1>2. TypeOK /\ FirstStepInv /\ [Next]_vars =>
        [ pc = "present" /\ pc' = "step" =>
            printed'[Len(printed')] =
                IF printed # <<>> THEN printed[1]
                ELSE IF steady THEN Carried ELSE printed'[1] ]_vars
  <2> SUFFICES ASSUME TypeOK, FirstStepInv, Next, pc = "present", pc' = "step"
               PROVE  printed'[Len(printed')] =
                        IF printed # <<>> THEN printed[1]
                        ELSE IF steady THEN Carried ELSE printed'[1]
    OBVIOUS
  <2>1. Present
    BY DEF Next, Sample1, Sample2, SampleFails, Ended, vars, Plug, Unplug, Carry
  <2>2. /\ printed' = Append(printed, getDelta(sys1', sys2'))
        /\ printed \in Seq(Int) /\ getDelta(sys1', sys2') \in Int
    BY <2>1, PresentStep DEF TypeOK
  <2>3. printed'[Len(printed')] = getDelta(sys1', sys2')
    BY <2>2
  <2>4. CASE printed # <<>>
    BY <2>1, <2>3, <2>4, PresentKeeps
  <2>5. CASE printed = <<>> /\ steady
    <3>1. getDelta(sys1', sys2') = Carried
      BY <2>1, <2>5, PresentKeeps
    <3> QED
      BY <2>3, <2>5, <3>1
  <2>6. CASE printed = <<>> /\ ~steady
    <3>1. printed'[1] = getDelta(sys1', sys2')
      BY <2>2, <2>6
    <3> QED
      BY <2>3, <2>6, <3>1
  <2> QED
    BY <2>4, <2>5, <2>6
<1>3. Spec => []FirstStepInv
  BY <1>1, FirstStepStep, StatTypes, PTL DEF Spec
<1> QED
  BY <1>2, <1>3, StatTypes, PTL DEF Spec, PrintedIsFirstStep
=============================================================================
