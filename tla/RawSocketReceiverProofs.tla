----------------------- MODULE RawSocketReceiverProofs -----------------------
(***************************************************************************)
(* Proofs about the raw socket receiver: what it owns, what its filter     *)
(* lets through, and that every packet is counted once, for buffers and    *)
(* generation numbers of any size.                                         *)
(***************************************************************************)
EXTENDS RawSocketReceiver, SequenceTheorems, TLAPS

-----------------------------------------------------------------------------
(***************************************************************************)
(* Resources.                                                              *)
(***************************************************************************)

\* What each step of the constructor owns follows from where it is.
LEMMA ResourceStep == ResourceInv /\ [Next]_vars => ResourceInv'
<1> SUFFICES ASSUME ResourceInv, [Next]_vars PROVE ResourceInv'
  OBVIOUS
<1> USE DEF ResourceInv, Constructing, Constructed, Acquire, Call, Fails, Buffers
<1>1. CASE ConstructLinux
  BY <1>1 DEF ConstructLinux
<1>2. CASE OpenBpf
  BY <1>2 DEF OpenBpf
<1>3. CASE AllocZbuf
  BY <1>3 DEF AllocZbuf
<1>4. CASE InitZeroCopyBuffer
  <2>1. CASE Call("zmode", "bufa") /\ UNCHANGED useZeroCopyBuffer
    BY <2>1
  <2>2. CASE Fails("zmode", "fallback", {"buffer"}) /\ UNCHANGED useZeroCopyBuffer
    BY <2>2
  <2>3. CASE Call("setzbuf", "setSource") /\ useZeroCopyBuffer' = TRUE
    BY <2>3
  <2>4. CASE Fails("setzbuf", "bufa", {"A", "B"}) /\ UNCHANGED useZeroCopyBuffer
    BY <2>4
  <2>5. CASE Fails("setzbuf", "fallback", {"A", "B", "buffer"}) /\ UNCHANGED useZeroCopyBuffer
    BY <2>5
  <2> HIDE DEF Call, Fails, ResourceInv
  <2> QED
    BY <1>4, <2>1, <2>2, <2>3, <2>4, <2>5, Zenon DEF InitZeroCopyBuffer
<1>5. CASE TryAllocZeroCopyBuffer
  BY <1>5 DEF TryAllocZeroCopyBuffer
<1>6. CASE Fallback
  BY <1>6 DEF Fallback
<1>7. CASE InitBufferedMode
  BY <1>7 DEF InitBufferedMode
<1>8. CASE SetNonBlocking
  BY <1>8 DEF SetNonBlocking
<1>9. CASE SetSource
  BY <1>9 DEF SetSource
<1>10. CASE InitInterface
  BY <1>10 DEF InitInterface
<1>11. CASE Delete
  BY <1>11 DEF Delete, socket
<1>12. CASE Destroy
  BY <1>12 DEF Destroy
<1>13. CASE Capture \/ Rotate
  BY <1>13 DEF Capture, Rotate, socket
<1>14. CASE Receiver
  BY <1>14 DEF Receiver, Receive, ReceiveBuffered, ReadZbuffer, SkipZbuffer, ReadPacket, EndRead,
     After, socket
<1>15. CASE UNCHANGED vars
  BY <1>15 DEF vars, socket
<1> QED
  BY <1>1, <1>2, <1>3, <1>4, <1>5, <1>6, <1>7, <1>8, <1>9, <1>10, <1>11, <1>12, <1>13, <1>14,
     <1>15 DEF Next, Ended

\* Whatever fails, the constructor gives back what it has acquired, and nothing twice.
THEOREM ReceiverResourcesExact == Spec => []ResourcesExact
<1>1. Init => ResourceInv
  BY DEF Init, ResourceInv, Constructing, Constructed
<1>2. ResourceInv => ResourcesExact
  BY DEF ResourceInv, ResourcesExact, Constructing, Constructed
<1> QED
  BY <1>1, <1>2, ResourceStep, PTL DEF Spec

-----------------------------------------------------------------------------
(***************************************************************************)
(* The filter.                                                             *)
(***************************************************************************)

\* What the filter does with packet p at each of its instructions, with a in the register,
\* when run gives what it does at the others.
FilterStep(p, run) ==
    [i \in 1 .. 10 |->
        [a \in Values |->
            CASE insns[i].op = "ld" -> run[i + 1][p[insns[i].k]]
              [] insns[i].op = "jeq" -> run[i + 1 + (IF a = insns[i].k THEN 0 ELSE insns[i].jf)][a]
              [] insns[i].op = "ret" -> insns[i].k # 0]]

\* The instructions one by one: what f gives at each when g gives what the others do.
FilterSteps(p, f, g) ==
    \A a \in Values :
        /\ f[1][a] = g[2][p[12]]
        /\ f[2][a] = IF a = IPv4 THEN g[3][a] ELSE g[10][a]
        /\ f[3][a] = g[4][p[26]]
        /\ f[4][a] = IF a = TargetIP THEN g[5][a] ELSE g[10][a]
        /\ f[5][a] = g[6][p[23]]
        /\ f[6][a] = IF a = UDP THEN g[7][a] ELSE g[10][a]
        /\ f[7][a] = g[8][p[34]]
        /\ f[8][a] = IF a = TargetPort THEN g[9][a] ELSE g[10][a]
        /\ f[9][a] = TRUE
        /\ f[10][a] = FALSE

LEMMA FilterUnrolled == \A p, run : FilterSteps(p, FilterStep(p, run), run)
<1> SUFFICES ASSUME NEW p, NEW run, NEW a \in Values
             PROVE  /\ FilterStep(p, run)[1][a] = run[2][p[12]]
                    /\ FilterStep(p, run)[2][a] = IF a = IPv4 THEN run[3][a] ELSE run[10][a]
                    /\ FilterStep(p, run)[3][a] = run[4][p[26]]
                    /\ FilterStep(p, run)[4][a] = IF a = TargetIP THEN run[5][a] ELSE run[10][a]
                    /\ FilterStep(p, run)[5][a] = run[6][p[23]]
                    /\ FilterStep(p, run)[6][a] = IF a = UDP THEN run[7][a] ELSE run[10][a]
                    /\ FilterStep(p, run)[7][a] = run[8][p[34]]
                    /\ FilterStep(p, run)[8][a] = IF a = TargetPort THEN run[9][a] ELSE run[10][a]
                    /\ FilterStep(p, run)[9][a] = TRUE
                    /\ FilterStep(p, run)[10][a] = FALSE
  BY DEF FilterSteps
<1>1. ASSUME NEW i \in 1 .. 10
      PROVE  /\ insns[i].op = "ld" => FilterStep(p, run)[i][a] = run[i + 1][p[insns[i].k]]
             /\ insns[i].op = "jeq" =>
                    FilterStep(p, run)[i][a] =
                        run[i + 1 + (IF a = insns[i].k THEN 0 ELSE insns[i].jf)][a]
             /\ insns[i].op = "ret" => FilterStep(p, run)[i][a] = (insns[i].k # 0)
  BY DEF FilterStep
<1>2. /\ insns[1] = Insn("ld", 12, 0) /\ insns[2] = Insn("jeq", IPv4, 7)
      /\ insns[3] = Insn("ld", 26, 0) /\ insns[4] = Insn("jeq", TargetIP, 5)
      /\ insns[5] = Insn("ld", 23, 0) /\ insns[6] = Insn("jeq", UDP, 3)
      /\ insns[7] = Insn("ld", 34, 0) /\ insns[8] = Insn("jeq", TargetPort, 1)
      /\ insns[9] = Insn("ret", 1, 0) /\ insns[10] = Insn("ret", 0, 0)
  BY DEF insns
<1>3. /\ FilterStep(p, run)[1][a] = run[2][p[12]]
      /\ FilterStep(p, run)[3][a] = run[4][p[26]]
      /\ FilterStep(p, run)[5][a] = run[6][p[23]]
      /\ FilterStep(p, run)[7][a] = run[8][p[34]]
  BY <1>1, <1>2 DEF Insn
<1>4. /\ FilterStep(p, run)[2][a] = IF a = IPv4 THEN run[3][a] ELSE run[10][a]
      /\ FilterStep(p, run)[4][a] = IF a = TargetIP THEN run[5][a] ELSE run[10][a]
      /\ FilterStep(p, run)[6][a] = IF a = UDP THEN run[7][a] ELSE run[10][a]
      /\ FilterStep(p, run)[8][a] = IF a = TargetPort THEN run[9][a] ELSE run[10][a]
  BY <1>1, <1>2 DEF Insn
<1>5. FilterStep(p, run)[9][a] = TRUE /\ FilterStep(p, run)[10][a] = FALSE
  <2>1. insns[9].op = "ret" /\ insns[9].k = 1 /\ insns[10].op = "ret" /\ insns[10].k = 0
    BY <1>2 DEF Insn
  <2>2. FilterStep(p, run)[9][a] = (1 # 0) /\ FilterStep(p, run)[10][a] = (0 # 0)
    BY <1>1, <2>1
  <2>3. (1 # 0) = TRUE /\ (0 # 0) = FALSE
    OBVIOUS
  <2> QED
    BY <2>2, <2>3, Zenon
<1> QED
  BY <1>3, <1>4, <1>5

\* The program returns 1 for the answers of the target and 0 for every other packet.
LEMMA FilterAccepts == ASSUME NEW p \in Packets PROVE Accepts(p) <=> p \in Answers
<1> DEFINE Port(a) == a = TargetPort
           Udp(a) == a = UDP /\ Port(p[34])
           IP(a) == a = TargetIP /\ Udp(p[23])
           Type(a) == a = IPv4 /\ IP(p[26])
           Verdict(i, a) ==
               CASE i = 1 -> Type(p[12]) [] i = 2 -> Type(a)
                 [] i = 3 -> IP(p[26]) [] i = 4 -> IP(a)
                 [] i = 5 -> Udp(p[23]) [] i = 6 -> Udp(a)
                 [] i = 7 -> Port(p[34]) [] i = 8 -> Port(a)
                 [] i = 9 -> TRUE [] OTHER -> FALSE
           w == [i \in 1 .. 10 |-> [a \in Values |-> Verdict(i, a)]]
<1>1. p[12] \in Values /\ p[23] \in Values /\ p[26] \in Values /\ p[34] \in Values /\ 0 \in Values
  BY DEF Packets, Offsets, Values
<1>2. ASSUME NEW a \in Values
      PROVE  /\ w[1][a] = Type(p[12]) /\ w[2][a] = Type(a)
             /\ w[3][a] = IP(p[26]) /\ w[4][a] = IP(a)
             /\ w[5][a] = Udp(p[23]) /\ w[6][a] = Udp(a)
             /\ w[7][a] = Port(p[34]) /\ w[8][a] = Port(a)
             /\ w[9][a] = TRUE /\ w[10][a] = FALSE
  <2>1. \A i \in 1 .. 10 : w[i][a] = Verdict(i, a)
    OBVIOUS
  <2>2. /\ Verdict(1, a) = Type(p[12]) /\ Verdict(2, a) = Type(a)
        /\ Verdict(3, a) = IP(p[26]) /\ Verdict(4, a) = IP(a)
        /\ Verdict(5, a) = Udp(p[23]) /\ Verdict(6, a) = Udp(a)
        /\ Verdict(7, a) = Port(p[34]) /\ Verdict(8, a) = Port(a)
        /\ Verdict(9, a) = TRUE /\ Verdict(10, a) = FALSE
    OBVIOUS
  <2> HIDE DEF w, Verdict
  <2> QED
    BY <2>1, <2>2
<1>3. w = FilterStep(p, w)
  <2>1. ASSUME NEW a \in Values
        PROVE  \A i \in 1 .. 10 : w[i][a] = FilterStep(p, w)[i][a]
    <3> HIDE DEF w, Verdict
    <3> DEFINE f == FilterStep(p, w)
    <3>0. FilterSteps(p, f, w)
      BY FilterUnrolled
    <3> HIDE DEF f
    <3>1. /\ w[2][p[12]] = Type(p[12]) /\ w[4][p[26]] = IP(p[26])
          /\ w[6][p[23]] = Udp(p[23]) /\ w[8][p[34]] = Port(p[34])
      BY <1>1, <1>2, Zenon
    <3>2. /\ Type(a) = IF a = IPv4 THEN IP(p[26]) ELSE FALSE
          /\ IP(a) = IF a = TargetIP THEN Udp(p[23]) ELSE FALSE
          /\ Udp(a) = IF a = UDP THEN Port(p[34]) ELSE FALSE
          /\ Port(a) = IF a = TargetPort THEN TRUE ELSE FALSE
      BY Zenon
    <3> HIDE DEF Type, IP, Udp, Port
    <3>3. /\ w[1][a] = f[1][a] /\ w[3][a] = f[3][a]
          /\ w[5][a] = f[5][a] /\ w[7][a] = f[7][a]
      BY <1>2, <3>0, <3>1, Zenon DEF FilterSteps
    <3>4. w[2][a] = f[2][a]
      <4>1. w[2][a] = Type(a) /\ w[3][a] = IP(p[26]) /\ w[10][a] = FALSE
        BY <1>2
      <4>2. f[2][a] = IF a = IPv4 THEN w[3][a] ELSE w[10][a]
        BY <3>0 DEF FilterSteps
      <4>3. Type(a) = IF a = IPv4 THEN IP(p[26]) ELSE FALSE
        BY <3>2
      <4> QED
        BY <4>1, <4>2, <4>3, Zenon
    <3>5. w[4][a] = f[4][a]
      <4>1. w[4][a] = IP(a) /\ w[5][a] = Udp(p[23]) /\ w[10][a] = FALSE
        BY <1>2
      <4>2. f[4][a] = IF a = TargetIP THEN w[5][a] ELSE w[10][a]
        BY <3>0 DEF FilterSteps
      <4>3. IP(a) = IF a = TargetIP THEN Udp(p[23]) ELSE FALSE
        BY <3>2
      <4> QED
        BY <4>1, <4>2, <4>3, Zenon
    <3>6. w[6][a] = f[6][a]
      <4>1. w[6][a] = Udp(a) /\ w[7][a] = Port(p[34]) /\ w[10][a] = FALSE
        BY <1>2
      <4>2. f[6][a] = IF a = UDP THEN w[7][a] ELSE w[10][a]
        BY <3>0 DEF FilterSteps
      <4>3. Udp(a) = IF a = UDP THEN Port(p[34]) ELSE FALSE
        BY <3>2
      <4> QED
        BY <4>1, <4>2, <4>3, Zenon
    <3>7. w[8][a] = f[8][a]
      <4>1. w[8][a] = Port(a) /\ w[9][a] = TRUE /\ w[10][a] = FALSE
        BY <1>2
      <4>2. f[8][a] = IF a = TargetPort THEN w[9][a] ELSE w[10][a]
        BY <3>0 DEF FilterSteps
      <4>3. Port(a) = IF a = TargetPort THEN TRUE ELSE FALSE
        BY <3>2
      <4> QED
        BY <4>1, <4>2, <4>3, Zenon
    <3>8. w[9][a] = f[9][a] /\ w[10][a] = f[10][a]
      BY <1>2, <3>0 DEF FilterSteps
    <3> QED
      BY <3>3, <3>4, <3>5, <3>6, <3>7, <3>8 DEF f
  <2>2. \A i \in 1 .. 10 : w[i] = FilterStep(p, w)[i]
    <3> SUFFICES ASSUME NEW i \in 1 .. 10 PROVE w[i] = FilterStep(p, w)[i]
      OBVIOUS
    <3>1. \A a \in Values : w[i][a] = FilterStep(p, w)[i][a]
      BY <2>1
    <3> HIDE DEF Verdict
    <3> QED
      BY <3>1 DEF FilterStep
  <2> HIDE DEF Verdict
  <2> QED
    BY <2>2 DEF FilterStep
<1> DEFINE r == CHOOSE run : run = FilterStep(p, run)
<1>4. r = FilterStep(p, r)
  <2> HIDE DEF w
  <2> QED
    BY <1>3
<1>5. Accepts(p) = r[1][0]
  BY DEF Accepts, FilterStep
<1>r. FilterSteps(p, r, r)
  BY <1>4, FilterUnrolled
<1> HIDE DEF r
<1>6. r[1][0] <=> p \in Answers
  <2>1. /\ r[1][0] = r[2][p[12]]
        /\ r[2][p[12]] = IF p[12] = IPv4 THEN r[3][p[12]] ELSE r[10][p[12]]
        /\ r[3][p[12]] = r[4][p[26]]
        /\ r[10][p[12]] = FALSE
    BY <1>1, <1>r, Zenon DEF FilterSteps
  <2>2. /\ r[4][p[26]] = IF p[26] = TargetIP THEN r[5][p[26]] ELSE r[10][p[26]]
        /\ r[5][p[26]] = r[6][p[23]]
        /\ r[10][p[26]] = FALSE
    BY <1>1, <1>r, Zenon DEF FilterSteps
  <2>3. /\ r[6][p[23]] = IF p[23] = UDP THEN r[7][p[23]] ELSE r[10][p[23]]
        /\ r[7][p[23]] = r[8][p[34]]
        /\ r[10][p[23]] = FALSE
    BY <1>1, <1>r, Zenon DEF FilterSteps
  <2>4. /\ r[8][p[34]] = IF p[34] = TargetPort THEN r[9][p[34]] ELSE r[10][p[34]]
        /\ r[9][p[34]] = TRUE /\ r[10][p[34]] = FALSE
    BY <1>1, <1>r, Zenon DEF FilterSteps
  <2> QED
    BY <2>1, <2>2, <2>3, <2>4 DEF Answers
<1> QED
  BY <1>5, <1>6

\* The filter lets exactly the answers of the target through.
LEMMA AcceptedAreAnswers == Accepted = Answers
<1>1. \A p : p \in Answers => p \in Packets
  BY DEF Answers
<1> QED
  BY <1>1, FilterAccepts DEF Accepted

\* The filter is installed before the interface, so that nothing foreign gets in.
LEMMA FilterStepInv == ResourceInv /\ FilterInv /\ [Next]_vars => FilterInv'
<1> SUFFICES ASSUME ResourceInv, FilterInv, [Next]_vars PROVE FilterInv'
  OBVIOUS
<1> USE DEF FilterInv, Acquire, Call, Fails, RestKept, kernel
<1>1. CASE ConstructLinux \/ OpenBpf \/ AllocZbuf \/ InitZeroCopyBuffer
          \/ TryAllocZeroCopyBuffer \/ Fallback \/ InitBufferedMode \/ SetNonBlocking
  <2>1. pc' # "setInterface" /\ UNCHANGED <<bsd, filtered, bound, foreign>>
    BY <1>1 DEF ConstructLinux, OpenBpf, AllocZbuf, InitZeroCopyBuffer, TryAllocZeroCopyBuffer,
       Fallback, InitBufferedMode, SetNonBlocking
  <2> QED
    BY <2>1
<1>2. CASE SetSource
  <2>1. UNCHANGED <<bsd, bound, foreign>>
    BY <1>2 DEF SetSource
  <2>2. CASE filtered' = bsd
    BY <1>2, <2>1, <2>2 DEF SetSource
  <2>3. CASE UNCHANGED filtered /\ pc' = "delete"
    BY <2>1, <2>3
  <2> QED
    BY <1>2, <2>2, <2>3 DEF SetSource
<1>3. CASE InitInterface
  <2>1. pc' # "setInterface" /\ UNCHANGED <<bsd, filtered, foreign>> /\ (filtered <=> bsd)
    BY <1>3 DEF InitInterface
  <2>2. bound' => bsd
    BY <1>3 DEF InitInterface
  <2> QED
    BY <2>1, <2>2
<1>4. CASE Capture
  <2>1. filtered /\ UNCHANGED <<pc, bsd, filtered, bound>>
    BY <1>4 DEF Capture, socket
  <2>2. foreign' = {}
    BY <1>4, <2>1, AcceptedAreAnswers DEF Capture
  <2> QED
    BY <2>1, <2>2
<1>5. CASE Rotate \/ Delete
  BY <1>5 DEF Rotate, Delete, socket
<1>6. CASE Destroy
  BY <1>6 DEF Destroy
<1>7. CASE Receiver
  <2>1. UNCHANGED <<bsd, filtered, bound, foreign>> /\ pc' \in {"A", "B", "idle", "read"}
    BY <1>7 DEF Receiver, Receive, ReceiveBuffered, ReadZbuffer, SkipZbuffer, ReadPacket, EndRead,
       After, socket
  <2> QED
    BY <2>1
<1>8. CASE UNCHANGED vars
  BY <1>8 DEF vars, socket
<1> QED
  BY <1>1, <1>2, <1>3, <1>4, <1>5, <1>6, <1>7, <1>8 DEF Next, Ended

\* The program counts answers of the target only, and all that are captured.
THEOREM ReceiverOnlyAnswers == Spec => []OnlyAnswers
<1>1. Init => ResourceInv /\ FilterInv
  BY DEF Init, ResourceInv, FilterInv, Constructing, Constructed
<1>2. FilterInv => OnlyAnswers
  BY AcceptedAreAnswers DEF FilterInv, OnlyAnswers
<1> QED
  BY <1>1, <1>2, ResourceStep, FilterStepInv, PTL DEF Spec

-----------------------------------------------------------------------------
(***************************************************************************)
(* Types.                                                                  *)
(***************************************************************************)

\* The flags, and what is owned.
FlagsOK ==
    /\ bsd \in BOOLEAN /\ twice \in BOOLEAN /\ useZeroCopyBuffer \in BOOLEAN
    /\ second \in BOOLEAN /\ filtered \in BOOLEAN /\ bound \in BOOLEAN /\ withHeader \in BOOLEAN
    /\ owned \subseteq {"sd", "buffer", "A", "B"}

\* The buffers, the counters and the packets.
DataOK ==
    /\ store \in Buffers /\ fill \in [Buffers -> 0 .. Slots]
    /\ mem \in [Buffers \union {"buffer"} -> [1 .. Slots -> Nat]]
    /\ kernel_gen \in [Buffers -> 0 .. GenRange - 1] /\ user_gen \in [Buffers -> 0 .. GenRange - 1]
    /\ kernel_len \in [Buffers -> Nat] /\ queue \in Seq(Nat)
    /\ zhdr \in Buffers \union {"buffer"} /\ done \in Nat /\ size \in Int
    /\ captured \in Nat /\ foreign \subseteq Nat /\ counted \in Seq(Nat)

LEMMA FlagsStep == FlagsOK /\ [Next]_vars => FlagsOK'
<1> SUFFICES ASSUME FlagsOK, [Next]_vars PROVE FlagsOK'
  OBVIOUS
<1> USE DEF FlagsOK
<1>1. CASE UNCHANGED socket
  BY <1>1 DEF socket
<1>2. CASE ConstructLinux \/ OpenBpf \/ AllocZbuf \/ TryAllocZeroCopyBuffer \/ Fallback
           \/ InitBufferedMode \/ SetNonBlocking
  BY <1>2 DEF ConstructLinux, OpenBpf, AllocZbuf, TryAllocZeroCopyBuffer,
     Fallback, InitBufferedMode, SetNonBlocking, Acquire, Call, Fails, RestKept
<1>3. CASE InitZeroCopyBuffer
  BY <1>3 DEF InitZeroCopyBuffer, Acquire, Call, Fails, RestKept
<1>4. CASE SetSource \/ InitInterface \/ Destroy
  BY <1>4 DEF SetSource, InitInterface, Destroy, Fails
<1>5. CASE Capture \/ Rotate \/ Receiver \/ Delete \/ Ended
  <2>1. UNCHANGED socket
    BY <1>5 DEF Capture, Rotate, Receiver, Receive, ReceiveBuffered, ReadZbuffer, SkipZbuffer,
       ReadPacket, EndRead, Delete, Ended, vars
  <2> QED
    BY <1>1, <2>1
<1>6. CASE UNCHANGED vars
  BY <1>1, <1>6 DEF vars
<1> QED
  BY <1>2, <1>3, <1>4, <1>5, <1>6 DEF Next

\* The next generation is another one: there is more than one generation number.
LEMMA NextGeneration ==
    ASSUME NEW g \in 0 .. GenRange - 1
    PROVE  (g + 1) % GenRange \in 0 .. GenRange - 1 /\ (g + 1) % GenRange # g
<1>1. CASE g + 1 < GenRange
  <2>1. (g + 1) % GenRange = g + 1
    BY <1>1, BufferAssumption
  <2> QED
    BY <1>1, <2>1, BufferAssumption
<1>2. CASE g + 1 = GenRange
  <2>1. (g + 1) % GenRange = 0
    BY <1>2, BufferAssumption
  <2> QED
    BY <1>2, <2>1, BufferAssumption
<1> QED
  BY <1>1, <1>2, BufferAssumption

\* Chunks are counted in bytes.
LEMMA Bytes ==
    ASSUME NEW j \in Nat
    PROVE  /\ j * ChunkSize \in Nat /\ (j * ChunkSize) \div ChunkSize = j
           /\ (j + 1) * ChunkSize = j * ChunkSize + ChunkSize
<1>1. j * ChunkSize \in Nat /\ ChunkSize \in Nat \ {0}
  BY BufferAssumption
<1>2. (j * ChunkSize) \div ChunkSize = j
  BY <1>1
<1>3. (j + 1) * ChunkSize = j * ChunkSize + ChunkSize
  BY <1>1
<1> QED
  BY <1>1, <1>2, <1>3

\* read_buffer stops after k chunks also when the header of the buffer was taken off a
\* length that does not count it, for the header is smaller than a chunk.
LEMMA StopsAt ==
    ASSUME NEW j \in Nat, NEW k \in Nat, NEW h \in 0 .. ChunkSize - 1
    PROVE  j * ChunkSize < k * ChunkSize - h <=> j < k
<1>1. ChunkSize \in Nat \ {0} /\ j * ChunkSize \in Nat /\ k * ChunkSize \in Nat
  BY BufferAssumption
<1>2. CASE j < k
  <2>1. (k - j - 1) * ChunkSize >= 0
    BY <1>1, <1>2
  <2>2. (k - j - 1) * ChunkSize = k * ChunkSize - j * ChunkSize - ChunkSize
    BY <1>1
  <2> QED
    BY <1>1, <1>2, <2>1, <2>2
<1>3. CASE j >= k
  <2>1. (j - k) * ChunkSize >= 0
    BY <1>1, <1>3
  <2>2. (j - k) * ChunkSize = j * ChunkSize - k * ChunkSize
    BY <1>1
  <2> QED
    BY <1>1, <1>3, <2>1, <2>2
<1> QED
  BY <1>2, <1>3

LEMMA DataStep ==
    ASSUME DataOK, [Next]_vars, ReadPacket => Chunk \in Nat
    PROVE  DataOK'
<1> USE DEF DataOK
<1>b. store \in Buffers /\ Other(store) \in Buffers
  BY DEF Buffers, Other
<1>1. CASE UNCHANGED <<kernel, mem, program>>
  BY <1>1 DEF kernel, program
<1>2. CASE ConstructLinux \/ OpenBpf \/ AllocZbuf \/ InitZeroCopyBuffer
          \/ TryAllocZeroCopyBuffer \/ Fallback \/ InitBufferedMode \/ SetNonBlocking
  <2>1. RestKept
    BY <1>2 DEF ConstructLinux, OpenBpf, AllocZbuf, InitZeroCopyBuffer, TryAllocZeroCopyBuffer,
       Fallback, InitBufferedMode, SetNonBlocking
  <2> QED
    BY <1>1, <2>1 DEF RestKept
<1>3. CASE SetSource \/ InitInterface \/ Delete \/ Destroy \/ Ended \/ UNCHANGED vars
  BY <1>1, <1>3 DEF SetSource, InitInterface, Delete, Destroy, Ended, vars
<1>4. CASE Capture
  <2>1. captured' \in Nat
    BY <1>4 DEF Capture
  <2>2. foreign' \subseteq Nat
    <3>1. foreign' \subseteq foreign \union {captured'}
      BY <1>4, Zenon DEF Capture
    <3> QED
      BY <2>1, <3>1
  <2>3. CASE useZeroCopyBuffer
    <3>1. fill[store] + 1 \in 1 .. Slots
      <4>1. fill[store] \in 0 .. Slots
        BY <1>b
      <4>2. fill[store] < Slots
        BY <1>4, <2>3 DEF Capture
      <4> HIDE DEF DataOK
      <4> QED
        BY <4>1, <4>2, BufferAssumption
    <3>2. /\ fill' = [fill EXCEPT ![store] = fill[store] + 1]
          /\ mem' = [mem EXCEPT ![store][fill[store] + 1] = captured']
          /\ UNCHANGED <<queue, store, kernel_gen, kernel_len, program>>
      BY <1>4, <2>3 DEF Capture
    <3>3. fill' \in [Buffers -> 0 .. Slots]
      BY <3>1, <3>2
    <3>4. mem' \in [Buffers \union {"buffer"} -> [1 .. Slots -> Nat]]
      BY <2>1, <1>b, <3>1, <3>2
    <3> QED
      BY <2>1, <2>2, <3>2, <3>3, <3>4 DEF program
  <2>4. CASE ~useZeroCopyBuffer
    <3>1. queue' = Append(queue, captured') /\ UNCHANGED <<fill, mem, store, kernel_gen, kernel_len, program>>
      BY <1>4, <2>4 DEF Capture
    <3>2. queue' \in Seq(Nat)
      BY <2>1, <3>1
    <3> QED
      BY <2>1, <2>2, <3>1, <3>2 DEF program
  <2> QED
    BY <2>3, <2>4
<1>5. CASE Rotate
  <2>1. kernel_gen' \in [Buffers -> 0 .. GenRange - 1]
    <3>1. kernel_gen[store] \in 0 .. GenRange - 1
      BY <1>b
    <3>2. (kernel_gen[store] + 1) % GenRange \in 0 .. GenRange - 1
      BY <3>1, NextGeneration
    <3>3. kernel_gen' = [kernel_gen EXCEPT ![store] = (kernel_gen[store] + 1) % GenRange]
      BY <1>5 DEF Rotate
    <3> QED
      BY <1>b, <3>2, <3>3
  <2>2. kernel_len' \in [Buffers -> Nat]
    <3>1. fill[store] \in Nat
      BY <1>b, BufferAssumption
    <3>2. fill[store] * ChunkSize \in Nat
      BY <3>1, Bytes
    <3>3. (fill[store] * ChunkSize) + (IF withHeader THEN HeaderSize ELSE 0) \in Nat
      <4>1. (IF withHeader THEN HeaderSize ELSE 0) \in Nat
        BY BufferAssumption
      <4> HIDE DEF DataOK
      <4> QED
        BY <3>2, <4>1
    <3>4. kernel_len' = [kernel_len EXCEPT ![store] =
                (fill[store] * ChunkSize) + (IF withHeader THEN HeaderSize ELSE 0)]
      BY <1>5 DEF Rotate
    <3> QED
      BY <1>b, <3>3, <3>4
  <2>3. fill' \in [Buffers -> 0 .. Slots] /\ store' \in Buffers
    BY <1>5, <1>b, BufferAssumption DEF Rotate
  <2> QED
    BY <1>5, <2>1, <2>2, <2>3 DEF Rotate, program
<1>6. CASE Receive \/ \E b \in Buffers : SkipZbuffer(b)
  BY <1>1, <1>6 DEF Receive, SkipZbuffer
<1>7. CASE ReceiveBuffered
  <2>1. PICK n \in 1 .. Len(queue) :
           /\ n <= Slots
           /\ size' = n * ChunkSize
           /\ mem' = [mem EXCEPT !["buffer"] = [i \in 1 .. Slots |-> IF i <= n THEN queue[i] ELSE @[i]]]
           /\ queue' = SubSeq(queue, n + 1, Len(queue))
    BY <1>7 DEF ReceiveBuffered
  <2>2. size' \in Int
    BY <2>1, Bytes
  <2>q. queue \in Seq(Nat) /\ Len(queue) \in Nat /\ \A i \in 1 .. Len(queue) : queue[i] \in Nat
    OBVIOUS
  <2>3. queue' \in Seq(Nat)
    <3> HIDE DEF DataOK
    <3> QED
      BY <2>1, <2>q, SubSeqProperties
  <2>4. [i \in 1 .. Slots |-> IF i <= n THEN queue[i] ELSE mem["buffer"][i]] \in [1 .. Slots -> Nat]
    <3>1. \A i \in 1 .. Slots : i <= n => queue[i] \in Nat
      BY <2>1, <2>q, BufferAssumption
    <3>2. mem["buffer"] \in [1 .. Slots -> Nat]
      OBVIOUS
    <3> QED
      BY <3>1, <3>2
  <2>5. mem' \in [Buffers \union {"buffer"} -> [1 .. Slots -> Nat]]
    BY <2>1, <2>4
  <2>6. UNCHANGED <<store, fill, kernel_gen, kernel_len, captured, foreign, user_gen, counted>>
          /\ zhdr' = "buffer" /\ done' = 0
    BY <1>7 DEF ReceiveBuffered
  <2> QED
    BY <2>2, <2>3, <2>5, <2>6
<1>8. ASSUME NEW b \in Buffers, ReadZbuffer(b) PROVE DataOK'
  <2>1. /\ zhdr' = b /\ done' = 0 /\ size' = kernel_len[b] - HeaderSize
        /\ UNCHANGED <<kernel, mem, user_gen, counted>>
    BY <1>8 DEF ReadZbuffer
  <2>2. size' \in Int /\ zhdr' \in Buffers \union {"buffer"}
    BY <1>8, <2>1, BufferAssumption
  <2> QED
    BY <2>1, <2>2 DEF kernel
<1>9. CASE ReadPacket
  <2>1. Chunk \in Nat
    BY <1>9
  <2>2. counted' = Append(counted, Chunk) /\ done' = done + ChunkSize
    BY <1>9 DEF ReadPacket
  <2>3. counted' \in Seq(Nat) /\ done' \in Nat
    BY <2>1, <2>2, BufferAssumption
  <2>4. UNCHANGED <<kernel, mem, user_gen, zhdr, size>>
    BY <1>9 DEF ReadPacket
  <2> QED
    BY <2>3, <2>4 DEF kernel
<1>10. CASE EndRead
  BY <1>10, BufferAssumption DEF EndRead, kernel
<1> QED
  BY <1>2, <1>3, <1>4, <1>5, <1>6, <1>7, <1>8, <1>9, <1>10 DEF Next, Receiver

-----------------------------------------------------------------------------
(***************************************************************************)
(* Every packet once.                                                      *)
(***************************************************************************)

\* Nothing is captured while the receiver is constructed.
LEMMA FreshStep == FreshInv /\ [Next]_vars => FreshInv'
<1> SUFFICES ASSUME FreshInv, [Next]_vars, pc' \in Constructing
             PROVE  FreshInv'
  BY DEF FreshInv
<1> USE DEF Constructing
<1>1. CASE ConstructLinux \/ OpenBpf \/ AllocZbuf \/ InitZeroCopyBuffer
          \/ TryAllocZeroCopyBuffer \/ Fallback \/ InitBufferedMode \/ SetNonBlocking
  <2>1. RestKept /\ pc \in Constructing
    BY <1>1 DEF ConstructLinux, OpenBpf, AllocZbuf, InitZeroCopyBuffer, TryAllocZeroCopyBuffer,
       Fallback, InitBufferedMode, SetNonBlocking, Acquire, Call, Fails
  <2> QED
    BY <2>1 DEF RestKept, FreshInv, kernel, program
<1>2. CASE SetSource \/ InitInterface \/ Delete \/ Destroy
  BY <1>2 DEF SetSource, InitInterface, Delete, Destroy, Fails
<1>3. CASE Capture \/ Rotate
  BY <1>3 DEF Capture, Rotate, FreshInv
<1>4. CASE Receiver
  <2>1. pc' \in {"A", "B", "idle", "read"}
    BY <1>4 DEF Receiver, Receive, ReceiveBuffered, ReadZbuffer, SkipZbuffer, ReadPacket, EndRead,
       After
  <2> QED
    BY <2>1
<1>5. CASE UNCHANGED vars
  BY <1>5 DEF vars, socket, kernel, program, FreshInv
<1> QED
  BY <1>1, <1>2, <1>3, <1>4, <1>5 DEF Next, Ended

\* A buffer that holds the k packets after number base, of which n - base have been
\* counted: read_buffer goes on until all are, and the next one it finds is n + 1.
LEMMA ReadAt ==
    ASSUME DataOK, NEW base \in Nat, NEW k \in 0 .. Slots, NEW n \in base .. base + k,
           NEW h \in 0 .. ChunkSize - 1,
           \A j \in 1 .. k : mem[zhdr][j] = base + j,
           size = k * ChunkSize - h, done = (n - base) * ChunkSize
    PROVE  (More <=> n < base + k) /\ (More => Chunk = n + 1)
<1> DEFINE j == n - base
<1>1. j \in 0 .. k /\ n = base + j /\ k \in Nat
  BY BufferAssumption
<1>2. done < size <=> j < k
  BY <1>1, StopsAt
<1>3. done \div ChunkSize = j
  BY <1>1, Bytes
<1> HIDE DEF j
<1>4. j < k => Chunk = n + 1
  BY <1>1, <1>3 DEF Chunk
<1> QED
  BY <1>1, <1>2, <1>4 DEF More

\* Where the packets end that have been handed to the program.
Limit == IF useZeroCopyBuffer THEN Stored ELSE Queued

\* read_buffer finds the packet that follows the ones counted, until there is none left.
LEMMA Reading ==
    ASSUME DataOK, CountInv, pc = "read"
    PROVE  /\ Len(counted) \in Nat /\ Limit \in Nat
           /\ More <=> Len(counted) < Limit
           /\ ~More => Len(counted) = Limit
           /\ More => Chunk = Len(counted) + 1
<1> DEFINE n == Len(counted)
<1>0. n \in Nat
  BY DEF DataOK
<1> HIDE DEF n
<1>1. CASE useZeroCopyBuffer
  <2> DEFINE o == Other(store)
             k == fill[o]
             h == IF withHeader THEN 0 ELSE HeaderSize
  <2>1. ZeroCopyInv /\ ~Acknowledged(o)
    BY <1>1 DEF CountInv, ZeroCopyInv
  <2>2. /\ Handed >= 0 /\ (\A j \in 1 .. fill[o] : mem[o][j] = Handed + j)
        /\ kernel_len[o] = (fill[o] * ChunkSize) + (IF withHeader THEN HeaderSize ELSE 0)
        /\ zhdr = o /\ size = kernel_len[zhdr] - HeaderSize
        /\ n \in Handed .. Stored /\ done = (n - Handed) * ChunkSize
    BY <2>1 DEF ZeroCopyInv, Holds, n
  <2>3. store \in Buffers /\ o \in Buffers /\ k \in 0 .. Slots /\ captured \in Nat
          /\ fill[store] \in Nat
    BY BufferAssumption DEF DataOK, Buffers, Other
  <2>4. Stored \in Int /\ Handed \in Nat /\ Stored = Handed + k
    BY <2>2, <2>3 DEF Stored, Handed
  <2>5. h \in 0 .. ChunkSize - 1
    BY BufferAssumption
  <2>6. k * ChunkSize \in Nat
    BY <2>3, Bytes, BufferAssumption
  <2>7. size = k * ChunkSize - h
    BY <2>2, <2>6, BufferAssumption
  <2>8. \A j \in 1 .. k : mem[zhdr][j] = Handed + j
    BY <2>2
  <2> HIDE DEF k, h
  <2>9. n \in Handed .. Handed + k /\ done = (n - Handed) * ChunkSize
    BY <2>2, <2>4
  <2>10. (More <=> n < Handed + k) /\ (More => Chunk = n + 1)
    BY <2>3, <2>4, <2>5, <2>7, <2>8, <2>9, ReadAt
  <2>11. Limit = Handed + k
    BY <1>1, <2>4 DEF Limit
  <2> QED
    BY <1>0, <2>3, <2>4, <2>9, <2>10, <2>11 DEF n
<1>2. CASE ~useZeroCopyBuffer
  <2>1. PICK k \in 1 .. Slots :
               /\ zhdr = "buffer" /\ size = k * ChunkSize /\ k <= Queued
               /\ \A j \in 1 .. k : mem["buffer"][j] = Queued - k + j
               /\ n \in Queued - k .. Queued
               /\ done = (n - (Queued - k)) * ChunkSize
    BY <1>2 DEF CountInv, BufferedInv, n
  <2> DEFINE base == Queued - k
  <2>2. Queued \in Nat
    BY <1>2 DEF CountInv, BufferedInv, Queued, DataOK
  <2>3. base \in Nat /\ Queued = base + k /\ k \in 0 .. Slots
    BY <2>1, <2>2, BufferAssumption
  <2>4. \A j \in 1 .. k : mem[zhdr][j] = base + j
    BY <2>1
  <2>5. k * ChunkSize \in Nat
    BY <2>3, Bytes, BufferAssumption
  <2>6. size = k * ChunkSize - 0 /\ 0 \in 0 .. ChunkSize - 1
    BY <2>1, <2>5, BufferAssumption
  <2>7. n \in base .. base + k /\ done = (n - base) * ChunkSize
    BY <2>1, <2>2, <2>3
  <2> HIDE DEF base
  <2>8. (More <=> n < base + k) /\ (More => Chunk = n + 1)
    BY <2>3, <2>4, <2>6, <2>7, ReadAt
  <2> QED
    BY <1>0, <1>2, <2>2, <2>3, <2>7, <2>8 DEF n, Limit
<1> QED
  BY <1>1, <1>2

\* A step that moves no packet, outside of read_buffer.
LEMMA CountIdle ==
    ASSUME CountInv, pc # "read", pc' # "read",
           UNCHANGED <<useZeroCopyBuffer, withHeader, kernel, mem, user_gen, counted>>,
           ~useZeroCopyBuffer => pc' \notin {"A", "B"}
    PROVE  CountInv'
<1>1. EveryPacketOnce'
  BY DEF CountInv, EveryPacketOnce
<1>2. CASE useZeroCopyBuffer
  <2>1. ZeroCopyInv
    BY <1>2 DEF CountInv
  <2>2. ZeroCopyInv'
    BY <2>1 DEF ZeroCopyInv, Acknowledged, Stored, Handed, Holds, Other, kernel
  <2> QED
    BY <1>1, <1>2, <2>2 DEF CountInv
<1>3. CASE ~useZeroCopyBuffer
  <2>1. BufferedInv
    BY <1>3 DEF CountInv
  <2>2. BufferedInv'
    BY <1>3, <2>1 DEF BufferedInv, Queued, kernel
  <2> QED
    BY <1>1, <1>3, <2>2 DEF CountInv
<1> QED
  BY <1>2, <1>3

\* The kernel grants the buffers: they are empty, and acknowledged.
LEMMA CountConstruct ==
    ASSUME DataOK, FreshInv, ResourceInv, CountInv,
           \/ ConstructLinux \/ OpenBpf \/ AllocZbuf \/ InitZeroCopyBuffer
           \/ TryAllocZeroCopyBuffer \/ Fallback \/ InitBufferedMode \/ SetNonBlocking
    PROVE  CountInv'
<1>1. /\ pc \in Constructing /\ pc' \in Constructing \union {"setSource", "failed"}
      /\ RestKept
  BY DEF ConstructLinux, OpenBpf, AllocZbuf, InitZeroCopyBuffer, TryAllocZeroCopyBuffer,
     Fallback, InitBufferedMode, SetNonBlocking, Acquire, Call, Fails, Constructing
<1>2. pc # "read" /\ pc' \notin {"read", "A", "B"}
  BY <1>1 DEF Constructing
<1>3. CASE UNCHANGED useZeroCopyBuffer
  BY <1>1, <1>2, <1>3, CountIdle DEF RestKept, program
<1>4. CASE useZeroCopyBuffer' # useZeroCopyBuffer
  <2>1. useZeroCopyBuffer'
    BY <1>4 DEF ConstructLinux, OpenBpf, AllocZbuf, InitZeroCopyBuffer, TryAllocZeroCopyBuffer,
       Fallback, InitBufferedMode, SetNonBlocking
  <2>2. /\ captured = 0 /\ counted = <<>> /\ fill = [b \in Buffers |-> 0]
        /\ kernel_gen = user_gen
    BY <1>1 DEF FreshInv
  <2>3. UNCHANGED <<captured, counted, fill, kernel_gen, user_gen, store, mem>>
    BY <1>1 DEF RestKept, kernel, program
  <2>4. Stored' = 0 /\ fill'[store'] = 0
    BY <2>2, <2>3 DEF Stored, DataOK
  <2>5. ZeroCopyInv'
    BY <1>2, <2>2, <2>3, <2>4 DEF ZeroCopyInv, Acknowledged, Holds
  <2>6. EveryPacketOnce'
    BY <2>2, <2>3 DEF EveryPacketOnce
  <2> QED
    BY <2>1, <2>5, <2>6 DEF CountInv
<1> QED
  BY <1>3, <1>4

\* A packet captured goes behind all others.
LEMMA CountCapture == ASSUME DataOK, CountInv, Capture PROVE CountInv'
<1>1. /\ captured' = captured + 1
      /\ UNCHANGED <<pc, useZeroCopyBuffer, withHeader, store, kernel_gen, kernel_len, user_gen,
                     zhdr, done, size, counted>>
  BY DEF Capture, socket, program
<1>2. EveryPacketOnce'
  BY <1>1 DEF CountInv, EveryPacketOnce
<1>3. captured \in Nat /\ Len(queue) \in Nat /\ store \in Buffers /\ Other(store) \in Buffers
        /\ store # Other(store)
  BY DEF DataOK, Buffers, Other
<1>4. CASE useZeroCopyBuffer
  <2> DEFINE o == Other(store)
  <2>1. ZeroCopyInv
    BY <1>4 DEF CountInv
  <2>2. /\ fill' = [fill EXCEPT ![store] = @ + 1]
        /\ mem' = [mem EXCEPT ![store][fill[store] + 1] = captured']
    BY <1>4 DEF Capture
  <2>3. fill[store] \in Nat /\ fill[o] \in Nat
    BY <1>3, BufferAssumption DEF DataOK
  <2>4. fill'[store] = fill[store] + 1 /\ fill'[o] = fill[o] /\ mem'[o] = mem[o]
    BY <1>3, <2>2 DEF DataOK
  <2>5. Stored' = Stored /\ Handed' = Handed
    BY <1>1, <1>3, <2>3, <2>4 DEF Stored, Handed, Other
  <2>6. \A j \in 1 .. fill[store] + 1 : mem'[store][j] = Stored + j
    <3>1. \A j \in 1 .. fill[store] : mem[store][j] = Stored + j
      BY <2>1 DEF ZeroCopyInv, Holds
    <3>2. fill[store] + 1 \in 1 .. Slots
      <4>1. fill[store] < Slots
        BY <1>4 DEF Capture
      <4> QED
        BY <2>3, <4>1, BufferAssumption
    <3>3. mem'[store] = [mem[store] EXCEPT ![fill[store] + 1] = captured']
      BY <1>3, <2>2 DEF DataOK
    <3>4. mem[store] \in [1 .. Slots -> Nat]
      BY <1>3 DEF DataOK
    <3>5. captured' = Stored + (fill[store] + 1)
      BY <1>1, <1>3, <2>3 DEF Stored
    <3>6. mem'[store][fill[store] + 1] = captured'
      BY <3>2, <3>3, <3>4
    <3>7. ASSUME NEW j \in 1 .. fill[store] PROVE mem'[store][j] = mem[store][j]
      BY <2>3, <3>2, <3>3, <3>4, BufferAssumption
    <3> QED
      BY <2>3, <3>1, <3>5, <3>6, <3>7
  <2>7. Holds(store, Stored)'
    BY <1>1, <2>4, <2>5, <2>6 DEF Holds
  <2>8. Holds(o, Handed) => Holds(o, Handed)'
    BY <1>1, <2>4, <2>5 DEF Holds
  <2>9. ZeroCopyInv'
    BY <1>1, <2>1, <2>4, <2>5, <2>7, <2>8 DEF ZeroCopyInv, Acknowledged, Other
  <2> QED
    BY <1>1, <1>2, <1>4, <2>9 DEF CountInv
<1>5. CASE ~useZeroCopyBuffer
  <2>1. BufferedInv
    BY <1>5 DEF CountInv
  <2>2. queue' = Append(queue, captured') /\ mem' = mem
    BY <1>5 DEF Capture
  <2>3. Len(queue') = Len(queue) + 1 /\ Queued' = Queued /\ Queued \in Int
    BY <1>1, <1>3, <2>2 DEF Queued, DataOK
  <2>4. \A j \in 1 .. Len(queue') : queue'[j] = Queued + j
    <3>1. \A j \in 1 .. Len(queue) : queue[j] = Queued + j
      BY <2>1 DEF BufferedInv
    <3>2. captured' = Queued + (Len(queue) + 1)
      BY <1>1, <1>3 DEF Queued
    <3>3. queue \in Seq(Nat) /\ captured' \in Nat
      BY <1>1, <1>3 DEF DataOK
    <3> QED
      BY <1>3, <2>2, <2>3, <3>1, <3>2, <3>3
  <2>5. BufferedInv'
    BY <1>1, <2>1, <2>2, <2>3, <2>4 DEF BufferedInv
  <2> QED
    BY <1>1, <1>2, <1>5, <2>5 DEF CountInv
<1> QED
  BY <1>4, <1>5

\* The kernel hands its buffer over and goes on in the other one, which is empty then.
LEMMA CountRotate == ASSUME DataOK, CountInv, Rotate PROVE CountInv'
<1> DEFINE o == Other(store)
           n == fill[store]
<1>1. /\ store' = o /\ Acknowledged(o) /\ useZeroCopyBuffer
      /\ kernel_gen' = [kernel_gen EXCEPT ![store] = (@ + 1) % GenRange]
      /\ kernel_len' = [kernel_len EXCEPT ![store] =
                            (n * ChunkSize) + (IF withHeader THEN HeaderSize ELSE 0)]
      /\ fill' = [fill EXCEPT ![o] = 0]
      /\ UNCHANGED <<pc, useZeroCopyBuffer, withHeader, captured, mem, user_gen,
                     zhdr, done, size, counted>>
  BY DEF Rotate, socket, program
<1>2. /\ captured \in Nat /\ store \in Buffers /\ o \in Buffers /\ store # o
      /\ Other(o) = store
  BY DEF DataOK, Buffers, Other
<1>3. n \in Nat
  BY <1>2, BufferAssumption DEF DataOK
<1>4. /\ ZeroCopyInv /\ pc # "read" /\ Len(counted) = Stored
      /\ Stored >= 0 /\ Holds(store, Stored) /\ Acknowledged(store)
  BY <1>1 DEF CountInv, ZeroCopyInv
<1>5. fill'[o] = 0 /\ fill'[store] = n
  BY <1>1, <1>2 DEF DataOK
<1>6. /\ kernel_len'[store] = (n * ChunkSize) + (IF withHeader THEN HeaderSize ELSE 0)
      /\ kernel_gen'[store] = (kernel_gen[store] + 1) % GenRange
      /\ kernel_gen'[o] = kernel_gen[o]
  BY <1>1, <1>2 DEF DataOK
<1>7. kernel_gen[store] \in 0 .. GenRange - 1
  BY <1>2 DEF DataOK
<1>8. kernel_gen'[store] # kernel_gen[store]
  BY <1>6, <1>7, NextGeneration
<1>9. Acknowledged(store)' /\ ~Acknowledged(Other(store))' /\ Other(store)' = store
  BY <1>1, <1>2, <1>4, <1>6, <1>8 DEF Acknowledged, Other, Buffers
<1>10. Stored' = captured /\ Handed' = Stored
  BY <1>1, <1>2, <1>3, <1>5, <1>9 DEF Stored, Handed
<1>11. Holds(store, Stored)' /\ Holds(Other(store), Handed)'
  BY <1>1, <1>2, <1>3, <1>4, <1>5, <1>9, <1>10 DEF Holds
<1>12. ZeroCopyInv'
  BY <1>1, <1>2, <1>4, <1>5, <1>6, <1>9, <1>10, <1>11 DEF ZeroCopyInv
<1>13. EveryPacketOnce'
  BY <1>1 DEF CountInv, EveryPacketOnce
<1> QED
  BY <1>1, <1>12, <1>13 DEF CountInv

\* read() takes the first packets of the queue.
LEMMA CountReceiveBuffered == ASSUME DataOK, CountInv, ReceiveBuffered PROVE CountInv'
<1>1. /\ pc = "idle" /\ ~useZeroCopyBuffer /\ pc' = "read" /\ zhdr' = "buffer" /\ done' = 0
      /\ UNCHANGED <<useZeroCopyBuffer, captured, counted>>
  BY DEF ReceiveBuffered, socket
<1>2. PICK n \in 1 .. Len(queue) :
           /\ n <= Slots
           /\ size' = n * ChunkSize
           /\ mem' = [mem EXCEPT !["buffer"] = [i \in 1 .. Slots |-> IF i <= n THEN queue[i] ELSE @[i]]]
           /\ queue' = SubSeq(queue, n + 1, Len(queue))
  BY DEF ReceiveBuffered
<1>3. queue \in Seq(Nat) /\ Len(queue) \in Nat /\ captured \in Nat
  BY DEF DataOK
<1>4. /\ Queued >= 0 /\ (\A j \in 1 .. Len(queue) : queue[j] = Queued + j)
      /\ Len(counted) = Queued
  BY <1>1 DEF CountInv, BufferedInv
<1>5. Len(queue') = Len(queue) - n /\ \A j \in 1 .. Len(queue) - n : queue'[j] = queue[n + j]
  <2>1. /\ Len(queue') = IF n + 1 <= Len(queue) THEN Len(queue) - (n + 1) + 1 ELSE 0
        /\ \A j \in 1 .. Len(queue) - (n + 1) + 1 : queue'[j] = queue[(n + 1) + j - 1]
    BY <1>2, <1>3, SubSeqProperties
  <2> QED
    BY <1>2, <1>3, <2>1
<1>6. Queued' = Queued + n /\ Queued \in Nat
  <2>1. Queued = captured - Len(queue) /\ Queued' = captured - Len(queue')
    BY <1>1 DEF Queued
  <2>2. Len(queue') = Len(queue) - n
    BY <1>5
  <2>3. n \in Nat /\ Queued >= 0 /\ captured \in Nat /\ Len(queue) \in Nat
    BY <1>2, <1>3, <1>4
  <2>4. Queued \in Int
    BY <2>1, <2>3
  <2> QED
    BY <2>1, <2>2, <2>3, <2>4
<1>7. \A j \in 1 .. Len(queue') : queue'[j] = Queued' + j
  BY <1>2, <1>3, <1>4, <1>5, <1>6
<1>8. n \in 1 .. Slots
  BY <1>2, <1>3, BufferAssumption
<1>9. \A j \in 1 .. n : mem'["buffer"][j] = Queued' - n + j
  <2>1. mem'["buffer"] = [i \in 1 .. Slots |-> IF i <= n THEN queue[i] ELSE mem["buffer"][i]]
    BY <1>2 DEF DataOK
  <2>2. \A j \in 1 .. n : mem'["buffer"][j] = queue[j]
    BY <1>8, <2>1, BufferAssumption
  <2>3. \A j \in 1 .. n : queue[j] = Queued + j
    BY <1>2, <1>3, <1>4
  <2>4. Queued' - n = Queued
    BY <1>2, <1>6
  <2> QED
    BY <2>2, <2>3, <2>4
<1>10. n <= Queued' /\ Len(counted') \in Queued' - n .. Queued'
         /\ done' = (Len(counted') - (Queued' - n)) * ChunkSize
  <2>1. Len(counted') - (Queued' - n) = 0 /\ Len(counted') = Queued
    BY <1>1, <1>4, <1>6
  <2> QED
    BY <1>1, <1>6, <2>1, BufferAssumption
<1>11. BufferedInv'
  <2>1. Queued' >= 0 /\ pc' \notin {"A", "B"}
    BY <1>1, <1>2, <1>6
  <2>2. \E k \in 1 .. Slots :
               /\ zhdr' = "buffer" /\ size' = k * ChunkSize /\ k <= Queued'
               /\ \A j \in 1 .. k : mem'["buffer"][j] = Queued' - k + j
               /\ Len(counted') \in Queued' - k .. Queued'
               /\ done' = (Len(counted') - (Queued' - k)) * ChunkSize
    BY <1>1, <1>2, <1>8, <1>9, <1>10
  <2> QED
    BY <1>1, <1>7, <2>1, <2>2, Zenon DEF BufferedInv
<1>12. EveryPacketOnce'
  BY <1>1 DEF CountInv, EveryPacketOnce
<1> QED
  BY <1>1, <1>11, <1>12 DEF CountInv

\* The buffer receive has found is the one that was handed over.
LEMMA CountReadZbuffer ==
    ASSUME DataOK, CountInv, NEW b \in Buffers, ReadZbuffer(b)
    PROVE  CountInv'
<1>1. /\ pc = b /\ ~Acknowledged(b)
      /\ pc' = "read" /\ zhdr' = b /\ done' = 0 /\ size' = kernel_len[b] - HeaderSize
      /\ UNCHANGED <<useZeroCopyBuffer, withHeader, kernel, mem, user_gen, counted>>
  BY DEF ReadZbuffer, socket, buffer_check
<1>2. useZeroCopyBuffer
  BY <1>1 DEF CountInv, BufferedInv, Buffers
<1>3. ZeroCopyInv /\ b = Other(store) /\ pc # "read"
  BY <1>1, <1>2 DEF CountInv, ZeroCopyInv, Buffers, Other, DataOK
<1>4. /\ Handed >= 0 /\ Holds(Other(store), Handed) /\ Len(counted) = Handed
      /\ kernel_len[b] = (fill[b] * ChunkSize) + (IF withHeader THEN HeaderSize ELSE 0)
  BY <1>1, <1>3 DEF ZeroCopyInv
<1>5. fill[b] \in Nat /\ fill[store] \in Nat /\ captured \in Nat
  BY BufferAssumption DEF DataOK
<1>6. Handed \in Nat /\ Stored = Handed + fill[b]
  BY <1>3, <1>4, <1>5 DEF Handed, Stored
<1>7. Len(counted) \in Handed .. Stored /\ 0 = (Len(counted) - Handed) * ChunkSize
  BY <1>4, <1>5, <1>6, BufferAssumption
<1>8. Handed' = Handed /\ Stored' = Stored /\ store' = store
  BY <1>1 DEF Handed, Stored, kernel
<1>9. ZeroCopyInv'
  BY <1>1, <1>3, <1>4, <1>7, <1>8 DEF ZeroCopyInv, Acknowledged, Holds, kernel
<1>10. EveryPacketOnce'
  BY <1>1 DEF CountInv, EveryPacketOnce
<1> QED
  BY <1>1, <1>2, <1>9, <1>10 DEF CountInv

\* read_buffer counts the packet that follows.
LEMMA CountReadPacket == ASSUME DataOK, CountInv, ReadPacket PROVE CountInv'
<1> DEFINE n == Len(counted)
<1>1. /\ pc = "read" /\ More /\ counted' = Append(counted, Chunk) /\ done' = done + ChunkSize
      /\ UNCHANGED <<pc, useZeroCopyBuffer, withHeader, kernel, mem, user_gen, zhdr, size>>
  BY DEF ReadPacket, socket
<1>2. n \in Nat /\ n < Limit /\ Limit \in Nat /\ Chunk = n + 1 /\ counted \in Seq(Nat)
  BY <1>1, Reading DEF DataOK
<1>3. Len(counted') = n + 1 /\ EveryPacketOnce'
  <2>1. \A i \in 1 .. n : counted[i] = i
    BY DEF CountInv, EveryPacketOnce
  <2>2. counted' = Append(counted, n + 1)
    BY <1>1, <1>2
  <2>3. Len(counted') = n + 1 /\ \A i \in 1 .. n + 1 : counted'[i] = i
    BY <1>2, <2>1, <2>2
  <2> QED
    BY <2>3 DEF EveryPacketOnce
<1> HIDE DEF n
<1>4. CASE useZeroCopyBuffer
  <2>1. ZeroCopyInv /\ ~Acknowledged(Other(store))
    BY <1>1, <1>4 DEF CountInv, ZeroCopyInv
  <2>2. n \in Handed .. Stored /\ done = (n - Handed) * ChunkSize /\ Handed >= 0
    BY <1>1, <2>1 DEF ZeroCopyInv, n
  <2>3. Handed' = Handed /\ Stored' = Stored /\ store' = store
    BY <1>1 DEF Handed, Stored, kernel
  <2>4. Stored \in Nat /\ Handed \in Nat
    <3>1. Stored \in Nat
      BY <1>2, <1>4 DEF Limit
    <3>2. fill[Other(store)] \in Nat
      BY BufferAssumption DEF DataOK, Other, Buffers
    <3> QED
      BY <2>2, <3>1, <3>2 DEF Handed
  <2>5. n + 1 \in Handed .. Stored
    BY <1>2, <1>4, <2>2, <2>4 DEF Limit
  <2>6. done' = ((n + 1) - Handed) * ChunkSize
    <3>1. n - Handed \in Nat /\ (n + 1) - Handed = (n - Handed) + 1
      BY <1>2, <2>2, <2>4
    <3>2. ((n - Handed) + 1) * ChunkSize = (n - Handed) * ChunkSize + ChunkSize
      BY <3>1, Bytes
    <3> QED
      BY <1>1, <2>2, <3>1, <3>2
  <2>7. ZeroCopyInv'
    BY <1>1, <1>3, <2>1, <2>3, <2>5, <2>6 DEF ZeroCopyInv, Acknowledged, Holds, kernel
  <2> QED
    BY <1>1, <1>3, <1>4, <2>7 DEF CountInv
<1>5. CASE ~useZeroCopyBuffer
  <2>1. PICK k \in 1 .. Slots :
               /\ zhdr = "buffer" /\ size = k * ChunkSize /\ k <= Queued
               /\ \A j \in 1 .. k : mem["buffer"][j] = Queued - k + j
               /\ n \in Queued - k .. Queued
               /\ done = (n - (Queued - k)) * ChunkSize
    BY <1>1, <1>5 DEF CountInv, BufferedInv, n
  <2>2. Queued \in Nat /\ Queued' = Queued /\ queue' = queue /\ k \in Nat
    BY <1>1, <1>2, <1>5, BufferAssumption DEF Limit, Queued, kernel
  <2>3. n + 1 \in Queued - k .. Queued
    BY <1>2, <1>5, <2>1, <2>2 DEF Limit
  <2>4. done' = ((n + 1) - (Queued - k)) * ChunkSize
    <3>1. n - (Queued - k) \in Nat /\ (n + 1) - (Queued - k) = (n - (Queued - k)) + 1
      BY <1>2, <2>1, <2>2
    <3>2. ((n - (Queued - k)) + 1) * ChunkSize = (n - (Queued - k)) * ChunkSize + ChunkSize
      BY <3>1, Bytes
    <3> QED
      BY <1>1, <2>1, <3>1, <3>2
  <2>5. \E m \in 1 .. Slots :
               /\ zhdr' = "buffer" /\ size' = m * ChunkSize /\ m <= Queued'
               /\ \A j \in 1 .. m : mem'["buffer"][j] = Queued' - m + j
               /\ Len(counted') \in Queued' - m .. Queued'
               /\ done' = (Len(counted') - (Queued' - m)) * ChunkSize
    BY <1>1, <1>3, <2>1, <2>2, <2>3, <2>4
  <2>6. Queued' >= 0 /\ (\A j \in 1 .. Len(queue') : queue'[j] = Queued' + j)
          /\ pc' \notin {"A", "B"} /\ pc' = "read"
    BY <1>1, <1>5, <2>2 DEF CountInv, BufferedInv
  <2>7. BufferedInv'
    BY <2>5, <2>6, Zenon DEF BufferedInv
  <2> QED
    BY <1>1, <1>3, <1>5, <2>7 DEF CountInv
<1> QED
  BY <1>4, <1>5

\* read_buffer returns when all packets of its buffer are counted, and the buffer is
\* given back only then.
LEMMA CountEndRead == ASSUME DataOK, CountInv, EndRead PROVE CountInv'
<1>1. /\ pc = "read" /\ ~More /\ pc' = After(zhdr)
      /\ user_gen' = (IF zhdr = "buffer" THEN user_gen
                      ELSE [user_gen EXCEPT ![zhdr] = kernel_gen[zhdr]])
      /\ UNCHANGED <<useZeroCopyBuffer, withHeader, kernel, mem, counted>>
  BY DEF EndRead, socket
<1>2. Len(counted) = Limit
  BY <1>1, Reading
<1>3. EveryPacketOnce' /\ pc' # "read"
  BY <1>1 DEF CountInv, EveryPacketOnce, After
<1>4. CASE useZeroCopyBuffer
  <2>1. ZeroCopyInv /\ zhdr = Other(store)
    BY <1>1, <1>4 DEF CountInv, ZeroCopyInv
  <2>2. store \in Buffers /\ zhdr \in Buffers /\ zhdr # store /\ zhdr # "buffer"
    BY <2>1 DEF DataOK, Buffers, Other
  <2>3. user_gen'[zhdr] = kernel_gen[zhdr] /\ user_gen'[store] = user_gen[store]
    BY <1>1, <2>2 DEF DataOK
  <2>4. /\ store' = store /\ kernel_gen' = kernel_gen /\ fill' = fill /\ mem' = mem
        /\ Stored' = Stored /\ Other(store)' = zhdr
    BY <1>1, <2>1 DEF kernel, Stored, Other
  <2>5. Acknowledged(store)' /\ Acknowledged(Other(store))'
    BY <2>1, <2>3, <2>4 DEF Acknowledged, ZeroCopyInv
  <2>6. Holds(store, Stored)' /\ Stored' >= 0
    BY <2>1, <2>4 DEF ZeroCopyInv, Holds
  <2>7. Len(counted') = Stored'
    BY <1>1, <1>2, <1>4, <2>4 DEF Limit
  <2>8. ZeroCopyInv'
    BY <1>3, <2>5, <2>6, <2>7 DEF ZeroCopyInv
  <2> QED
    BY <1>1, <1>3, <1>4, <2>8 DEF CountInv
<1>5. CASE ~useZeroCopyBuffer
  <2>1. BufferedInv /\ zhdr = "buffer"
    BY <1>1, <1>5 DEF CountInv, BufferedInv
  <2>2. Queued' = Queued /\ queue' = queue /\ pc' = "idle"
    BY <1>1, <2>1 DEF Queued, kernel, After
  <2>3. Len(counted') = Queued'
    BY <1>1, <1>2, <1>5, <2>2 DEF Limit
  <2>4. BufferedInv'
    BY <2>1, <2>2, <2>3 DEF BufferedInv
  <2> QED
    BY <1>1, <1>3, <1>5, <2>4 DEF CountInv
<1> QED
  BY <1>4, <1>5

\* The inductive invariant of the receiver.
ReceiverInv == FlagsOK /\ DataOK /\ ResourceInv /\ FreshInv /\ CountInv

LEMMA ReceiverInit == Init => ReceiverInv
<1> SUFFICES ASSUME Init PROVE ReceiverInv
  OBVIOUS
<1>1. FlagsOK
  BY DEF Init, FlagsOK
<1>2. DataOK
  BY BufferAssumption DEF Init, DataOK, Buffers
<1>3. ResourceInv /\ FreshInv
  BY DEF Init, ResourceInv, FreshInv, Constructing, Constructed
<1>4. CountInv
  <2>1. pc = "open" /\ captured = 0 /\ counted = <<>> /\ queue = <<>> /\ ~useZeroCopyBuffer
    BY DEF Init
  <2>2. Queued = 0
    <3>1. Len(<<>>) = 0
      OBVIOUS
    <3>2. Queued = 0 - 0
      BY <2>1, <3>1 DEF Queued
    <3> QED
      BY <3>2
  <2> QED
    BY <2>1, <2>2 DEF CountInv, BufferedInv, EveryPacketOnce
<1> QED
  BY <1>1, <1>2, <1>3, <1>4 DEF ReceiverInv

LEMMA CountStep ==
    ASSUME DataOK, ResourceInv, FreshInv, CountInv, [Next]_vars
    PROVE  CountInv'
<1>1. CASE SetSource \/ InitInterface \/ Delete \/ Destroy \/ Receive
  <2>1. pc # "read" /\ pc' # "read" /\ (~useZeroCopyBuffer => pc' \notin {"A", "B"})
    BY <1>1 DEF SetSource, InitInterface, Delete, Destroy, Receive, Fails
  <2>2. UNCHANGED <<useZeroCopyBuffer, withHeader, kernel, mem, user_gen, counted>>
    BY <1>1 DEF SetSource, InitInterface, Delete, Destroy, Receive, socket, program
  <2> QED
    BY <2>1, <2>2, CountIdle
<1>2. ASSUME NEW b \in Buffers, SkipZbuffer(b) PROVE CountInv'
  <2>1. pc # "read" /\ pc' # "read" /\ useZeroCopyBuffer
    BY <1>2 DEF SkipZbuffer, Buffers, After, CountInv, BufferedInv
  <2>2. UNCHANGED <<useZeroCopyBuffer, withHeader, kernel, mem, user_gen, counted>>
    BY <1>2 DEF SkipZbuffer, socket, program
  <2> QED
    BY <2>1, <2>2, CountIdle
<1>3. CASE UNCHANGED vars
  <2>1. UNCHANGED <<pc, useZeroCopyBuffer, withHeader, kernel, mem, program>>
    BY <1>3 DEF vars, socket
  <2> QED
    BY <2>1 DEF CountInv, EveryPacketOnce, ZeroCopyInv, BufferedInv, Stored, Handed, Queued,
       Holds, Acknowledged, Other, kernel, program
<1> QED
  BY <1>1, <1>2, <1>3, CountConstruct, CountCapture, CountRotate, CountReceiveBuffered,
     CountReadZbuffer, CountReadPacket, CountEndRead DEF Next, Receiver, Ended

\* The two buffers, or the queue, always hold exactly the packets that follow the ones
\* counted.
THEOREM ReceiverInvariant == Spec => []ReceiverInv
<1>1. ReceiverInv /\ [Next]_vars => ReceiverInv'
  <2> SUFFICES ASSUME ReceiverInv, [Next]_vars PROVE ReceiverInv'
    OBVIOUS
  <2>1. ReadPacket => Chunk \in Nat
    BY Reading DEF ReceiverInv, ReadPacket
  <2> QED
    BY <2>1, FlagsStep, DataStep, ResourceStep, FreshStep, CountStep DEF ReceiverInv
<1> QED
  BY <1>1, ReceiverInit, PTL DEF Spec

\* Every state of the receiver is of its type.
THEOREM ReceiverTypes == Spec => []TypeOK
<1>1. ReceiverInv => TypeOK
  BY DEF ReceiverInv, FlagsOK, DataOK, TypeOK
<1> QED
  BY <1>1, ReceiverInvariant, PTL

\* Every packet captured is counted once and in order, whichever way the two buffers go
\* back and forth, for any number of packets per buffer and of generation numbers.
THEOREM ReceiverCountsOnce == Spec => []EveryPacketOnce
<1>1. ReceiverInv => EveryPacketOnce
  BY DEF ReceiverInv, CountInv
<1> QED
  BY <1>1, ReceiverInvariant, PTL
=============================================================================
