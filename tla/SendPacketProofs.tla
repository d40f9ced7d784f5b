-------------------------- MODULE SendPacketProofs --------------------------
(***************************************************************************)
(* Proofs about the packets of a sender thread, for every share of DNSSEC  *)
(* queries and every payload whose entries fit.                            *)
(***************************************************************************)
EXTENDS SendPacket, TLAPS

\* The share of a rounded-down count: the remainder is what the counter holds.
LEMMA ShareQuotient ==
    ASSUME NEW f \in Nat, NEW c \in 0 .. 99, NEW n \in Nat, 100 * f + c = n
    PROVE  f = n \div 100
  OBVIOUS

\* One more query adds its share.
LEMMA OneMore ==
    ASSUME NEW n \in Nat, NEW r \in Nat
    PROVE  (n + 1) * r = n * r + r
  OBVIOUS

\* Quotient and remainder of the integer division.
LEMMA DivMod ==
    ASSUME NEW n \in Nat, NEW d \in Nat \ {0}
    PROVE  /\ n \div d \in Nat /\ n % d \in 0 .. d - 1
           /\ n = (n \div d) * d + (n % d)
<1>1. n \div d \in Nat
  OBVIOUS
<1>2. n % d \in 0 .. d - 1
  OBVIOUS
<1>3. n = (n \div d) * d + (n % d)
  OBVIOUS
<1> QED
  BY <1>1, <1>2, <1>3

\* The upper byte of a word.
LEMMA RoundedDown ==
    ASSUME NEW n \in Nat
    PROVE  n - (n % 256) \in Nat /\ n - (n % 256) <= n
  OBVIOUS

\* A common positive factor cancels.
LEMMA Cancel ==
    ASSUME NEW a \in Int, NEW b \in Int, NEW c \in Nat \ {0}, a * c < b * c
    PROVE  a < b
<1> SUFFICES ASSUME b <= a PROVE FALSE
  OBVIOUS
<1>1. (a - b) * c >= 0 /\ (a - b) * c = a * c - b * c
  OBVIOUS
<1> QED
  BY <1>1

\* The quotient is determined by the multiples around a number.
LEMMA DivIs ==
    ASSUME NEW k \in Nat, NEW d \in Nat \ {0}, NEW n \in k * d .. k * d + d - 1
    PROVE  n \div d = k
<1> DEFINE q == n \div d
<1>0. n \in Nat
  OBVIOUS
<1>1. q \in Nat /\ q * d <= n /\ n < q * d + d
  BY <1>0, DivMod
<1> HIDE DEF q
<1>2. (q + 1) * d = q * d + d /\ (k + 1) * d = k * d + d
  BY <1>1
<1>3. q * d < (k + 1) * d /\ k * d < (q + 1) * d
  BY <1>1, <1>2
<1>4. q < k + 1 /\ k < q + 1
  BY <1>1, <1>3, Cancel
<1> QED
  BY <1>1, <1>4 DEF q

\* Every address randomSourceIP can pick is one of the network, also when the network
\* is the whole address space and its size does not fit an unsigned int.
LEMMA InsideNetwork ==
    ASSUME NEW n \in Networks, NEW m \in NetSize(n.size),
           NEW a \in n.first .. LastAddress(n.first, m)
    PROVE  a \in Addresses /\ a \div n.size = n.first \div n.size
<1> DEFINE f == n.first
           d == n.size
<1>1. /\ f \in 0 .. AddrRange - 1 /\ f % d = 0
      /\ d \in 1 .. AddrRange /\ AddrRange % d = 0 /\ AddrRange \in Nat
  BY AddressAssumption, WordAssumption DEF Networks, Addresses
<1>2. m \in IF d = AddrRange THEN {0, AddrRange - 1} ELSE {d}
  BY DEF NetSize
<1>3. a \in f .. ((f + m - 1) % AddrRange)
  BY DEF LastAddress
<1> SUFFICES a \in 0 .. AddrRange - 1 /\ a \div d = f \div d
  BY DEF Addresses
<1> HIDE DEF f, d
<1>4. CASE d = AddrRange
  <2>1. f = 0
    BY <1>1, <1>4
  <2>2. (f + m - 1) % AddrRange \in 0 .. AddrRange - 1
    BY <1>1, <1>2, <1>4, <2>1
  <2>3. a \in 0 .. AddrRange - 1
    BY <1>1, <1>3, <2>1, <2>2
  <2>4. a \div d = 0 /\ f \div d = 0
    BY <1>1, <1>4, <2>1, <2>3
  <2> QED
    BY <2>3, <2>4
<1>5. CASE d # AddrRange
  <2> DEFINE k == f \div d
             r == AddrRange \div d
  <2>1. k \in Nat /\ f = k * d
    BY <1>1, DivMod
  <2>2. r \in Nat /\ AddrRange = r * d
    BY <1>1, DivMod
  <2> HIDE DEF k, r
  <2>3. k < r
    BY <1>1, <2>1, <2>2, Cancel
  <2>4. (k + 1) * d <= r * d /\ (k + 1) * d = k * d + d
    BY <1>1, <2>1, <2>2, <2>3
  <2>5. f + d - 1 \in 0 .. AddrRange - 1
    BY <1>1, <2>1, <2>2, <2>4
  <2>6. (f + d - 1) % AddrRange = f + d - 1
    BY <1>1, <2>5
  <2>7. a \in k * d .. k * d + d - 1 /\ a \in 0 .. AddrRange - 1
    BY <1>1, <1>2, <1>3, <1>5, <2>1, <2>5, <2>6
  <2>8. a \div d = k
    BY <1>1, <2>1, <2>7, DivIs
  <2> QED
    BY <2>7, <2>8 DEF k
<1> QED
  BY <1>4, <1>5

\* What is left of a captured packet: of one that is too short, more than the buffer.
LEMMA SizeLeft ==
    ASSUME NEW n \in PcapSizes, NEW m, m = (n + SizeRange - PcapHeader) % SizeRange
    PROVE  m \in Nat /\ IF n < PcapHeader THEN m > MaxPacket ELSE m = n - PcapHeader
<1>1. /\ n \in Nat /\ PcapHeader \in Nat /\ MaxPacket \in Nat /\ SizeRange \in Nat
      /\ n <= MaxPacket /\ MaxPacket + PcapHeader < SizeRange
  BY SizeAssumption
<1>2. CASE n < PcapHeader
  <2>1. n + SizeRange - PcapHeader \in 0 .. SizeRange - 1
    BY <1>1, <1>2
  <2>2. m = n + SizeRange - PcapHeader
    BY <1>1, <2>1
  <2> QED
    BY <1>1, <1>2, <2>2
<1>3. CASE n >= PcapHeader
  <2>1. n - PcapHeader \in 0 .. SizeRange - 1
    BY <1>1, <1>3
  <2>2. n + SizeRange - PcapHeader = (n - PcapHeader) + SizeRange
    BY <1>1
  <2>3. m = n - PcapHeader
    BY <1>1, <2>1, <2>2
  <2> QED
    BY <1>1, <1>3, <2>1, <2>3
<1> QED
  BY <1>1, <1>2, <1>3

\* A thread that has not been prepared satisfies the invariant.
LEMMA PacketInit == Init => PacketInv
<1> SUFFICES ASSUME Init PROVE PacketInv
  OBVIOUS
<1>1. isPcap \in BOOLEAN /\ chksum_valid \in BOOLEAN
  BY DEF Init
<1>2. DnssecRate \in 0 .. 100 /\ taken * DnssecRate = 0
  BY ShareAssumption DEF Init
<1>3. 0 \in Addresses /\ 0 \in 0 .. Word - 1
  BY AddressAssumption, WordAssumption DEF Addresses
<1>4. pkt \in Fields /\ captured \in [size: Nat, src: Addresses, port: 0 .. Word - 1]
  BY <1>3 DEF Init, Fields
<1>5. TypeOK
  BY <1>1, <1>2, <1>3, <1>4, AddressAssumption DEF Init, TypeOK, NoDestination, Addresses
<1>6. BodyFits
  <2>1. 0 \div Word = 0
    BY WordAssumption, DivIs
  <2> QED
    BY <2>1, WordAssumption DEF Init, BodyFits
<1> QED
  BY <1>2, <1>5, <1>6 DEF Init, PacketInv, Outdated, ChecksumCovers, OnWire, ShareKept,
                    SizeFits, Addressed, EndsByInputOnly

\* Taking a query leaves the packet alone.
LEMMA EntryTypes ==
    ASSUME TypeOK, NEW n \in Nat, Entry(n)
    PROVE  /\ body' \in Nat /\ (body' \div Word) + 16 < Word \div 2
           /\ captured' \in [size: Nat, src: Addresses, port: 0 .. Word - 1]
<1>1. body' \in Nat /\ (body' \div Word) + 16 < Word \div 2
  BY WordAssumption DEF Entry
<1>2. captured' \in [size: Nat, src: Addresses, port: 0 .. Word - 1]
  <2>1. CASE isPcap
    <3>1. captured' \in [size: {n}, src: Addresses, port: Ports] /\ Ports \subseteq 0 .. Word - 1
      BY <2>1, WordAssumption DEF Entry
    <3> QED
      BY <3>1
  <2>2. CASE ~isPcap
    BY <2>2 DEF Entry, TypeOK
  <2> QED
    BY <2>1, <2>2
<1> QED
  BY <1>1, <1>2

\* The invariant is preserved by every step of prepareThreads and sendPacket.
LEMMA PacketStep == PacketInv /\ [Next]_vars => PacketInv'
<1> SUFFICES ASSUME PacketInv, [Next]_vars PROVE PacketInv'
  OBVIOUS
<1> USE DEF PacketInv, parameters, share, query
<1>t. /\ taken \in Nat /\ flagged \in Nat /\ DnssecRate \in 0 .. 100 /\ DnssecRate \in Nat
      /\ dnsseccounter \in 0 .. 99 /\ query_size \in Nat /\ body \in Nat /\ pkt \in Fields
      /\ captured \in [size: Nat, src: Addresses, port: 0 .. Word - 1]
  BY DEF TypeOK
<1>w. Word \in Nat /\ MaxPacket \in Nat /\ MaxPacket < Word /\ Header \in Nat
      /\ Ports \subseteq 0 .. Word - 1 /\ Ids \subseteq 0 .. Word - 1
      /\ SourceIP \in Addresses /\ target \in Addresses /\ TargetPort \in 0 .. Word - 1
      /\ RunPort \in 0 .. Word - 1
  BY WordAssumption, SizeAssumption, AddressAssumption DEF Addresses, RunPort, TypeOK
<1>a. SourceIP \in Addresses /\ RunPort \in 0 .. Word - 1
  BY <1>w
<1>b. target \in Addresses /\ TargetPort \in 0 .. Word - 1
  BY <1>w
<1>1. CASE Run
  <2>1. chksum_valid' \in BOOLEAN
    <3>1. CASE spoofing = "none"
      <4>1. IF spoofing = "none"
            THEN /\ pkt' = [pkt EXCEPT !.src = SourceIP, !.sport = RunPort]
                 /\ chksum_valid' = Invalidated
            ELSE UNCHANGED <<pkt, chksum_valid>>
        BY <1>1, Zenon DEF Run
      <4> QED
        BY <3>1, <4>1, Zenon DEF Invalidated
    <3>2. CASE spoofing # "none"
      BY <1>1, <3>2 DEF Run, TypeOK
    <3> QED
      BY <3>1, <3>2
  <2>2. /\ pkt' \in Fields /\ pkt'.dst = pkt.dst /\ pkt'.dport = pkt.dport
        /\ pkt'.body = pkt.body /\ pkt'.size = pkt.size
        /\ (spoofing = "none" => pkt'.src = SourceIP)
    <3>1. CASE spoofing = "none"
      <4>1. pkt' = [pkt EXCEPT !.src = SourceIP, !.sport = RunPort]
        BY <1>1, <3>1 DEF Run
      <4> QED
        BY <1>t, <1>a, <3>1, <4>1 DEF Fields
    <3>2. CASE spoofing # "none"
      <4>1. pkt' = pkt
        BY <1>1, <3>2 DEF Run
      <4> QED
        BY <1>t, <3>2, <4>1
    <3> QED
      BY <3>1, <3>2
  <2>3. pc' = "ready" /\ dnsseccounter' = 0 /\ taken' = 0 /\ flagged' = 0
        /\ UNCHANGED <<parameters, query, sum>> /\ pc \notin {"new", "refused"}
    BY <1>1 DEF Run
  <2>4. TypeOK'
    BY <2>1, <2>2, <2>3 DEF TypeOK
  <2>5. ShareKept'
    <3>1. taken' * DnssecRate' = 0
      BY <1>t, <2>3
    <3> QED
      BY <2>3, <3>1 DEF ShareKept
  <2>6. BodyFits' /\ Addressed'
    BY <2>2, <2>3 DEF BodyFits, Addressed, OnWire
  <2> QED
    BY <2>3, <2>4, <2>5, <2>6 DEF Outdated, ChecksumCovers, OnWire, SizeFits, EndsByInputOnly
<1>2. ASSUME NEW n \in PcapSizes, TakePcap(n) PROVE PacketInv'
  <2>1. n \in Nat /\ Header \in Nat /\ Header <= PcapHeader /\ PcapHeader \in Nat
        /\ MaxPacket \in Nat /\ n <= MaxPacket
    BY SizeAssumption
  <2>2. /\ query_size' \in Nat /\ taken' \in Nat
        /\ IF n < PcapHeader THEN query_size' > MaxPacket ELSE query_size' = n - PcapHeader
    BY <1>2, <1>t, SizeLeft DEF TakePcap
  <2>3. /\ body' \in Nat /\ (body' \div Word) + 16 < Word \div 2
        /\ captured' \in [size: Nat, src: Addresses, port: 0 .. Word - 1]
    BY <1>2, <2>1, EntryTypes DEF TakePcap
  <2>p. pc' \in {"payload", "crashed"}
    BY <1>2 DEF TakePcap
  <2>4. TypeOK'
    BY <1>2, <2>p, <2>2, <2>3 DEF TakePcap, TypeOK
  <2>5. BodyFits' /\ Addressed'
    BY <1>2, <2>p, <2>3 DEF TakePcap, BodyFits, Addressed, OnWire
  <2>6. SizeFits'
    <3>1. ASSUME pc' = "payload" PROVE n >= PcapHeader
      BY <1>2, <2>1, <2>2, <3>1 DEF TakePcap
    <3>2. ASSUME pc' = "payload" PROVE query_size' + Header <= MaxPacket
      <4>1. query_size' = n - PcapHeader
        BY <2>1, <2>2, <3>1, <3>2
      <4> QED
        BY <2>1, <4>1
    <3> QED
      BY <3>2 DEF SizeFits
  <2>7. EndsByInputOnly'
    <3>1. isPcap' /\ captured'.size = n
      BY <1>2 DEF TakePcap, Entry
    <3>2. ASSUME pc' = "crashed" PROVE n < PcapHeader
      BY <1>2, <2>1, <2>2, <3>2 DEF TakePcap
    <3> QED
      BY <2>p, <3>1, <3>2 DEF EndsByInputOnly
  <2> QED
    BY <1>2, <2>p, <2>4, <2>5, <2>6, <2>7
    DEF TakePcap, Outdated, ChecksumCovers, OnWire, ShareKept
<1>3. ASSUME NEW n \in TextSizes, TakeText(n) PROVE PacketInv'
  <2>1. n \in Nat /\ n + OptSize + Header <= MaxPacket
        /\ MaxPacket \in Nat /\ Header \in Nat /\ OptSize \in Nat
    BY SizeAssumption
  <2>2. query_size' \in Nat /\ query_size' + Header <= MaxPacket
        /\ taken' = taken + 1 /\ taken' \in Nat /\ flagged' \in Nat /\ dnsseccounter' \in 0 .. 99
    BY <1>3, <1>t, <2>1 DEF TakeText
  <2>e. /\ body' \in Nat /\ (body' \div Word) + 16 < Word \div 2
        /\ captured' \in [size: Nat, src: Addresses, port: 0 .. Word - 1]
    BY <1>3, <2>1, EntryTypes DEF TakeText
  <2>3. TypeOK'
    BY <1>3, <2>2, <2>e DEF TakeText, TypeOK
  <2>4. ShareKept'
    <3>1. (taken + 1) * DnssecRate = taken * DnssecRate + DnssecRate
      BY <1>t, OneMore
    <3>2. taken * DnssecRate \in Nat
      BY <1>t
    <3>3. 100 * flagged + dnsseccounter = taken * DnssecRate /\ ~isPcap
      BY <1>3 DEF ShareKept, TakeText
    <3>4. 100 * flagged' + dnsseccounter' = taken * DnssecRate + DnssecRate
      BY <1>3, <1>t, <3>2, <3>3 DEF TakeText
    <3>5. DnssecRate' = DnssecRate /\ isPcap' = isPcap
      BY <1>3 DEF TakeText
    <3> QED
      BY <2>2, <3>1, <3>3, <3>4, <3>5 DEF ShareKept
  <2>5. BodyFits' /\ Addressed'
    BY <1>3, <2>e DEF TakeText, BodyFits, Addressed, OnWire
  <2> QED
    BY <1>3, <2>2, <2>3, <2>4, <2>5
    DEF TakeText, Outdated, ChecksumCovers, OnWire, SizeFits, EndsByInputOnly
<1>4. CASE SetPayload
  <2>1. query_size + Header <= MaxPacket /\ ~(query_size + Header > MaxPacket)
    BY <1>4, <1>t, SizeAssumption DEF SetPayload, SizeFits
  <2>2. pc = "payload" /\ pc' = "source" /\ ~chksum_valid' /\ chksum_valid' \in BOOLEAN
        /\ pkt' = [pkt EXCEPT !.size = query_size, !.body = body]
        /\ UNCHANGED <<parameters, share, query, sum>>
    BY <1>4, <2>1, Zenon DEF SetPayload, Invalidated
  <2>3. pkt' \in Fields /\ pkt'.size = query_size /\ pkt'.body = body
        /\ pkt'.src = pkt.src /\ pkt'.dst = pkt.dst /\ pkt'.dport = pkt.dport
    BY <1>t, <2>2 DEF Fields
  <2>4. TypeOK'
    BY <2>2, <2>3 DEF TypeOK
  <2>5. BodyFits'
    BY <1>t, <1>w, <2>1, <2>2, <2>3 DEF BodyFits
  <2>6. Addressed'
    BY <2>2, <2>3 DEF Addressed, OnWire
  <2> QED
    BY <2>2, <2>4, <2>5, <2>6 DEF Outdated, ChecksumCovers, OnWire, ShareKept, SizeFits, EndsByInputOnly
<1>5. CASE UseSourceFromPcap \/ RandomSource \/ RandomPort \/ SetDnsId
  <2>1. pc \in {"source", "id"} /\ pc' \in {"id", "send"}
        /\ UNCHANGED <<parameters, share, query, sum>>
    BY <1>5 DEF UseSourceFromPcap, RandomSource, RandomPort, SetDnsId
  <2>2. ~chksum_valid' /\ chksum_valid' \in BOOLEAN
    <3>1. CASE UseSourceFromPcap
      BY <3>1, <2>1 DEF UseSourceFromPcap, Outdated, TypeOK
    <3>2. CASE RandomSource \/ RandomPort \/ SetDnsId
      BY <3>2 DEF RandomSource, RandomPort, SetDnsId, Invalidated
    <3> QED
      BY <1>5, <3>1, <3>2
  <2>3. /\ pkt' \in Fields /\ pkt'.size = pkt.size /\ pkt'.body = pkt.body
        /\ pkt'.dst = pkt.dst /\ pkt'.dport = pkt.dport
        /\ spoofing = "none" => pkt'.src = pkt.src
        /\ spoofing = "net" => pkt'.src \div net.size = net.first \div net.size
        /\ spoofing = "pcap" /\ isPcap => pkt'.src = captured.src /\ pkt'.sport = captured.port
    <3>1. CASE UseSourceFromPcap
      <4>1. CASE isPcap
        <5>1. spoofing = "pcap" /\ captured.src \in Addresses /\ captured.port \in 0 .. Word - 1
              /\ pkt' = [pkt EXCEPT !.src = captured.src, !.sport = captured.port]
          BY <1>t, <3>1, <4>1 DEF UseSourceFromPcap
        <5>3. pkt' \in Fields /\ pkt'.size = pkt.size /\ pkt'.body = pkt.body
              /\ pkt'.dst = pkt.dst /\ pkt'.dport = pkt.dport
              /\ pkt'.src = captured.src /\ pkt'.sport = captured.port
          BY <1>t, <5>1 DEF Fields
        <5> QED
          BY <5>1, <5>3
      <4>2. CASE ~isPcap
        <5>1. PICK a \in Addresses, p \in Ports : pkt' = [pkt EXCEPT !.src = a, !.sport = p]
          BY <3>1, <4>2 DEF UseSourceFromPcap
        <5>2. p \in 0 .. Word - 1
          BY <1>w, <5>1
        <5>3. spoofing = "pcap"
          BY <3>1 DEF UseSourceFromPcap
        <5>4. pkt' \in Fields /\ pkt'.size = pkt.size /\ pkt'.body = pkt.body
              /\ pkt'.dst = pkt.dst /\ pkt'.dport = pkt.dport
          BY <1>t, <5>1, <5>2 DEF Fields
        <5> QED
          BY <4>2, <5>3, <5>4
      <4> QED
        BY <4>1, <4>2
    <3>2. CASE RandomSource
      <4>1. PICK a \in net.first .. LastAddress(net.first, net_size), p \in Ports :
                pkt' = [pkt EXCEPT !.src = a, !.sport = p]
        BY <3>2 DEF RandomSource
      <4>2. spoofing = "net" /\ net \in Networks /\ net_size \in NetSize(net.size)
        BY <3>2 DEF RandomSource, TypeOK
      <4>3. a \in Addresses /\ a \div net.size = net.first \div net.size
        BY <4>1, <4>2, InsideNetwork
      <4>4. p \in 0 .. Word - 1
        BY <1>w, <4>1
      <4>5. pkt' \in Fields /\ pkt'.size = pkt.size /\ pkt'.body = pkt.body
            /\ pkt'.dst = pkt.dst /\ pkt'.dport = pkt.dport /\ pkt'.src = a
        BY <1>t, <4>1, <4>3, <4>4 DEF Fields
      <4> QED
        BY <4>2, <4>3, <4>5
    <3>3. CASE RandomPort
      BY <1>t, <1>w, <3>3 DEF RandomPort, Fields
    <3>4. CASE SetDnsId
      <4>1. pc = "id" /\ pkt' \in Fields
            /\ \E i \in Ids : pkt' = [pkt EXCEPT !.id = i]
        BY <1>t, <1>w, <3>4 DEF SetDnsId, Fields
      <4>2. /\ pkt'.size = pkt.size /\ pkt'.body = pkt.body /\ pkt'.sport = pkt.sport
            /\ pkt'.dst = pkt.dst /\ pkt'.dport = pkt.dport /\ pkt'.src = pkt.src
        BY <1>t, <4>1 DEF Fields
      <4> QED
        BY <4>1, <4>2 DEF Addressed
    <3> QED
      BY <1>5, <3>1, <3>2, <3>3, <3>4
  <2>4. TypeOK'
    BY <2>1, <2>2, <2>3 DEF TypeOK
  <2>5. BodyFits' /\ Addressed'
    BY <2>1, <2>3 DEF BodyFits, Addressed, OnWire
  <2> QED
    BY <2>1, <2>2, <2>4, <2>5
    DEF Outdated, ChecksumCovers, OnWire, ShareKept, SizeFits, EndsByInputOnly
<1>6. CASE Send
  <2>d. destination = target /\ pc = "send"
    BY <1>6 DEF Send, Addressed
  <2>1. CASE destination = NoDestination
    <3>1. pc' = "threw" /\ UNCHANGED <<parameters, share, query, pkt, sum, chksum_valid>>
      BY <1>6, <2>1 DEF Send
    <3>2. TypeOK'
      BY <3>1 DEF TypeOK
    <3>3. BodyFits' /\ Addressed' /\ EndsByInputOnly'
      BY <2>d, <2>1, <3>1 DEF BodyFits, Addressed, OnWire, EndsByInputOnly
    <3> QED
      BY <3>1, <3>2, <3>3 DEF Outdated, ChecksumCovers, OnWire, ShareKept, SizeFits
  <2>2. CASE destination # NoDestination
    <3>2. pc' = "ready" /\ sum' = Checksums(pkt) /\ pkt' = pkt /\ chksum_valid' \in BOOLEAN
          /\ pc = "send" /\ UNCHANGED <<parameters, share, query>>
      BY <1>6, <2>2 DEF Send, ptr, Outdated
    <3>3. TypeOK'
      BY <3>2 DEF TypeOK
    <3>4. BodyFits' /\ Addressed'
      BY <3>2 DEF BodyFits, Addressed, OnWire
    <3>5. Checksums(pkt)' = Checksums(pkt)
      BY <3>2 DEF Checksums, RawIp, RawUdp, RawPayload
    <3> QED
      BY <3>2, <3>3, <3>4, <3>5
      DEF Outdated, ChecksumCovers, ShareKept, SizeFits, EndsByInputOnly
  <2> QED
    BY <2>1, <2>2
<1>7. CASE Prepare
  <2>1. pc = "new" /\ pc' = "out" /\ destination' = target /\ target' = target
        /\ pkt' = [pkt EXCEPT !.dst = target, !.dport = TargetPort]
        /\ ~chksum_valid' /\ chksum_valid' \in BOOLEAN
        /\ UNCHANGED <<isPcap, DnssecRate, share, query, sum>>
    BY <1>7, Zenon DEF Prepare, SetDestination, Invalidated
  <2>2. pkt' \in Fields /\ pkt'.dst = target /\ pkt'.dport = TargetPort
        /\ pkt'.size = pkt.size /\ pkt'.body = pkt.body
    BY <1>t, <1>b, <2>1 DEF Fields
  <2>3. /\ spoofing' \in {"none", "net", "pcap"}
        /\ spoofing' = "net" => net' \in Networks /\ net_size' \in NetSize(net'.size)
    BY <1>7 DEF Prepare
  <2>4. TypeOK'
    BY <2>1, <2>2, <2>3 DEF TypeOK, NetSize, Networks, Addresses
  <2>5. BodyFits' /\ Addressed'
    BY <2>1, <2>2 DEF BodyFits, Addressed, OnWire
  <2> QED
    BY <2>1, <2>4, <2>5 DEF Outdated, ChecksumCovers, OnWire, ShareKept, SizeFits, EndsByInputOnly
<1>8. CASE PrepareThrows
  <2>1. TypeOK'
    BY <1>8 DEF PrepareThrows, TypeOK
  <2> QED
    BY <1>8, <2>1 DEF PrepareThrows, Outdated, ChecksumCovers, OnWire, ShareKept, SizeFits,
                      BodyFits, Addressed, EndsByInputOnly
<1>9. CASE UNCHANGED vars
  BY <1>9 DEF vars, TypeOK, Outdated, ChecksumCovers, OnWire, ShareKept, SizeFits, BodyFits,
              Addressed, EndsByInputOnly, Checksums
<1> QED
  BY <1>1, <1>2, <1>3, <1>4, <1>5, <1>6, <1>7, <1>8, <1>9 DEF Next, Ended

\* The inductive invariant holds in every state.
THEOREM PacketInvariant == Spec => []PacketInv
  BY PacketInit, PacketStep, PTL DEF Spec

\* Every packet sendPacket hands to the socket has checksums over its own fields.
THEOREM ChecksumsCover == Spec => []ChecksumCovers
<1>1. PacketInv => ChecksumCovers
  BY DEF PacketInv
<1> QED
  BY <1>1, PacketInvariant, PTL

\* For every share from 0 to 100 percent, and at every point of a load step, the share
\* of the queries that ask for DNSSEC is exact up to rounding (dnsseccounter).
THEOREM DnssecShareIsExact == Spec => []DnssecShare
<1>1. PacketInv => DnssecShare
  <2> SUFFICES ASSUME PacketInv, ~isPcap PROVE flagged = (taken * DnssecRate) \div 100
    BY DEF PacketInv, ShareKept, DnssecShare
  <2>1. flagged \in Nat /\ dnsseccounter \in 0 .. 99 /\ taken * DnssecRate \in Nat
    BY DEF PacketInv, TypeOK
  <2>2. 100 * flagged + dnsseccounter = taken * DnssecRate
    BY DEF PacketInv, ShareKept
  <2> QED
    BY <2>1, <2>2, ShareQuotient
<1> QED
  BY <1>1, PacketInvariant, PTL

\* Only the broadcast address as target and captured packets without their headers end a
\* sender thread, for every payload the loader can keep and every target.
THEOREM ThreadEndsByInput == Spec => []EndsByInputOnly
<1>1. PacketInv => EndsByInputOnly
  BY DEF PacketInv
<1> QED
  BY <1>1, PacketInvariant, PTL

\* Every packet comes from the address asked for, for every network of -s up to the
\* whole address space (setSourceNet, randomSourceIP, useSourceFromPcap).
THEOREM SourcesAreAsAsked == Spec => []SourceAsAsked
<1>1. PacketInv => SourceAsAsked
  BY DEF PacketInv, Addressed, SourceAsAsked, OnWire
<1> QED
  BY <1>1, PacketInvariant, PTL

\* A multiple leaves no remainder.
LEMMA MultipleMod ==
    ASSUME NEW k \in Nat, NEW d \in Nat \ {0}
    PROVE  (k * d) % d = 0
<1> DEFINE x == k * d
<1>1. x \in Nat /\ x \in k * d .. k * d + d - 1
  OBVIOUS
<1> HIDE DEF x
<1>2. x \div d = k
  BY <1>1, DivIs
<1>3. x = (x \div d) * d + (x % d) /\ x % d \in 0 .. d - 1
  BY <1>1, DivMod
<1>4. x % d = 0
  BY <1>2, <1>3 DEF x
<1> QED
  BY <1>4 DEF x

\* Below a multiple, the quotient is below the factor.
LEMMA DivBelow ==
    ASSUME NEW n \in Nat, NEW k \in Nat, NEW d \in Nat \ {0}, n < k * d
    PROVE  n \div d < k
<1> DEFINE q == n \div d
<1>1. q \in Nat /\ q * d <= n
  BY DivMod
<1> HIDE DEF q
<1>2. q * d < k * d
  BY <1>1
<1> QED
  BY <1>1, <1>2, Cancel DEF q

\* Two folds are enough for a sum below the square of Word, and what in_cksum returns
\* makes the sum a multiple of Word - 1.
LEMMA FoldsSuffice ==
    ASSUME NEW raw \in Nat, raw < Word * Word
    PROVE  (raw + in_cksum(raw)) % (Word - 1) = 0
<1> DEFINE W == Word
           q == raw \div W
           r == raw % W
           a == q + r
           b == a + (a \div W)
           c == (W - 1) - (b % W)
<1>1. W \in Nat \ {0} /\ W - 1 \in Nat \ {0}
  BY WordAssumption
<1>2. q \in Nat /\ r \in 0 .. W - 1 /\ raw = q * W + r
  BY <1>1, DivMod
<1>3. q < W
  BY <1>1, DivBelow
<1>4. in_cksum(raw) = c
  BY DEF in_cksum
<1> HIDE DEF W, q, r
<1>5. a \in Nat /\ a <= 2 * W - 2
  BY <1>1, <1>2, <1>3
<1>6. PICK k \in Nat : raw + c = k * (W - 1)
  <2>1. CASE a < W
    <3>1. a \div W = 0
      BY <1>1, <1>5, <2>1, DivIs
    <3>2. b = q + r /\ b \in 0 .. W - 1
      BY <1>1, <1>2, <1>5, <2>1, <3>1
    <3> HIDE DEF b
    <3>z. b % W = b
      BY <1>1, <3>2
    <3>3. c = W - 1 - q - r
      BY <1>1, <1>2, <3>2, <3>z
    <3>4. (q + 1) * (W - 1) = q * W - q + (W - 1)
      BY <1>1, <1>2
    <3>5. raw + c = (q + 1) * (W - 1)
      BY <1>1, <1>2, <3>3, <3>4
    <3> QED
      BY <1>2, <3>5
  <2>2. CASE a >= W
    <3>1. a \div W = 1
      BY <1>1, <1>5, <2>2, DivIs
    <3>2. b = a + 1 /\ b \in W .. 2 * W - 1
      BY <1>1, <1>5, <2>2, <3>1
    <3> HIDE DEF b
    <3>3. b \in Nat /\ b \div W = 1
      BY <1>1, <3>2, DivIs
    <3>4. b = (b \div W) * W + (b % W) /\ b % W \in 0 .. W - 1
      BY <1>1, <3>3, DivMod
    <3>5. c = 2 * W - 2 - q - r
      BY <1>1, <1>2, <3>2, <3>3, <3>4
    <3>6. (q + 2) * (W - 1) = q * W - q + 2 * (W - 1)
      BY <1>1, <1>2
    <3>7. raw + c = (q + 2) * (W - 1)
      BY <1>1, <1>2, <3>5, <3>6
    <3> QED
      BY <1>2, <3>7
  <2> QED
    BY <1>1, <1>5, <2>1, <2>2
<1>7. (raw + c) % (W - 1) = 0
  BY <1>1, <1>6, MultipleMod
<1> QED
  BY <1>4, <1>7 DEF W

\* An address adds less than two words.
LEMMA WordsBound ==
    ASSUME NEW addr \in Addresses
    PROVE  Words(addr) \in 0 .. 2 * Word - 2
<1>1. addr \in Nat /\ addr \div Word < Word /\ Word \in Nat \ {0}
  BY WordAssumption DEF Addresses
<1>2. addr \div Word \in Nat /\ addr % Word \in 0 .. Word - 1
  BY <1>1, DivMod
<1> QED
  BY <1>1, <1>2 DEF Words

\* Whoever receives a packet finds its checksums right, for every word size, payload and
\* address: the words of a packet never need a third fold (in_cksum).
THEOREM ChecksumsVerify == Spec => []ChecksumVerifies
<1>1. PacketInv => ChecksumVerifies
  <2> SUFFICES ASSUME PacketInv, OnWire PROVE ChecksumVerifies
    BY DEF ChecksumVerifies
  <2> DEFINE s == Words(pkt.src)
             d == Words(pkt.dst)
             q == pkt.body \div Word
             r == pkt.body % Word
             y == RawPayload(pkt)
  <2>1. pkt \in Fields
    BY DEF PacketInv, TypeOK
  <2>2. /\ pkt.src \in Addresses /\ pkt.dst \in Addresses /\ pkt.size \in Nat
        /\ pkt.sport \in 0 .. Word - 1 /\ pkt.dport \in 0 .. Word - 1
        /\ pkt.id \in 0 .. Word - 1 /\ pkt.body \in Nat
    BY <2>1 DEF Fields
  <2>3. /\ Word \in Nat \ {0} /\ 32768 < Word /\ Header \in Nat
        /\ Header < Word /\ pkt.size < Word /\ q + 16 < Word \div 2
    BY <2>2, WordAssumption, SizeAssumption DEF PacketInv, BodyFits
  <2>4. s \in 0 .. 2 * Word - 2 /\ d \in 0 .. 2 * Word - 2
    BY <2>2, WordsBound
  <2>5. q \in Nat /\ r \in 0 .. Word - 1 /\ pkt.body = q * Word + r
    <3>1. pkt.body \in Nat /\ Word \in Nat \ {0}
      BY <2>2, <2>3
    <3> QED
      BY <3>1, DivMod, Zenon
  <2>6. Word \div 2 <= Word
    BY <2>3
  <2>7. /\ RawIp(pkt) = 17664 + (Header + pkt.size) + 16401 + s + d
        /\ RawUdp(pkt) = s + d + 17 + 2 * (8 + pkt.size) + pkt.sport + pkt.dport + y
    BY DEF RawIp, RawUdp
  <2>y. y \in Nat /\ y <= pkt.id + pkt.body
    <3>1. pkt.id \in Nat /\ pkt.body \in Nat
      BY <2>2, <2>3
    <3>3. pkt.id - (pkt.id % 256) \in Nat /\ pkt.id - (pkt.id % 256) <= pkt.id
      BY <3>1, RoundedDown
    <3> QED
      BY <3>1, <3>3 DEF RawPayload
  <2> HIDE DEF s, d, q, r, y
  <2>8. q + 16 <= Word /\ (q + 16) * Word <= Word * Word /\ (q + 16) * Word = q * Word + 16 * Word
        /\ 16 * Word <= Word * Word
    BY <2>3, <2>5, <2>6
  <2>9. RawIp(pkt) \in Nat /\ RawIp(pkt) < 16 * Word
    BY <2>2, <2>3, <2>4, <2>7
  <2>10. RawUdp(pkt) \in Nat /\ RawUdp(pkt) < q * Word + 16 * Word
    BY <2>2, <2>3, <2>4, <2>5, <2>7, <2>y
  <2>11. /\ (RawIp(pkt) + in_cksum(RawIp(pkt))) % (Word - 1) = 0
         /\ (RawUdp(pkt) + in_cksum(RawUdp(pkt))) % (Word - 1) = 0
    BY <2>3, <2>5, <2>8, <2>9, <2>10, FoldsSuffice
  <2>12. sum.ip = in_cksum(RawIp(pkt)) /\ sum.udp = in_cksum(RawUdp(pkt))
    BY DEF PacketInv, ChecksumCovers, Checksums
  <2> QED
    BY <2>11, <2>12 DEF ChecksumVerifies
<1> QED
  BY <1>1, PacketInvariant, PTL
=============================================================================
