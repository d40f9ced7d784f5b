----------------------------- MODULE SendPacket -----------------------------
(***************************************************************************)
(* How a sender thread makes the next packet (DNSSenderThread::sendPacket, *)
(* the Packet class and RawSocketSender): the one packet buffer a thread   *)
(* reuses for all its queries, its checksums and when they are computed,   *)
(* the source address, the choice of the queries that ask for DNSSEC, and  *)
(* the sizes on the way from the payload to the wire.  What becomes of the *)
(* packet (sent or failed) is in Session.                                  *)
(*                                                                         *)
(* Header fields are numbers in host order; the one's complement sum does  *)
(* not depend on the byte order.  An address is one number, of which the   *)
(* sum sees two words.                                                     *)
(***************************************************************************)
EXTENDS Integers

CONSTANTS
    DnssecRates,  \* the shares of DNSSEC queries to consider, in percent (-d)
    TextSizes,    \* sizes of the queries compiled from a text file
    PcapSizes,    \* sizes of the packets loaded from a pcap file
    Bodies,       \* what the words of a query but its id can add up to
    Ports,        \* source ports, random or captured
    Ids,          \* time stamps used as DNS id
    SourceIP,     \* the address to send from when it is not spoofed (-q)
    Targets, TargetPort,  \* where to send to (-z)
    AddrRange,    \* IPv4 addresses: 2^32 in the code
    NetSizes,     \* sizes of the networks to spoof from (-s NET), up to AddrRange
    Word,         \* values of a 16-bit word: 65536
    SizeRange,    \* values of a size_t: 2^64 in the code
    MaxPacket,    \* size of the packet buffer: 4096 in the code
    Header,       \* IP and UDP header: 28
    PcapHeader,   \* Ethernet, IP and UDP header: 42
    OptSize,      \* the OPT record AddDnssecToQuery appends: 11
    MaxTaken      \* bound: queries of a load step

ASSUME ShareAssumption == DnssecRates \subseteq 0 .. 100
ASSUME SizeAssumption ==
    /\ MaxPacket \in Nat /\ Header \in Nat /\ PcapHeader \in Nat /\ OptSize \in Nat
    /\ Header <= PcapHeader /\ PcapHeader <= MaxPacket
    \* res_mkquery makes no query of more than a few hundred bytes
    /\ TextSizes \subseteq Nat /\ \A n \in TextSizes : n + OptSize + Header <= MaxPacket
    \* loadAndCompilePcapFile keeps no packet of more than 4096 bytes
    /\ PcapSizes \subseteq Nat /\ \A n \in PcapSizes : n <= MaxPacket
    /\ SizeRange \in Nat /\ MaxPacket + PcapHeader < SizeRange
ASSUME WordAssumption ==
    \* the fixed words of the headers below fit, and so does the length of a packet
    /\ Word \in Nat /\ 32768 < Word /\ MaxPacket < Word
    /\ Ports \subseteq 0 .. Word - 1 /\ Ids \subseteq 0 .. Word - 1
    /\ TargetPort \in 0 .. Word - 1
    \* an address is two words, and the words of a packet add up to a positive int
    /\ AddrRange \in Nat /\ \A a \in 0 .. AddrRange - 1 : a \div Word < Word
    /\ Bodies \subseteq Nat /\ \A b \in Bodies : (b \div Word) + 16 < Word \div 2
ASSUME AddressAssumption ==
    /\ SourceIP \in 0 .. AddrRange - 1 /\ Targets \subseteq 0 .. AddrRange - 1
    /\ \A n \in NetSizes : n \in 1 .. AddrRange /\ AddrRange % n = 0
ASSUME FieldAssumption == Ports # {} /\ MaxTaken \in Nat

VARIABLES
    isPcap,        \* payloadIsPcap
    spoofing,      \* "none", "net" or "pcap" (-q, -s NET, -s pcap)
    net,           \* sourcenet: its first address and how many it has
    net_size,      \* spoofing_net_size
    DnssecRate,
    target,        \* TargetIP
    pc,            \* where the thread is, in prepareThreads and in sendPacket
    destination,   \* of the socket
    dnsseccounter,
    query_size,    \* the size of the query in the thread's buffer
    captured,      \* size and source of the packet taken, if it was captured
    body,          \* the sum of the words of the query taken, but for its id
    pkt,           \* the packet, as far as its checksums cover it
    chksum_valid,
    sum,           \* the checksums in the packet: ip_sum and uh_sum
    taken,         \* queries taken from the payload in this load step
    flagged        \* those of them that ask for DNSSEC

parameters == <<isPcap, spoofing, net, net_size, DnssecRate, target, destination>>
share == <<dnsseccounter, taken, flagged>>
query == <<query_size, captured, body>>
vars == <<parameters, pc, share, query, pkt, chksum_valid, sum>>

Addresses == 0 .. AddrRange - 1

\* (unsigned int)-1, the mark of a socket without a destination, is 255.255.255.255.
NoDestination == AddrRange - 1

Networks ==
    {n \in [first: Addresses, size: NetSizes] : n.first % n.size = 0}
Fields == [src: Addresses, sport: 0 .. Word - 1, dst: Addresses, dport: 0 .. Word - 1,
           size: Nat, id: 0 .. Word - 1, body: Nat]

-----------------------------------------------------------------------------
(***************************************************************************)
(* The checksums.                                                          *)
(***************************************************************************)

\* Mutant: the carry of the first fold is dropped.
in_cksumOneFold(raw) == (Word - 1) - (((raw \div Word) + (raw % Word)) % Word)

\* in_cksum, of words that add up to raw: fold the upper half in twice, complement,
\* cut to 16 bits.
in_cksum(raw) ==
    LET a == (raw \div Word) + (raw % Word)
        b == a + (a \div Word)
    IN  (Word - 1) - (b % Word)

Words(addr) == (addr \div Word) + (addr % Word)

\* The words of the IP header with ip_sum = 0: version and header length, total
\* length, time to live and protocol, addresses.  The others are 0.
RawIp(f) ==
    17664 + (Header + f.size) + 16401 + Words(f.src) + Words(f.dst)

\* The pseudo header of udp_cksum, the UDP header with uh_sum = 0, and the payload.
\* A last odd byte is padded with the 0 of the memset, and the id lies in the first two
\* bytes of the payload, as far as it has them.
RawPayload(f) ==
    CASE f.size = 0 -> 0
      [] f.size = 1 -> f.id - (f.id % 256)
      [] OTHER -> f.id + f.body

RawUdp(f) ==
    Words(f.src) + Words(f.dst) + 17 + 2 * (8 + f.size) + f.sport + f.dport + RawPayload(f)

\* updateChecksums
Checksums(f) == [ip |-> in_cksum(RawIp(f)), udp |-> in_cksum(RawUdp(f))]

-----------------------------------------------------------------------------
(***************************************************************************)
(* The thread is made and configured.                                      *)
(***************************************************************************)

\* The Packet constructor: ip_sum is that of the empty header, chksum_valid false.
\* RawSocketSender has no destination yet.
Init ==
    /\ isPcap \in BOOLEAN /\ DnssecRate \in DnssecRates /\ target \in Targets
    /\ spoofing = "none" /\ net = [first |-> 0, size |-> 0] /\ net_size = 0
    /\ pc = "new" /\ destination = NoDestination
    /\ dnsseccounter = 0 /\ query_size = 0 /\ body = 0 /\ taken = 0 /\ flagged = 0
    /\ captured = [size |-> 0, src |-> 0, port |-> 0]
    /\ pkt = [src |-> 0, sport |-> 0, dst |-> 0, dport |-> 0, size |-> 0, id |-> 0, body |-> 0]
    /\ chksum_valid = FALSE /\ sum = [ip |-> in_cksum(RawIp(pkt)), udp |-> 0]

\* Mutant: a setter leaves chksum_valid as it is.
StillValid == chksum_valid

\* What a setter of Packet assigns to chksum_valid.
Invalidated == FALSE

\* setDestination, of the socket and of the packet.
SetDestination ==
    /\ destination' = target
    /\ pkt' = [pkt EXCEPT !.dst = target, !.dport = TargetPort]
    /\ chksum_valid' = Invalidated

\* spoofing_net_size = powl(2, 32 - prefixlen): the whole address space does not fit
\* an unsigned int, and what the conversion gives is up to the machine.
NetSize(n) == IF n = AddrRange THEN {0, AddrRange - 1} ELSE {n}

\* prepareThreads, for this thread: setSourceIP, setSourcePcap or setSourceNet.
Prepare ==
    /\ pc = "new" /\ pc' = "out"
    /\ SetDestination
    /\ \/ spoofing' \in {"none", "pcap"} /\ UNCHANGED <<net, net_size>>
       \/ spoofing' = "net" /\ net' \in Networks /\ net_size' \in NetSize(net'.size)
    /\ UNCHANGED <<isPcap, DnssecRate, target, share, query, sum>>

\* setDestination refuses an address that is not IPv4, and main() ends.
PrepareThrows ==
    /\ pc = "new" /\ pc' = "refused"
    /\ UNCHANGED <<parameters, share, query, pkt, chksum_valid, sum>>

-----------------------------------------------------------------------------
(***************************************************************************)
(* The thread runs.                                                        *)
(***************************************************************************)

\* 0x4567
RunPort == 17767

\* run(), for a new load step: the source is set when it is not spoofed.
Run ==
    /\ pc \in {"out", "ready"} /\ pc' = "ready"
    /\ dnsseccounter' = 0 /\ taken' = 0 /\ flagged' = 0
    /\ IF spoofing = "none"
       THEN /\ pkt' = [pkt EXCEPT !.src = SourceIP, !.sport = RunPort]
            /\ chksum_valid' = Invalidated
       ELSE UNCHANGED <<pkt, chksum_valid>>
    /\ UNCHANGED <<parameters, query, sum>>

\* getQuery: what the sum sees of the query, and how and where it was captured, if it
\* was.
Entry(n) ==
    /\ body' \in Bodies
    /\ IF isPcap THEN captured' \in [size: {n}, src: Addresses, port: Ports] ELSE captured' = captured

\* Mutant: the Ethernet, IP and UDP headers are not taken off.
TakePcapWhole(n) ==
    /\ pc = "ready" /\ isPcap /\ taken < MaxTaken
    /\ pc' = "payload" /\ taken' = taken + 1 /\ Entry(n) /\ query_size' = n
    /\ UNCHANGED <<parameters, dnsseccounter, flagged, pkt, chksum_valid, sum>>

\* getQuery, of a pcap payload: the headers of the captured packet are skipped.  Of a
\* shorter packet, which the loader keeps too, the size that is left wraps, and the
\* memcpy of that many bytes leaves the thread's buffer of MaxPacket bytes.
TakePcap(n) ==
    /\ pc = "ready" /\ isPcap /\ taken < MaxTaken
    /\ taken' = taken + 1 /\ Entry(n)
    /\ query_size' = (n + SizeRange - PcapHeader) % SizeRange
    /\ pc' = IF query_size' > MaxPacket THEN "crashed" ELSE "payload"
    /\ UNCHANGED <<parameters, dnsseccounter, flagged, pkt, chksum_valid, sum>>

\* Mutant: what exceeds a hundred is thrown away.
TakeTextResets(n) ==
    /\ pc = "ready" /\ ~isPcap /\ taken < MaxTaken
    /\ pc' = "payload" /\ taken' = taken + 1 /\ Entry(n)
    /\ IF dnsseccounter + DnssecRate >= 100
       THEN /\ dnsseccounter' = 0
            /\ flagged' = flagged + 1 /\ query_size' = n + OptSize
       ELSE /\ dnsseccounter' = dnsseccounter + DnssecRate
            /\ flagged' = flagged /\ query_size' = n
    /\ UNCHANGED <<parameters, pkt, chksum_valid, sum>>

\* getQuery, of a text payload: every time the shares add up to a whole query,
\* that query gets an OPT record (AddDnssecToQuery).
TakeText(n) ==
    /\ pc = "ready" /\ ~isPcap /\ taken < MaxTaken
    /\ pc' = "payload" /\ taken' = taken + 1 /\ Entry(n)
    /\ IF dnsseccounter + DnssecRate >= 100
       THEN /\ dnsseccounter' = dnsseccounter + DnssecRate - 100
            /\ flagged' = flagged + 1 /\ query_size' = n + OptSize
       ELSE /\ dnsseccounter' = dnsseccounter + DnssecRate
            /\ flagged' = flagged /\ query_size' = n
    /\ UNCHANGED <<parameters, pkt, chksum_valid, sum>>

\* setPayload.  It throws BufferOverflow, which nothing in the thread catches, when the
\* query does not fit.
SetPayload ==
    /\ pc = "payload"
    /\ IF query_size + Header > MaxPacket
       THEN pc' = "threw" /\ UNCHANGED <<pkt, chksum_valid>>
       ELSE /\ pc' = "source" /\ pkt' = [pkt EXCEPT !.size = query_size, !.body = body]
            /\ chksum_valid' = Invalidated
    /\ UNCHANGED <<parameters, share, query, sum>>

\* useSourceFromPcap copies the source of the captured packet, and does not touch
\* chksum_valid.  With a text payload, which nothing rules out, it copies other bytes.
UseSourceFromPcap ==
    /\ pc = "source" /\ spoofing = "pcap"
    /\ pc' = "id"
    /\ IF isPcap
       THEN pkt' = [pkt EXCEPT !.src = captured.src, !.sport = captured.port]
       ELSE \E a \in Addresses, p \in Ports : pkt' = [pkt EXCEPT !.src = a, !.sport = p]
    /\ UNCHANGED <<parameters, share, query, chksum_valid, sum>>

\* Mutant: the last address is one too far.
LastAddressOff(first, size) == first + size

\* start + size - 1, in unsigned int
LastAddress(first, size) == (first + size - 1) % AddrRange

\* randomSourceIP and randomSourcePort
RandomSource ==
    /\ pc = "source" /\ spoofing = "net"
    /\ pc' = "id"
    /\ \E a \in net.first .. LastAddress(net.first, net_size), p \in Ports :
           pkt' = [pkt EXCEPT !.src = a, !.sport = p]
    /\ chksum_valid' = Invalidated
    /\ UNCHANGED <<parameters, share, query, sum>>

\* randomSourcePort
RandomPort ==
    /\ pc = "source" /\ spoofing = "none"
    /\ pc' = "id"
    /\ \E p \in Ports : pkt' = [pkt EXCEPT !.sport = p]
    /\ chksum_valid' = Invalidated
    /\ UNCHANGED <<parameters, share, query, sum>>

SetDnsId ==
    /\ pc = "id" /\ pc' = "send"
    /\ \E i \in Ids : pkt' = [pkt EXCEPT !.id = i]
    /\ chksum_valid' = Invalidated
    /\ UNCHANGED <<parameters, share, query, sum>>

\* ptr() brings the checksums up to date when they are not valid.
ptr == IF chksum_valid THEN sum ELSE Checksums(pkt)

\* Socket.send.  Without a destination, or with the one that marks there is none, it
\* throws UnknownDestination, which nothing in the thread catches.
Send ==
    /\ pc = "send"
    /\ IF destination = NoDestination
       THEN pc' = "threw" /\ UNCHANGED <<sum, chksum_valid>>
       ELSE /\ pc' = "ready"
            /\ sum' = ptr /\ chksum_valid' = TRUE
    /\ UNCHANGED <<parameters, share, query, pkt>>

\* The program has ended.
Ended == pc \in {"refused", "threw", "crashed"} /\ UNCHANGED vars

Next ==
    \/ Prepare \/ PrepareThrows \/ Run
    \/ \E n \in PcapSizes : TakePcap(n)
    \/ \E n \in TextSizes : TakeText(n)
    \/ SetPayload
    \/ UseSourceFromPcap \/ RandomSource \/ RandomPort
    \/ SetDnsId \/ Send
    \/ Ended

Spec == Init /\ [][Next]_vars

-----------------------------------------------------------------------------
(***************************************************************************)
(* Properties.                                                             *)
(***************************************************************************)

TypeOK ==
    /\ isPcap \in BOOLEAN /\ chksum_valid \in BOOLEAN
    /\ spoofing \in {"none", "net", "pcap"} /\ DnssecRate \in 0 .. 100
    /\ spoofing = "net" => net \in Networks /\ net_size \in NetSize(net.size)
    /\ target \in Addresses /\ destination \in Addresses
    /\ pc \in {"new", "refused", "out", "ready", "payload", "source", "id", "send", "threw",
              "crashed"}
    /\ dnsseccounter \in 0 .. 99 /\ taken \in Nat /\ flagged \in Nat
    /\ query_size \in Nat /\ body \in Nat
    /\ captured \in [size: Nat, src: Addresses, port: 0 .. Word - 1]
    /\ pkt \in Fields

\* A packet has been handed to the socket and is still in the buffer.
OnWire == pc = "ready" /\ taken > 0

\* Every packet leaves with checksums over the fields it leaves with, although they
\* are computed only when chksum_valid is false, the buffer is used again for every
\* query, and useSourceFromPcap changes the source without clearing the flag.
ChecksumCovers == OnWire => sum = Checksums(pkt)

\* Whoever receives the packet finds its checksums right: with them, the words of the
\* IP header, and those of the UDP pseudo header and datagram, add up to 0 in one's
\* complement.  in_cksum folds the carries in only twice.
ChecksumVerifies ==
    OnWire => /\ (RawIp(pkt) + sum.ip) % (Word - 1) = 0
              /\ (RawUdp(pkt) + sum.udp) % (Word - 1) = 0

\* Every packet comes from where the user asked: from the address of -q, from within
\* the network of -s, also when it is all of the address space, or from where the
\* captured packet came from that this query was taken out of; and it goes to -z.
SourceAsAsked ==
    OnWire =>
        /\ spoofing = "none" => pkt.src = SourceIP
        /\ spoofing = "net" => pkt.src \div net.size = net.first \div net.size
        /\ spoofing = "pcap" /\ isPcap => pkt.src = captured.src /\ pkt.sport = captured.port
        /\ pkt.dst = target /\ pkt.dport = TargetPort

\* At every point of a load step exactly the given share of the text queries, rounded
\* down, has asked for DNSSEC; of a pcap payload none does.
DnssecShare == flagged = IF isPcap THEN 0 ELSE (taken * DnssecRate) \div 100

\* Only two inputs end a sender thread: the broadcast address as target, and a captured
\* packet that is shorter than its headers.  No query the payload can hold otherwise is
\* too large for the packet buffer, with the OPT record or without the headers it was
\* captured with, and no packet is sent before the destination is known.
EndsByInputOnly ==
    /\ pc = "threw" => target = NoDestination
    /\ pc = "crashed" => isPcap /\ captured.size < PcapHeader

-----------------------------------------------------------------------------
(***************************************************************************)
(* The inductive invariant behind them.                                    *)
(***************************************************************************)

\* Between SetPayload and Send the checksums count as outdated.
Outdated == pc \in {"source", "id", "send"} => ~chksum_valid

\* The counter holds what the flagged queries leave of the share.
ShareKept ==
    IF isPcap THEN flagged = 0 ELSE 100 * flagged + dnsseccounter = taken * DnssecRate

SizeFits == pc = "payload" => query_size + Header <= MaxPacket

\* The words of a packet add up to a number two folds can take.
BodyFits == (body \div Word) + 16 < Word \div 2 /\ (pkt.body \div Word) + 16 < Word \div 2
            /\ pkt.size < Word

\* The packet goes to the target, and its source is the one asked for once it is set.
Addressed ==
    /\ pc \notin {"new", "refused"} =>
           destination = target /\ pkt.dst = target /\ pkt.dport = TargetPort
    /\ pc \notin {"new", "refused", "out"} /\ spoofing = "none" => pkt.src = SourceIP
    /\ pc \in {"id", "send"} \/ OnWire =>
           /\ spoofing = "net" => pkt.src \div net.size = net.first \div net.size
           /\ spoofing = "pcap" /\ isPcap => pkt.src = captured.src /\ pkt.sport = captured.port

PacketInv ==
    /\ TypeOK /\ Outdated /\ ChecksumCovers /\ ShareKept /\ SizeFits /\ BodyFits
    /\ Addressed /\ EndsByInputOnly
=============================================================================
