---------------------------- MODULE PayloadFile ----------------------------
(***************************************************************************)
(* The payload: loading it from a text file or a pcap file, which filters  *)
(* the entries of the file (openQueryFile, loadAndCompile,                 *)
(* loadAndCompilePcapFile, MakeQuery), and handing its queries out to the  *)
(* sender threads, which share one iterator under a mutex (getQuery).      *)
(*                                                                         *)
(* A query is identified by its place in querycache.  The iterator is a    *)
(* number, and Len(querycache) + 1 stands for querycache.end().            *)
(***************************************************************************)
EXTENDS Naturals, Sequences, FiniteSets

CONSTANTS
    Threads,     \* the sender threads
    NoThread,    \* the mutex is free
    MaxPacket,   \* the largest capture the loader keeps (4096)
    Lines,       \* the lines a text file can have
    Packets,     \* the packets a pcap file can have
    MaxEntries,  \* bound: lines or packets in the file
    MaxTakes     \* bound: calls of getQuery per thread

\* A trimmed line: its words, whether it starts with '#', whether rr_types has its
\* second word, and whether res_mkquery encodes its first one.
LineRecord == [words: Nat, hash: BOOLEAN, known: BOOLEAN, encodes: BOOLEAN]
\* A packet: how much of it was captured, and what stands where the headers have their
\* fields.  Beyond caplen that is whatever libpcap's buffer holds, hence any value.
PacketRecord == [caplen: Nat, type: Nat, ip_v: Nat, ip_hl: Nat,
                 ip_p: Nat, dport: Nat, qr: Nat, opcode: Nat]

ASSUME ThreadAssumption == NoThread \notin Threads /\ IsFiniteSet(Threads)
ASSUME EntriesAssumption == MaxEntries \in Nat /\ MaxTakes \in Nat
ASSUME FormatAssumption ==
    MaxPacket \in Nat /\ Lines \subseteq LineRecord /\ Packets \subseteq PacketRecord

VARIABLES
    file,    \* [format, entries]: the file named on the command line
    line,    \* entries read so far
    valid,   \* validLinesInQueryFile
    cache,   \* querycache: the entry of the file behind each query
    isPcap,  \* payloadIsPcap
    lpc,     \* openQueryFile: "open", "load", "ready" or "failed"
    mutex,   \* QueryMutex: its owner, or NoThread
    it,      \* the iterator
    tpc,     \* tpc[t]: where thread t is in getQuery
    bap,     \* bap[t]: the query getQuery has read for thread t
    got,     \* got[t]: the query getQuery returned to t last, 0 = none
    takes,   \* takes[t]: calls of getQuery t has made
    served   \* served[q]: how often query q has been read

loadVars == <<file, line, valid, cache, isPcap, lpc>>
getVars == <<mutex, it, tpc, bap, got, takes, served>>
vars == <<loadVars, getVars>>

Files == [format: {"text"}, entries: UNION {[1 .. n -> Lines] : n \in 0 .. MaxEntries}]
         \cup
         [format: {"pcap"}, entries: UNION {[1 .. n -> Packets] : n \in 0 .. MaxEntries}]

Init ==
    /\ file \in Files
    /\ line = 0 /\ valid = 0 /\ cache = <<>> /\ isPcap = FALSE /\ lpc = "open"
    /\ mutex = NoThread /\ it = 1
    /\ tpc = [t \in Threads |-> "out"] /\ bap = [t \in Threads |-> 0]
    /\ got = [t \in Threads |-> 0] /\ takes = [t \in Threads |-> 0]
    /\ served = <<>>

-----------------------------------------------------------------------------
(***************************************************************************)
(* Loading, by main in openFiles, before any thread exists.                *)
(***************************************************************************)

\* The file is empty (a text file of no bytes): InvalidQueryFile.
OpenEmpty ==
    /\ lpc = "open" /\ file.format = "text" /\ file.entries = <<>>
    /\ lpc' = "failed"
    /\ UNCHANGED <<file, line, valid, cache, isPcap, getVars>>

\* pcap_open_offline refuses the file: InvalidQueryFile.
OpenFails ==
    /\ lpc = "open" /\ file.format = "pcap"
    /\ lpc' = "failed" /\ isPcap' = TRUE
    /\ UNCHANGED <<file, line, valid, cache, getVars>>

\* detectPcap decides which loader runs.
Open ==
    /\ lpc = "open" /\ (file.format = "pcap" \/ file.entries # <<>>)
    /\ lpc' = "load" /\ isPcap' = (file.format = "pcap")
    /\ line' = 0 /\ valid' = 0
    /\ UNCHANGED <<file, cache, getVars>>

\* loadAndCompile compiles line l: neither empty nor a comment, and MakeQuery returns.
Compiles(l) == l.words = 2 /\ ~l.hash /\ l.known /\ l.encodes

EtherTypeIP == 2048  \* 0x0800
DnsPort == 53

\* Mutant: the test of the response bit is forgotten.
PassesResponses(p) ==
    /\ p.caplen <= MaxPacket /\ p.type = EtherTypeIP /\ p.ip_v = 4
    /\ p.dport = DnsPort /\ p.opcode = 0

\* Packet p passes the tests of loadAndCompilePcapFile, all of them.
Passes(p) ==
    /\ p.caplen <= MaxPacket /\ p.type = EtherTypeIP /\ p.ip_v = 4
    /\ p.dport = DnsPort /\ p.qr = 0 /\ p.opcode = 0

Kept(n) == IF file.format = "pcap" THEN Passes(file.entries[n]) ELSE Compiles(file.entries[n])

\* An entry that becomes a query.
LoadQuery ==
    /\ lpc = "load" /\ line < Len(file.entries) /\ Kept(line + 1)
    /\ line' = line + 1 /\ valid' = valid + 1
    /\ cache' = Append(cache, line + 1)
    /\ UNCHANGED <<file, isPcap, lpc, getVars>>

\* An entry that is skipped: empty, a comment, refused by MakeQuery, not a DNS query.
SkipEntry ==
    /\ lpc = "load" /\ line < Len(file.entries) /\ ~Kept(line + 1)
    /\ line' = line + 1
    /\ UNCHANGED <<file, valid, cache, isPcap, lpc, getVars>>

\* Mutant: a file without a valid query is accepted.
LoadDoneEmpty ==
    /\ lpc = "load" /\ line = Len(file.entries)
    /\ lpc' = "ready" /\ it' = 1
    /\ served' = [q \in 1 .. Len(cache) |-> 0]
    /\ UNCHANGED <<file, line, valid, cache, isPcap, mutex, tpc, bap, got, takes>>

\* The end of the file, with at least one query: the iterator is set.
LoadDone ==
    /\ lpc = "load" /\ line = Len(file.entries) /\ valid > 0
    /\ lpc' = "ready" /\ it' = 1
    /\ served' = [q \in 1 .. Len(cache) |-> 0]
    /\ UNCHANGED <<file, line, valid, cache, isPcap, mutex, tpc, bap, got, takes>>

\* The end of the file, with none: InvalidQueryFile, and the program ends.
LoadFails ==
    /\ lpc = "load" /\ line = Len(file.entries) /\ valid = 0
    /\ lpc' = "failed"
    /\ UNCHANGED <<file, line, valid, cache, isPcap, getVars>>

-----------------------------------------------------------------------------
(***************************************************************************)
(* getQuery, by any thread.                                                *)
(***************************************************************************)

\* Mutant: getQuery without its mutex.
LockNone(t) ==
    /\ lpc = "ready" /\ tpc[t] = "out" /\ takes[t] < MaxTakes
    /\ mutex' = t
    /\ tpc' = [tpc EXCEPT ![t] = "read"]
    /\ takes' = [takes EXCEPT ![t] = @ + 1]
    /\ UNCHANGED <<loadVars, it, bap, got, served>>

Lock(t) ==
    /\ lpc = "ready" /\ tpc[t] = "out" /\ takes[t] < MaxTakes
    /\ mutex = NoThread /\ mutex' = t
    /\ tpc' = [tpc EXCEPT ![t] = "read"]
    /\ takes' = [takes EXCEPT ![t] = @ + 1]
    /\ UNCHANGED <<loadVars, it, bap, got, served>>

\* bap = *it
ReadIt(t) ==
    /\ tpc[t] = "read"
    /\ bap' = [bap EXCEPT ![t] = it]
    /\ served' = [served EXCEPT ![it] = @ + 1]
    /\ tpc' = [tpc EXCEPT ![t] = "advance"]
    /\ UNCHANGED <<loadVars, mutex, it, got, takes>>

\* ++it
Advance(t) ==
    /\ tpc[t] = "advance"
    /\ it' = it + 1
    /\ tpc' = [tpc EXCEPT ![t] = "wrap"]
    /\ UNCHANGED <<loadVars, mutex, bap, got, takes, served>>

\* Mutant: the iterator is put back one query early.
WrapEarly(t) ==
    /\ tpc[t] = "wrap"
    /\ it' = IF it >= Len(cache) THEN 1 ELSE it
    /\ tpc' = [tpc EXCEPT ![t] = "unlock"]
    /\ UNCHANGED <<loadVars, mutex, bap, got, takes, served>>

\* if (it == querycache.end()) it = querycache.begin()
Wrap(t) ==
    /\ tpc[t] = "wrap"
    /\ it' = IF it = Len(cache) + 1 THEN 1 ELSE it
    /\ tpc' = [tpc EXCEPT ![t] = "unlock"]
    /\ UNCHANGED <<loadVars, mutex, bap, got, takes, served>>

Unlock(t) ==
    /\ tpc[t] = "unlock"
    /\ mutex' = NoThread
    /\ got' = [got EXCEPT ![t] = bap[t]]
    /\ tpc' = [tpc EXCEPT ![t] = "out"]
    /\ UNCHANGED <<loadVars, it, bap, takes, served>>

GetQuery(t) == Lock(t) \/ ReadIt(t) \/ Advance(t) \/ Wrap(t) \/ Unlock(t)

\* Nothing is left to do within the bounds.
Ended ==
    /\ \/ lpc = "failed"
       \/ lpc = "ready" /\ \A t \in Threads : tpc[t] = "out" /\ takes[t] = MaxTakes
    /\ UNCHANGED vars

Next ==
    \/ OpenEmpty \/ OpenFails \/ Open \/ LoadQuery \/ SkipEntry \/ LoadDone \/ LoadFails
    \/ \E t \in Threads : GetQuery(t)
    \/ Ended

Spec == Init /\ [][Next]_vars

-----------------------------------------------------------------------------
(***************************************************************************)
(* Properties.                                                             *)
(***************************************************************************)

TypeOK ==
    /\ line \in Nat /\ valid \in Nat /\ isPcap \in BOOLEAN
    /\ cache \in Seq(Nat)
    /\ lpc \in {"open", "load", "ready", "failed"}
    /\ mutex \in Threads \cup {NoThread} /\ it \in Nat
    /\ tpc \in [Threads -> {"out", "read", "advance", "wrap", "unlock"}]
    /\ bap \in [Threads -> Nat] /\ got \in [Threads -> Nat] /\ takes \in [Threads -> Nat]

\* No thread ever dereferences or moves past the end of querycache, whatever the file
\* was: a payload that reaches the threads is not empty, and the iterator is put back
\* before the mutex is given up.
IteratorValid ==
    \A t \in Threads : tpc[t] \in {"read", "advance"} => it \in 1 .. Len(cache)

\* A whole DNS standard query over UDP and IPv4, in a header without options: 14 bytes
\* Ethernet, 20 IP, 8 UDP and 12 DNS.
IsUdpQuery(p) ==
    /\ p.type = EtherTypeIP /\ p.ip_v = 4 /\ p.ip_hl = 5 /\ p.ip_p = 17
    /\ p.dport = DnsPort /\ p.qr = 0 /\ p.opcode = 0
    /\ p.caplen \in 54 .. MaxPacket

\* What the loader cannot tell from one: another transport, a header with options, a
\* capture cut off before the end of the DNS header.
Unchecked(p) == p.ip_p # 17 \/ p.ip_hl # 5 \/ p.caplen < 54

\* The entries of the file a user means to be sent, and those that may be sent.
Meant(n) == IF file.format = "pcap" THEN IsUdpQuery(file.entries[n])
                                    ELSE Compiles(file.entries[n])
Tolerated(n) == file.format = "pcap" /\ Unchecked(file.entries[n])

\* Every query of the file reaches the threads exactly once, in the order of the file.
\* Beside them only packets do that the loader has no test for: no response, no other
\* operation, port or network protocol, no oversized packet, unless it is such a packet.
\* (The loader reports all of them as "valid UDP DNS queries".)
CacheIsFiltered ==
    lpc = "ready" =>
        /\ \A q \in 1 .. Len(cache) :
               /\ cache[q] \in 1 .. Len(file.entries)
               /\ Meant(cache[q]) \/ Tolerated(cache[q])
               /\ q > 1 => cache[q - 1] < cache[q]
        /\ \A n \in 1 .. Len(file.entries) :
               Meant(n) => \E q \in 1 .. Len(cache) : cache[q] = n

\* Over all threads the queries of the file are used equally often.
EvenlyServed ==
    \A p, q \in DOMAIN served : served[p] <= served[q] + 1

\* The payload as the threads see it: until getQuery returns, the query it has read
\* still counts as the next one.
AbsSize == IF lpc = "ready" THEN Len(cache) ELSE 0
AbsPos == IF mutex # NoThread /\ tpc[mutex] \in {"advance", "wrap", "unlock"}
          THEN bap[mutex] ELSE it

Rotation == INSTANCE RoundRobin WITH size <- AbsSize, pos <- AbsPos

\* The shared iterator implements the rotation: no query is skipped or handed out
\* twice in a round, whichever threads call getQuery at the same time.
ImplementsRoundRobin == Rotation!Spec

\* The inductive invariant: only the owner of the mutex is inside getQuery, and how
\* far it is determines where the iterator stands.
CallInv(t) ==
    /\ tpc[t] # "out" => mutex = t /\ lpc = "ready"
    /\ tpc[t] \in {"advance", "wrap", "unlock"} => bap[t] \in 1 .. Len(cache)
    /\ tpc[t] = "advance" => it = bap[t]
    /\ tpc[t] = "wrap" => it = bap[t] + 1
    /\ tpc[t] = "unlock" => it = IF bap[t] = Len(cache) THEN 1 ELSE bap[t] + 1

PayloadInv ==
    /\ TypeOK
    /\ valid = Len(cache) /\ it > 0
    /\ lpc = "open" => cache = <<>>
    /\ lpc = "ready" => Len(cache) > 0
    /\ lpc # "ready" => it = 1
    /\ lpc = "ready" /\ (mutex = NoThread \/ tpc[mutex] = "read") => it \in 1 .. Len(cache)
    /\ mutex # NoThread => tpc[mutex] # "out"
    /\ \A t \in Threads : CallInv(t)

\* The queries before the turn have been read once more than the others.
Turn == IF mutex # NoThread /\ tpc[mutex] = "advance" THEN it + 1 ELSE it

ServedInv ==
    IF lpc = "ready"
    THEN /\ served \in [1 .. Len(cache) -> Nat]
         /\ \E n \in Nat : \A q \in 1 .. Len(cache) :
                served[q] = IF q < Turn THEN n + 1 ELSE n
    ELSE served = <<>>

\* What has been read so far is in the cache, filtered and in order.
CacheInv ==
    /\ file \in Files /\ line \in 0 .. Len(file.entries)
    /\ lpc = "open" => line = 0
    /\ lpc = "ready" => line = Len(file.entries)
    /\ \A q \in 1 .. Len(cache) :
           /\ cache[q] \in 1 .. line /\ Kept(cache[q])
           /\ q > 1 => cache[q - 1] < cache[q]
    /\ \A n \in 1 .. line : Kept(n) => \E q \in 1 .. Len(cache) : cache[q] = n
=============================================================================
