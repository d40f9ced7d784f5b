-------------------------- MODULE RawSocketReceiver --------------------------
(***************************************************************************)
(* The life of the raw socket receiver: what its constructor acquires and  *)
(* gives back on every failure, the packet filter and the interface, and,  *)
(* on FreeBSD, how packets come out of the kernel: through two buffers     *)
(* shared with it, each owned by one side at a time (zero copy), or through*)
(* read() when the kernel grants no such buffers.                          *)
(*                                                                         *)
(* The counting itself, and the filters of the Linux receive, are in       *)
(* AnswerCounter: here a packet is a number, in the order of capture.      *)
(***************************************************************************)
EXTENDS Integers, Sequences

CONSTANTS
    TargetIP, TargetPort,  \* whose answers to capture
    Slots,        \* packets a buffer holds
    ChunkSize,    \* bytes of a packet with its bpf_hdr, aligned
    HeaderSize,   \* bytes of bpf_zbuf_header: 32
    GenRange,     \* values of a generation number: 2^32
    MaxPackets    \* bound: packets captured

ASSUME TargetAssumption == TargetIP \in Nat /\ TargetPort \in Nat
ASSUME BufferAssumption ==
    /\ Slots \in Nat \ {0} /\ MaxPackets \in Nat
    \* Ethernet, IP and UDP headers alone make a chunk larger than the buffer's header
    /\ HeaderSize \in Nat /\ ChunkSize \in Nat /\ HeaderSize < ChunkSize
    /\ GenRange \in Nat /\ GenRange > 1

VARIABLES
    bsd,        \* built with DNSMETER_USE_BPF
    pc,
    owned,      \* what has been acquired: descriptor, buffers
    twice,      \* something was given back that was not owned
    useZeroCopyBuffer,
    second,     \* the second attempt, with 4096 bytes, is under way
    filtered, bound,  \* BIOCSETF and BIOCSETIF are done
    withHeader, \* bzh_kernel_len counts the header of the buffer, too
    store,      \* the buffer the kernel writes to
    fill,       \* packets in each of its buffers
    mem,        \* what the buffers contain: packets, 0 where there never was one
    kernel_gen, user_gen, kernel_len,  \* bpf_zbuf_header of each buffer
    queue,      \* packets the kernel holds for read()
    zhdr,       \* the buffer being read
    done, size, \* of read_buffer
    captured,   \* packets captured so far
    foreign,    \* those of them that are no answers of the target
    counted     \* the packets counted, in order

socket == <<bsd, owned, twice, useZeroCopyBuffer, second, filtered, bound, withHeader>>
kernel == <<store, fill, kernel_gen, kernel_len, queue, captured, foreign>>
program == <<user_gen, zhdr, done, size, counted>>
vars == <<pc, socket, kernel, mem, program>>

Buffers == {"A", "B"}
Other(b) == IF b = "A" THEN "B" ELSE "A"

-----------------------------------------------------------------------------
(***************************************************************************)
(* The packet filter.                                                      *)
(***************************************************************************)

\* A packet is what stands at the offsets the filter looks at: the Ethernet type, the
\* IP protocol, the source address and the source port.
IPv4 == 2048
UDP == 17
Offsets == {12, 23, 26, 34}
Values == {0, UDP, IPv4, TargetIP, TargetPort}
Packets == [Offsets -> Values]

\* What the filter is for: UDP over IPv4, from the target.
Answers ==
    {p \in Packets : p[12] = IPv4 /\ p[23] = UDP /\ p[26] = TargetIP /\ p[34] = TargetPort}

Insn(op, k, jf) == [op |-> op, k |-> k, jf |-> jf]

\* Mutant: the jump of a packet that is not UDP is one too short.
insnsShort ==
    << Insn("ld", 12, 0), Insn("jeq", IPv4, 7),
       Insn("ld", 26, 0), Insn("jeq", TargetIP, 5),
       Insn("ld", 23, 0), Insn("jeq", UDP, 2),
       Insn("ld", 34, 0), Insn("jeq", TargetPort, 1),
       Insn("ret", 1, 0), Insn("ret", 0, 0) >>

\* The program setSource installs: load, jump over jf instructions unless equal, return.
insns ==
    << Insn("ld", 12, 0), Insn("jeq", IPv4, 7),
       Insn("ld", 26, 0), Insn("jeq", TargetIP, 5),
       Insn("ld", 23, 0), Insn("jeq", UDP, 3),
       Insn("ld", 34, 0), Insn("jeq", TargetPort, 1),
       Insn("ret", 1, 0), Insn("ret", 0, 0) >>

\* How the kernel runs it: from instruction i on, with a in its register.
Accepts(p) ==
    LET run[i \in 1 .. 10] ==
            [a \in Values |->
                CASE insns[i].op = "ld" -> run[i + 1][p[insns[i].k]]
                  [] insns[i].op = "jeq" -> run[i + 1 + (IF a = insns[i].k THEN 0 ELSE insns[i].jf)][a]
                  [] insns[i].op = "ret" -> insns[i].k # 0]
    IN  run[1][0]

Accepted == {p \in Packets : Accepts(p)}

-----------------------------------------------------------------------------
(***************************************************************************)
(* The constructor.                                                        *)
(***************************************************************************)

Init ==
    /\ bsd \in BOOLEAN /\ withHeader \in BOOLEAN
    /\ pc = "open" /\ owned = {} /\ twice = FALSE
    /\ useZeroCopyBuffer = FALSE /\ second = FALSE /\ filtered = FALSE /\ bound = FALSE
    /\ store = "A" /\ queue = <<>> /\ captured = 0 /\ foreign = {}
    /\ fill = [b \in Buffers |-> 0]
    /\ mem = [b \in Buffers \union {"buffer"} |-> [i \in 1 .. Slots |-> 0]]
    /\ kernel_gen = [b \in Buffers |-> 0] /\ user_gen = kernel_gen /\ kernel_len = kernel_gen
    /\ zhdr = "buffer" /\ done = 0 /\ size = 0 /\ counted = <<>>

\* A call that acquires r.
Acquire(at, r, then) ==
    /\ pc = at /\ pc' = then /\ owned' = owned \union {r} /\ UNCHANGED twice

\* A call that acquires nothing.
Call(at, then) == pc = at /\ pc' = then /\ UNCHANGED <<owned, twice>>

\* A call that fails, and what its caller then gives back.
Fails(at, then, rs) ==
    /\ pc = at /\ pc' = then /\ owned' = owned \ rs
    /\ twice' = (twice \/ ~(rs \subseteq owned))

\* What the constructor leaves alone.
RestKept == UNCHANGED <<bsd, filtered, bound, withHeader, kernel, mem, program>>

\* Linux: the buffer, the socket and its mode.
ConstructLinux ==
    /\ ~bsd
    /\ \/ Acquire("open", "buffer", "socket") \/ Fails("open", "failed", {})
       \/ Acquire("socket", "sd", "mode") \/ Fails("socket", "failed", {"buffer"})
       \/ Call("mode", "setSource") \/ Fails("mode", "failed", {"sd", "buffer"})
    /\ UNCHANGED <<useZeroCopyBuffer, second>> /\ RestKept

\* FreeBSD: a bpf device.
OpenBpf ==
    /\ bsd
    /\ Acquire("open", "sd", "zbuf") \/ Fails("open", "failed", {})
    /\ UNCHANGED <<useZeroCopyBuffer, second>> /\ RestKept

\* The structure that names the zero-copy buffers.
AllocZbuf ==
    /\ Acquire("zbuf", "buffer", "zmode") \/ Fails("zbuf", "failed", {"sd"})
    /\ UNCHANGED <<useZeroCopyBuffer, second>> /\ RestKept

\* initZeroCopyBuffer: BIOCSETBUFMODE and BIOCSTSTAMP, then two attempts.  Whatever it
\* throws, the constructor frees the structure and goes on in buffered mode.
InitZeroCopyBuffer ==
    /\ \/ Call("zmode", "bufa") /\ UNCHANGED <<useZeroCopyBuffer, second>>
       \/ Fails("zmode", "fallback", {"buffer"}) /\ UNCHANGED <<useZeroCopyBuffer, second>>
       \/ Call("setzbuf", "setSource") /\ useZeroCopyBuffer' = TRUE /\ UNCHANGED second
       \/ /\ ~second /\ second' = TRUE /\ UNCHANGED useZeroCopyBuffer
          /\ Fails("setzbuf", "bufa", {"A", "B"})
       \/ /\ second /\ UNCHANGED <<useZeroCopyBuffer, second>>
          /\ Fails("setzbuf", "fallback", {"A", "B", "buffer"})
    /\ RestKept

\* Mutant: the first buffer is not freed when there is no memory for the second.
TryAllocLeaks ==
    /\ \/ Acquire("bufa", "A", "bufb") \/ Fails("bufa", "fallback", {"buffer"})
       \/ Acquire("bufb", "B", "setzbuf") \/ Fails("bufb", "fallback", {"buffer"})
    /\ UNCHANGED <<useZeroCopyBuffer, second>> /\ RestKept

\* tryAllocZeroCopyBuffer, up to BIOCSETZBUF.
TryAllocZeroCopyBuffer ==
    /\ \/ Acquire("bufa", "A", "bufb") \/ Fails("bufa", "fallback", {"buffer"})
       \/ Acquire("bufb", "B", "setzbuf") \/ Fails("bufb", "fallback", {"A", "buffer"})
    /\ UNCHANGED <<useZeroCopyBuffer, second>> /\ RestKept

\* The constructor catches what was thrown and allocates a buffer for read().
Fallback ==
    /\ Acquire("fallback", "buffer", "bmode") \/ Fails("fallback", "failed", {"sd"})
    /\ UNCHANGED <<useZeroCopyBuffer, second>> /\ RestKept

\* BIOCSETBUFMODE and BIOCSBLEN.  The constructor cleans up and throws on.
InitBufferedMode ==
    /\ Call("bmode", "nonblock") \/ Fails("bmode", "failed", {"buffer", "sd"})
    /\ UNCHANGED <<useZeroCopyBuffer, second>> /\ RestKept

\* The non-blocking mode, with the same clean-up.
SetNonBlocking ==
    /\ Call("nonblock", "setSource") \/ Fails("nonblock", "failed", {"buffer", "sd"})
    /\ UNCHANGED <<useZeroCopyBuffer, second>> /\ RestKept

-----------------------------------------------------------------------------
(***************************************************************************)
(* The filter, the interface and the destructor, as main calls them.  An   *)
(* exception of the first two ends main, which deletes the receiver.       *)
(***************************************************************************)

SetSource ==
    /\ pc = "setSource"
    /\ \/ pc' = "setInterface" /\ filtered' = bsd
       \/ bsd /\ pc' = "delete" /\ UNCHANGED filtered
    /\ UNCHANGED <<bsd, owned, twice, useZeroCopyBuffer, second, bound, withHeader>>
    /\ UNCHANGED <<kernel, mem, program>>

\* BIOCSETIF and BIOCPROMISC; on Linux nothing.
InitInterface ==
    /\ pc = "setInterface"
    /\ \/ pc' = "idle" /\ bound' = bsd
       \/ bsd /\ pc' = "delete" /\ bound' \in BOOLEAN
    /\ UNCHANGED <<bsd, owned, twice, useZeroCopyBuffer, second, filtered, withHeader>>
    /\ UNCHANGED <<kernel, mem, program>>

\* The load test is over and the receiver thread has ended.
Delete ==
    /\ pc = "idle" /\ pc' = "delete"
    /\ UNCHANGED <<socket, kernel, mem, program>>

\* ~RawSocketReceiver
Destroy ==
    /\ Fails("delete", "gone", {"sd", "buffer"} \union IF useZeroCopyBuffer THEN Buffers ELSE {})
    /\ bound' = FALSE
    /\ UNCHANGED <<bsd, useZeroCopyBuffer, second, filtered, withHeader, kernel, mem, program>>

\* main() has returned.
Ended == pc \in {"failed", "gone"} /\ UNCHANGED vars

-----------------------------------------------------------------------------
(***************************************************************************)
(* The kernel.                                                             *)
(***************************************************************************)

Acknowledged(b) == user_gen[b] = kernel_gen[b]

\* A packet arrives that the filter lets through, and there is room for it.
Capture ==
    /\ bound /\ captured < MaxPackets /\ captured' = captured + 1
    /\ \E p \in IF filtered THEN Accepted ELSE Packets :
           foreign' = foreign \union IF p \in Answers THEN {} ELSE {captured'}
    /\ IF useZeroCopyBuffer
       THEN /\ fill[store] < Slots
            /\ fill' = [fill EXCEPT ![store] = @ + 1]
            /\ mem' = [mem EXCEPT ![store][fill[store] + 1] = captured']
            /\ UNCHANGED queue
       ELSE /\ Len(queue) < 2 * Slots
            /\ queue' = Append(queue, captured')
            /\ UNCHANGED <<fill, mem>>
    /\ UNCHANGED <<pc, socket, store, kernel_gen, kernel_len, program>>

\* The kernel hands over the buffer it has written to, when the other, handed over before
\* it, has been acknowledged, and goes on in that one.
Rotate ==
    /\ bound /\ useZeroCopyBuffer /\ fill[store] > 0
    /\ Acknowledged(Other(store)) /\ store' = Other(store)
    /\ kernel_gen' = [kernel_gen EXCEPT ![store] = (@ + 1) % GenRange]
    /\ kernel_len' =
           [kernel_len EXCEPT ![store] =
                fill[store] * ChunkSize + IF withHeader THEN HeaderSize ELSE 0]
    /\ fill' = [fill EXCEPT ![Other(store)] = 0]
    /\ UNCHANGED <<pc, socket, queue, captured, foreign, mem, program>>

\* What select() waits for.
Readable ==
    IF useZeroCopyBuffer THEN \E b \in Buffers : ~Acknowledged(b) ELSE queue # <<>>

-----------------------------------------------------------------------------
(***************************************************************************)
(* The receiver thread.                                                    *)
(***************************************************************************)

\* socketReady, then receive, with zero-copy buffers.
Receive ==
    /\ pc = "idle" /\ Readable /\ useZeroCopyBuffer
    /\ pc' = "A"
    /\ UNCHANGED <<socket, kernel, mem, program>>

\* The same with read(), which overwrites the start of the buffer only.  A read of less
\* than 34 bytes, which select() rules out, would change nothing.
ReceiveBuffered ==
    /\ pc = "idle" /\ Readable /\ ~useZeroCopyBuffer
    /\ pc' = "read" /\ zhdr' = "buffer" /\ done' = 0
    /\ \E n \in 1 .. Len(queue) :
           /\ n <= Slots
           /\ size' = n * ChunkSize
           /\ mem' = [mem EXCEPT !["buffer"] = [i \in 1 .. Slots |-> IF i <= n THEN queue[i] ELSE @[i]]]
           /\ queue' = SubSeq(queue, n + 1, Len(queue))
    /\ UNCHANGED <<socket, store, fill, kernel_gen, kernel_len, captured, foreign, user_gen, counted>>

\* What receive goes on with after buffer b.
After(b) == IF b = "A" THEN "B" ELSE "idle"

\* Mutant: only the first buffer is ever looked at.
buffer_checkFirst(b) == b = "A" /\ ~Acknowledged(b)

buffer_check(b) == ~Acknowledged(b)

\* Mutant: a buffer is acknowledged as soon as it has been found.
ReadZbufferAcksFirst(b) ==
    /\ pc = b /\ buffer_check(b)
    /\ pc' = "read" /\ zhdr' = b /\ done' = 0 /\ size' = kernel_len[b] - HeaderSize
    /\ user_gen' = [user_gen EXCEPT ![b] = kernel_gen[b]]
    /\ UNCHANGED <<socket, kernel, mem, counted>>

\* receive has found buffer b, and read_zbuffer begins.
ReadZbuffer(b) ==
    /\ pc = b /\ buffer_check(b)
    /\ pc' = "read" /\ zhdr' = b /\ done' = 0 /\ size' = kernel_len[b] - HeaderSize
    /\ UNCHANGED <<socket, kernel, mem, user_gen, counted>>

\* Buffer b is the kernel's.
SkipZbuffer(b) ==
    /\ pc = b /\ ~buffer_check(b)
    /\ pc' = After(b)
    /\ UNCHANGED <<socket, kernel, mem, program>>

\* What stands in the buffer at done.
Chunk == mem[zhdr][(done \div ChunkSize) + 1]

\* read_buffer goes on: not beyond size, and not where nothing was ever written.
More == done < size /\ Chunk # 0

\* One round of read_buffer, with count_packet.
ReadPacket ==
    /\ pc = "read" /\ More
    /\ counted' = Append(counted, Chunk) /\ done' = done + ChunkSize
    /\ UNCHANGED <<pc, socket, kernel, mem, user_gen, zhdr, size>>

\* read_buffer returns; of a zero-copy buffer, buffer_acknowledge follows.
EndRead ==
    /\ pc = "read" /\ ~More
    /\ pc' = After(zhdr)
    /\ user_gen' =
           IF zhdr = "buffer" THEN user_gen ELSE [user_gen EXCEPT ![zhdr] = kernel_gen[zhdr]]
    /\ UNCHANGED <<socket, kernel, mem, zhdr, done, size, counted>>

-----------------------------------------------------------------------------

Receiver ==
    \/ Receive \/ ReceiveBuffered
    \/ \E b \in Buffers : ReadZbuffer(b) \/ SkipZbuffer(b)
    \/ ReadPacket \/ EndRead

Next ==
    \/ ConstructLinux
    \/ OpenBpf \/ AllocZbuf \/ InitZeroCopyBuffer \/ TryAllocZeroCopyBuffer
    \/ Fallback \/ InitBufferedMode \/ SetNonBlocking
    \/ SetSource \/ InitInterface
    \/ Capture \/ Rotate
    \/ Receiver
    \/ Delete \/ Destroy \/ Ended

\* The receiver thread gets its turn.  Nothing is assumed of the kernel, and the load
\* test need never end.
Spec == Init /\ [][Next]_vars /\ WF_vars(Receiver)

-----------------------------------------------------------------------------
(***************************************************************************)
(* Properties.                                                             *)
(***************************************************************************)

TypeOK ==
    /\ bsd \in BOOLEAN /\ twice \in BOOLEAN /\ useZeroCopyBuffer \in BOOLEAN
    /\ second \in BOOLEAN /\ filtered \in BOOLEAN /\ bound \in BOOLEAN /\ withHeader \in BOOLEAN
    /\ owned \subseteq {"sd", "buffer", "A", "B"}
    /\ store \in Buffers /\ fill \in [Buffers -> 0 .. Slots]
    /\ mem \in [Buffers \union {"buffer"} -> [1 .. Slots -> Nat]]
    /\ kernel_gen \in [Buffers -> 0 .. GenRange - 1] /\ user_gen \in [Buffers -> 0 .. GenRange - 1]
    /\ kernel_len \in [Buffers -> Nat] /\ queue \in Seq(Nat)
    /\ zhdr \in Buffers \union {"buffer"} /\ done \in Nat /\ size \in Int
    /\ captured \in Nat /\ foreign \subseteq Nat /\ counted \in Seq(Nat)

\* Every packet captured is counted once, in order, none is skipped and nothing else is
\* counted, although two buffers go back and forth between kernel and program without a
\* lock, keep what an earlier use left in them, and read_zbuffer takes the header off a
\* length that does not count it.
EveryPacketOnce == \A i \in 1 .. Len(counted) : counted[i] = i

\* Only answers of the target are counted, and the filter keeps none of them out: the
\* FreeBSD receive looks at no packet itself and relies on the jumps of the filter, and
\* on its being there before the interface is.
OnlyAnswers ==
    /\ bound => Accepted = Answers
    /\ \A i \in 1 .. Len(counted) : counted[i] \notin foreign

\* Whichever of its calls fails, the constructor gives back what it has acquired, and
\* nothing twice; a receiver in use owns exactly what its destructor gives back.
ResourcesExact ==
    /\ ~twice
    /\ pc \in {"failed", "gone"} => owned = {}
    /\ pc \in {"idle", "A", "B", "read"} =>
           owned = {"sd", "buffer"} \union IF useZeroCopyBuffer THEN Buffers ELSE {}

\* A buffer the kernel hands over is read and given back, unless the test ends before.
HeldIsRead ==
    \A b \in Buffers : ~Acknowledged(b) ~> (Acknowledged(b) \/ pc \in {"delete", "gone"})

-----------------------------------------------------------------------------
(***************************************************************************)
(* Inductive invariants.                                                   *)
(***************************************************************************)

\* Where the receiver does not exist yet, and where it does.
Constructing ==
    {"open", "socket", "mode", "zbuf", "zmode", "bufa", "bufb", "setzbuf", "fallback",
     "bmode", "nonblock"}
Constructed == {"setSource", "setInterface", "idle", "A", "B", "read", "delete"}

\* What is owned, by where the constructor is.
ResourceInv ==
    /\ pc \in Constructing \union Constructed \union {"failed", "gone"}
    /\ twice = FALSE
    /\ pc \in {"open", "failed", "gone"} => owned = {}
    /\ pc = "socket" => owned = {"buffer"}
    /\ pc \in {"zbuf", "fallback"} => owned = {"sd"}
    /\ pc \in {"mode", "zmode", "bufa", "bmode", "nonblock"} => owned = {"sd", "buffer"}
    /\ pc = "bufb" => owned = {"sd", "buffer", "A"}
    /\ pc = "setzbuf" => owned = {"sd", "buffer", "A", "B"}
    /\ pc \in Constructed =>
           owned = {"sd", "buffer"} \union IF useZeroCopyBuffer THEN Buffers ELSE {}
    /\ pc \in Constructing => ~useZeroCopyBuffer

\* The interface is only ever attached with the filter in place.
FilterInv ==
    /\ pc = "setInterface" => (filtered <=> bsd)
    /\ bound => bsd /\ filtered
    /\ foreign = {}

\* Nothing has been captured before the receiver exists.
FreshInv ==
    pc \in Constructing =>
        /\ ~bound /\ captured = 0 /\ counted = <<>> /\ queue = <<>>
        /\ fill = [b \in Buffers |-> 0] /\ kernel_gen = user_gen

\* The packets counted or under way before those in the kernel's buffer, and before
\* those in the buffer handed over.
Stored == captured - fill[store]
Handed == Stored - fill[Other(store)]

\* The buffer b holds the packets that follow number n.
Holds(b, n) == \A j \in 1 .. fill[b] : mem[b][j] = n + j

\* Of the two buffers, one is the kernel's; the other is acknowledged, or it holds the
\* packets that follow the ones counted, and read_buffer is somewhere between its start
\* and its end.
ZeroCopyInv ==
    /\ Acknowledged(store) /\ Stored >= 0 /\ Holds(store, Stored)
    /\ Acknowledged(Other(store)) => pc # "read" /\ Len(counted) = Stored
    /\ ~Acknowledged(Other(store)) =>
           /\ Handed >= 0 /\ Holds(Other(store), Handed)
           /\ kernel_len[Other(store)] =
                  fill[Other(store)] * ChunkSize + IF withHeader THEN HeaderSize ELSE 0
           /\ IF pc = "read"
              THEN /\ zhdr = Other(store) /\ size = kernel_len[zhdr] - HeaderSize
                   /\ Len(counted) \in Handed .. Stored
                   /\ done = (Len(counted) - Handed) * ChunkSize
              ELSE Len(counted) = Handed

\* The packets in the buffer of read() follow the ones counted, and those in the queue
\* of the kernel follow them.
Queued == captured - Len(queue)
BufferedInv ==
    /\ Queued >= 0 /\ \A j \in 1 .. Len(queue) : queue[j] = Queued + j
    /\ pc \notin {"A", "B"}
    /\ IF pc = "read"
       THEN \E n \in 1 .. Slots :
               /\ zhdr = "buffer" /\ size = n * ChunkSize /\ n <= Queued
               /\ \A j \in 1 .. n : mem["buffer"][j] = Queued - n + j
               /\ Len(counted) \in Queued - n .. Queued
               /\ done = (Len(counted) - (Queued - n)) * ChunkSize
       ELSE Len(counted) = Queued

CountInv ==
    /\ EveryPacketOnce
    /\ IF useZeroCopyBuffer THEN ZeroCopyInv ELSE BufferedInv
=============================================================================
