# dnsmeter in TLA+

A model of [dnsmeter](../src/README.md), a load generator for DNS servers. It sends the queries of a
payload file from several threads, at a list of query rates ("load steps"), listens for the answers on a
raw socket, and prints and saves one line of results per load step. All paths below are relative to
`src/src/`.

What a user wants from it is that the line of a load step is true: that the load was what was asked for,
that the numbers are those of that step, and that none is lost, counted twice or read while it still
changes. The modules here say where the code guarantees that and where it does not.

Contents: [inventory](#inventory) · [plan](#plan) · [modules](#modules-and-the-code) ·
[runs](#runs) · [fairness](#fairness) · [proofs](#proofs) · [findings](#findings) ·
[assumptions and limits](#assumptions-and-what-is-not-modelled)

## Inventory

| Component | State | Operations | Correct when |
|---|---|---|---|
| Load test control, `dns_sender.cpp` `main`, `run`, `getResults`, `showCurrentStats`, `presentResults` | list of rates, `stopFlag`, `Results`, `vis_prev_results`, thread pool, receiver | begin a step, start, poll and stop the threads, read their counters, report, SIGINT, fail | every step begun is reported once and exactly; the difference between two readings is never negative; the test ends |
| Sender thread, `dns_sender_thread.cpp` | counters, rate, slice, clock, `dnsseccounter`, packet | enter `run`, send, pace, check the stop request, wait for late answers | load even, never ahead of the rate, complete when undisturbed; ends |
| Receiver thread, `dns_receiver_thread.cpp` | `Counter`, stop request | enter `run` (clears), receive, stop | listens as long as answers are awaited |
| Raw socket receiver, `raw_socket_receiver.cpp` (Linux part) | descriptor, buffer, counters, min/max/sum of round-trip times | open, filter, `count_packet`, `clear`, close | round-trip times are the true ones |
| Payload, `payload_file.cpp` | query cache, iterator, mutex | load text or pcap, `getQuery` | exactly the valid queries, used in turn by all threads |
| Packet and queries, `packet.cpp`, `query.cpp` | one buffer per thread, `chksum_valid` | set payload, source, id; checksums; time stamps | packets leave with checksums that verify, from the source asked for, and fit the buffer |
| Start-up and CSV file, `dns_sender.cpp` `getParameter`, `getQueryRates`, `openFiles`, `openCSVFile`, `saveResultsToCsv` | options, rates, CSV file | parse, refuse, open, append | one header, no line lost, nothing runs half configured |
| System statistics, `system_stat.cpp` | two samples, each a map of interfaces and a total | sample, delta | the delta is that of the step |
| FreeBSD receiver (BPF, zero-copy buffers), `raw_socket_receiver.cpp` | descriptor, buffers shared with the kernel, filter | acquire, fall back, filter, bind, read, acknowledge, release | every packet counted once, answers only; nothing leaks |
| Raw socket sender, `raw_socket_sender.cpp` | one socket, its destination | open, set the destination, send | never sends without a destination |
| pplib | threads, pool, mutex, files, strings | | external: the submodule is not part of the repository |

How they interact:

- **main and senders**: `startThreads` and `stopThreads` of the pool; main reads the counters of running
  threads without a lock, one thread after the other, once a second and at the end of the step.
- **main and receiver**: `threadStart` and `threadStop` (which waits); main reads `Counter` while it is
  being written. The receiver thread is started anew for each step, its socket is opened once.
- **senders and payload**: all threads share one iterator, under a mutex.
- **senders, name server, receiver**: a query carries its time stamp as DNS id; an answer is matched with
  nothing else.
- **user**: SIGINT sets `stopFlag`, which main looks at in its polling loop and once after it.
- **invocations**: share nothing but the CSV file.

What is hard to test: readings in the middle of counting; a signal in any of the gaps of main's code;
answers that are late, lost or duplicated, also across the boundary of two load steps; a failure after a
step has been measured; threads that are late on an overloaded machine; rounding of rates, slices and
shares that shows only in the last slice; a time stamp that starts again; a time of day that is set while
the test runs; two buffers shared with the kernel without a lock; a constructor nine of whose calls can fail; a
process killed between opening its CSV file and saving a row. `PROJECT.json` lists these hazards at their lines.

## Plan

Done, in this order:

1. `Session`, its abstract specification `LoadTest`, and the proofs: the core of the program.
2. `SenderThread`: the rate limiter on a clock.
3. `PayloadFile` with `RoundRobin`: the state the threads share.
4. `AnswerCounter`: what the receiver computes.
5. `SendPacket`: what a thread puts on the wire.
6. `Startup`: command line, rates and the CSV file across invocations.
7. A time of day that is set back and forth under `SenderThread`, and answers of any age in `AnswerCounter`.
8. The one's complement sums, source addresses and exceptions in `SendPacket`.
9. `RawSocketReceiver`: resources, filter and the zero-copy buffers of FreeBSD.
10. `SystemStat`: what is sampled around a load step.

11. Proofs of every invariant and action property the passing runs check, and of both refinements.

Left: the liveness properties, which stay with TLC. Worth adding next is a theorem that no run checks, because its instance would be too large: the load of
the whole pool, the sum of the threads' shares, against the rate asked for.

`Session`, `SenderThread`, `SendPacket` and `AnswerCounter` describe the same threads at different grain and
meet in named actions: `Session!Send` is one round of `SendPacket`, `Session!EndLoop` and `EndTimeout` are the
ends of `SenderThread`'s two loops (whose existence under every clock is `LoopEnds`), `Session!Receive` is one
`ReceiveAnswer` or `ReceiveForeign`, `ReceiverBegin` is `Clear`; on FreeBSD it is one `ReadPacket` of `RawSocketReceiver`;
`Sample1` and `Sample2` of `SystemStat` are in `BeginStep` and `Sample2` of `Session`. They are not composed into one state machine:
they share no variable but the counters, and their product would be beyond TLC without showing more.

## Modules and the code

### Session, LoadTest

`Session` is one invocation after its start-up. `mpc` is main's place in `main`, `run` and `getResults`; `spc[t]`
and `rpc` are the threads'. Every point of main's code at which another thread can make a difference is a value of
`mpc`; in particular `getResults` is one step per thread it reads (`ReadSender`, then `ReadReceiver`), both for the
line printed every second (`stats`) and at the end of the step (`final`).

The sums the program keeps are vectors here: a reading has one entry per sender, and answers are told
apart by the load step of their query. The program prints the sums of these vectors. That makes "the
answers of an earlier step" something a property can speak about, and keeps sums out of all proofs but two: `Total` adds a vector up
where the property is about the number printed (`AnswersCountedOnce`, `LossNotOverstated`). `CounterRange` stands for the 2^64 of a counter.

Failures: `sampleSensorData` can throw before (`Sample1Fails`) and after (`Sample2Fails`) the step, a rate that is too
small for the number of threads is refused in the middle of the list (`RejectStep`), the CSV file cannot be written
(`SaveFails`), a send fails or is partial (`SendFails`). The network answers, duplicates, delays and loses: a message that is lost is one that stays in
`net`. SIGINT (`Signal`) can come at any point; `stopAt` remembers how many steps had begun.

`LoadTest` is the promise: between two steps or in one, threads send, answers are counted, and at the end of a
step a report appears that is, in one instant, exactly what was sent and counted. `Session` implements it
(`ImplementsLoadTest`) although its reports are put together piece by piece. A counter counts as zero, in the
mapping, from the beginning of a step until its thread has entered `run()` and reset it.

### SenderThread

How main derives a thread's rate and slice (`calcTimeslice`, integer division of the rate), the loop over
the time slices with its share per slice, its sleep and its check every tenth of a second, the unlimited loop and
`waitForTimeout`. Ticks can fall between any two steps of the thread.

A tick is the distance of two neighbouring doubles around the seconds of the epoch, 2^-22 s, because every time the thread compares is
such a double. A slice is `SliceNum / SliceDen` ticks, seldom a whole number, and is rounded in three places: when main computes it in single
precision, which makes it longer or shorter by up to one part in `Precision`; when the number of slices is computed from that and truncated
(`TotalTimeslices`, a set: every number the quotient can come to); and each time it is added to `next_timeslice`, to the nearest tick (`TicksOfSlice`). The last one is
not small. 0.1 ms, the slice of every rate above 10000 queries per second and thread, are 419.43 ticks, and 419 are added every time: such a
load step runs 0.1 % fast, is more than a slice ahead after a thousand slices, and ends as much early. `HasteNum / HasteDen` is what all the
rounding can add up to (1.0012 for 0.1 ms and 10 s; 1.00012 and 1 / total for a millisecond), and `NeverAhead` and `UndisturbedIsComplete` say that nothing else does.

`clock` is the time that passes; the code reads `now`, which is `clock` plus an offset that `SetClock` changes by any amount of `Jumps`,
forth or back, up to `MaxJumps` times. `ahead` adds up what the time was set forth: by so much, and no more, a
thread may be early (`NeverAhead`).

### PayloadFile, RoundRobin

Loading goes entry by entry. A line of a text file is a record of what `loadAndCompile` and `MakeQuery` look at, a packet of a pcap file one of
what stands at the offsets the loader reads, with the length captured, and of two fields it does not read, `ip_p` and `ip_hl`; beyond the end
of the capture these are any values. `Compiles` and `Passes` are the tests of the code. `IsUdpQuery` is what a user takes a query for, and `Unchecked` names what the loader cannot
tell from one: it never looks at the protocol, so TCP segments to port 53 are kept, nor at the length of the IP header, nor at the end of the capture.
`CacheIsFiltered` says that every query is kept, once and in order, and beside them only such packets. `getQuery` is five steps (lock, read,
advance, wrap, unlock) of any thread. `RoundRobin` is what the threads rely on: one query at a time, in order, over
and over.

### AnswerCounter

The filters of `receive` by the test a packet fails, `getQueryTimestamp` and `getQueryRTT` with their lap of 60000
and their 16 bits, and `count_packet`. Beside the code's counters the state has the true age of every query and
the true sum, least and greatest round-trip time. `rcodes` has one entry for 0 to 14 and one for 15, which the code
neither initialises nor clears. A query can be of any age, which saturates at a lap: an answer older than that gets a
round-trip time too short, and as long as only answers to queries of this test are counted (`own`) none gets one too long
(`RttNeverInflated`).

### SendPacket

A thread is prepared (`Prepare`: destination, and one of three kinds of source) and sends one packet after the
other: the query and its size, the DNSSEC share, and the setters of `Packet`, each with what it does to `chksum_valid`. The packet is
a record of the fields its checksums cover, `sum` holds the two checksums in the buffer. `RawIp` and `RawUdp` add up the same words as
the code, constant ones included; `in_cksum` folds and complements their sum. A query is the sum of its words
(`body`), an address is one number of which the sum sees two words. Exceptions nobody catches lead to `threw`: a query too large for the
buffer, and a socket without destination, which `send` knows by the address 255.255.255.255. A captured packet shorter than its three headers, which the loader keeps, makes
the size of its query wrap around and the `memcpy` of that many bytes leave its buffer: `crashed`. `EndsByInputOnly` says that a thread ends in no other way:
by this target, or by such a packet.

### RawSocketReceiver

One receiver from constructor to destructor, on Linux or FreeBSD. Every call of the constructor is a step that can fail;
`owned` is what it has acquired, and each failure gives back exactly what the code then frees or closes. `insns` is the filter program as
it stands in `setSource`, and `Accepts` runs it as bpf(4) does, so a wrong jump shows.

The kernel's side is external: `Capture` writes the next packet into the buffer `store`, `Rotate` hands it over by raising its
`kernel_gen`, provided the other one has been acknowledged. The buffers keep what they contained (`mem`). The receiver's
steps are `receive` at the grain at which the kernel can come between: looking at buffer A, each packet, the
acknowledgement, looking at buffer B. Whether `bzh_kernel_len` counts the header, which `read_zbuffer` takes off, is left open
(`withHeader`): in FreeBSD's kernel it does not, and then `size` is 32 bytes short. The loop still reads the last packet, because it
starts before that and no chunk is as short as 32 bytes (`BufferAssumption`). When the kernel grants no zero-copy
buffers, `ReceiveBuffered` reads from a queue.

### SystemStat

Samples before and after each load step (`sampleNetwork` into `sys1` and `sys2`, which live as long as the program), the line
about the network in `presentResults`, and an operating system in which interfaces carry traffic, come and go at any
time, and counters start again at `Width`. One counter stands for all eight of an interface; the total over all interfaces is never printed and left out. `traffic` and `wrapped` say what the
interface really carried since the first sample.

### Startup

Invocations one after the other, killed anywhere (`Gone`). Every early return of `getParameter`, `openFiles` and
`main` is a `Refuse`. Options have the values the code tells apart; a number that is missing or malformed reads as 0.
A load step is only its row here. The pattern that recognises a range has no closing delimiter; it is taken to
match, as the manual says.

`MCSession` holds the rates of the instances, `MCPayloadFile` the lines and packets, `MCStartup` sets of options. The other modules are their own instances.

## Runs

`tlc -config <cfg> <module>` in this directory.

| Run | Instance | Shows |
|---|---|---|
| `session` | 2 senders, with a receiver and with `--ignore`, 3 load steps (unlimited, limited, refused), 1 query each, symmetric | `FinalReadingExact`, `DiffNonNegative`, `ListeningWhileAwaited`, `ReportedOnce`, `NoResultWiped`, `ImplementsLoadTest`; and `SessionInv`, the invariant of the proofs |
| `answers` | 1 sender, 3 steps, 1 duplicate per step, fair | `AnswersCountedOnce`: late and duplicated answers land in exactly one row; `LossNotOverstated`: the loss reported is never more than what is missing, although it is a difference of unsigned numbers; `StopsPromptly`; `Termination` |
| `late` | 1 sender, 2 steps | **violation**: an answer of the first step is in the row of the second |
| `sender` | rates 0, 1, 2, 5 over 1 or 2 threads, 2 s of 7 ticks, at most 3 slices per second, slices off by up to 1/32, time set twice by 3 ticks | `SliceEven`, `NeverAhead`, `UndisturbedIsComplete`, `LimitKept`, `LoopEnds` |
| `rate` | 5 queries per second, 2 threads | **violation**: 4 are sent |
| `payload` | all files of up to 3 entries, of 6 kinds of lines or 12 kinds of packets, 2 threads, 3 calls each | `IteratorValid`, `CacheIsFiltered`, `EvenlyServed`, `ImplementsRoundRobin` |
| `counter` | 2 queries in flight, a lap of 4 in an id of 6 values | `RttExact`, `RttNeverInflated`, `MinExactAboveZero`, `RcodesOfStep` |
| `minimum` | the same | **violation**: an answer within 0.1 ms is forgotten as the minimum |
| `packet` | shares 0, 30, 100 %, 11 queries, smallest, largest and too small sizes, 4 addresses, one target the broadcast address, networks of 2 and of all | `ChecksumCovers`, `ChecksumVerifies`, `SourceAsAsked`, `DnssecShare`, `EndsByInputOnly` |
| `bpf` | 12 packets, 2 buffers of 3, generations of 3 values; 625 kinds of packets for the filter; fair | `EveryPacketOnce`, `OnlyAnswers`, `ResourcesExact`, `HeldIsRead` |
| `stat` | 3 steps, 2 interfaces, counters of 3 values, 2 comings and goings | `PrintedIsFirstStep`: what the code prints, which is not what one would want of it (see [findings](#findings)) |
| `startup` | 2 invocations, integers of 5 values, up to 5 rates | `CsvWellFormed`, `LinesKept`, `RatesAreRange`, `RangeEnds`, `RunsConfigured` |

Each property is stated with its definition. For every property of a passing run, `PROJECT.json` names a mutant: the
same definition with a plausible bug (a lock missing, a reset left out, a wrong comparison) that makes the property
fail.

**Why the bounds are enough.** `Session`: two senders are what it takes for a reading to be torn and for one thread to
outlive the other; two steps for anything to survive from one to the next, three for it to skip one; one query makes a
counter differ from its reset value and from the reading before; the third step of `session` is refused after two were reported. The theorems hold
without these bounds. `SenderThread`: the rates include one that divides evenly, one with a remainder, one below the number
of threads, one above the lower limit of the slice, and 0; a second of 7 ticks makes every slice but one of a second a fraction, and a precision of
32 makes the number of slices and the ticks of a slice vary; a jump of 3 is longer than the shortest slice, two of them than the
interval of the checks, and they can cancel or add up. `PayloadFile`: three entries can begin, end or interleave
with entries that are skipped; the lines and packets are a query and all that differ from one in a single respect, with lengths on both sides of both limits; three calls by two threads go around twice for every cache. `AnswerCounter`: the gap
between lap and range of the id (4 and 6; 60000 and 65536) is what the arithmetic has to get right, and a lap of 4
puts every order of stamp, wrap and answer within reach; an age saturates at a lap, so later answers are covered.
`SendPacket`: eleven queries go once around 10, the period of 30 %; the body is chosen so that the second
fold makes a difference for some ids and ports. `RawSocketReceiver`: twelve packets fill both buffers twice, so every buffer is
used again with old packets in it, and the generations start again. `SystemStat`: a counter of 3 values starts again within a step; the third
step meets entries two steps old. `Startup`: a second invocation meets the file the
first left; five integers hold a range of two rates with a step of 2 and every kind of overflow; `MaxRates` is beyond
the longest range that ends.

## Fairness

- `Session`, `FairSpec`: main and the receiver are weakly fair: neither ever waits for anything but a sleep, a
  `select` with a timeout, or a thread's end. A sender is weakly fair in leaving each of its three phases, not in sending:
  `run()` is entered, and both loops look at the clock. That they end under any clock is `LoopEnds` of `SenderThread`; a `sendto`
  that blocks forever is outside of it. Nothing is assumed of the network or the user, and answers may pour in
  forever: the receiver looks at its stop request after every packet.
- `SenderThread`, `FairSpec`: the thread runs and the clock advances.
- `RawSocketReceiver`: the receiver thread runs; its `select` has a timeout. The kernel need not hand over anything.
- `Startup`, `FairSpec`: the process runs unless it is killed.

## Proofs

TLAPS checks these for every value of the constants, from the assumptions declared with them: a finite, nonempty pool; rates that
are natural numbers; for `SenderThread` a positive runtime, slices no shorter than a tick, and a precision above 2; for `PayloadFile` nothing about what a file contains; for `AnswerCounter` a lap that fits into the id;
for `SendPacket` upper limits of the sizes of queries, which follow from `res_mkquery` and from the loader's 4096 bytes, words that hold the header's
constants, and networks that are aligned to their size; for `RawSocketReceiver` chunks larger than the header of a buffer, room for
one of them, and more than one generation number; for `Startup` and `SystemStat` integers of any positive width.

| Module | Theorems | Argument |
|---|---|---|
| `SessionProofs` | `TypeCorrect`, `SessionInvariant`, `FinalReadingIsExact`, `DiffIsNonNegative`, `ListensWhileAwaited`, `StepsReportedOnce`, `SignalStopsPromptly`, `ResultsNotWiped` | `SessionInv`, below |
| | `SessionImplementsLoadTest` | every step maps to a step of `LoadTest` or a stutter, given `SessionInv` |
| | `AnswersAreCountedOnce`, `LossIsNotOverstated` | totals, below |
| `SenderThreadProofs` | `LoopInvariant`, `LoadIsEven`, `ThreadNeverAhead`, `UndisturbedCompletes`, `LimitIsKept` | what is left for k slices stays between k times the rounded-down and k times the rounded-up share, and above the proportional one; z slices are at least z times the shortest one that rounding can make (`AheadBound`, `TickBound`), and the number of slices times one of them is at most the runtime and one slice (`SliceCount`) |
| `PayloadFileProofs` | `PayloadInvariant`, `IteratorIsValid`, `PayloadImplementsRoundRobin`, `QueriesEvenlyServed` | only the owner of the mutex is inside, and where it is tells where the iterator stands; the queries before the turn have been read once more than the rest |
| | `CacheFiltered` | `CacheInv`: the cache is increasing, and what is in it is what passes the tests among the entries read; `FilterIsRight` compares these tests with what a query is |
| `AnswerCounterProofs` | `CounterInvariant`, `RoundTripsAreExact`, `RoundTripsNotInflated`, `MinimumIsExactAboveZero`, `RcodesAreOfStep` | a query in flight for less than a lap has the age its id tells, and no id tells a lap or more |
| `SendPacketProofs` | `PacketInvariant`, `ChecksumsCover`, `ChecksumsVerify`, `SourcesAreAsAsked`, `DnssecShareIsExact`, `ThreadEndsByInput` | checksums count as outdated from `SetPayload` to `Send`; a sum below the square of `Word` needs two folds, and the result makes it a multiple of `Word - 1`; a network begins at a multiple of its size, so all its addresses have one quotient; 100 times the flagged queries plus the counter is the share so far |
| `RawSocketReceiverProofs` | `ReceiverResourcesExact`, `ReceiverOnlyAnswers` | `ResourceInv` has what is owned at each place of the constructor; `FilterAccepts` follows every path through the filter program, and the interface is bound only behind it |
| | `ReceiverInvariant`, `ReceiverTypes`, `ReceiverCountsOnce` | `CountInv`, below |
| `StartupProofs` | `StartupTypes`, `CsvFileWellFormed`, `CsvLinesKept`, `LoadStepsConfigured`, `RangeIsProgression` | before the first row the file is not empty (`CsvInv`); the tests each early return makes hold from there on (`ConfigInv`); in the loop the rates are the progression up to, and without, the rate it is at (`RangeInv`), and when it ends the last one is the quotient `RatesAreRange` names |
| `SystemStatProofs` | `StatTypes`, `PrintedFirstStep` | up to the first line printed the samples follow the counter of the interface, with the traffic in between and `Width` taken off if it started again; after it neither sample loses or replaces an entry (`FirstStepInv`) |

None of the properties of `Session` is inductive: that the final reading is exact depends on no thread running any
more, that in turn on the order in which main waits for them, on the signal and on what was started. `SessionInv` says
so for every point of main's code, in four parts beside the types. `ThreadPhases` is where the threads can be; `Readings` relates the record main
is filling to the counters and to the reading before; `Reporting` counts rows, steps and signals, and holds that what the
next step resets has been reported; `InFlight` excludes traffic of steps to come. One lemma per part shows that
every action preserves it. `SessionInv` was checked with TLC first (run `session`).

**Totals.** `AnswersCountedOnce` is a balance between counters of all threads and all rows, each added up by a fold. That the
fold is well defined, that it does not matter which element is taken out first, and what it is after one counter went up or one row was
added, are lemmas in `SessionProofs`. They need an induction over finite sets, which is done without an induction rule: the subsets
for which a lemma holds form a set, and of the others, were there any, there would be a smallest one (`SubsetInduction`, from the
well-foundedness of the strict subset ordering). The actions then fall into four kinds: a query more, an answer more, counters that become
a row, and all the others, which change no total. `LossIsNotOverstated` takes the balance for the current step and `NothingEarly`: the
rows before it count no answer to it, so all of its answers are in the counter that is subtracted, and what else is in there makes the
difference smaller.

**Two buffers.** `EveryPacketOnce` says that what is counted is 1, 2, 3, .... `CountInv` says where the others are: those in the kernel's
buffer are the last ones captured, those in a buffer that was handed over come right before them, and how far `read_buffer` is in its
buffer, in bytes, is the number of packets counted out of it. It holds too that the kernel's buffer is always acknowledged, which is why one generation
number per buffer is enough of a lock. `StopsAt` is the arithmetic of the loop: it ends after the right packet also if the length is
one header short. The same shape, with the queue in place of the second buffer, covers `read()`.

Model-checked only: liveness (`Termination`, `LoopEnds`, `RangeEnds`, `HeldIsRead`), because fairness and `ENABLED` are beyond the
prover. The inductive invariants of the theorems were checked with TLC on the instances of the runs before they were proved.

## Findings

1. **Late answers are counted in the next step** (run `late`). The receiver clears its counter when it starts,
   but its socket stays open between the steps and buffers what arrives. `AnswersCountedOnce` shows what still holds: no answer
   is counted twice or dropped by a restart.
2. **The rate loses its remainder** (run `rate`). `queryrate / ThreadCount` is an integer division: 5 queries per
   second over 2 threads make 4. `UndisturbedIsComplete` is what holds: every thread sends its own share in full.
3. **The minimum forgets 0** (run `minimum`). `rtt_min == 0` stands for "none yet", so the answer after one that came
   within 0.1 ms overwrites the minimum. `MinExactAboveZero` is what holds.

Noted while modelling, without a run: the pcap loader prints "valid UDP DNS queries" (`payload_file.cpp:149`) of packets whose protocol it never looks at, and sends
TCP segments to port 53 as queries; a pcap file with a packet shorter than 42 bytes that passes the tests ends the program with a `memcpy` out of bounds, and `-z 255.255.255.255` with an
exception nobody catches (`EndsByInputOnly`); above 10000 queries per second and thread the load is 0.1 % too high (`NeverAhead`); the row of an interrupted step is divided by the full runtime; a range of
rates with a step of 0 fills memory; `-s pcap` is accepted with a text payload, although the manual page offers it for pcap payloads only.
The line about the network repeats that of the first load step in all later ones, because `interfaces.insert` keeps the old entries
(`PrintedIsFirstStep` says exactly this; no document or comment claims otherwise, so it is stated as what the code does, and a corrected `insert` would have to change it), and an interface that goes away during the first step makes it a number near 2^64. On FreeBSD
`bytes_rcv` adds up what a chunk has beside the packet (`chunk_size - bh_datalen`) instead of the packet, and `sampleCpuUsage` does not
give back its buffer, or reads it after it did.

## Assumptions and what is not modelled

Assumptions of the models:

- All threads have entered `run()` within the half second main sleeps after starting them (`WarmUp`). Without
  that, main could find no thread running and leave, or read counters of the step before: nothing but the
  sleep prevents it. The properties of `Session` say nothing about this race; the mutant `WarmUpNoWait` shows what they lose by it.
- Reading a 64-bit counter is atomic. The code shares them without atomics or locks, which the builds on 64-bit
  machines turn into single loads and stores; the value read is the current one.
- The time of day may be set back or forth under `SenderThread`; the ages of `AnswerCounter` follow a clock that is not.
- Rates and numbers of threads in `Session` and `SenderThread` are not negative. `Startup` shows that negative numbers
  get past the command line; a negative number of threads makes an empty pool.
- A rate equal to the number of threads gives a slice of one second, which `setTimeslice` accepts; for some numbers of
  threads (13, for one) the floating-point product is a little above it and the step is refused. `Session` and `SenderThread` allow both.
- The times of `SenderThread` are around 1.8e9 s, where doubles are 2^-22 s apart; that lasts from 2004 to 2038.
- A text line is what one `gets` of at most 1024 bytes returns. A payload of text never makes `sendPacket` throw, so its retry loop is
  left out, as is a failing `gettimeofday`.
- `Width` of `Startup` stands for 2^64, `MaxRates` for the memory a list of rates can take.

- In `RawSocketReceiver` all packets have one size. A buffer is handed over with at least one packet in it; an empty one would
  make `size` wrap around.

Not modelled: CPU and memory figures (sampled, never printed), `exportToArray`, `importFromArray` and `print` of `SystemStat` and the setters of
`Packet` without a caller, the bytes of DNS messages, the layout of what is printed (with it the loss in percent of 0 queries sent), the
options of raw sockets, `main.cpp` (which only sets up and calls `DNSSender::main`), and pplib, whose threads, pool and mutex are modelled by
how the code uses them.
