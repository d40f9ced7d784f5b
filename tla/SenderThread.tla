---------------------------- MODULE SenderThread ----------------------------
(***************************************************************************)
(* One sender thread in one load step, on its own clock: how main derives  *)
(* its query rate and time slice, the loop that spreads the queries over   *)
(* the slices (runWithRateLimit), the unlimited loop, and the wait for     *)
(* late answers.                                                           *)
(*                                                                         *)
(* The thread computes with doubles that hold the seconds of the epoch.    *)
(* Around 1.8e9 those are 2^-22 s apart: that is the tick of the model,    *)
(* and every time the thread reads or computes is a whole number of ticks. *)
(* A time slice is not (0.1 ms are 419.43 ticks), so each addition of one  *)
(* is rounded.  The slice itself was computed in single precision.         *)
(*                                                                         *)
(* The clock runs on at any speed against the thread: a slow sendto, a     *)
(* late wake-up and an overloaded machine are all ticks between two steps. *)
(* The thread reads the time of day, which an administrator or a time      *)
(* service can set forth or back while the test runs: what it reads is the *)
(* true time and an offset.                                                *)
(***************************************************************************)
EXTENDS Integers

CONSTANTS
    RateSet,           \* the query rates to consider (-r), 0 = unlimited
    ThreadCounts,      \* the pool sizes to consider (-n)
    Runtime,           \* seconds of a load step (-l)
    Timeout,           \* seconds waited for late answers (-t)
    TicksPerSecond,    \* steps of a double of epoch seconds: 2^22
    SlicesPerSecond,   \* time slices per second at most: 10000 in the code
    Precision,         \* a computed slice is off by at most one part in this many: 2^22
    ChecksPerSecond,   \* looks at the stop request per second: 10 in the code
    FreeRun,           \* queries between two looks at the clock when unlimited: 10000
    Overload,          \* bound: seconds the send loop can be late
    MaxFree,           \* bound: the count of queries saturates here when unlimited
    Jumps,             \* the numbers of ticks the time of day can be set forth or back by
    MaxJumps           \* bound: how often it is set while the thread runs

ASSUME RateAssumption == RateSet \subseteq Nat /\ ThreadCounts \subseteq Nat \ {0}
ASSUME TimeAssumption == Runtime \in Nat \ {0} /\ Timeout \in Nat
ASSUME GrainAssumption ==
    /\ SlicesPerSecond \in Nat \ {0} /\ ChecksPerSecond \in Nat \ {0}
    /\ TicksPerSecond \in Nat /\ SlicesPerSecond <= TicksPerSecond
    /\ Precision \in Nat /\ Precision > 2
ASSUME BoundAssumption == FreeRun \in Nat /\ Overload \in Nat /\ MaxFree \in Nat
ASSUME JumpAssumption == Jumps \subseteq Nat /\ MaxJumps \in Nat

VARIABLES
    rate,       \* the query rate of this load step, for the whole pool
    threads,    \* ThreadCount
    pc,         \* where the thread is
    queryrate,  \* queries per second of this thread
    total,      \* total_timeslices
    z,          \* time slices done
    rest,       \* queries_rest
    quota,      \* queries_per_timeslice
    i,          \* queries of this time slice sent
    sent,       \* counter_packets_send and the errors: sendPacket() calls
    clock,      \* ticks since the thread entered its loop
    offset,     \* how far the time of day has been set forth, or back if negative
    ahead,      \* the largest offset so far (0 at the start)
    jumps,      \* how often the time of day has been set
    next,       \* next_timeslice
    checked,    \* next_checktime, less a tenth of a second
    free,       \* pc of runWithoutRateLimit: queries since the last look at the clock
    waitFrom,   \* when waitForTimeout was entered
    stop,       \* threadShouldStop()
    broke       \* the send loop was left by one of its breaks

parameters == <<rate, threads, queryrate>>
loopVars == <<total, z, rest, quota, i, next>>
timeVars == <<clock, offset, ahead, jumps>>
vars == <<parameters, loopVars, timeVars, pc, sent, checked, free, waitFrom, stop, broke>>

Limited == {"slice", "send", "pace"}
Active == Limited \cup {"free", "timeout"}
PCs == Active \cup {"configure", "start", "rejected", "done"}

End == Runtime * TicksPerSecond

\* Timeslices of calcTimeslice, SliceNum / SliceDen ticks: ThreadCount / rate of a
\* second, but no less than 1 / SlicesPerSecond of it (0.1 ms in the code).
Shortest == threads * SlicesPerSecond < rate
SliceNum == IF Shortest THEN TicksPerSecond ELSE threads * TicksPerSecond
SliceDen == IF Shortest THEN SlicesPerSecond ELSE rate

\* The queries this thread has to send.
Queries == Runtime * queryrate

\* runtime * 1000 / (Timeslice * 1000.0), truncated, for a Timeslice that single
\* precision has made up to one part in Precision too long or too short.
TotalTimeslices ==
    {n \in 1 .. 2 * End : /\ n * SliceNum * (Precision - 1) <= End * SliceDen * Precision
                          /\ End * SliceDen * Precision < (n + 1) * SliceNum * (Precision + 1)}

\* What next_timeslice += Timeslice adds: the tick nearest to the computed slice.
\* (For one Timeslice it is the same at every addition, but for a first one that ties.)
TicksOfSlice ==
    {k \in 1 .. 2 * SliceNum : \E d \in {k * SliceDen - SliceNum, SliceNum - k * SliceDen} :
        0 <= d /\ 2 * Precision * d <= Precision * SliceDen + 2 * SliceNum}

\* getNsec() and GetMicrotime(): the time of day.
now == clock + offset

\* now > next_checktime, where a tenth of a second is 419430.4 ticks rounded down.
CheckDue == (now - checked) * ChecksPerSecond > TicksPerSecond

Init ==
    /\ rate \in RateSet /\ threads \in ThreadCounts
    /\ pc = "configure" /\ queryrate = 0
    /\ total = 0 /\ z = 0 /\ rest = 0 /\ quota = 0 /\ i = 0
    /\ sent = 0 /\ next = 0 /\ checked = 0 /\ free = 0 /\ waitFrom = 0
    /\ clock = 0 /\ offset = 0 /\ ahead = 0 /\ jumps = 0
    /\ stop = FALSE /\ broke = FALSE

-----------------------------------------------------------------------------

\* Mutant: setTimeslice takes any slice.
AcceptedAlways == TRUE

\* Main: calcTimeslice, setQueryRate and setTimeslice.  The last one throws for a
\* slice of more than a second; an unlimited step keeps the slice it had.
Accepted == rate = 0 \/ threads <= rate

Configure ==
    /\ pc = "configure" /\ Accepted
    /\ queryrate' = rate \div threads
    /\ pc' = "start"
    /\ UNCHANGED <<rate, threads, loopVars, sent, timeVars, checked, free, waitFrom, stop, broke>>

\* A slice of exactly one second can come out a little longer (13 threads at a rate
\* of 13 do) and is refused then.
Reject ==
    /\ pc = "configure" /\ rate > 0 /\ rate <= threads
    /\ queryrate' = rate \div threads
    /\ pc' = "rejected"
    /\ UNCHANGED <<rate, threads, loopVars, sent, timeVars, checked, free, waitFrom, stop, broke>>

\* run() with a query rate: the preamble of runWithRateLimit.
StartLimited ==
    /\ pc = "start" /\ queryrate > 0
    /\ pc' = "slice" /\ sent' = 0
    /\ total' \in TotalTimeslices
    /\ rest' = Queries /\ z' = 0 /\ next' = now /\ checked' = now
    /\ UNCHANGED <<parameters, quota, i, timeVars, free, waitFrom, stop, broke>>

\* run() without one: the preamble of runWithoutRateLimit.
StartFree ==
    /\ pc = "start" /\ queryrate = 0
    /\ pc' = "free" /\ sent' = 0 /\ free' = 0
    /\ UNCHANGED <<parameters, loopVars, timeVars, checked, waitFrom, stop, broke>>

\* Mutant: the share of a slice is computed once, not from what is left.
BeginSliceFixed ==
    /\ pc = "slice" /\ z < total
    /\ pc' = "send"
    /\ \E k \in TicksOfSlice : next' = next + k
    /\ quota' = IF total - z = 1 THEN rest ELSE Queries \div total
    /\ i' = 0
    /\ UNCHANGED <<parameters, total, z, rest, sent, timeVars, checked, free, waitFrom,
                   stop, broke>>

\* The head of the loop over the time slices: the share of this slice is an equal
\* part of what is left, and the last slice takes all of it.
BeginSlice ==
    /\ pc = "slice" /\ z < total
    /\ pc' = "send"
    /\ \E k \in TicksOfSlice : next' = next + k
    /\ quota' = IF total - z = 1 THEN rest ELSE rest \div (total - z)
    /\ i' = 0
    /\ UNCHANGED <<parameters, total, z, rest, sent, timeVars, checked, free, waitFrom,
                   stop, broke>>

SendPacket ==
    /\ pc = "send" /\ i < quota
    /\ i' = i + 1 /\ sent' = sent + 1
    /\ UNCHANGED <<parameters, total, z, rest, quota, next, pc, timeVars, checked, free,
                   waitFrom, stop, broke>>

SliceSent ==
    /\ pc = "send" /\ i = quota
    /\ pc' = "pace" /\ rest' = rest - quota
    /\ UNCHANGED <<parameters, total, z, quota, i, next, sent, timeVars, checked, free,
                   waitFrom, stop, broke>>

\* Mutant: the thread does not sleep until the next slice.
PaceOnNoSleep ==
    /\ pc = "pace" /\ ~CheckDue
    /\ pc' = "slice" /\ z' = z + 1
    /\ UNCHANGED <<parameters, total, rest, quota, i, next, sent, timeVars, checked, free,
                   waitFrom, stop, broke>>

\* The nanosleep loop ends at next_timeslice; it is not yet time to check.  (When
\* the time has been set back by a second or more, nanosleep refuses tv_nsec and the
\* loop spins until then.)
PaceOn ==
    /\ pc = "pace" /\ now >= next /\ ~CheckDue
    /\ pc' = "slice" /\ z' = z + 1
    /\ UNCHANGED <<parameters, total, rest, quota, i, next, sent, timeVars, checked, free,
                   waitFrom, stop, broke>>

\* It is time to check: neither a stop request nor the end of the runtime.
CheckOn ==
    /\ pc = "pace" /\ now >= next /\ CheckDue
    /\ ~stop /\ now < End
    /\ pc' = "slice" /\ z' = z + 1 /\ checked' = now
    /\ UNCHANGED <<parameters, total, rest, quota, i, next, sent, timeVars, free,
                   waitFrom, stop, broke>>

\* waitForTimeout is entered.
EnterTimeout == pc' = "timeout" /\ waitFrom' = now /\ checked' = now

CheckBreak ==
    /\ pc = "pace" /\ now >= next /\ CheckDue
    /\ stop \/ now >= End
    /\ broke' = TRUE
    /\ EnterTimeout
    /\ UNCHANGED <<parameters, loopVars, sent, timeVars, free, stop>>

\* Mutant: the last time slice is left out.
EndSlicesEarly ==
    /\ pc = "slice" /\ z + 1 >= total
    /\ EnterTimeout
    /\ UNCHANGED <<parameters, loopVars, sent, timeVars, free, stop, broke>>

\* All time slices are done.
EndSlices ==
    /\ pc = "slice" /\ z = total
    /\ EnterTimeout
    /\ UNCHANGED <<parameters, loopVars, sent, timeVars, free, stop, broke>>

Saturate(n) == IF n < MaxFree THEN n ELSE MaxFree

\* Mutant: the end of the runtime is not looked at.
FreeOnNoClock ==
    /\ pc = "free"
    /\ sent' = Saturate(sent + 1)
    /\ \/ free + 1 <= FreeRun /\ free' = free + 1
       \/ free + 1 > FreeRun /\ free' = 0 /\ ~stop
    /\ UNCHANGED <<parameters, loopVars, pc, timeVars, checked, waitFrom, stop, broke>>

\* A round of runWithoutRateLimit that goes on.
FreeOn ==
    /\ pc = "free"
    /\ sent' = Saturate(sent + 1)
    /\ \/ free + 1 <= FreeRun /\ free' = free + 1
       \/ free + 1 > FreeRun /\ free' = 0 /\ ~stop /\ now <= End
    /\ UNCHANGED <<parameters, loopVars, pc, timeVars, checked, waitFrom, stop, broke>>

FreeBreak ==
    /\ pc = "free"
    /\ sent' = Saturate(sent + 1)
    /\ free + 1 > FreeRun /\ free' = 0 /\ (stop \/ now > End)
    /\ broke' = TRUE
    /\ EnterTimeout
    /\ UNCHANGED <<parameters, loopVars, timeVars, stop>>

WaitOver == now >= waitFrom + Timeout * TicksPerSecond

\* A round of waitForTimeout that checks, and goes on.
WaitOn ==
    /\ pc = "timeout" /\ ~WaitOver /\ CheckDue /\ ~stop
    /\ checked' = now
    /\ UNCHANGED <<parameters, loopVars, pc, sent, timeVars, free, waitFrom, stop, broke>>

EndWait ==
    /\ pc = "timeout" /\ (WaitOver \/ (CheckDue /\ stop))
    /\ pc' = "done"
    /\ UNCHANGED <<parameters, loopVars, sent, timeVars, checked, free, waitFrom, stop, broke>>

ThreadNext ==
    \/ Configure \/ Reject \/ StartLimited \/ StartFree
    \/ BeginSlice \/ SendPacket \/ SliceSent \/ PaceOn \/ CheckOn \/ CheckBreak \/ EndSlices
    \/ FreeOn \/ FreeBreak \/ WaitOn \/ EndWait

\* Threadpool::stopThreads, at any time.
RequestStop ==
    /\ pc \in Active /\ ~stop
    /\ stop' = TRUE
    /\ UNCHANGED <<parameters, loopVars, pc, sent, timeVars, checked, free, waitFrom, broke>>

\* How far the clock is followed.
ClockLimit == IF pc = "timeout" THEN waitFrom + (Timeout + 1) * TicksPerSecond
              ELSE End + Overload * TicksPerSecond

Tick ==
    /\ pc \in Active /\ now < ClockLimit
    /\ clock' = clock + 1
    /\ UNCHANGED <<parameters, loopVars, offset, ahead, jumps, pc, sent, checked, free,
                   waitFrom, stop, broke>>

\* The time of day is set while the thread runs.
SetClock ==
    /\ pc \in Active /\ jumps < MaxJumps
    /\ jumps' = jumps + 1
    /\ \E d \in Jumps : offset' \in {offset - d, offset + d}
    /\ ahead' = IF offset' > ahead THEN offset' ELSE ahead
    /\ UNCHANGED <<parameters, loopVars, clock, pc, sent, checked, free, waitFrom, stop, broke>>

Ended == pc \in {"done", "rejected"} /\ UNCHANGED vars

Next == ThreadNext \/ RequestStop \/ Tick \/ SetClock \/ Ended

Spec == Init /\ [][Next]_vars
FairSpec == Spec /\ WF_vars(ThreadNext) /\ WF_vars(Tick)

-----------------------------------------------------------------------------
(***************************************************************************)
(* Properties.                                                             *)
(***************************************************************************)

TypeOK ==
    /\ rate \in Nat /\ threads \in Nat \ {0} /\ queryrate \in Nat
    /\ pc \in PCs
    /\ total \in Nat /\ z \in 0 .. total /\ rest \in Nat /\ quota \in Nat /\ i \in 0 .. quota
    /\ clock \in Nat /\ offset \in Int /\ ahead \in Nat /\ jumps \in Nat
    /\ sent \in Nat /\ next \in Nat /\ checked \in Int /\ free \in Nat
    /\ waitFrom \in Int /\ stop \in BOOLEAN /\ broke \in BOOLEAN

\* The load is even: the shares of any two time slices differ by at most one query,
\* although each is the rounded quotient of what the slices before it left over,
\* and the last slice takes all that is left.
SliceEven ==
    pc = "send" => quota \in {Queries \div total, (Queries \div total) + 1}

\* No slice is shorter than LeastNum / LeastDen ticks: what single precision leaves of
\* it, less half a tick.
LeastNum == 2 * SliceNum * (Precision - 1) - SliceDen * Precision
LeastDen == 2 * SliceDen * Precision

\* How much faster than asked for the thread may run, HasteNum / HasteDen: one slice
\* more would have fitted into the runtime, each slice can be half a tick short, and
\* single precision adds its part to both.  For 0.1 ms slices it is 1.0012 and a
\* little; for slices of a millisecond and more 1.00012 and 1 / total.
HasteNum == 2 * (total + 1) * SliceNum * (Precision + 1)
HasteDen == total * LeastNum

\* However late the thread was in between, and however fast it catches up, at no time
\* has it sent more than the requested rate, taken with that haste, allows up to the
\* end of the slice it is in.  The rounding of all the slices adds up to no more.
\* Setting the time back never makes it faster, and setting it forth by no more than
\* what that time is worth.
NeverAhead ==
    total > 0 => sent * End * HasteDen * SliceDen
                     <= Queries * HasteNum * ((clock + ahead) * SliceDen + SliceNum)

\* A loop that was not broken off has sent every query of the load step, and has
\* taken the runtime for it, but for the haste and for what the time was set forth.
UndisturbedIsComplete ==
    (pc \in {"timeout", "done"} /\ total > 0 /\ ~broke) =>
        sent = Queries /\ End * HasteDen < (clock + ahead) * HasteNum

\* A load step with a query rate never runs without limit: main divides the rate by
\* the number of threads, and a quotient of zero would mean "unlimited".
LimitKept == rate > 0 => pc # "free"

\* The rate asked for is the rate of the load: together the threads send rate
\* queries for every second of the runtime, if nothing disturbs them.
FullRate ==
    (pc = "done" /\ total > 0 /\ ~broke) => sent * threads = rate * Runtime

\* The thread ends, stopped or not, limited or not, on time or late.
LoopEnds == <>(pc \in {"done", "rejected"})

-----------------------------------------------------------------------------
(***************************************************************************)
(* The inductive invariant behind the safety properties, in four parts.    *)
(***************************************************************************)

\* What main has configured, and the number of slices that follows from it.
Configured ==
    /\ pc \in {"configure", "start", "rejected"} => total = 0 /\ z = 0 /\ now = 0
    /\ pc \notin {"configure", "rejected"} => (rate > 0 <=> queryrate > 0)
    /\ pc = "free" => rate = 0 /\ total = 0
    /\ pc \in Limited => total > 0
    /\ total > 0 =>
           rate > 0 /\ End * SliceDen * Precision < (total + 1) * SliceNum * (Precision + 1)

\* No query is lost between the slices.
Accounting ==
    /\ pc \in {"slice", "pace"} => sent + rest = Queries
    /\ pc = "send" => sent + rest = Queries + i
    /\ (pc \in {"timeout", "done"} /\ total > 0 /\ ~broke) => sent = Queries /\ z = total

\* The time t is not before the end of the first n slices.
After(n, t) == n * LeastNum <= t * LeastDen

\* No slice begins before its time.
Pacing ==
    /\ offset <= ahead
    /\ total > 0 => After(z, clock + ahead)
    /\ pc = "slice" => After(z, next)
    /\ pc \in {"send", "pace"} => z < total /\ After(z + 1, next)

\* r queries are left for k slices: neither too uneven nor too few.
FairRest(r, k) ==
    /\ (Queries \div total) * k <= r /\ r <= ((Queries \div total) + 1) * k
    /\ Queries * k <= r * total

Shares ==
    /\ pc \in {"slice", "send"} => FairRest(rest, total - z)
    /\ pc = "pace" => FairRest(rest, total - z - 1)
    /\ pc = "send" => quota = rest \div (total - z)
    /\ total > 0 => sent * total <= Queries * (z + 1)

\* The invariant every step of the thread and every tick preserves.
LoopInv == TypeOK /\ Configured /\ Accounting /\ Pacing /\ Shares
=============================================================================
