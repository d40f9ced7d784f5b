--------------------------- MODULE AnswerCounter ---------------------------
(***************************************************************************)
(* What the receiver thread computes from the packets it reads: the        *)
(* filters of RawSocketReceiver::receive, the round-trip time it derives   *)
(* from the DNS id of an answer, and the counters of count_packet.         *)
(*                                                                         *)
(* A query carries the time it was sent in its DNS id: the clock in ticks  *)
(* of 0.1 ms, modulo 60000 (getQueryTimestamp).  The state keeps that      *)
(* reading of the clock, and for every query in flight its true age, up to *)
(* the point where the id can no longer tell (6 seconds).  Round-trip      *)
(* times are in ticks.                                                     *)
(***************************************************************************)
EXTENDS Integers, FiniteSets

CONSTANTS
    Queries,    \* the queries that can be in flight at a time
    Lap,        \* ticks after which the time stamp starts again: 60000 in the code
    IdRange,    \* values of a DNS id and of an unsigned short: 65536
    MaxCount,   \* bound: packets counted in a load step
    MaxStale    \* bound: rcodes[15], which is never cleared, when a load step begins

ASSUME QueriesAssumption == IsFiniteSet(Queries)
ASSUME LapAssumption == Lap \in Nat \ {0} /\ IdRange \in Nat /\ Lap <= IdRange
ASSUME CountAssumption == MaxCount \in Nat /\ MaxStale \in Nat

\* What a packet is that receive does not count, by the test it fails.
Unwanted == {"short", "notIP", "notIPv4", "otherSource", "otherPort"}
\* The response codes a header can carry, one standing for 0 to 14.
Rcodes == {0, 15}

VARIABLES
    now,        \* what getQueryTimestamp returns
    out,        \* the queries in flight
    id,         \* id[q]: the DNS id of query q
    age,        \* age[q]: ticks since q was stamped, Lap = at least a lap
    num_pkgs, rtt_total, rtt_min, rtt_max, rcodes, truncated,  \* Counter
    trusted,    \* since clear(), only answers younger than a lap were counted
    own,        \* since clear(), only answers to queries of this test were counted
    ages        \* their true round-trip times, a lap at most: sum, least and most

counter == <<num_pkgs, rtt_total, rtt_min, rtt_max, rcodes, truncated>>
ghost == <<trusted, own, ages>>
flight == <<out, id, age>>
vars == <<now, flight, counter, ghost>>

\* Counter(): rcodes has 16 entries, and the last one is not initialised.
Init ==
    /\ now \in 0 .. Lap - 1
    /\ out = {} /\ id = [q \in Queries |-> 0] /\ age = [q \in Queries |-> 0]
    /\ num_pkgs = 0 /\ rtt_total = 0 /\ rtt_min = 0 /\ rtt_max = 0 /\ truncated = 0
    /\ \E junk \in {0, 1} : rcodes = [r \in Rcodes |-> IF r = 15 THEN junk ELSE 0]
    /\ trusted = TRUE /\ own = TRUE /\ ages = [sum |-> 0, least |-> Lap, most |-> 0]

-----------------------------------------------------------------------------

\* Mutant: the response codes of the load step before are kept.
ClearKeepsRcodes ==
    /\ rcodes[15] <= MaxStale
    /\ num_pkgs' = 0 /\ rtt_total' = 0 /\ rtt_min' = 0 /\ rtt_max' = 0 /\ truncated' = 0
    /\ trusted' = TRUE /\ own' = TRUE /\ ages' = [sum |-> 0, least |-> Lap, most |-> 0]
    /\ UNCHANGED <<now, flight, rcodes>>

\* DNSReceiverThread::run() is entered for a load step: counter.clear(), which
\* leaves rcodes[15] as it is.
Clear ==
    /\ rcodes[15] <= MaxStale
    /\ num_pkgs' = 0 /\ rtt_total' = 0 /\ rtt_min' = 0 /\ rtt_max' = 0 /\ truncated' = 0
    /\ rcodes' = [rcodes EXCEPT ![0] = 0]
    /\ trusted' = TRUE /\ own' = TRUE /\ ages' = [sum |-> 0, least |-> Lap, most |-> 0]
    /\ UNCHANGED <<now, flight>>

\* Mutant: the query is sent with the id it has in the payload.
StampNone(q) ==
    /\ q \notin out
    /\ out' = out \cup {q}
    /\ age' = [age EXCEPT ![q] = 0]
    /\ UNCHANGED <<now, id, counter, ghost>>

\* A sender stamps a query (setDnsId(getQueryTimestamp())) and sends it.
Stamp(q) ==
    /\ q \notin out
    /\ out' = out \cup {q}
    /\ id' = [id EXCEPT ![q] = now] /\ age' = [age EXCEPT ![q] = 0]
    /\ UNCHANGED <<now, counter, ghost>>

\* A query or its answer is lost, or the last copy of the answer has been read.
Forget(q) ==
    /\ q \in out /\ out' = out \ {q}
    /\ id' = [id EXCEPT ![q] = 0] /\ age' = [age EXCEPT ![q] = 0]
    /\ UNCHANGED <<now, counter, ghost>>

\* Mutant: a lap is taken to be as long as the range of the id.
getQueryRTTWraps(start) == (now - start) % IdRange

\* getQueryRTT: 16-bit unsigned arithmetic.
getQueryRTT(start) ==
    IF now < start THEN (Lap - start + now) % IdRange ELSE (now - start) % IdRange

\* Mutant: the smallest round-trip time is not initialised from the first answer.
LowerMinOnly(rd) == IF rd < rtt_min THEN rd ELSE rtt_min

\* rd < rtt_min || rtt_min == 0
LowerMin(rd) == IF rd < rtt_min \/ rtt_min = 0 THEN rd ELSE rtt_min

RaiseMax(rd) == IF rd > rtt_max THEN rd ELSE rtt_max

\* count_packet, for a packet with DNS id start, response code r and truncation flag tc.
CountPacket(start, r, tc) ==
    /\ num_pkgs' = num_pkgs + 1
    /\ rtt_total' = rtt_total + getQueryRTT(start)
    /\ rtt_min' = LowerMin(getQueryRTT(start))
    /\ rtt_max' = RaiseMax(getQueryRTT(start))
    /\ rcodes' = [rcodes EXCEPT ![r] = @ + 1]
    /\ truncated' = IF tc THEN truncated + 1 ELSE truncated

\* receive() reads an answer to query q.  q stays in flight for a duplicate.
ReceiveAnswer(q, r, tc) ==
    /\ q \in out /\ num_pkgs < MaxCount
    /\ CountPacket(id[q], r, tc)
    /\ trusted' = (trusted /\ age[q] < Lap)
    /\ ages' = [sum |-> ages.sum + age[q],
                least |-> IF age[q] < ages.least THEN age[q] ELSE ages.least,
                most |-> IF age[q] > ages.most THEN age[q] ELSE ages.most]
    /\ UNCHANGED <<now, flight, own>>

\* receive() reads a packet from the address and port of the target that answers no
\* query of this test: the answer to another program, or, as the protocol field is not
\* looked at, a TCP segment.  Any 16 bits can stand where the id is.
ReceiveForeign(start, r, tc) ==
    /\ num_pkgs < MaxCount
    /\ CountPacket(start, r, tc)
    /\ trusted' = FALSE /\ own' = FALSE
    /\ UNCHANGED <<now, flight, ages>>

\* receive() reads a packet that fails one of its tests.
ReceiveUnwanted(kind) ==
    /\ kind \in Unwanted
    /\ UNCHANGED vars

\* 0.1 ms pass.
Tick ==
    /\ now' = IF now = Lap - 1 THEN 0 ELSE now + 1
    /\ age' = [q \in Queries |-> IF q \in out /\ age[q] < Lap THEN age[q] + 1 ELSE age[q]]
    /\ UNCHANGED <<out, id, counter, ghost>>

Next ==
    \/ Clear \/ Tick
    \/ \E q \in Queries : Stamp(q) \/ Forget(q)
    \/ \E r \in Rcodes, tc \in BOOLEAN :
           \/ \E q \in Queries : ReceiveAnswer(q, r, tc)
           \/ \E start \in 0 .. IdRange - 1 : ReceiveForeign(start, r, tc)
    \/ \E kind \in Unwanted : ReceiveUnwanted(kind)

Spec == Init /\ [][Next]_vars

-----------------------------------------------------------------------------
(***************************************************************************)
(* Properties.                                                             *)
(***************************************************************************)

TypeOK ==
    /\ now \in 0 .. Lap - 1 /\ out \subseteq Queries
    /\ id \in [Queries -> 0 .. Lap - 1] /\ age \in [Queries -> 0 .. Lap]
    /\ num_pkgs \in Nat /\ rtt_total \in Nat /\ truncated \in Nat
    /\ rtt_min \in 0 .. IdRange - 1 /\ rtt_max \in 0 .. IdRange - 1
    /\ rcodes \in [Rcodes -> Nat] /\ trusted \in BOOLEAN /\ own \in BOOLEAN
    /\ ages \in [sum: Nat, least: 0 .. Lap, most: 0 .. Lap]

\* A time stamp that starts again every lap still gives the true round-trip time of
\* every answer younger than a lap, whether or not the stamp started again in between:
\* the sum behind the average and the maximum are exact.
RttExact == trusted => rtt_total = ages.sum /\ rtt_max = ages.most

\* An answer that comes late, after a lap or more or in a later load step, can only
\* make the round-trip times too short: as long as nothing but answers to this test
\* is counted, neither the sum nor the maximum is ever larger than the true one.
RttNeverInflated == own => rtt_total <= ages.sum /\ rtt_max <= ages.most

\* The minimum is exact as well, as long as no answer came within a tick: 0 also means
\* that there is no minimum yet.
MinExactAboveZero == trusted /\ num_pkgs > 0 /\ ages.least > 0 => rtt_min = ages.least

\* The minimum reported is the smallest of the round-trip times counted.
MinExact == trusted /\ num_pkgs > 0 => rtt_min = ages.least

\* The response codes presentResults prints (0 to 14) are those of the packets of this
\* load step, although the entry for 15 is neither initialised nor cleared.
RcodesOfStep == rcodes[0] <= num_pkgs /\ truncated <= num_pkgs

-----------------------------------------------------------------------------
(***************************************************************************)
(* The inductive invariant behind them.                                    *)
(***************************************************************************)

\* Every query in flight for less than a lap has the age its id tells.
AgesTold ==
    \A q \in out :
        age[q] < Lap => age[q] = IF now < id[q] THEN Lap - id[q] + now ELSE now - id[q]

\* Before the first packet of a load step there is no minimum.
Fresh == num_pkgs = 0 => rtt_min = 0 /\ ages.least = Lap

CounterInv ==
    /\ TypeOK /\ AgesTold /\ Fresh
    /\ RttExact /\ RttNeverInflated /\ MinExactAboveZero /\ RcodesOfStep
=============================================================================
