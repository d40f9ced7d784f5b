----------------------------- MODULE SystemStat -----------------------------
(***************************************************************************)
(* The system statistics around each load step: main samples the counters  *)
(* of all network interfaces before and after it (sampleSensorData into    *)
(* sys1 and sys2) and prints what the interface of the test carried.       *)
(*                                                                         *)
(* One counter of an interface stands for all eight (bytes, packets,       *)
(* errors and drops of both directions), which are treated alike.  What    *)
(* else a sample holds (net_total, CPU and memory) is never printed.       *)
(***************************************************************************)
EXTENDS Integers, Sequences

CONSTANTS
    Interfaces,     \* the interfaces the system can have
    InterfaceName,  \* the one of -e, which need not exist
    Width,          \* values of an unsigned long
    Initial,        \* values the counters can have when the program starts
    Bursts,         \* amounts of traffic at a time
    MaxSteps,       \* bound: load steps
    MaxPlugs        \* bound: interfaces that come and go

ASSUME WidthAssumption ==
    Width \in Nat \ {0} /\ Initial \subseteq 0 .. Width - 1 /\ Bursts \subseteq Nat \ {0}
ASSUME BoundAssumption == MaxSteps \in Nat /\ MaxPlugs \in Nat

VARIABLES
    pc,
    os,          \* the counters of the interfaces there are
    plugs,
    sys1, sys2,  \* the samples: their maps interfaces
    printed,     \* what presentResults printed, step by step
    steady,      \* InterfaceName has been there since the first sample of this step
    traffic,     \* what it has carried since
    wrapped      \* its counter has started again from 0 meanwhile

ghosts == <<steady, traffic, wrapped>>
vars == <<pc, os, plugs, sys1, sys2, printed, ghosts>>

Empty == [i \in {} |-> 0]

Init ==
    /\ pc = "step" /\ plugs = 0 /\ printed = <<>>
    /\ \E there \in SUBSET Interfaces : os \in [there -> Initial]
    /\ sys1 = Empty /\ sys2 = Empty
    /\ steady = FALSE /\ traffic = 0 /\ wrapped = FALSE

-----------------------------------------------------------------------------
(***************************************************************************)
(* Sampling.                                                               *)
(***************************************************************************)

\* The loop over the interfaces there are: insert keeps an entry that exists.
sampleNetwork(map) ==
    [i \in DOMAIN map \union DOMAIN os |-> IF i \in DOMAIN map THEN map[i] ELSE os[i]]

Sample1 ==
    /\ pc = "step" /\ Len(printed) < MaxSteps
    /\ pc' = "load" /\ sys1' = sampleNetwork(sys1)
    /\ steady' = (InterfaceName \in DOMAIN os) /\ traffic' = 0 /\ wrapped' = FALSE
    /\ UNCHANGED <<os, plugs, sys2, printed>>

Sample2 ==
    /\ pc = "load"
    /\ pc' = "present" /\ sys2' = sampleNetwork(sys2)
    /\ UNCHANGED <<os, plugs, sys1, printed, ghosts>>

\* kvm_open, getsysctl, getifaddrs or opening /proc/net/dev fails: main ends.
SampleFails ==
    /\ pc \in {"step", "load"} /\ pc' = "failed"
    /\ UNCHANGED <<os, plugs, sys1, sys2, printed, ghosts>>

-----------------------------------------------------------------------------
(***************************************************************************)
(* Presenting.                                                             *)
(***************************************************************************)

\* operator[] of the map: a missing entry is made up of zeros, and stays.
Looked(map) ==
    [i \in DOMAIN map \union {InterfaceName} |-> IF i \in DOMAIN map THEN map[i] ELSE 0]

\* Mutant: a counter that has started again is not noticed.
delta_without_overflow(sample1, sample2) == IF sample2 >= sample1 THEN sample2 - sample1 ELSE 0

delta_with_overflow(sample1, sample2) ==
    IF sample2 >= sample1 THEN sample2 - sample1 ELSE (Width - 1) - sample1 + sample2

getDelta(stat1, stat2) ==
    delta_with_overflow(stat1[InterfaceName], stat2[InterfaceName])

\* The first lines of presentResults.
Present ==
    /\ pc = "present" /\ pc' = "step"
    /\ sys1' = Looked(sys1) /\ sys2' = Looked(sys2)
    /\ printed' = Append(printed, getDelta(sys1', sys2'))
    /\ UNCHANGED <<os, plugs, ghosts>>

-----------------------------------------------------------------------------
(***************************************************************************)
(* The operating system.                                                   *)
(***************************************************************************)

\* An interface carries something.  No step carries as much as an unsigned long holds.
Carry(i, n) ==
    /\ pc # "failed" /\ i \in DOMAIN os
    /\ os' = [os EXCEPT ![i] = (@ + n) % Width]
    /\ IF i = InterfaceName /\ pc = "load"
       THEN /\ traffic + n < Width /\ traffic' = traffic + n
            /\ wrapped' = (wrapped \/ os[i] + n >= Width) /\ UNCHANGED steady
       ELSE UNCHANGED ghosts
    /\ UNCHANGED <<pc, plugs, sys1, sys2, printed>>

\* An interface comes, with counters at 0.
Plug(i) ==
    /\ pc # "failed" /\ plugs < MaxPlugs /\ i \notin DOMAIN os
    /\ plugs' = plugs + 1 /\ os' = [j \in DOMAIN os \union {i} |-> IF j = i THEN 0 ELSE os[j]]
    /\ UNCHANGED <<pc, sys1, sys2, printed, ghosts>>

\* An interface goes.
Unplug(i) ==
    /\ pc # "failed" /\ plugs < MaxPlugs /\ i \in DOMAIN os
    /\ plugs' = plugs + 1 /\ os' = [j \in DOMAIN os \ {i} |-> os[j]]
    /\ steady' = (steady /\ (i = InterfaceName => pc = "present"))
    /\ UNCHANGED <<pc, sys1, sys2, printed, traffic, wrapped>>

-----------------------------------------------------------------------------

\* main() has returned.
Ended == pc = "failed" /\ UNCHANGED vars

Next ==
    \/ Sample1 \/ Sample2 \/ SampleFails \/ Present \/ Ended
    \/ \E i \in Interfaces : Plug(i) \/ Unplug(i) \/ \E n \in Bursts : Carry(i, n)

Spec == Init /\ [][Next]_vars

-----------------------------------------------------------------------------
(***************************************************************************)
(* Properties.                                                             *)
(***************************************************************************)

\* What the interface has carried in this step, as delta_with_overflow tells it: a
\* counter that started again loses one.
Carried == IF wrapped THEN traffic - 1 ELSE traffic

\* The line of the first load step tells what the interface carried in it, if it was
\* there all the time, also when its counters start again at 2^64.  The lines of all
\* later steps repeat it, whatever is carried then and whichever interfaces come and go,
\* for neither sample ever replaces an entry.
PrintedIsFirstStep ==
    [][ pc = "present" /\ pc' = "step" =>
          printed'[Len(printed')] =
              IF printed # <<>> THEN printed[1]
              ELSE IF steady THEN Carried ELSE printed'[1] ]_vars

-----------------------------------------------------------------------------
(***************************************************************************)
(* Inductive invariants.                                                   *)
(***************************************************************************)

\* Counters of some interfaces.
Counters == UNION {[there -> 0 .. Width - 1] : there \in SUBSET (Interfaces \union {InterfaceName})}

TypeOK ==
    /\ pc \in {"step", "load", "present", "failed"}
    /\ os \in Counters /\ sys1 \in Counters /\ sys2 \in Counters
    /\ printed \in Seq(Int)
    /\ steady \in BOOLEAN /\ wrapped \in BOOLEAN /\ traffic \in 0 .. Width - 1

\* What is in counters for InterfaceName is the first sample of it and the traffic since.
Tracks(counters) ==
    /\ InterfaceName \in DOMAIN sys1 /\ InterfaceName \in DOMAIN counters
    /\ counters[InterfaceName] =
           sys1[InterfaceName] + traffic - (IF wrapped THEN Width ELSE 0)

\* Up to the first line that is printed, the samples follow the counters; after it the
\* entries of InterfaceName are the ones of that line.
FirstStepInv ==
    /\ printed = <<>> /\ pc = "step" => sys1 = Empty /\ sys2 = Empty
    /\ printed = <<>> /\ pc = "load" => sys2 = Empty /\ (steady => Tracks(os))
    /\ printed = <<>> /\ pc = "present" => (steady => Tracks(sys2))
    /\ printed # <<>> =>
           /\ InterfaceName \in DOMAIN sys1 /\ InterfaceName \in DOMAIN sys2
           /\ printed[1] = getDelta(sys1, sys2)
=============================================================================
