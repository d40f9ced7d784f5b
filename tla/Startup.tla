------------------------------ MODULE Startup ------------------------------
(***************************************************************************)
(* Invocations of dnsmeter one after the other: the command line, the list *)
(* of load steps, the files, and what each invocation leaves in the CSV    *)
(* file, the only thing that outlives it.  An invocation can be killed at  *)
(* any point.                                                              *)
(*                                                                         *)
(* An option gets its value when the code looks at it.  The load steps     *)
(* themselves are in Session: here each one only saves its row.            *)
(***************************************************************************)
EXTENDS Integers, SequencesExt

CONSTANTS
    Numbers,   \* what -l, -t and -n can give; 0 also when the option is missing
    Shares,    \* what -d can give
    Lists,     \* the lists of rates -r can give
    Width,     \* values of an unsigned 64-bit integer
    MaxRates,  \* bound: load steps, a stand-in for the memory they take
    MaxRuns    \* bound: invocations

ASSUME NumbersAssumption == 0 \in Numbers /\ Numbers \subseteq Int /\ Shares \subseteq Int
ASSUME ListsAssumption == Lists \subseteq Seq(Int)
ASSUME WidthAssumption == Width \in Nat \ {0} /\ MaxRates \in Nat /\ MaxRuns \in Nat

VARIABLES
    pc,        \* where the invocation is, or "off"
    code,      \* its exit status
    runs,      \* invocations so far
    source,    \* "unset", "-q", "-s", then "own", "net" or "pcap"
    runtime, timeout, threads, dnssec,
    range,     \* from, to and by of a range of rates, and the rate i it has come to
    rates,     \* the load steps
    csv,       \* -c was given, and the file is open
    file,      \* the lines of the CSV file, none when it does not exist
    loaded,    \* openQueryFile has succeeded
    pool,      \* sender threads prepared
    saved      \* load steps of this invocation whose row is saved

options == <<source, runtime, timeout, threads, dnssec>>
steps == <<range, rates>>
prepared == <<csv, loaded, pool, saved>>
vars == <<pc, code, runs, options, steps, prepared, file>>

NoRange == [from |-> 0, to |-> 0, by |-> 0, i |-> 0]

\* A DNSSender as its constructor leaves it, before any invocation.
Init ==
    /\ pc = "off" /\ code = 0 /\ runs = 0 /\ file = <<>>
    /\ source = "unset" /\ runtime = 10 /\ timeout = 2 /\ threads = 1 /\ dnssec = 0
    /\ range = NoRange /\ rates = <<>>
    /\ csv = FALSE /\ loaded = FALSE /\ pool = 0 /\ saved = 0

-----------------------------------------------------------------------------

\* A new process.  With -h, --help or no argument it only prints its help.
Start ==
    /\ pc = "off" /\ runs < MaxRuns
    /\ runs' = runs + 1 /\ code' = 0 /\ pc' \in {"getParameter", "exit"}
    /\ UNCHANGED <<options, steps, prepared, file>>

\* main() returns 1.
Refuse ==
    /\ pc' = "exit" /\ code' = 1
    /\ UNCHANGED <<runs, options, steps, prepared, file>>

\* getParameter: exactly one of -q and -s.
CheckSource ==
    /\ pc = "getParameter"
    /\ \/ Refuse
       \/ /\ pc' = "getTarget" /\ source' \in {"-q", "-s"}
          /\ UNCHANGED <<code, runs, runtime, timeout, threads, dnssec, steps, prepared, file>>

\* -z is missing, malformed or cannot be resolved.
GetTarget ==
    /\ pc = "getTarget"
    /\ \/ Refuse
       \/ pc' = "getSource" /\ UNCHANGED <<code, runs, options, steps, prepared, file>>

GetSource ==
    /\ pc = "getSource"
    /\ \/ Refuse
       \/ /\ pc' = "numbers"
          /\ source' \in IF source = "-s" THEN {"net", "pcap"} ELSE {"own"}
          /\ UNCHANGED <<code, runs, runtime, timeout, threads, dnssec, steps, prepared, file>>

\* Mutant: the value of an option is taken as it is.
AsGiven(n, default) == n

OrDefault(n, default) == IF n = 0 THEN default ELSE n

\* -l, -t, -n and -d, and the test for -p: a share outside of 0 to 100 or a missing
\* payload file name is refused.  Negative numbers are not.
GetNumbers ==
    /\ pc = "numbers"
    /\ \/ Refuse
       \/ /\ pc' = "getQueryRates"
          /\ \E l, t, n \in Numbers : /\ runtime' = OrDefault(l, 10)
                                      /\ timeout' = OrDefault(t, 2)
                                      /\ threads' = OrDefault(n, 1)
          /\ dnssec' \in {d \in Shares : 0 <= d /\ d <= 100}
          /\ UNCHANGED <<code, runs, source, steps, prepared, file>>

\* getQueryRates: no -r is one unlimited load step; a list is taken over.
GetList ==
    /\ pc = "getQueryRates"
    /\ rates' \in {<<0>>} \cup Lists
    /\ pc' = "openCSVFile"
    /\ UNCHANGED <<code, runs, options, range, prepared, file>>

\* ... a range, start-end,step, begins with its start.
GetRange ==
    /\ pc = "getQueryRates"
    /\ \E a, b, c \in 0 .. Width - 1 : range' = [from |-> a, to |-> b, by |-> c, i |-> a]
    /\ rates' = <<>> /\ pc' = "range"
    /\ UNCHANGED <<code, runs, options, prepared, file>>

\* Mutant: the end of the range is not part of it.
InRangeExclusive == range.i < range.to

InRange == range.i <= range.to

\* Mutant: the loop counts the rates, but stays where it is.
AdvancedNever == range.i

\* i += step, in 64 bits
Advanced == (range.i + range.by) % Width

AddRate ==
    /\ pc = "range" /\ InRange /\ Len(rates) < MaxRates
    /\ rates' = Append(rates, range.i)
    /\ range' = [range EXCEPT !.i = Advanced]
    /\ UNCHANGED <<pc, code, runs, options, prepared, file>>

EndRange ==
    /\ pc = "range" /\ ~InRange
    /\ pc' = "openCSVFile"
    /\ UNCHANGED <<code, runs, options, steps, prepared, file>>

\* Mutant: the file is emptied when it is opened.
OpenCSVFileTruncates ==
    /\ pc = "openCSVFile"
    /\ \/ Refuse
       \/ /\ pc' = "header" /\ csv' = TRUE /\ file' = <<>>
          /\ UNCHANGED <<code, runs, options, steps, loaded, pool, saved>>
       \/ /\ pc' = "openQueryFile"
          /\ UNCHANGED <<code, runs, options, steps, prepared, file>>

\* openFiles: without -c, with it, and with a file that cannot be opened.
OpenCSVFile ==
    /\ pc = "openCSVFile"
    /\ \/ Refuse
       \/ /\ pc' = "header" /\ csv' = TRUE
          /\ UNCHANGED <<code, runs, options, steps, loaded, pool, saved, file>>
       \/ /\ pc' = "openQueryFile"
          /\ UNCHANGED <<code, runs, options, steps, prepared, file>>

\* Mutant: every invocation writes the header.
WriteHeaderAlways ==
    /\ pc = "header"
    /\ \/ Refuse
       \/ /\ pc' = "openQueryFile" /\ file' = Append(file, "header")
          /\ UNCHANGED <<code, runs, options, steps, prepared>>

\* The header of the CSV file, if the file is empty; flushed at once.  The write fails
\* like the opening of the file does.
WriteHeader ==
    /\ pc = "header"
    /\ \/ file = <<>> /\ Refuse
       \/ /\ pc' = "openQueryFile"
          /\ file' = IF file = <<>> THEN <<"header">> ELSE file
          /\ UNCHANGED <<code, runs, options, steps, prepared>>

OpenQueryFile ==
    /\ pc = "openQueryFile"
    /\ \/ Refuse
       \/ /\ pc' = "prepareThreads" /\ loaded' = TRUE
          /\ UNCHANGED <<code, runs, options, steps, csv, pool, saved, file>>

\* The receiver, unless --ignore is given, and the sender threads: each opens a raw
\* socket, which can fail.  A negative number of threads makes none.
PrepareThreads ==
    /\ pc = "prepareThreads"
    /\ \/ Refuse
       \/ /\ pc' = "run" /\ pool' = IF threads > 0 THEN threads ELSE 0
          /\ UNCHANGED <<code, runs, options, steps, csv, loaded, saved, file>>

\* A load step ends and saveResultsToCsv appends its row, flushed at once.
SaveResultsToCsv ==
    /\ pc = "run" /\ saved < Len(rates)
    /\ saved' = saved + 1
    /\ file' = IF csv THEN Append(file, "row") ELSE file
    /\ UNCHANGED <<pc, code, runs, options, steps, csv, loaded, pool>>

\* The load steps are over, or one of them was the last: interrupted, or failed.
EndRun ==
    /\ pc = "run"
    /\ \/ Refuse
       \/ pc' = "exit" /\ UNCHANGED <<code, runs, options, steps, prepared, file>>

Process ==
    \/ CheckSource \/ GetTarget \/ GetSource \/ GetNumbers
    \/ GetList \/ GetRange \/ AddRate \/ EndRange
    \/ OpenCSVFile \/ WriteHeader \/ OpenQueryFile \/ PrepareThreads
    \/ SaveResultsToCsv \/ EndRun

\* The process has ended or is killed: the next one constructs its DNSSender anew.
Gone ==
    /\ pc # "off" /\ pc' = "off"
    /\ source' = "unset" /\ runtime' = 10 /\ timeout' = 2 /\ threads' = 1 /\ dnssec' = 0
    /\ range' = NoRange /\ rates' = <<>>
    /\ csv' = FALSE /\ loaded' = FALSE /\ pool' = 0 /\ saved' = 0
    /\ UNCHANGED <<code, runs, file>>

\* Nobody starts it again.
Ended == pc = "off" /\ runs = MaxRuns /\ UNCHANGED vars

Next == Start \/ Process \/ Gone \/ Ended

Spec == Init /\ [][Next]_vars
FairSpec == Spec /\ WF_vars(Process)

-----------------------------------------------------------------------------
(***************************************************************************)
(* Properties.                                                             *)
(***************************************************************************)

\* The CSV file starts with its one header, whichever invocations wrote it and
\* wherever they were killed.
CsvWellFormed == \A l \in 1 .. Len(file) : (file[l] = "header") <=> (l = 1)

\* No invocation takes a line away that an earlier one, or an earlier load step, saved.
LinesKept == [][IsPrefix(file, file')]_vars

\* A range of rates is the arithmetic progression from its start up to its end, as
\* long as adding the step to the end does not overflow; then the loop also ends.
Regular == range.by > 0 /\ range.to + range.by < Width
RatesAreRange ==
    (pc \notin {"off", "exit", "range"} /\ range # NoRange /\ Regular) =>
        rates = [k \in 1 .. (IF range.from > range.to THEN 0
                             ELSE (range.to - range.from) \div range.by + 1) |->
                    range.from + (k - 1) * range.by]
RangeEnds == (pc = "range" /\ Regular) ~> (pc # "range")

\* Load steps only run with a loaded payload, a source, a legal share of DNSSEC
\* queries, and neither a runtime, which the results are divided by, nor a number of
\* threads, which the rate is divided by, of 0.
RunsConfigured ==
    pc = "run" => /\ loaded /\ source \in {"own", "net", "pcap"} /\ dnssec \in 0 .. 100
                  /\ runtime # 0 /\ timeout # 0 /\ threads # 0
                  /\ (pool = 0) <=> (threads < 0)

-----------------------------------------------------------------------------
(***************************************************************************)
(* Inductive invariants.                                                   *)
(***************************************************************************)

\* What is decided where: an invocation that is past a place, and has not ended.
FilesOpen == {"openQueryFile", "prepareThreads", "run"}
RatesKnown == {"openCSVFile", "header"} \union FilesOpen
NumbersKnown == {"getQueryRates", "range"} \union RatesKnown
SourceKnown == {"numbers"} \union NumbersKnown

TypeOK ==
    /\ pc \in {"off", "getParameter", "getTarget", "getSource", "exit"} \union SourceKnown
    /\ file \in Seq({"header", "row"})
    /\ rates \in Seq(Int)
    /\ range \in [from: 0 .. Width - 1, to: 0 .. Width - 1, by: 0 .. Width - 1, i: 0 .. Width - 1]
    /\ threads \in Int

\* Before a row the file has its header.
CsvInv == CsvWellFormed /\ (csv /\ pc \notin {"header", "exit"} => file # <<>>)

ConfigInv ==
    /\ pc \in SourceKnown => source \in {"own", "net", "pcap"}
    /\ pc \in NumbersKnown =>
           dnssec \in 0 .. 100 /\ runtime # 0 /\ timeout # 0 /\ threads # 0
    /\ pc \in {"prepareThreads", "run"} => loaded
    /\ pc = "run" => ((pool = 0) <=> (threads < 0))

\* The rates so far are the progression up to, and without, the rate the loop is at.
Progression ==
    LET n == Len(rates)
    IN  /\ \A k \in 1 .. n : rates[k] = range.from + (k - 1) * range.by
        /\ range.i = range.from + n * range.by
        /\ n > 0 => range.i - range.by <= range.to

RangeInv ==
    /\ pc \notin {"range", "exit"} \union RatesKnown => range = NoRange
    /\ pc = "range" /\ Regular => Progression
    /\ RatesAreRange
=============================================================================
