--------------------------- MODULE StartupProofs ---------------------------
(***************************************************************************)
(* Proofs about the start-up of dnsmeter and the CSV file its invocations  *)
(* share, for any number of invocations, any numbers on the command line   *)
(* and any range of rates.                                                 *)
(***************************************************************************)
EXTENDS Startup, SequenceTheorems, TLAPS

\* The options, the rates and the file of every state are of their type.
LEMMA StartupTypeStep == TypeOK /\ [Next]_vars => TypeOK'
<1> SUFFICES ASSUME TypeOK, [Next]_vars PROVE TypeOK'
  OBVIOUS
<1> USE DEF TypeOK, SourceKnown, NumbersKnown, RatesKnown, FilesOpen, options, steps, prepared
<1>1. CASE Start
  BY <1>1 DEF Start
<1>2. CASE CheckSource \/ GetTarget \/ GetSource
  BY <1>2 DEF CheckSource, GetTarget, GetSource, Refuse
<1>3. CASE GetNumbers
  BY <1>3, NumbersAssumption DEF GetNumbers, Refuse, OrDefault
<1>4. CASE GetList
  <2>1. rates' \in {<<0>>} \union Lists /\ pc' = "openCSVFile" /\ UNCHANGED <<file, range, threads>>
    BY <1>4 DEF GetList
  <2>2. <<0>> \in Seq(Int)
    OBVIOUS
  <2>3. rates' \in Seq(Int)
    BY <2>1, <2>2, ListsAssumption
  <2> QED
    BY <2>1, <2>3
<1>5. CASE GetRange
  BY <1>5 DEF GetRange
<1>6. CASE AddRate
  <2>1. /\ rates' = Append(rates, range.i) /\ range' = [range EXCEPT !.i = Advanced]
        /\ UNCHANGED <<pc, file, threads>>
    BY <1>6 DEF AddRate
  <2>2. Advanced \in 0 .. Width - 1 /\ range.i \in Int
    BY WidthAssumption DEF Advanced
  <2>3. rates' \in Seq(Int)
    BY <2>1, <2>2
  <2> QED
    BY <2>1, <2>2, <2>3
<1>7. CASE EndRange
  BY <1>7 DEF EndRange
<1>8. CASE OpenCSVFile \/ OpenQueryFile \/ PrepareThreads \/ EndRun
  BY <1>8 DEF OpenCSVFile, OpenQueryFile, PrepareThreads, EndRun, Refuse
<1>9. CASE WriteHeader
  <2>1. <<"header">> \in Seq({"header", "row"})
    OBVIOUS
  <2>2. file' \in {file, <<"header">>} /\ pc' \in {"exit", "openQueryFile"}
          /\ UNCHANGED <<rates, range, threads>>
    BY <1>9 DEF WriteHeader, Refuse
  <2> QED
    BY <2>1, <2>2
<1>10. CASE SaveResultsToCsv
  BY <1>10 DEF SaveResultsToCsv
<1>11. CASE Gone
  BY <1>11, WidthAssumption DEF Gone, NoRange
<1>12. CASE UNCHANGED vars
  BY <1>12 DEF vars
<1> QED
  BY <1>1, <1>2, <1>3, <1>4, <1>5, <1>6, <1>7, <1>8, <1>9, <1>10, <1>11, <1>12
     DEF Next, Process, Ended

\* Every state of an invocation is of its type.
THEOREM StartupTypes == Spec => []TypeOK
<1>1. Init => TypeOK
  BY WidthAssumption DEF Init, TypeOK, NoRange
<1> QED
  BY <1>1, StartupTypeStep, PTL DEF Spec

-----------------------------------------------------------------------------
(***************************************************************************)
(* The CSV file.                                                           *)
(***************************************************************************)

\* What a step does to the file: nothing, its header if it is empty, or one more row.
LEMMA FileStep ==
    ASSUME [Next]_vars
    PROVE  \/ UNCHANGED file
           \/ WriteHeader /\ file = <<>> /\ file' = <<"header">>
           \/ SaveResultsToCsv /\ csv /\ file' = Append(file, "row")
<1>1. CASE WriteHeader
  BY <1>1 DEF WriteHeader, Refuse
<1>2. CASE SaveResultsToCsv
  BY <1>2 DEF SaveResultsToCsv
<1>3. CASE UNCHANGED vars
  BY <1>3 DEF vars
<1> QED
  BY <1>1, <1>2, <1>3 DEF Next, Process, Ended, Start, CheckSource, GetTarget, GetSource, GetNumbers,
     GetList, GetRange, AddRate, EndRange, OpenCSVFile, OpenQueryFile, PrepareThreads, EndRun,
     Refuse, Gone

LEMMA CsvStep == TypeOK /\ CsvInv /\ [Next]_vars => CsvInv'
<1> SUFFICES ASSUME TypeOK, CsvInv, [Next]_vars PROVE CsvInv'
  OBVIOUS
<1>1. CASE WriteHeader /\ file = <<>> /\ file' = <<"header">>
  <2>1. Len(file') = 1 /\ file'[1] = "header" /\ file' # <<>>
    BY <1>1
  <2> QED
    BY <2>1 DEF CsvInv, CsvWellFormed
<1>2. CASE SaveResultsToCsv /\ csv /\ file' = Append(file, "row")
  <2>1. file \in Seq({"header", "row"}) /\ file # <<>> /\ Len(file) \in Nat
    BY <1>2 DEF TypeOK, CsvInv, SaveResultsToCsv
  <2>2. Len(file) > 0
    BY <2>1
  <2>3. \A l \in 1 .. Len(file) : (file[l] = "header") <=> (l = 1)
    BY DEF CsvInv, CsvWellFormed
  <2>4. /\ Len(file') = Len(file) + 1 /\ file'[Len(file) + 1] = "row"
        /\ \A l \in 1 .. Len(file) : file'[l] = file[l]
    BY <1>2, <2>1
  <2>5. \A l \in 1 .. Len(file') : (file'[l] = "header") <=> (l = 1)
    BY <2>1, <2>2, <2>3, <2>4
  <2>6. file' # <<>>
    BY <2>1, <2>4
  <2> QED
    BY <2>5, <2>6 DEF CsvInv, CsvWellFormed
<1>3. CASE UNCHANGED file
  <2>1. CsvWellFormed'
    BY <1>3 DEF CsvInv, CsvWellFormed
  <2>2. ASSUME csv', pc' \notin {"header", "exit"} PROVE file # <<>>
    <3>1. CASE csv /\ pc \notin {"header", "exit"}
      BY <3>1 DEF CsvInv
    <3>2. CASE ~csv
      <4>1. OpenCSVFile \/ Gone \/ UNCHANGED csv
        BY DEF Next, Process, Ended, Start, CheckSource, GetTarget, GetSource, GetNumbers, GetList,
           GetRange, AddRate, EndRange, WriteHeader, OpenQueryFile, PrepareThreads,
           SaveResultsToCsv, EndRun, Refuse, vars, prepared
      <4> QED
        BY <2>2, <3>2, <4>1 DEF OpenCSVFile, Refuse, Gone, prepared
    <3>3. CASE csv /\ pc \in {"header", "exit"}
      <4>1. WriteHeader \/ Gone \/ UNCHANGED pc
        BY <3>3 DEF Next, Process, Ended, Start, CheckSource, GetTarget, GetSource, GetNumbers,
           GetList, GetRange, AddRate, EndRange, OpenCSVFile, OpenQueryFile, PrepareThreads,
           SaveResultsToCsv, EndRun, vars
      <4> QED
        BY <1>3, <2>2, <3>3, <4>1 DEF WriteHeader, Refuse, Gone
    <3> QED
      BY <3>1, <3>2, <3>3
  <2> QED
    BY <1>3, <2>1, <2>2 DEF CsvInv
<1> QED
  BY <1>1, <1>2, <1>3, FileStep

\* The CSV file starts with its one header, whichever invocations have written to it and
\* wherever they were killed.
THEOREM CsvFileWellFormed == Spec => []CsvWellFormed
<1>1. Init => TypeOK /\ CsvInv
  BY WidthAssumption DEF Init, TypeOK, CsvInv, CsvWellFormed, NoRange
<1>2. CsvInv => CsvWellFormed
  BY DEF CsvInv
<1> QED
  BY <1>1, <1>2, StartupTypeStep, CsvStep, PTL DEF Spec

\* No invocation, and no load step, takes a line of the CSV file away.
THEOREM CsvLinesKept == Spec => LinesKept
<1>1. TypeOK /\ [Next]_vars => [IsPrefix(file, file')]_vars
  <2> SUFFICES ASSUME TypeOK, [Next]_vars PROVE IsPrefix(file, file')
    OBVIOUS
  <2>1. file \in Seq({"header", "row"}) /\ Len(file) \in Nat
    BY DEF TypeOK
  <2>2. CASE UNCHANGED file
    BY <2>1, <2>2 DEF IsPrefix
  <2>3. CASE file = <<>>
    <3>1. Len(file) = 0 /\ file' \in Seq({"header", "row"})
      BY <2>3, StartupTypeStep DEF TypeOK
    <3>2. SubSeq(file, 1, 0) = <<>> /\ SubSeq(file', 1, 0) = <<>>
      BY <2>1, <3>1, SubSeqEmpty
    <3> QED
      BY <3>1, <3>2 DEF IsPrefix
  <2>4. CASE file' = Append(file, "row")
    <3>1. Len(file') = Len(file) + 1 /\ \A l \in 1 .. Len(file) : file'[l] = file[l]
      BY <2>1, <2>4
    <3>2. SubSeq(file, 1, Len(file)) = SubSeq(file', 1, Len(file))
      BY <2>1, <3>1
    <3> QED
      BY <2>1, <3>1, <3>2 DEF IsPrefix
  <2> QED
    BY <2>2, <2>3, <2>4, FileStep
<1> QED
  BY <1>1, StartupTypes, PTL DEF Spec, LinesKept

-----------------------------------------------------------------------------
(***************************************************************************)
(* The options.                                                            *)
(***************************************************************************)

LEMMA ConfigStep == TypeOK /\ ConfigInv /\ [Next]_vars => ConfigInv'
<1> SUFFICES ASSUME TypeOK, ConfigInv, [Next]_vars PROVE ConfigInv'
  OBVIOUS
<1> USE DEF ConfigInv, SourceKnown, NumbersKnown, RatesKnown, FilesOpen, options, steps, prepared
<1>1. CASE Start \/ CheckSource \/ GetTarget
  BY <1>1 DEF Start, CheckSource, GetTarget, Refuse
<1>2. CASE GetSource
  BY <1>2 DEF GetSource, Refuse
<1>3. CASE GetNumbers
  <2>1. CASE Refuse
    BY <2>1 DEF Refuse
  <2>2. CASE ~Refuse
    <3>1. /\ pc = "numbers" /\ pc' = "getQueryRates" /\ source' = source
          /\ dnssec' \in {d \in Shares : 0 <= d /\ d <= 100}
          /\ \E l, t, n \in Numbers : /\ runtime' = OrDefault(l, 10)
                                      /\ timeout' = OrDefault(t, 2)
                                      /\ threads' = OrDefault(n, 1)
      BY <1>3, <2>2 DEF GetNumbers
    <3>2. dnssec' \in 0 .. 100
      BY <3>1, NumbersAssumption
    <3>3. runtime' # 0 /\ timeout' # 0 /\ threads' # 0
      BY <3>1 DEF OrDefault
    <3> QED
      BY <3>1, <3>2, <3>3
  <2> QED
    BY <2>1, <2>2
<1>4. CASE GetList \/ GetRange \/ AddRate \/ EndRange \/ OpenCSVFile \/ WriteHeader
  BY <1>4 DEF GetList, GetRange, AddRate, EndRange, OpenCSVFile, WriteHeader, Refuse
<1>5. CASE OpenQueryFile
  BY <1>5 DEF OpenQueryFile, Refuse
<1>6. CASE PrepareThreads
  <2>1. CASE Refuse
    BY <2>1 DEF Refuse
  <2>2. CASE ~Refuse
    <3>1. /\ pc = "prepareThreads" /\ pc' = "run" /\ pool' = IF threads > 0 THEN threads ELSE 0
          /\ UNCHANGED <<options, loaded>>
      BY <1>6, <2>2 DEF PrepareThreads
    <3>2. threads \in Int /\ threads # 0
      BY <3>1 DEF TypeOK
    <3>3. (pool' = 0) <=> (threads < 0)
      BY <3>1, <3>2
    <3> QED
      BY <3>1, <3>3
  <2> QED
    BY <2>1, <2>2
<1>7. CASE SaveResultsToCsv \/ EndRun
  BY <1>7 DEF SaveResultsToCsv, EndRun, Refuse
<1>8. CASE Gone
  BY <1>8 DEF Gone
<1>9. CASE UNCHANGED vars
  BY <1>9 DEF vars
<1> QED
  BY <1>1, <1>2, <1>3, <1>4, <1>5, <1>6, <1>7, <1>8, <1>9 DEF Next, Process, Ended

\* Load steps only run with a payload, a source, and no number of 0 where the program
\* divides by it, whatever the command line was.
THEOREM LoadStepsConfigured == Spec => []RunsConfigured
<1>1. Init => ConfigInv
  BY DEF Init, ConfigInv, SourceKnown, NumbersKnown, RatesKnown, FilesOpen
<1>2. ConfigInv => RunsConfigured
  BY DEF ConfigInv, RunsConfigured, SourceKnown, NumbersKnown, RatesKnown, FilesOpen
<1> QED
  BY <1>1, <1>2, StartupTypes, ConfigStep, PTL DEF Spec

-----------------------------------------------------------------------------
(***************************************************************************)
(* A range of rates.                                                       *)
(***************************************************************************)

\* A number below a modulus is its own remainder.
LEMMA NoOverflow == ASSUME NEW n \in Nat, n < Width PROVE n % Width = n
  BY WidthAssumption

\* One step more.
LEMMA OneMoreStep == ASSUME NEW n \in Nat, NEW b \in Nat PROVE (n + 1) * b = n * b + b
  OBVIOUS

\* How many steps of size b fit into d.
LEMMA StepsThatFit ==
    ASSUME NEW d \in Nat, NEW b \in Nat \ {0}, NEW m \in Nat, m * b <= d, d < (m + 1) * b
    PROVE  d \div b = m
<1> DEFINE q == d \div b
<1>1. q \in Nat /\ q * b <= d /\ d < (q + 1) * b
  <2>1. q \in Nat /\ d % b \in 0 .. b - 1 /\ d = q * b + (d % b)
    <3>1. q \in Nat
      OBVIOUS
    <3>2. d % b \in 0 .. b - 1
      OBVIOUS
    <3>3. d = q * b + (d % b)
      OBVIOUS
    <3> QED
      BY <3>1, <3>2, <3>3
  <2> HIDE DEF q
  <2>2. q * b \in Nat /\ (q + 1) * b = q * b + b
    BY <2>1
  <2> QED
    BY <2>1, <2>2
<1> HIDE DEF q
<1>2. ASSUME NEW x \in Nat, NEW y \in Nat, x * b < (y + 1) * b PROVE x <= y
  <2> SUFFICES ASSUME x >= y + 1 PROVE FALSE
    OBVIOUS
  <2>1. (x - (y + 1)) * b >= 0
    OBVIOUS
  <2>2. (x - (y + 1)) * b = x * b - (y + 1) * b
    OBVIOUS
  <2>3. x * b \in Int /\ (y + 1) * b \in Int
    OBVIOUS
  <2> QED
    BY <1>2, <2>1, <2>2, <2>3
<1>3. m * b \in Nat /\ q * b \in Nat /\ (m + 1) * b \in Nat /\ (q + 1) * b \in Nat
  BY <1>1
<1>4. m * b < (q + 1) * b /\ q * b < (m + 1) * b
  BY <1>1, <1>3
<1>5. m <= q /\ q <= m
  BY <1>1, <1>2, <1>4
<1> QED
  BY <1>1, <1>5 DEF q

\* A rate of the loop is the next of the progression, and adding the step does not
\* overflow.
LEMMA ProgressionStep ==
    ASSUME TypeOK, Regular, Progression, AddRate
    PROVE  Progression'
<1> DEFINE n == Len(rates)
<1>1. /\ range.from \in Nat /\ range.to \in Nat /\ range.by \in Nat \ {0} /\ range.i \in Nat
      /\ range.to + range.by < Width /\ rates \in Seq(Int) /\ n \in Nat
  BY WidthAssumption DEF TypeOK, Regular
<1>2. /\ range.i <= range.to /\ rates' = Append(rates, range.i)
      /\ range' = [range EXCEPT !.i = Advanced]
  BY DEF AddRate, InRange
<1>3. Advanced = range.i + range.by
  <2>1. range.i + range.by \in Nat /\ range.i + range.by < Width
    BY <1>1, <1>2, WidthAssumption
  <2> QED
    BY <2>1, NoOverflow DEF Advanced
<1>4. range'.from = range.from /\ range'.to = range.to /\ range'.by = range.by
        /\ range'.i = range.i + range.by
  BY <1>2, <1>3 DEF TypeOK
<1>5. Len(rates') = n + 1 /\ rates'[n + 1] = range.i /\ \A k \in 1 .. n : rates'[k] = rates[k]
  BY <1>1, <1>2
<1>6. /\ \A k \in 1 .. n : rates[k] = range.from + (k - 1) * range.by
      /\ range.i = range.from + n * range.by
  BY DEF Progression
<1>7. \A k \in 1 .. Len(rates') : rates'[k] = range.from + (k - 1) * range.by
  <2>1. rates'[n + 1] = range.from + ((n + 1) - 1) * range.by
    <3>1. (n + 1) - 1 = n
      BY <1>1
    <3> QED
      BY <1>5, <1>6, <3>1
  <2> HIDE DEF n
  <2>2. ASSUME NEW k \in 1 .. n + 1 PROVE rates'[k] = range.from + (k - 1) * range.by
    <3>1. CASE k = n + 1
      BY <2>1, <3>1
    <3>2. CASE k \in 1 .. n
      BY <1>5, <1>6, <3>2
    <3> QED
      BY <1>1, <2>2, <3>1, <3>2
  <2> QED
    BY <1>5, <2>2
<1>8. range.i + range.by = range.from + (n + 1) * range.by
  <2>1. (n + 1) * range.by = n * range.by + range.by
    BY <1>1, OneMoreStep
  <2> QED
    BY <1>1, <1>6, <2>1
<1>9. (range.i + range.by) - range.by <= range.to
  BY <1>1, <1>2
<1> HIDE DEF n
<1> QED
  BY <1>4, <1>5, <1>7, <1>8, <1>9 DEF Progression

\* The progression the loop has built when it ends is the whole range.
LEMMA ProgressionEnd ==
    ASSUME TypeOK, Regular, Progression, ~InRange
    PROVE  rates = [k \in 1 .. (IF range.from > range.to THEN 0
                                ELSE (range.to - range.from) \div range.by + 1) |->
                        range.from + (k - 1) * range.by]
<1> DEFINE n == Len(rates)
           f == range.from
           t == range.to
           b == range.by
<1>1. f \in Nat /\ t \in Nat /\ b \in Nat \ {0} /\ rates \in Seq(Int) /\ n \in Nat
  BY WidthAssumption DEF TypeOK, Regular
<1>2. \A k \in 1 .. n : rates[k] = f + (k - 1) * b
  BY DEF Progression
<1>3. range.i = f + n * b /\ range.i > t /\ (n > 0 => range.i - b <= t) /\ range.i \in Nat
  BY WidthAssumption DEF Progression, InRange, TypeOK
<1>4. rates = [k \in 1 .. n |-> f + (k - 1) * b]
  BY <1>1, <1>2
<1> HIDE DEF n, f, t, b
<1>5. CASE f > t
  <2>1. n = 0
    <3> SUFFICES ASSUME n > 0 PROVE FALSE
      BY <1>1
    <3>1. n * b = (n - 1) * b + b
      BY <1>1
    <3>2. (n - 1) * b \in Nat
      BY <1>1
    <3> QED
      BY <1>1, <1>3, <1>5, <3>1, <3>2
  <2> QED
    BY <1>4, <1>5, <2>1 DEF f, t, b
<1>6. CASE f <= t
  <2>1. n > 0
    <3> SUFFICES ASSUME n = 0 PROVE FALSE
      BY <1>1
    <3>1. n * b = 0
      BY <1>1
    <3> QED
      BY <1>1, <1>3, <1>6, <3>1
  <2>2. n * b = (n - 1) * b + b /\ n - 1 \in Nat /\ (n - 1) * b \in Nat
    BY <1>1, <2>1
  <2>3. (n - 1) * b <= t - f /\ t - f < ((n - 1) + 1) * b /\ t - f \in Nat
    <3>1. (n - 1) + 1 = n
      BY <1>1
    <3> QED
      BY <1>1, <1>3, <1>6, <2>1, <2>2, <3>1
  <2>4. (t - f) \div b = n - 1
    BY <1>1, <2>2, <2>3, StepsThatFit
  <2>5. (IF f > t THEN 0 ELSE (t - f) \div b + 1) = n
    BY <1>1, <1>6, <2>4
  <2> QED
    BY <1>4, <2>5 DEF f, t, b
<1> QED
  BY <1>1, <1>5, <1>6

LEMMA RangeStep == TypeOK /\ RangeInv /\ [Next]_vars => RangeInv'
<1> SUFFICES ASSUME TypeOK, RangeInv, [Next]_vars PROVE RangeInv'
  OBVIOUS
<1> USE DEF RatesKnown, FilesOpen
<1>1. CASE AddRate
  <2>1. pc = "range" /\ pc' = "range"
    BY <1>1 DEF AddRate
  <2>2. Regular' = Regular
    BY <1>1 DEF AddRate, Regular, TypeOK
  <2>3. Regular => Progression'
    BY <1>1, <2>1, ProgressionStep DEF RangeInv
  <2> QED
    BY <2>1, <2>2, <2>3 DEF RangeInv, RatesAreRange
<1>2. CASE EndRange
  <2>1. pc = "range" /\ pc' = "openCSVFile" /\ ~InRange /\ UNCHANGED <<range, rates>>
    BY <1>2 DEF EndRange, steps
  <2>2. Regular' = Regular
    BY <2>1 DEF Regular
  <2>3. RatesAreRange'
    BY <2>1, <2>2, ProgressionEnd DEF RangeInv, RatesAreRange
  <2> QED
    BY <2>1, <2>3 DEF RangeInv
<1>3. CASE GetList
  <2>1. pc' = "openCSVFile" /\ range' = NoRange
    BY <1>3 DEF GetList, RangeInv
  <2> QED
    BY <2>1 DEF RangeInv, RatesAreRange
<1>4. CASE GetRange
  <2>1. PICK a \in 0 .. Width - 1, b \in 0 .. Width - 1, c \in 0 .. Width - 1 :
            range' = [from |-> a, to |-> b, by |-> c, i |-> a]
    BY <1>4 DEF GetRange
  <2>2. pc' = "range" /\ rates' = <<>> /\ range'.from = a /\ range'.by = c /\ range'.i = a
    BY <1>4, <2>1 DEF GetRange
  <2>3. Progression'
    <3>1. Len(rates') = 0 /\ a + 0 * c = a
      BY <2>2, WidthAssumption
    <3> QED
      BY <2>2, <3>1 DEF Progression
  <2> QED
    BY <2>2, <2>3 DEF RangeInv, RatesAreRange
<1>5. CASE Gone
  <2>1. pc' = "off" /\ range' = NoRange
    BY <1>5 DEF Gone
  <2> QED
    BY <2>1 DEF RangeInv, RatesAreRange
<1>6. CASE Start \/ CheckSource \/ GetTarget \/ GetSource \/ GetNumbers
  <2>1. pc \notin {"range", "exit"} \union RatesKnown /\ pc' \notin {"range"} \union RatesKnown
          /\ UNCHANGED range
    BY <1>6 DEF Start, CheckSource, GetTarget, GetSource, GetNumbers, Refuse, steps
  <2>2. range' = NoRange
    BY <2>1 DEF RangeInv
  <2> QED
    BY <2>1, <2>2 DEF RangeInv, RatesAreRange
<1>7. CASE OpenCSVFile \/ WriteHeader \/ OpenQueryFile \/ PrepareThreads \/ SaveResultsToCsv \/ EndRun
  <2>1. /\ pc \in RatesKnown /\ pc' \in RatesKnown \union {"exit"} /\ UNCHANGED <<range, rates>>
    BY <1>7 DEF OpenCSVFile, WriteHeader, OpenQueryFile, PrepareThreads, SaveResultsToCsv, EndRun,
       Refuse, steps
  <2>2. Regular' = Regular
    BY <2>1 DEF Regular
  <2>3. RatesAreRange'
    BY <2>1, <2>2 DEF RangeInv, RatesAreRange
  <2> QED
    BY <2>1, <2>3 DEF RangeInv
<1>8. CASE UNCHANGED vars
  <2>1. UNCHANGED <<pc, range, rates>>
    BY <1>8 DEF vars, steps
  <2> QED
    BY <2>1 DEF RangeInv, RatesAreRange, Regular, Progression
<1> QED
  BY <1>1, <1>2, <1>3, <1>4, <1>5, <1>6, <1>7, <1>8 DEF Next, Process, Ended

\* The load steps of a range are the arithmetic progression from its start to its end,
\* for every start, end and step that the loop does not overflow with.
THEOREM RangeIsProgression == Spec => []RatesAreRange
<1>1. Init => RangeInv
  BY DEF Init, RangeInv, RatesAreRange, RatesKnown, FilesOpen
<1>2. RangeInv => RatesAreRange
  BY DEF RangeInv
<1> QED
  BY <1>1, <1>2, StartupTypes, RangeStep, PTL DEF Spec
=============================================================================
