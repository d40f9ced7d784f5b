------------------------------ MODULE Session ------------------------------
(***************************************************************************)
(* One invocation of dnsmeter after its start-up: the main thread          *)
(* (DNSSender::main, run, getResults, showCurrentStats, presentResults),   *)
(* the pool of sender threads (DNSSenderThread), the receiver thread       *)
(* (DNSReceiverThread), SIGINT, and the network with the name server       *)
(* under test behind it.                                                   *)
(*                                                                         *)
(* Every shared counter is read while its owner may still be writing it,   *)
(* so main's getResults is one step per thread it reads.  Sums over the    *)
(* threads are kept as vectors: a reading has one entry per thread, and    *)
(* received answers are told apart by the load step of their query.  What  *)
(* the program prints is the sum of such a vector.                         *)
(***************************************************************************)
EXTENDS Integers, Sequences, FiniteSets, Functions

CONSTANTS
    Threads,          \* the sender threads of the pool (-n)
    Rates,            \* the load steps: a sequence of query rates, 0 = unlimited (-r)
    MaxSend,          \* bound: queries one thread attempts in one load step
    MaxDup,           \* bound: answers the network duplicates, per load step
    CounterRange      \* a ppluint64 holds values below this, 2^64

ASSUME ThreadsAssumption == IsFiniteSet(Threads) /\ Threads # {}
ASSUME RatesAssumption == Rates \in Seq(Nat)
ASSUME BoundsAssumption == MaxSend \in Nat /\ MaxDup \in Nat
ASSUME RangeAssumption == CounterRange \in Nat \ {0}

Steps == 1 .. Len(Rates)

ThreadCount == Cardinality(Threads)

VARIABLES
    mpc,      \* where the main thread is
    step,     \* load steps begun: index i of main's loop, plus one
    stopAt,   \* 0 while stopFlag is false, else 1 + the steps begun when SIGINT set it
    aborted,  \* run() has thrown OperationInterruptedException
    code,     \* exit status of the process
    spc,      \* spc[t]: where sender thread t is
    sstop,    \* sstop[t]: thread t has been asked to stop
    sent,     \* sent[t]: counter_packets_send of thread t
    errors,   \* errors[t]: its failed sends (errors and counter_0bytes)
    rpc,      \* where the receiver thread is; "absent" when Receiver is NULL
    rstop,    \* the receiver has been asked to stop
    rcv,      \* rcv[k]: answers counted to queries of load step k; num_pkgs is the sum
    net,      \* net[k]: queries of load step k in flight, being answered, or lost
    sock,     \* sock[k]: answers to them waiting in the receive buffer of the raw socket
    dups,     \* dups[k]: answers to them the network has duplicated
    todo,     \* threads getResults has still to read
    res,      \* the Results record getResults is filling
    prev,     \* vis_prev_results
    rows      \* the results presented and saved, one row per load step

mainVars == <<mpc, step, stopAt, aborted, code>>
senderVars == <<spc, sstop, sent, errors>>
receiverVars == <<rpc, rstop, rcv>>
netVars == <<net, sock, dups>>
resultVars == <<todo, res, prev, rows>>
vars == <<mainVars, senderVars, receiverVars, netVars, resultVars>>

MainPCs == {"begin", "startReceiver", "startThreads", "warmup", "poll", "stats",
            "statsReceiver", "show", "stopReceiver", "joinReceiver", "sample2",
            "stopThreads", "joinThreads", "final", "finalReceiver", "present",
            "exit"}
SenderPCs == {"idle", "starting", "sending", "waiting"}
ReceiverPCs == {"absent", "idle", "starting", "listening"}

ZeroThreads == [t \in Threads |-> 0]
ZeroSteps == [k \in Steps |-> 0]

\* DNSSender::Results, as far as the counters of the threads fill it.
Results == [sent: [Threads -> Nat], errors: [Threads -> Nat], rcv: [Steps -> Nat]]
ClearedResults == [sent |-> ZeroThreads, errors |-> ZeroThreads, rcv |-> ZeroSteps]

\* What presentResults prints and saveResultsToCsv appends for a load step: both.
Rows == [step: Nat, result: Results, interrupted: BOOLEAN]

stopFlag == stopAt # 0
PoolRunning == \E t \in Threads : spc[t] # "idle"
ReceiverRunning == rpc \in {"starting", "listening"}

Init ==
    /\ mpc = "begin" /\ step = 0 /\ stopAt = 0 /\ aborted = FALSE /\ code = 0
    /\ spc = [t \in Threads |-> "idle"]
    /\ sstop = [t \in Threads |-> FALSE]
    /\ sent = ZeroThreads /\ errors = ZeroThreads
    /\ rpc \in {"absent", "idle"}    \* --ignore makes no receiver
    /\ rstop = FALSE /\ rcv = ZeroSteps
    /\ net = ZeroSteps /\ sock = ZeroSteps /\ dups = ZeroSteps
    /\ todo = {} /\ res = ClearedResults /\ prev = ClearedResults
    /\ rows = <<>>

-----------------------------------------------------------------------------
(***************************************************************************)
(* The main thread.                                                        *)
(***************************************************************************)

\* calcTimeslice gives 1000 ms * ThreadCount / rate, and setTimeslice throws
\* for more than 1000 ms: a rate below one query per second and thread.
TimesliceRejected(rate) == rate > 0 /\ rate < ThreadCount
\* At one query per second and thread the product, in single precision, can come out
\* a little above 1000 ms (it does for 13 threads).
TimesliceMayBeRejected(rate) == rate > 0 /\ rate <= ThreadCount

\* A step of the program that throws a ppl7::Exception main() catches: exit 1.  It
\* stands for every exit status but 0.
Fail ==
    /\ mpc' = "exit" /\ code' = 1
    /\ UNCHANGED <<stopAt, aborted, senderVars, receiverVars, netVars, todo, res, rows>>

\* Mutant: vis_prev_results is not cleared.
BeginStepKeepsPrev ==
    /\ mpc = "begin" /\ step < Len(Rates)
    /\ ~TimesliceRejected(Rates[step + 1])
    /\ mpc' = "startReceiver" /\ step' = step + 1
    /\ UNCHANGED <<stopAt, aborted, code, senderVars, receiverVars, netVars, resultVars>>

\* run(), up to and including the first sampleSensorData.
BeginStep ==
    /\ mpc = "begin" /\ step < Len(Rates)
    /\ ~TimesliceRejected(Rates[step + 1])
    /\ mpc' = "startReceiver" /\ step' = step + 1
    /\ prev' = ClearedResults
    /\ UNCHANGED <<stopAt, aborted, code, senderVars, receiverVars, netVars,
                   todo, res, rows>>

\* Mutant: the exception is swallowed and the program reports success.
RejectStepQuietly ==
    /\ mpc = "begin" /\ step < Len(Rates)
    /\ TimesliceMayBeRejected(Rates[step + 1])
    /\ step' = step + 1 /\ mpc' = "exit"
    /\ UNCHANGED <<stopAt, aborted, code, senderVars, receiverVars, netVars, resultVars>>

RejectStep ==
    /\ mpc = "begin" /\ step < Len(Rates)
    /\ TimesliceMayBeRejected(Rates[step + 1])
    /\ step' = step + 1 /\ prev' = prev
    /\ Fail

\* sampleSensorData cannot read the counters of the system, before the step.
Sample1Fails ==
    /\ mpc = "begin" /\ step < Len(Rates)
    /\ ~TimesliceRejected(Rates[step + 1])
    /\ step' = step + 1 /\ prev' = ClearedResults
    /\ Fail

\* Receiver->threadStart(), when there is a receiver.
StartReceiver ==
    /\ mpc = "startReceiver"
    /\ mpc' = "startThreads"
    /\ IF rpc = "absent"
       THEN UNCHANGED <<rpc, rstop>>
       ELSE rpc' = "starting" /\ rstop' = FALSE
    /\ UNCHANGED <<step, stopAt, aborted, code, senderVars, rcv, netVars, resultVars>>

\* threadpool.startThreads()
StartThreads ==
    /\ mpc = "startThreads"
    /\ mpc' = "warmup"
    /\ spc' = [t \in Threads |-> "starting"]
    /\ sstop' = [t \in Threads |-> FALSE]
    /\ UNCHANGED <<step, stopAt, aborted, code, sent, errors, receiverVars,
                   netVars, resultVars>>

\* Mutant: main looks at the counters at once.
WarmUpNoWait ==
    /\ mpc = "warmup"
    /\ mpc' = "poll"
    /\ UNCHANGED <<step, stopAt, aborted, code, senderVars, receiverVars, netVars,
                   resultVars>>

\* MSleep(500).  The code relies on it: every thread started above has entered
\* its run() and cleared its counters by the time main looks at them.
WarmUp ==
    /\ mpc = "warmup"
    /\ rpc # "starting" /\ \A t \in Threads : spc[t] # "starting"
    /\ mpc' = "poll"
    /\ UNCHANGED <<step, stopAt, aborted, code, senderVars, receiverVars, netVars,
                   resultVars>>

\* Some thread runs and no signal was seen: sleep, and once a second showCurrentStats.
PollReport ==
    /\ mpc = "poll" /\ PoolRunning /\ ~stopFlag
    /\ mpc' = "stats"
    /\ todo' = Threads /\ res' = ClearedResults
    /\ UNCHANGED <<step, stopAt, aborted, code, senderVars, receiverVars, netVars,
                   prev, rows>>

\* Mutant: the loop ends as soon as one thread has ended.
PollLeaveEarly ==
    /\ mpc = "poll" /\ ((\E t \in Threads : spc[t] = "idle") \/ stopFlag)
    /\ mpc' = "stopReceiver"
    /\ UNCHANGED <<step, stopAt, aborted, code, senderVars, receiverVars, netVars,
                   resultVars>>

PollLeave ==
    /\ mpc = "poll" /\ (~PoolRunning \/ stopFlag)
    /\ mpc' = "stopReceiver"
    /\ UNCHANGED <<step, stopAt, aborted, code, senderVars, receiverVars, netVars,
                   resultVars>>

\* getResults: the counters of one sender thread.
ReadSender(t) ==
    /\ mpc \in {"stats", "final"} /\ t \in todo
    /\ todo' = todo \ {t}
    /\ res' = [res EXCEPT !.sent[t] = sent[t], !.errors[t] = errors[t]]
    /\ mpc' = IF todo' # {} THEN mpc
              ELSE IF mpc = "stats" THEN "statsReceiver" ELSE "finalReceiver"
    /\ UNCHANGED <<step, stopAt, aborted, code, senderVars, receiverVars, netVars,
                   prev, rows>>

\* getResults: the counters of the receiver, when there is one.
ReadReceiver ==
    /\ mpc \in {"statsReceiver", "finalReceiver"}
    /\ res' = IF rpc = "absent" THEN res ELSE [res EXCEPT !.rcv = rcv]
    /\ mpc' = IF mpc = "statsReceiver" THEN "show" ELSE "present"
    /\ UNCHANGED <<step, stopAt, aborted, code, senderVars, receiverVars, netVars,
                   todo, prev, rows>>

\* The end of showCurrentStats: print result - vis_prev_results and keep result
\* (a local variable) as vis_prev_results.
Show ==
    /\ mpc = "show"
    /\ mpc' = "poll" /\ prev' = res /\ res' = ClearedResults
    /\ UNCHANGED <<step, stopAt, aborted, code, senderVars, receiverVars, netVars,
                   todo, rows>>

\* Receiver->threadStop(): first the request ...
StopReceiver ==
    /\ mpc = "stopReceiver"
    /\ mpc' = "joinReceiver"
    /\ rstop' = IF rpc = "absent" THEN rstop ELSE TRUE
    /\ UNCHANGED <<step, stopAt, aborted, code, senderVars, rpc, rcv, netVars, resultVars>>

\* ... then the wait for the thread to end.
JoinReceiver ==
    /\ mpc = "joinReceiver" /\ ~ReceiverRunning
    /\ mpc' = "sample2"
    /\ UNCHANGED <<step, stopAt, aborted, code, senderVars, receiverVars, netVars,
                   resultVars>>

\* The second sampleSensorData, and the test of stopFlag after it.  Without a
\* signal run() returns and main() goes on to its final getResults.
Sample2 ==
    /\ mpc = "sample2"
    /\ IF stopFlag
       THEN mpc' = "stopThreads" /\ UNCHANGED <<todo, res>>
       ELSE mpc' = "final" /\ todo' = Threads /\ res' = ClearedResults
    /\ UNCHANGED <<step, stopAt, aborted, code, senderVars, receiverVars, netVars,
                   prev, rows>>

Sample2Fails ==
    /\ mpc = "sample2"
    /\ UNCHANGED <<step, prev>>
    /\ Fail

\* threadpool.stopThreads(): the request to every thread ...
StopThreads ==
    /\ mpc = "stopThreads"
    /\ mpc' = "joinThreads"
    /\ sstop' = [t \in Threads |-> TRUE]
    /\ UNCHANGED <<step, stopAt, aborted, code, spc, sent, errors, receiverVars,
                   netVars, resultVars>>

\* Mutant: the threads are asked to stop, but not waited for.
JoinThreadsNoWait ==
    /\ mpc = "joinThreads"
    /\ mpc' = "final" /\ aborted' = TRUE
    /\ todo' = Threads /\ res' = ClearedResults
    /\ UNCHANGED <<step, stopAt, code, senderVars, receiverVars, netVars, prev, rows>>

\* ... and the wait for all of them, after which run() throws and main()'s
\* handler calls getResults.
JoinThreads ==
    /\ mpc = "joinThreads" /\ ~PoolRunning
    /\ mpc' = "final" /\ aborted' = TRUE
    /\ todo' = Threads /\ res' = ClearedResults
    /\ UNCHANGED <<step, stopAt, code, senderVars, receiverVars, netVars, prev, rows>>

\* Mutant: the interrupted step is presented by the loop, which goes on.
PresentGoesOn ==
    /\ mpc = "present"
    /\ rows' = Append(rows, [step |-> step, result |-> res, interrupted |-> aborted])
    /\ res' = ClearedResults /\ mpc' = "begin"
    /\ UNCHANGED <<step, stopAt, aborted, code, senderVars, receiverVars, netVars,
                   todo, prev>>

\* Mutant: the results of the last showCurrentStats are presented.
PresentLastShown ==
    /\ mpc = "present"
    /\ rows' = Append(rows, [step |-> step, result |-> prev, interrupted |-> aborted])
    /\ res' = ClearedResults
    /\ mpc' = IF aborted THEN "exit" ELSE "begin"
    /\ UNCHANGED <<step, stopAt, aborted, code, senderVars, receiverVars, netVars,
                   todo, prev>>

\* Mutant: the errors presented are those of the last showCurrentStats.
PresentLastErrors ==
    /\ mpc = "present"
    /\ rows' = Append(rows, [step |-> step, interrupted |-> aborted,
                             result |-> [res EXCEPT !.errors = prev.errors]])
    /\ res' = ClearedResults
    /\ mpc' = IF aborted THEN "exit" ELSE "begin"
    /\ UNCHANGED <<step, stopAt, aborted, code, senderVars, receiverVars, netVars,
                   todo, prev>>

\* presentResults and saveResultsToCsv, in the loop of main() or in its handler.
\* results is cleared here and not by the getResults that next uses it.
Present ==
    /\ mpc = "present"
    /\ rows' = Append(rows, [step |-> step, result |-> res, interrupted |-> aborted])
    /\ res' = ClearedResults
    /\ mpc' = IF aborted THEN "exit" ELSE "begin"
    /\ UNCHANGED <<step, stopAt, aborted, code, senderVars, receiverVars, netVars,
                   todo, prev>>

\* The row was printed, but the CSV file cannot be written: exit 1 from the loop; in the
\* handler nothing catches the exception, and the program is aborted.
SaveFails ==
    /\ mpc = "present"
    /\ UNCHANGED <<step, prev>>
    /\ Fail

\* The loop over the rates is over: destroyAllThreads and return 0.
Finish ==
    /\ mpc = "begin" /\ step = Len(Rates)
    /\ mpc' = "exit"
    /\ UNCHANGED <<step, stopAt, aborted, code, senderVars, receiverVars, netVars,
                   resultVars>>

MainNext ==
    \/ BeginStep \/ RejectStep \/ Sample1Fails
    \/ StartReceiver \/ StartThreads \/ WarmUp
    \/ PollReport \/ PollLeave
    \/ \E t \in Threads : ReadSender(t)
    \/ ReadReceiver \/ Show
    \/ StopReceiver \/ JoinReceiver
    \/ Sample2 \/ Sample2Fails
    \/ StopThreads \/ JoinThreads
    \/ Present \/ SaveFails \/ Finish

-----------------------------------------------------------------------------
(***************************************************************************)
(* The sender threads.                                                     *)
(***************************************************************************)

\* DNSSenderThread::run() is entered and resets the counters.
SenderBegin(t) ==
    /\ mpc # "exit" /\ spc[t] = "starting"
    /\ spc' = [spc EXCEPT ![t] = "sending"]
    /\ sent' = [sent EXCEPT ![t] = 0]
    /\ errors' = [errors EXCEPT ![t] = 0]
    /\ UNCHANGED <<mainVars, sstop, receiverVars, netVars, resultVars>>

\* sendPacket(): sendto took the whole packet.
Send(t) ==
    /\ mpc # "exit" /\ spc[t] = "sending" /\ sent[t] + errors[t] < MaxSend
    /\ sent' = [sent EXCEPT ![t] = @ + 1]
    /\ net' = [net EXCEPT ![step] = @ + 1]
    /\ UNCHANGED <<mainVars, spc, sstop, errors, receiverVars, sock, dups, resultVars>>

\* sendPacket(): sendto failed, or took only a part of the packet.
SendFails(t) ==
    /\ mpc # "exit" /\ spc[t] = "sending" /\ sent[t] + errors[t] < MaxSend
    /\ errors' = [errors EXCEPT ![t] = @ + 1]
    /\ UNCHANGED <<mainVars, spc, sstop, sent, receiverVars, netVars, resultVars>>

\* runWithRateLimit or runWithoutRateLimit returns: the runtime is over, or
\* threadShouldStop() was seen.  The clock itself is modelled in SenderThread.
EndLoop(t) ==
    /\ mpc # "exit" /\ spc[t] = "sending"
    /\ spc' = [spc EXCEPT ![t] = "waiting"]
    /\ UNCHANGED <<mainVars, sstop, sent, errors, receiverVars, netVars, resultVars>>

\* waitForTimeout() returns, after the timeout or a request to stop, and run() ends.
EndTimeout(t) ==
    /\ mpc # "exit" /\ spc[t] = "waiting"
    /\ spc' = [spc EXCEPT ![t] = "idle"]
    /\ UNCHANGED <<mainVars, sstop, sent, errors, receiverVars, netVars, resultVars>>

SenderNext(t) ==
    SenderBegin(t) \/ Send(t) \/ SendFails(t) \/ EndLoop(t) \/ EndTimeout(t)

-----------------------------------------------------------------------------
(***************************************************************************)
(* The receiver thread: socketReady, receive, threadShouldStop, in a loop. *)
(***************************************************************************)

\* Mutant: run() does not clear the counter.
ReceiverBeginKeeps ==
    /\ mpc # "exit" /\ rpc = "starting"
    /\ rpc' = "listening"
    /\ UNCHANGED <<mainVars, senderVars, rstop, rcv, netVars, resultVars>>

ReceiverBegin ==
    /\ mpc # "exit" /\ rpc = "starting"
    /\ rpc' = "listening" /\ rcv' = ZeroSteps
    /\ UNCHANGED <<mainVars, senderVars, rstop, netVars, resultVars>>

\* Mutant: threadShouldStop() is not asked.
AfterReceiveGoesOn == "listening"

AfterReceive == IF rstop THEN "idle" ELSE "listening"

\* A round of the loop that counts an answer to a query of load step k.
Receive(k) ==
    /\ mpc # "exit" /\ rpc = "listening" /\ sock[k] > 0
    /\ sock' = [sock EXCEPT ![k] = @ - 1]
    /\ rcv' = [rcv EXCEPT ![k] = @ + 1]
    /\ rpc' = AfterReceive
    /\ UNCHANGED <<mainVars, senderVars, rstop, net, dups, resultVars>>

\* A round that counts nothing (select timed out or failed, or the packet is not
\* from the target) and sees the request to stop.  Without it the round is a stutter.
ReceiveNothing ==
    /\ mpc # "exit" /\ rpc = "listening" /\ rstop
    /\ rpc' = AfterReceive
    /\ UNCHANGED <<mainVars, senderVars, rstop, rcv, netVars, resultVars>>

ReceiverNext == ReceiverBegin \/ ReceiveNothing \/ \E k \in Steps : Receive(k)

-----------------------------------------------------------------------------
(***************************************************************************)
(* The network, the name server, and the user.  The raw socket is opened   *)
(* once, before the first load step, and buffers answers whether or not    *)
(* the receiver thread is running.  A query or answer that is lost (on the *)
(* way, or because that buffer is full) is one that stays in net.          *)
(***************************************************************************)

NetAnswer(k) ==
    /\ mpc # "exit" /\ rpc # "absent" /\ net[k] > 0
    /\ net' = [net EXCEPT ![k] = @ - 1]
    /\ sock' = [sock EXCEPT ![k] = @ + 1]
    /\ UNCHANGED <<mainVars, senderVars, receiverVars, dups, resultVars>>

\* An answer arrives twice; the query stays in net for the second copy.
NetDuplicate(k) ==
    /\ mpc # "exit" /\ rpc # "absent" /\ net[k] > 0 /\ dups[k] < MaxDup
    /\ dups' = [dups EXCEPT ![k] = @ + 1]
    /\ sock' = [sock EXCEPT ![k] = @ + 1]
    /\ UNCHANGED <<mainVars, senderVars, receiverVars, net, resultVars>>

NetNext == \E k \in Steps : NetAnswer(k) \/ NetDuplicate(k)

\* sighandler(); a further signal changes nothing.
Signal ==
    /\ mpc # "exit" /\ ~stopFlag
    /\ stopAt' = step + 1
    /\ UNCHANGED <<mpc, step, aborted, code, senderVars, receiverVars, netVars, resultVars>>

\* The process has ended.
Ended == mpc = "exit" /\ UNCHANGED vars

Next ==
    \/ MainNext
    \/ \E t \in Threads : SenderNext(t)
    \/ ReceiverNext
    \/ NetNext
    \/ Signal
    \/ Ended

\* Main and the receiver keep running, and a sender thread gets to the end of each
\* of its three phases: the last two are limited by the clock.
Fairness ==
    /\ WF_vars(MainNext)
    /\ WF_vars(ReceiverNext)
    /\ \A t \in Threads : /\ WF_vars(SenderBegin(t))
                          /\ WF_vars(EndLoop(t))
                          /\ WF_vars(EndTimeout(t))

Spec == Init /\ [][Next]_vars
FairSpec == Spec /\ Fairness

-----------------------------------------------------------------------------
(***************************************************************************)
(* Properties.                                                             *)
(***************************************************************************)

TypeOK ==
    /\ mpc \in MainPCs /\ step \in 0 .. Len(Rates) /\ stopAt \in Nat
    /\ aborted \in BOOLEAN /\ code \in {0, 1}
    /\ spc \in [Threads -> SenderPCs] /\ sstop \in [Threads -> BOOLEAN]
    /\ sent \in [Threads -> Nat] /\ errors \in [Threads -> Nat]
    /\ rpc \in ReceiverPCs /\ rstop \in BOOLEAN /\ rcv \in [Steps -> Nat]
    /\ net \in [Steps -> Nat] /\ sock \in [Steps -> Nat] /\ dups \in [Steps -> Nat]
    /\ todo \subseteq Threads /\ res \in Results /\ prev \in Results
    /\ rows \in Seq(Rows)

\* Where main is within the life of the two kinds of threads.
BeforeStart == {"begin", "startReceiver"}
Polling == {"poll", "stats", "statsReceiver", "show"}
Leaving == {"stopReceiver", "joinReceiver", "sample2"}
Concluding == {"final", "finalReceiver", "present"}

\* When presentResults prints a load step, its record holds what the threads
\* counted, and no thread is left that could still count: the record is read
\* thread by thread (getResults), but after every one of them has ended.  This
\* covers the interrupted step, whose senders ran on after the receiver ended.
FinalReadingExact ==
    mpc = "present" =>
        /\ ~PoolRunning /\ ~ReceiverRunning
        /\ res.sent = sent /\ res.errors = errors
        /\ res.rcv = IF rpc = "absent" THEN ZeroSteps ELSE rcv

\* The once-a-second line of showCurrentStats subtracts unsigned counters
\* (operator-): no counter it read may be behind the value of the line before,
\* although threads count, end and reset their counters meanwhile.
DiffNonNegative ==
    mpc = "show" =>
        /\ \A t \in Threads : /\ prev.sent[t] <= res.sent[t]
                              /\ prev.errors[t] <= res.errors[t]
        /\ \A k \in Steps : prev.rcv[k] <= res.rcv[k]

\* The receiver runs, and has not been asked to stop, for as long as any sender
\* sends or waits out its timeout, unless the user interrupts the test.
ListeningWhileAwaited ==
    (rpc # "absent" /\ ~stopFlag /\ PoolRunning /\ mpc # "exit") =>
        ReceiverRunning /\ ~rstop

\* Load steps are reported in order and once: an exit status of 0 means that every
\* step begun has its row, 1 that the last one has none; only a signal leaves steps
\* out, and the row of an interrupted step is the last.
ReportedOnce ==
    /\ \A i \in 1 .. Len(rows) :
           /\ rows[i].step = i
           /\ rows[i].interrupted => i = Len(rows) /\ mpc = "exit" /\ stopFlag
    /\ mpc = "exit" => Len(rows) = IF code = 0 THEN step ELSE step - 1
    /\ (mpc = "exit" /\ code = 0 /\ ~stopFlag) => Len(rows) = Len(Rates)

\* After SIGINT at most one further load step begins: the one whose run() is
\* entered before stopFlag is looked at again.
StopsPromptly == stopFlag => step <= stopAt

\* A counter only goes back when a sender enters run() for a new load step, and
\* what it wipes has been reported: the row of the step before holds the value.
NoResultWiped ==
    [][\A t \in Threads :
           (sent'[t] < sent[t] \/ errors'[t] < errors[t]) =>
               /\ Len(rows) = step - 1 /\ Len(rows) > 0
               /\ rows[Len(rows)].result.sent[t] = sent[t]
               /\ rows[Len(rows)].result.errors[t] = errors[t]]_vars

\* The implemented test, seen as the abstract one: a counter counts as zero from
\* the beginning of a load step until its thread has entered run() and reset it.
AbsPhase ==
    CASE mpc = "begin" -> "between"
      [] mpc = "exit" -> "over"
      [] OTHER -> "running"
AbsSent == [t \in Threads |->
              IF mpc \in {"startReceiver", "startThreads"} \/ spc[t] = "starting"
              THEN 0 ELSE sent[t]]
AbsCounted == [k \in Steps |->
                 IF mpc = "startReceiver" \/ rpc = "starting" THEN 0 ELSE rcv[k]]
AbsReports == [i \in 1 .. Len(rows) |->
                 [step |-> rows[i].step, sent |-> rows[i].result.sent,
                  counted |-> rows[i].result.rcv]]

Test == INSTANCE LoadTest WITH
            phase <- AbsPhase, sent <- AbsSent, counted <- AbsCounted,
            reports <- AbsReports

\* The program with its threads, its piecewise readings and its signal handler
\* implements the abstract load test: every report is an instantaneous and exact
\* account of its step, and nothing is sent or counted outside a step.
ImplementsLoadTest == Test!Spec

\* A test always comes to an end, interrupted or not.
Termination == <>(mpc = "exit")

-----------------------------------------------------------------------------
(***************************************************************************)
(* What the program prints are totals of the vectors above.                *)
(***************************************************************************)

Total(f) == FoldFunction(+, 0, f)

\* Queries put on the wire in load step k, of the steps so far.
SentIn(k) ==
    IF k <= Len(rows) THEN Total(rows[k].result.sent)
    ELSE IF k = step THEN Total(AbsSent) ELSE 0

\* Answers to queries of load step k counted so far: in the reports, and by the
\* receiver for the step that runs.
CountedOf(k) ==
    Total([i \in 1 .. Len(rows) |-> rows[i].result.rcv[k]])
    + IF Len(rows) < step THEN AbsCounted[k] ELSE 0

\* No answer is counted twice or forgotten, and none appears from nothing: the
\* queries sent and the copies the network made are in flight, in the socket, or
\* counted in exactly one load step.  Restarts of the receiver, which clears its
\* counter on entry, do not disturb this.
AnswersCountedOnce ==
    (mpc # "exit" /\ rpc # "absent") =>
        \A k \in Steps : net[k] + sock[k] + CountedOf(k) = SentIn(k) + dups[k]

\* The results of a load step are about the queries of that load step.
AnswersBelongToStep ==
    \A i \in 1 .. Len(rows) : \A k \in Steps : k # i => rows[i].result.rcv[k] = 0

\* Mutant: the difference is not set to 0 when more came back than was sent.
LostUnclamped(result) == (Total(result.sent) - Total(result.rcv)) % CounterRange

\* packages_lost, as getResults derives it from the two counters it has summed up.
Lost(result) ==
    IF Total(result.rcv) > Total(result.sent) THEN 0
    ELSE (Total(result.sent) - Total(result.rcv)) % CounterRange

\* The queries a load step reports as lost are among those of this step whose
\* answer has not been counted.  The program only subtracts two counters, one of
\* which also counts late answers to earlier steps and duplicates, so that the
\* number can be too small; it must never be too large.
LossNotOverstated ==
    (mpc = "present" /\ rpc # "absent") => Lost(res) <= net[step] + sock[step]

-----------------------------------------------------------------------------
(***************************************************************************)
(* The inductive invariant behind the safety properties, in four parts.    *)
(***************************************************************************)

\* Where the threads can be, given where main is.
ThreadPhases ==
    /\ mpc \in BeforeStart => ~PoolRunning /\ ~ReceiverRunning
    /\ mpc = "startThreads" => ~PoolRunning
    /\ mpc # "warmup" => \A t \in Threads : spc[t] # "starting"
    /\ mpc \in {"startThreads", "warmup", "stopReceiver"} \cup Polling =>
           rpc = "absent" \/ (ReceiverRunning /\ ~rstop)
    /\ mpc \in Polling \cup {"stopReceiver", "joinReceiver"} => rpc # "starting"
    /\ mpc \in {"sample2", "stopThreads", "joinThreads"} \cup Concluding => ~ReceiverRunning
    /\ mpc \in Leaving => ~PoolRunning \/ stopFlag
    /\ mpc \in {"stopThreads", "joinThreads"} => stopFlag
    /\ mpc \in Concluding => ~PoolRunning

\* How a reading of getResults relates to the counters and to the reading before.
Readings ==
    /\ mpc \in {"startReceiver", "startThreads", "warmup"} => prev = ClearedResults
    /\ mpc \in Polling =>
           /\ \A t \in Threads : prev.sent[t] <= sent[t] /\ prev.errors[t] <= errors[t]
           /\ \A k \in Steps : prev.rcv[k] <= rcv[k]
    /\ mpc \in {"stats", "statsReceiver", "show"} =>
           \A t \in Threads \ todo :
               /\ prev.sent[t] <= res.sent[t] /\ res.sent[t] <= sent[t]
               /\ prev.errors[t] <= res.errors[t] /\ res.errors[t] <= errors[t]
    /\ mpc = "show" =>
           \A k \in Steps : prev.rcv[k] <= res.rcv[k] /\ res.rcv[k] <= rcv[k]
    /\ mpc \in Concluding =>
           \A t \in Threads \ todo : res.sent[t] = sent[t] /\ res.errors[t] = errors[t]
    /\ mpc \in {"statsReceiver", "show", "finalReceiver", "present"} => todo = {}
    /\ mpc = "present" /\ rpc # "absent" => res.rcv = rcv
    /\ rpc = "absent" => /\ rcv = ZeroSteps
                         /\ prev.rcv = ZeroSteps /\ res.rcv = ZeroSteps

\* The reports so far, the signal, and the counters a new load step will reset.
Reporting ==
    /\ mpc = "begin" => Len(rows) = step
    /\ mpc \notin {"begin", "exit"} => Len(rows) = step - 1
    /\ mpc = "exit" => Len(rows) = IF code = 0 THEN step ELSE step - 1
    /\ mpc # "exit" => code = 0
    /\ mpc \notin Concluding \cup {"exit"} => ~aborted
    /\ aborted => stopFlag
    /\ \A i \in 1 .. Len(rows) :
           /\ rows[i].step = i
           /\ rows[i].interrupted => i = Len(rows) /\ mpc = "exit" /\ stopFlag
    /\ mpc = "exit" /\ code = 0 /\ ~stopFlag => step = Len(Rates)
    /\ stopFlag => step <= stopAt
    /\ stopFlag /\ ~aborted /\ mpc \in Concluding \cup {"begin"} => step < stopAt
    /\ \A t \in Threads :
           mpc \in {"begin", "startReceiver", "startThreads"} \/ spc[t] = "starting" =>
               IF Len(rows) = 0
               THEN sent[t] = 0 /\ errors[t] = 0
               ELSE /\ rows[Len(rows)].result.sent[t] = sent[t]
                    /\ rows[Len(rows)].result.errors[t] = errors[t]

\* Nothing is under way for a load step that has not begun.
InFlight == \A k \in Steps : k > step => net[k] = 0 /\ sock[k] = 0

\* The invariant every step of the program preserves.  It says, for every point of
\* main's code, which threads can still touch the counters main is about to read.
SessionInv == TypeOK /\ ThreadPhases /\ Readings /\ Reporting /\ InFlight

\* No answer has been counted before its load step began.
NothingEarly ==
    \A k \in Steps :
        /\ k > step => rcv[k] = 0
        /\ \A i \in 1 .. Len(rows) : k > i => rows[i].result.rcv[k] = 0
=============================================================================
